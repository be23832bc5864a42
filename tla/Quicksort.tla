------------------------------ MODULE Quicksort ------------------------------
(***************************************************************************)
(* qsort.c (the same file in driver and error_logger): Bentley and         *)
(* McIlroy's quicksort, on a sequence of keys.  An index is the position   *)
(* of an element, where the code has a pointer to it; a part of the        *)
(* sequence is given by its first index a and its length n.                *)
(***************************************************************************)
EXTENDS Integers, Sequences, SequencesExt

swap(s, i, j) == [s EXCEPT ![i] = s[j], ![j] = s[i]]

(* Exchanges the r elements that begin at i with those that begin at j. *)
vecswap(s, i, j, r) ==
    [k \in DOMAIN s |-> IF k \in i .. i + r - 1 THEN s[k - i + j]
                        ELSE IF k \in j .. j + r - 1 THEN s[k - j + i]
                        ELSE s[k]]

(* The index of the middle one of three elements. *)
med3(s, i, j, k) ==
    IF s[i] < s[j]
    THEN IF s[j] < s[k] THEN j ELSE IF s[i] < s[k] THEN k ELSE i
    ELSE IF s[j] > s[k] THEN j ELSE IF s[i] < s[k] THEN i ELSE k

RECURSIVE MoveDown(_, _, _)
MoveDown(s, a, pl) ==
    IF pl > a /\ s[pl - 1] > s[pl] THEN MoveDown(swap(s, pl, pl - 1), a, pl - 1) ELSE s

InsertionSort(s, a, n) ==
    FoldLeft(LAMBDA t, pm : MoveDown(t, a, pm), s, [k \in 1 .. n - 1 |-> a + k])

Pivot(s, a, n) ==
    LET d  == n \div 8
        pm == a + (n \div 2)
        pn == a + n - 1
    IN  CASE n > 40 -> med3(s, med3(s, a, a + d, a + 2 * d),
                               med3(s, pm - d, pm, pm + d),
                               med3(s, pn - 2 * d, pn - d, pn))
          [] n > 7 /\ n <= 40 -> med3(s, a, pm, pn)
          [] n <= 7 -> pm

(* The two scans: what equals the pivot, which is at index a, is gathered  *)
(* at both ends.                                                           *)
RECURSIVE ScanUp(_, _)
ScanUp(p, a) ==
    IF p.pb > p.pc \/ p.s[p.pb] > p.s[a] THEN p
    ELSE IF p.s[p.pb] = p.s[a]
    THEN ScanUp([p EXCEPT !.s = swap(p.s, p.pa, p.pb), !.pa = @ + 1, !.pb = @ + 1, !.swapped = TRUE], a)
    ELSE ScanUp([p EXCEPT !.pb = @ + 1], a)

RECURSIVE ScanDown(_, _)
ScanDown(p, a) ==
    IF p.pb > p.pc \/ p.s[p.pc] < p.s[a] THEN p
    ELSE IF p.s[p.pc] = p.s[a]
    THEN ScanDown([p EXCEPT !.s = swap(p.s, p.pc, p.pd), !.pd = @ - 1, !.pc = @ - 1, !.swapped = TRUE], a)
    ELSE ScanDown([p EXCEPT !.pc = @ - 1], a)

RECURSIVE Partition(_, _)
Partition(p, a) ==
    LET q == ScanDown(ScanUp(p, a), a)
    IN  IF q.pb > q.pc THEN q
        ELSE Partition([q EXCEPT !.s = swap(q.s, q.pb, q.pc), !.pb = @ + 1, !.pc = @ - 1,
                                 !.swapped = TRUE], a)

Smaller(i, j) == IF i < j THEN i ELSE j

(* Mutant: the elements equal to the pivot stay at the upper end. *)
Bug_EqualsStay(q, a, n) ==
    LET r1 == Smaller(q.pa - a, q.pb - q.pa)
    IN  vecswap(q.s, a, q.pb - r1, r1)

(* Moves what equals the pivot to the middle. *)
GatherEquals(q, a, n) ==
    LET r1 == Smaller(q.pa - a, q.pb - q.pa)
        r2 == Smaller(q.pd - q.pc, a + n - q.pd - 1)
    IN  vecswap(vecswap(q.s, a, q.pb - r1, r1), q.pb, a + n - r2, r2)

RECURSIVE qsort_imp(_, _, _)
qsort_imp(s, a, n) ==
    IF n < 7 THEN InsertionSort(s, a, n)
    ELSE LET q == Partition([s |-> swap(s, a, Pivot(s, a, n)), pa |-> a + 1, pb |-> a + 1,
                             pc |-> a + n - 1, pd |-> a + n - 1, swapped |-> FALSE], a)
             below == q.pb - q.pa
             above == q.pd - q.pc
             t == GatherEquals(q, a, n)
             u == IF below > 1 THEN qsort_imp(t, a, below) ELSE t
         IN  IF ~q.swapped THEN InsertionSort(q.s, a, n)
             ELSE IF above > 1 THEN qsort_imp(u, a + n - above, above) ELSE u
=============================================================================
