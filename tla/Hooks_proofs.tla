----------------------------- MODULE Hooks_proofs -----------------------------
(***************************************************************************)
(* Proofs about the three groups of hooks that keep state, DeviceRings,   *)
(* VfsHooks and IoHooks, for any threads, any sizes of the arrays, any     *)
(* choice of hooks and any depth of nested calls, and about the lists of   *)
(* HookTable that set, report and release the hooks.                       *)
(***************************************************************************)
EXTENDS VfsHooks, IoHooks, DeviceRings, HookTable, SequenceTheorems, TLAPS

-----------------------------------------------------------------------------
(* The rings of devices and mounts. *)

RingTypeOK ==
    /\ ring \in Rings
    /\ index \in Nat
    /\ entries \in [0 .. RingSize(ring) - 1 -> Nat]
    /\ doing \in [RingThread -> [at : {"idle", "original", "next", "wrap"}, call : Nat]]
    /\ \A t \in RingThread : doing[t].at # "idle" => doing[t].call # 0
    /\ begun \in Nat
    /\ stored \in Seq(Nat \ {0})
    /\ overran \in BOOLEAN
    /\ crossed \in BOOLEAN

(* Positions in an array of N entries: p, which may be one past the end,   *)
(* brought back into it, and the one j entries before p.                   *)
Place(N, p) == IF p = N THEN 0 ELSE p
Before(N, p, j) == IF p >= j THEN p - j ELSE p - j + N

(* Read backwards from p, the entries es are what was stored, st, read     *)
(* backwards, and an entry that was never stored is a zero.                *)
InOrder(N, es, st, p) ==
    /\ \A j \in 1 .. N : j <= Len(st) => es[Before(N, p, j)] = st[Len(st) - j + 1]
    /\ Len(st) < N => p = Len(st) /\ \A i \in Len(st) .. N - 1 : es[i] = 0

(* The place of the next entry, whatever the call that stored the last one *)
(* has still to do to the index.                                           *)
Cursor == Place(RingSize(ring), IF \E t \in RingThread : doing[t].at = "next" THEN index + 1 ELSE index)

(* One call at a time is between its store and its wrap. *)
OneStorer ==
    /\ \A t, u \in RingThread :
          doing[t].at \in {"next", "wrap"} /\ doing[u].at \in {"next", "wrap"} => t = u
    /\ \/ index \in 0 .. RingSize(ring) - 1
       \/ index = RingSize(ring) /\ \E t \in RingThread : doing[t].at = "wrap"

RingInv ==
    /\ RingTypeOK
    /\ ~crossed => ~overran /\ OneStorer /\ InOrder(RingSize(ring), entries, stored, Cursor)

(* An array has room for at least one entry. *)
LEMMA RingSizePositive ==
  ASSUME NEW r
  PROVE  RingSize(r) \in Nat /\ RingSize(r) >= 1
  BY RingAssumption DEF RingSize

(* Every step of a hook keeps the types. *)
LEMMA RingTypes ==
  ASSUME RingTypeOK, [RingNext]_ringVars
  PROVE  RingTypeOK'
<1>1. CASE UNCHANGED ringVars
  BY <1>1 DEF ringVars, RingTypeOK
<1>2. ASSUME NEW t \in RingThread, Begin(t)
      PROVE  RingTypeOK'
  BY <1>2 DEF Begin, RingTypeOK
<1>3. ASSUME NEW t \in RingThread, Store(t)
      PROVE  RingTypeOK'
  <2>1. doing[t].call \in Nat \ {0}
    BY <1>3 DEF Store, RingTypeOK
  <2>2. entries' \in [0 .. RingSize(ring) - 1 -> Nat] /\ ring' = ring
    BY <1>3, <2>1 DEF Store, RingTypeOK
  <2>3. stored' \in Seq(Nat \ {0})
    BY <1>3, <2>1, AppendProperties DEF Store, RingTypeOK
  <2>4. overran' \in BOOLEAN
    BY <1>3 DEF Store
  <2>5. crossed' \in BOOLEAN
    BY <1>3 DEF Store
  <2>6. /\ doing' \in [RingThread -> [at : {"idle", "original", "next", "wrap"}, call : Nat]]
        /\ \A u \in RingThread : doing'[u].call = doing[u].call
    BY <1>3 DEF Store, RingTypeOK
  <2>7. \A u \in RingThread : doing'[u].at # "idle" => doing'[u].call # 0
    BY <1>3, <2>1, <2>6 DEF Store, RingTypeOK
  <2>8. index' \in Nat /\ begun' \in Nat
    BY <1>3 DEF Store, RingTypeOK
  <2>9. QED
    BY <2>2, <2>3, <2>4, <2>5, <2>6, <2>7, <2>8 DEF RingTypeOK
<1>4. ASSUME NEW t \in RingThread, NextIndex(t)
      PROVE  RingTypeOK'
  BY <1>4 DEF NextIndex, RingTypeOK
<1>5. ASSUME NEW t \in RingThread, Wrap(t)
      PROVE  RingTypeOK'
  <2>1. /\ doing' \in [RingThread -> [at : {"idle", "original", "next", "wrap"}, call : Nat]]
        /\ \A u \in RingThread : u # t => doing'[u] = doing[u]
        /\ doing'[t].at = "idle"
    BY <1>5 DEF Wrap, RingTypeOK, Idle
  <2>2. \A u \in RingThread : doing'[u].at # "idle" => doing'[u].call # 0
    BY <2>1 DEF RingTypeOK
  <2>3. index' \in Nat
    BY <1>5 DEF Wrap, RingTypeOK
  <2>4. QED
    BY <1>5, <2>1, <2>2, <2>3 DEF Wrap, RingTypeOK
<1>6. QED
  BY <1>1, <1>2, <1>3, <1>4, <1>5 DEF RingNext

(* Storing at a place and moving on keeps an array in order. *)
LEMMA StoreInOrder ==
  ASSUME NEW N \in Nat \ {0}, NEW es \in [0 .. N - 1 -> Nat], NEW st \in Seq(Nat \ {0}),
         NEW p \in 0 .. N - 1, InOrder(N, es, st, p), NEW c \in Nat \ {0}
  PROVE  InOrder(N, [es EXCEPT ![p] = c], Append(st, c), Place(N, p + 1))
<1> DEFINE n == Len(st)
           q == Place(N, p + 1)
           fs == [es EXCEPT ![p] = c]
           ts == Append(st, c)
<1>1. /\ n \in Nat /\ Len(ts) = n + 1 /\ ts[n + 1] = c
      /\ \A i \in 1 .. n : ts[i] = st[i]
  BY AppendProperties
<1>2. fs[p] = c /\ \A i \in 0 .. N - 1 : i # p => fs[i] = es[i]
  OBVIOUS
<1>3. q = (IF p + 1 = N THEN 0 ELSE p + 1)
  BY DEF Place
<1> HIDE DEF n, q, fs, ts
<1>4. Before(N, q, 1) = p
  BY <1>3 DEF Before
<1>5. ASSUME NEW j \in 1 .. N - 1
      PROVE  Before(N, q, j + 1) = Before(N, p, j) /\ Before(N, p, j) \in 0 .. N - 1 /\ Before(N, p, j) # p
  BY <1>3 DEF Before
<1>6. ASSUME NEW j \in 1 .. N, j <= n + 1
      PROVE  fs[Before(N, q, j)] = ts[n + 1 - j + 1]
  <2>1. CASE j = 1
    BY <1>1, <1>2, <1>4, <2>1
  <2>2. CASE j # 1
    <3>1. j - 1 \in 1 .. N - 1 /\ j - 1 <= n /\ (j - 1) + 1 = j
      BY <1>1, <1>6, <2>2
    <3>2. fs[Before(N, q, j)] = es[Before(N, p, j - 1)]
      BY <1>2, <1>5, <3>1
    <3>3. es[Before(N, p, j - 1)] = st[n - (j - 1) + 1]
      BY <3>1 DEF InOrder, n
    <3>4. n - (j - 1) + 1 \in 1 .. n /\ n - (j - 1) + 1 = n + 1 - j + 1
      BY <1>1, <3>1
    <3>5. QED
      BY <1>1, <3>2, <3>3, <3>4
  <2>3. QED
    BY <2>1, <2>2
<1>7. n + 1 < N => q = n + 1 /\ \A i \in n + 1 .. N - 1 : fs[i] = 0
  <2>1. n < N => p = n /\ \A i \in n .. N - 1 : es[i] = 0
    BY DEF InOrder, n
  <2>2. QED
    BY <1>1, <1>2, <1>3, <2>1
<1>8. InOrder(N, fs, ts, q)
  BY <1>1, <1>6, <1>7 DEF InOrder
<1>9. QED
  BY <1>8 DEF fs, ts, q

(* An array in order holds the last that were stored, each at a place of   *)
(* its own, and nothing else.                                              *)
LEMMA InOrderHoldsLast ==
  ASSUME NEW N \in Nat \ {0}, NEW es \in [0 .. N - 1 -> Nat], NEW st \in Seq(Nat \ {0}),
         NEW p \in 0 .. N - 1, InOrder(N, es, st, p)
  PROVE  {es[i] : i \in DOMAIN es} \ {0} = {LastOf(st, N)[i] : i \in DOMAIN LastOf(st, N)}
<1> DEFINE n == Len(st)
           a == IF n > N THEN n - N + 1 ELSE 1
           last == LastOf(st, N)
<1>1. n \in Nat /\ a \in 1 .. n + 1 /\ n - a + 1 <= N /\ (n > N => n - a + 1 = N) /\ (n <= N => a = 1)
  OBVIOUS
<1>2. \A i \in a .. n : st[i] \in Nat \ {0}
  BY <1>1, ElementOfSeq
<1>0. last = SubSeq(st, a, n)
  BY DEF LastOf
<1> HIDE DEF last, a, n
<1>3. /\ last \in Seq(Nat \ {0}) /\ Len(last) = n - a + 1
      /\ \A i \in 1 .. n - a + 1 : last[i] = st[a + i - 1]
  <2>1. a \in Int /\ n \in Int /\ (a <= n \/ n - a + 1 = 0)
    BY <1>1
  <2>2. /\ SubSeq(st, a, n) \in Seq(Nat \ {0})
        /\ Len(SubSeq(st, a, n)) = IF a <= n THEN n - a + 1 ELSE 0
        /\ \A i \in 1 .. n - a + 1 : SubSeq(st, a, n)[i] = st[a + i - 1]
    BY <1>2, <2>1, SubSeqProperties
  <2>3. QED
    BY <1>0, <2>1, <2>2
<1>4. DOMAIN last = 1 .. n - a + 1
  BY <1>3, LenProperties
<1>5. ASSUME NEW i \in 0 .. N - 1, es[i] # 0
      PROVE  \E k \in DOMAIN last : es[i] = last[k]
  <2> DEFINE j == IF p > i THEN p - i ELSE p - i + N
  <2>1. j \in 1 .. N /\ Before(N, p, j) = i
    BY DEF Before
  <2>2. j <= n
    <3>1. n < N => p = n /\ \A h \in n .. N - 1 : es[h] = 0
      BY DEF InOrder, n
    <3>2. QED
      BY <1>1, <1>5, <2>1, <3>1
  <2> HIDE DEF j
  <2>3. es[i] = st[n - j + 1]
    BY <2>1, <2>2 DEF InOrder, n
  <2>4. n - j + 1 - a + 1 \in 1 .. n - a + 1 /\ a + (n - j + 1 - a + 1) - 1 = n - j + 1
    BY <1>1, <2>1, <2>2
  <2>5. QED
    BY <1>3, <1>4, <2>3, <2>4
<1>6. ASSUME NEW k \in 1 .. n - a + 1
      PROVE  last[k] # 0 /\ \E i \in DOMAIN es : last[k] = es[i]
  <2> DEFINE m == a + k - 1
             j == n - m + 1
  <2>1. last[k] = st[m] /\ m \in a .. n
    BY <1>1, <1>3
  <2> HIDE DEF m
  <2>2. j \in 1 .. N /\ j <= n /\ n - j + 1 = m
    BY <1>1, <2>1
  <2> HIDE DEF j
  <2>3. es[Before(N, p, j)] = st[m]
    BY <2>2 DEF InOrder, n
  <2>4. Before(N, p, j) \in 0 .. N - 1
    BY <2>2 DEF Before
  <2>5. QED
    BY <1>2, <2>1, <2>3, <2>4
<1>7. QED
  BY <1>4, <1>5, <1>6 DEF last

(* The inductive step for the rings. *)
LEMMA RingStep ==
  ASSUME RingInv, [RingNext]_ringVars
  PROVE  RingInv'
<1>1. RingTypeOK /\ RingTypeOK'
  BY RingTypes DEF RingInv
<1>2. SUFFICES ASSUME ~crossed'
               PROVE  ~overran' /\ OneStorer' /\ InOrder(RingSize(ring), entries, stored, Cursor)'
  BY <1>1 DEF RingInv
<1>3. ~crossed
  BY <1>2 DEF RingNext, ringVars, Begin, Store, NextIndex, Wrap
<1>4. ~overran /\ OneStorer /\ InOrder(RingSize(ring), entries, stored, Cursor)
  BY <1>3 DEF RingInv
<1> DEFINE N == RingSize(ring)
<1>5. N \in Nat /\ N >= 1
  BY RingSizePositive
<1>7. CASE UNCHANGED ringVars
  BY <1>4, <1>7 DEF ringVars, OneStorer, Cursor
<1>8. ASSUME NEW t \in RingThread, Begin(t)
      PROVE  ~overran' /\ OneStorer' /\ InOrder(RingSize(ring), entries, stored, Cursor)'
  <2>1. /\ UNCHANGED <<ring, index, entries, stored, overran>>
        /\ doing[t].at = "idle" /\ doing'[t].at = "original"
        /\ \A u \in RingThread : u # t => doing'[u] = doing[u]
    BY <1>1, <1>8 DEF Begin, Idle, RingTypeOK
  <2>2. OneStorer'
    BY <1>4, <2>1 DEF OneStorer
  <2>3. (\E u \in RingThread : doing'[u].at = "next") <=> \E u \in RingThread : doing[u].at = "next"
    BY <2>1
  <2>4. Cursor' = Cursor
    BY <2>1, <2>3 DEF Cursor
  <2>5. QED
    BY <1>4, <2>1, <2>2, <2>4
<1>9. ASSUME NEW t \in RingThread, Store(t)
      PROVE  ~overran' /\ OneStorer' /\ InOrder(RingSize(ring), entries, stored, Cursor)'
  <2>1. /\ UNCHANGED <<ring, index>> /\ stored' = Append(stored, doing[t].call)
        /\ doing[t].at = "original" /\ doing'[t].at = "next"
        /\ \A u \in RingThread : u # t => doing'[u] = doing[u]
        /\ doing[t].call \in Nat \ {0}
    BY <1>1, <1>9 DEF Store, RingTypeOK
  <2>2. \A u \in RingThread : doing[u].at \notin {"next", "wrap"}
    BY <1>2, <1>9 DEF Store
  <2>3. index \in 0 .. N - 1 /\ Cursor = index
    BY <1>4, <1>5, <2>2 DEF OneStorer, Cursor, Place
  <2>4. entries' = [entries EXCEPT ![index] = doing[t].call] /\ overran' = overran
    BY <1>1, <1>9, <2>3 DEF Store, RingTypeOK
  <2>5. OneStorer'
    BY <2>1, <2>2, <2>3 DEF OneStorer
  <2>6. Cursor' = Place(N, index + 1)
    BY <2>1 DEF Cursor
  <2>7. InOrder(N, entries', stored', Place(N, index + 1))
    <3>1. entries \in [0 .. N - 1 -> Nat] /\ stored \in Seq(Nat \ {0}) /\ N \in Nat \ {0}
      BY <1>1, <1>5 DEF RingTypeOK
    <3>2. InOrder(N, entries, stored, index)
      BY <1>4, <2>3
    <3> HIDE DEF N
    <3>3. QED
      BY <2>1, <2>3, <2>4, <3>1, <3>2, StoreInOrder
  <2>8. QED
    BY <1>4, <2>1, <2>4, <2>5, <2>6, <2>7
<1>10. ASSUME NEW t \in RingThread, NextIndex(t)
       PROVE  ~overran' /\ OneStorer' /\ InOrder(RingSize(ring), entries, stored, Cursor)'
  <2>1. /\ UNCHANGED <<ring, entries, stored, overran>> /\ index' = index + 1
        /\ doing[t].at = "next" /\ doing'[t].at = "wrap"
        /\ \A u \in RingThread : u # t => doing'[u] = doing[u]
    BY <1>1, <1>10 DEF NextIndex, RingTypeOK
  <2>2. /\ \A u \in RingThread : u # t => doing[u].at \notin {"next", "wrap"}
        /\ index \in 0 .. N - 1
    BY <1>4, <2>1 DEF OneStorer
  <2>3. OneStorer'
    BY <1>5, <2>1, <2>2 DEF OneStorer
  <2>4. ~(\E u \in RingThread : doing'[u].at = "next")
    BY <2>1, <2>2
  <2>5. Cursor' = Cursor
    BY <2>1, <2>4 DEF Cursor
  <2>6. QED
    BY <1>4, <2>1, <2>3, <2>5
<1>11. ASSUME NEW t \in RingThread, Wrap(t)
       PROVE  ~overran' /\ OneStorer' /\ InOrder(RingSize(ring), entries, stored, Cursor)'
  <2>1. /\ UNCHANGED <<ring, entries, stored, overran>> /\ index' = Place(N, index)
        /\ doing[t].at = "wrap" /\ doing'[t].at = "idle"
        /\ \A u \in RingThread : u # t => doing'[u] = doing[u]
    BY <1>1, <1>11 DEF Wrap, Idle, Place, RingTypeOK
  <2>2. \A u \in RingThread : u # t => doing[u].at \notin {"next", "wrap"}
    BY <1>4, <2>1 DEF OneStorer
  <2>3. index' \in 0 .. N - 1 /\ Place(N, index') = index'
    <3>1. index \in 0 .. N - 1 \/ index = N
      BY <1>4 DEF OneStorer
    <3> HIDE DEF N
    <3>2. QED
      BY <1>1, <1>5, <2>1, <3>1 DEF Place, RingTypeOK
  <2>4. OneStorer'
    BY <2>1, <2>2, <2>3 DEF OneStorer
  <2>5. /\ ~(\E u \in RingThread : doing'[u].at = "next")
        /\ ~(\E u \in RingThread : doing[u].at = "next")
    BY <2>1, <2>2
  <2>6. Cursor' = Cursor
    BY <2>1, <2>3, <2>5 DEF Cursor
  <2>7. QED
    BY <1>4, <2>1, <2>4, <2>6
<1>12. QED
  BY <1>7, <1>8, <1>9, <1>10, <1>11 DEF RingNext

(* The arrays hold the calls that stored last, each once, and no entry     *)
(* lands outside, as long as no two calls overlapped between their store   *)
(* and their wrap (hooks_misc.c, init_mmc_hook, init_sd_hook and           *)
(* iofilemgr_sceVfsGetNewNode_hook), for arrays of any size and any number *)
(* of threads and calls.                                                   *)
THEOREM RingsKeepLast == RingSpec => []KeepsLast
<1>1. RingInit => RingInv
  <2>1. SUFFICES ASSUME RingInit PROVE RingInv
    OBVIOUS
  <2>2. RingSize(ring) \in Nat /\ RingSize(ring) >= 1
    BY RingSizePositive
  <2>3. overran \in BOOLEAN /\ crossed \in BOOLEAN /\ ~overran
    BY <2>1, Zenon DEF RingInit
  <2>4. stored = <<>> /\ stored \in Seq(Nat \ {0}) /\ Len(stored) = 0
    BY <2>1, EmptySeq DEF RingInit
  <2>5. RingTypeOK
    BY <2>1, <2>3, <2>4 DEF RingInit, RingTypeOK, EmptyRing, Idle
  <2>6. OneStorer
    BY <2>1, <2>2 DEF RingInit, OneStorer, Idle
  <2>7. Cursor = 0
    BY <2>1, <2>2 DEF RingInit, Cursor, Idle, Place
  <2>8. InOrder(RingSize(ring), entries, stored, Cursor)
    BY <2>1, <2>2, <2>4, <2>7 DEF RingInit, InOrder, EmptyRing
  <2>9. QED
    BY <2>3, <2>5, <2>6, <2>8 DEF RingInv
<1>2. RingInv => KeepsLast
  <2>1. SUFFICES ASSUME RingInv, ~crossed PROVE KeepsLast
    BY DEF KeepsLast
  <2>2. /\ RingTypeOK /\ ~overran /\ OneStorer
        /\ InOrder(RingSize(ring), entries, stored, Cursor)
    BY <2>1 DEF RingInv
  <2>3. RingSize(ring) \in Nat \ {0}
    BY RingSizePositive
  <2>4. Cursor \in 0 .. RingSize(ring) - 1
    BY <2>2, <2>3 DEF RingTypeOK, OneStorer, Cursor, Place
  <2>5. {entries[i] : i \in DOMAIN entries} \ {0}
          = {LastOf(stored, RingSize(ring))[i] : i \in DOMAIN LastOf(stored, RingSize(ring))}
    BY <2>2, <2>3, <2>4, InOrderHoldsLast DEF RingTypeOK
  <2>6. QED
    BY <2>2, <2>5 DEF KeepsLast
<1>3. QED
  BY <1>1, <1>2, RingStep, PTL DEF RingSpec

-----------------------------------------------------------------------------
(* The hooks on the file system's operations. *)

VfsFrame == [hook : VfsWatched, at : Points]

(* Only the hooks with a flag test, log and write a tail. *)
VfsTypeOK ==
    /\ entered \in [VfsGuarded -> {0, 1}]
    /\ stack \in [VfsThread -> Seq(VfsFrame)]
    /\ met \in SUBSET VfsGuarded
    /\ \A t \in VfsThread : \A i \in DOMAIN stack[t] :
          stack[t][i].at # "original" => stack[t][i].hook \in VfsGuarded

(* Call i of thread t is writing the report of hook h. *)
Reports(t, i, h) == stack[t][i].hook = h /\ stack[t][i].at = "log"

(* While no two calls of a hook wrote their reports together, the one that *)
(* does has the flag set.                                                  *)
OneReport ==
    \A h \in VfsGuarded \ met : \A t, u \in VfsThread :
        \A i \in DOMAIN stack[t], j \in DOMAIN stack[u] :
            /\ Reports(t, i, h) => entered[h] = 1
            /\ Reports(t, i, h) /\ Reports(u, j, h) => t = u /\ i = j

VfsInv == VfsTypeOK /\ GuardNotStuck /\ OneReport /\ NoRecursion

(* A call is put on top of a thread's calls. *)
LEMMA PushCall ==
  ASSUME NEW S, NEW s \in Seq(S), NEW e \in S
  PROVE  /\ Append(s, e) \in Seq(S)
         /\ DOMAIN s = 1 .. Len(s) /\ Len(s) \in Nat
         /\ DOMAIN Append(s, e) = 1 .. Len(s) + 1
         /\ Append(s, e)[Len(s) + 1] = e
         /\ \A i \in DOMAIN s : Append(s, e)[i] = s[i]
  BY AppendProperties, LenProperties

(* The topmost call returns. *)
LEMMA PopCall ==
  ASSUME NEW S, NEW s \in Seq(S), s # <<>>
  PROVE  /\ SubSeq(s, 1, Len(s) - 1) \in Seq(S)
         /\ DOMAIN s = 1 .. Len(s) /\ Len(s) \in Nat \ {0}
         /\ DOMAIN SubSeq(s, 1, Len(s) - 1) = 1 .. Len(s) - 1
         /\ \A i \in 1 .. Len(s) - 1 : SubSeq(s, 1, Len(s) - 1)[i] = s[i]
<1> DEFINE n == Len(s) - 1
<1>1. Len(s) \in Nat \ {0} /\ n \in Nat /\ DOMAIN s = 1 .. Len(s)
  BY EmptySeq, LenProperties
<1>2. \A i \in 1 .. n : s[i] \in S
  BY <1>1, ElementOfSeq
<1> HIDE DEF n
<1>3. /\ SubSeq(s, 1, n) \in Seq(S)
      /\ Len(SubSeq(s, 1, n)) = IF 1 <= n THEN n - 1 + 1 ELSE 0
      /\ \A i \in 1 .. n - 1 + 1 : SubSeq(s, 1, n)[i] = s[1 + i - 1]
  BY <1>1, <1>2, SubSeqProperties
<1>4. Len(SubSeq(s, 1, n)) = n /\ \A i \in 1 .. n : SubSeq(s, 1, n)[i] = s[i]
  BY <1>1, <1>3
<1>5. DOMAIN SubSeq(s, 1, n) = 1 .. n
  BY <1>3, <1>4, LenProperties
<1>6. QED
  BY <1>1, <1>3, <1>4, <1>5 DEF n

(* The topmost call becomes e. *)
LEMMA ChangeCall ==
  ASSUME NEW S, NEW s \in Seq(S), s # <<>>, NEW e \in S
  PROVE  /\ [s EXCEPT ![Len(s)] = e] \in Seq(S)
         /\ DOMAIN s = 1 .. Len(s) /\ Len(s) \in DOMAIN s
         /\ DOMAIN [s EXCEPT ![Len(s)] = e] = DOMAIN s
         /\ [s EXCEPT ![Len(s)] = e][Len(s)] = e
         /\ \A i \in DOMAIN s : i # Len(s) => [s EXCEPT ![Len(s)] = e][i] = s[i]
<1>1. Len(s) \in Nat \ {0} /\ DOMAIN s = 1 .. Len(s)
  BY EmptySeq, LenProperties
<1>2. [s EXCEPT ![Len(s)] = e] \in Seq(S)
  BY <1>1, ExceptSeq
<1>3. QED
  BY <1>1, <1>2

(* A step inside a hook changes where the topmost call is and leaves the   *)
(* others.                                                                 *)
LEMMA GotoFrames ==
  ASSUME VfsTypeOK, NEW t \in VfsThread, stack[t] # <<>>, NEW p \in Points, Goto(t, p)
  PROVE  /\ stack' \in [VfsThread -> Seq(VfsFrame)]
         /\ \A u \in VfsThread : u # t => stack'[u] = stack[u]
         /\ Len(stack[t]) \in DOMAIN stack[t] /\ DOMAIN stack'[t] = DOMAIN stack[t]
         /\ \A i \in DOMAIN stack[t] : i <= Len(stack[t]) /\ i \in Nat
         /\ stack'[t][Len(stack[t])] = [hook |-> Top(t).hook, at |-> p]
         /\ \A i \in DOMAIN stack[t] : i # Len(stack[t]) => stack'[t][i] = stack[t][i]
<1> DEFINE s == stack[t]
           e == [hook |-> Top(t).hook, at |-> p]
<1>1. s \in Seq(VfsFrame) /\ s # <<>>
  BY DEF VfsTypeOK
<1>2. DOMAIN s = 1 .. Len(s) /\ Len(s) \in Nat \ {0} /\ Top(t) \in VfsFrame
  BY <1>1, PopCall, ElementOfSeq DEF Top
<1>3. e \in VfsFrame /\ e = [s[Len(s)] EXCEPT !.at = p]
  BY <1>2 DEF VfsFrame, Top
<1>4. stack' = [stack EXCEPT ![t] = [s EXCEPT ![Len(s)] = e]]
  BY <1>3 DEF Goto
<1> HIDE DEF e
<1>5. /\ [s EXCEPT ![Len(s)] = e] \in Seq(VfsFrame)
      /\ Len(s) \in DOMAIN s
      /\ DOMAIN [s EXCEPT ![Len(s)] = e] = DOMAIN s
      /\ [s EXCEPT ![Len(s)] = e][Len(s)] = e
      /\ \A i \in DOMAIN s : i # Len(s) => [s EXCEPT ![Len(s)] = e][i] = s[i]
  BY <1>1, <1>3, ChangeCall
<1>6. stack'[t] = [s EXCEPT ![Len(s)] = e] /\ \A u \in VfsThread : u # t => stack'[u] = stack[u]
  BY <1>4 DEF VfsTypeOK
<1>7. stack' \in [VfsThread -> Seq(VfsFrame)]
  BY <1>4, <1>5 DEF VfsTypeOK
<1>8. QED
  BY <1>2, <1>5, <1>6, <1>7 DEF e

(* A return takes the topmost call away and leaves the others. *)
LEMMA ReturnFrames ==
  ASSUME VfsTypeOK, NEW t \in VfsThread, stack[t] # <<>>, Return(t)
  PROVE  /\ stack' \in [VfsThread -> Seq(VfsFrame)]
         /\ \A u \in VfsThread : u # t => stack'[u] = stack[u]
         /\ DOMAIN stack'[t] = DOMAIN stack[t] \ {Len(stack[t])}
         /\ \A i \in DOMAIN stack'[t] : stack'[t][i] = stack[t][i]
<1> DEFINE s == stack[t]
           r == SubSeq(s, 1, Len(s) - 1)
<1>1. s \in Seq(VfsFrame) /\ s # <<>>
  BY DEF VfsTypeOK
<1>2. /\ r \in Seq(VfsFrame) /\ DOMAIN s = 1 .. Len(s) /\ Len(s) \in Nat \ {0}
      /\ DOMAIN r = 1 .. Len(s) - 1 /\ \A i \in 1 .. Len(s) - 1 : r[i] = s[i]
  BY <1>1, PopCall
<1>3. stack' = [stack EXCEPT ![t] = r]
  BY DEF Return
<1> HIDE DEF r
<1>4. stack'[t] = r /\ \A u \in VfsThread : u # t => stack'[u] = stack[u]
  BY <1>3 DEF VfsTypeOK
<1>5. stack' \in [VfsThread -> Seq(VfsFrame)]
  BY <1>2, <1>3 DEF VfsTypeOK
<1>6. DOMAIN r = DOMAIN s \ {Len(s)}
  BY <1>2
<1>7. QED
  BY <1>2, <1>4, <1>5, <1>6

(* A call adds one on top and leaves the others. *)
LEMMA CallFrames ==
  ASSUME VfsTypeOK, NEW t \in VfsThread, NEW e \in VfsFrame,
         stack' = [stack EXCEPT ![t] = Append(@, e)]
  PROVE  /\ stack' \in [VfsThread -> Seq(VfsFrame)]
         /\ \A u \in VfsThread : u # t => stack'[u] = stack[u]
         /\ DOMAIN stack'[t] = DOMAIN stack[t] \cup {Len(stack[t]) + 1}
         /\ \A i \in DOMAIN stack[t] : i < Len(stack[t]) + 1 /\ stack'[t][i] = stack[t][i]
         /\ stack'[t][Len(stack[t]) + 1] = e
<1> DEFINE s == stack[t]
           r == Append(s, e)
<1>1. s \in Seq(VfsFrame)
  BY DEF VfsTypeOK
<1>2. /\ r \in Seq(VfsFrame) /\ DOMAIN s = 1 .. Len(s) /\ Len(s) \in Nat
      /\ DOMAIN r = 1 .. Len(s) + 1 /\ r[Len(s) + 1] = e
      /\ \A i \in DOMAIN s : r[i] = s[i]
  BY <1>1, PushCall
<1>3. stack' = [stack EXCEPT ![t] = r]
  OBVIOUS
<1> HIDE DEF r
<1>4. stack'[t] = r /\ \A u \in VfsThread : u # t => stack'[u] = stack[u]
  BY <1>3 DEF VfsTypeOK
<1>5. stack' \in [VfsThread -> Seq(VfsFrame)]
  BY <1>2, <1>3 DEF VfsTypeOK
<1>6. DOMAIN r = DOMAIN s \cup {Len(s) + 1} /\ \A i \in DOMAIN s : i < Len(s) + 1
  BY <1>2
<1>7. QED
  BY <1>2, <1>4, <1>5, <1>6

(* A call that is not writing its report returns. *)
LEMMA ReturnKeepsVfs ==
  ASSUME VfsInv, NEW t \in VfsThread, stack[t] # <<>>, Top(t).at # "log", Return(t),
         UNCHANGED <<entered, met>>
  PROVE  VfsInv'
<1> USE DEF VfsInv
<1>1. /\ stack' \in [VfsThread -> Seq(VfsFrame)]
      /\ \A u \in VfsThread : \A i \in DOMAIN stack'[u] :
            i \in DOMAIN stack[u] /\ stack'[u][i] = stack[u][i]
      /\ \A u \in VfsThread : \A i \in DOMAIN stack[u] :
            u # t \/ i # Len(stack[t]) => i \in DOMAIN stack'[u]
  BY ReturnFrames
<1>2. VfsTypeOK'
  BY <1>1 DEF VfsTypeOK
<1>3. GuardNotStuck'
  <2>1. \A u \in VfsThread : \A i \in DOMAIN stack[u] :
          stack[u][i].at = "log" => i \in DOMAIN stack'[u] /\ stack'[u][i] = stack[u][i]
    BY <1>1 DEF Top
  <2>2. QED
    BY <2>1 DEF GuardNotStuck
<1>4. OneReport'
  BY <1>1 DEF OneReport, Reports
<1>5. NoRecursion'
  BY <1>1 DEF NoRecursion
<1>6. QED
  BY <1>2, <1>3, <1>4, <1>5

(* A call comes in.  When it is of a hook that is writing a report below   *)
(* it, it starts with the test.                                            *)
LEMMA CallKeepsVfs ==
  ASSUME VfsInv, NEW t \in VfsThread, VfsCall(t)
  PROVE  VfsInv'
<1> USE DEF VfsInv
<1>1. PICK h \in VfsWatched :
        stack' = [stack EXCEPT ![t] = Append(@,
                       [hook |-> h, at |-> IF h \in VfsGuarded THEN "test" ELSE "original"])]
  BY DEF VfsCall
<1> DEFINE e == [hook |-> h, at |-> IF h \in VfsGuarded THEN "test" ELSE "original"]
           n == Len(stack[t]) + 1
<1>2. e \in VfsFrame /\ e.at \in {"test", "original"} /\ e.hook = h /\ (e.at = "test" <=> h \in VfsGuarded)
  BY DEF VfsFrame, Points
<1> HIDE DEF e
<1>3. UNCHANGED <<entered, met>>
  BY DEF VfsCall
<1>4. /\ stack' \in [VfsThread -> Seq(VfsFrame)]
      /\ \A u \in VfsThread : u # t => stack'[u] = stack[u]
      /\ DOMAIN stack'[t] = DOMAIN stack[t] \cup {n}
      /\ \A i \in DOMAIN stack[t] : i < n /\ stack'[t][i] = stack[t][i]
      /\ stack'[t][n] = e
  BY <1>1, <1>2, CallFrames DEF e
<1> HIDE DEF n
<1>5. \A u \in VfsThread : \A i \in DOMAIN stack[u] :
         i \in DOMAIN stack'[u] /\ stack'[u][i] = stack[u][i]
  BY <1>4
<1>6. \A u \in VfsThread : \A i \in DOMAIN stack'[u] :
         \/ i \in DOMAIN stack[u] /\ stack'[u][i] = stack[u][i]
         \/ u = t /\ i = n /\ stack'[u][i] = e
  BY <1>4
<1>7. VfsTypeOK'
  <2>1. \A u \in VfsThread : \A i \in DOMAIN stack'[u] :
          stack'[u][i].at # "original" => stack'[u][i].hook \in VfsGuarded
    <3>1. ASSUME NEW u \in VfsThread, NEW i \in DOMAIN stack'[u], stack'[u][i].at # "original"
          PROVE  stack'[u][i].hook \in VfsGuarded
      <4>1. CASE i \in DOMAIN stack[u] /\ stack'[u][i] = stack[u][i]
        BY <3>1, <4>1 DEF VfsTypeOK
      <4>2. CASE stack'[u][i] = e
        BY <1>2, <3>1, <4>2
      <4>3. QED
        BY <1>6, <4>1, <4>2
    <3>2. QED
      BY <3>1
  <2>2. QED
    BY <1>3, <1>4, <2>1 DEF VfsTypeOK
<1>8. GuardNotStuck'
  BY <1>3, <1>5 DEF GuardNotStuck
<1>9. OneReport'
  BY <1>2, <1>3, <1>6 DEF OneReport, Reports
<1>10. NoRecursion'
  <2>1. SUFFICES ASSUME NEW u \in VfsThread, NEW i \in DOMAIN stack'[u], NEW j \in DOMAIN stack'[u],
                        i < j, stack'[u][i].hook = stack'[u][j].hook, stack'[u][i].at = "log",
                        stack'[u][i].hook \notin met
                 PROVE  stack'[u][j].at = "test"
    BY <1>3 DEF NoRecursion
  <2>2. i \in DOMAIN stack[u] /\ stack'[u][i] = stack[u][i]
    BY <1>2, <1>6, <2>1
  <2>3. CASE j \in DOMAIN stack[u] /\ stack'[u][j] = stack[u][j]
    BY <2>1, <2>2, <2>3 DEF NoRecursion
  <2>4. CASE stack'[u][j] = e
    <3>1. stack[u][i].hook \in VfsGuarded
      BY <2>1, <2>2 DEF VfsTypeOK
    <3>2. QED
      BY <1>2, <2>1, <2>2, <2>4, <3>1
  <2>5. QED
    BY <1>6, <2>3, <2>4
<1>11. QED
  BY <1>7, <1>8, <1>9, <1>10

(* What a step of the topmost call inside its hook leaves of the others,   *)
(* and what it does to the reports.                                        *)
LEMMA GotoReports ==
  ASSUME VfsInv, NEW t \in VfsThread, stack[t] # <<>>, Top(t).hook \in VfsGuarded,
         NEW p \in Points, Goto(t, p)
  PROVE  /\ stack' \in [VfsThread -> Seq(VfsFrame)]
         /\ Len(stack[t]) \in DOMAIN stack[t]
         /\ \A i \in DOMAIN stack[t] : i <= Len(stack[t]) /\ i \in Nat
         /\ \A u \in VfsThread : DOMAIN stack'[u] = DOMAIN stack[u]
         /\ \A u \in VfsThread : \A i \in DOMAIN stack[u] :
              IF u = t /\ i = Len(stack[t])
              THEN stack[u][i].hook = Top(t).hook /\ stack[u][i].at = Top(t).at
                   /\ stack'[u][i].hook = Top(t).hook /\ stack'[u][i].at = p
              ELSE stack'[u][i] = stack[u][i]
         /\ \A u \in VfsThread : \A i \in DOMAIN stack'[u] :
              stack'[u][i].at # "original" => stack'[u][i].hook \in VfsGuarded
<1>1. VfsTypeOK
  BY DEF VfsInv
<1>2. /\ stack' \in [VfsThread -> Seq(VfsFrame)]
      /\ \A u \in VfsThread : u # t => stack'[u] = stack[u]
      /\ Len(stack[t]) \in DOMAIN stack[t] /\ DOMAIN stack'[t] = DOMAIN stack[t]
      /\ \A i \in DOMAIN stack[t] : i <= Len(stack[t]) /\ i \in Nat
      /\ stack'[t][Len(stack[t])] = [hook |-> Top(t).hook, at |-> p]
      /\ \A i \in DOMAIN stack[t] : i # Len(stack[t]) => stack'[t][i] = stack[t][i]
  BY <1>1, GotoFrames
<1>3. \A u \in VfsThread : DOMAIN stack'[u] = DOMAIN stack[u]
  BY <1>2
<1>4. \A u \in VfsThread : \A i \in DOMAIN stack[u] :
         IF u = t /\ i = Len(stack[t])
         THEN stack[u][i].hook = Top(t).hook /\ stack[u][i].at = Top(t).at
              /\ stack'[u][i].hook = Top(t).hook /\ stack'[u][i].at = p
         ELSE stack'[u][i] = stack[u][i]
  BY <1>2 DEF Top
<1>5. \A u \in VfsThread : \A i \in DOMAIN stack'[u] :
         stack'[u][i].at # "original" => stack'[u][i].hook \in VfsGuarded
  BY <1>1, <1>3, <1>4 DEF VfsTypeOK
<1>6. QED
  BY <1>2, <1>3, <1>4, <1>5

(* The test lets a call through only while no report of its hook is being  *)
(* written, unless two of them met.                                        *)
LEMMA TestKeepsVfs ==
  ASSUME VfsInv, NEW t \in VfsThread, TestEntered(t)
  PROVE  VfsInv'
<1>0. stack[t] # <<>> /\ Top(t).at = "test" /\ UNCHANGED <<entered, met>>
  BY DEF TestEntered, Running
<1>1. CASE entered[Top(t).hook] = 1
  BY <1>0, <1>1, ReturnKeepsVfs DEF TestEntered
<1>2. CASE entered[Top(t).hook] # 1
  <2> DEFINE n == Len(stack[t])
             h == Top(t).hook
  <2>1. Goto(t, "original") /\ h \in VfsGuarded
    <3>1. n \in DOMAIN stack[t]
      BY <1>0, PopCall DEF VfsInv, VfsTypeOK
    <3>2. QED
      BY <1>0, <1>2, <3>1 DEF TestEntered, VfsInv, VfsTypeOK, Top
  <2>2. /\ stack' \in [VfsThread -> Seq(VfsFrame)]
        /\ n \in DOMAIN stack[t]
        /\ \A i \in DOMAIN stack[t] : i <= n /\ i \in Nat
        /\ \A u \in VfsThread : DOMAIN stack'[u] = DOMAIN stack[u]
        /\ \A u \in VfsThread : \A i \in DOMAIN stack[u] :
             IF u = t /\ i = n
             THEN stack[u][i].hook = h /\ stack[u][i].at = "test"
                  /\ stack'[u][i].hook = h /\ stack'[u][i].at = "original"
             ELSE stack'[u][i] = stack[u][i]
        /\ \A u \in VfsThread : \A i \in DOMAIN stack'[u] :
             stack'[u][i].at # "original" => stack'[u][i].hook \in VfsGuarded
    BY <1>0, <2>1, GotoReports DEF Points
  <2> HIDE DEF n
  <2>3. VfsTypeOK'
    BY <1>0, <2>2 DEF VfsTypeOK, VfsInv
  <2>4. GuardNotStuck'
    BY <1>0, <2>2 DEF GuardNotStuck, VfsInv
  <2>5. OneReport'
    BY <1>0, <2>2 DEF OneReport, VfsInv, Reports
  <2>6. \A i \in DOMAIN stack[t] : ~(Reports(t, i, h) /\ h \notin met)
    BY <1>2, <2>1 DEF VfsInv, OneReport
  <2>7. NoRecursion'
    <3>1. SUFFICES ASSUME NEW u \in VfsThread, NEW i \in DOMAIN stack'[u], NEW j \in DOMAIN stack'[u],
                          i < j, stack'[u][i].hook = stack'[u][j].hook, stack'[u][i].at = "log",
                          stack'[u][i].hook \notin met
                   PROVE  stack'[u][j].at = "test"
      BY <1>0 DEF NoRecursion
    <3>2. stack'[u][i] = stack[u][i] /\ i \in DOMAIN stack[u] /\ j \in DOMAIN stack[u]
      BY <2>2, <3>1
    <3>3. CASE u = t /\ j = n
      BY <2>2, <2>6, <3>1, <3>2, <3>3 DEF Reports
    <3>4. CASE ~(u = t /\ j = n)
      <4>1. stack'[u][j] = stack[u][j]
        BY <2>2, <3>2, <3>4
      <4>2. QED
        BY <3>1, <3>2, <4>1 DEF NoRecursion, VfsInv
    <3>5. QED
      BY <3>3, <3>4
  <2>8. QED
    BY <2>3, <2>4, <2>5, <2>7 DEF VfsInv
<1>3. QED
  BY <1>1, <1>2

(* Setting the flag: the report is the only one of its hook, or the hook   *)
(* is one where two met.                                                   *)
LEMMA SetKeepsVfs ==
  ASSUME VfsInv, NEW t \in VfsThread, SetEntered(t)
  PROVE  VfsInv'
<1> DEFINE n == Len(stack[t])
<1>1. PICK h \in VfsGuarded : h = Top(t).hook
  BY DEF SetEntered
<1>0. /\ stack[t] # <<>> /\ Top(t).at = "original"
      /\ entered' = [entered EXCEPT ![h] = 1] /\ Goto(t, "log")
      /\ met' = IF OthersAt(t, h, "log") THEN met \cup {h} ELSE met
  BY <1>1 DEF SetEntered, Running
<1>2. /\ stack' \in [VfsThread -> Seq(VfsFrame)]
      /\ n \in DOMAIN stack[t]
      /\ \A i \in DOMAIN stack[t] : i <= n /\ i \in Nat
      /\ \A u \in VfsThread : DOMAIN stack'[u] = DOMAIN stack[u]
      /\ \A u \in VfsThread : \A i \in DOMAIN stack[u] :
           IF u = t /\ i = n
           THEN stack[u][i].hook = h /\ stack[u][i].at = "original"
                /\ stack'[u][i].hook = h /\ stack'[u][i].at = "log"
           ELSE stack'[u][i] = stack[u][i]
      /\ \A u \in VfsThread : \A i \in DOMAIN stack'[u] :
           stack'[u][i].at # "original" => stack'[u][i].hook \in VfsGuarded
  BY <1>0, <1>1, GotoReports DEF Points
<1>3. \A g \in VfsGuarded : entered'[g] = IF g = h THEN 1 ELSE entered[g]
  BY <1>0 DEF VfsInv, VfsTypeOK
<1>4. VfsTypeOK'
  BY <1>0, <1>2 DEF VfsTypeOK, VfsInv
<1>5. \A u \in VfsThread : \A i \in DOMAIN stack[u] :
         Reports(u, i, h) /\ h \notin met' => u = t /\ i = n
  <2>1. ASSUME NEW u \in VfsThread, NEW i \in DOMAIN stack[u], Reports(u, i, h), ~(u = t /\ i = n)
        PROVE  h \in met'
    <3>1. stack[u][i] \in VfsFrame
      BY ElementOfSeq, LenProperties DEF VfsInv, VfsTypeOK
    <3>2. stack[u][i] = [hook |-> h, at |-> "log"]
      BY <2>1, <3>1 DEF Reports, VfsFrame
    <3>3. <<u, i>> # <<t, n>>
      BY <2>1
    <3>4. OthersAt(t, h, "log")
      BY <3>2, <3>3 DEF OthersAt
    <3>5. QED
      BY <1>0, <3>4
  <2>2. QED
    BY <2>1
<1> HIDE DEF n
<1>6. GuardNotStuck'
  BY <1>0, <1>2, <1>3 DEF GuardNotStuck, VfsInv
<1>7. met \subseteq met'
  BY <1>0
<1>8. OneReport'
  <2>1. SUFFICES ASSUME NEW g \in VfsGuarded \ met', NEW u \in VfsThread, NEW v \in VfsThread,
                        NEW i \in DOMAIN stack'[u], NEW j \in DOMAIN stack'[v], Reports(u, i, g)'
                 PROVE  entered'[g] = 1 /\ (Reports(v, j, g)' => u = v /\ i = j)
    BY DEF OneReport
  <2>2. i \in DOMAIN stack[u] /\ j \in DOMAIN stack[v] /\ g \in VfsGuarded \ met
    BY <1>2, <1>7
  <2>3. CASE g = h
    <3>1. \A w \in VfsThread : \A k \in DOMAIN stack[w] : Reports(w, k, h)' => w = t /\ k = n
      BY <1>2, <1>5, <2>1, <2>3 DEF Reports
    <3>2. QED
      BY <1>3, <2>1, <2>2, <2>3, <3>1
  <2>4. CASE g # h
    <3>1. \A w \in VfsThread : \A k \in DOMAIN stack[w] : Reports(w, k, g)' => Reports(w, k, g)
      BY <1>2, <2>4 DEF Reports
    <3>2. QED
      BY <1>3, <2>1, <2>2, <2>4, <3>1 DEF OneReport, VfsInv
  <2>5. QED
    BY <2>3, <2>4
<1>9. NoRecursion'
  <2>1. SUFFICES ASSUME NEW u \in VfsThread, NEW i \in DOMAIN stack'[u], NEW j \in DOMAIN stack'[u],
                        i < j, stack'[u][i].hook = stack'[u][j].hook, stack'[u][i].at = "log",
                        stack'[u][i].hook \notin met'
                 PROVE  stack'[u][j].at = "test"
    BY DEF NoRecursion
  <2>2. i \in DOMAIN stack[u] /\ j \in DOMAIN stack[u] /\ ~(u = t /\ i = n)
    BY <1>2, <2>1
  <2>3. stack'[u][i] = stack[u][i] /\ stack[u][j].hook = stack'[u][j].hook
    BY <1>2, <2>2
  <2>4. stack[u][j].at = "test"
    BY <1>7, <2>1, <2>2, <2>3 DEF NoRecursion, VfsInv
  <2>5. QED
    BY <1>2, <2>2, <2>4
<1>10. QED
  BY <1>4, <1>6, <1>8, <1>9 DEF VfsInv

(* Clearing the flag: no other report of the hook is being written, or the *)
(* hook is one where two met.                                              *)
LEMMA ClearKeepsVfs ==
  ASSUME VfsInv, NEW t \in VfsThread, ClearEntered(t)
  PROVE  VfsInv'
<1> DEFINE n == Len(stack[t])
<1>1. PICK h \in VfsGuarded : h = Top(t).hook
  <2>1. stack[t] # <<>> /\ Top(t).at = "log"
    BY DEF ClearEntered, Running
  <2>2. n \in DOMAIN stack[t]
    BY <2>1, PopCall DEF VfsInv, VfsTypeOK
  <2>3. QED
    BY <2>1, <2>2 DEF VfsInv, VfsTypeOK, Top
<1>0. /\ stack[t] # <<>> /\ Top(t).at = "log" /\ UNCHANGED met
      /\ entered' = [entered EXCEPT ![h] = 0] /\ Goto(t, "tail")
  BY <1>1 DEF ClearEntered, Running
<1>2. /\ stack' \in [VfsThread -> Seq(VfsFrame)]
      /\ n \in DOMAIN stack[t]
      /\ \A i \in DOMAIN stack[t] : i <= n /\ i \in Nat
      /\ \A u \in VfsThread : DOMAIN stack'[u] = DOMAIN stack[u]
      /\ \A u \in VfsThread : \A i \in DOMAIN stack[u] :
           IF u = t /\ i = n
           THEN stack[u][i].hook = h /\ stack[u][i].at = "log"
                /\ stack'[u][i].hook = h /\ stack'[u][i].at = "tail"
           ELSE stack'[u][i] = stack[u][i]
      /\ \A u \in VfsThread : \A i \in DOMAIN stack'[u] :
           stack'[u][i].at # "original" => stack'[u][i].hook \in VfsGuarded
  BY <1>0, <1>1, GotoReports DEF Points
<1> HIDE DEF n
<1>3. \A g \in VfsGuarded : entered'[g] = IF g = h THEN 0 ELSE entered[g]
  BY <1>0 DEF VfsInv, VfsTypeOK
<1>4. VfsTypeOK'
  BY <1>0, <1>2 DEF VfsTypeOK, VfsInv
<1>5. \A u \in VfsThread : \A i \in DOMAIN stack[u] :
         Reports(u, i, h)' /\ Reports(u, i, h) => h \in met
  <2>1. PICK m \in DOMAIN stack[t] : m = n
    BY <1>2
  <2>2. Reports(t, m, h) /\ ~Reports(t, m, h)'
    BY <1>2, <2>1 DEF Reports
  <2>3. ASSUME NEW u \in VfsThread, NEW i \in DOMAIN stack[u], Reports(u, i, h), h \notin met
        PROVE  u = t /\ i = m
    BY <1>1, <2>2, <2>3 DEF OneReport, VfsInv
  <2>4. QED
    BY <2>2, <2>3
<1>6. GuardNotStuck'
  <2>1. SUFFICES ASSUME NEW g \in VfsGuarded, entered'[g] = 1
                 PROVE  \E u \in VfsThread : \E i \in DOMAIN stack'[u] : Reports(u, i, g)'
    BY DEF GuardNotStuck, Reports
  <2>2. g # h /\ entered[g] = 1
    BY <1>3, <2>1
  <2>3. PICK u \in VfsThread : \E i \in DOMAIN stack[u] : Reports(u, i, g)
    BY <2>2 DEF GuardNotStuck, VfsInv, Reports
  <2>6. PICK i \in DOMAIN stack[u] : Reports(u, i, g)
    BY <2>3
  <2>4. stack'[u][i] = stack[u][i] /\ i \in DOMAIN stack'[u]
    BY <1>2, <2>2, <2>6 DEF Reports
  <2>5. QED
    BY <2>4, <2>6 DEF Reports
<1>7. OneReport'
  <2>1. SUFFICES ASSUME NEW g \in VfsGuarded \ met, NEW u \in VfsThread, NEW v \in VfsThread,
                        NEW i \in DOMAIN stack'[u], NEW j \in DOMAIN stack'[v], Reports(u, i, g)'
                 PROVE  entered'[g] = 1 /\ (Reports(v, j, g)' => u = v /\ i = j)
    BY <1>0 DEF OneReport
  <2>2. i \in DOMAIN stack[u] /\ j \in DOMAIN stack[v]
    BY <1>2
  <2>3. \A w \in VfsThread : \A k \in DOMAIN stack[w] : Reports(w, k, g)' => Reports(w, k, g)
    BY <1>2 DEF Reports
  <2>4. g # h
    BY <1>5, <2>1, <2>2, <2>3
  <2>5. QED
    BY <1>3, <2>1, <2>2, <2>3, <2>4 DEF OneReport, VfsInv
<1>8. NoRecursion'
  <2>1. SUFFICES ASSUME NEW u \in VfsThread, NEW i \in DOMAIN stack'[u], NEW j \in DOMAIN stack'[u],
                        i < j, stack'[u][i].hook = stack'[u][j].hook, stack'[u][i].at = "log",
                        stack'[u][i].hook \notin met
                 PROVE  stack'[u][j].at = "test"
    BY <1>0 DEF NoRecursion
  <2>2. i \in DOMAIN stack[u] /\ j \in DOMAIN stack[u] /\ ~(u = t /\ i = n)
    BY <1>2, <2>1
  <2>3. stack'[u][i] = stack[u][i] /\ stack[u][j].hook = stack'[u][j].hook
    BY <1>2, <2>2
  <2>4. stack[u][j].at = "test"
    BY <2>1, <2>2, <2>3 DEF NoRecursion, VfsInv
  <2>5. QED
    BY <1>2, <2>2, <2>4
<1>9. QED
  BY <1>4, <1>6, <1>7, <1>8 DEF VfsInv

(* The hooks' invariant is inductive. *)
LEMMA VfsInvariant == VfsSpec => []VfsInv
<1>1. VfsInit => VfsInv
  <2>1. SUFFICES ASSUME VfsInit PROVE VfsInv
    OBVIOUS
  <2>2. \A t \in VfsThread : stack[t] = <<>> /\ DOMAIN stack[t] = {}
    BY <2>1 DEF VfsInit
  <2>3. stack \in [VfsThread -> Seq(VfsFrame)]
    BY <2>1 DEF VfsInit
  <2>4. VfsTypeOK
    BY <2>1, <2>2, <2>3 DEF VfsInit, VfsTypeOK
  <2>5. GuardNotStuck /\ OneReport /\ NoRecursion
    BY <2>1, <2>2 DEF VfsInit, GuardNotStuck, OneReport, NoRecursion
  <2>6. QED
    BY <2>4, <2>5 DEF VfsInv
<1>2. VfsInv /\ [VfsNext]_vfsVars => VfsInv'
  <2>1. SUFFICES ASSUME VfsInv, [VfsNext]_vfsVars PROVE VfsInv'
    OBVIOUS
  <2>2. CASE UNCHANGED vfsVars
    BY <2>1, <2>2 DEF vfsVars, VfsInv, VfsTypeOK, GuardNotStuck, OneReport, NoRecursion, Reports
  <2>3. ASSUME NEW t \in VfsThread, VfsCall(t) \/ TestEntered(t) \/ SetEntered(t) \/ ClearEntered(t)
        PROVE  VfsInv'
    BY <2>1, <2>3, CallKeepsVfs, TestKeepsVfs, SetKeepsVfs, ClearKeepsVfs
  <2>4. ASSUME NEW t \in VfsThread, print_vfs_node(t) \/ Forward(t)
        PROVE  VfsInv'
    BY <2>1, <2>4, ReturnKeepsVfs DEF print_vfs_node, Forward, Running
  <2>5. QED
    BY <2>1, <2>2, <2>3, <2>4 DEF VfsNext
<1>3. QED
  BY <1>1, <1>2, PTL DEF VfsSpec

(* A flag is set only while a call of its hook is writing its report: no   *)
(* order of tests, sets and clears leaves one set behind                   *)
(* (hooks_vfs_ops.c), for any threads and any depth of nested calls.       *)
THEOREM VfsGuardNotStuck == VfsSpec => []GuardNotStuck
<1>1. VfsInv => GuardNotStuck
  BY DEF VfsInv
<1>2. QED
  BY <1>1, VfsInvariant, PTL

(* A call nested in a report of its own hook does not get past the test,   *)
(* as long as no two calls of the hook wrote their reports together        *)
(* (hooks_vfs_ops.c), for any threads and any depth of nested calls.       *)
THEOREM VfsNoRecursion == VfsSpec => []NoRecursion
<1>1. VfsInv => NoRecursion
  BY DEF VfsInv
<1>2. QED
  BY <1>1, VfsInvariant, PTL

-----------------------------------------------------------------------------
(* The hooks that follow an error through the I/O stack. *)

Plain == Logged \cup Counted \cup Gated \cup Printers
Requests == GatedOp \cup GatedBoth
IoHooked == Plain \cup Requests \cup First \cup {Opener[g] : g \in Gate}

IoFrame == [hook : IoHooked, at : {"in", "log"},
            note : {"opens", "none", "request", "ok", "error", "unread"}, was : Result]

(* What a hook noted before its call is true of it. *)
FrameOK(f) ==
    /\ f.hook = Opener.app => f.note = "opens"
    /\ f.hook \in First /\ f.at = "in" /\ f.note = "ok" => f.was = "ok"

IoTypeOK ==
    /\ gate \in [Gate -> {0, 1}]
    /\ op_result \in [IoThread -> Result]
    /\ calls \in [IoThread -> Seq(IoFrame)]
    /\ \A t \in IoThread : \A i \in DOMAIN calls[t] : FrameOK(calls[t][i])

(* A call that has gate g open, and where such calls are. *)
Opens(f, g) == f.hook = Opener[g] /\ f.note = "opens" /\ (g = "app" => f.at = "in")
OpenAt(g) == {x \in IoThread \X Nat : x[2] \in DOMAIN calls[x[1]] /\ Opens(calls[x[1]][x[2]], g)}

(* A gate that is open is held by a call, and while no two calls that open *)
(* the same gate overlapped, a call that opens one has it open and alone.  *)
Held(g) ==
    /\ gate[g] = 1 => OpenAt(g) # {}
    /\ ~overlapped => /\ OpenAt(g) # {} => gate[g] = 1
                      /\ \A x, y \in OpenAt(g) : x = y

IoInv ==
    /\ IoTypeOK
    /\ \A g \in Gate : Held(g)
    /\ NothingMissed
    /\ BlamesOwnCall

(* The three gates have openers of their own. *)
LEMMA Openers ==
  /\ Gate = {"app", "pfs", "mount"}
  /\ \A g, h \in Gate : Opener[g] = Opener[h] => g = h
  /\ Opener.app = Opener["app"] /\ Opener.pfs = Opener["pfs"] /\ Opener.mount = Opener["mount"]
  BY DEF Gate, Opener

(* The openers belong to no other family of hooks. *)
LEMMA OpenersApart ==
  ASSUME NEW g \in Gate
  PROVE  Opener[g] \notin Plain \cup Requests \cup First
<1> USE DEF Gate, Opener
<1>1. Opener[g] \in {"app_mgr_23EF934", "iofilemgr_BF3474", "iofilemgr_sceVfsMount"}
  OBVIOUS
<1>2. Opener[g] \notin Logged
  BY <1>1 DEF Logged, Logged_Device, Logged_Gc, Logged_Read, Logged_Command, Logged_Spsfo,
     Logged_ParamSfo, Logged_App, Logged_Pfs
<1>3. Opener[g] \notin Counted
  BY <1>1 DEF Counted, Counted_1, Counted_2, Counted_New, Counted_3, Counted_4, Counted_5,
     Counted_6, Counted_7, Counted_8, CountedLogged
<1>4. Opener[g] \notin Gated
  BY <1>1 DEF Gated, Gated_Stat1, Gated_Stat2, Gated_Open, Gated_Read, Gated_Request,
     Gated_Facade1, Gated_Facade2, Gated_Facade3
<1>5. Opener[g] \notin Printers
  BY <1>1 DEF Printers, Printer_Stat, Printer_Open, Printer_Read
<1>6. Opener[g] \notin Requests
  BY <1>1 DEF Requests, GatedOp, GatedOp_1, GatedOp_2, GatedOp_3, GatedOp_4,
     GatedBoth, GatedBoth_1, GatedBoth_2, GatedBoth_3, GatedBoth_4
<1>7. Opener[g] \notin First
  BY <1>1 DEF First, First_1, First_2, First_3, FirstBoth, FirstArg
<1>8. QED
  BY <1>2, <1>3, <1>4, <1>5, <1>6, <1>7 DEF Plain

(* No hook that checks for the first error is of another family. *)
LEMMA FirstApart ==
  ASSUME NEW h \in First
  PROVE  h \notin Plain \cup Requests
<1>1. h \in {"iofilemgr_BF83A0", "iofilemgr_BFB748", "iofilemgr_BF7228", "iofilemgr_BFB794",
             "iofilemgr_BFB628"}
  BY DEF First, First_1, First_2, First_3, FirstBoth, FirstArg
<1>2. h \notin Logged
  BY <1>1 DEF Logged, Logged_Device, Logged_Gc, Logged_Read, Logged_Command, Logged_Spsfo,
     Logged_ParamSfo, Logged_App, Logged_Pfs
<1>3. h \notin Counted
  BY <1>1 DEF Counted, Counted_1, Counted_2, Counted_New, Counted_3, Counted_4, Counted_5,
     Counted_6, Counted_7, Counted_8, CountedLogged
<1>4. h \notin Gated
  BY <1>1 DEF Gated, Gated_Stat1, Gated_Stat2, Gated_Open, Gated_Read, Gated_Request,
     Gated_Facade1, Gated_Facade2, Gated_Facade3
<1>5. h \notin Printers
  BY <1>1 DEF Printers, Printer_Stat, Printer_Open, Printer_Read
<1>6. h \notin Requests
  BY <1>1 DEF Requests, GatedOp, GatedOp_1, GatedOp_2, GatedOp_3, GatedOp_4,
     GatedBoth, GatedBoth_1, GatedBoth_2, GatedBoth_3, GatedBoth_4
<1>7. QED
  BY <1>2, <1>3, <1>4, <1>5, <1>6 DEF Plain

(* The topmost call of a thread that has one. *)
LEMMA InnerFrame ==
  ASSUME IoTypeOK, NEW t \in IoThread, calls[t] # <<>>
  PROVE  /\ Inner(t) \in IoFrame /\ FrameOK(Inner(t))
         /\ Len(calls[t]) \in DOMAIN calls[t] /\ Len(calls[t]) \in Nat
<1>1. calls[t] \in Seq(IoFrame)
  BY DEF IoTypeOK
<1>2. DOMAIN calls[t] = 1 .. Len(calls[t]) /\ Len(calls[t]) \in Nat \ {0}
  BY <1>1, PopCall
<1>3. Inner(t) \in IoFrame
  BY <1>1, <1>2, ElementOfSeq DEF Inner
<1>4. QED
  BY <1>2, <1>3 DEF IoTypeOK, Inner

(* A call is entered. *)
LEMMA EnterOpenAt ==
  ASSUME IoTypeOK, NEW t \in IoThread, NEW e \in IoFrame, FrameOK(e),
         calls' = [calls EXCEPT ![t] = Append(@, e)], op_result' \in [IoThread -> Result],
         gate' \in [Gate -> {0, 1}]
  PROVE  /\ IoTypeOK'
         /\ \A g : OpenAt(g)' = IF Opens(e, g) THEN OpenAt(g) \cup {<<t, Len(calls[t]) + 1>>} ELSE OpenAt(g)
<1> DEFINE s == calls[t]
           r == Append(s, e)
           n == Len(s) + 1
<1>1. s \in Seq(IoFrame)
  BY DEF IoTypeOK
<1>2. /\ r \in Seq(IoFrame) /\ DOMAIN s = 1 .. Len(s) /\ Len(s) \in Nat
      /\ DOMAIN r = 1 .. Len(s) + 1 /\ r[n] = e
      /\ \A i \in DOMAIN s : r[i] = s[i]
  BY <1>1, PushCall
<1>3. calls' = [calls EXCEPT ![t] = r]
  OBVIOUS
<1> HIDE DEF r
<1>4. calls'[t] = r /\ (\A u \in IoThread : u # t => calls'[u] = calls[u]) /\ calls' \in [IoThread -> Seq(IoFrame)]
  BY <1>2, <1>3 DEF IoTypeOK
<1>5. n \in Nat /\ n \notin DOMAIN s /\ DOMAIN r = DOMAIN s \cup {n}
  BY <1>2
<1> HIDE DEF n
<1>6. \A u \in IoThread : \A i \in DOMAIN calls'[u] : FrameOK(calls'[u][i])
  BY <1>2, <1>4, <1>5 DEF IoTypeOK
<1>7. IoTypeOK'
  BY <1>4, <1>6 DEF IoTypeOK
<1>8. ASSUME NEW g
      PROVE  OpenAt(g)' = IF Opens(e, g) THEN OpenAt(g) \cup {<<t, n>>} ELSE OpenAt(g)
  <2>1. \A x \in IoThread \X Nat : x # <<t, n>> =>
          (x[2] \in DOMAIN calls'[x[1]] /\ Opens(calls'[x[1]][x[2]], g)
            <=> x[2] \in DOMAIN calls[x[1]] /\ Opens(calls[x[1]][x[2]], g))
    BY <1>2, <1>4, <1>5
  <2>2. n \in DOMAIN calls'[t] /\ calls'[t][n] = e /\ <<t, n>> \in IoThread \X Nat
    BY <1>2, <1>4, <1>5
  <2>3. <<t, n>> \notin OpenAt(g)
    BY <1>5 DEF OpenAt
  <2>4. \A x \in IoThread \X Nat : x \in OpenAt(g)' <=>
          (x # <<t, n>> /\ x \in OpenAt(g)) \/ (x = <<t, n>> /\ Opens(e, g))
    <3>1. SUFFICES ASSUME NEW x \in IoThread \X Nat
                   PROVE  x \in OpenAt(g)' <=>
                            (x # <<t, n>> /\ x \in OpenAt(g)) \/ (x = <<t, n>> /\ Opens(e, g))
      OBVIOUS
    <3>2. /\ x \in OpenAt(g)' <=> x[2] \in DOMAIN calls'[x[1]] /\ Opens(calls'[x[1]][x[2]], g)
          /\ x \in OpenAt(g) <=> x[2] \in DOMAIN calls[x[1]] /\ Opens(calls[x[1]][x[2]], g)
      BY <3>1 DEF OpenAt
    <3>3. CASE x = <<t, n>>
      <4>1. x[1] = t /\ x[2] = n
        BY <3>3
      <4>2. QED
        BY <2>2, <3>2, <3>3, <4>1
    <3>4. CASE x # <<t, n>>
      BY <2>1, <3>1, <3>2, <3>4
    <3>5. QED
      BY <3>3, <3>4
  <2>5. OpenAt(g) \subseteq IoThread \X Nat /\ OpenAt(g)' \subseteq IoThread \X Nat
    BY DEF OpenAt
  <2>6. QED
    BY <2>2, <2>3, <2>4, <2>5
<1>9. QED
  BY <1>7, <1>8 DEF n

(* The topmost call returns. *)
LEMMA LeaveOpenAt ==
  ASSUME IoTypeOK, NEW t \in IoThread, calls[t] # <<>>, Leave(t),
         op_result' \in [IoThread -> Result], gate' \in [Gate -> {0, 1}]
  PROVE  /\ IoTypeOK'
         /\ \A g : OpenAt(g)' = OpenAt(g) \ {<<t, Len(calls[t])>>}
<1> DEFINE s == calls[t]
           r == SubSeq(s, 1, Len(s) - 1)
           n == Len(s)
<1>1. s \in Seq(IoFrame)
  BY DEF IoTypeOK
<1>2. /\ r \in Seq(IoFrame) /\ DOMAIN s = 1 .. n /\ n \in Nat \ {0}
      /\ DOMAIN r = 1 .. n - 1 /\ \A i \in 1 .. n - 1 : r[i] = s[i]
  BY <1>1, PopCall
<1>3. calls' = [calls EXCEPT ![t] = r]
  BY DEF Leave
<1> HIDE DEF r
<1>4. calls'[t] = r /\ (\A u \in IoThread : u # t => calls'[u] = calls[u]) /\ calls' \in [IoThread -> Seq(IoFrame)]
  BY <1>2, <1>3 DEF IoTypeOK
<1>5. DOMAIN r = DOMAIN s \ {n} /\ \A i \in DOMAIN r : r[i] = s[i]
  BY <1>2
<1> HIDE DEF n
<1>6. \A u \in IoThread : \A i \in DOMAIN calls'[u] : FrameOK(calls'[u][i])
  BY <1>4, <1>5 DEF IoTypeOK
<1>7. IoTypeOK'
  BY <1>4, <1>6 DEF IoTypeOK
<1>8. ASSUME NEW g
      PROVE  OpenAt(g)' = OpenAt(g) \ {<<t, n>>}
  <2>1. \A x \in IoThread \X Nat : x # <<t, n>> =>
          (x[2] \in DOMAIN calls'[x[1]] /\ Opens(calls'[x[1]][x[2]], g)
            <=> x[2] \in DOMAIN calls[x[1]] /\ Opens(calls[x[1]][x[2]], g))
    BY <1>4, <1>5
  <2>2. n \notin DOMAIN calls'[t]
    BY <1>4, <1>5
  <2>3. \A x \in IoThread \X Nat : x \in OpenAt(g)' <=> x # <<t, n>> /\ x \in OpenAt(g)
    BY <2>1, <2>2 DEF OpenAt
  <2>4. OpenAt(g) \subseteq IoThread \X Nat /\ OpenAt(g)' \subseteq IoThread \X Nat
    BY DEF OpenAt
  <2>5. QED
    BY <2>3, <2>4
<1>9. QED
  BY <1>7, <1>8 DEF n

(* The topmost call starts its report. *)
LEMMA LogOpenAt ==
  ASSUME IoTypeOK, NEW t \in IoThread, calls[t] # <<>>, StartLog(t), gate' \in [Gate -> {0, 1}]
  PROVE  /\ IoTypeOK'
         /\ \A g : OpenAt(g)' = IF g = "app" THEN OpenAt(g) \ {<<t, Len(calls[t])>>} ELSE OpenAt(g)
<1> DEFINE s == calls[t]
           n == Len(s)
           f == s[n]
           e == [f EXCEPT !.at = "log", !.was = op_result[t]]
           r == [s EXCEPT ![n] = e]
<1>1. s \in Seq(IoFrame) /\ f \in IoFrame /\ FrameOK(f) /\ op_result[t] \in Result
  BY InnerFrame DEF IoTypeOK, Inner
<1>2. e \in IoFrame /\ e.hook = f.hook /\ e.note = f.note /\ e.at = "log"
  BY <1>1 DEF IoFrame
<1>3. FrameOK(e) /\ \A g : Opens(e, g) <=> Opens(f, g) /\ g # "app"
  BY <1>1, <1>2 DEF FrameOK, Opens
<1>4. calls' = [calls EXCEPT ![t] = r] /\ op_result' = [op_result EXCEPT ![t] = "ok"]
  BY DEF StartLog
<1> HIDE DEF e
<1>5. /\ r \in Seq(IoFrame) /\ n \in DOMAIN s /\ DOMAIN r = DOMAIN s /\ r[n] = e
      /\ \A i \in DOMAIN s : i # n => r[i] = s[i]
  BY <1>1, <1>2, ChangeCall
<1>6. calls'[t] = r /\ (\A u \in IoThread : u # t => calls'[u] = calls[u]) /\ calls' \in [IoThread -> Seq(IoFrame)]
  BY <1>4, <1>5 DEF IoTypeOK
<1> HIDE DEF r, n, f
<1>7. \A u \in IoThread : \A i \in DOMAIN calls'[u] : FrameOK(calls'[u][i])
  BY <1>3, <1>5, <1>6 DEF IoTypeOK
<1>8. op_result' \in [IoThread -> Result]
  BY <1>4 DEF IoTypeOK, Result
<1>9. IoTypeOK'
  BY <1>6, <1>7, <1>8 DEF IoTypeOK
<1>10. ASSUME NEW g
       PROVE  OpenAt(g)' = IF g = "app" THEN OpenAt(g) \ {<<t, n>>} ELSE OpenAt(g)
  <2>1. \A x \in IoThread \X Nat : x # <<t, n>> =>
          (x[2] \in DOMAIN calls'[x[1]] /\ Opens(calls'[x[1]][x[2]], g)
            <=> x[2] \in DOMAIN calls[x[1]] /\ Opens(calls[x[1]][x[2]], g))
    BY <1>5, <1>6
  <2>2. /\ n \in DOMAIN calls'[t] /\ n \in DOMAIN calls[t] /\ calls[t][n] = f
        /\ Opens(calls'[t][n], g) <=> Opens(calls[t][n], g) /\ g # "app"
    BY <1>3, <1>5, <1>6 DEF f
  <2>3. \A x \in IoThread \X Nat : x \in OpenAt(g)' <=> x \in OpenAt(g) /\ (x # <<t, n>> \/ g # "app")
    BY <2>1, <2>2 DEF OpenAt
  <2>4. OpenAt(g) \subseteq IoThread \X Nat /\ OpenAt(g)' \subseteq IoThread \X Nat
    BY DEF OpenAt
  <2>5. QED
    BY <2>3, <2>4
<1>11. QED
  BY <1>9, <1>10 DEF n

(* Open(g) of the model is that some call has gate g open. *)
LEMMA OpenIsOpenAt ==
  ASSUME IoTypeOK, NEW g
  PROVE  /\ Open(g) <=> OpenAt(g) # {}
         /\ \A t \in IoThread : calls[t] # <<>> =>
               (<<t, Len(calls[t])>> \in OpenAt(g) <=> Opens(Inner(t), g))
         /\ \A t \in IoThread : Inside(t, g) => OpenAt(g) # {}
<1>1. \A t \in IoThread : DOMAIN calls[t] = 1 .. Len(calls[t]) /\ Len(calls[t]) \in Nat
  BY LenProperties DEF IoTypeOK
<1>2. \A t \in IoThread : \A i \in DOMAIN calls[t] : <<t, i>> \in IoThread \X Nat
  BY <1>1
<1>3. \A t \in IoThread : \A i \in DOMAIN calls[t] : <<t, i>> \in OpenAt(g) <=> Opens(calls[t][i], g)
  BY <1>2 DEF OpenAt
<1>4. \A x \in OpenAt(g) : \E t \in IoThread : \E i \in DOMAIN calls[t] : Opens(calls[t][i], g)
  BY DEF OpenAt
<1>5. Open(g) <=> \E t \in IoThread : \E i \in DOMAIN calls[t] : Opens(calls[t][i], g)
  BY DEF Open, Opens
<1>6. Open(g) <=> OpenAt(g) # {}
  BY <1>3, <1>4, <1>5
<1>7. ASSUME NEW t \in IoThread, calls[t] # <<>>
      PROVE  <<t, Len(calls[t])>> \in OpenAt(g) <=> Opens(Inner(t), g)
  BY <1>3, <1>7, InnerFrame DEF Inner
<1>8. ASSUME NEW t \in IoThread, Inside(t, g)
      PROVE  OpenAt(g) # {}
  <2>1. PICK i \in 1 .. Len(calls[t]) - 1 :
          calls[t][i].hook = Opener[g] /\ calls[t][i].note = "opens" /\ calls[t][i].at = "in"
    BY <1>8 DEF Inside
  <2>2. i \in DOMAIN calls[t]
    BY <1>1
  <2>3. QED
    BY <1>3, <2>1, <2>2 DEF Opens
<1>9. QED
  BY <1>6, <1>7, <1>8

(* A step that opens and closes no gate keeps what holds of the gates. *)
LEMMA QuietGates ==
  ASSUME \A g \in Gate : Held(g), \A g \in Gate : OpenAt(g)' = OpenAt(g),
         gate' = gate, overlapped' = overlapped
  PROVE  \A g \in Gate : Held(g)'
  BY DEF Held

(* A hook that opens no gate is entered. *)
LEMMA EnterKeepsIo ==
  ASSUME IoInv, NEW t \in IoThread, EnterPlain(t) \/ EnterRequest(t) \/ EnterFirst(t)
  PROVE  IoInv'
<1>1. IoTypeOK /\ Request(t) /\ UNCHANGED <<installed, gate, kept, overlapped, blamed, missed>>
  BY DEF IoInv, EnterPlain, EnterRequest, EnterFirst
<1>2. op_result' \in [IoThread -> Result]
  BY <1>1 DEF IoTypeOK, Request
<1>3. PICK h \in Plain \cup Requests \cup First, note \in {"none", "request", "ok", "error", "unread"} :
        /\ Enter(t, h, note)
        /\ h \in First => note \notin {"ok"} \/ op_result'[t] = "ok"
  <2>1. CASE EnterPlain(t)
    BY <2>1, FirstApart DEF EnterPlain, Plain
  <2>2. CASE EnterRequest(t)
    BY <2>2, FirstApart DEF EnterRequest, Requests
  <2>3. CASE EnterFirst(t)
    <3>1. PICK h \in First, request \in BOOLEAN : Enter(t, h, PrevErr(t, request))
      BY <2>3 DEF EnterFirst
    <3>2. op_result'[t] \in {"ok", "error"}
      BY <1>2 DEF Result
    <3>3. PrevErr(t, request) \in {"none", "ok", "error", "unread"}
          /\ (PrevErr(t, request) = "ok" => op_result'[t] = "ok")
      BY <3>2 DEF PrevErr
    <3>4. QED
      BY <3>1, <3>3
  <2>4. QED
    BY <2>1, <2>2, <2>3
<1> DEFINE e == [hook |-> h, at |-> "in", note |-> note, was |-> op_result'[t]]
<1>4. e \in IoFrame
  BY <1>2, <1>3 DEF IoFrame, IoHooked
<1>5. h # Opener.app /\ \A g \in Gate : h # Opener[g]
  BY <1>3, Openers, OpenersApart
<1>6. FrameOK(e) /\ \A g \in Gate : ~Opens(e, g)
  BY <1>3, <1>5 DEF FrameOK, Opens
<1>7. calls' = [calls EXCEPT ![t] = Append(@, e)]
  BY <1>3 DEF Enter
<1>8. PICK c \in IoFrame : c = e
  BY <1>4
<1> HIDE DEF e
<1>9. IoTypeOK' /\ \A g \in Gate : OpenAt(g)' = OpenAt(g)
  <2>1. gate' \in [Gate -> {0, 1}]
    BY <1>1 DEF IoTypeOK
  <2>2. FrameOK(c) /\ (\A g \in Gate : ~Opens(c, g)) /\ calls' = [calls EXCEPT ![t] = Append(@, c)]
    BY <1>6, <1>7, <1>8
  <2>3. QED
    BY <1>1, <1>2, <2>1, <2>2, EnterOpenAt
<1>10. \A g \in Gate : Held(g)'
  BY <1>1, <1>9, QuietGates DEF IoInv
<1>11. QED
  BY <1>1, <1>9, <1>10 DEF IoInv, NothingMissed, BlamesOwnCall

(* A gate is opened: by a call that has it alone, or else two overlapped. *)
LEMMA OpenKeepsIo ==
  ASSUME IoInv, NEW t \in IoThread, OpenGate(t)
  PROVE  IoInv'
<1>1. PICK k \in Gate, note \in {"opens", "none"} :
        /\ Request(t) /\ UNCHANGED <<installed, kept, blamed, missed>>
        /\ k = "app" => note = "opens"
        /\ gate' = IF note = "opens" THEN [gate EXCEPT ![k] = 1] ELSE gate
        /\ overlapped' = (overlapped \/ (note = "opens" /\ Open(k)))
        /\ Enter(t, Opener[k], note)
  BY DEF OpenGate
<1>2. IoTypeOK
  BY DEF IoInv
<1>3. op_result' \in [IoThread -> Result]
  BY <1>1, <1>2 DEF IoTypeOK, Request
<1>4. gate' \in [Gate -> {0, 1}] /\ \A g \in Gate : gate'[g] = IF g = k /\ note = "opens" THEN 1 ELSE gate[g]
  BY <1>1, <1>2 DEF IoTypeOK
<1> DEFINE e == [hook |-> Opener[k], at |-> "in", note |-> note, was |-> op_result'[t]]
           x == <<t, Len(calls[t]) + 1>>
<1>5. PICK c \in IoFrame : c = e
  BY <1>1, <1>3 DEF IoFrame, IoHooked
<1>6. c.hook = Opener[k] /\ c.note = note /\ c.at = "in"
  BY <1>5
<1>7. FrameOK(c) /\ \A g \in Gate : Opens(c, g) <=> g = k /\ note = "opens"
  BY <1>1, <1>6, Openers, OpenersApart DEF FrameOK, Opens
<1>8. calls' = [calls EXCEPT ![t] = Append(@, c)]
  BY <1>1, <1>5 DEF Enter
<1>9. IoTypeOK' /\ \A g : OpenAt(g)' = IF Opens(c, g) THEN OpenAt(g) \cup {x} ELSE OpenAt(g)
  BY <1>2, <1>3, <1>4, <1>7, <1>8, EnterOpenAt
<1> HIDE DEF e, x
<1>10. ~overlapped' => ~overlapped /\ (note = "opens" => OpenAt(k) = {})
  BY <1>1, <1>2, OpenIsOpenAt
<1>11. ASSUME NEW g \in Gate
       PROVE  Held(g)'
  <2>1. CASE g = k /\ note = "opens"
    <3>1. OpenAt(g)' = OpenAt(g) \cup {x} /\ gate'[g] = 1
      BY <1>4, <1>7, <1>9, <2>1
    <3>2. ~overlapped' => OpenAt(g)' = {x}
      BY <1>10, <2>1, <3>1
    <3>3. QED
      BY <3>1, <3>2 DEF Held
  <2>2. CASE ~(g = k /\ note = "opens")
    <3>1. OpenAt(g)' = OpenAt(g) /\ gate'[g] = gate[g]
      BY <1>4, <1>7, <1>9, <2>2
    <3>2. QED
      BY <1>10, <3>1 DEF Held, IoInv
  <2>3. QED
    BY <2>1, <2>2
<1>12. NothingMissed' /\ BlamesOwnCall'
  BY <1>1, <1>10 DEF IoInv, NothingMissed, BlamesOwnCall
<1>13. QED
  BY <1>9, <1>11, <1>12 DEF IoInv

(* Keeping errors blames no hook that checks for the first one, when it    *)
(* keeps the request's error only if there was none before the call.       *)
LEMMA KeepBlames ==
  ASSUME BlamesOwnCall, NEW t \in IoThread, NEW errors, Keep(t, errors),
         "op" \in errors => Inner(t).hook \notin First \/ Inner(t).was # "error"
  PROVE  BlamesOwnCall'
  BY DEF BlamesOwnCall, Keep

(* An error is missed only when two openers overlapped. *)
LEMMA KeepMisses ==
  ASSUME IoInv, NEW t \in IoThread, NEW errors, KeepGated(t, errors), overlapped' = overlapped
  PROVE  NothingMissed'
<1>1. ASSUME ~overlapped, Inside(t, "app")
      PROVE  gate.app = 1
  BY <1>1, Openers, OpenIsOpenAt DEF IoInv, Held
<1>2. missed' => missed \/ overlapped
  <2>1. missed' => missed \/ (gate.app = 0 /\ Inside(t, "app"))
    BY DEF KeepGated
  <2>2. gate.app # 0 \/ gate.app # 1
    OBVIOUS
  <2>3. QED
    BY <1>1, <2>1, <2>2
<1>3. QED
  BY <1>2 DEF IoInv, NothingMissed

(* The hooks that open no gate return or start their reports. *)
LEMMA ReturnKeepsIo ==
  ASSUME IoInv, NEW t \in IoThread,
         \/ ReturnLogged(t) \/ ReturnCounted(t) \/ LogCounted(t) \/ ReturnGated(t)
         \/ ReturnOp(t) \/ ReturnBoth(t) \/ ReturnFirst(t) \/ ReturnPrinter(t)
  PROVE  IoInv'
<1> DEFINE n == Len(calls[t])
<1>1. IoTypeOK /\ BlamesOwnCall /\ NothingMissed
  BY DEF IoInv
<1>2. UNCHANGED <<installed, gate, overlapped>> /\ calls[t] # <<>>
  BY DEF ReturnLogged, ReturnCounted, LogCounted, ReturnGated, ReturnOp, ReturnBoth, ReturnFirst,
     ReturnPrinter, At
<1>3. Inner(t) \in IoFrame /\ FrameOK(Inner(t)) /\ Inner(t).was \in Result
  BY <1>1, <1>2, InnerFrame DEF IoFrame
<1>4. Inner(t).hook \in Plain \cup Requests \cup First
  BY DEF ReturnLogged, ReturnCounted, LogCounted, ReturnGated, ReturnOp, ReturnBoth, ReturnFirst,
     ReturnPrinter, Plain, Requests, Counted
<1>5. \A g \in Gate : ~Opens(Inner(t), g)
  BY <1>4, OpenersApart DEF Opens
<1>6. \A g \in Gate : <<t, n>> \notin OpenAt(g)
  BY <1>1, <1>2, <1>5, OpenIsOpenAt
<1>7. \/ Leave(t) /\ op_result' \in [IoThread -> Result]
      \/ StartLog(t)
  <2>1. \/ (Leave(t) /\ UNCHANGED op_result) \/ EndLog(t) \/ StartLog(t)
    BY DEF ReturnLogged, ReturnCounted, LogCounted, ReturnGated, ReturnOp, ReturnBoth, ReturnFirst,
       ReturnPrinter
  <2>2. EndLog(t) => Leave(t) /\ op_result' \in [IoThread -> Result]
    BY <1>1, <1>3 DEF EndLog, IoTypeOK
  <2>3. UNCHANGED op_result => op_result' \in [IoThread -> Result]
    BY <1>1 DEF IoTypeOK
  <2>4. QED
    BY <2>1, <2>2, <2>3
<1>8. gate' \in [Gate -> {0, 1}]
  BY <1>1, <1>2 DEF IoTypeOK
<1>9. IoTypeOK' /\ \A g \in Gate : OpenAt(g)' = OpenAt(g)
  <2>1. CASE Leave(t) /\ op_result' \in [IoThread -> Result]
    <3>1. IoTypeOK' /\ \A g : OpenAt(g)' = OpenAt(g) \ {<<t, n>>}
      BY <1>1, <1>2, <1>8, <2>1, LeaveOpenAt
    <3>2. QED
      BY <1>6, <3>1
  <2>2. CASE StartLog(t)
    <3>1. IoTypeOK' /\ \A g : OpenAt(g)' = IF g = "app" THEN OpenAt(g) \ {<<t, n>>} ELSE OpenAt(g)
      BY <1>1, <1>2, <1>8, <2>2, LogOpenAt
    <3>2. QED
      BY <1>6, <3>1
  <2>3. QED
    BY <1>7, <2>1, <2>2
<1>10. \A g \in Gate : Held(g)'
  BY <1>2, <1>9, QuietGates DEF IoInv
<1>11. NothingMissed' /\ BlamesOwnCall'
  <2>1. CASE ReturnLogged(t) \/ LogCounted(t) \/ ReturnPrinter(t)
    BY <1>1, <2>1 DEF ReturnLogged, LogCounted, ReturnPrinter, NothingMissed, BlamesOwnCall
  <2>2. CASE ReturnCounted(t)
    <3>1. PICK errors \in SUBSET {"res"} : Keep(t, errors) /\ UNCHANGED <<missed, overlapped>>
      BY <2>2 DEF ReturnCounted
    <3>2. QED
      BY <1>1, <3>1, KeepBlames DEF NothingMissed
  <2>3. CASE ReturnGated(t)
    <3>1. PICK errors \in SUBSET {"res"} : KeepGated(t, errors)
      BY <2>3 DEF ReturnGated
    <3>2. BlamesOwnCall'
      BY <1>1, <3>1, KeepBlames DEF KeepGated
    <3>3. QED
      BY <1>2, <3>1, <3>2, KeepMisses
  <2>4. CASE ReturnOp(t) \/ ReturnBoth(t)
    <3>1. PICK errors : KeepGated(t, errors)
      BY <2>4 DEF ReturnOp, ReturnBoth
    <3>2. Inner(t).hook \notin First
      BY <2>4, FirstApart DEF ReturnOp, ReturnBoth, Requests
    <3>3. BlamesOwnCall'
      BY <1>1, <3>1, <3>2, KeepBlames DEF KeepGated
    <3>4. QED
      BY <1>2, <3>1, <3>3, KeepMisses
  <2>5. CASE ReturnFirst(t)
    <3>1. PICK errors : KeepGated(t, errors) /\ ("op" \in errors => Inner(t).note = "ok")
      <4> DEFINE other == IF Inner(t).hook \in FirstBoth THEN {"res"}
                          ELSE IF Inner(t).hook \in FirstArg /\ Inner(t).note = "ok" THEN {"arg"} ELSE {}
      <4>1. PICK errs \in SUBSET other :
              KeepGated(t, errs \cup IF Inner(t).note = "ok" THEN OpError(t) ELSE {})
        BY <2>5 DEF ReturnFirst
      <4>2. "op" \notin errs
        OBVIOUS
      <4>3. QED
        BY <4>1, <4>2
    <3>2. Inner(t).hook \in First /\ Inner(t).at = "in"
      BY <2>5 DEF ReturnFirst, At
    <3>3. "op" \in errors => Inner(t).was = "ok"
      BY <1>3, <3>1, <3>2 DEF FrameOK
    <3>4. BlamesOwnCall'
      BY <1>1, <3>1, <3>3, KeepBlames DEF KeepGated
    <3>5. QED
      BY <1>2, <3>1, <3>4, KeepMisses
  <2>6. QED
    BY <2>1, <2>2, <2>3, <2>4, <2>5
<1>12. QED
  BY <1>9, <1>10, <1>11 DEF IoInv

(* app_mgr_23EF934 closes its gate, which was open for it alone. *)
LEMMA CloseAppKeepsIo ==
  ASSUME IoInv, NEW t \in IoThread, CloseApp(t)
  PROVE  IoInv'
<1> DEFINE x == <<t, Len(calls[t])>>
<1>1. /\ IoTypeOK /\ calls[t] # <<>> /\ Inner(t).at = "in" /\ Inner(t).hook = Opener.app
      /\ gate' = [gate EXCEPT !["app"] = 0] /\ StartLog(t)
      /\ UNCHANGED <<installed, kept, overlapped, blamed, missed>>
  BY DEF IoInv, CloseApp, At
<1>2. gate' \in [Gate -> {0, 1}] /\ \A g \in Gate : gate'[g] = IF g = "app" THEN 0 ELSE gate[g]
  BY <1>1, Openers DEF IoTypeOK
<1>3. IoTypeOK' /\ \A g : OpenAt(g)' = IF g = "app" THEN OpenAt(g) \ {x} ELSE OpenAt(g)
  BY <1>1, <1>2, LogOpenAt
<1>4. Opens(Inner(t), "app")
  BY <1>1, InnerFrame, Openers DEF FrameOK, Opens
<1>5. x \in OpenAt("app")
  BY <1>1, <1>4, OpenIsOpenAt
<1> HIDE DEF x
<1>6. ASSUME NEW g \in Gate
      PROVE  Held(g)'
  <2>1. CASE g = "app"
    <3>1. gate'[g] = 0 /\ OpenAt(g)' = OpenAt(g) \ {x} /\ x \in OpenAt(g)
      BY <1>2, <1>3, <1>5, <2>1
    <3>2. ~overlapped => OpenAt(g)' = {}
      BY <3>1 DEF IoInv, Held
    <3>3. QED
      BY <1>1, <3>1, <3>2 DEF Held
  <2>2. CASE g # "app"
    <3>1. gate'[g] = gate[g] /\ OpenAt(g)' = OpenAt(g)
      BY <1>2, <1>3, <2>2
    <3>2. QED
      BY <1>1, <3>1 DEF IoInv, Held
  <2>3. QED
    BY <2>1, <2>2
<1>7. NothingMissed' /\ BlamesOwnCall'
  BY <1>1 DEF IoInv, NothingMissed, BlamesOwnCall
<1>8. QED
  BY <1>3, <1>6, <1>7 DEF IoInv

(* A call that opened gate k, or did not, closes it, or does not, and      *)
(* returns.                                                                *)
LEMMA ShutKeepsHeld ==
  ASSUME IoInv, NEW t \in IoThread, NEW k \in Gate, k # "app", calls[t] # <<>>,
         Inner(t).hook = Opener[k], Shut(t, k), Leave(t), op_result' \in [IoThread -> Result],
         overlapped' = overlapped
  PROVE  IoTypeOK' /\ \A g \in Gate : Held(g)'
<1> DEFINE x == <<t, Len(calls[t])>>
           opens == Inner(t).note = "opens"
<1>1. IoTypeOK
  BY DEF IoInv
<1>2. gate' \in [Gate -> {0, 1}] /\ \A g \in Gate : gate'[g] = IF g = k /\ opens THEN 0 ELSE gate[g]
  BY <1>1 DEF IoTypeOK, Shut
<1>3. IoTypeOK' /\ \A g : OpenAt(g)' = OpenAt(g) \ {x}
  BY <1>1, <1>2, LeaveOpenAt
<1>4. \A g \in Gate : Opens(Inner(t), g) <=> g = k /\ opens
  BY Openers DEF Opens
<1>5. \A g \in Gate : x \in OpenAt(g) <=> g = k /\ opens
  BY <1>1, <1>4, OpenIsOpenAt
<1> HIDE DEF x
<1>6. ASSUME NEW g \in Gate
      PROVE  Held(g)'
  <2>1. CASE g = k /\ opens
    <3>1. gate'[g] = 0 /\ OpenAt(g)' = OpenAt(g) \ {x} /\ x \in OpenAt(g)
      BY <1>2, <1>3, <1>5, <2>1
    <3>2. ~overlapped => OpenAt(g)' = {}
      BY <3>1 DEF IoInv, Held
    <3>3. QED
      BY <3>1, <3>2 DEF Held
  <2>2. CASE ~(g = k /\ opens)
    <3>1. gate'[g] = gate[g] /\ OpenAt(g)' = OpenAt(g)
      BY <1>2, <1>3, <1>5, <2>2
    <3>2. QED
      BY <3>1 DEF IoInv, Held
  <2>3. QED
    BY <2>1, <2>2
<1>7. QED
  BY <1>3, <1>6

(* The other two openers start their reports: their gates stay open. *)
LEMMA LogKeepsHeld ==
  ASSUME IoInv, NEW t \in IoThread, calls[t] # <<>>, StartLog(t), UNCHANGED <<gate, overlapped>>,
         Inner(t).hook \in {Opener.pfs, Opener.mount}
  PROVE  IoTypeOK' /\ \A g \in Gate : Held(g)'
<1> DEFINE x == <<t, Len(calls[t])>>
<1>1. IoTypeOK /\ gate' \in [Gate -> {0, 1}]
  BY DEF IoInv, IoTypeOK
<1>2. IoTypeOK' /\ \A g : OpenAt(g)' = IF g = "app" THEN OpenAt(g) \ {x} ELSE OpenAt(g)
  BY <1>1, LogOpenAt
<1>3. ~Opens(Inner(t), "app")
  BY Openers DEF Opens
<1>4. x \notin OpenAt("app")
  BY <1>1, <1>3, OpenIsOpenAt
<1>5. \A g \in Gate : OpenAt(g)' = OpenAt(g)
  BY <1>2, <1>4
<1>6. QED
  BY <1>2, <1>5, QuietGates DEF IoInv

(* iofilemgr_sceVfsMount reports or closes its gate.  It fails to report a *)
(* mount inside a mount operation only when two openers overlapped.        *)
LEMMA MountKeepsIo ==
  ASSUME IoInv, NEW t \in IoThread, ReturnMount(t)
  PROVE  IoInv'
<1>1. /\ IoTypeOK /\ calls[t] # <<>> /\ Inner(t).at = "in" /\ Inner(t).hook = Opener.mount
      /\ UNCHANGED <<overlapped, blamed>>
  BY DEF IoInv, ReturnMount, At
<1>2. BlamesOwnCall'
  BY <1>1 DEF IoInv, BlamesOwnCall
<1>3. CASE gate.pfs = 1 /\ gate.mount = 1
  <2>1. StartLog(t) /\ UNCHANGED <<gate, missed>>
    BY <1>3 DEF ReturnMount
  <2>2. QED
    BY <1>1, <1>2, <2>1, LogKeepsHeld DEF IoInv, NothingMissed
<1>4. CASE ~(gate.pfs = 1 /\ gate.mount = 1)
  <2>1. /\ Shut(t, "mount") /\ Leave(t) /\ UNCHANGED op_result
        /\ missed' = (missed \/ (Inner(t).note = "opens" /\ Inside(t, "pfs")))
    BY <1>4 DEF ReturnMount
  <2>2. op_result' \in [IoThread -> Result] /\ "mount" \in Gate /\ Opener.mount = Opener["mount"]
    BY <1>1, <2>1, Openers DEF IoTypeOK
  <2>3. IoTypeOK' /\ \A g \in Gate : Held(g)'
    BY <1>1, <2>1, <2>2, ShutKeepsHeld
  <2>4. ASSUME ~overlapped, Inner(t).note = "opens", Inside(t, "pfs")
        PROVE  FALSE
    <3>1. OpenAt("pfs") # {}
      BY <1>1, <2>4, OpenIsOpenAt
    <3>2. OpenAt("mount") # {}
      <4>1. Opens(Inner(t), "mount")
        BY <1>1, <2>2, <2>4 DEF Opens
      <4>2. QED
        BY <1>1, <4>1, OpenIsOpenAt
    <3>3. gate["pfs"] = 1 /\ gate["mount"] = 1
      BY <2>4, <3>1, <3>2, Openers DEF IoInv, Held
    <3>4. QED
      BY <1>4, <3>3
  <2>5. NothingMissed'
    <3>1. missed' => missed \/ overlapped
      BY <2>1, <2>4
    <3>2. QED
      BY <1>1, <3>1 DEF IoInv, NothingMissed
  <2>6. QED
    BY <1>2, <2>3, <2>5 DEF IoInv
<1>5. QED
  BY <1>3, <1>4

(* A report is written and its hook returns. *)
LEMMA LeaveLogKeepsIo ==
  ASSUME IoInv, NEW t \in IoThread, LeaveLog(t)
  PROVE  IoInv'
<1> DEFINE x == <<t, Len(calls[t])>>
<1>1. /\ IoTypeOK /\ calls[t] # <<>> /\ Inner(t).at = "log" /\ EndLog(t)
      /\ UNCHANGED <<installed, kept, overlapped, blamed, missed>>
  BY DEF IoInv, LeaveLog, At
<1>2. Inner(t).was \in Result
  BY <1>1, InnerFrame DEF IoFrame
<1>3. Leave(t) /\ op_result' \in [IoThread -> Result]
  BY <1>1, <1>2 DEF EndLog, IoTypeOK
<1>4. NothingMissed' /\ BlamesOwnCall'
  BY <1>1 DEF IoInv, NothingMissed, BlamesOwnCall
<1>5. CASE Inner(t).hook = Opener.pfs
  <2>1. Shut(t, "pfs") /\ "pfs" \in Gate /\ Opener.pfs = Opener["pfs"]
    BY <1>5, Openers DEF LeaveLog
  <2>2. IoTypeOK' /\ \A g \in Gate : Held(g)'
    BY <1>1, <1>3, <1>5, <2>1, ShutKeepsHeld
  <2>3. QED
    BY <1>4, <2>2 DEF IoInv
<1>6. CASE Inner(t).hook = Opener.mount
  <2>1. Shut(t, "mount") /\ "mount" \in Gate /\ Opener.mount = Opener["mount"]
    BY <1>6, Openers DEF LeaveLog
  <2>2. IoTypeOK' /\ \A g \in Gate : Held(g)'
    BY <1>1, <1>3, <1>6, <2>1, ShutKeepsHeld
  <2>3. QED
    BY <1>4, <2>2 DEF IoInv
<1>7. CASE Inner(t).hook # Opener.pfs /\ Inner(t).hook # Opener.mount
  <2>1. gate' = gate /\ gate' \in [Gate -> {0, 1}]
    BY <1>1, <1>7 DEF LeaveLog, IoTypeOK
  <2>2. IoTypeOK' /\ \A g : OpenAt(g)' = OpenAt(g) \ {x}
    BY <1>1, <1>3, <2>1, LeaveOpenAt
  <2>3. \A g \in Gate : ~Opens(Inner(t), g)
    BY <1>1, <1>7, Openers DEF Opens
  <2>4. \A g \in Gate : x \notin OpenAt(g)
    BY <1>1, <2>3, OpenIsOpenAt
  <2>5. \A g \in Gate : Held(g)'
    BY <1>1, <2>1, <2>2, <2>4, QuietGates DEF IoInv
  <2>6. QED
    BY <1>4, <2>2, <2>5 DEF IoInv
<1>8. QED
  BY <1>5, <1>6, <1>7

(* The invariant of the hooks that follow an error is inductive. *)
LEMMA IoInvariant == IoSpec => []IoInv
<1>1. IoInit => IoInv
  <2>1. SUFFICES ASSUME IoInit PROVE IoInv
    OBVIOUS
  <2>2. \A t \in IoThread : calls[t] = <<>> /\ DOMAIN calls[t] = {}
    BY <2>1 DEF IoInit
  <2>3. calls \in [IoThread -> Seq(IoFrame)]
    BY <2>1 DEF IoInit
  <2>4. IoTypeOK
    BY <2>1, <2>2, <2>3 DEF IoInit, IoTypeOK, Result
  <2>5. \A g \in Gate : OpenAt(g) = {}
    BY <2>2 DEF OpenAt
  <2>6. \A g \in Gate : Held(g)
    BY <2>1, <2>5 DEF IoInit, Held
  <2>7. NothingMissed /\ BlamesOwnCall
    BY <2>1 DEF IoInit, NothingMissed, BlamesOwnCall
  <2>8. QED
    BY <2>4, <2>6, <2>7 DEF IoInv
<1>2. IoInv /\ [IoNext]_ioVars => IoInv'
  <2>1. SUFFICES ASSUME IoInv, [IoNext]_ioVars PROVE IoInv'
    OBVIOUS
  <2>2. ASSUME UNCHANGED <<gate, calls, overlapped, blamed, missed>>, op_result' \in [IoThread -> Result]
        PROVE  IoInv'
    <3>1. IoTypeOK'
      BY <2>1, <2>2 DEF IoInv, IoTypeOK
    <3>2. \A g \in Gate : OpenAt(g)' = OpenAt(g)
      BY <2>2 DEF OpenAt
    <3>3. \A g \in Gate : Held(g)'
      BY <2>1, <2>2, <3>2, QuietGates DEF IoInv
    <3>4. QED
      BY <2>1, <2>2, <3>1, <3>3 DEF IoInv, NothingMissed, BlamesOwnCall
  <2>3. CASE UNCHANGED ioVars
    BY <2>1, <2>2, <2>3 DEF ioVars, IoInv, IoTypeOK
  <2>4. ASSUME NEW t \in IoThread, Fail(t)
        PROVE  IoInv'
    BY <2>1, <2>2, <2>4 DEF Fail, IoInv, IoTypeOK, Result
  <2>5. ASSUME NEW t \in IoThread, LogPfs(t)
        PROVE  IoInv'
    BY <2>1, <2>5, LogKeepsHeld DEF LogPfs, At, IoInv, NothingMissed, BlamesOwnCall
  <2>6. QED
    BY <2>1, <2>3, <2>4, <2>5, EnterKeepsIo, OpenKeepsIo, ReturnKeepsIo, CloseAppKeepsIo,
       MountKeepsIo, LeaveLogKeepsIo DEF IoNext
<1>3. QED
  BY <1>1, <1>2, PTL DEF IoSpec

(* A gate that is open is held by a call that will close it (hooks_misc.c, *)
(* log_iofilemgr_in_app_mgr, g_pfs_mount_enable_log and                    *)
(* g_iofilemgr_sceVfsMount_enable_log), for any threads, any choice of     *)
(* hooks and any depth of nested calls.                                    *)
THEOREM IoGateHeld == IoSpec => []GateHeld
<1>1. IoInv => GateHeld
  BY OpenIsOpenAt DEF IoInv, Held, GateHeld
<1>2. QED
  BY <1>1, IoInvariant, PTL

(* An error made inside the operation that is followed is kept, and a      *)
(* mount inside a mount operation is reported, unless two calls that open  *)
(* the same gate overlapped (hooks_misc.c).                                *)
THEOREM IoNothingMissed == IoSpec => []NothingMissed
<1>1. IoInv => NothingMissed
  BY DEF IoInv
<1>2. QED
  BY <1>1, IoInvariant, PTL

(* A hook that checks "first time set" keeps no error that was there       *)
(* before its call (hooks_misc.c, iofilemgr_BF83A0_hook and the others).   *)
THEOREM IoBlamesOwnCall == IoSpec => []BlamesOwnCall
<1>1. IoInv => BlamesOwnCall
  BY DEF IoInv
<1>2. QED
  BY <1>1, IoInvariant, PTL

-----------------------------------------------------------------------------
(* The lists of hooks. *)

HookSpec == HookInit /\ [][HookNext]_hookVars

(* The three injections that no list reports. *)
Unreported == {"patch_0", "patch_1", "patch_2"}

(* A hook that is set has the identifier 1 and is in the list of the hooks *)
(* that its program sets; only the identifiers that C initialises to 0 are *)
(* not negative otherwise.                                                 *)
HookInv ==
    /\ Program \in {"driver", "error_logger"}
    /\ hookId \in {1, -1, -2} \/ (hookId = 0 /\ HookName \in StartsAtZero)
    /\ isSet => hookId = 1 /\ HookName \in Set[Program]
    /\ hookPc \in {"set", "report"} => reported = "nothing" /\ ~released
    /\ hookPc = "set" => ~isSet
    /\ ListsAgree

(* Every hook that the driver sets is in the list of those it reports, but *)
(* for the three injections, and in the list of those it releases.         *)
LEMMA DriverLists ==
  /\ Driver_Set \subseteq Driver_Report \cup Unreported
  /\ Driver_Set \subseteq Release_1 \cup Release_2
<1>1. Set_PfsMgr \subseteq Driver_Report
  BY DEF Set_PfsMgr, Driver_Report, Report_1, Report_2, Report_3, Report_4, Report_5, Report_6,
         Report_7, Report_8, Report_9, Report_10, Report_11
<1>2. Set_PfsMgr \subseteq Release_1 \cup Release_2
  BY DEF Set_PfsMgr, Release_1, Release_2
<1>3. Set_AppMgr \cup Set_GcAuthMgr \subseteq Driver_Report
  BY DEF Set_AppMgr, Set_GcAuthMgr, Driver_Report, Report_1, Report_2, Report_3, Report_4,
         Report_5, Report_6, Report_7, Report_8, Report_9, Report_10, Report_11
<1>4. Set_AppMgr \cup Set_GcAuthMgr \subseteq Release_1 \cup Release_2
  BY DEF Set_AppMgr, Set_GcAuthMgr, Release_1, Release_2
<1>5. Set_Sdstor \subseteq Driver_Report
  BY DEF Set_Sdstor, Driver_Report, Report_1, Report_2, Report_3, Report_4, Report_5, Report_6,
         Report_7, Report_8, Report_9, Report_10, Report_11
<1>6. Set_Sdstor \subseteq Release_1 \cup Release_2
  BY DEF Set_Sdstor, Release_1, Release_2
<1>7. Set_Sdif \subseteq Driver_Report \cup Unreported
  BY DEF Set_Sdif, Unreported, Driver_Report, Report_1, Report_2, Report_3, Report_4, Report_5,
         Report_6, Report_7, Report_8, Report_9, Report_10, Report_11
<1>8. Set_Sdif \subseteq Release_1 \cup Release_2
  BY DEF Set_Sdif, Release_1, Release_2
<1>9. Set_Sysmem \cup Set_Iofilemgr1 \subseteq Driver_Report
  BY DEF Set_Sysmem, Set_Iofilemgr1, Driver_Report, Report_1, Report_2, Report_3, Report_4,
         Report_5, Report_6, Report_7, Report_8, Report_9, Report_10, Report_11
<1>10. Set_Sysmem \cup Set_Iofilemgr1 \subseteq Release_1 \cup Release_2
  BY DEF Set_Sysmem, Set_Iofilemgr1, Release_1, Release_2
<1>11. Set_Iofilemgr2 \subseteq Driver_Report
  BY DEF Set_Iofilemgr2, Driver_Report, Report_1, Report_2, Report_3, Report_4, Report_5,
         Report_6, Report_7, Report_8, Report_9, Report_10, Report_11
<1>12. Set_Iofilemgr2 \subseteq Release_1 \cup Release_2
  BY DEF Set_Iofilemgr2, Release_1, Release_2
<1>13. Set_Error \cup Set_Vsh \subseteq Driver_Report
  BY DEF Set_Error, Set_Vsh, Driver_Report, Report_1, Report_2, Report_3, Report_4, Report_5,
         Report_6, Report_7, Report_8, Report_9, Report_10, Report_11
<1>14. Set_Error \cup Set_Vsh \subseteq Release_1 \cup Release_2
  BY DEF Set_Error, Set_Vsh, Release_1, Release_2
<1>15. Driver_Set \subseteq Driver_Report \cup Unreported
  BY <1>1, <1>3, <1>5, <1>7, <1>9, <1>11, <1>13 DEF Driver_Set
<1>16. Driver_Set \subseteq Release_1 \cup Release_2
  BY <1>2, <1>4, <1>6, <1>8, <1>10, <1>12, <1>14 DEF Driver_Set
<1>. QED
  BY <1>15, <1>16

(* The same of error_logger, whose lists leave nothing out. *)
LEMMA LoggerLists ==
  /\ Logger_Set \subseteq Logger_Report_1 \cup Logger_Report_2 \cup Logger_Report_3
  /\ Logger_Set \subseteq Logger_Release
BY DEF Logger_Set, Logger_Report_1, Logger_Report_2, Logger_Report_3, Logger_Release

(* What the proofs use of the lists, for either program. *)
LEMMA ListsCover ==
  ASSUME NEW p \in {"driver", "error_logger"}, NEW n \in Set[p]
  PROVE  /\ n \in Report[p] \/ n \in Unreported
         /\ n \in Release[p]
<1>1. CASE p = "driver"
  BY <1>1, DriverLists DEF Set, Report, Release
<1>2. CASE p = "error_logger"
  BY <1>2, LoggerLists DEF Set, Report, Release
<1>. QED
  BY <1>1, <1>2

(* The lists agree, whichever modules were loaded and whichever calls      *)
(* failed (initialize_all_hooks and deinitialize_all_hooks of debug.c and  *)
(* error_logger.c): for every hook of either program.                      *)
THEOREM HooksListed == HookSpec => []ListsAgree
<1>1. HookInit => HookInv
  <2>1. SUFFICES ASSUME HookInit PROVE HookInv
    OBVIOUS
  <2>2. Program \in {"driver", "error_logger"}
    BY <2>1 DEF HookInit, Followed, Program
  <2>3. hookId = IF HookName \in StartsAtZero THEN 0 ELSE -1
    BY <2>1 DEF HookInit, Init_id, HookName
  <2>. QED
    BY <2>1, <2>2, <2>3 DEF HookInit, HookInv, ListsAgree
<1>2. HookInv /\ [HookNext]_hookVars => HookInv'
  <2>1. SUFFICES ASSUME HookInv, [HookNext]_hookVars PROVE HookInv'
    OBVIOUS
  <2>. USE <2>1
  <2>2. CASE SetHook
    BY <2>2 DEF SetHook, HookInv, ListsAgree, Program, HookName
  <2>3. CASE ModuleMissing
    BY <2>3 DEF ModuleMissing, HookInv, ListsAgree, Program, HookName
  <2>4. CASE PRINT_HOOK
    <3>1. isSet => HookName \in Report[Program] \/ HookName \in Unreported
      BY ListsCover DEF HookInv
    <3>. QED
      BY <2>4, <3>1 DEF PRINT_HOOK, HookInv, ListsAgree, Program, HookName, Unreported
  <2>5. CASE RELEASE_HOOK
    <3>1. isSet => HookName \in Release[Program]
      BY ListsCover DEF HookInv
    <3>. QED
      BY <2>5, <3>1 DEF RELEASE_HOOK, HookInv, ListsAgree, Program, HookName
  <2>6. CASE UNCHANGED hookVars
    BY <2>6 DEF hookVars, HookInv, ListsAgree, Program, HookName
  <2>. QED
    BY <2>2, <2>3, <2>4, <2>5, <2>6 DEF HookNext
<1>3. HookInv => ListsAgree
  BY DEF HookInv
<1>. QED
  BY <1>1, <1>2, <1>3, PTL DEF HookSpec
=============================================================================
