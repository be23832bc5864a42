---------------------------- MODULE SegmentTable ----------------------------
(***************************************************************************)
(* mtable.c and the lookups of stacktrace.c: module_start lists the loaded *)
(* modules and their segments in a table of fixed size and sorts it; the   *)
(* hooks, which are set before, look addresses up in it to print a stack   *)
(* trace.  The flag that the table is there is set before it is filled.    *)
(* An unused entry has the bytes of -1, the largest address.               *)
(***************************************************************************)
EXTENDS Quicksort, FiniteSets

CONSTANTS
    MOD_LIST_SIZE,      \* modules the list has place for
    SegmentsPerModule,  \* 4 in the code
    MaxVaddr            \* bound on the addresses of segments

(* Segment v occupies the addresses 2v and 2v + 1: neighbours touch. *)
Vaddrs  == 1 .. MaxVaddr
NULL    == 0
Minus1  == 2 * MaxVaddr + 3
Address == 0 .. Minus1
Free    == [start |-> Minus1, end |-> Minus1]
Segment(v) == [start |-> 2 * v, end |-> 2 * v + 2]

SEG_LIST_SIZE == MOD_LIST_SIZE * SegmentsPerModule

VARIABLES
    minfo,          \* the system's view: the segments of the loaded modules
    segPc,          \* where module_start is
    constructed,    \* moduleListIsConstructed
    segList,        \* the table
    segInfoIndex,   \* how many entries are filled
    listed,         \* how many modules have been gone through
    todo,           \* the segments of the last of them that are not in the table yet
    beyond,         \* history: something was written behind the table
    trace           \* a stack trace: the address, when it began, what it found

segVars == <<minfo, segPc, constructed, segList, segInfoIndex, listed, todo, beyond, trace>>

NoTrace == [pc |-> "none", item |-> NULL, early |-> FALSE, half |-> FALSE, index |-> 0]

(* Loaded modules have different segments; some have fewer. *)
Layouts ==
    {m \in UNION {[1 .. n -> [1 .. SegmentsPerModule -> {NULL} \cup Vaddrs]] : n \in 0 .. MOD_LIST_SIZE} :
        \A i, j \in DOMAIN m : \A s, t \in 1 .. SegmentsPerModule :
            m[i][s] = m[j][t] /\ m[i][s] # NULL => i = j /\ s = t}

SegInit ==
    /\ minfo \in Layouts
    /\ segPc = "construct" /\ constructed = 0
    /\ segList = [i \in 1 .. SEG_LIST_SIZE |-> Free]
    /\ segInfoIndex = 0 /\ listed = 0 /\ todo = <<>> /\ beyond = FALSE
    /\ trace = NoTrace

(* Sets the flag and clears the table; the list of modules may fail. *)
construct ==
    /\ segPc = "construct" /\ constructed = 0
    /\ constructed' = 1
    /\ segPc' \in {"modules", "sort"}
    /\ UNCHANGED <<minfo, segList, segInfoIndex, listed, todo, beyond, trace>>

Fill(index, entry) ==
    IF index <= SEG_LIST_SIZE
    THEN segList' = [segList EXCEPT ![index] = entry] /\ UNCHANGED beyond
    ELSE beyond' = TRUE /\ UNCHANGED segList

Present(module) == SelectSeq(module, LAMBDA v : v # NULL)

(* Mutant: the index starts anew with every module. *)
Bug_IndexPerModule ==
    /\ segPc = "modules" /\ todo = <<>> /\ listed < Len(minfo)
    /\ \/ todo' = Present(minfo[listed + 1]) /\ listed' = listed + 1
          /\ segInfoIndex' = 0 /\ UNCHANGED segPc
       \/ segPc' = "sort" /\ UNCHANGED <<todo, listed, segInfoIndex>>
    /\ UNCHANGED <<minfo, constructed, segList, beyond, trace>>

(* A failure ends the construction, with what is in the table so far. *)
ksceKernelGetModuleInfo ==
    /\ segPc = "modules" /\ todo = <<>> /\ listed < Len(minfo)
    /\ \/ todo' = Present(minfo[listed + 1]) /\ listed' = listed + 1 /\ UNCHANGED segPc
       \/ segPc' = "sort" /\ UNCHANGED <<todo, listed>>
    /\ UNCHANGED <<minfo, constructed, segList, segInfoIndex, beyond, trace>>

(* The two bounds of an entry are stored one after the other. *)
StoreStart ==
    /\ segPc = "modules" /\ todo # <<>> /\ segPc' = "end"
    /\ Fill(segInfoIndex + 1, [Free EXCEPT !.start = Segment(Head(todo)).start])
    /\ UNCHANGED <<minfo, constructed, segInfoIndex, listed, todo, trace>>

StoreEnd ==
    /\ segPc = "end" /\ segPc' = "modules"
    /\ Fill(segInfoIndex + 1, Segment(Head(todo)))
    /\ segInfoIndex' = segInfoIndex + 1 /\ todo' = Tail(todo)
    /\ UNCHANGED <<minfo, constructed, listed, trace>>

SetFinalItem ==
    /\ segPc = "modules" /\ todo = <<>> /\ listed = Len(minfo) /\ segPc' = "sort"
    /\ Fill(segInfoIndex + 1, Free)
    /\ UNCHANGED <<minfo, constructed, segInfoIndex, listed, todo, trace>>

construct_module_range_table ==
    construct \/ ksceKernelGetModuleInfo \/ StoreStart \/ StoreEnd \/ SetFinalItem

(* compare_segments looks at the start alone, which tells segments apart.  *)
Sorted(list) ==
    LET starts == qsort_imp([i \in DOMAIN list |-> list[i].start], 1, Len(list))
    IN  [i \in DOMAIN list |-> list[CHOOSE j \in DOMAIN list : list[j].start = starts[i]]]

(* Mutant: the table is not sorted by the start. *)
Bug_NotSorted ==
    /\ segPc = "sort" /\ segPc' = "done"
    /\ segList' = Reverse(segList)
    /\ UNCHANGED <<minfo, constructed, segInfoIndex, listed, todo, beyond, trace>>

sort_segment_table ==
    /\ segPc = "sort" /\ segPc' = "done"
    /\ segList' = Sorted(segList)
    /\ UNCHANGED <<minfo, constructed, segInfoIndex, listed, todo, beyond, trace>>

(* The index of the first entry with the address, 0 for none. *)
find_in_segments(item) ==
    LET hits == {s \in DOMAIN segList : item >= segList[s].start /\ item < segList[s].end}
    IN  IF constructed = 0 \/ hits = {} THEN 0 ELSE CHOOSE s \in hits : \A t \in hits : s <= t

(* The entries print_segment_table prints: up to the first unused one. *)
print_segment_table ==
    LET free == {s \in DOMAIN segList : segList[s].start = Minus1 \/ segList[s].end = Minus1}
    IN  {segList[s] : s \in {t \in DOMAIN segList : \A f \in free : t < f}}

(* A hook looks up an address of its stack, then prints the entry. *)
stacktrace_find ==
    /\ trace.pc = "none"
    /\ \E item \in Address :
         trace' = [pc |-> IF find_in_segments(item) = 0 THEN "over" ELSE "print", item |-> item,
                   early |-> segPc # "done",
                   half |-> segPc = "end" /\ find_in_segments(item) = segInfoIndex + 1,
                   index |-> find_in_segments(item)]
    /\ UNCHANGED <<minfo, segPc, constructed, segList, segInfoIndex, listed, todo, beyond>>

stacktrace_print ==
    /\ trace.pc = "print"
    /\ trace' = [trace EXCEPT !.pc = "printed"]
    /\ UNCHANGED <<minfo, segPc, constructed, segList, segInfoIndex, listed, todo, beyond>>

SegNext ==
    construct_module_range_table \/ sort_segment_table \/ stacktrace_find \/ stacktrace_print

-----------------------------------------------------------------------------

(* The segments of the modules gone through. *)
Known == {Segment(v) : v \in UNION {{minfo[m][s] : s \in 1 .. SegmentsPerModule} : m \in 1 .. listed} \ {NULL}}
Has(segment, item) == segment.start <= item /\ item < segment.end

(* In the finished table an address is found exactly if a segment of the   *)
(* modules gone through has it, and the print lists those segments and no  *)
(* unused entry, also when the construction was given up half way.  No     *)
(* segment is written behind the table, only the final item of a list that *)
(* is full of modules with all their segments.                             *)
TableExact ==
    /\ beyond => segInfoIndex = SEG_LIST_SIZE /\ todo = <<>>
    /\ segPc = "done" =>
        /\ \A item \in Address :
             LET i == find_in_segments(item)
             IN  IF i = 0 THEN \A seg \in Known : ~Has(seg, item)
                 ELSE segList[i] \in Known /\ Has(segList[i], item)
        /\ print_segment_table = Known

(* A stack trace that looks an address up while the table is being filled  *)
(* prints a segment the address is in, although entries are added between  *)
(* its lookup and its print, with two exceptions.  The entry was being     *)
(* written, had its start and not yet its end, and so seemed to have every *)
(* address from there on; even then no segment that was in the table       *)
(* before has the address.  Or the sort has moved the entries in between.  *)
TraceRight ==
    trace.pc = "print" =>
        \/ Has(segList[trace.index], trace.item)
        \/ trace.half /\ \A s \in 1 .. trace.index - 1 : ~Has(segList[s], trace.item)
        \/ trace.early /\ segPc = "done"

-----------------------------------------------------------------------------

(* The sort alone: the inputs are all short sequences of a few keys and    *)
(* some long ones.                                                         *)

CONSTANTS MaxSortLength, Keys, LongLengths, Strides

VARIABLE keys

SortInit == keys = <<>>

Longer_input == Len(keys) < MaxSortLength /\ \E k \in Keys : keys' = Append(keys, k)

Long_input ==
    /\ keys = <<>>
    /\ \E n \in LongLengths : \E step, m \in Strides :
         keys' = [i \in 1 .. n |-> (i * step) % m]

SortNext == Longer_input \/ Long_input

(* The result is in order and has each key as often as the input.          *)
Sorts ==
    LET out == qsort_imp(keys, 1, Len(keys))
        Count(s, k) == Cardinality({i \in DOMAIN s : s[i] = k})
    IN  /\ \A i \in 1 .. Len(out) - 1 : out[i] <= out[i + 1]
        /\ \A i \in DOMAIN keys : Count(out, keys[i]) = Count(keys, keys[i])
=============================================================================
