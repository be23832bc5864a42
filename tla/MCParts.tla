------------------------------- MODULE MCParts --------------------------------
(***************************************************************************)
(* Parts of the system that share no state: the driver under every         *)
(* sequence of calls, the requests of dump_partition, the lists of hooks,  *)
(* and the table of segments with the sort it uses.  Since a property of   *)
(* one depends on its own variables only, a behaviour takes steps of one   *)
(* of them, and the others stay in an initial state of theirs.             *)
(***************************************************************************)
EXTENDS Driver, PartitionPlan, HookTable, SegmentTable

VARIABLE part

AnyHook  == CHOOSE t \in Followed : TRUE
Unloaded == CHOOSE m \in Layouts : m = <<>>

MCInit ==
    /\ DriverInit /\ Init /\ HookInit /\ SegInit /\ SortInit
    /\ \/ part \in {"driver", "plan"} /\ table = AnyHook /\ minfo = Unloaded
       \/ part = "hooks" /\ minfo = Unloaded
       \/ part = "table" /\ table = AnyHook
       \/ part = "sort"  /\ table = AnyHook /\ minfo = Unloaded

MCNext ==
    /\ UNCHANGED part
    /\ \/ part = "driver" /\ DriverNext /\ UNCHANGED <<vars, hookVars, segVars, keys>>
       \/ part = "plan"   /\ (Further \/ Longer) /\ UNCHANGED <<dvars, hookVars, segVars, keys>>
       \/ part = "hooks"  /\ HookNext /\ UNCHANGED <<dvars, vars, segVars, keys>>
       \/ part = "table"  /\ SegNext /\ UNCHANGED <<dvars, vars, hookVars, keys>>
       \/ part = "sort"   /\ SortNext /\ UNCHANGED <<dvars, vars, hookVars, segVars>>

MCSpec == MCInit /\ [][MCNext]_<<dvars, vars, hookVars, segVars, keys, part>>

\* Three kernel memory blocks, a zero and two usable geometries.
MCBlocks == 1 .. 3
MCGeometries == {0, 2, 3}
MCData == [d \in Devices |-> <<>>]
MCKeys == {1, 2, 3}
MCLongLengths == {40, 41, 47}
MCStrides == {1, 5, 7, 12, 50}
=============================================================================
