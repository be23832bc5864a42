--------------------------- MODULE GlobalLog_proofs ---------------------------
(***************************************************************************)
(* Proofs about GlobalLog, for any finite set of users.                    *)
(***************************************************************************)
EXTENDS GlobalLog, FiniteSetTheorems, TLAPS

(* Users inside a call, and users that are in the count. *)
InsidePlaces == {"open_test", "open_file", "open_count", "open_done", "write_in",
                 "close_count", "close_test", "close_file", "close_done"}
CountedPlaces == {"open_done", "held", "write", "write_in", "close", "close_count"}
Inside == {u \in Users : pc[u] \in InsidePlaces}
Counted == {u \in Users : pc[u] \in CountedPlaces}

(* One user at a time is inside, and the mutex knows which. *)
Exclusive ==
    /\ \A u, v \in Inside : u = v
    /\ mutex = "created" => owner = Inside
    /\ mutex = "none" => owner = {} /\ Inside = {}

(* The descriptor, the count and the system's files belong together; while *)
(* a user is inside they may be in the states its next step expects.       *)
Consistent ==
    /\ ref = Cardinality(Counted)
    /\ files = IF fd = Descriptor THEN 1 ELSE 0
    /\ ref # 0 => fd # -1
    /\ \A u \in Users :
        /\ pc[u] = "open_file" => fd = -1 /\ ref = 0
        /\ pc[u] = "open_count" => fd # -1
        /\ pc[u] = "close_file" => fd = Descriptor /\ ref = 0
    /\ fd = Descriptor /\ ref = 0 =>
        \E u \in Users : pc[u] \in {"open_count", "close_test", "close_file"}

LogInv == TypeOK /\ (~unguarded => Exclusive /\ Consistent)

-----------------------------------------------------------------------------

(* The count is a natural number, 0 exactly when nobody is counted. *)
LEMMA CountedFinite ==
  /\ IsFiniteSet(Counted)
  /\ Cardinality(Counted) \in Nat
  /\ Cardinality(Counted) = 0 <=> Counted = {}
<1>1. Counted \in SUBSET Users
  BY DEF Counted
<1>2. IsFiniteSet(Counted)
  BY <1>1, UsersAssumption, FS_Subset
<1>3. QED
  BY <1>2, FS_CardinalityType, FS_EmptySet

(* A user that moves between two places that are both counted, or both not, *)
(* leaves the set of counted users as it is.                               *)
LEMMA MoveKeepsCounted ==
  ASSUME TypeOK, NEW u \in Users, NEW from, NEW to, Go(u, from, to),
         from \in CountedPlaces <=> to \in CountedPlaces
  PROVE  Counted' = Counted
  BY DEF TypeOK, Counted, Go

(* What a step inside the call, or out of it, does to the set of users     *)
(* that are inside.                                                        *)
LEMMA MoveInside ==
  ASSUME TypeOK, NEW u \in Users, NEW from, NEW to, Go(u, from, to)
  PROVE  /\ from \in InsidePlaces /\ to \in InsidePlaces => Inside' = Inside
         /\ from \notin InsidePlaces /\ to \notin InsidePlaces => Inside' = Inside
         /\ from \notin InsidePlaces /\ to \in InsidePlaces => Inside' = Inside \cup {u}
         /\ from \in InsidePlaces /\ to \notin InsidePlaces => Inside' = Inside \ {u}
         /\ from \in InsidePlaces => u \in Inside
  BY DEF TypeOK, Inside, Go

(* The invariant holds at the start: nobody is inside, nothing is counted. *)
LEMMA InitLogInv == Init => LogInv
<1> SUFFICES ASSUME Init PROVE LogInv
  OBVIOUS
<1> USE DEF Init
<1>1. TypeOK
  <2>1. unguarded \in BOOLEAN
    BY Zenon
  <2>2. pc \in [Users -> Places]
    BY DEF Places
  <2>3. QED
    BY <2>1, <2>2 DEF TypeOK, OpenError, Descriptor
<1>2. Inside = {} /\ Counted = {}
  BY DEF Inside, Counted, InsidePlaces, CountedPlaces
<1>3. Exclusive
  BY <1>2 DEF Exclusive
<1>4. Consistent
  BY <1>2, FS_EmptySet DEF Consistent, Descriptor
<1>5. QED
  BY <1>1, <1>3, <1>4 DEF LogInv

(* The steps of a call that the three calls share keep the types. *)
LEMMA SharedTypeOK ==
  ASSUME TypeOK, NEW u \in Users, NEW from, NEW to \in Places,
         Call(u, from, to) \/ Lock(u, from, to) \/ Unlock(u, from, to)
  PROVE  TypeOK'
<1>1. Go(u, from, to) /\ UNCHANGED <<fd, ref, mutex, files>>
  BY DEF Call, Lock, Unlock
<1>2. pc' \in [Users -> Places]
  BY <1>1 DEF Go, TypeOK
<1>3. owner' \in SUBSET Users
  BY DEF Call, Lock, Unlock, TypeOK
<1>4. unguarded' \in BOOLEAN
  BY DEF Call, Lock, Unlock, TypeOK
<1>5. QED
  BY <1>1, <1>2, <1>3, <1>4 DEF TypeOK

(* Every step keeps the type invariant. *)
LEMMA NextTypeOK ==
  ASSUME TypeOK, [Next]_vars
  PROVE  TypeOK'
<1>1. CASE UNCHANGED vars
  BY <1>1 DEF vars, TypeOK
<1>2. CASE init_global_log
  BY <1>2 DEF init_global_log, TypeOK
<1>3. CASE deinit_global_log
  BY <1>3 DEF deinit_global_log, TypeOK
<1>4. ASSUME NEW u \in Users, open_global_log(u)
      PROVE  TypeOK'
  <2>1. CASE open_test(u) \/ open_file(u) \/ open_count(u)
    BY <2>1 DEF open_test, open_file, open_count, Go, TypeOK, Places, Descriptor, OpenError
  <2>2. CASE ~(open_test(u) \/ open_file(u) \/ open_count(u))
    BY <1>4, <2>2, SharedTypeOK DEF open_global_log, Places
  <2>3. QED
    BY <2>1, <2>2
<1>5. ASSUME NEW u \in Users, FILE_GLOBAL_WRITE_LEN(u)
      PROVE  TypeOK'
  BY <1>5, SharedTypeOK DEF FILE_GLOBAL_WRITE_LEN, Places
<1>6. ASSUME NEW u \in Users, close_global_log(u)
      PROVE  TypeOK'
  <2>1. CASE close_count(u) \/ close_test(u) \/ close_file(u)
    BY <2>1 DEF close_count, close_test, close_file, Go, TypeOK, Places, Descriptor, OpenError
  <2>2. CASE ~(close_count(u) \/ close_test(u) \/ close_file(u))
    BY <1>6, <2>2, SharedTypeOK DEF close_global_log, Places
  <2>3. QED
    BY <2>1, <2>2
<1>7. QED
  BY <1>1, <1>2, <1>3, <1>4, <1>5, <1>6 DEF Next, User

(* Entering and leaving a call, and calling, keep the invariant: the mutex *)
(* lets a user in only when nobody is inside, and the count and descriptor *)
(* do not change.                                                          *)
LEMMA LockKeeps ==
  ASSUME TypeOK, Exclusive, Consistent, NEW u \in Users, NEW from, NEW to,
         Lock(u, from, to), ~unguarded', from \notin InsidePlaces,
         to \in InsidePlaces \ {"open_file", "open_count", "close_file", "close_test"},
         from \in CountedPlaces <=> to \in CountedPlaces
  PROVE  Exclusive' /\ Consistent'
<1>1. /\ mutex = "created" /\ owner = {} /\ owner' = {u}
      /\ Go(u, from, to) /\ UNCHANGED <<fd, ref, mutex, files>>
  BY DEF Lock
<1>2. Inside' = {u}
  BY <1>1, MoveInside DEF Exclusive
<1>3. Exclusive'
  BY <1>1, <1>2 DEF Exclusive
<1>4. Counted' = Counted
  BY <1>1, MoveKeepsCounted
<1>6. \A v \in Users : v # u => pc'[v] = pc[v]
  BY <1>1 DEF Go, TypeOK
<1>7. pc'[u] = to
  BY <1>1 DEF Go, TypeOK
<1>8. \A v \in Users : pc[v] \notin InsidePlaces
  BY <1>1 DEF Exclusive, Inside
<1>9. Consistent'
  <2>1. /\ ref' = Cardinality(Counted)'
        /\ files' = IF fd' = Descriptor THEN 1 ELSE 0
        /\ ref' # 0 => fd' # -1
    BY <1>1, <1>4 DEF Consistent
  <2>2. \A v \in Users :
          /\ pc'[v] = "open_file" => fd' = -1 /\ ref' = 0
          /\ pc'[v] = "open_count" => fd' # -1
          /\ pc'[v] = "close_file" => fd' = Descriptor /\ ref' = 0
    BY <1>1, <1>6, <1>7 DEF Consistent
  <2>3. ~(fd' = Descriptor /\ ref' = 0)
    BY <1>1, <1>8 DEF Consistent, InsidePlaces
  <2>4. QED
    BY <2>1, <2>2, <2>3 DEF Consistent
<1>10. QED
  BY <1>3, <1>9

(* Leaving a call keeps the invariant. *)
LEMMA UnlockKeeps ==
  ASSUME TypeOK, Exclusive, Consistent, NEW u \in Users, NEW from, NEW to,
         Unlock(u, from, to),
         from \in {"open_done", "write_in", "close_done"}, to \in {"held", "idle"},
         from \in CountedPlaces <=> to \in CountedPlaces
  PROVE  Exclusive' /\ Consistent'
<1>1. /\ owner' = owner \ {u}
      /\ Go(u, from, to) /\ UNCHANGED <<fd, ref, mutex, files>>
  BY DEF Unlock
<1>2. Inside' = Inside \ {u} /\ u \in Inside
  BY <1>1, MoveInside DEF InsidePlaces
<1>3. Exclusive'
  BY <1>1, <1>2 DEF Exclusive
<1>4. Counted' = Counted
  BY <1>1, MoveKeepsCounted
<1>5. pc'[u] = to /\ pc[u] = from /\ \A v \in Users : v # u => pc'[v] = pc[v]
  BY <1>1 DEF Go, TypeOK
<1>6. Consistent'
  <2>1. /\ ref' = Cardinality(Counted)'
        /\ files' = IF fd' = Descriptor THEN 1 ELSE 0
        /\ ref' # 0 => fd' # -1
    BY <1>1, <1>4 DEF Consistent
  <2>2. \A v \in Users :
          /\ pc'[v] = "open_file" => fd' = -1 /\ ref' = 0
          /\ pc'[v] = "open_count" => fd' # -1
          /\ pc'[v] = "close_file" => fd' = Descriptor /\ ref' = 0
    BY <1>1, <1>5 DEF Consistent
  <2>3. fd' = Descriptor /\ ref' = 0 =>
          \E v \in Users : pc'[v] \in {"open_count", "close_test", "close_file"}
    BY <1>1, <1>5 DEF Consistent
  <2>4. QED
    BY <2>1, <2>2, <2>3 DEF Consistent
<1>7. QED
  BY <1>3, <1>6

(* Calling keeps the invariant: a call from a started module only. *)
LEMMA CallKeeps ==
  ASSUME TypeOK, Exclusive, Consistent, NEW u \in Users, NEW from, NEW to,
         Call(u, from, to),
         from \in {"idle", "held"}, to \in {"open", "write", "close"},
         from \in CountedPlaces <=> to \in CountedPlaces
  PROVE  Exclusive' /\ Consistent'
<1>1. Go(u, from, to) /\ UNCHANGED <<fd, ref, mutex, owner, files>>
  BY DEF Call
<1>2. Inside' = Inside
  BY <1>1, MoveInside DEF InsidePlaces
<1>3. Exclusive'
  BY <1>1, <1>2 DEF Exclusive
<1>4. Counted' = Counted
  BY <1>1, MoveKeepsCounted
<1>5. pc'[u] = to /\ pc[u] = from /\ \A v \in Users : v # u => pc'[v] = pc[v]
  BY <1>1 DEF Go, TypeOK
<1>6. Consistent'
  <2>1. /\ ref' = Cardinality(Counted)'
        /\ files' = IF fd' = Descriptor THEN 1 ELSE 0
        /\ ref' # 0 => fd' # -1
    BY <1>1, <1>4 DEF Consistent
  <2>2. \A v \in Users :
          /\ pc'[v] = "open_file" => fd' = -1 /\ ref' = 0
          /\ pc'[v] = "open_count" => fd' # -1
          /\ pc'[v] = "close_file" => fd' = Descriptor /\ ref' = 0
    BY <1>1, <1>5 DEF Consistent
  <2>3. fd' = Descriptor /\ ref' = 0 =>
          \E v \in Users : pc'[v] \in {"open_count", "close_test", "close_file"}
    BY <1>1, <1>5 DEF Consistent
  <2>4. QED
    BY <2>1, <2>2, <2>3 DEF Consistent
<1>7. QED
  BY <1>3, <1>6

(* A step inside a call leaves the mutex and the set of users inside alone. *)
LEMMA InnerExclusive ==
  ASSUME TypeOK, Exclusive, NEW u \in Users, NEW from \in InsidePlaces,
         NEW to \in InsidePlaces, Go(u, from, to), UNCHANGED <<mutex, owner>>
  PROVE  /\ Exclusive'
         /\ pc[u] = from /\ pc'[u] = to
         /\ \A v \in Users : v # u =>
              pc'[v] = pc[v] /\ pc[v] \notin InsidePlaces
<1>1. Inside' = Inside /\ u \in Inside
  BY MoveInside
<1>2. Exclusive'
  BY <1>1 DEF Exclusive
<1>3. pc[u] = from /\ pc'[u] = to /\ \A v \in Users : v # u => pc'[v] = pc[v]
  BY DEF Go, TypeOK
<1>4. \A v \in Users : v # u => v \notin Inside
  BY <1>1 DEF Exclusive
<1>5. QED
  BY <1>2, <1>3, <1>4 DEF Inside

(* The body of open_global_log keeps the invariant: the file is opened     *)
(* only when nobody is counted, and counted only when it was tried.        *)
LEMMA OpenKeeps ==
  ASSUME TypeOK, Exclusive, Consistent, NEW u \in Users,
         open_test(u) \/ open_file(u) \/ open_count(u)
  PROVE  Exclusive' /\ Consistent'
<1>1. CASE open_test(u)
  <2>1. PICK to \in {"open_file", "open_count"} :
          /\ Go(u, "open_test", to) /\ UNCHANGED <<fd, ref, mutex, owner, files>>
          /\ to = "open_file" <=> fd = -1 /\ ref = 0
    BY <1>1 DEF open_test
  <2>2. /\ Exclusive'
        /\ pc[u] = "open_test" /\ pc'[u] = to
        /\ \A v \in Users : v # u => pc'[v] = pc[v] /\ pc[v] \notin InsidePlaces
    BY <2>1, InnerExclusive DEF InsidePlaces
  <2>3. Counted' = Counted
    BY <2>1, MoveKeepsCounted DEF CountedPlaces
  <2>4. QED
    BY <2>1, <2>2, <2>3 DEF Consistent, Descriptor, InsidePlaces
<1>2. CASE open_file(u)
  <2>1. /\ Go(u, "open_file", "open_count") /\ UNCHANGED <<ref, mutex, owner>>
        /\ \/ fd' = Descriptor /\ files' = files + 1
           \/ fd' = OpenError /\ UNCHANGED files
    BY <1>2 DEF open_file
  <2>2. /\ Exclusive'
        /\ pc[u] = "open_file" /\ pc'[u] = "open_count"
        /\ \A v \in Users : v # u => pc'[v] = pc[v] /\ pc[v] \notin InsidePlaces
    BY <2>1, InnerExclusive DEF InsidePlaces
  <2>3. Counted' = Counted
    BY <2>1, MoveKeepsCounted DEF CountedPlaces
  <2>4. QED
    BY <2>1, <2>2, <2>3 DEF Consistent, Descriptor, OpenError, InsidePlaces
<1>3. CASE open_count(u)
  <2>1. /\ Go(u, "open_count", "open_done") /\ UNCHANGED <<fd, mutex, owner, files>>
        /\ ref' = ref + 1
    BY <1>3 DEF open_count
  <2>2. /\ Exclusive'
        /\ pc[u] = "open_count" /\ pc'[u] = "open_done"
        /\ \A v \in Users : v # u => pc'[v] = pc[v] /\ pc[v] \notin InsidePlaces
    BY <2>1, InnerExclusive DEF InsidePlaces
  <2>3. Counted' = Counted \cup {u} /\ u \notin Counted
    BY <2>2 DEF Counted, CountedPlaces
  <2>4. ref' = Cardinality(Counted)' /\ ref' # 0
    <3>1. IsFiniteSet(Counted) /\ Cardinality(Counted) \in Nat
      BY CountedFinite
    <3>2. Cardinality(Counted \cup {u}) = Cardinality(Counted) + 1
      BY <2>3, <3>1, FS_AddElement
    <3>3. ref = Cardinality(Counted)
      BY DEF Consistent
    <3>4. QED
      BY <2>1, <2>3, <3>1, <3>2, <3>3
  <2>5. QED
    BY <2>1, <2>2, <2>4 DEF Consistent, InsidePlaces
<1>4. QED
  BY <1>1, <1>2, <1>3

(* The body of close_global_log keeps the invariant: the file is closed    *)
(* by the user whose departure makes the count 0.                          *)
LEMMA CloseKeeps ==
  ASSUME TypeOK, Exclusive, Consistent, NEW u \in Users,
         close_count(u) \/ close_test(u) \/ close_file(u)
  PROVE  Exclusive' /\ Consistent'
<1>1. CASE close_count(u)
  <2>1. /\ Go(u, "close_count", "close_test") /\ UNCHANGED <<fd, mutex, owner, files>>
        /\ ref' = ref - 1
    BY <1>1 DEF close_count
  <2>2. /\ Exclusive'
        /\ pc[u] = "close_count" /\ pc'[u] = "close_test"
        /\ \A v \in Users : v # u => pc'[v] = pc[v] /\ pc[v] \notin InsidePlaces
    BY <2>1, InnerExclusive DEF InsidePlaces
  <2>3. Counted' = Counted \ {u} /\ u \in Counted
    BY <2>2 DEF Counted, CountedPlaces
  <2>4. ref' = Cardinality(Counted)' /\ ref # 0
    BY <2>1, <2>3, CountedFinite, FS_RemoveElement DEF Consistent
  <2>5. QED
    BY <2>1, <2>2, <2>4 DEF Consistent, InsidePlaces
<1>2. CASE close_test(u)
  <2>1. PICK to \in {"close_file", "close_done"} :
          /\ Go(u, "close_test", to) /\ UNCHANGED <<fd, ref, mutex, owner, files>>
          /\ to = "close_file" <=> fd >= 0 /\ ref = 0
    BY <1>2 DEF close_test
  <2>2. /\ Exclusive'
        /\ pc[u] = "close_test" /\ pc'[u] = to
        /\ \A v \in Users : v # u => pc'[v] = pc[v] /\ pc[v] \notin InsidePlaces
    BY <2>1, InnerExclusive DEF InsidePlaces
  <2>3. Counted' = Counted
    BY <2>1, MoveKeepsCounted DEF CountedPlaces
  <2>4. fd >= 0 <=> fd = Descriptor
    BY DEF TypeOK, Descriptor, OpenError
  <2>5. QED
    BY <2>1, <2>2, <2>3, <2>4 DEF Consistent, InsidePlaces
<1>3. CASE close_file(u)
  <2>1. /\ Go(u, "close_file", "close_done") /\ UNCHANGED <<ref, mutex, owner>>
        /\ files' = files - 1 /\ fd' = -1
    BY <1>3 DEF close_file
  <2>2. /\ Exclusive'
        /\ pc[u] = "close_file" /\ pc'[u] = "close_done"
        /\ \A v \in Users : v # u => pc'[v] = pc[v] /\ pc[v] \notin InsidePlaces
    BY <2>1, InnerExclusive DEF InsidePlaces
  <2>3. Counted' = Counted
    BY <2>1, MoveKeepsCounted DEF CountedPlaces
  <2>4. QED
    BY <2>1, <2>2, <2>3 DEF Consistent, Descriptor, InsidePlaces
<1>4. QED
  BY <1>1, <1>2, <1>3

(* The inductive step. *)
LEMMA NextLogInv ==
  ASSUME LogInv, [Next]_vars
  PROVE  LogInv'
<1> USE DEF LogInv
<1>1. TypeOK'
  BY NextTypeOK
<1>2. SUFFICES ASSUME ~unguarded' PROVE Exclusive' /\ Consistent'
  BY <1>1
<1>3. ~unguarded
  BY <1>2 DEF Next, User, vars, init_global_log, deinit_global_log, open_global_log,
     FILE_GLOBAL_WRITE_LEN, close_global_log, Call, Lock, Unlock, open_test, open_file,
     open_count, close_count, close_test, close_file
<1>4. TypeOK /\ Exclusive /\ Consistent
  BY <1>3
<1>5. CASE UNCHANGED vars
  <2>1. Inside' = Inside /\ Counted' = Counted
    BY <1>5 DEF vars, Inside, Counted
  <2>2. QED
    BY <1>4, <1>5, <2>1 DEF vars, Exclusive, Consistent
<1>6. CASE init_global_log \/ deinit_global_log
  <2>1. Inside' = Inside /\ Counted' = Counted
    BY <1>6 DEF init_global_log, deinit_global_log, Inside, Counted
  <2>2. Exclusive'
    BY <1>4, <1>6, <2>1 DEF init_global_log, deinit_global_log, Exclusive
  <2>3. Consistent'
    BY <1>4, <1>6, <2>1 DEF init_global_log, deinit_global_log, Consistent
  <2>4. QED
    BY <2>2, <2>3
<1>7. ASSUME NEW u \in Users, open_global_log(u)
      PROVE  Exclusive' /\ Consistent'
  <2>1. CASE Call(u, "idle", "open")
    BY <1>4, <2>1, CallKeeps DEF CountedPlaces
  <2>2. CASE Lock(u, "open", "open_test")
    BY <1>2, <1>4, <2>2, LockKeeps DEF InsidePlaces, CountedPlaces
  <2>3. CASE open_test(u) \/ open_file(u) \/ open_count(u)
    BY <1>4, <2>3, OpenKeeps
  <2>4. CASE Unlock(u, "open_done", "held")
    BY <1>4, <2>4, UnlockKeeps DEF CountedPlaces
  <2>5. QED
    BY <1>7, <2>1, <2>2, <2>3, <2>4 DEF open_global_log
<1>8. ASSUME NEW u \in Users, FILE_GLOBAL_WRITE_LEN(u)
      PROVE  Exclusive' /\ Consistent'
  <2>1. CASE Call(u, "held", "write")
    BY <1>4, <2>1, CallKeeps DEF CountedPlaces
  <2>2. CASE Lock(u, "write", "write_in")
    BY <1>2, <1>4, <2>2, LockKeeps DEF InsidePlaces, CountedPlaces
  <2>3. CASE Unlock(u, "write_in", "held")
    BY <1>4, <2>3, UnlockKeeps DEF CountedPlaces
  <2>4. QED
    BY <1>8, <2>1, <2>2, <2>3 DEF FILE_GLOBAL_WRITE_LEN
<1>9. ASSUME NEW u \in Users, close_global_log(u)
      PROVE  Exclusive' /\ Consistent'
  <2>1. CASE Call(u, "held", "close")
    BY <1>4, <2>1, CallKeeps DEF CountedPlaces
  <2>2. CASE Lock(u, "close", "close_count")
    BY <1>2, <1>4, <2>2, LockKeeps DEF InsidePlaces, CountedPlaces
  <2>3. CASE close_count(u) \/ close_test(u) \/ close_file(u)
    BY <1>4, <2>3, CloseKeeps
  <2>4. CASE Unlock(u, "close_done", "idle")
    BY <1>4, <2>4, UnlockKeeps DEF CountedPlaces
  <2>5. QED
    BY <1>9, <2>1, <2>2, <2>3, <2>4 DEF close_global_log
<1>10. QED
  BY <1>5, <1>6, <1>7, <1>8, <1>9 DEF Next, User

(* The log's state is always consistent, as long as no call went in        *)
(* without the mutex.                                                      *)
LEMMA LogInvariant == Spec => []LogInv
<1>1. QED
  BY InitLogInv, NextLogInv, PTL DEF Spec

(* A user that has the log open finds the file open: nobody else's close   *)
(* takes it away (glog.c, close_global_log), for any number of users.      *)
THEOREM LogOpenWhileUsed == Spec => []OpenWhileUsed
<1>1. LogInv => OpenWhileUsed
  <2>1. SUFFICES ASSUME LogInv, ~unguarded, NEW u \in Users, pc[u] \in Using
                 PROVE  fd # -1
    BY DEF OpenWhileUsed
  <2>2. u \in Counted
    BY <2>1 DEF Using, Counted, CountedPlaces
  <2>3. ref # 0
    BY <2>1, <2>2, CountedFinite DEF LogInv, Consistent
  <2>4. QED
    BY <2>1, <2>3 DEF LogInv, Consistent
<1>2. QED
  BY <1>1, LogInvariant, PTL

(* The descriptor in the variable is a file that is open once, and when    *)
(* everyone has closed the log it is closed and the count is 0.            *)
THEOREM LogNothingLeftOpen == Spec => []NothingLeftOpen
<1>1. LogInv => NothingLeftOpen
  <2>1. SUFFICES ASSUME LogInv, ~unguarded
                 PROVE  /\ fd = Descriptor <=> files = 1
                        /\ files \in {0, 1}
                        /\ (\A u \in Users : pc[u] = "idle") => files = 0 /\ ref = 0
    BY DEF NothingLeftOpen
  <2>2. (fd = Descriptor <=> files = 1) /\ files \in {0, 1}
    BY <2>1 DEF LogInv, Consistent
  <2>3. ASSUME \A u \in Users : pc[u] = "idle"
        PROVE  files = 0 /\ ref = 0
    <3>1. Counted = {}
      BY <2>3 DEF Counted, CountedPlaces
    <3>2. ref = 0
      BY <2>1, <3>1, CountedFinite DEF LogInv, Consistent
    <3>3. QED
      BY <2>1, <2>3, <3>2 DEF LogInv, Consistent
  <2>4. QED
    BY <2>2, <2>3
<1>2. QED
  BY <1>1, LogInvariant, PTL
=============================================================================
