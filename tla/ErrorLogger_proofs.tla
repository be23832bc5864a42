-------------------------- MODULE ErrorLogger_proofs --------------------------
(***************************************************************************)
(* Proofs about ErrorLogger, for any threads, any choice of the followed   *)
(* hooks and any number of calls and of open files.                        *)
(***************************************************************************)
EXTENDS ErrorLogger, SequenceTheorems, TLAPS

-----------------------------------------------------------------------------
(* The inductive invariant.                                                *)

(* An actor has op still to do. *)
Has(a, op) == \E i \in DOMAIN todo[a] : todo[a][i] = op

Typed ==
    /\ hook \in Watched
    /\ todo \in [Actors -> Seq(Ops)]
    /\ count \in Nat
    /\ call \in [Threads -> Nat]
    /\ called \in {0, 1}
    /\ field \in [Fields -> Nat]
    /\ DOMAIN entry \subseteq Prints[hook]
    /\ raced \in BOOLEAN
    /\ direct \in BOOLEAN

(* A thread raises the flag last; a field it has not stored yet is one it  *)
(* has still to store.                                                     *)
Storing(t) ==
    /\ todo[t] # <<>> => call[t] # NoCall
    /\ \A i \in 1 .. Len(todo[t]) : todo[t][i] = "called" => i = Len(todo[t])
    /\ InHook(t) => /\ todo[t][Len(todo[t])] = "called"
                    /\ \A f \in Prints[hook] : field[f] # NoCall \/ Has(t, f)

(* Without a race one thread at a time is in the hook, what it has stored  *)
(* is its own, and a raised flag goes with the fields of one call.         *)
OneCall ==
    /\ \A t, u \in Threads : InHook(t) /\ InHook(u) => t = u
    /\ \A t \in Threads : InHook(t) =>
          \A f \in Prints[hook] : field[f] = call[t] \/ Has(t, f)
    /\ called = 1 => \A f, g \in Prints[hook] : field[f] = field[g]

(* The listener lowers the flag before it polls again, and only it does.   *)
(* An entry that it is not going to clear is empty or logged.              *)
Listening ==
    LET s == todo[Listener]
    IN /\ s # <<>> => s[Len(s)] \in {"next", "close"}
       /\ s # <<>> /\ s[Len(s)] = "close" => DOMAIN entry = {}
       /\ s # <<>> /\ s[Len(s)] = "next" /\ Len(s) > 1 => s[Len(s) - 1] = "clear"
       /\ \A i \in 1 .. Len(s) : /\ s[i] = "clear" => i = Len(s) - 1
                                 /\ s[i] = "read" => s[Len(s)] = "next"
       /\ Has(Listener, "clear") =>
            /\ called = 1
            /\ ~raced => \A f \in DOMAIN entry : entry[f] = field[f]
       /\ listener # "running" => s = <<>> /\ DOMAIN entry = {}

(* The module logs only before the listener runs. *)
Stopping == {"release", "join", "delete", "stopped"}
Turns ==
    /\ listener \in {"none", "running", "failed"}
    /\ phase = "loaded" => listener = "none" /\ todo[Module] = <<>>
    /\ listener = "running" =>
         \A i \in 1 .. Len(todo[Module]) : todo[Module][i] \in Stopping
    /\ \A i \in 1 .. Len(todo[Module]) : todo[Module][i] = "listener" => i = Len(todo[Module])

(* The log is open between the operations of Opening and those of Needing. *)
Opening == {"open", "read", "format", "write", "puts"}
Needing == {"read", "format", "write", "puts", "close"}
Bracketed(s) ==
    /\ s # <<>> => s[Len(s)] \notin Opening
    /\ \A i \in 1 .. Len(s) - 1 : /\ s[i] \in Opening <=> s[i + 1] \in Needing
                                  /\ s[i + 1] = "write" => s[i] = "format"

(* The actors that write the log when no hook does. *)
Writers == {Listener, Module}
Holds(a) == todo[a] # <<>> /\ todo[a][1] \in Needing

LogKept ==
    /\ \A a \in Writers : Bracketed(todo[a])
    /\ ~direct =>
         /\ \A t \in Threads : \A i \in 1 .. Len(todo[t]) :
              todo[t][i] \in Fields \cup {"call", "called"}
         /\ open \subseteq {fd}
         /\ (\A a \in Writers : ~Holds(a)) => open = {}
         /\ \A a \in Writers : /\ Holds(a) => fd = -1 \/ fd \in open
                               /\ todo[a] # <<>> /\ todo[a][1] = "write" => buffer = a

Inv ==
    /\ Typed
    /\ \A t \in Threads : Storing(t)
    /\ NeverLogsUnset
    /\ ~raced => OneCall
    /\ Listening
    /\ Turns
    /\ LogKept

-----------------------------------------------------------------------------
(* What the hooks do. *)

(* What a hook with variables does: it stores every field that is printed, *)
(* and raises the flag last.                                               *)
MailboxProgram(s, fs) ==
    /\ s \in Seq(Ops) /\ Len(s) >= 1 /\ s[Len(s)] = "called"
    /\ \A i \in 1 .. Len(s) - 1 : s[i] \in Fields \cup {"call"}
    /\ \A f \in fs : \E i \in 1 .. Len(s) : s[i] = f

(* The hooks initialize_all_hooks sets are of that kind, unless they write *)
(* the log themselves.                                                     *)
LEMMA MailboxPrograms ==
  ASSUME NEW h \in Mailboxes
  PROVE  MailboxProgram(Stores[h], Prints[h]) /\ Prints[h] \subseteq Fields
<1>1. CASE h = "proc_83F24534"
  <2>1. Stores[h] = <<"ctx", "call", "args", "res", "called">>
    BY <1>1 DEF Stores, Stores_Errors, Stores_ParamSfo, Stores_Context, Stores_Context2,
                Stores_Queue, Stores_Graphics, Stores_Others, ++
  <2>2. Prints[h] = {"args", "ctx", "res"}
    BY <1>1 DEF Prints, Prints_1, Prints_2, Prints_3, Prints_4, ++
  <2>3. QED
    BY <2>1, <2>2 DEF MailboxProgram, Fields, Ops
<1>2. CASE h = "proc_83F258F8"
  <2>1. Stores[h] = <<"args", "ctx", "call", "res", "called">>
    BY <1>2 DEF Stores, Stores_Errors, Stores_ParamSfo, Stores_Context, Stores_Context2,
                Stores_Queue, Stores_Graphics, Stores_Others, ++
  <2>2. Prints[h] = {"args", "ctx", "res"}
    BY <1>2 DEF Prints, Prints_1, Prints_2, Prints_3, Prints_4, ++
  <2>3. QED
    BY <2>1, <2>2 DEF MailboxProgram, Fields, Ops
<1>3. CASE h = "param_sfo_verifySpsfo_shell"
  <2>1. Stores[h] = <<"call", "args", "res", "called">>
    BY <1>3 DEF Stores, Stores_Errors, Stores_ParamSfo, Stores_Context, Stores_Context2,
                Stores_Queue, Stores_Graphics, Stores_Others, ++
  <2>2. Prints[h] = {"args", "res"}
    BY <1>3 DEF Prints, Prints_1, Prints_2, Prints_3, Prints_4, ++
  <2>3. QED
    BY <2>1, <2>2 DEF MailboxProgram, Fields, Ops
<1>4. CASE h = "proc_gc_param_sfo_83F2CEA0"
  <2>1. Stores[h] = <<"call", "args", "res", "called">>
    BY <1>4 DEF Stores, Stores_Errors, Stores_ParamSfo, Stores_Context, Stores_Context2,
                Stores_Queue, Stores_Graphics, Stores_Others, ++
  <2>2. Prints[h] = {"args", "res"}
    BY <1>4 DEF Prints, Prints_1, Prints_2, Prints_3, Prints_4, ++
  <2>3. QED
    BY <2>1, <2>2 DEF MailboxProgram, Fields, Ops
<1>5. CASE h = "param_sfo_verifySpsfo"
  <2>1. Stores[h] = <<"call", "args", "res", "called">>
    BY <1>5 DEF Stores, Stores_Errors, Stores_ParamSfo, Stores_Context, Stores_Context2,
                Stores_Queue, Stores_Graphics, Stores_Others, ++
  <2>2. Prints[h] = {"args", "res"}
    BY <1>5 DEF Prints, Prints_1, Prints_2, Prints_3, Prints_4, ++
  <2>3. QED
    BY <2>1, <2>2 DEF MailboxProgram, Fields, Ops
<1>6. CASE h = "sceAppMgrGameDataMount"
  <2>1. Stores[h] = <<"call", "res", "called">>
    BY <1>6 DEF Stores, Stores_Errors, Stores_ParamSfo, Stores_Context, Stores_Context2,
                Stores_Queue, Stores_Graphics, Stores_Others, ++
  <2>2. Prints[h] = {"res"}
    BY <1>6 DEF Prints, Prints_1, Prints_2, Prints_3, Prints_4, ++
  <2>3. QED
    BY <2>1, <2>2 DEF MailboxProgram, Fields, Ops
<1>7. CASE h = "scePafGraphics_b976a154"
  <2>1. Stores[h] = <<"call", "ctx", "called">>
    BY <1>7 DEF Stores, Stores_Errors, Stores_ParamSfo, Stores_Context, Stores_Context2,
                Stores_Queue, Stores_Graphics, Stores_Others, ++
  <2>2. Prints[h] = {"ctx"}
    BY <1>7 DEF Prints, Prints_1, Prints_2, Prints_3, Prints_4, ++
  <2>3. QED
    BY <2>1, <2>2 DEF MailboxProgram, Fields, Ops
<1>8. CASE h = "scePafGraphics_b228a257"
  <2>1. Stores[h] = <<"call", "called">>
    BY <1>8 DEF Stores, Stores_Errors, Stores_ParamSfo, Stores_Context, Stores_Context2,
                Stores_Queue, Stores_Graphics, Stores_Others, ++
  <2>2. Prints[h] = {}
    BY <1>8 DEF Prints, Prints_1, Prints_2, Prints_3, Prints_4, ++
  <2>3. QED
    BY <2>1, <2>2 DEF MailboxProgram, Fields, Ops
<1>9. QED
  BY <1>1, <1>2, <1>3, <1>4, <1>5, <1>6, <1>7, <1>8 DEF Mailboxes, Installs, LoggingHooks

(* The hooks that write the log store nothing. *)
LEMMA DirectPrograms ==
  ASSUME NEW h \in LoggingHooks
  PROVE  Stores[h] = DirectLog
<1>1. CASE h = "proc_gc_param_sfo_83F6B554"
  BY <1>1 DEF Stores, Stores_Errors, Stores_ParamSfo, Stores_Context, Stores_Context2,
              Stores_Queue, Stores_Graphics, Stores_Others, ++
<1>2. CASE h = "proc_gc_param_sfo_83F74B30"
  BY <1>2 DEF Stores, Stores_Errors, Stores_ParamSfo, Stores_Context, Stores_Context2,
              Stores_Queue, Stores_Graphics, Stores_Others, ++
<1>3. QED
  BY <1>1, <1>2 DEF LoggingHooks

(* The programs of the listener and of the module. *)
LEMMA Programs ==
  /\ Texts \in Seq(Ops) /\ Len(Texts) = 3
  /\ Formatted \in Seq(Ops) /\ Len(Formatted) = 4
  /\ Serve \in Seq(Ops) /\ Len(Serve) = 7
  /\ deinitialize_all_hooks \in Seq(Ops) /\ Len(deinitialize_all_hooks) = 4
  /\ DirectLog \in Seq(Ops) /\ Len(DirectLog) = 5
  BY DEF Texts, Formatted, Serve, deinitialize_all_hooks, DirectLog, Ops, Fields

(* A program that finds the log closed and leaves it closed; joined to one *)
(* that does so too it stays one.                                          *)
SelfContained(s) == s \in Seq(Ops) /\ Len(s) >= 1 /\ Bracketed(s) /\ s[1] \notin Needing
(* Two operations in a row are such a list again, and start the listener   *)
(* only if the last one does.                                              *)
LEMMA JoinPrograms ==
  ASSUME NEW s, NEW r, SelfContained(s), SelfContained(r),
         \A i \in 1 .. Len(s) : s[i] # "listener",
         \A i \in 1 .. Len(r) : r[i] = "listener" => i = Len(r)
  PROVE  /\ SelfContained(s \o r) /\ Len(s \o r) = Len(s) + Len(r)
         /\ \A i \in 1 .. Len(s \o r) : (s \o r)[i] = "listener" => i = Len(s \o r)
         /\ (s \o r)[Len(s \o r)] = r[Len(r)]
         /\ (\A i \in 1 .. Len(r) : r[i] # "listener")
              => \A i \in 1 .. Len(s \o r) : (s \o r)[i] # "listener"
<1>1. PICK q : q = s \o r
  OBVIOUS
<1>2. /\ q \in Seq(Ops) /\ Len(q) = Len(s) + Len(r)
      /\ \A i \in 1 .. Len(s) + Len(r) : q[i] = IF i <= Len(s) THEN s[i] ELSE r[i - Len(s)]
      /\ Len(s) \in Nat /\ Len(r) \in Nat /\ Len(s) >= 1 /\ Len(r) >= 1
  BY <1>1, ConcatProperties, LenProperties DEF SelfContained
<1>3. s # <<>> /\ r # <<>> /\ q # <<>>
  BY <1>2
<1>4. s[Len(s)] \notin Opening /\ r[1] \notin Needing /\ r[Len(r)] \notin Opening
  BY <1>2, <1>3 DEF SelfContained, Bracketed
<1>5. ASSUME NEW i \in 1 .. Len(q) - 1
      PROVE  /\ q[i] \in Opening <=> q[i + 1] \in Needing
             /\ q[i + 1] = "write" => q[i] = "format"
  <2>1. CASE i < Len(s)
    BY <1>2, <2>1 DEF SelfContained, Bracketed
  <2>2. CASE i = Len(s)
    BY <1>2, <1>4, <2>2 DEF Needing
  <2>3. CASE i > Len(s)
    <3>1. i - Len(s) \in 1 .. Len(r) - 1 /\ (i + 1) - Len(s) = (i - Len(s)) + 1
      BY <1>2, <2>3
    <3>2. q[i] = r[i - Len(s)] /\ q[i + 1] = r[(i - Len(s)) + 1]
      BY <1>2, <2>3, <3>1
    <3>3. QED
      BY <3>1, <3>2 DEF SelfContained, Bracketed
  <2>4. QED
    BY <1>2, <2>1, <2>2, <2>3
<1>6. q[Len(q)] = r[Len(r)] /\ q[1] = s[1]
  BY <1>2
<1>7. SelfContained(q)
  BY <1>2, <1>4, <1>5, <1>6 DEF SelfContained, Bracketed
<1>8. \A i \in 1 .. Len(q) : q[i] = "listener" => i = Len(q)
  BY <1>2
<1>9. (\A i \in 1 .. Len(r) : r[i] # "listener") => \A i \in 1 .. Len(q) : q[i] # "listener"
  BY <1>2
<1>10. QED
  BY <1>1, <1>2, <1>6, <1>7, <1>8, <1>9

(* Each part of initialize_all_hooks is such a program. *)
LEMMA PartsSelfContained ==
  /\ SelfContained(Texts) /\ \A i \in 1 .. Len(Texts) : Texts[i] # "listener"
  /\ SelfContained(Formatted) /\ \A i \in 1 .. Len(Formatted) : Formatted[i] # "listener"
  /\ SelfContained(Serve) /\ SelfContained(deinitialize_all_hooks)
<1>1. SelfContained(Texts) /\ \A i \in 1 .. Len(Texts) : Texts[i] # "listener"
  BY Programs DEF Texts, SelfContained, Bracketed, Opening, Needing
<1>2. SelfContained(Formatted) /\ \A i \in 1 .. Len(Formatted) : Formatted[i] # "listener"
  BY Programs DEF Formatted, SelfContained, Bracketed, Opening, Needing
<1>3. SelfContained(Serve)
  BY Programs DEF Serve, SelfContained, Bracketed, Opening, Needing
<1>4. SelfContained(deinitialize_all_hooks)
  BY Programs DEF deinitialize_all_hooks, SelfContained, Bracketed, Opening, Needing
<1>5. QED
  BY <1>1, <1>2, <1>3, <1>4

(* So is the whole of it, with the listener started last. *)
LEMMA StartProgram ==
  /\ SelfContained(initialize_all_hooks)
  /\ \A i \in 1 .. Len(initialize_all_hooks) :
        initialize_all_hooks[i] = "listener" => i = Len(initialize_all_hooks)
<1>1. /\ SelfContained(<<"mutex", "set">>)
      /\ \A i \in 1 .. Len(<<"mutex", "set">>) : <<"mutex", "set">>[i] # "listener"
  BY DEF SelfContained, Bracketed, Opening, Needing, Ops
<1>2. /\ SelfContained(<<"listener">>)
      /\ \A i \in 1 .. Len(<<"listener">>) : <<"listener">>[i] = "listener" => i = Len(<<"listener">>)
  BY DEF SelfContained, Bracketed, Opening, Needing, Ops
<1>3. PICK a : a = Texts \o <<"mutex", "set">>
  OBVIOUS
<1>4. SelfContained(a) /\ \A i \in 1 .. Len(a) : a[i] # "listener"
  BY <1>1, <1>3, PartsSelfContained, JoinPrograms, Zenon
<1>5. PICK b : b = a \o Formatted
  OBVIOUS
<1>6. SelfContained(b) /\ \A i \in 1 .. Len(b) : b[i] # "listener"
  BY <1>4, <1>5, PartsSelfContained, JoinPrograms, Zenon
<1>7. PICK c : c = b \o Formatted
  OBVIOUS
<1>8. SelfContained(c) /\ \A i \in 1 .. Len(c) : c[i] # "listener"
  BY <1>6, <1>7, PartsSelfContained, JoinPrograms, Zenon
<1>9. initialize_all_hooks = c \o <<"listener">>
  BY <1>3, <1>5, <1>7 DEF initialize_all_hooks
<1>10. QED
  BY <1>2, <1>8, <1>9, JoinPrograms, Zenon

-----------------------------------------------------------------------------
(* What a step does to the operations that are left. *)

(* Actor a did its first operation ... *)
Popped(a) ==
    /\ Len(todo[a]) \in Nat /\ Len(todo[a]) >= 1 /\ todo[a] # <<>>
    /\ todo' = [todo EXCEPT ![a] = Tail(todo[a])]
    /\ todo' \in [Actors -> Seq(Ops)]
    /\ \A b \in Actors \ {a} : todo'[b] = todo[b]
    /\ Len(todo'[a]) = Len(todo[a]) - 1
    /\ todo'[a] = <<>> <=> Len(todo[a]) = 1
    /\ \A i \in 1 .. Len(todo[a]) - 1 : todo'[a][i] = todo[a][i + 1]

(* ... and got the operations ops to do instead. *)
Grown(a, ops) ==
    /\ Len(todo[a]) \in Nat /\ Len(todo[a]) >= 1 /\ todo[a] # <<>>
    /\ todo' \in [Actors -> Seq(Ops)]
    /\ \A b \in Actors \ {a} : todo'[b] = todo[b]
    /\ Len(todo'[a]) = Len(ops) + Len(todo[a]) - 1
    /\ \A i \in 1 .. Len(ops) : todo'[a][i] = ops[i]
    /\ \A i \in Len(ops) + 1 .. Len(ops) + Len(todo[a]) - 1 : todo'[a][i] = todo[a][i - Len(ops) + 1]

(* An operation takes the first of what an actor has to do, or puts the    *)
(* code of a called function in its place.                                 *)
LEMMA DoPops ==
  ASSUME Typed, NEW a \in Actors, NEW op, Do(a, op)
  PROVE  Popped(a) /\ todo[a][1] = op
<1>1. PICK s : s = todo[a]
  OBVIOUS
<1>2. s \in Seq(Ops) /\ s # <<>> /\ Head(s) = op
  BY <1>1 DEF Typed, Do, Next_op
<1>3. /\ Tail(s) \in Seq(Ops) /\ Len(Tail(s)) = Len(s) - 1
      /\ \A i \in 1 .. Len(Tail(s)) : Tail(s)[i] = s[i + 1]
  BY <1>2, HeadTailProperties
<1>4. <<>> \o Tail(s) = Tail(s)
  BY <1>3, ConcatEmptySeq
<1>5. todo' = [todo EXCEPT ![a] = Tail(s)]
  BY <1>1, <1>4 DEF Do, Then
<1>6. Len(s) \in Nat \ {0}
  BY <1>2, EmptySeq
<1>7. Tail(s) = <<>> <=> Len(s) = 1
  <2>1. PICK r : r = Tail(s)
    OBVIOUS
  <2>2. r \in Seq(Ops) /\ Len(r) = Len(s) - 1
    BY <1>3, <2>1
  <2>3. r = <<>> <=> Len(r) = 0
    BY <2>2
  <2>4. QED
    BY <1>6, <2>1, <2>2, <2>3
<1>8. s[1] = op
  BY <1>2
<1>9. todo'[a] = Tail(s) /\ \A b \in Actors \ {a} : todo'[b] = todo[b]
  BY <1>5 DEF Typed
<1>10. todo' \in [Actors -> Seq(Ops)]
  BY <1>3, <1>5 DEF Typed
<1>11. QED
  BY <1>1, <1>2, <1>3, <1>5, <1>6, <1>7, <1>8, <1>9, <1>10 DEF Popped

(* An operation that is replaced by a list of others has that list in      *)
(* front of the rest.                                                      *)
LEMMA ThenGrows ==
  ASSUME Typed, NEW a \in Actors, NEW op, Next_op(a, op), NEW ops \in Seq(Ops), Then(a, ops)
  PROVE  Grown(a, ops) /\ todo[a][1] = op
<1>1. PICK s : s = todo[a]
  OBVIOUS
<1>2. s \in Seq(Ops) /\ s # <<>> /\ Head(s) = op
  BY <1>1 DEF Typed, Next_op
<1>3. /\ Tail(s) \in Seq(Ops) /\ Len(Tail(s)) = Len(s) - 1
      /\ \A i \in 1 .. Len(Tail(s)) : Tail(s)[i] = s[i + 1]
  BY <1>2, HeadTailProperties
<1>4. PICK r : r = ops \o Tail(s)
  OBVIOUS
<1>5. Len(s) \in Nat \ {0} /\ Len(ops) \in Nat
  BY <1>2, EmptySeq, LenProperties
<1>6. /\ r \in Seq(Ops) /\ Len(r) = Len(ops) + Len(Tail(s))
      /\ \A i \in 1 .. Len(ops) + Len(Tail(s)) :
            r[i] = IF i <= Len(ops) THEN ops[i] ELSE Tail(s)[i - Len(ops)]
  BY <1>3, <1>4, ConcatProperties
<1>7. todo' = [todo EXCEPT ![a] = r]
  BY <1>1, <1>4 DEF Then
<1>8. /\ todo'[a] = r /\ \A b \in Actors \ {a} : todo'[b] = todo[b]
      /\ todo' \in [Actors -> Seq(Ops)]
  BY <1>6, <1>7 DEF Typed
<1>9. /\ Len(r) = Len(ops) + Len(s) - 1
      /\ \A i \in 1 .. Len(ops) : r[i] = ops[i]
      /\ \A i \in Len(ops) + 1 .. Len(ops) + Len(s) - 1 : r[i] = s[i - Len(ops) + 1]
  BY <1>3, <1>5, <1>6
<1>10. QED
  BY <1>1, <1>2, <1>5, <1>8, <1>9 DEF Grown

(* What writes the log is no operation of a hook with variables. *)
LogOps == {"open", "format", "write", "puts", "close"}

(* Writing to the log takes one operation from the actor's list and        *)
(* leaves the mailbox alone.                                               *)
LEMMA LogsPop ==
  ASSUME Typed, NEW a \in Actors, Logs(a)
  PROVE  Popped(a) /\ todo[a][1] \in LogOps /\ UNCHANGED <<calls, mailbox, module>>
<1>1. CASE open_global_log(a)
  BY <1>1, DoPops DEF open_global_log, LogOps
<1>2. CASE sceClibSnprintf(a)
  BY <1>2, DoPops DEF sceClibSnprintf, LogOps
<1>3. CASE FILE_WRITE(a)
  BY <1>3, DoPops DEF FILE_WRITE, LogOps
<1>4. CASE close_global_log(a)
  BY <1>4, DoPops DEF close_global_log, LogOps
<1>5. QED
  BY <1>1, <1>2, <1>3, <1>4 DEF Logs

-----------------------------------------------------------------------------
(* The log. *)

(* The two that write the log are two actors.                              *)
LEMMA WritersAreActors == Writers \subseteq Actors /\ Listener # Module
  BY DEF Writers, Actors, Listener, Module

(* While one of the module and the listener has the log to write, the      *)
(* other does not hold it.                                                 *)
LEMMA OneWriter ==
  ASSUME Inv, NEW w \in Writers, todo[w] # <<>>, todo[w][1] \notin Stopping \cup {"clear", "next"},
         NEW v \in Writers \ {w}
  PROVE  ~Holds(v)
<1>1. Len(todo[w]) >= 1 /\ Len(todo[v]) \in Nat /\ (todo[v] # <<>> => Len(todo[v]) >= 1)
  BY WritersAreActors, EmptySeq DEF Inv, Typed
<1>2. CASE w = Module
  BY <1>1, <1>2 DEF Inv, Turns, Listening, Writers, Holds, Stopping
<1>3. CASE w = Listener
  BY <1>1, <1>3 DEF Inv, Turns, Listening, Writers, Holds, Needing, Stopping
<1>4. QED
  BY <1>2, <1>3 DEF Writers

(* The rest of a bracketed program is one, and its first operation finds   *)
(* the log as the one before it left it.                                   *)
LEMMA BracketedPop ==
  ASSUME Typed, NEW w \in Actors, Popped(w), Bracketed(todo[w])
  PROVE  /\ Bracketed(todo'[w])
         /\ Len(todo[w]) = 1 => todo[w][1] \notin Opening
         /\ Holds(w)' <=> todo[w][1] \in Opening
         /\ todo'[w] # <<>> /\ todo'[w][1] = "write" => todo[w][1] = "format"
<1>1. PICK n : n = Len(todo[w])
  OBVIOUS
<1>2. /\ n \in Nat /\ n >= 1 /\ Len(todo'[w]) = n - 1 /\ (todo'[w] = <<>> <=> n = 1)
      /\ \A i \in 1 .. n - 1 : todo'[w][i] = todo[w][i + 1]
      /\ todo[w] # <<>>
  BY <1>1 DEF Popped
<1>3. /\ todo[w][n] \notin Opening
      /\ \A i \in 1 .. n - 1 : /\ todo[w][i] \in Opening <=> todo[w][i + 1] \in Needing
                               /\ todo[w][i + 1] = "write" => todo[w][i] = "format"
  BY <1>1, <1>2 DEF Bracketed
<1>4. n # 1 => todo'[w][1] = todo[w][2]
  BY <1>2
<1>5. Bracketed(todo'[w])
  <2>1. n # 1 => todo'[w][n - 1] = todo[w][n]
    BY <1>2
  <2>2. \A i \in 1 .. n - 2 : todo'[w][i] = todo[w][i + 1] /\ todo'[w][i + 1] = todo[w][i + 2]
    BY <1>2
  <2>3. \A i \in 1 .. n - 2 : /\ todo[w][i + 1] \in Opening <=> todo[w][i + 2] \in Needing
                              /\ todo[w][i + 2] = "write" => todo[w][i + 1] = "format"
    BY <1>2, <1>3
  <2>4. PICK r : r = todo'[w]
    OBVIOUS
  <2>5. \A i \in 1 .. n - 2 : /\ r[i] \in Opening <=> r[i + 1] \in Needing
                              /\ r[i + 1] = "write" => r[i] = "format"
    BY <2>2, <2>3, <2>4
  <2>6. Len(r) - 1 = n - 2 /\ (r # <<>> => r[Len(r)] \notin Opening)
    BY <1>2, <1>3, <2>1, <2>4
  <2>7. Bracketed(r)
    BY <2>5, <2>6 DEF Bracketed
  <2>8. QED
    BY <2>4, <2>7
<1>6. n # 1 => (todo[w][1] \in Opening <=> todo[w][2] \in Needing)
               /\ (todo[w][2] = "write" => todo[w][1] = "format")
  BY <1>2, <1>3
<1>7. QED
  BY <1>1, <1>2, <1>3, <1>4, <1>5, <1>6 DEF Holds

(* A step of a writer that leaves the log as it is, held or not. *)
LEMMA LogKeptPop ==
  ASSUME Inv, NEW w \in Writers, Popped(w), UNCHANGED <<log, direct>>,
         todo[w][1] \in Opening <=> todo[w][1] \in Needing, todo[w][1] # "format"
  PROVE  LogKept'
<1>1. w \in Actors /\ Bracketed(todo[w]) /\ Typed /\ LogKept /\ todo[w] # <<>>
  BY WritersAreActors DEF Inv, LogKept, Popped
<1>2. /\ Bracketed(todo'[w])
      /\ Holds(w)' <=> Holds(w)
      /\ todo'[w] # <<>> => todo'[w][1] # "write"
  BY <1>1, BracketedPop DEF Holds
<1>3. \A b \in Actors \ {w} : todo'[b] = todo[b]
  BY DEF Popped
<1>4. \A t \in Threads : todo'[t] = todo[t]
  BY <1>3, ThreadsAssumption DEF Writers, Actors
<1>5. \A v \in Writers : v # w => todo'[v] = todo[v] /\ (Holds(v)' <=> Holds(v))
  BY <1>3, WritersAreActors DEF Holds
<1>6. \A v \in Writers : Bracketed(todo'[v]) /\ (Holds(v)' <=> Holds(v))
  BY <1>1, <1>2, <1>5 DEF LogKept
<1>7. direct' = direct /\ open' = open /\ fd' = fd /\ buffer' = buffer
  BY DEF log
<1>8. QED
  BY <1>1, <1>2, <1>4, <1>5, <1>6, <1>7 DEF LogKept

(* A writer that holds the log alone. *)
LEMMA LogKeptLogs ==
  ASSUME Inv, NEW w \in Writers, Logs(w)
  PROVE  LogKept'
<1>1. w \in Actors /\ Bracketed(todo[w]) /\ Typed /\ LogKept
  BY WritersAreActors DEF Inv, LogKept
<1>2. Popped(w) /\ todo[w][1] \in LogOps /\ direct' = direct /\ todo[w] # <<>>
  BY <1>1, LogsPop DEF calls, Popped
<1>3. \A v \in Writers \ {w} : ~Holds(v)
  BY <1>2, OneWriter DEF LogOps, Stopping
<1>4. /\ Bracketed(todo'[w])
      /\ Holds(w)' <=> todo[w][1] \in Opening
      /\ todo'[w] # <<>> /\ todo'[w][1] = "write" => todo[w][1] = "format"
  BY <1>1, <1>2, BracketedPop
<1>5. /\ \A t \in Threads : todo'[t] = todo[t]
      /\ \A v \in Writers \ {w} : todo'[v] = todo[v]
  BY <1>2, ThreadsAssumption, WritersAreActors DEF Popped, Writers, Actors
<1>6. \A v \in Writers \ {w} : ~Holds(v)' /\ ~(todo'[v] # <<>> /\ todo'[v][1] = "write")
  BY <1>3, <1>5 DEF Holds, Needing
<1>7. \A v \in Writers : Bracketed(todo'[v])
  BY <1>1, <1>4, <1>5 DEF LogKept
<1>8. Holds(w) <=> todo[w][1] \in Needing
  BY <1>2 DEF Holds
<1>9. ~direct => /\ open \subseteq {fd}
                 /\ ~Holds(w) => open = {}
                 /\ Holds(w) => fd = -1 \/ fd \in open
  BY <1>1, <1>3 DEF LogKept
<1>10. ASSUME ~direct'
       PROVE  /\ open' \subseteq {fd'}
              /\ (\A v \in Writers : ~Holds(v)') => open' = {}
              /\ Holds(w)' => fd' = -1 \/ fd' \in open'
              /\ todo'[w] # <<>> /\ todo'[w][1] = "write" => buffer' = w
  <2>1. CASE open_global_log(w)
    <3>1. todo[w][1] = "open"
      BY <1>1, <2>1, DoPops DEF open_global_log
    <3>2. open = {}
      BY <1>2, <1>8, <1>9, <1>10, <3>1 DEF Needing
    <3>3. open' = {fd'} \/ (open' = {} /\ fd' = -1)
      BY <2>1, <3>2 DEF open_global_log
    <3>4. Holds(w)'
      BY <1>4, <3>1 DEF Opening
    <3>5. QED
      BY <1>4, <3>1, <3>3, <3>4
  <2>2. CASE sceClibSnprintf(w)
    <3>1. todo[w][1] = "format"
      BY <1>1, <2>2, DoPops DEF sceClibSnprintf
    <3>2. fd' = fd /\ open' = open /\ buffer' = w
      BY <2>2 DEF sceClibSnprintf
    <3>3. Holds(w) /\ Holds(w)'
      BY <1>4, <1>8, <3>1 DEF Opening, Needing
    <3>4. QED
      BY <1>2, <1>9, <1>10, <3>2, <3>3
  <2>3. CASE FILE_WRITE(w)
    <3>1. todo[w][1] \in {"write", "puts"}
      BY <1>1, <2>3, DoPops DEF FILE_WRITE
    <3>2. fd' = fd /\ open' = open
      BY <2>3 DEF FILE_WRITE, log
    <3>3. Holds(w) /\ Holds(w)'
      BY <1>4, <1>8, <3>1 DEF Opening, Needing
    <3>4. QED
      BY <1>2, <1>4, <1>9, <1>10, <3>1, <3>2, <3>3
  <2>4. CASE close_global_log(w)
    <3>1. todo[w][1] = "close"
      BY <1>1, <2>4, DoPops DEF close_global_log
    <3>2. open' = open \ {fd}
      BY <2>4 DEF close_global_log
    <3>3. open' = {} /\ ~Holds(w)'
      BY <1>2, <1>4, <1>9, <1>10, <3>1, <3>2 DEF Opening
    <3>4. QED
      BY <1>4, <3>1, <3>3
  <2>5. QED
    BY <2>1, <2>2, <2>3, <2>4 DEF Logs
<1>11. ~direct' => \A t \in Threads : \A i \in 1 .. Len(todo'[t]) :
                      todo'[t][i] \in Fields \cup {"call", "called"}
  BY <1>1, <1>2, <1>5 DEF LogKept
<1>12. QED
  BY <1>6, <1>7, <1>10, <1>11 DEF LogKept

(* The module starts the listener last, and once.                          *)
LEMMA ListenerStarts ==
  ASSUME Inv, StartListener, listener' = "running"
  PROVE  /\ todo[Module] # <<>> /\ todo[Module][1] = "listener"
         /\ listener # "running" /\ todo[Listener] = <<>>
         /\ todo'[Module] = <<>> /\ todo'[Listener] = Texts
         /\ todo' \in [Actors -> Seq(Ops)]
         /\ \A b \in Actors \ {Module, Listener} : todo'[b] = todo[b]
<1>1. /\ Typed /\ Turns /\ Listening
      /\ Module \in Actors /\ Listener \in Actors /\ Listener # Module
  BY WritersAreActors DEF Inv, Writers
<1>2. /\ todo' = [todo EXCEPT ![Module] = Tail(@), ![Listener] = Texts]
      /\ Next_op(Module, "listener")
  BY DEF StartListener
<1>3. PICK s : s = todo[Module]
  OBVIOUS
<1>4. s \in Seq(Ops) /\ s # <<>> /\ Head(s) = "listener"
  BY <1>1, <1>2, <1>3 DEF Typed, Next_op
<1>5. s[1] = "listener" /\ Len(s) \in Nat /\ Len(s) >= 1
  BY <1>4, EmptySeq
<1>6. Len(s) = 1
  <2>1. \A i \in 1 .. Len(s) : s[i] = "listener" => i = Len(s)
    BY <1>1, <1>3 DEF Turns
  <2>2. 1 \in 1 .. Len(s)
    BY <1>5
  <2>3. QED
    BY <1>5, <2>1, <2>2
<1>7. listener # "running"
  BY <1>1, <1>3, <1>5 DEF Turns, Stopping
<1>8. todo[Listener] = <<>>
  BY <1>1, <1>7 DEF Listening
<1>9. PICK r : r = Tail(s)
  OBVIOUS
<1>10. r = <<>> /\ r \in Seq(Ops)
  BY <1>4, <1>6, <1>9, EmptySeq, HeadTailProperties
<1>11. todo' = [todo EXCEPT ![Module] = r, ![Listener] = Texts]
  BY <1>2, <1>3, <1>9
<1>12. /\ todo'[Module] = <<>> /\ todo'[Listener] = Texts /\ todo' \in [Actors -> Seq(Ops)]
       /\ \A b \in Actors \ {Module, Listener} : todo'[b] = todo[b]
  BY <1>1, <1>10, <1>11, Programs DEF Typed
<1>13. QED
  BY <1>3, <1>4, <1>5, <1>7, <1>8, <1>12

(* A step that gives no operation to a writer and leaves the log. *)
LEMMA LogKeptAside ==
  ASSUME Inv, \A v \in Writers : todo'[v] = todo[v], UNCHANGED log, direct => direct',
         ~direct' => \A t \in Threads : \A i \in 1 .. Len(todo'[t]) :
                       todo'[t][i] \in Fields \cup {"call", "called"}
  PROVE  LogKept'
<1>1. LogKept
  BY DEF Inv
<1>2. \A v \in Writers : (Holds(v)' <=> Holds(v)) /\ todo'[v] = todo[v]
  BY DEF Holds
<1>3. open' = open /\ fd' = fd /\ buffer' = buffer
  BY DEF log
<1>4. QED
  BY <1>1, <1>2, <1>3 DEF LogKept

(* A thread in a hook. *)
LEMMA LogKeptThread ==
  ASSUME Inv, NEW t \in Threads, HookSteps(t)
  PROVE  LogKept'
<1>1. /\ t \in Actors /\ Typed /\ LogKept /\ direct \in BOOLEAN
      /\ \A v \in Writers : v \in Actors \ {t}
      /\ \A u \in Threads : u \in Actors
  BY ThreadsAssumption DEF Inv, Typed, Writers, Actors
<1>2. ASSUME Popped(t), direct' = direct, UNCHANGED log
      PROVE  LogKept'
  <2>1. \A v \in Writers : todo'[v] = todo[v]
    BY <1>1, <1>2 DEF Popped
  <2>2. \A u \in Threads : u # t => todo'[u] = todo[u]
    BY <1>1, <1>2 DEF Popped
  <2>3. ~direct => \A i \in 1 .. Len(todo'[t]) : todo'[t][i] \in Fields \cup {"call", "called"}
    BY <1>1, <1>2 DEF Popped, LogKept
  <2>4. ~direct => \A u \in Threads : \A i \in 1 .. Len(todo'[u]) :
                      todo'[u][i] \in Fields \cup {"call", "called"}
    BY <1>1, <2>2, <2>3 DEF LogKept
  <2>5. QED
    BY <1>2, <2>1, <2>4, LogKeptAside
<1>3. CASE TAI_CONTINUE(t)
  BY <1>1, <1>2, <1>3, DoPops DEF TAI_CONTINUE, calls
<1>4. ASSUME NEW f \in Fields, StoreField(t, f)
      PROVE  LogKept'
  BY <1>1, <1>2, <1>4, DoPops DEF StoreField, calls
<1>5. CASE RaiseFlag(t)
  BY <1>1, <1>2, <1>5, DoPops DEF RaiseFlag, calls
<1>6. CASE Logs(t)
  <2>1. Popped(t) /\ todo[t][1] \in LogOps /\ direct' = direct
    BY <1>1, <1>6, LogsPop DEF calls
  <2>2. direct'
    BY <1>1, <2>1 DEF Popped, LogKept, LogOps, Fields
  <2>3. \A v \in Writers : todo'[v] = todo[v] /\ (Holds(v)' <=> Holds(v))
    BY <1>1, <2>1 DEF Popped, Holds
  <2>4. QED
    BY <1>1, <2>2, <2>3 DEF LogKept
<1>7. ASSUME NEW h \in {hook} \cup Direct, Call(t, h)
      PROVE  LogKept'
  <2>1. todo' = [todo EXCEPT ![t] = Stores[h]] /\ UNCHANGED log /\ direct' = (direct \/ h \in Direct)
    BY <1>7 DEF Call
  <2>2. /\ \A b \in Actors \ {t} : todo'[b] = todo[b]
        /\ todo'[t] = Stores[h]
    BY <1>1, <2>1 DEF Typed
  <2>3. h \notin Direct => MailboxProgram(Stores[h], Prints[h])
    BY <1>1, <1>7, MailboxPrograms, WatchedAssumption DEF Typed
  <2>4. h \notin Direct => \A i \in 1 .. Len(todo'[t]) : todo'[t][i] \in Fields \cup {"call", "called"}
    <3>1. SUFFICES ASSUME h \notin Direct, NEW i \in 1 .. Len(Stores[h])
                   PROVE  Stores[h][i] \in Fields \cup {"call", "called"}
      BY <2>2
    <3>2. PICK n : n = Len(Stores[h])
      OBVIOUS
    <3>3. n \in Nat
      BY <2>3, <3>1, <3>2, LenProperties DEF MailboxProgram
    <3>4. i \in 1 .. n - 1 \/ i = n
      BY <3>2, <3>3
    <3>5. QED
      BY <2>3, <3>1, <3>2, <3>4 DEF MailboxProgram
  <2>5. \A u \in Threads : u # t => todo'[u] = todo[u]
    BY <1>1, <2>2
  <2>6. ~direct' => \A u \in Threads : \A i \in 1 .. Len(todo'[u]) :
                      todo'[u][i] \in Fields \cup {"call", "called"}
    BY <1>1, <2>1, <2>4, <2>5 DEF LogKept
  <2>7. QED
    BY <1>1, <2>1, <2>2, <2>6, LogKeptAside
<1>8. QED
  BY <1>3, <1>4, <1>5, <1>6, <1>7 DEF HookSteps

(* A writer starts with a program of its own. *)
LEMMA LogKeptStarts ==
  ASSUME Inv, NEW w \in Writers, todo[w] = <<>>,
         SelfContained(todo'[w]), UNCHANGED <<log, direct>>,
         \A v \in Writers \ {w} : Bracketed(todo'[v]) /\ (Holds(v)' <=> Holds(v))
                                  /\ (todo'[v] # <<>> /\ todo'[v][1] = "write"
                                        => todo[v] # <<>> /\ todo[v][1] = "write"),
         \A t \in Threads : todo'[t] = todo[t]
  PROVE  LogKept'
<1>1. LogKept
  BY DEF Inv
<1>2. ~Holds(w) /\ ~Holds(w)' /\ Bracketed(todo'[w])
  BY DEF Holds, SelfContained
<1>3. todo'[w][1] # "write"
  BY DEF SelfContained, Needing
<1>4. open' = open /\ fd' = fd /\ buffer' = buffer /\ direct' = direct
  BY DEF log
<1>5. \A v \in Writers : Bracketed(todo'[v]) /\ (Holds(v)' <=> Holds(v))
  BY <1>2
<1>6. ~direct' => /\ open' \subseteq {fd'}
                  /\ (\A v \in Writers : ~Holds(v)') => open' = {}
                  /\ \A v \in Writers : Holds(v)' => fd' = -1 \/ fd' \in open'
  BY <1>1, <1>4, <1>5 DEF LogKept
<1>7. ~direct' => \A v \in Writers : todo'[v] # <<>> /\ todo'[v][1] = "write" => buffer' = v
  BY <1>1, <1>3, <1>4 DEF LogKept
<1>8. ~direct' => \A t \in Threads : \A i \in 1 .. Len(todo'[t]) :
                    todo'[t][i] \in Fields \cup {"call", "called"}
  BY <1>1, <1>4 DEF LogKept
<1>9. QED
  BY <1>5, <1>6, <1>7, <1>8 DEF LogKept

(* The listener. *)
LEMMA LogKeptListener ==
  ASSUME Inv, ListenerThread
  PROVE  LogKept'
<1>1. /\ Listener \in Writers /\ Listener \in Actors /\ Typed /\ LogKept /\ Listener # Module
      /\ Module \in Actors /\ \A t \in Threads : t \in Actors /\ t # Listener
  BY ThreadsAssumption, WritersAreActors DEF Inv, Writers, Actors
<1>2. CASE poll
  <2>1. /\ todo[Listener] = <<>> /\ todo' = [todo EXCEPT ![Listener] = Serve]
        /\ UNCHANGED <<log, direct>>
    BY <1>2 DEF poll, calls
  <2>2. todo'[Listener] = Serve /\ \A b \in Actors \ {Listener} : todo'[b] = todo[b]
    BY <1>1, <2>1 DEF Typed
  <2>3. \A v \in Writers \ {Listener} : todo'[v] = todo[v] /\ Bracketed(todo[v])
    BY <1>1, <2>2 DEF LogKept, Writers
  <2>4. \A v \in Writers \ {Listener} : Holds(v)' <=> Holds(v)
    BY <2>3 DEF Holds
  <2>5. \A t \in Threads : todo'[t] = todo[t]
    BY <1>1, <2>2
  <2>6. SelfContained(todo'[Listener])
    BY <2>2, PartsSelfContained
  <2>7. QED
    BY <1>1, <2>1, <2>3, <2>4, <2>5, <2>6, LogKeptStarts
<1>3. CASE ReadField
  <2>1. CASE Then(Listener, <<>>)
    <3>1. Popped(Listener) /\ todo[Listener][1] = "read"
      BY <1>1, <1>3, <2>1, DoPops DEF ReadField, Do
    <3>2. UNCHANGED <<log, direct>>
      BY <1>3 DEF ReadField, calls
    <3>3. QED
      BY <1>1, <3>1, <3>2, LogKeptPop DEF Opening, Needing
  <2>2. CASE todo' = todo
    <3>1. UNCHANGED <<log, direct>>
      BY <1>3 DEF ReadField, calls
    <3>2. \A v \in Writers : Holds(v)' <=> Holds(v)
      BY <2>2 DEF Holds
    <3>3. QED
      BY <1>1, <2>2, <3>1, <3>2, LogKeptAside DEF LogKept
  <2>3. QED
    BY <1>3, <2>1, <2>2 DEF ReadField
<1>4. CASE LowerFlag
  <2>1. Popped(Listener) /\ todo[Listener][1] = "clear" /\ UNCHANGED <<log, direct>>
    BY <1>1, <1>4, DoPops DEF LowerFlag, calls
  <2>2. QED
    BY <1>1, <2>1, LogKeptPop DEF Opening, Needing
<1>5. CASE NextPoll
  <2>1. Popped(Listener) /\ todo[Listener][1] = "next" /\ UNCHANGED <<log, direct>>
    BY <1>1, <1>5, DoPops DEF NextPoll, calls
  <2>2. QED
    BY <1>1, <2>1, LogKeptPop DEF Opening, Needing
<1>6. QED
  BY <1>1, <1>2, <1>3, <1>4, <1>5, LogKeptLogs DEF ListenerThread

(* The module gets a program instead of an operation that does not log. *)
LEMMA LogKeptGrown ==
  ASSUME Inv, NEW ops, SelfContained(ops), Grown(Module, ops),
         todo[Module][1] \in {"mutex", "set", "listener"}, UNCHANGED <<log, direct>>
  PROVE  LogKept'
<1>1. /\ Module \in Writers /\ Module \in Actors /\ LogKept /\ Bracketed(todo[Module])
      /\ \A v \in Writers \ {Module} : v \in Actors \ {Module}
      /\ \A t \in Threads : t \in Actors \ {Module}
  BY ThreadsAssumption, WritersAreActors DEF Inv, Writers, Actors, LogKept
<1>2. PICK s, r : s = todo[Module] /\ r = todo'[Module]
  OBVIOUS
<1>3. PICK m, n : m = Len(ops) /\ n = Len(s)
  OBVIOUS
<1>4. /\ m \in Nat /\ m >= 1 /\ ops[m] \notin Opening /\ ops[1] \notin Needing
      /\ \A i \in 1 .. m - 1 : /\ ops[i] \in Opening <=> ops[i + 1] \in Needing
                               /\ ops[i + 1] = "write" => ops[i] = "format"
  BY <1>3, LenProperties DEF SelfContained, Bracketed
<1>5. /\ n \in Nat /\ n >= 1 /\ s # <<>> /\ s[n] \notin Opening
      /\ s[1] \notin Opening /\ s[1] \notin Needing
      /\ \A i \in 1 .. n - 1 : /\ s[i] \in Opening <=> s[i + 1] \in Needing
                               /\ s[i + 1] = "write" => s[i] = "format"
  BY <1>1, <1>2, <1>3 DEF Grown, Bracketed, Opening, Needing
<1>6. /\ Len(r) = m + n - 1 /\ \A i \in 1 .. m : r[i] = ops[i]
      /\ \A i \in m + 1 .. m + n - 1 : r[i] = s[i - m + 1]
      /\ r \in Seq(Ops)
  BY <1>1, <1>2, <1>3 DEF Grown
<1>7. r[1] \notin Needing /\ r # <<>>
  BY <1>4, <1>5, <1>6
<1>8. ASSUME NEW i \in 1 .. Len(r) - 1
      PROVE  /\ r[i] \in Opening <=> r[i + 1] \in Needing
             /\ r[i + 1] = "write" => r[i] = "format"
  <2>1. CASE i < m
    <3>1. i \in 1 .. m - 1 /\ r[i] = ops[i] /\ r[i + 1] = ops[i + 1]
      BY <1>4, <1>5, <1>6, <2>1
    <3>2. QED
      BY <1>4, <3>1
  <2>2. CASE i = m
    <3>1. 1 \in 1 .. n - 1 /\ m + 1 \in m + 1 .. m + n - 1 /\ (m + 1) - m + 1 = 2 /\ 1 + 1 = 2
      BY <1>4, <1>5, <1>6, <2>2
    <3>2. r[i] = ops[m] /\ r[i + 1] = s[2]
      BY <1>4, <1>6, <2>2, <3>1
    <3>3. s[2] \notin Needing
      BY <1>5, <3>1
    <3>4. QED
      BY <1>4, <3>2, <3>3 DEF Needing
  <2>3. CASE i > m
    <3>1. PICK k : k = i - m + 1
      OBVIOUS
    <3>2. k \in 1 .. n - 1 /\ (i + 1) - m + 1 = k + 1
      BY <1>4, <1>5, <1>6, <2>3, <3>1
    <3>3. r[i] = s[k] /\ r[i + 1] = s[k + 1]
      BY <1>4, <1>5, <1>6, <2>3, <3>1, <3>2
    <3>4. QED
      BY <1>5, <3>2, <3>3
  <2>4. QED
    BY <1>4, <1>6, <2>1, <2>2, <2>3
<1>9. r[Len(r)] \notin Opening
  <2>1. CASE n = 1
    BY <1>4, <1>6, <2>1
  <2>2. CASE n > 1
    BY <1>4, <1>5, <1>6, <2>2
  <2>3. QED
    BY <1>5, <2>1, <2>2
<1>10. Bracketed(r)
  BY <1>8, <1>9 DEF Bracketed
<1>11. /\ \A v \in Writers : Bracketed(todo'[v]) /\ (Holds(v)' <=> Holds(v))
       /\ ~(todo'[Module] # <<>> /\ todo'[Module][1] = "write")
       /\ \A v \in Writers \ {Module} : todo'[v] = todo[v]
  <2>1. \A v \in Writers \ {Module} : todo'[v] = todo[v]
    BY <1>1 DEF Grown
  <2>2. ~Holds(Module) /\ ~Holds(Module)'
    BY <1>2, <1>5, <1>7 DEF Holds
  <2>3. QED
    BY <1>1, <1>2, <1>7, <1>10, <2>1, <2>2 DEF LogKept, Holds, Needing
<1>12. \A t \in Threads : todo'[t] = todo[t]
  BY <1>1 DEF Grown
<1>13. open' = open /\ fd' = fd /\ buffer' = buffer /\ direct' = direct
  BY DEF log
<1>14. ~direct' => /\ open' \subseteq {fd'}
                   /\ (\A v \in Writers : ~Holds(v)') => open' = {}
                   /\ \A v \in Writers : Holds(v)' => fd' = -1 \/ fd' \in open'
  BY <1>1, <1>11, <1>13 DEF LogKept
<1>15. ~direct' => \A v \in Writers : todo'[v] # <<>> /\ todo'[v][1] = "write" => buffer' = v
  BY <1>1, <1>11, <1>13 DEF LogKept
<1>16. ~direct' => \A t \in Threads : \A i \in 1 .. Len(todo'[t]) :
                     todo'[t][i] \in Fields \cup {"call", "called"}
  BY <1>1, <1>12, <1>13 DEF LogKept
<1>17. QED
  BY <1>11, <1>14, <1>15, <1>16 DEF LogKept

(* The module. *)
LEMMA LogKeptModule ==
  ASSUME Inv, module_start \/ module_stop \/ ModuleSteps
  PROVE  LogKept'
<1>1. /\ Listener \in Writers /\ Listener \in Actors /\ Typed /\ LogKept /\ Listener # Module
      /\ Module \in Actors /\ Module \in Writers /\ Writers = {Listener, Module}
      /\ \A t \in Threads : t \in Actors /\ t # Listener /\ t # Module
  BY ThreadsAssumption, WritersAreActors DEF Inv, Writers, Actors
<1>2. ASSUME NEW ops, SelfContained(ops), todo[Module] = <<>>,
             todo' = [todo EXCEPT ![Module] = ops], UNCHANGED <<log, direct>>
      PROVE  LogKept'
  <2>1. todo'[Module] = ops /\ \A b \in Actors \ {Module} : todo'[b] = todo[b]
    BY <1>1, <1>2 DEF Typed
  <2>2. \A v \in Writers \ {Module} : todo'[v] = todo[v] /\ Bracketed(todo[v])
    BY <1>1, <2>1 DEF LogKept
  <2>3. \A v \in Writers \ {Module} : Holds(v)' <=> Holds(v)
    BY <2>2 DEF Holds
  <2>4. \A t \in Threads : todo'[t] = todo[t]
    BY <1>1, <2>1
  <2>5. QED
    BY <1>1, <1>2, <2>1, <2>2, <2>3, <2>4, LogKeptStarts
<1>3. CASE module_start
  <2>1. todo[Module] = <<>>
    BY <1>3 DEF module_start, Inv, Turns
  <2>2. QED
    BY <1>2, <1>3, <2>1, StartProgram DEF module_start, calls
<1>4. CASE module_stop
  BY <1>2, <1>4, PartsSelfContained DEF module_stop, calls
<1>5. CASE sceKernelCreateMutex
  <2>1. UNCHANGED <<log, direct>>
    BY <1>5 DEF sceKernelCreateMutex, calls
  <2>2. CASE Then(Module, <<>>)
    <3>1. Popped(Module) /\ todo[Module][1] = "mutex"
      BY <1>1, <1>5, <2>2, DoPops DEF sceKernelCreateMutex, Do
    <3>2. QED
      BY <1>1, <2>1, <3>1, LogKeptPop DEF Opening, Needing
  <2>3. CASE Then(Module, Texts)
    <3>1. Grown(Module, Texts) /\ todo[Module][1] = "mutex"
      BY <1>1, <1>5, <2>3, ThenGrows, Programs DEF sceKernelCreateMutex
    <3>2. QED
      BY <2>1, <3>1, LogKeptGrown, PartsSelfContained
  <2>4. QED
    BY <1>5, <2>2, <2>3 DEF sceKernelCreateMutex
<1>6. CASE SetHooks
  <2>1. UNCHANGED <<log, direct>>
    BY <1>6 DEF SetHooks
  <2>2. CASE Then(Module, <<>>)
    <3>1. Popped(Module) /\ todo[Module][1] = "set"
      BY <1>1, <1>6, <2>2, DoPops DEF SetHooks, Do
    <3>2. QED
      BY <1>1, <2>1, <3>1, LogKeptPop DEF Opening, Needing
  <2>3. CASE Then(Module, Formatted)
    <3>1. Grown(Module, Formatted) /\ todo[Module][1] = "set"
      BY <1>1, <1>6, <2>3, ThenGrows, Programs DEF SetHooks
    <3>2. QED
      BY <2>1, <3>1, LogKeptGrown, PartsSelfContained
  <2>4. QED
    BY <1>6, <2>2, <2>3 DEF SetHooks
<1>7. CASE StartListener
  <2>1. UNCHANGED <<log, direct>>
    BY <1>7 DEF StartListener, calls
  <2>2. CASE listener' = "running"
    <3>1. /\ todo[Module] # <<>> /\ todo[Module][1] = "listener" /\ todo[Listener] = <<>>
          /\ todo'[Module] = <<>> /\ todo'[Listener] = Texts
          /\ \A b \in Actors \ {Module, Listener} : todo'[b] = todo[b]
      BY <1>7, <2>2, ListenerStarts
    <3>2. \A v \in Writers \ {Listener} : /\ todo'[v] = <<>> /\ ~Holds(v)' /\ ~Holds(v)
                                          /\ Bracketed(todo'[v])
      <4>1. Bracketed(<<>>)
        BY DEF Bracketed
      <4>2. QED
        BY <1>1, <3>1, <4>1 DEF Holds, Needing
    <3>3. \A t \in Threads : todo'[t] = todo[t]
      BY <1>1, <3>1
    <3>4. SelfContained(todo'[Listener])
      BY <3>1, PartsSelfContained
    <3>5. QED
      BY <1>1, <2>1, <3>1, <3>2, <3>3, <3>4, LogKeptStarts
  <2>3. CASE Then(Module, Texts)
    <3>1. Grown(Module, Texts) /\ todo[Module][1] = "listener"
      BY <1>1, <1>7, <2>3, ThenGrows, Programs DEF StartListener
    <3>2. QED
      BY <2>1, <3>1, LogKeptGrown, PartsSelfContained
  <2>4. QED
    BY <1>7, <2>2, <2>3 DEF StartListener
<1>8. CASE taiHookRelease \/ sceKernelWaitThreadEnd \/ sceKernelDeleteThread \/ StopReturns
  <2>1. /\ Popped(Module) /\ todo[Module][1] \in Stopping
        /\ UNCHANGED <<log, direct>>
    BY <1>1, <1>8, DoPops DEF taiHookRelease, sceKernelWaitThreadEnd, sceKernelDeleteThread,
                              StopReturns, calls, Stopping
  <2>2. QED
    BY <1>1, <2>1, LogKeptPop DEF Opening, Needing, Stopping
<1>9. QED
  BY <1>1, <1>3, <1>4, <1>5, <1>6, <1>7, <1>8, LogKeptLogs DEF ModuleSteps

-----------------------------------------------------------------------------
(* The turns of the module and the listener. *)

(* What each step leaves of the turns of the module and the listener.      *)
LEMMA TurnsPop ==
  ASSUME Inv, Popped(Module), listener' = listener, phase' = phase \/ phase' = "stopped"
  PROVE  Turns'
<1>1. PICK s, r : s = todo[Module] /\ r = todo'[Module]
  OBVIOUS
<1>2. /\ Len(s) \in Nat /\ Len(s) >= 1 /\ s # <<>> /\ Len(r) = Len(s) - 1
      /\ \A i \in 1 .. Len(s) - 1 : r[i] = s[i + 1]
  BY <1>1 DEF Popped
<1>3. /\ listener \in {"none", "running", "failed"}
      /\ phase # "loaded"
      /\ listener = "running" => \A i \in 1 .. Len(s) : s[i] \in Stopping
      /\ \A i \in 1 .. Len(s) : s[i] = "listener" => i = Len(s)
  BY <1>1, <1>2 DEF Inv, Turns
<1>4. \A i \in 1 .. Len(r) : r[i] = s[i + 1] /\ i + 1 \in 1 .. Len(s)
  BY <1>2
<1>5. listener = "running" => \A i \in 1 .. Len(r) : r[i] \in Stopping
  BY <1>3, <1>4
<1>6. \A i \in 1 .. Len(r) : r[i] = "listener" => i = Len(r)
  BY <1>2, <1>3, <1>4
<1>7. QED
  BY <1>1, <1>3, <1>5, <1>6 DEF Turns

(* A program without a start of the listener is put in front. *)
LEMMA TurnsGrown ==
  ASSUME Inv, NEW ops, Grown(Module, ops), \A i \in 1 .. Len(ops) : ops[i] # "listener",
         Len(ops) \in Nat, todo[Module][1] \in {"mutex", "set"}, UNCHANGED module
  PROVE  Turns'
<1>1. PICK s, r, m : s = todo[Module] /\ r = todo'[Module] /\ m = Len(ops)
  OBVIOUS
<1>2. /\ Len(s) \in Nat /\ Len(s) >= 1 /\ s # <<>> /\ Len(r) = m + Len(s) - 1 /\ m \in Nat
      /\ \A i \in 1 .. m : r[i] # "listener"
      /\ \A i \in m + 1 .. m + Len(s) - 1 : r[i] = s[i - m + 1]
  BY <1>1 DEF Grown
<1>3. s[1] \notin Stopping /\ 1 \in 1 .. Len(s)
  BY <1>1, <1>2 DEF Stopping
<1>4. listener # "running"
  BY <1>1, <1>3 DEF Inv, Turns
<1>5. phase # "loaded" /\ listener \in {"none", "running", "failed"}
  BY <1>1, <1>2 DEF Inv, Turns
<1>6. \A i \in 1 .. Len(s) : s[i] = "listener" => i = Len(s)
  BY <1>1 DEF Inv, Turns
<1>7. ASSUME NEW i \in 1 .. Len(r), r[i] = "listener"
      PROVE  i = Len(r)
  <2>1. i \in m + 1 .. m + Len(s) - 1
    BY <1>2, <1>7
  <2>2. i - m + 1 \in 1 .. Len(s) /\ s[i - m + 1] = "listener"
    BY <1>2, <1>7, <2>1
  <2>3. i - m + 1 = Len(s)
    BY <1>6, <2>2
  <2>4. QED
    BY <1>2, <2>1, <2>3
<1>8. QED
  BY <1>1, <1>4, <1>5, <1>7 DEF Turns, module

(* Every step keeps the turns.                                             *)
LEMMA TurnsKept ==
  ASSUME Inv, Next
  PROVE  Turns'
<1>1. /\ Module \in Actors /\ Listener \in Actors /\ Listener # Module /\ Typed /\ Turns
      /\ \A t \in Threads : t \in Actors /\ t # Module
  BY WritersAreActors, ThreadsAssumption DEF Inv, Writers, Actors
<1>2. ASSUME todo'[Module] = todo[Module], UNCHANGED module
      PROVE  Turns'
  BY <1>1, <1>2 DEF Turns, module
<1>3. ASSUME NEW t \in Threads, HookSteps(t)
      PROVE  Turns'
  <2>1. UNCHANGED module
    BY <1>3 DEF HookSteps, Call, TAI_CONTINUE, StoreField, RaiseFlag, Logs, open_global_log,
                sceClibSnprintf, FILE_WRITE, close_global_log
  <2>2. CASE Popped(t)
    BY <1>1, <1>2, <2>1, <2>2 DEF Popped
  <2>3. CASE \E h : Call(t, h)
    <3>1. todo'[Module] = todo[Module]
      BY <1>1, <2>3 DEF Call, Typed
    <3>2. QED
      BY <1>2, <2>1, <3>1
  <2>4. Popped(t) \/ \E h : Call(t, h)
    BY <1>1, <1>3, DoPops, LogsPop DEF HookSteps, TAI_CONTINUE, StoreField, RaiseFlag
  <2>5. QED
    BY <2>2, <2>3, <2>4
<1>4. CASE ListenerThread
  <2>1. UNCHANGED module
    BY <1>4 DEF ListenerThread, poll, ReadField, LowerFlag, NextPoll, Logs, open_global_log,
                sceClibSnprintf, FILE_WRITE, close_global_log
  <2>2. CASE Popped(Listener)
    BY <1>1, <1>2, <2>1, <2>2 DEF Popped
  <2>3. CASE poll \/ todo' = todo
    <3>1. todo'[Module] = todo[Module]
      BY <1>1, <2>3 DEF poll, Typed
    <3>2. QED
      BY <1>2, <2>1, <3>1
  <2>4. Popped(Listener) \/ poll \/ todo' = todo
    BY <1>1, <1>4, DoPops, LogsPop DEF ListenerThread, ReadField, LowerFlag, NextPoll, Do
  <2>5. QED
    BY <2>2, <2>3, <2>4
<1>5. CASE module_start
  <2>1. /\ todo'[Module] = initialize_all_hooks /\ listener' = listener /\ phase' = "started"
        /\ phase = "loaded"
    BY <1>1, <1>5 DEF module_start, Typed
  <2>2. QED
    BY <1>1, <2>1, StartProgram DEF Turns
<1>6. CASE module_stop
  <2>1. /\ todo'[Module] = deinitialize_all_hooks /\ listener' = listener /\ phase' = "stopping"
    BY <1>1, <1>6 DEF module_stop, Typed
  <2>2. \A i \in 1 .. Len(deinitialize_all_hooks) :
           deinitialize_all_hooks[i] \in Stopping /\ deinitialize_all_hooks[i] # "listener"
    BY DEF deinitialize_all_hooks, Stopping
  <2>3. QED
    BY <1>1, <2>1, <2>2 DEF Turns
<1>7. CASE sceKernelCreateMutex
  <2>1. CASE Then(Module, <<>>)
    BY <1>1, <1>7, <2>1, DoPops, TurnsPop DEF sceKernelCreateMutex, Do, module
  <2>2. CASE Then(Module, Texts)
    <3>1. Grown(Module, Texts) /\ todo[Module][1] = "mutex" /\ UNCHANGED module
      BY <1>1, <1>7, <2>2, ThenGrows, Programs DEF sceKernelCreateMutex
    <3>2. Len(Texts) \in Nat /\ todo[Module][1] \in {"mutex", "set"}
      BY <3>1, Programs
    <3>3. QED
      BY <3>1, <3>2, TurnsGrown, PartsSelfContained, Zenon
  <2>3. QED
    BY <1>7, <2>1, <2>2 DEF sceKernelCreateMutex
<1>8. CASE SetHooks
  <2>1. CASE Then(Module, <<>>)
    BY <1>1, <1>8, <2>1, DoPops, TurnsPop DEF SetHooks, Do, module
  <2>2. CASE Then(Module, Formatted)
    <3>1. Grown(Module, Formatted) /\ todo[Module][1] = "set" /\ UNCHANGED module
      BY <1>1, <1>8, <2>2, ThenGrows, Programs DEF SetHooks
    <3>2. Len(Formatted) \in Nat /\ todo[Module][1] \in {"mutex", "set"}
      BY <3>1, Programs
    <3>3. QED
      BY <3>1, <3>2, TurnsGrown, PartsSelfContained, Zenon
  <2>3. QED
    BY <1>8, <2>1, <2>2 DEF SetHooks
<1>9. CASE StartListener
  <2>1. phase # "loaded"
    BY <1>1, <1>9 DEF StartListener, Next_op, Turns
  <2>2. phase' = phase
    BY <1>9 DEF StartListener
  <2>3. CASE listener' = "running"
    <3>1. todo'[Module] = <<>>
      BY <1>9, <2>3, ListenerStarts
    <3>2. QED
      BY <2>1, <2>2, <2>3, <3>1 DEF Turns
  <2>4. CASE listener' = "failed" /\ Then(Module, Texts)
    <3>1. Grown(Module, Texts) /\ todo[Module][1] = "listener"
      BY <1>1, <1>9, <2>4, ThenGrows, Programs DEF StartListener
    <3>2. PICK s : s = todo[Module]
      OBVIOUS
    <3>3. 1 \in 1 .. Len(s) /\ s[1] = "listener"
      BY <3>1, <3>2 DEF Grown
    <3>4. \A i \in 1 .. Len(s) : s[i] = "listener" => i = Len(s)
      BY <1>1, <3>2 DEF Turns
    <3>5. Len(s) = 1
      BY <3>3, <3>4
    <3>6. Len(todo'[Module]) = 3 /\ \A i \in 1 .. 3 : todo'[Module][i] = Texts[i]
      BY <3>1, <3>2, <3>5, Programs DEF Grown
    <3>7. \A i \in 1 .. Len(todo'[Module]) : todo'[Module][i] # "listener"
      BY <3>6, PartsSelfContained, Programs
    <3>8. QED
      BY <2>1, <2>2, <2>4, <3>7 DEF Turns
  <2>5. QED
    BY <1>9, <2>3, <2>4 DEF StartListener
<1>10. CASE taiHookRelease \/ sceKernelWaitThreadEnd \/ sceKernelDeleteThread \/ StopReturns
  <2>1. /\ Popped(Module)
        /\ phase' = phase \/ phase' = "stopped"
    BY <1>1, <1>10, DoPops DEF taiHookRelease, sceKernelWaitThreadEnd, sceKernelDeleteThread,
                               StopReturns, module
  <2>2. listener' = listener
    BY <1>1, <1>10 DEF taiHookRelease, sceKernelWaitThreadEnd, sceKernelDeleteThread,
                       StopReturns, module, Turns
  <2>3. QED
    BY <2>1, <2>2, TurnsPop
<1>11. CASE Logs(Module)
  BY <1>1, <1>11, LogsPop, TurnsPop DEF module
<1>12. QED
  BY <1>3, <1>4, <1>5, <1>6, <1>7, <1>8, <1>9, <1>10, <1>11 DEF Next, ModuleSteps

-----------------------------------------------------------------------------
(* The types. *)

(* Every step keeps the types.                                             *)
LEMMA TypedKept ==
  ASSUME Inv, Next
  PROVE  Typed'
<1>1. /\ Module \in Actors /\ Listener \in Actors /\ Typed
      /\ \A t \in Threads : t \in Actors
  BY WritersAreActors DEF Inv, Writers, Actors
<1>2. ASSUME todo' \in [Actors -> Seq(Ops)], UNCHANGED <<calls, hook, entry, field>>,
             called' \in {0, 1}, raced' \in BOOLEAN
      PROVE  Typed'
  BY <1>1, <1>2 DEF Typed, calls
<1>3. ASSUME NEW a \in Actors, Popped(a) \/ (\E ops \in Seq(Ops) : Grown(a, ops)),
             UNCHANGED <<calls, mailbox>>
      PROVE  Typed'
  BY <1>1, <1>2, <1>3 DEF Popped, Grown, mailbox, Typed
<1>4. ASSUME NEW a \in Actors, Logs(a)
      PROVE  Typed'
  BY <1>1, <1>3, <1>4, LogsPop
<1>5. ASSUME NEW t \in Threads, HookSteps(t)
      PROVE  Typed'
  <2>1. CASE TAI_CONTINUE(t)
    BY <1>1, <1>3, <2>1, DoPops DEF TAI_CONTINUE
  <2>2. ASSUME NEW f \in Fields, StoreField(t, f)
        PROVE  Typed'
    <3>1. todo' \in [Actors -> Seq(Ops)]
      BY <1>1, <2>2, DoPops DEF StoreField, Popped
    <3>2. call[t] \in Nat /\ field' \in [Fields -> Nat]
      BY <1>1, <2>2 DEF StoreField, Typed
    <3>3. UNCHANGED <<calls, hook, called, entry>> /\ raced' \in BOOLEAN
      BY <1>1, <2>2 DEF StoreField, Typed
    <3>4. QED
      BY <1>1, <3>1, <3>2, <3>3 DEF Typed, calls
  <2>3. CASE RaiseFlag(t)
    <3>1. todo' \in [Actors -> Seq(Ops)]
      BY <1>1, <2>3, DoPops DEF RaiseFlag, Popped
    <3>2. QED
      BY <1>1, <1>2, <2>3, <3>1 DEF RaiseFlag, Typed
  <2>4. ASSUME NEW h \in {hook} \cup Direct, Call(t, h)
        PROVE  Typed'
    <3>1. Stores[h] \in Seq(Ops)
      <4>1. CASE h = hook
        BY <1>1, <4>1, MailboxPrograms, WatchedAssumption DEF Typed, MailboxProgram
      <4>2. CASE h \in Direct
        BY <4>2, DirectPrograms, WatchedAssumption, Programs
      <4>3. QED
        BY <4>1, <4>2
    <3>2. todo' \in [Actors -> Seq(Ops)]
      BY <1>1, <2>4, <3>1 DEF Call, Typed
    <3>3. count' \in Nat /\ call' \in [Threads -> Nat]
      BY <1>1, <2>4 DEF Call, Typed
    <3>4. UNCHANGED <<hook, called, field, entry>>
      BY <2>4 DEF Call
    <3>5. raced' \in BOOLEAN /\ direct' \in BOOLEAN
      BY <2>4 DEF Call
    <3>6. QED
      BY <1>1, <3>2, <3>3, <3>4, <3>5 DEF Typed
  <2>5. QED
    BY <1>1, <1>4, <1>5, <2>1, <2>2, <2>3, <2>4 DEF HookSteps
<1>6. CASE ListenerThread
  <2>1. CASE poll
    <3>1. todo' \in [Actors -> Seq(Ops)]
      BY <1>1, <2>1, Programs DEF poll, Typed
    <3>2. DOMAIN entry' = {}
      BY <2>1 DEF poll
    <3>3. QED
      BY <1>1, <2>1, <3>1, <3>2 DEF poll, Typed, calls
  <2>2. CASE ReadField
    <3>1. UNCHANGED <<calls, hook, called, field, raced>>
      BY <2>2 DEF ReadField
    <3>2. CASE Then(Listener, <<>>) /\ UNCHANGED entry
      <4>1. todo' \in [Actors -> Seq(Ops)]
        BY <1>1, <2>2, <3>2, DoPops DEF ReadField, Popped, Do
      <4>2. QED
        BY <1>1, <1>2, <3>1, <3>2, <4>1 DEF Typed
    <3>3. ASSUME NEW f \in Prints[hook] \ DOMAIN entry, todo' = todo,
                 entry' = entry ++ [x \in {f} |-> field[x]]
          PROVE  Typed'
      <4>1. DOMAIN entry' = DOMAIN entry \cup {f}
        BY <3>3 DEF ++
      <4>2. QED
        BY <1>1, <3>1, <3>3, <4>1 DEF Typed, calls
    <3>4. QED
      BY <2>2, <3>2, <3>3 DEF ReadField
  <2>3. CASE LowerFlag
    <3>1. todo' \in [Actors -> Seq(Ops)]
      BY <1>1, <2>3, DoPops DEF LowerFlag, Popped
    <3>2. QED
      BY <1>1, <1>2, <2>3, <3>1 DEF LowerFlag, Typed
  <2>4. CASE NextPoll
    BY <1>1, <1>3, <2>4, DoPops DEF NextPoll
  <2>5. QED
    BY <1>1, <1>4, <1>6, <2>1, <2>2, <2>3, <2>4 DEF ListenerThread
<1>7. CASE module_start \/ module_stop
  <2>1. todo' \in [Actors -> Seq(Ops)]
    BY <1>1, <1>7, StartProgram, Programs DEF module_start, module_stop, SelfContained, Typed
  <2>2. UNCHANGED <<calls, mailbox>>
    BY <1>7 DEF module_start, module_stop
  <2>3. QED
    BY <1>1, <1>2, <2>1, <2>2 DEF mailbox, Typed
<1>8. CASE ModuleSteps
  <2>1. CASE sceKernelCreateMutex
    BY <1>1, <1>3, <2>1, DoPops, ThenGrows, Programs DEF sceKernelCreateMutex, Do
  <2>2. CASE SetHooks
    <3>1. Popped(Module) \/ Grown(Module, Formatted)
      BY <1>1, <2>2, DoPops, ThenGrows, Programs DEF SetHooks, Do
    <3>2. UNCHANGED <<count, call, direct, mailbox>>
      BY <2>2 DEF SetHooks
    <3>3. todo' \in [Actors -> Seq(Ops)]
      BY <3>1 DEF Popped, Grown
    <3>4. QED
      BY <1>1, <3>2, <3>3 DEF Typed, mailbox
  <2>3. CASE StartListener
    <3>1. todo' \in [Actors -> Seq(Ops)]
      <4>1. CASE listener' = "running"
        BY <2>3, <4>1, ListenerStarts
      <4>2. CASE Then(Module, Texts)
        BY <1>1, <2>3, <4>2, ThenGrows, Programs DEF StartListener, Grown
      <4>3. QED
        BY <2>3, <4>1, <4>2 DEF StartListener
    <3>2. QED
      BY <1>1, <1>2, <2>3, <3>1 DEF StartListener, mailbox, Typed
  <2>4. CASE taiHookRelease
    <3>1. todo' \in [Actors -> Seq(Ops)]
      BY <1>1, <2>4, DoPops DEF taiHookRelease, Popped
    <3>2. QED
      BY <1>1, <2>4, <3>1 DEF taiHookRelease, Typed, mailbox
  <2>5. CASE sceKernelWaitThreadEnd \/ sceKernelDeleteThread \/ StopReturns
    BY <1>1, <1>3, <2>5, DoPops DEF sceKernelWaitThreadEnd, sceKernelDeleteThread, StopReturns
  <2>6. QED
    BY <1>1, <1>4, <1>8, <2>1, <2>2, <2>3, <2>4, <2>5 DEF ModuleSteps
<1>9. QED
  BY <1>5, <1>6, <1>7, <1>8 DEF Next

-----------------------------------------------------------------------------
(* The listener and what it has read. *)

(* Another's step that, while the flag is up, only stores with a race. *)
LEMMA ListeningAside ==
  ASSUME Inv, todo'[Listener] = todo[Listener], UNCHANGED <<entry, listener>>,
         called = 1 => called' = 1 /\ (raced' \/ field' = field), raced => raced'
  PROVE  Listening'
  BY DEF Inv, Listening, Has

(* Where the listener is determines how its program ends. *)
LEMMA ListeningEnds ==
  ASSUME Inv, NEW s, s = todo[Listener], s # <<>>
  PROVE  /\ Len(s) \in Nat /\ Len(s) >= 1
         /\ s[Len(s)] = "close" => DOMAIN entry = {}
         /\ s[Len(s)] = "next" /\ Len(s) > 1 => Has(Listener, "clear")
         /\ s[Len(s)] \in {"next", "close"}
         /\ s[Len(s)] = "next" /\ Len(s) > 1 => s[Len(s) - 1] = "clear"
         /\ \A i \in 1 .. Len(s) : /\ s[i] = "clear" => i = Len(s) - 1
                                   /\ s[i] = "read" => s[Len(s)] = "next"
         /\ Has(Listener, "clear") => called = 1
         /\ Has(Listener, "clear") /\ ~raced => \A f \in DOMAIN entry : entry[f] = field[f]
         /\ listener = "running"
<1>1. s \in Seq(Ops)
  BY WritersAreActors DEF Inv, Typed, Writers
<1>2. Len(s) \in Nat /\ Len(s) >= 1 /\ DOMAIN s = 1 .. Len(s)
  BY <1>1, EmptySeq, LenProperties
<1>3. s[Len(s)] = "next" /\ Len(s) > 1 => s[Len(s) - 1] = "clear"
  BY DEF Inv, Listening
<1>4. s[Len(s)] = "next" /\ Len(s) > 1 => Has(Listener, "clear")
  BY <1>2, <1>3 DEF Has
<1>5. QED
  BY <1>2, <1>3, <1>4 DEF Inv, Listening

(* The listener does its first operation. *)
LEMMA ListeningPop ==
  ASSUME Inv, Popped(Listener), UNCHANGED <<field, entry, raced, listener>>,
         todo[Listener][1] # "clear" => called' = called
  PROVE  Listening'
<1>1. PICK s, r, n : s = todo[Listener] /\ r = todo'[Listener] /\ n = Len(s)
  OBVIOUS
<1>2. /\ n \in Nat /\ n >= 1 /\ s # <<>> /\ Len(r) = n - 1 /\ (r = <<>> <=> n = 1)
      /\ \A i \in 1 .. n - 1 : r[i] = s[i + 1]
      /\ r \in Seq(Ops) /\ DOMAIN r = 1 .. n - 1 /\ DOMAIN s = 1 .. n
  <2>1. /\ n \in Nat /\ n >= 1 /\ s # <<>> /\ Len(r) = n - 1 /\ (r = <<>> <=> n = 1)
        /\ \A i \in 1 .. n - 1 : r[i] = s[i + 1]
    BY <1>1 DEF Popped
  <2>2. r \in Seq(Ops) /\ s \in Seq(Ops)
    BY <1>1, WritersAreActors DEF Inv, Typed, Writers, Popped
  <2>3. QED
    BY <1>1, <2>1, <2>2, LenProperties
<1>3. /\ s[n] = "close" => DOMAIN entry = {}
      /\ s[n] \in {"next", "close"}
      /\ s[n] = "next" /\ n > 1 => s[n - 1] = "clear"
      /\ \A i \in 1 .. n : /\ s[i] = "clear" => i = n - 1
                           /\ s[i] = "read" => s[n] = "next"
      /\ Has(Listener, "clear") => called = 1
      /\ Has(Listener, "clear") /\ ~raced => \A f \in DOMAIN entry : entry[f] = field[f]
      /\ listener = "running"
  BY <1>1, <1>2, ListeningEnds
<1>4. r # <<>> => r[Len(r)] = s[n] /\ n > 1
  BY <1>2
<1>5. r # <<>> /\ Len(r) > 1 => r[Len(r) - 1] = s[n - 1]
  BY <1>2
<1>6. \A i \in 1 .. Len(r) : r[i] = s[i + 1] /\ i + 1 \in 1 .. n
  BY <1>2
<1>7. \A i \in 1 .. Len(r) : /\ r[i] = "clear" => i = Len(r) - 1
                             /\ r[i] = "read" => r[Len(r)] = "next"
  <2>1. SUFFICES ASSUME NEW i \in 1 .. Len(r)
                 PROVE  /\ r[i] = "clear" => i = Len(r) - 1
                        /\ r[i] = "read" => r[Len(r)] = "next"
    OBVIOUS
  <2>2. r # <<>> /\ r[i] = s[i + 1] /\ i + 1 \in 1 .. n /\ i \in Nat
    BY <1>2, <1>6
  <2>3. s[i + 1] = "clear" => i + 1 = n - 1
    BY <1>3, <2>2
  <2>4. s[i + 1] = "read" => s[n] = "next"
    BY <1>3, <2>2
  <2>5. QED
    BY <1>2, <1>4, <2>2, <2>3, <2>4
<1>8. Has(Listener, "clear")' => Has(Listener, "clear") /\ s[1] # "clear"
  <2>1. SUFFICES ASSUME NEW i \in 1 .. Len(r), r[i] = "clear"
                 PROVE  Has(Listener, "clear") /\ s[1] # "clear"
    BY <1>1, <1>2 DEF Has
  <2>2. i + 1 \in 1 .. n /\ s[i + 1] = "clear"
    BY <1>6, <2>1
  <2>3. s[1] = "clear" => 1 = n - 1
    BY <1>2, <1>3
  <2>4. i + 1 = n - 1 /\ i >= 1
    BY <1>2, <1>3, <2>2
  <2>5. QED
    BY <1>1, <1>2, <2>2, <2>3, <2>4 DEF Has
<1>9. Has(Listener, "clear")' => /\ called' = 1
                                 /\ ~raced' => \A f \in DOMAIN entry' : entry'[f] = field'[f]
  BY <1>1, <1>3, <1>8
<1>10. listener' = "running"
  BY <1>3
<1>11. /\ r # <<>> => r[Len(r)] \in {"next", "close"}
       /\ r # <<>> /\ r[Len(r)] = "close" => DOMAIN entry' = {}
       /\ r # <<>> /\ r[Len(r)] = "next" /\ Len(r) > 1 => r[Len(r) - 1] = "clear"
  BY <1>3, <1>4, <1>5
<1>12. QED
  BY <1>1, <1>7, <1>9, <1>10, <1>11 DEF Listening

(* Every step keeps what is known of the listener's reading.               *)
LEMMA ListeningKept ==
  ASSUME Inv, Next
  PROVE  Listening'
<1>1. /\ Module \in Actors /\ Listener \in Actors /\ Listener # Module /\ Typed
      /\ \A t \in Threads : t \in Actors /\ t # Listener
  BY WritersAreActors, ThreadsAssumption DEF Inv, Writers, Actors
<1>2. ASSUME NEW t \in Threads, HookSteps(t)
      PROVE  Listening'
  <2>1. todo'[Listener] = todo[Listener]
    <3>1. CASE Popped(t)
      BY <1>1, <3>1 DEF Popped
    <3>2. CASE \E h : Call(t, h)
      BY <1>1, <3>2 DEF Call, Typed
    <3>3. Popped(t) \/ \E h : Call(t, h)
      BY <1>1, <1>2, DoPops, LogsPop DEF HookSteps, TAI_CONTINUE, StoreField, RaiseFlag
    <3>4. QED
      BY <3>1, <3>2, <3>3
  <2>2. CASE TAI_CONTINUE(t) \/ Logs(t)
    <3>1. UNCHANGED mailbox /\ UNCHANGED module
      BY <1>1, <2>2, LogsPop DEF TAI_CONTINUE
    <3>2. QED
      BY <2>1, <3>1, ListeningAside DEF mailbox, module
  <2>3. ASSUME NEW f \in Fields, StoreField(t, f)
        PROVE  Listening'
    BY <2>1, <2>3, ListeningAside DEF StoreField, module
  <2>4. CASE RaiseFlag(t)
    BY <2>1, <2>4, ListeningAside DEF RaiseFlag, module
  <2>5. ASSUME NEW h, Call(t, h)
        PROVE  Listening'
    BY <2>1, <2>5, ListeningAside DEF Call, module
  <2>6. QED
    BY <1>2, <2>2, <2>3, <2>4, <2>5 DEF HookSteps
<1>3. CASE poll
  <2>1. /\ todo'[Listener] = Serve /\ entry' = <<>> /\ called' = 1 /\ listener' = "running"
    BY <1>1, <1>3 DEF poll, Typed, module
  <2>2. DOMAIN entry' = {}
    BY <2>1
  <2>3. /\ Len(Serve) = 7 /\ Serve[7] = "next" /\ Serve[6] = "clear"
        /\ \A i \in 1 .. 7 : Serve[i] = "clear" => i = 6
    BY DEF Serve
  <2>4. QED
    BY <2>1, <2>2, <2>3 DEF Listening
<1>4. CASE ReadField
  <2>1. UNCHANGED <<called, field, raced, listener>> /\ Next_op(Listener, "read")
    BY <1>4 DEF ReadField, module
  <2>2. CASE Then(Listener, <<>>) /\ UNCHANGED entry
    BY <1>1, <2>1, <2>2, DoPops, ListeningPop DEF Do
  <2>3. ASSUME NEW f \in Prints[hook] \ DOMAIN entry, todo' = todo,
               entry' = entry ++ [x \in {f} |-> field[x]]
        PROVE  Listening'
    <3>1. PICK s : s = todo[Listener]
      OBVIOUS
    <3>2. s # <<>> /\ s \in Seq(Ops) /\ Head(s) = "read"
      BY <1>1, <2>1, <3>1 DEF Next_op, Typed
    <3>3. s[1] = "read" /\ 1 \in 1 .. Len(s)
      BY <3>2, EmptySeq
    <3>4. s[Len(s)] = "next" /\ called = 1 /\ listener = "running"
          /\ (~raced => \A g \in DOMAIN entry : entry[g] = field[g])
      BY <3>1, <3>2, <3>3, ListeningEnds
    <3>5. ~raced => \A g \in DOMAIN entry' : entry'[g] = field[g]
      BY <2>3, <3>4 DEF ++
    <3>6. Has(Listener, "clear")' => called' = 1 /\ (~raced' => \A g \in DOMAIN entry' : entry'[g] = field'[g])
      BY <2>1, <3>4, <3>5
    <3>7. \A i \in 1 .. Len(s) : /\ s[i] = "clear" => i = Len(s) - 1
                                 /\ s[i] = "read" => s[Len(s)] = "next"
      BY <3>1, <3>2, ListeningEnds
    <3>8. Len(s) > 1 => s[Len(s) - 1] = "clear"
      BY <3>1, <3>2, <3>4, ListeningEnds
    <3>9. todo'[Listener] = s /\ listener' = "running"
      BY <2>1, <2>3, <3>1, <3>4
    <3>10. QED
      BY <3>4, <3>6, <3>7, <3>8, <3>9 DEF Listening
  <2>4. QED
    BY <1>4, <2>2, <2>3 DEF ReadField
<1>5. CASE LowerFlag
  BY <1>1, <1>5, DoPops, ListeningPop DEF LowerFlag, module
<1>6. CASE NextPoll \/ Logs(Listener)
  BY <1>1, <1>6, DoPops, LogsPop, ListeningPop DEF NextPoll, mailbox, module
<1>7. CASE module_start \/ module_stop
  <2>1. todo'[Listener] = todo[Listener]
    BY <1>1, <1>7 DEF module_start, module_stop, Typed
  <2>2. UNCHANGED <<called, field, raced, listener, entry>>
    BY <1>7 DEF module_start, module_stop, mailbox
  <2>3. QED
    BY <2>1, <2>2, ListeningAside
<1>8. CASE StartListener
  <2>1. UNCHANGED <<called, field, raced, entry>>
    BY <1>8 DEF StartListener, mailbox
  <2>2. CASE listener' = "running"
    <3>1. todo'[Listener] = Texts /\ listener # "running"
      BY <1>8, <2>2, ListenerStarts
    <3>2. DOMAIN entry' = {}
      BY <2>1, <3>1 DEF Inv, Listening
    <3>3. Len(Texts) = 3 /\ Texts[3] = "close"
          /\ \A i \in 1 .. 3 : Texts[i] # "clear" /\ Texts[i] # "read" /\ Texts[i] # "next"
      BY DEF Texts
    <3>4. ~Has(Listener, "clear")'
      BY <3>1, <3>3 DEF Has, Texts
    <3>5. QED
      BY <2>2, <3>1, <3>2, <3>3, <3>4 DEF Listening
  <2>3. CASE listener' = "failed" /\ Then(Module, Texts)
    <3>1. Grown(Module, Texts) /\ todo[Module][1] = "listener"
      BY <1>1, <1>8, <2>3, ThenGrows, Programs DEF StartListener
    <3>2. PICK s : s = todo[Module]
      OBVIOUS
    <3>3. 1 \in 1 .. Len(s) /\ s[1] \notin Stopping
      BY <3>1, <3>2 DEF Grown, Stopping
    <3>4. listener # "running"
      BY <3>2, <3>3 DEF Inv, Turns
    <3>5. todo'[Listener] = <<>> /\ DOMAIN entry' = {}
      BY <1>1, <2>1, <3>1, <3>4 DEF Inv, Listening, Grown
    <3>6. Len(<<>>) = 0 /\ ~Has(Listener, "clear")'
      BY <3>5 DEF Has
    <3>7. QED
      BY <2>3, <3>5, <3>6 DEF Listening
  <2>4. QED
    BY <1>8, <2>2, <2>3 DEF StartListener
<1>9. CASE ModuleSteps /\ ~StartListener
  <2>1. Popped(Module) \/ Grown(Module, Texts) \/ Grown(Module, Formatted)
    <3>1. CASE sceKernelCreateMutex \/ SetHooks
      BY <1>1, <3>1, DoPops, ThenGrows, Programs DEF sceKernelCreateMutex, SetHooks, Do
    <3>2. CASE taiHookRelease \/ sceKernelWaitThreadEnd \/ sceKernelDeleteThread \/ StopReturns
      BY <1>1, <3>2, DoPops DEF taiHookRelease, sceKernelWaitThreadEnd, sceKernelDeleteThread,
                                StopReturns
    <3>3. QED
      BY <1>1, <1>9, <3>1, <3>2, LogsPop DEF ModuleSteps
  <2>2. todo'[Listener] = todo[Listener]
    BY <1>1, <2>1 DEF Popped, Grown
  <2>3. UNCHANGED mailbox
    BY <1>1, <1>9, LogsPop DEF ModuleSteps, sceKernelCreateMutex, SetHooks, taiHookRelease,
                   sceKernelWaitThreadEnd, sceKernelDeleteThread, StopReturns
  <2>4. listener' = listener
    BY <1>1, <1>9, LogsPop DEF ModuleSteps, sceKernelCreateMutex, SetHooks, taiHookRelease,
                   sceKernelWaitThreadEnd, sceKernelDeleteThread, StopReturns, module, Inv, Turns
  <2>5. QED
    BY <2>2, <2>3, <2>4, ListeningAside DEF mailbox
<1>10. QED
  BY <1>2, <1>3, <1>4, <1>5, <1>6, <1>7, <1>8, <1>9 DEF Next, ListenerThread

-----------------------------------------------------------------------------
(* The hook's variables. *)

MailboxInv ==
    /\ \A t \in Threads : Storing(t)
    /\ NeverLogsUnset
    /\ ~raced => OneCall

(* Nobody stores. *)
LEMMA MailboxAside ==
  ASSUME Inv, \A t \in Threads : todo'[t] = todo[t], UNCHANGED <<hook, field, call, raced>>,
         called' = called \/ called' = 0
  PROVE  MailboxInv'
<1>1. /\ \A t \in Threads : Storing(t)
      /\ NeverLogsUnset
      /\ ~raced => OneCall
  BY DEF Inv
<1>2. \A t \in Threads : (InHook(t)' <=> InHook(t)) /\ \A f : Has(t, f)' <=> Has(t, f)
  BY DEF InHook, Has
<1>3. \A t \in Threads : Storing(t)'
  BY <1>1, <1>2 DEF Storing
<1>4. NeverLogsUnset'
  BY <1>1 DEF NeverLogsUnset, NoCall
<1>5. ~raced' => OneCall'
  BY <1>1, <1>2 DEF OneCall
<1>6. QED
  BY <1>3, <1>4, <1>5 DEF MailboxInv

(* What a thread that does its first operation still has to do. *)
LEMMA PopHook ==
  ASSUME Inv, NEW t \in Threads, Popped(t)
  PROVE  /\ \A u \in Threads \ {t} : /\ todo'[u] = todo[u]
                                     /\ InHook(u)' <=> InHook(u)
                                     /\ \A f : Has(u, f)' <=> Has(u, f)
         /\ InHook(t)' => InHook(t) /\ todo'[t] # <<>>
         /\ todo[t][1] \in Fields \cup {"called"} => InHook(t)
         /\ \A f : Has(t, f) /\ todo[t][1] # f => Has(t, f)'
         /\ todo'[t] # <<>> => todo'[t][Len(todo'[t])] = todo[t][Len(todo[t])]
         /\ \A i \in 1 .. Len(todo'[t]) : todo'[t][i] = "called" => i = Len(todo'[t])
         /\ todo[t][1] = "called" => todo'[t] = <<>> /\ \A f : Has(t, f) => f = "called"
         /\ call[t] # NoCall
<1>1. PICK s, r, n : s = todo[t] /\ r = todo'[t] /\ n = Len(s)
  OBVIOUS
<1>2. t \in Actors /\ Typed /\ Storing(t)
  BY DEF Inv, Actors
<1>3. /\ n \in Nat /\ n >= 1 /\ s # <<>> /\ Len(r) = n - 1 /\ (r = <<>> <=> n = 1)
      /\ \A i \in 1 .. n - 1 : r[i] = s[i + 1]
      /\ \A b \in Actors \ {t} : todo'[b] = todo[b]
  BY <1>1 DEF Popped
<1>4. DOMAIN r = 1 .. n - 1 /\ DOMAIN s = 1 .. n
  <2>1. r \in Seq(Ops) /\ s \in Seq(Ops)
    BY <1>1, <1>2 DEF Typed, Popped
  <2>2. QED
    BY <1>1, <1>3, <2>1, LenProperties
<1>5. \A u \in Threads \ {t} : todo'[u] = todo[u]
  BY <1>3 DEF Actors
<1>6. \A u \in Threads \ {t} : (InHook(u)' <=> InHook(u)) /\ \A f : Has(u, f)' <=> Has(u, f)
  BY <1>5 DEF InHook, Has
<1>7. \A i \in DOMAIN r : r[i] = s[i + 1] /\ i + 1 \in DOMAIN s
  BY <1>3, <1>4
<1>8. InHook(t)' => InHook(t) /\ r # <<>>
  <2>1. SUFFICES ASSUME NEW i \in DOMAIN r, r[i] \in Fields \cup {"called"}
                 PROVE  InHook(t) /\ r # <<>>
    BY <1>1 DEF InHook
  <2>2. QED
    BY <1>1, <1>3, <1>4, <1>7, <2>1 DEF InHook
<1>9. s[1] \in Fields \cup {"called"} => InHook(t)
  BY <1>1, <1>3, <1>4 DEF InHook
<1>10. ASSUME NEW f, Has(t, f), s[1] # f
       PROVE  Has(t, f)'
  <2>1. PICK i \in 1 .. n : s[i] = f
    BY <1>1, <1>4, <1>10 DEF Has
  <2>2. i - 1 \in 1 .. n - 1 /\ r[i - 1] = s[i]
    BY <1>3, <1>10, <2>1
  <2>3. QED
    BY <1>1, <1>4, <2>1, <2>2 DEF Has
<1>11. r # <<>> => r[Len(r)] = s[n]
  BY <1>3
<1>12. call[t] # NoCall /\ \A i \in 1 .. n : s[i] = "called" => i = n
  BY <1>1, <1>2, <1>3 DEF Storing
<1>13. \A i \in 1 .. Len(r) : r[i] = "called" => i = Len(r)
  <2>1. SUFFICES ASSUME NEW i \in 1 .. Len(r), r[i] = "called"
                 PROVE  i = Len(r)
    OBVIOUS
  <2>2. i + 1 \in 1 .. n /\ s[i + 1] = "called"
    BY <1>3, <2>1
  <2>3. i + 1 = n
    BY <1>12, <2>2
  <2>4. QED
    BY <1>3, <2>1, <2>3
<1>14. s[1] = "called" => r = <<>> /\ \A f : Has(t, f) => f = "called"
  <2>1. SUFFICES ASSUME s[1] = "called"
                 PROVE  r = <<>> /\ \A f : Has(t, f) => f = "called"
    OBVIOUS
  <2>2. n = 1
    BY <1>3, <1>12, <2>1
  <2>3. \A i \in DOMAIN s : s[i] = "called"
    BY <1>4, <2>1, <2>2
  <2>4. QED
    BY <1>1, <1>3, <2>2, <2>3 DEF Has
<1>15. QED
  BY <1>1, <1>5, <1>6, <1>8, <1>9, <1>10, <1>11, <1>12, <1>13, <1>14

(* A thread in a hook. *)
LEMMA MailboxThread ==
  ASSUME Inv, NEW t \in Threads, HookSteps(t)
  PROVE  MailboxInv'
<1>1. /\ \A u \in Threads : Storing(u)
      /\ NeverLogsUnset
      /\ ~raced => OneCall
      /\ Typed /\ t \in Actors /\ Prints[hook] \subseteq Fields /\ hook \in Mailboxes
      /\ \A u \in Threads : u \in Actors
  BY MailboxPrograms, WatchedAssumption DEF Inv, Typed, Actors
<1>2. CASE TAI_CONTINUE(t) \/ Logs(t)
  <2>1. Popped(t) /\ UNCHANGED mailbox /\ call' = call /\ todo[t][1] \notin Fields
    BY <1>1, <1>2, DoPops, LogsPop DEF TAI_CONTINUE, calls, LogOps, Fields
  <2>2. UNCHANGED <<hook, field, called, raced, call>>
    BY <2>1 DEF mailbox
  <2>3. ASSUME NEW u \in Threads
        PROVE  /\ InHook(u)' => InHook(u)
               /\ \A f \in Fields : Has(u, f) => Has(u, f)'
    BY <2>1, PopHook
  <2>4. ASSUME NEW u \in Threads
        PROVE  Storing(u)'
    <3>1. CASE u = t
      <4>1. InHook(t)' => todo'[t][Len(todo'[t])] = "called"
        BY <1>1, <2>1, PopHook DEF Storing
      <4>2. InHook(t)' => \A f \in Prints[hook] : field[f] # NoCall \/ Has(t, f)'
        BY <1>1, <2>1, <2>3 DEF Storing
      <4>3. call'[t] # NoCall /\ \A i \in 1 .. Len(todo'[t]) : todo'[t][i] = "called" => i = Len(todo'[t])
        BY <2>1, PopHook
      <4>4. QED
        BY <2>2, <3>1, <4>1, <4>2, <4>3 DEF Storing
    <3>2. CASE u # t
      <4>1. todo'[u] = todo[u] /\ (InHook(u)' <=> InHook(u)) /\ \A f : Has(u, f)' <=> Has(u, f)
        BY <2>1, <3>2, PopHook
      <4>2. Storing(u)
        BY <1>1
      <4>3. QED
        BY <2>2, <4>1, <4>2 DEF Storing
    <3>3. QED
      BY <3>1, <3>2
  <2>5. NeverLogsUnset'
    BY <1>1, <2>2 DEF NeverLogsUnset
  <2>6. ~raced' => OneCall'
    BY <1>1, <2>2, <2>3 DEF OneCall
  <2>7. QED
    BY <2>4, <2>5, <2>6 DEF MailboxInv
<1>3. ASSUME NEW f \in Fields, StoreField(t, f)
      PROVE  MailboxInv'
  <2>1. Popped(t) /\ todo[t][1] = f
    BY <1>1, <1>3, DoPops DEF StoreField
  <2>2. /\ UNCHANGED <<hook, called, call>> /\ raced' = (raced \/ called = 1)
        /\ field' = [field EXCEPT ![f] = call[t]]
    BY <1>3 DEF StoreField, calls
  <2>3. call[t] # NoCall /\ InHook(t)
    BY <2>1, PopHook
  <2>4. /\ field'[f] = call[t] /\ \A g \in Fields : g # f => field'[g] = field[g]
        /\ \A g \in Fields : field[g] # NoCall => field'[g] # NoCall
    BY <1>1, <2>2, <2>3 DEF Typed
  <2>5. ASSUME NEW u \in Threads
        PROVE  Storing(u)'
    <3>1. CASE u = t
      <4>1. InHook(t)' => todo'[t][Len(todo'[t])] = "called"
        BY <1>1, <2>1, PopHook DEF Storing
      <4>2. \A g \in Prints[hook] : field'[g] # NoCall \/ Has(t, g)'
        <5>1. \A g \in Prints[hook] : field[g] # NoCall \/ Has(t, g)
          BY <1>1, <2>3 DEF Storing
        <5>2. \A g \in Prints[hook] : g # f /\ Has(t, g) => Has(t, g)'
          BY <2>1, PopHook
        <5>3. QED
          BY <1>1, <2>3, <2>4, <5>1, <5>2
      <4>3. call'[t] # NoCall /\ \A i \in 1 .. Len(todo'[t]) : todo'[t][i] = "called" => i = Len(todo'[t])
        BY <2>1, <2>2, PopHook
      <4>4. QED
        BY <2>2, <3>1, <4>1, <4>2, <4>3 DEF Storing
    <3>2. CASE u # t
      <4>1. todo'[u] = todo[u] /\ (InHook(u)' <=> InHook(u)) /\ \A g : Has(u, g)' <=> Has(u, g)
        BY <2>1, <3>2, PopHook
      <4>2. Storing(u)
        BY <1>1
      <4>3. InHook(u) => \A g \in Prints[hook] : field'[g] # NoCall \/ Has(u, g)
        BY <1>1, <2>4, <4>2 DEF Storing
      <4>4. QED
        BY <2>2, <4>1, <4>2, <4>3 DEF Storing
    <3>3. QED
      BY <3>1, <3>2
  <2>6. NeverLogsUnset'
    BY <1>1, <2>2, <2>4 DEF NeverLogsUnset
  <2>7. ASSUME ~raced'
        PROVE  OneCall'
    <3>1. ~raced /\ called' # 1 /\ OneCall
      BY <1>1, <2>2, <2>7
    <3>2. \A u \in Threads \ {t} : ~InHook(u)'
      BY <2>1, <2>3, <3>1, PopHook DEF OneCall
    <3>3. \A g \in Prints[hook] : field[g] = call[t] \/ Has(t, g)
      BY <2>3, <3>1 DEF OneCall
    <3>4. \A g \in Prints[hook] : g # f /\ Has(t, g) => Has(t, g)'
      BY <2>1, PopHook
    <3>5. \A g \in Prints[hook] : field'[g] = call[t] \/ Has(t, g)'
      BY <1>1, <2>4, <3>3, <3>4
    <3>6. QED
      BY <2>2, <3>1, <3>2, <3>5 DEF OneCall
  <2>8. QED
    BY <2>5, <2>6, <2>7 DEF MailboxInv
<1>4. CASE RaiseFlag(t)
  <2>1. Popped(t) /\ todo[t][1] = "called"
    BY <1>1, <1>4, DoPops DEF RaiseFlag
  <2>2. /\ UNCHANGED <<hook, field, call>> /\ raced' = (raced \/ called = 1) /\ called' = 1
    BY <1>4 DEF RaiseFlag, calls
  <2>3. /\ InHook(t) /\ todo'[t] = <<>> /\ ~InHook(t)'
        /\ \A f : Has(t, f) => f = "called"
    BY <2>1, PopHook
  <2>4. \A f \in Prints[hook] : ~Has(t, f)
    BY <1>1, <2>3 DEF Fields
  <2>5. ASSUME NEW u \in Threads
        PROVE  Storing(u)'
    <3>1. CASE u = t
      <4>1. Len(todo'[t]) = 0
        BY <2>3
      <4>2. QED
        BY <2>3, <3>1, <4>1 DEF Storing
    <3>2. CASE u # t
      <4>1. todo'[u] = todo[u] /\ (InHook(u)' <=> InHook(u)) /\ \A g : Has(u, g)' <=> Has(u, g)
        BY <2>1, <3>2, PopHook
      <4>2. Storing(u)
        BY <1>1
      <4>3. QED
        BY <2>2, <4>1, <4>2 DEF Storing
    <3>3. QED
      BY <3>1, <3>2
  <2>6. NeverLogsUnset'
    <3>1. Storing(t)
      BY <1>1
    <3>2. \A f \in Prints[hook] : field[f] # NoCall
      BY <2>3, <2>4, <3>1 DEF Storing
    <3>3. QED
      BY <2>2, <3>2 DEF NeverLogsUnset
  <2>7. ASSUME ~raced'
        PROVE  OneCall'
    <3>1. ~raced /\ OneCall
      BY <1>1, <2>2, <2>7
    <3>2. \A u \in Threads : ~InHook(u)'
      BY <2>1, <2>3, <3>1, PopHook DEF OneCall
    <3>3. \A f \in Prints[hook] : field[f] = call[t]
      BY <2>3, <2>4, <3>1 DEF OneCall
    <3>4. QED
      BY <2>2, <3>2, <3>3 DEF OneCall
  <2>8. QED
    BY <2>5, <2>6, <2>7 DEF MailboxInv
<1>5. ASSUME NEW h \in {hook} \cup Direct, Call(t, h)
      PROVE  MailboxInv'
  <2>1. /\ todo[t] = <<>> /\ todo' = [todo EXCEPT ![t] = Stores[h]]
        /\ call' = [call EXCEPT ![t] = count + 1]
        /\ raced' = (raced \/ (h = hook /\ \E u \in Threads : InHook(u)))
        /\ UNCHANGED <<hook, called, field>>
    BY <1>5 DEF Call
  <2>2. /\ todo'[t] = Stores[h] /\ call'[t] = count + 1 /\ call'[t] # NoCall
        /\ \A u \in Threads \ {t} : todo'[u] = todo[u] /\ call'[u] = call[u]
    BY <1>1, <2>1 DEF Typed, NoCall
  <2>3. \A u \in Threads \ {t} : (InHook(u)' <=> InHook(u)) /\ \A f : Has(u, f)' <=> Has(u, f)
    BY <2>2 DEF InHook, Has
  <2>4. NeverLogsUnset'
    BY <1>1, <2>1 DEF NeverLogsUnset
  <2>5. CASE h = hook
    <3>1. MailboxProgram(Stores[h], Prints[hook])
      BY <1>1, <2>5, MailboxPrograms
    <3>2. PICK s : s = Stores[h]
      OBVIOUS
    <3>3. /\ s \in Seq(Ops) /\ Len(s) \in Nat /\ Len(s) >= 1 /\ s[Len(s)] = "called"
          /\ DOMAIN s = 1 .. Len(s)
          /\ \A i \in 1 .. Len(s) - 1 : s[i] # "called"
          /\ \A f \in Prints[hook] : \E i \in 1 .. Len(s) : s[i] = f
      BY <3>1, <3>2, LenProperties DEF MailboxProgram, Fields
    <3>4. \A f \in Prints[hook] : Has(t, f)'
      BY <2>2, <3>2, <3>3 DEF Has
    <3>5. \A i \in 1 .. Len(s) : s[i] = "called" => i = Len(s)
      <4>1. PICK n : n = Len(s)
        OBVIOUS
      <4>2. n \in Nat /\ \A i \in 1 .. n - 1 : s[i] # "called"
        BY <3>3, <4>1
      <4>3. \A i \in 1 .. n : i \in 1 .. n - 1 \/ i = n
        BY <4>2
      <4>4. QED
        BY <4>1, <4>2, <4>3
    <3>6. Storing(t)'
      BY <2>1, <2>2, <3>2, <3>3, <3>4, <3>5 DEF Storing
    <3>7. \A u \in Threads \ {t} : Storing(u)'
      BY <1>1, <2>1, <2>2, <2>3 DEF Storing
    <3>8. ~raced' => OneCall'
      BY <1>1, <2>1, <2>3, <2>5, <3>4 DEF OneCall
    <3>9. QED
      BY <2>4, <3>6, <3>7, <3>8 DEF MailboxInv
  <2>6. CASE h \in Direct
    <3>1. todo'[t] = DirectLog
      BY <2>2, <2>6, DirectPrograms, WatchedAssumption
    <3>2. ~InHook(t)' /\ \A i \in 1 .. Len(DirectLog) : DirectLog[i] # "called"
      BY <3>1 DEF InHook, DirectLog, Fields
    <3>3. Storing(t)'
      BY <2>2, <3>1, <3>2 DEF Storing
    <3>4. \A u \in Threads \ {t} : Storing(u)'
      BY <1>1, <2>1, <2>2, <2>3 DEF Storing
    <3>5. ~raced' => OneCall'
      BY <1>1, <2>1, <2>2, <2>3, <3>2 DEF OneCall
    <3>6. QED
      BY <2>4, <3>3, <3>4, <3>5 DEF MailboxInv
  <2>7. QED
    BY <2>5, <2>6
<1>6. QED
  BY <1>2, <1>3, <1>4, <1>5 DEF HookSteps

(* Everything else leaves the hook's threads alone. *)
LEMMA MailboxKept ==
  ASSUME Inv, Next
  PROVE  MailboxInv'
<1>1. /\ Module \in Actors /\ Listener \in Actors /\ Typed
      /\ \A t \in Threads : t \in Actors /\ t # Listener /\ t # Module
  BY WritersAreActors, ThreadsAssumption DEF Inv, Writers, Actors
<1>2. CASE ListenerThread
  <2>1. \A t \in Threads : todo'[t] = todo[t]
    <3>1. CASE Popped(Listener)
      BY <1>1, <3>1 DEF Popped
    <3>2. CASE poll \/ todo' = todo
      BY <1>1, <3>2 DEF poll, Typed
    <3>3. QED
      BY <1>1, <1>2, <3>1, <3>2, DoPops, LogsPop DEF ListenerThread, ReadField, LowerFlag, NextPoll, Do
  <2>2. UNCHANGED <<hook, field, call, raced>> /\ (called' = called \/ called' = 0)
    BY <1>1, <1>2, LogsPop DEF ListenerThread, poll, ReadField, LowerFlag, NextPoll, calls, mailbox
  <2>3. QED
    BY <2>1, <2>2, MailboxAside
<1>3. CASE module_start \/ module_stop \/ ModuleSteps
  <2>1. \A t \in Threads : todo'[t] = todo[t]
    <3>1. CASE Popped(Module) \/ \E ops : Grown(Module, ops)
      BY <1>1, <3>1 DEF Popped, Grown
    <3>2. CASE module_start \/ module_stop
      BY <1>1, <3>2 DEF module_start, module_stop, Typed
    <3>3. CASE StartListener
      <4>1. CASE listener' = "running"
        BY <1>1, <3>3, <4>1, ListenerStarts
      <4>2. CASE Then(Module, Texts)
        BY <1>1, <3>1, <3>3, <4>2, ThenGrows, Programs DEF StartListener
      <4>3. QED
        BY <3>3, <4>1, <4>2 DEF StartListener
    <3>4. CASE sceKernelCreateMutex \/ SetHooks
      BY <1>1, <3>1, <3>4, DoPops, ThenGrows, Programs DEF sceKernelCreateMutex, SetHooks, Do
    <3>5. CASE taiHookRelease \/ sceKernelWaitThreadEnd \/ sceKernelDeleteThread \/ StopReturns
               \/ Logs(Module)
      BY <1>1, <3>1, <3>5, DoPops, LogsPop DEF taiHookRelease, sceKernelWaitThreadEnd,
         sceKernelDeleteThread, StopReturns
    <3>6. QED
      BY <1>3, <3>2, <3>3, <3>4, <3>5 DEF ModuleSteps
  <2>2. UNCHANGED mailbox /\ call' = call
    BY <1>1, <1>3, LogsPop DEF ModuleSteps, module_start, module_stop, StartListener,
       sceKernelCreateMutex, SetHooks, taiHookRelease, sceKernelWaitThreadEnd,
       sceKernelDeleteThread, StopReturns, calls
  <2>3. QED
    BY <2>1, <2>2, MailboxAside DEF mailbox
<1>4. QED
  BY <1>2, <1>3, MailboxThread DEF Next

-----------------------------------------------------------------------------
(* The theorems. *)

(* The invariant holds initially, and every step keeps it.                 *)
LEMMA InitInv ==
  ASSUME Init
  PROVE  Inv
<1>1. /\ \A a \in Actors : todo[a] = <<>>
      /\ Module \in Actors /\ Listener \in Actors /\ \A t \in Threads : t \in Actors
  BY DEF Init, Actors
<1>2. <<>> \in Seq(Ops) /\ Len(<<>>) = 0 /\ DOMAIN <<>> = {}
  BY EmptySeq
<1>3. Typed
  BY <1>2 DEF Init, Typed, NoCall
<1>4. \A t \in Threads : ~InHook(t) /\ Storing(t)
  BY <1>1, <1>2 DEF InHook, Storing
<1>5. NeverLogsUnset /\ OneCall
  BY <1>4 DEF Init, NeverLogsUnset, OneCall
<1>6. Listening
  BY <1>1, <1>2 DEF Init, Listening, Has
<1>7. Turns
  BY <1>1, <1>2 DEF Init, Turns
<1>8. LogKept
  BY <1>1, <1>2 DEF Init, LogKept, Bracketed, Holds, Writers
<1>9. QED
  BY <1>3, <1>4, <1>5, <1>6, <1>7, <1>8 DEF Inv

(* Every step keeps the invariant, ... *)
LEMMA StepInv ==
  ASSUME Inv, [Next]_vars
  PROVE  Inv'
<1>1. CASE UNCHANGED vars
  BY <1>1 DEF vars, Inv, Typed, Storing, InHook, Has, NeverLogsUnset, OneCall, Listening, Turns,
              LogKept, Bracketed, Holds
<1>2. CASE Next
  <2>1. LogKept'
    BY <1>2, LogKeptThread, LogKeptListener, LogKeptModule DEF Next
  <2>2. Typed' /\ Turns' /\ Listening' /\ MailboxInv'
    BY <1>2, TypedKept, TurnsKept, ListeningKept, MailboxKept
  <2>3. QED
    BY <2>1, <2>2 DEF Inv, MailboxInv
<1>3. QED
  BY <1>1, <1>2

(* ... which holds in every state. *)
LEMMA Invariance == Spec => []Inv
  BY InitInv, StepInv, PTL DEF Spec

(* A raised flag finds every variable that is printed stored, however many *)
(* threads are in hooks: the hooks raise the flag last.                    *)
THEOREM LoggerNeverUnset == Spec => []NeverLogsUnset
<1>1. Inv => NeverLogsUnset
  BY DEF Inv
<1>2. QED
  BY <1>1, Invariance, PTL

(* An entry of the log is of one call, the last one, unless calls met.     *)
THEOREM LoggerEntryWhole == Spec => []EntryWhole
<1>1. ASSUME Inv
      PROVE  EntryWhole
  <2>1. SUFFICES ASSUME ~raced, Reading
                 PROVE  \A f \in DOMAIN entry : /\ entry[f] = field[f]
                                                /\ \A g \in Prints[hook] : field[f] = field[g]
    BY DEF EntryWhole
  <2>2. PICK s : s = todo[Listener]
    OBVIOUS
  <2>3. s # <<>> /\ Head(s) \in {"read", "format", "write", "close", "clear"} /\ s \in Seq(Ops)
    BY <1>1, <2>1, <2>2, WritersAreActors DEF Reading, Next_op, Inv, Typed, Writers
  <2>4. s[1] # "next" /\ Len(s) \in Nat /\ Len(s) >= 1
    BY <2>3, EmptySeq
  <2>5. DOMAIN entry # {} => Has(Listener, "clear")
    <3>1. /\ s[Len(s)] = "close" => DOMAIN entry = {}
          /\ s[Len(s)] = "next" /\ Len(s) > 1 => Has(Listener, "clear")
          /\ s[Len(s)] \in {"next", "close"}
      BY <1>1, <2>2, <2>3, ListeningEnds
    <3>2. QED
      BY <2>4, <3>1
  <2>6. Has(Listener, "clear") => called = 1 /\ \A f \in DOMAIN entry : entry[f] = field[f]
    BY <1>1, <2>1, <2>2, <2>3, ListeningEnds
  <2>7. DOMAIN entry \subseteq Prints[hook]
    BY <1>1 DEF Inv, Typed
  <2>8. called = 1 => \A f, g \in Prints[hook] : field[f] = field[g]
    BY <1>1, <2>1 DEF Inv, OneCall
  <2>9. QED
    BY <2>5, <2>6, <2>7, <2>8
<1>2. QED
  BY <1>1, Invariance, PTL

(* Without a hook that writes the log itself, the module and the listener  *)
(* take turns with the log, its descriptor and its buffer.                 *)
THEOREM LoggerLogExclusive == Spec => []LogExclusive
<1>1. ASSUME Inv
      PROVE  LogExclusive
  <2>1. SUFFICES ASSUME ~direct
                 PROVE  /\ open \subseteq {fd}
                        /\ \A a \in Actors :
                             /\ Next_op(a, "write") \/ Next_op(a, "puts") => fd = -1 \/ fd \in open
                             /\ Next_op(a, "write") => buffer = a
    BY DEF LogExclusive
  <2>2. ASSUME NEW a \in Actors, NEW op, Next_op(a, op)
        PROVE  todo[a] # <<>> /\ todo[a][1] = op /\ Len(todo[a]) >= 1 /\ Len(todo[a]) \in Nat
    <3>1. PICK s : s = todo[a]
      OBVIOUS
    <3>2. s \in Seq(Ops) /\ s # <<>> /\ Head(s) = op
      BY <1>1, <2>2, <3>1 DEF Inv, Typed, Next_op
    <3>3. s[1] = op /\ Len(s) \in Nat /\ Len(s) >= 1
      BY <3>2, EmptySeq
    <3>4. QED
      BY <3>1, <3>2, <3>3
  <2>3. ASSUME NEW a \in Actors, NEW op \in {"write", "puts"}, Next_op(a, op)
        PROVE  a \in Writers /\ Holds(a)
    <3>1. todo[a] # <<>> /\ todo[a][1] = op /\ 1 \in 1 .. Len(todo[a])
      BY <2>2, <2>3
    <3>2. a \notin Threads
      <4>1. op \notin Fields \cup {"call", "called"}
        BY <2>3 DEF Fields
      <4>2. QED
        BY <1>1, <2>1, <3>1, <4>1 DEF Inv, LogKept
    <3>3. QED
      BY <2>3, <3>1, <3>2 DEF Actors, Writers, Holds, Needing
  <2>4. open \subseteq {fd} /\ \A a \in Writers : Holds(a) => fd = -1 \/ fd \in open
    BY <1>1, <2>1 DEF Inv, LogKept
  <2>5. \A a \in Writers : todo[a] # <<>> /\ todo[a][1] = "write" => buffer = a
    BY <1>1, <2>1 DEF Inv, LogKept
  <2>6. QED
    BY <2>2, <2>3, <2>4, <2>5
<1>2. QED
  BY <1>1, Invariance, PTL
=============================================================================
