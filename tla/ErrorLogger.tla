----------------------------- MODULE ErrorLogger -----------------------------
(***************************************************************************)
(* error_logger/error_logger.c: hooks in the shell leave what they saw in  *)
(* global variables and raise a flag; ListenerThread polls the flags and   *)
(* writes the log.  Nothing protects the variables, the descriptor of the  *)
(* log or sprintfBuffer, and two of the hooks write the log themselves.    *)
(* An actor (a thread in a hook, the listener, the module) has a sequence  *)
(* of operations left to do; a step does the first.  The calls of one hook *)
(* with variables, and of the hooks that write the log, are followed.  A   *)
(* field stands for the variables a hook stores together; its value is the *)
(* call that stored it.                                                    *)
(* Stores are seen by all threads at once and in program order, which the  *)
(* plain ints of the code have no barriers for.                            *)
(***************************************************************************)
EXTENDS Integers, Sequences, FiniteSets

CONSTANTS
    Threads,    \* threads that call hooked functions
    Watched,    \* the hooks with variables of which one is followed
    Direct,     \* the hooks that write the log and are followed
    MaxFiles,   \* open files the system allows
    MaxCalls    \* calls of hooked functions, a bound

ASSUME BoundsAssumption == MaxFiles \in Nat \ {0} /\ MaxCalls \in Nat

Listener == "ListenerThread"
Module   == "module"
Actors   == Threads \cup {Listener, Module}

ASSUME ThreadsAssumption == Listener \notin Threads /\ Module \notin Threads

(* Two functions put together. *)
f ++ g == [x \in DOMAIN f \cup DOMAIN g |-> IF x \in DOMAIN f THEN f[x] ELSE g[x]]

-----------------------------------------------------------------------------
(* What each hook does: "call" is the original function, "called" raises   *)
(* the flag, the rest stores a field.                                      *)

DirectLog == <<"call", "open", "format", "write", "close">>

Stores_Errors ==
    [sceErrorGetExternalString |-> <<"call", "args", "called">>,
     sceKernelCreateThread     |-> <<"call">>,
     param_sfo_verifySpsfo     |-> <<"call", "args", "res", "called">>,
     sceKernelLoadModule       |-> <<"call">>,
     sceKernelLoadStartModule  |-> <<"call">>]

Stores_ParamSfo ==
    [param_sfo_verifySpsfo_shell |-> <<"call", "args", "res", "called">>,
     proc_gc_param_sfo_83F2CEA0  |-> <<"call", "args", "res", "called">>,
     proc_gc_param_sfo_83F6B554  |-> DirectLog,
     proc_gc_param_sfo_83F74B30  |-> DirectLog]

(* Mutant: the flag is raised before the fields are stored. *)
Bug_FlagFirst ==
    [proc_83F2407A |-> <<"call", "args", "res", "called">>,
     proc_83F25592 |-> <<"ctx", "call", "args", "res", "called">>,
     proc_83F24534 |-> <<"ctx", "call", "called", "args", "res">>]

Stores_Context ==
    [proc_83F2407A |-> <<"call", "args", "res", "called">>,
     proc_83F25592 |-> <<"ctx", "call", "args", "res", "called">>,
     proc_83F24534 |-> <<"ctx", "call", "args", "res", "called">>]

Stores_Context2 ==
    [proc_83F24D96 |-> <<"ctx", "call", "args", "res", "called">>,
     proc_83F258F8 |-> <<"args", "ctx", "call", "res", "called">>,
     proc_83F27424 |-> <<"call", "called", "args", "res">>]

Stores_Queue ==
    [proc_8430F028               |-> <<"args", "ctx", "call", "stack", "res", "called">>,
     proc_83F20D36               |-> <<"call", "called", "args", "res", "ctx">>,
     queue_worker_entry2_834DED94 |-> <<"call", "args", "ctx", "res", "called">>]

Stores_Graphics ==
    [scePafGraphics_b976a154 |-> <<"call", "ctx", "called">>,
     scePafGraphics_b2eca849 |-> <<"call", "ctx", "called">>,
     scePafGraphics_7c8b2a63 |-> <<"call", "ctx", "called">>,
     scePafGraphics_a97584eb |-> <<"call", "called">>,
     scePafGraphics_c84832a2 |-> <<"call", "stack", "called">>,
     scePafGraphics_b228a257 |-> <<"call", "called">>]

Stores_Others ==
    [proc_83F23D5C          |-> <<"call", "stack", "called">>,
     proc_83F275CC          |-> <<"call", "res", "called">>,
     proc_83F10C5A          |-> <<"call", "res", "called">>,
     scePafMisc_b9fb9bd6    |-> <<"call", "args", "res", "called">>,
     sceAppMgrGameDataMount |-> <<"call", "res", "called">>]

Stores == Stores_Errors ++ Stores_ParamSfo ++ Stores_Context ++ Stores_Context2
            ++ Stores_Queue ++ Stores_Graphics ++ Stores_Others

(* The fields ListenerThread prints for each hook it polls. *)
Prints_1 ==
    [proc_83F258F8 |-> {"args", "ctx", "res"}, proc_83F27424 |-> {"args", "res"},
     proc_83F2407A |-> {"args", "res"},        proc_83F25592 |-> {"args", "ctx", "res"},
     proc_83F24534 |-> {"args", "ctx", "res"}, proc_83F24D96 |-> {"args", "ctx", "res"}]

Prints_2 ==
    [proc_8430F028               |-> {"args", "ctx", "res"},
     queue_worker_entry2_834DED94 |-> {"args", "ctx", "res"},
     param_sfo_verifySpsfo_shell |-> {"args", "res"},
     proc_gc_param_sfo_83F2CEA0  |-> {"args", "res"},
     param_sfo_verifySpsfo       |-> {"args", "res"},
     proc_83F20D36               |-> {"args", "ctx", "res"}]

Prints_3 ==
    [scePafGraphics_b976a154 |-> {"ctx"}, scePafGraphics_b2eca849 |-> {"ctx"},
     scePafGraphics_7c8b2a63 |-> {"ctx"}, scePafGraphics_a97584eb |-> {},
     scePafGraphics_c84832a2 |-> {},      scePafGraphics_b228a257 |-> {}]

Prints_4 ==
    [scePafMisc_b9fb9bd6 |-> {"args", "res"}, proc_83F23D5C |-> {},
     proc_83F275CC |-> {"res"}, proc_83F10C5A |-> {"res"},
     sceAppMgrGameDataMount |-> {"res"}]

Prints == Prints_1 ++ Prints_2 ++ Prints_3 ++ Prints_4

(* The hooks initialize_all_hooks sets. *)
Installs ==
    {"param_sfo_verifySpsfo_shell", "proc_gc_param_sfo_83F2CEA0", "proc_gc_param_sfo_83F6B554",
     "proc_gc_param_sfo_83F74B30", "proc_83F258F8", "proc_83F24534", "sceAppMgrGameDataMount",
     "scePafGraphics_b976a154", "scePafGraphics_b228a257", "param_sfo_verifySpsfo"}

LoggingHooks == {"proc_gc_param_sfo_83F6B554", "proc_gc_param_sfo_83F74B30"}
Mailboxes    == Installs \ LoggingHooks

ASSUME WatchedAssumption == Watched \subseteq Mailboxes /\ Direct \subseteq LoggingHooks

-----------------------------------------------------------------------------

VARIABLES
    hook,       \* the hook whose variables are followed
    todo,       \* what each actor still has to do
    count,      \* the number of calls so far
    call,       \* the number of each thread's call
    installed,  \* the hooks that are set
    called,     \* the flag of hook
    field,      \* the variables of hook
    entry,      \* what the listener has read of them
    fd,         \* global_log_fd
    open,       \* the system's view: the open descriptors
    buffer,     \* whose text sprintfBuffer holds
    phase,      \* of the module
    listener,   \* the listener thread
    raced,      \* history: two calls of hook, or a call and the listener, met
    direct      \* history: a hook wrote the log itself

vars == <<hook, todo, count, call, installed, called, field, entry, fd, open,
          buffer, phase, listener, raced, direct>>

calls   == <<count, call, installed, direct>>
mailbox == <<hook, called, field, entry, raced>>
log     == <<fd, open, buffer>>
module  == <<phase, listener>>

NoCall == 0
Fields == {"args", "ctx", "stack", "res"}

Init ==
    /\ hook \in Watched
    /\ todo = [a \in Actors |-> <<>>]
    /\ count = 0 /\ call = [t \in Threads |-> NoCall]
    /\ installed = {}
    /\ called = 0 /\ field = [f \in Fields |-> NoCall] /\ entry = <<>>
    /\ fd = 0 /\ open = {} /\ buffer = "none"
    /\ phase = "loaded" /\ listener = "none"
    /\ raced = FALSE /\ direct = FALSE

Next_op(a, op) == todo[a] # <<>> /\ Head(todo[a]) = op
Then(a, ops) == todo' = [todo EXCEPT ![a] = ops \o Tail(@)]
Do(a, op) == Next_op(a, op) /\ Then(a, <<>>)

-----------------------------------------------------------------------------
(* The log.  Opening it overwrites the descriptor, closing it leaves the   *)
(* descriptor behind.                                                      *)

open_global_log(a) ==
    /\ Do(a, "open")
    /\ \/ /\ Cardinality(open) < MaxFiles
          /\ fd' = CHOOSE d \in 1..MaxFiles : d \notin open
          /\ open' = open \cup {fd'}
       \/ fd' = -1 /\ UNCHANGED open
    /\ UNCHANGED <<calls, mailbox, buffer, module>>

close_global_log(a) ==
    /\ Do(a, "close")
    /\ open' = open \ {fd}
    /\ UNCHANGED <<calls, mailbox, fd, buffer, module>>

(* The text is put together in sprintfBuffer ... *)
sceClibSnprintf(a) ==
    /\ Do(a, "format")
    /\ buffer' = a
    /\ UNCHANGED <<calls, mailbox, fd, open, module>>

(* ... and written; FILE_WRITE takes a constant text. *)
FILE_WRITE(a) ==
    /\ Do(a, "write") \/ Do(a, "puts")
    /\ UNCHANGED <<calls, mailbox, log, module>>

Logs(a) == open_global_log(a) \/ sceClibSnprintf(a) \/ FILE_WRITE(a) \/ close_global_log(a)

Texts     == <<"open", "puts", "close">>
Formatted == <<"open", "format", "write", "close">>

-----------------------------------------------------------------------------
(* A hooked function is called. *)

(* A thread that still has something to store is in the followed hook. *)
InHook(t) == \E i \in DOMAIN todo[t] : todo[t][i] \in Fields \cup {"called"}

Call(t, h) ==
    /\ todo[t] = <<>> /\ h \in installed /\ count < MaxCalls
    /\ todo' = [todo EXCEPT ![t] = Stores[h]]
    /\ count' = count + 1 /\ call' = [call EXCEPT ![t] = count']
    /\ raced' = (raced \/ (h = hook /\ \E u \in Threads : InHook(u)))
    /\ direct' = (direct \/ h \in Direct)
    /\ UNCHANGED <<hook, installed, called, field, entry, log, module>>

TAI_CONTINUE(t) ==
    /\ Do(t, "call")
    /\ UNCHANGED <<calls, mailbox, log, module>>

StoreField(t, f) ==
    /\ Do(t, f)
    /\ field' = [field EXCEPT ![f] = call[t]]
    /\ raced' = (raced \/ called = 1)
    /\ UNCHANGED <<calls, hook, called, entry, log, module>>

RaiseFlag(t) ==
    /\ Do(t, "called")
    /\ called' = 1
    /\ raced' = (raced \/ called = 1)
    /\ UNCHANGED <<calls, hook, field, entry, log, module>>

HookSteps(t) ==
    \/ \E h \in {hook} \cup Direct : Call(t, h)
    \/ TAI_CONTINUE(t)
    \/ \E f \in Fields : StoreField(t, f)
    \/ RaiseFlag(t)
    \/ Logs(t)

-----------------------------------------------------------------------------
(* The listener. *)

(* Mutant: the flag is lowered before the variables are read. *)
Bug_LowersFirst == <<"clear", "open", "read", "format", "write", "close", "next">>

Serve == <<"open", "read", "format", "write", "close", "clear", "next">>

poll ==
    /\ listener = "running" /\ todo[Listener] = <<>> /\ called = 1
    /\ todo' = [todo EXCEPT ![Listener] = Serve]
    /\ entry' = <<>>
    /\ UNCHANGED <<calls, hook, called, field, raced, log, module>>

(* The arguments of sceClibSnprintf are read one by one. *)
ReadField ==
    /\ Next_op(Listener, "read")
    /\ IF DOMAIN entry = Prints[hook]
       THEN Then(Listener, <<>>) /\ UNCHANGED entry
       ELSE /\ \E f \in Prints[hook] \ DOMAIN entry : entry' = entry ++ [x \in {f} |-> field[x]]
            /\ UNCHANGED todo
    /\ UNCHANGED <<calls, hook, called, field, raced, log, module>>

LowerFlag ==
    /\ Do(Listener, "clear")
    /\ called' = 0
    /\ UNCHANGED <<calls, hook, field, entry, raced, log, module>>

(* Mutant: the loop is left once a call was logged. *)
Bug_Breaks ==
    /\ Do(Listener, "next")
    /\ listener' = "ended"
    /\ UNCHANGED <<calls, mailbox, log, phase>>

NextPoll ==
    /\ Do(Listener, "next")
    /\ UNCHANGED <<calls, mailbox, log, module>>

ListenerThread == poll \/ ReadField \/ LowerFlag \/ NextPoll \/ Logs(Listener)

-----------------------------------------------------------------------------
(* module_start and module_stop. *)

(* Mutant: the listener is there before the hooks are reported. *)
Bug_ListenerFirst ==
    Texts \o <<"mutex", "listener", "set">> \o Formatted \o Formatted

(* initialize_all_hooks: the mutex, the hooks, their report, the table of  *)
(* segments and its print, the listener.                                   *)
initialize_all_hooks ==
    Texts \o <<"mutex", "set">> \o Formatted \o Formatted \o <<"listener">>

module_start ==
    /\ phase = "loaded" /\ phase' = "started"
    /\ todo' = [todo EXCEPT ![Module] = initialize_all_hooks]
    /\ UNCHANGED <<calls, mailbox, log, listener>>

(* A mutex that cannot be created and a module that is not found are       *)
(* logged; a hook may fail to be set.                                      *)
sceKernelCreateMutex ==
    /\ Next_op(Module, "mutex")
    /\ Then(Module, <<>>) \/ Then(Module, Texts)
    /\ UNCHANGED <<calls, mailbox, log, module>>

SetHooks ==
    /\ Next_op(Module, "set")
    /\ Then(Module, <<>>) \/ Then(Module, Formatted)
    /\ installed' \in SUBSET ({hook} \cup Direct)
    /\ UNCHANGED <<count, call, direct, mailbox, log, module>>

StartListener ==
    /\ Next_op(Module, "listener")
    /\ \/ /\ listener' = "running"
          /\ todo' = [todo EXCEPT ![Module] = Tail(@), ![Listener] = Texts]
       \/ listener' = "failed" /\ Then(Module, Texts)
    /\ UNCHANGED <<calls, mailbox, log, phase>>

deinitialize_all_hooks == <<"release", "join", "delete", "stopped">>

module_stop ==
    /\ phase = "started" /\ todo[Module] = <<>> /\ phase' = "stopping"
    /\ todo' = [todo EXCEPT ![Module] = deinitialize_all_hooks]
    /\ UNCHANGED <<calls, mailbox, log, listener>>

taiHookRelease ==
    /\ Do(Module, "release")
    /\ installed' = {}
    /\ UNCHANGED <<count, call, direct, mailbox, log, module>>

(* The wait has a timeout of 0 ... *)
sceKernelWaitThreadEnd ==
    /\ Do(Module, "join")
    /\ UNCHANGED <<calls, mailbox, log, module>>

(* ... and a thread that runs is not deleted, which nobody looks at. *)
sceKernelDeleteThread ==
    /\ Do(Module, "delete")
    /\ listener' = IF listener = "ended" THEN "deleted" ELSE listener
    /\ UNCHANGED <<calls, mailbox, log, phase>>

StopReturns ==
    /\ Do(Module, "stopped")
    /\ phase' = "stopped"
    /\ UNCHANGED <<calls, mailbox, log, listener>>

ModuleSteps ==
    \/ sceKernelCreateMutex \/ SetHooks \/ StartListener
    \/ taiHookRelease \/ sceKernelWaitThreadEnd \/ sceKernelDeleteThread \/ StopReturns
    \/ Logs(Module)

Next ==
    \/ \E t \in Threads : HookSteps(t)
    \/ ListenerThread
    \/ module_start \/ module_stop \/ ModuleSteps

(* The listener and a call of module_start or module_stop run; a hooked    *)
(* function may never be called and may never return.                      *)
Spec == Init /\ [][Next]_vars
FairSpec == Spec /\ WF_vars(ListenerThread) /\ WF_vars(ModuleSteps)

-----------------------------------------------------------------------------

Ops == Fields \cup {"call", "called", "open", "format", "write", "puts", "close", "read", "clear",
                    "next", "mutex", "set", "listener", "release", "join", "delete", "stopped"}

(* Type invariant. *)
TypeOK ==
    /\ hook \in Watched
    /\ todo \in [Actors -> Seq(Ops)]
    /\ count \in 0..MaxCalls /\ call \in [Threads -> 0..count]
    /\ installed \subseteq {hook} \cup Direct
    /\ called \in {0, 1} /\ field \in [Fields -> 0..count]
    /\ DOMAIN entry \subseteq Prints[hook]
    /\ fd \in -1..MaxFiles /\ open \subseteq 1..MaxFiles
    /\ buffer \in Actors \cup {"none"}
    /\ phase \in {"loaded", "started", "stopping", "stopped"}
    /\ listener \in {"none", "running", "failed", "ended", "deleted"}
    /\ raced \in BOOLEAN /\ direct \in BOOLEAN

(* A raised flag finds every variable that the listener prints stored by   *)
(* some call, in whichever order the hook stores them around the original  *)
(* call.                                                                   *)
NeverLogsUnset == called = 1 => \A f \in Prints[hook] : field[f] # NoCall

(* What the listener has read, until it lowers the flag, is of one call,   *)
(* and of the last one, so that lowering it loses no call: unless a call   *)
(* met another, or stored while the flag was up.                           *)
Reading == \E op \in {"read", "format", "write", "close", "clear"} : Next_op(Listener, op)
EntryWhole ==
    ~raced /\ Reading => \A f \in DOMAIN entry : entry[f] = field[f]
                         /\ \A g \in Prints[hook] : field[f] = field[g]

(* As long as no hook writes the log itself, no descriptor is lost, and a  *)
(* writer finds its descriptor open and its own text in sprintfBuffer,     *)
(* although the module, the listener and sprintfBuffer share no mutex.     *)
LogExclusive ==
    ~direct =>
        /\ open \subseteq {fd}
        /\ \A a \in Actors :
             /\ Next_op(a, "write") \/ Next_op(a, "puts") => fd = -1 \/ fd \in open
             /\ Next_op(a, "write") => buffer = a

(* A raised flag is lowered by a poll in the end, also after module_stop,  *)
(* as long as the listener runs.  (The call that raised it can have been   *)
(* overwritten, or printed with the one before: see EntryWhole.)           *)
Served == (called = 1 /\ listener = "running") ~> called = 0
=============================================================================
