# Formal models of psvemmc

psvemmc dumps the block devices of a PS Vita: a kernel **driver** reads sectors
and clusters, a **server** on the Vita offers the driver's calls over TCP, and a
Windows **client** dumps one partition to a file.  The driver and a second
module, **error_logger**, also carry hooks for research on the system.

This directory holds TLA+ models of that code, TLC configurations that check
them on small instances, and TLAPS proofs of what matters most about them for
all values of their parameters.  `PROJECT.json` maps every definition to the
lines it stands for.

## 1. The system

### Inventory

| part | state | operations | interacts with |
|---|---|---|---|
| driver API (`driver/psvemmc.c`) | contexts found for emmc, gc, ms; one cluster pool (geometry, flag, uid, pointer) | `module_start`, `module_stop`, `psvemmcInitialize`, `psvemmcDeinitialize`, reads and (unimplemented) writes of sectors and clusters | called by the server; memory manager, SD and memory stick stacks |
| server (`server/src/main.c`) | two sockets; its own cluster pool, a copy of the driver's code | `init_net`, `deinit_net`, accept loop, command loop, sixteen handlers | client over TCP; driver |
| client (`client/psvemmc`) | socket, position in the dump, output file | connect, ping, read of the partition table, init, clusters, sectors, deinit, close | server over TCP |
| shared logs (`driver/glog.c`, `sdstor_log.c`) | descriptor, reference count, mutex | open, write, close; init, deinit | every hook; module_start and module_stop |
| debug channel (`driver/net.c`) | listener thread, two sockets, mutex, connection flag, message buffer | accept and poll, `send_message_to_client`, `init_net`, `deinit_net` | hooks; module_start and module_stop; a debug client.  `ENABLE_NETWORK` only |
| hooks (`driver/hooks_*.c`) | guards against reentry, gates, kept errors, counters, rings of last calls | one function per hook, around the original | the kernel's threads; the log, whose own I/O passes the hooks again.  `ENABLE_REVERSING` only |
| hook lists (`driver/debug.c`, `error_logger.c`) | several hundred hook and injection ids | set, report, release | module_start and module_stop; taiHEN |
| module table, quicksort, stack trace | a sorted table of segments | build, sort, look up an address, print | hooks, error_logger |
| error_logger | globals that hooks fill and flag, a log descriptor, a text buffer, a listener thread | hooks store or log, listener polls and prints, start, stop | SceShell's threads |

### What is hard in it

* **Failure in the middle.**  Each pool is set up by two system calls and torn
  down by one; any can fail.  There are two pools with two flags.
* **Ends of processes.**  Client and server may end anywhere; the driver and its
  pool outlive the server, the server and its pool outlive the client.
* **TCP is a stream.**  Requests and most headers are read with a single receive,
  and an error must not leave the two sides at different places of the stream.
* **Errors that do not arrive.**  The client keeps the error fields in unsigned
  integers and compares them with `< 0`.
* **Waiting.**  One server thread, no timeouts, a second client in the backlog;
  receive loops that do not know the end of a stream.
* **Threads in the driver and in the shell.**  Hooks run on any thread.  The log,
  the debug channel, the guards and gates, the rings, the module table and the
  globals of error_logger are shared, mostly without a lock, and the one mutex of
  the debug channel is taken with a timeout of 0 whose expiry nobody looks at.
* **Hooks that observe themselves.**  Reports are files on the file system that
  the hooks watch, so that writing one calls the hooks from inside a hook.
* **Lists kept by hand.**  Setting, reporting and releasing a hook are three
  places of two files.

`PROJECT.json`, "hazards", lists these at their lines with the properties that
cover them, or why none does yet.

### What makes each part correct

* driver: a pool marked as set up has its own block of exactly the size that
  transfers move; no kernel memory is forgotten except by a failed system call.
* server: both pools stay in step under any requests; no part of a request is
  taken for a command; no socket and no client keeps the server.
* client and whole: a dump that runs to its end is the partition, and went
  through a pool of its own; without faults every dump succeeds.
* log: while anyone has it open it is open, and afterwards closed.
* debug channel: a send finds an accepted, open socket and returns; no socket is
  lost; no message gets into another.
* hooks: no guard and no gate stays set; a report does not report itself; an
  error inside the followed operation is kept, and by the call that made it; the
  rings hold the last calls and nothing else is overwritten.
* hook lists: what was set is released, and the log tells what is set.
* module table: an address is found exactly if a module has it; the sort sorts.
* error_logger: what is logged was stored by a hook, by one call; a raised flag is
  seen by a poll.

## 2. Modules

| module | models |
|---|---|
| `Protocol` | commands and message layouts (`main.c` 129-382, `EmmcClient.h`) |
| `ClusterPool` | the pool of one cluster that driver and server each have; instantiated twice |
| `Driver` | `psvemmc.c`; a specification of its own (`DriverSpec`) and the calls that `Server` makes |
| `TcpLink` | external: a TCP connection per client as the code uses it |
| `Server` | `main.c`; calls `Driver`, uses `ClusterPool` and `TcpLink` |
| `AnyClient` | `Server` with clients that send any requests in any order |
| `DumpGeometry` | the arithmetic of `dump_partition`, as operators |
| `PartitionPlan` | that arithmetic for every partition, against a plain copy |
| `Client` | `psvemmc.cpp`: one run of the client program |
| `EmmcProxy` | `Client`, `Server` and `Driver` together, with faults |
| `DumpSpec` | abstract specification of a dump, which `EmmcProxy` implements |
| `GlobalLog` | `glog.c` (and its copy `sdstor_log.c`) |
| `DebugChannel` | `net.c`: listener, senders, start and stop of the module, a client that goes away |
| `VfsHooks` | `hooks_vfs_ops.c`, `hooks_vfs_funcs.c`: guards against reentry |
| `IoHooks` | `hooks_misc.c`: gates, kept errors, reports, by family of hook |
| `DeviceRings` | `hooks_misc.c`: the rings of last calls |
| `HookTable` | the hook lists of `debug.c` and `error_logger.c`, name by name |
| `SegmentTable` | `mtable.c` and the lookups of `stacktrace.c` |
| `Quicksort` | `qsort.c`, as functions on sequences |
| `ErrorLogger` | `error_logger.c` and its `glog.c` |
| `Server_proofs` | theorems about the driver; what the server keeps |
| `AnyClient_proofs` | theorems about server and driver under any client |
| `EmmcProxy_proofs` | theorems about whole dumps: client, server, driver and their connections |
| `PartitionPlan_proofs`, `GlobalLog_proofs`, `DebugChannel_proofs`, `Hooks_proofs`, `ErrorLogger_proofs` | theorems about these modules |
| `MC*` | constants for TLC; `MCParts` and `MCHooks` also put modules side by side |

`MCParts` and `MCHooks` check several modules that share no variable.  `part`
chooses one of them in the initial state and only that one takes steps.  Every
property there speaks of the variables of one module, so a behaviour that
interleaved them would show it nothing new.

The `Bug_` operators are plausible mistakes in the code, one or more per property:
put in place of the definition they precede, each makes TLC find the property
violated.  No specification uses them.

### Correspondence and abstraction

* A **word** is one `int` of a message, one data sector, or the text of a ping.
  Partial receives are modelled between words; a receive that ends inside a
  command word is the disjunct of `receive_command` that closes the session.
  Words are integers of any kind, so a receiver that lost its place compares data
  with commands just as the program does.  What the devices hold is a parameter,
  `DeviceData`, and may be anything: also words that look like commands, results
  or whole answers.
* A client that goes on with a part of a header (`HeaderCut`) takes the rest of it
  for data, or for the next header.  `slipped` remembers it.  If what follows looks
  like the answers it expects, it goes on to the end.
* **Results**: a failing system call returns `Error`, the code's own returns are
  -1, -2, -3.  The client sees them as unsigned numbers: `CommandChecked` and
  `ReadChecked` are what its comparisons really test.  A field that a short
  receive did not fill is whatever was on the stack: a choice.
* **Server steps** end where the thread touches a socket.  A handler is one step
  up to its first send; what it has to send is in `out`, which `send` takes
  piece by piece and may fail between them.
* **Driver calls** are one step each; their only caller is the server's thread.
  A read is the set of its possible results.  A copy to user memory that the
  server has freed may fail or may hit whatever is there (`badCopy`).
* **Memory**: blocks are numbers; `lost` holds blocks that no code can free any
  more.  The user's memory is taken back when the process ends, the kernel's not.
* **Client**: `ret = "ok"` means that `dump_partition` ran to its end.  (It has no
  return statement there, and its caller ignores the result.)  A failed read of
  the partition table is not looked at either; its socket is closed by then.
  `Mode` selects the device, hence which copy of the read functions runs.
* Loading the network module fails like a kill before `init_net`.
* **Debug channel**: a step lies between two system calls or accesses to a shared
  variable.  A message is two halves that carry the sender's name; memset and
  memcpy of the buffer are two steps.  `ksceNetSend` may send one half or all, and may
  fail at any time, also with the connection up ("by unknown reason", `net.c:441`);
  `torn` remembers a failure between two halves.  `wire` has the last two halves sent,
  where two messages could mix.  `unguarded` remembers that a thread found a
  connection without having the mutex.  The listener may fail to be created, and may
  be created and not start, which nobody notices.
* **Hooks**: a thread has a stack of frames, one per hooked call it is in, since a
  call of an original (from inside it), or a write of the log, can call hooks again.  Hooks with
  the same control are one family; the sets in `VfsHooks` and `IoHooks` name the
  hooks of each, and `map` gives the lines of every one.  An error code is one
  value.  `met`, `overlapped`, `crossed` remember that calls which the code cannot
  tell apart overlapped: what is claimed is claimed until then, and the comments
  on the properties say what goes wrong afterwards.  A ring keeps the numbers of
  the calls instead of their arguments.
* **Hook lists**: one hook is followed, for every name of every list, with its
  module loaded or not and its call failing or not.  A name that a list lacks is
  lacking in the model's set, too; arrays of ids are one name per element whose
  initial value differs.
* **Module table**: a module is the start addresses of its segments or NULL; a
  segment has two addresses, so that its first and last differ.  Construction gives up where the code returns.
  The two bounds of an entry are stored in two steps.  A stack trace can begin at any
  point, and its lookup and its print are two steps; the sort is one.
* **Quicksort** is followed statement by statement, the swaps in place on a
  sequence.  It uses RECURSIVE operators, so no theorem is stated about it.
* **error_logger**: an actor has a list of operations to do.  The variables a hook
  stores together are one field, and the stores before and after the original
  call are separate.  One hook with variables, of any family, is watched at a time.
  The globals are taken to be sequentially consistent: each store is seen by all
  threads at once and in order.  The code has plain ints without barriers, so what
  `NeverLogsUnset` and `EntryWhole` say holds of a build that keeps that order.

## 3. Runs

| run | configuration | shows |
|---|---|---|
| `parts` | the driver under any calls, 3 blocks; partitions up to sector 24, clusters of 4; every hook; up to 2 modules of 2 segments; every sequence of 3 keys up to length 9, and patterns of length 40, 41, 47 | `DriverType`, `KernelPoolBacked`, `KernelPoolAccounted`, `StoppedHoldsNothing`; `OneToOne`, `OnlyClustersShift`; `ListsAgree`; `TableExact`, `TraceRight`; `Sorts` |
| `server` | one client that reconnects, any 3 requests for emmc and ms (the gc handlers are copies of the emmc ones), geometries 1 and 2, short receives, 1 fault, 2 launches | `UserPoolBacked`, `PoolsInStep`, `SocketsClosed`, `CommandsInStep` |
| `server_live` | as above, 2 requests, all 3 families, under fairness | `ServerLetsGo` |
| `proxy` | 2 clients, 2 faults, 2 launches, a cluster and a tail sector | `DumpFaithful`, `OwnPool`, `CopiesFit`, `CleanAfterSuccess` |
| `proxy_short` | 1 client, short receives, 2 faults, clusters of 3, tail of 2, data that look like answers (`Lookalike`) | `OnlyLastSectorLost` |
| `proxy_live` | 2 clients, 1 fault, 1 launch | `DumpsSucceed` (as long as there is no fault), `EndsOrSpins`, `Implements` (`DumpSpec`) |
| `log` | 3 users | `OpenWhileUsed`, `NothingLeftOpen`, `CallsReturn` |
| `channel` | a sending hook, the listener (which sends, too), start, stop and a client that goes away | `SendsOnAccepted`, `NoSocketLost`, `GuardedMessagesWhole`, `StopNeedsNoClient` |
| `errlog` | 2 threads of the shell, 2 calls each, 2 descriptors | `NeverLogsUnset`, `EntryWhole`, `LogExclusive`, `Served` |
| `hooks` | 2 threads, calls nested 3 deep, 4 at a time; rings of 2 and 3 entries, 7 calls | `GuardNotStuck`, `NoRecursion`; `GateHeld`, `NothingMissed`, `BlamesOwnCall`; `KeepsLast` |

`DriverType` is the driver's type invariant; the `TypeOK` of the other modules
documents their state and is there for proofs.

Some of the properties hold only with an exception that the code has, and say so:

* `StopNeedsNoClient`: once a debug client was accepted, module_stop never
  returns.  `send_message` returns 0 when a send fails ("for debuging purpose"),
  nothing clears the connection flag, the listener polls it for ever and
  `deinit_net` joins the listener.  For the same reason a client that went away
  is never replaced by another.  The socket is safe under the sender because of it, too:
  `SendsOnAccepted` breaks with the result that the comment there asks for.
* `ListsAgree`: `{-1}` initialises one of the thirteen
  `sdstor_dev_fs_ids`, `patch_uids` and `gen_init_hook_uids` have no initialiser;
  their 0 counts as a hook that is set if its module was not loaded.
* `TableExact`: the final item of a completely full table.
* `TraceRight`: entries that are added do not disturb a trace between its lookup and
  its print.  But an entry that has its start and not yet its end seems to have
  every address behind it, and the sort may move the entry that was found.
* `GuardedMessagesWhole`: after a send that failed half way on a live connection, the
  next message follows the half, and the client's cut of the stream is off.
* `OnlyLastSectorLost`, `OwnPool`: nothing is said of a client that went on with a part
  of a header.  With data like `Lookalike` its dump can end, and be wrong anywhere.
* `NoRecursion`, `NothingMissed`, `KeepsLast`, `EntryWhole`: each until two threads overlapped as it says.  `LogExclusive`: as long as none of the hooks that write
  the log themselves is called.

Two runs end with a counterexample, because a comment says something that the
code does not do:

* `proxy_zeros`: the comment "size of this request is small so this should be
  ok" - if one receive of a sector number is short after all, the server answers
  `vita_err = -1` with a zeroed sector, the client cannot see a negative error in
  an unsigned field, and a dump whose last sector is hit ends as if all were well.
* `channel_buffer`: the comment "message send is locked with mutex so this buffer
  should be safe" - a sender that does not get the mutex at once goes on without
  it and overwrites the message that the holder is sending.

### Bounds, and why they are enough

* `MaxFaults`: failing system calls, kills and lost connections.  Two are enough
  for the combinations that matter (a pool left over by one fault meets another
  fault); single faults reach every error path.
* `MaxLaunches = 2`: one restart; a third start finds no other states of the driver.
  (`proxy_live` has no restart: it is the most expensive run.)
* `MaxRequests = 3`: init, one cluster command and deinit on one connection, or
  a pool left behind and the next connection's init.
* `Blocks`: one more than a pool needs, so that an allocation after a lost block,
  and reuse of an address, happen.
* `DeviceData`: `Distinct` has a word of its own for each sector, so that sectors
  cannot be taken for each other; `Lookalike` has zeros and the commands of answers
  at the end of the partition, so that a client out of step can go on.
* Two clients: one is served, one waits or comes next.  With arbitrary clients
  (`AnyClient`) one that reconnects plays both parts.
* In `GlobalLog`, `MayOpen` ends new calls once a call went in without the mutex:
  nothing is claimed after that, and the counters would grow without bound.

* `Channel.cfg` has one hook thread; with the listener that is two senders, which
  is all the mutex, the buffer and the flag can tell apart.
* `ErrorLogger`: two calls per thread let a call come before, during and after a
  poll; `MaxFiles` descriptors are one more than a correct program needs.
* `MaxVfsDepth = MaxIoDepth = 3`: a call, one nested in its report, one nested in
  that.  Two threads with four frames between them reach every pair of overlaps
  of one or two frames.  `MCInstalls` has one hook of each family of `IoHooks`
  together with each hook that opens its gate; the hooks of a family differ only
  in their names.
* Rings of 2 and 3 entries and 7 calls wrap twice and more.
* The sort has its special cases below 7, at 7 and above 40 keys; all three
  happen.  The segment table is full with 2 modules of 2 segments.

Deadlock checking is off where the system may stop: all clients gone, bounds
used up, inputs enumerated.

### Fairness

`AnyClient` asks only that the server's thread runs, and never that a fault
happens.  `EmmcProxy` asks that the driver is loaded, the server started, server
and clients run when they can, and TCP delivers the resets it owes.  None of the
processes can be kept from running by another, so weak fairness is what a
scheduler gives.  `GlobalLog` needs strong fairness for a thread that waits for
the mutex: the code creates it with attribute 0, a queue of waiters in order.

`DebugChannel` asks that threads run and that a module_stop that was called goes
on; not that it is called, nor that a client connects.  `ErrorLogger` asks that
the listener and the module's thread run, and nothing of the shell's threads.
The hooks and tables have safety properties only.

A host that vanishes without a reset keeps the server for ever: the code has no
timeouts, and `LinkLost` assumes that the loss is seen.

## 4. Proofs

Every theorem is about the specification that the runs check, and, but for the
hypotheses it states, for every value of the constants: any threads, any clients, any
memory, any bounds on faults and calls.  An instance is only what TLC needs.  Each
inductive invariant below was first checked by TLC on the instance of its run.

`Server_proofs`, first part: the driver under any calls (`DriverSpec`), for any set
of blocks (numbers > 0) and any integer geometries.  `DriverInv` is the type
invariant, `PoolBacked`, `PoolAccounted`, and "a module that is not loaded has no
set pool".  The parts need each other: a pool can only be released correctly if it
is backed; the accounting is kept because a failed second call of the set-up moves
the block to `lost`; and `StoppedHoldsNothing` follows from the accounting only
with the last part.  One lemma per pool operation, then one step per action.
Second part: `ServerInv` says what the steps of the server and of the system keep
whatever the clients send: both pools, the buffer's length, which sockets are
open, and, without a fault, that the pools are in step.

`AnyClient_proofs`: server and driver together, under clients that send any whole
requests in any order and leave at any time; any number of requests, faults and
starts.  `ServerUserPoolBacked`, `ServerPoolsInStep` and `ServerSocketsClosed` are
about pools and sockets, but `ServerInv` alone is not inductive for a handler of
clusters: it writes as many words as the pool's geometry says, so the length of
the buffer depends on what was in the stream.  Hence `Stream(c)`, one clause per
fact: a stream holds a whole request or nothing when a command is read (`Queue`);
while a command is handled, the rest of *its* request is in the stream (`Hand`);
and the geometry that a client counts with is the server's, unless an init is on
its way or the session is about to end (`Agreed`, `Waiting`).  `Queue` is
`ServerCommandsInStep`.  That an answer after an error closes the session is what
keeps `Agreed`: after a refused init the client counts with another geometry.

`EmmcProxy_proofs`: whole dumps, for any clients, partition, cluster size, device and
memory, any number of faults and starts.  Two sorts of receives:

* when they return whole messages (`~ShortRecv`):
  * `DumpsFaithful`: for a partition that begins with a cluster, a dump that runs to its
    end is the partition.  (`PartitionPlan_proofs` says what becomes of any other.)
  * `SystemImplementsDump`: more than that, a file never holds a word that is not the
    partition's next sector, also while the dump is running or after it failed.
    It assumes that the kernel does not write outside the server's block (`[]~badCopy`).
  * `SuccessIsClean`: nobody leaves behind the pool that all clients share.
* also when they return parts of messages:
  * `LastSectorOnly`: for a partition that begins with a cluster, a dump that runs to
    its end is the partition, up to its last sector, which can be zeros.
  * `PoolsAreOwn`: who may use the shared pool.
  * `CopiesAlwaysFit`: no copy goes outside the server's block, as long as no release of
    a kernel pool failed.

The first two of these are about clients that have kept their place in the stream,
whatever the others do; `CopiesAlwaysFit` is about all.  None asks anything of the data
on the device.  That a client without its place can end with a wrong file is no
artefact of the model: the program takes any words that compare right for an answer,
and an answer that never came, too, since it does not look at how much it received.

The inductive invariant `Inv` is `ServerInv`, types, and two groups of clauses.  About
the pools, which all clients share: they have the clients' geometry (`Geometry`); a
kernel pool with no user pool beside it comes from a failed release or from a process
that ended, whose successor has no pointer to copy to (`Fit`, on which `CopiesFit`
rests); and without faults a pool that is set up has a client that is going to
release it (`Holder`).  About each client, `Dumping(c)`:

* `Queue`, `Hand`, `Replies`, `Ends`, `Phases`: what is in the two streams, and where the
  server is with a request, follows from where the client is in its run.
* `Answer`, the heart: what the client has received, what is on its way, and what the
  server has still to send are consecutive parts of *one* response, whose data are the
  requested sectors if its error field lets the client accept it.  A response is sent
  and received in pieces that do not coincide, so nothing weaker is kept.  With short
  receives the data of a tail's sector can be the zero of a request that the server took
  for broken; then its session is ending (`Told`).
* `Progress`, `Content`: the file's length is that of the requests that were answered,
  and each word is the sector of its place (`RightWord`), in incomplete files, too.
  `DumpFaithful` is the case of a complete one.  With short receives the zero above can
  be its last word (`LastZero`), and a client that has it before the last gets no other
  answer (`Stuck`).
* `Unpooled`: a client whose own init was refused finds no user pool while it is served.
  For this reason words in a file mean a pool of one's own (`Content`), and `OwnPool`
  follows.

A client whose header arrived in part takes the rest of it for data and is out of step
from there on.  It is not `Dumping` but `Off(c)`, so the invariant has `Known(c) ==
Dumping(c) \/ Off(c)`.  `Off` says nothing of its file or of the answers on their way,
since the data decide what it takes them for.  What it keeps is what the others depend on: the
requests such a client sends are whole reads of its own device and in the end a
deinit, so that the server, which may still be sending the answer to the one before,
reads them in step (`Waiting`, `Asked`) and takes no part of one for an init.

The refinement maps each step: only `loop` of a client in an accepted answer adds words
to its file (`AddedWords`), and those are the next ones by `Content` before and after
the step; every other step leaves `file` and `ret` alone or ends a dump (`Outcomes`).

`PartitionPlan_proofs`, for any `SectorsPerCluster` > 0 and any partition.
`PlaceOfSector` computes which sector is at place k of the file, from division
with remainder; `DumpIsOneToOne` and `MisalignedClustersShift` follow.  The
second is the exact price of a misaligned partition.

`GlobalLog_proofs`, for any finite set of users.  `LogInv` says, as long as every
call had the mutex: one user is inside at a time and owns the mutex; the count
is the number of users between "counted" and "uncounted"; the descriptor, the
count and the system's open files agree except in the states that the user
inside is about to leave.  Cardinalities come from `FiniteSetTheorems`.

`DebugChannel_proofs`, for any set of hook threads other than the listener
(`ListenerAssumption`).  `Connection` ties the connection flag to the listener's
place and to the sockets, `Lifecycle` the listener to the steps of module_start
and module_stop.  `ChannelSendsOnAccepted` rests on both: nothing lowers the flag,
and `deinit_net` closes a socket only when the listener has ended, which with a
raised flag it never does.  That is also `ChannelClientKeepsModule`, the safety
half of `StopNeedsNoClient`.  For `ChannelMessagesWhole`, `OneSender` and `Stream` say
that without an unguarded entry one thread is between the test of the flag and the
last send, and that the last half on the wire, if it is a first one, is its own or that of
a send that failed (`torn`).

`Hooks_proofs`, for any threads, choice of hooks and depth of calls, and arrays of
any positive size (`RingAssumption`).  `RingInv` reads the array backwards from a
cursor that is the index corrected by what the storing call has still to do to it.
`HookInv` follows one hook through the three hand-kept lists, for whatever modules are
loaded and calls fail: `HooksListed` is about every name of every list at once.
`VfsInv` says that at most one report of a hook is in progress while no two met
(`OneReport`).  `IoInv` ties each gate to the frames that will close it (`Held`)
and, until two of those met, to exactly one.

`ErrorLogger_proofs`, for any threads other than the listener and the module
(`ThreadsAssumption`), any followed hook, any number of calls and descriptors.  What
an actor has still to do is data here, so the invariant speaks of lists of
operations: a hook's list ends with raising the flag and stores a field it has not
stored yet (`Storing`, `OneCall`); the listener's ends with lowering the flag and
polling again (`Listening`); the log is open between the operations that open it and
those that need it (`Bracketed`), and the module logs only before it starts the
listener (`Turns`), which is all that keeps the two apart in the log.

Only model-checked:

* every liveness property: `ServerLetsGo`, `DumpsSucceed`, `EndsOrSpins`, `CallsReturn`,
  `Served`, and that a module_stop without a client ends (`StopNeedsNoClient`);
* `TableExact`, `TraceRight`, `Sorts`: `Quicksort` and `SegmentTable` recurse over their
  input, and the prover has no induction over data;
* the type invariants of `Server`, `GlobalLog` and `ErrorLogger` beyond what their proofs
  need.

## 5. Not modelled, and the plan

* The debug screen of the server (third party), the printing of kernel structures
  (`driver/dump.c`) and the thread experiment: output without state of its own.
* `validateSceMbr`: its result is ignored by its caller.
* Hooks whose bodies are commented out or compiled out, or that only note an
  id (threads, semaphores, printf, file opens), and the copies of arguments that
  are only printed (`ops1`, `ops2`, `nodeStr`, `vfs_node_func5_num` and the other
  counters of calls).
* The patches of SD commands and of the MBR: what they change happens in the
  hardware and in code that is not in the repository.
* error_logger's ring of allocations: its hook is not installed.  Its `mtable.c`,
  `qsort.c` and `stacktrace.c` are copies of the driver's.
* `vfs_types.h`, `hooks_misc.h`, `sector_api.h` and the like: declarations.

What is left to do: the type invariants that are not theorems yet; a sort of the table
in steps, to say what a trace can find in the middle of it; and what can be said of a
client that has lost its place if the device's data cannot look like answers.
