# A TLA+ verification of the PHP 7 engine's shared and interrupted state

PHP 7 is mostly a sequential interpreter, and most of it is tested well by the
`.phpt` suite. This project is about the parts that suite hardly reaches: state
that is shared by processes, changed by signal handlers, or left behind by a
`longjmp`, a crash or a restart, or by script code that the engine enters in the
middle of its own work. Each such part has a TLA+ module translated from
its C source, TLC runs on small instances, and theorems checked by TLAPS that
hold for every value of the constants.

`PROJECT.json` is the machine-readable companion: it maps every definition to the
source lines it stands for, and lists the runs, the mutants (a plausible bug per
property that TLC must catch), the findings, the hazards and the theorems.

## 1. Inventory of the system

### The parts

| Part | Source | State it keeps | Operations |
| --- | --- | --- | --- |
| Deferred signals | `Zend/zend_signal.c`, `.h` | `SIGG`: depth, blocked, running, active, table of handlers, a fixed pool of queue nodes on a free list and a pending list; the dispositions in the kernel | request activation and deactivation, entering and leaving critical sections, arrival of a signal, draining the queue, `zend_sigaction` |
| Opcode cache, restart protocol | `ext/opcache/ZendAccelerator.c`, `zend_shared_alloc.c`, `zend_accelerator_module.c` | `ZCSG` in shared memory (flags, times, counters), a lock file with three bytes, per-process `ZCG` | start and end of a request, restart, scheduling a restart, lookup, store, invalidation, forced restart |
| Opcode cache, hash table | `ext/opcache/zend_accelerator_hash.c`, `.h` | `hash_table`, `hash_entries`, two counts, in shared memory | lookup without a lock, update under the allocation lock, clean |
| Opcode cache, allocator | `ext/opcache/zend_shared_alloc.c`, `shared_alloc_*.c` | segments, positions, exhaustion flag, saved state | allocate, save, restore, lock, duplicate tables |
| Opcode cache, persistence and optimizer | `zend_persist*.c`, `zend_file_cache.c`, `Optimizer/` | compiled code, files on disk | copy, relocate, transform |
| FPM process control | `sapi/fpm/fpm/fpm_process_ctl.c` | `fpm_state`, `fpm_signal_sent`, timers | reload and termination with escalating signals, request timeouts, keeping idle servers within bounds |
| FPM children | `sapi/fpm/fpm/fpm_children.c` | list of children per pool, counts, the ring of the last faults | fork, bury, restart, emergency restart |
| FPM scoreboard and request stages | `fpm_scoreboard.c`, `fpm_request.c` | slots in shared memory under spin locks | acquire, update, allocate and free a slot, stages of a request |
| FPM events, sockets, signals, configuration | `fpm_events.c`, `fpm_sockets.c`, `fpm_signals.c`, `fpm_conf.c` | queues of timers and descriptors, signal pipe | the loop, adding and removing events |
| Cycle collector, reference counting | `Zend/zend_gc.c`, `.h`, `zend_objects_API.c`, `zend_variables.h` | counts, root buffer, colours, lists of garbage, flags of objects | release, possible root, mark, scan, collect, call destructors, destroy |
| TSRM and `zend_ts_hash` | `TSRM/TSRM.c`, `Zend/zend_ts_hash.c` | thread table; reader count with two mutexes | resource lookup, begin and end of reads and writes |
| Sessions | `ext/session` | session status, handler data, locked files | start, read, write, close, regenerate, destroy |
| Output layer | `main/output.c`, parts of `main/main.c` | stack of handlers with buffers and flags, `OG(active)`, `OG(running)` | start, write, flush, clean, end, discard, end of the request |
| Generators | `Zend/zend_generators.c` | execute data, tree of `yield from` | resume, delegate, close |
| Engine containers and memory | `zend_hash.c`, `zend_alloc.c`, `zend_list.c` | hash tables with iterators, heaps, resource list | the usual |
| Compiler and virtual machine | `zend_compile.c`, `zend_execute.c`, `zend_vm_def.h` | everything of the language | |
| Streams, request life cycle | `main/streams`, `main/main.c` | streams, filters, request globals | startup, shutdown in a fixed order |
| Server interfaces | `main/fastcgi.c`, `sapi/` | connections | accept, read, respond |
| System V semaphores | `ext/sysvsem/sysvsem.c` | three semaphores per key | get, acquire, release, remove |
| Other extensions | `ext/` | libraries and bindings, many vendored | |

### How the parts interact

* The engine, the memory manager and extensions bracket their critical sections
  with `HANDLE_BLOCK_INTERRUPTIONS`; a timer or `pcntl_signal` handler that fires
  inside is queued by `zend_signal_handler_defer`. A fatal error leaves by
  `longjmp` (`zend_bailout`), skipping the closing brackets.
* Every worker process of a server (FPM child, Apache child) maps the same opcode
  cache. `accel_activate` at the start of a request may restart the cache;
  `persistent_compile_file` looks scripts up, stores and invalidates them;
  `accel_post_deactivate` runs after the engine has shut the request down.
  Processes talk to each other only by flags in shared memory and by `fcntl`
  locks, which the kernel drops when a process dies.
* `cache_script_in_shared_memory` and `zend_accel_add_key` call the hash table
  under the allocation lock; lookups call it without one.
* The FPM master forks and kills the processes that run all of this, and learns
  of their state from the scoreboard they share. It is told what to do by signals,
  which become bytes in a socket pair that its event loop reads.
* The last release of an object, and the collector between finding garbage and
  destroying it, call destructors: script code that changes the very graph the
  engine is working on. The output layer calls user handlers in the same way.

### What is hard here

Steps of two processes in an order nobody tests (lookup against restart, reset
against reset); a signal in a window of two instructions; a flag tested before a
lock and used after it; a process that dies while it holds a lock or has set a
flag; a bailout with a lock held; pools, tables and buffers that fill up; waiting
for a moment at which nobody uses the cache; children that die while they are
being told to stop, and ones that ignore it; destructors that take back what is
about to be destroyed; output handlers that write, fail, flush and end buffers while
they are being run. `PROJECT.json` lists each under `hazards`
at the line where it bites, with the properties that would catch it.

### What makes the modelled parts correct

* Signals: no handler inside a critical section; no deferred signal lost, run
  twice or out of order; the node pool does not leak; a deferred signal is run.
* Restart: restarts, stores and invalidations exclude each other, whoever dies; a
  process that holds a usage lock keeps its memory; the table never leads to
  memory of an earlier life of the cache; the accounting that decides on restarts
  is exact, but for what pointers from before a restart add to it; a cache that is
  switched off for a restart is restarted.
* FPM: every process the kernel knows is known to the master, in its pool and its
  counts; limits hold; nobody is forked behind the back of a stop; the master goes
  only when its children have gone; a termination ends, a pool recovers.
* Collector: nothing in use is given back, whatever destructors do; counts and
  buffer slots are exact after every collection; garbage is not lost, and a
  collection frees all of it that its roots lead to; destructors are called first.
* Output: what is written reaches the client once and in order, and is lost only
  where the script or a handler asked for it; no handler is entered from a handler;
  each is started, finalized and destroyed once.
* Hash table: it is a map, also for lookups that run beside an update without a
  lock, unless a restart empties it under them; its chains end, for these lookups
  too; its counts are exact.

## 2. Modules

    ZendSignal         <- MCZendSignal        ZendSignalProofs
    OpcacheRestart     <- MCOpcacheRestart    OpcacheRestartProofs
    AccelMap  <=  AccelHash  <- MCAccelHash   AccelHashProofs
    FpmMaster          <- MCFpmMaster         FpmMasterProofs
    ZendGc             <- MCZendGc
    PhpOutput          <- MCPhpOutput         PhpOutputProofs, PhpOutputStackProofs,
                                              PhpOutputFlowProofs
    LinkedList (used by ZendSignal, AccelHash)  LinkedListProofs

`<-` reads "is instantiated for TLC by", `<=` "is implemented by". A `*Proofs`
module extends the component's module and holds its theorems. `LinkedList` says what
a C list in an array of nodes holds, as the least set of nodes that contains the
first and what each of them leads to: a definition without recursion, which the
provers can reason about and TLC evaluates on small arrays. Definitions named
`X_Something` beside an `X` are the mutated forms of `X`; no specification uses
them.

### ZendSignal

The non-ZTS build with `ZEND_SIGNALS`. The variables are the fields of `SIGG`
under their own names (`depth`, `blocked`, `running`, `active`, `handlers`,
`phead`, `ptail`, `pavail`), the queue nodes as numbers with `next` and `signo`,
`global_orig_handlers` (`orig`), what the kernel has installed (`kernel`), and the
thread's control point `pc`, with `open`, the sections it is really in.

| Action | Code |
| --- | --- |
| `ActivateCopy`, `ActivateInstall` | `zend_signal_activate`: the `memcpy`, then the loop and the two assignments |
| `Deactivate` | `zend_signal_deactivate`; it leaves the queue as it is |
| `Block` | `ZEND_SIGNAL_BLOCK_INTERRUPTIONS` |
| `UnblockDec`, `UnblockTest` / `UnblockRead`, `UnblockDecTest` | `(SIGG(depth)--) == SIGG(blocked)` in the two orders C allows; the variable `build`, chosen in `Init` from `Builds`, is the set of orders this build uses |
| `HandlerUnblock` | `zend_signal_handler_unblock` |
| `DrainStep`, `DrainEnd` | the `while (queue)` loop of `zend_signal_handler_defer` |
| `Deliver*` | the branches of `zend_signal_handler_defer` on arrival of a signal |
| `Sigaction*` | `zend_sigaction`: flags, handler, disposition, one store each |
| `Bailout` | `zend_bailout` out of critical sections |

A signal may arrive at every control point of the thread; inside a handler
`global_sigmask` masks the others, so handlers do not nest. The body of a handler
is `SIG_DFL` (every signal of `zend_sigs` terminates by default), `SIG_IGN` or a
function that returns. `stamp` and `owed` are history variables: which delivery a
node holds, and which deliveries are still to be run.

### OpcacheRestart

The non-Windows, non-ZTS build, processes sharing one cache. The lock file is
`alloc` (byte 0, exclusive), `usage` (byte 1, read locks) and `restartLk` (byte 2).
Every read or write of a shared flag outside a lock is a step of its own, so a
process has 34 control points; what happens under the allocation lock and is not
visible without it is one step.

| Actions | Code |
| --- | --- |
| `Activate`, `ActivateLock`, `Recheck`, `Compare` | `accel_activate` around the restart; `Recheck` includes `accel_is_inactive` |
| `RestartBegin` .. `RestartLeft` | the restart: `accel_restart_enter`, `zend_reset_cache_vars`, `zend_accel_hash_clean`, restoring status and time, `accel_restart_leave` |
| `Reset`, `Schedule`, `SetPending`, `SaveStatus`, `Disable`, `SetForce` | `opcache_reset` and `zend_accel_schedule_restart` |
| `CompileOrig`, `CompileStart`, `IsActive`, `ClearFlag`, `Find`, `Count`, `Hit`, `Outdated`, `MarkCorrupted`, `NotFound` | `persistent_compile_file`, with `accel_restart_is_active` and `accel_activate_add` |
| `StoreExists`, `StoreFails`, `Store` | `cache_script_in_shared_memory` |
| `ReadLock`, `ReadLockAdd`, `ReadLockCheck`, `Invalidate` | `zend_accel_invalidate` with `accelerator_shm_read_lock` |
| `Kill`, `KillDone`, `KillFails` | `kill_all_lockers` |
| `PostDeactivate` | `accel_post_deactivate` |
| `Crash`, `FileChanges`, `TimePasses`, `PcreUse` | the outside world |

A pointer into the cache is a record of the slot and the `epoch` it was allocated
in, the version of the file it was compiled from and whether it is marked
corrupted; it is stale when its epoch is over. Memory is counted in scripts:
`Cap` of them fit between two restarts, `MaxWasted` of them are
`max_wasted_percentage`. `guard` is a history variable: the epoch in which a
process took its usage lock while no other was between the inactivity check and
the reset of the memory.

`persistent_compile_file` keeps the pointer it has found over a restart, and then
tests only what it reads there: `Outdated` may find any time stamp in reused
memory, and `MarkCorrupted` has three outcomes. It marks and counts the script of
the table (`MarkScript`), it finds a mark and does nothing (`MarkedAlready`), or it
adds to `wasted_shared_memory` of the new epoch for a script that is no longer
there (`MarkStray`); `stray` is a history variable with the part of `wasted` that
came about so. A lookup (`Find`) is one step here; its single loads, with a restart
between them, are `AccelHash`'s subject.

### AccelHash and AccelMap

`AccelHash` is the table: `table`, the fields of `hash_entries`, the counts, one
writer (the holder of the allocation lock) and `Readers` that hold no lock. Every
store a reader can see and every load of a reader is a step; stores are seen in
program order. The hash function is a variable chosen in `Init`, so a run covers
every pattern of collisions. The writer makes the calls its callers make:
`CacheScript` (`cache_script_in_shared_memory`: a script under its full path, then
the key it was asked for) and `AddKey` (`zend_accel_add_key`). A name that is in
both `FileNames` and `KeyNames` is a path that is a file at one time and a link at
another.

`Clean` is a restart. A restart waits for usage locks, and the lookups of
`persistent_compile_file` are made before its process takes one
(`ZendAccelerator.c:1802` and `1824` against `1856`), so it does not wait for
lookups: the table may be emptied and filled again between any two of their loads.
The entries keep what they held; the key of an entry that was dropped is in memory
that is reused, so a comparison with it may fail where it would have succeeded
(`Stale`). `seen` and `torn` are history variables: what the name led to during the
lookup, and whether entries were dropped between the lookup's first load and its
last.

`AccelMap` says what callers rely on: a map from names to scripts changed by
`Store`, `Link` and `Clean`. The refinement mapping is what an undisturbed lookup
of each name would return (`Lookup`), so inserting an entry takes effect at the
single store that links it.

### FpmMaster

The master is sequential, but its children, the administrator and the clients are
not. `pc` says where the master is: starting, in the event loop, in
`fpm_children_make` (one step per fork), in the loop over `waitpid` of
`fpm_children_bury` (one step per child), in the idle maintenance (one step per
pool), replaced by `execvp`, or gone. The signal pipe is a sequence of bytes; a
signal to a child is pending until the child is scheduled.

| Action | Code |
| --- | --- |
| `InitMain`, `StartPool` | `fpm_signals_init_main`, `fpm_children_create_initial` |
| `Fork`, `ForkFails`, `MakeDone` | `fpm_children_make` |
| `GotCommand`, `GotSigchld`, `Ignore` | `fpm_got_signal`, `sig_handler` |
| `Bury`, `BuryDone` | `fpm_children_bury`, with the emergency restart and the replacement |
| `PctlSet`, `ActionNext`, `KillAll`, `ActionLast`, `LastChild` (operators) | `fpm_pctl` and what it calls |
| `TimerFires` | `pctl_event` in `fpm_event_loop`; the code removes the event from the queue after its callback, also when the callback re-armed it |
| `MaintainBegin`, `MaintainPool`, `LoopOver` | the heartbeat of idle maintenance |
| `RequestTimeout` | `request_terminate_timeout` |
| `OnSocketAccept` | `fpm_pctl_on_socket_accept`, edge triggered |
| `ChildInit`, `ChildInitFails`, `Accept`, `EndRequest`, `Retire`, `Fault`, `SoftQuit`, `Killed` | a child from fork to its death |

A child that has not reached `fpm_signals_init_child` still has the master's
handler, which ignores what it gets: `st = "starting"`. `told` is a history
variable: the processes that were sent the signal the master is waiting for.

### ZendGc

The engine is sequential here; what interleaves with it is script code in
destructors. A state is a point at which script code runs, the main script or a
destructor. `todo` is the C stack below it: the calls that continue when the script
code returns. An action is one script operation (`New`, `Store`, `Unset`,
`gc_collect_cycles`, `Return`) with everything the engine does up to the next point
at which script code runs (`Run`, one `Step` per call). So a release that deletes a
value, whose deletion releases others, one of which offers a root to a full buffer,
which starts a collection, is one action until a destructor is entered, and
destructors run at every depth of it.

The operators carry the names of the functions they translate and thread the state
through as a record. Slots of the root buffer are counted, not numbered: which one
a value gets is of no consequence, whether it has one, and from which buffer, is.
`missed` and `moved` are history: values that are in no list although they were
offered as roots or taken for garbage, and what destructors did to the garbage of
the collection under way: which of it they took a reference to (`captured`), and
which of it hung from a reference they dropped (`dropped`).

The script stores into empty places and unsets full ones, in the order of
`ZEND_UNSET_CV` and `zend_hash_del` (the place is cleared first); overwriting a
place is the two in turn.

### PhpOutput

Script code runs here inside the layer too: in user handlers. `calls` is the C
stack, the innermost call first, one record per pending call with the buffers of
its context; a step is what a C function does between two calls. A bailout (`exit`,
a fatal error, a client that went away) drops `calls` and goes on with the next part
of `php_request_shutdown`, on whatever `OG` holds then.

| Action | Code |
| --- | --- |
| `Echo`, `ObStart`, `ObFlush`, `ObClean`, `ObEnd` | script code calls the layer: `php_output_write` and the functions `ob_*` |
| `HandlerLocked`, `HandlerStores`, `HandlerCalled`, `HandlerInternal`, `Return` | `php_output_handler_op`: the lock error, storing, the call of a handler, its result |
| `ApplyHandler`, `ApplyNext`, `SapiWrite`, `ClientGone` | `php_output_op`: down the stack and out; `php_handle_aborted_connection` |
| `ApplyStale` | the loop of `zend_stack_apply_with_argument` at a place that is no longer on the stack |
| `FlushWrites`, `FlushReturns`, `CleanReturns` | `php_output_flush`, `php_output_clean` after the handler |
| `PopWrites`, `PopFrees` | `php_output_stack_pop` after the handler |
| `Exit`, `EndOfPhase`, `EndAll` | a bailout out of a handler; the parts of `php_request_shutdown` |
| `Undefined` | the code goes on with memory that is not what it takes it for; the model stops |

What is written is a number, so order, loss and duplication are visible. A handler
returns what it was given, nothing, or fails: what else it makes of the text is of
no consequence for the layer. `php_output_op` treats a single handler apart, with
the same result, because a handler's `level` is its position (`StackConsistent`).

## 3. Runs

| Run | Checks | Instance | States |
| --- | --- | --- | --- |
| `signal_queue` | `TypeOK`, `NodesPartitioned`, `OwedIsQueued`, `NoHandlerInCriticalSection`, `FifoDelivery`, `DeferredIsHandled` | two signals, two nodes, nesting two deep, three deliveries, two requests, every build | 770 000 |
| `opcache_restart` | `TypeOK`, `AllocExclusive`, `ReadersProtected`, `CacheCurrent` | two processes, one file, two restarts, forced restart, resets, invalidations, one crash | 3.3 million |
| `opcache_liveness` | `AccountingExact`, `StaleKeysDetected`, `CacheReenabled` | two processes, one file that changes, two slots, two restarts | 190 000 |
| `opcache_stale_script` | `CountedIsSafe`, violated | two processes that reset, one restart | |
| `opcache_reset_twice` | `CacheComesBack`, violated | two processes that reset, two restarts | |
| `hash_table` | `ChainsDescend`, `CountsExact`, `FindCorrect`, `MapSpec` | two files, one key, three entries, one reader, every hash function | 490 000 |
| `hash_liveness` | `TypeOK`, `FindEnds` | three files, one of them also a key, two entries | 380 000 |
| `fpm_master` | `TypeOK`, `NoOrphans`, `ChildrenAccounted`, `WithinLimits`, `AllTold` | a dynamic and an ondemand pool, three process ids, `process.max` 2, one command, one fault | 2.9 million |
| `fpm_liveness` | `TerminationEnds`, `DynamicRecovers` | a dynamic pool of one child, two commands, one fault, one failed fork | 57 000 |
| `fpm_graceful` | `GracefulEnds`, violated | one pool, one command | |
| `gc` | `TypeOK`, `SafeCollection`, `CountsExact`, `BufferExact`, `NothingLost`, `CollectComplete`, `DestructedFirst` | three values, one with a destructor and two properties, one variable, one slot | 230 000 |
| `output` | `TypeOK`, `InOrder`, `NotReentered`, `StackConsistent`, `WellBracketed`, `NothingLost` | three handlers of three kinds, two writes, eight calls by script code | 4.3 million |

**Bounds.** The queue of signals has two nodes, so that it is empty, partly filled,
full, and overflows with the third signal; sections nest, signals arrive in every
window and over two requests, so that what one request leaves in the queue meets
the next. Two
processes suffice for the windows of the restart protocol, each of which is
between one process that restarts and one that reads, stores or schedules; the
theorems cover any number. Two restarts let a stale flag or pointer of the first
meet the second. In `opcache_liveness` the file changes and there is a second slot:
a script is found outdated by its time stamp in one process while the other marks
it, stores the next version, exhausts the memory or restarts the cache, so that
scripts are marked once by whoever is first and pointers from before a restart meet
the counters after it. `AccountingExact` also holds with both processes
invalidating (3.0 million states), and with `CacheCurrent` and `StaleKeysDetected` for
two files, both processes invalidating and one restart (11 million). With one file
the half of `CacheCurrent` that says that no two files share a script is left to
that instance and to the theorem `TableIsCurrent`.
Three entries under every hash
function give chains of length one, two and three, and are enough for a chain to be
dropped and another to be built from its entries under a lookup. The places of
`hash_table` are interchangeable, so of the hash functions that differ only in the
numbering of places one is taken (`Numbered`). `MaxRestarts`, `MaxVersion`,
`MaxCrashes`, `MaxDepth`, `MaxSignals` and `MaxRequests` bound counters and appear
as guards (a restart beyond the bound is not scheduled; nothing else changes).
`fpm_master` has more process ids than may exist at once, so that a reused id, a
zombie and a full pool meet; one fault reaches the threshold of the emergency
restart, which begins inside the loop that buries it. `fpm_liveness` has one child
instead and a failed fork. With one slot in the root buffer (`BufMax`) every second
possible root finds it full, and garbage of two values needs an additional buffer;
a destructor does up to three operations (`MaxScript`: create, link and drop, or
take a value and take the garbage apart), and a collection may run inside it
(`MaxDepth`). Three handlers are a bottom, a middle and a top of the stack; eight
calls (`MaxOps`) start three, write, flush, and leave some for handlers on the way
down, as many as it takes for the loop over the stack to find the handlers below it
ended (`ApplyStale`). Instances with a fourth kind of handler, a third write and six
or seven calls (4 and 13 million states) hold too.
Symmetry is used for interchangeable processes and names in safety runs only.

**Deadlock** is checked for the cache, the table, the collector and the output layer. It is not for
signals, where the process may be killed by a signal's default action, nor for FPM,
whose master may exit.

**Fairness.** `ZendSignal`: the thread is scheduled while it drains the queue or
is in the closing bracket of a section, and a section, being straight-line code,
ends (`Outermost`: strong, since signals may interrupt the bracket); nothing is
assumed of signals. `DeferredIsHandled` speaks of builds that decrement first. `OpcacheRestart`: a process in an operation
keeps running, and the kernel grants a waiter the `F_SETLKW` lock when it is free
again and again (strong fairness, since others may take it in between); every
request ends (`max_execution_time`, or the server's own limit); a request follows
(the server is in use). `AccelHash`: a process in a lookup keeps running.
`FpmMaster`: the event loop serves every descriptor that is readable and every timer
that is due in each round, so what is due again and again is served (strong
fairness), and the master finishes a callback it is in; a child is scheduled, so it
starts up and receives its signals. How long a request runs, and whether one comes,
is left open.

### What the violations show

* `opcache_stale_script`. A comment says `counted` means that nothing bad can
  happen to the memory. `persistent_compile_file` looks the script up first and
  takes the usage lock after; a restart in between reuses the memory of the script
  it then executes.
* `opcache_reset_twice`. `zend_accel_schedule_restart` begins with a test of
  `restart_pending`, "don't schedule twice" (`ZendAccelerator.c:2837`).
  `opcache_reset()` calls it without a lock: two concurrent calls both pass the
  test, the second saves the already cleared `accelerator_enabled` as the status to
  restore, and after the restart the cache stays off, with no restart to come.
  `CacheReenabled` says what does hold of the calls that are made under the lock.
* `fpm_graceful`. The configuration file calls `process_control_timeout` the time
  limit for children to react. The escalation re-arms its timer from inside the
  timer's callback, finds the event still in the queue, and the loop then removes
  it: after SIGQUIT and one SIGTERM nothing follows. A child that was forked a
  moment before the reload and ignored both keeps the master waiting.
  `TerminationEnds` says what does hold.

The findings of five more definitions can be reproduced by naming them in a
configuration; they are kept beside the properties they limit.

* `NoNullHead` with `Builds <- DecFirst`: `zend_signal_handler_unblock` takes
  `SIGG(phead)` without a test. The decision to call it is made before signals are
  masked; a signal in between finds depth 0, runs, and drains the queue. Both orders
  of evaluation have the window. (`DeferredIsHandled` is about builds that decrement
  first: in the other order a signal between the read of `blocked` and the decrement
  stays in the queue until a later section or signal.)
* `LeadsToData` with names that are files and keys (as in `MCAccelHashLive.cfg`): an
  entry other keys point to becomes indirect when its path becomes a link; lookups
  follow one level and return an entry as a script. `MapSpec` therefore holds for
  paths that do not change their nature, which is the instance `hash_table` checks.
* `FindsScript` in the same instance: a lookup that read the flag of an entry before
  it is redirected, or between the two stores, returns the target entry as a script.
  This needs no restart.
* `FindNeedsNoLock` in `MCAccelHash.cfg`: the header says that
  `zend_accel_hash_update()` requires an exclusive lock, "however,
  zend_accel_hash_find() does not" (`zend_accelerator_hash.h:41`). A lookup reads the
  flag of an entry; a restart empties the table, and another process stores scripts
  and keys into the same entries; the second load then takes an entry for a script,
  or a script for an entry. Restarts wait only for processes that hold a usage lock,
  and this one takes it after the lookup, as in `opcache_stale_script`. All updates
  are safe for lookups without a lock: that is `FindCorrect` and the theorems
  `LookupsCorrect` and `LookupsReturnScripts`.
* `OndemandServed` with `Config <- OndemandPool` and the fairness of `FairSpec`: a
  connection comes while the only child, told to quit by the idle maintenance, is
  still marked as accepting; the event is edge triggered and consumed, the child
  exits, and nobody is forked until another connection comes.

`SafeCollection` excludes one case: the collector recognises a value that a
destructor has captured by a count that has risen ("Remove values captured in
destructors", `zend_gc.c:1130`); a destructor that takes one reference and drops
another leaves the count equal, and the value is destroyed while in use. The
property excludes a collection when one and the same value of its garbage was
captured and hung from a reference that was dropped (the dropped reference may be
further up: what it led to loses a count when its holder goes). The run
reaches that case (`Undefined` is the action that follows it). `NoDangling`, which
`SafeCollection` rests on, covers the engine's own references too: the calls on the C
stack, with the `orig_next_to_free` that an outer collection will restore, and
`GC_G(next_to_free)`.

The output layer asks `php_output_lock_error` before it runs a handler, and a handler
that failed is not run when it is ended. `php_output_flush` and `php_output_clean`
run it all the same. So script code in a handler can end a buffer that failed: its
own, which is then destroyed while its code runs, or the one that is being flushed
above it, whose neighbour is then taken off the stack (`misplaced`); a loop over the
stack that is under way goes on below its top (`ApplyStale`). And after the
lock error, or a bailout in the middle of a flush, a shutdown function that calls
`ob_start` pushes onto a stack whose memory is gone or whose top is below zero. In
these cases the model stops with `Undefined`; `StackConsistent` says that there
are no others before a handler has failed or a bailout has left the layer.

What a clean discards is no loss (`NothingLost`). In the run only the handler with a
chunk size may be cleaned, and its buffer is empty whenever that happens, so the
exemption meets data only in the theorem `OutputKept`.

Two windows are visible in the model without a run of their own: the time between
the inactivity check of a restart and `restart_in_progress`, in which a usage lock
does not protect (it is the exception in `ReadersProtected`), and the time between
the comparison of `last_restart_time` and the first usage lock of a request, in
which in-process PCRE keys can become stale (`StaleKeysDetected` speaks of the
time up to the comparison).

## 4. Theorems

All theorems are about `Spec`, without fairness, for every value of the constants
that satisfies the module's named assumption (`SignalAssumption`,
`InstallsAssumption`, `OpcacheAssumption`, `AccelHashAssumption`: types and
non-emptiness only; `FpmAssumption`: also what `fpm_conf_process_all_pools` demands of
a configuration). TLC evaluates the assumptions in the runs.

* **LinkedList.** Lemmas only: what `Reach` holds for the empty list, for a first
  node and the rest, when a node is appended at the tail, and when fields outside of
  it change. Where an induction would be needed, there is `LeastNumber` (a non-empty
  set of numbers has a least one), which follows from the library's well-foundedness
  of `<`: the induction theorems themselves cannot be used by the provers.
* **ZendSignal.** `TypeCorrect`: `[]TypeOK`. `CriticalSectionsRespected`:
  `[]NoHandlerInCriticalSection`. A handler runs only at `depth = 0`, so the
  invariant needed is `DepthCovers`: `depth` is at least the number of sections the
  thread is in, at every control point of the closing bracket in both orders of
  evaluation. A bailout only makes `depth` larger than `open`, and an activation
  resets it when no section is open.
  `NoNodeLeaks`, `NoSignalLost` and `SignalsInOrder`: `[]NodesPartitioned`,
  `[]OwedIsQueued` and the action property `FifoDelivery`, for any size of the
  queue. The invariant `QueueInv` says that the free list and the list that waits
  (pending, or being drained: never both) are disjoint and hold all nodes, that
  `ptail` is the last node of the list that waits, and that stamps rise along it.
  A drain takes the head, whose stamp is then the least; an arrival appends at
  `ptail`, which is right only because `ptail` is not stale while something waits.
* **OpcacheRestart.**
  * `TypeCorrect`: `[]TypeOK`, which includes that no more than `Cap` slots are
    handed out.
  * `AllocationExclusive`: `[]AllocExclusive`. The property is inductive once the
    control points that rely on the lock are stated exactly, including `bailed`,
    where a failed kill has left the lock held until the request ends. The
    interesting cases are the steps that release a lock of another process, `Kill`
    and `Crash`: a process that is killed goes to `idle`.
  * `UsageLockProtects`: `[]ReadersProtected`. The invariant `ReadersInv` adds
    that a process with a guard really holds the usage lock, that a request that
    has not begun to use the cache has none, and that nobody has one while a
    process is between the inactivity check and the reset: those that had one
    were seen by `accel_is_inactive`, and those that come later take their lock
    inside the window. The actions are
    first classified into eight kinds of step by their effect on `usage`, `guard`,
    `epoch` and the window; preservation is proved once per kind.
  * `TableIsCurrent`: `[]CacheCurrent`. The invariant `CacheInv` strengthens "no
    two files share a script" to "no two files share a slot", so that a new
    script, whose slot is above `used`, is different from all others.
  * `StaleKeysFound` and `WasteCounted`: `[]StaleKeysDetected` and
    `[]AccountingExact`, for any number of processes, files and restarts, resetters
    included, under `MaxCrashes = 0`. The hypothesis is a limit of the code and not
    of the proof: a restart empties the memory, the table and the stamps in steps,
    and a process that dies between two of them leaves the rest undone; with one
    crash TLC finds both properties violated. Processes that are killed by a forced
    restart are covered, and so are pointers from before a restart: `AccountingExact`
    says that they are the only source of memory that is counted as wasted and is not.
    `RequestInv` says where the holder of the lock can be and what a request has
    touched before it compares its stamp; `KeysInv` that the stamp is the epoch, or
    one behind it in the two steps before it is written, and no process remembers
    anything older than its own stamp; `CountInv` that outside the step between the
    two resets the valid scripts are as many as `used - (wasted - stray)`. A mark is
    counted once because it is set and tested under the lock, whoever holds an older
    copy of the pointer (`MarkFacts`).
* **AccelHash.** `ChainsSound`: `[]ChainsDescend`. The invariant `ChainInv` adds
  what the writer's control point implies about the entry it is filling: at `fill`
  it is `num + 1`, at `next` and `link` it is `num`, not linked yet, and at `link`
  its `next` is already a linked entry or none. Entries are taken in ascending
  order and linked at the head, so every chain descends; a lookup therefore ends,
  and never sees an entry that is being filled. What dropped entries lead to
  descends as well, so this includes a lookup that a restart has left on one. `DirectEntriesCounted`:
  `[]CountsExact`; `CountInv` corrects the count by the writer's control point.
  Both hold for all names.

  Four theorems assume `NamesDisjoint`, that no path is a file at one time and a link
  at another: `LeadsToData` and `FindsScript` fail without it (section 3), so this
  is again a limit of the code. `TypeCorrect`: `[]TypeOK`. `LookupsCorrect`:
  `[]FindCorrect`, and `LookupsReturnScripts`: `[](LeadsToData /\ FindsScript)`,
  for any number of lookups that run beside the writer and beside restarts. Both say
  nothing of a lookup between whose first and last load a restart drops entries:
  `FindNeedsNoLock` fails for it (section 3), and what holds is that it ends. `TableImplementsMap`:
  `Spec => MapSpec`, the refinement of `AccelMap`. Every step keeps the table, adds
  one entry at the head of one chain, retargets one entry, or drops all
  (`TableSteps`); `LookupOK` says what each of them does to an undisturbed
  lookup of each name, and `ReaderOK` what a reader in the middle of a chain may
  rely on: the entry of its name is ahead of it, unless the name led nowhere at some
  time since the lookup began. Where all is dropped, a reader that has not loaded
  its first pointer, or has loaded its last, relies on nothing in the table, one that
  finds the table empty before has nothing to lose, and every other is torn
  (`ReaderEmptied`).

* **FpmMaster.** `ChildrenAreAccounted`, `LimitsKept`, `EverybodyTold` and
  `NobodyLeftBehind`: `ChildrenAccounted`, `WithinLimits`, `AllTold` and `NoOrphans`
  for any pools, configuration, process ids and bounds. They are proved together,
  by the invariant `IInv`, because they need each other: the master goes when
  `total` is zero, which means that nobody is left only if the counts are exact;
  the counts stay exact because a process is linked in the step that forks it and
  unlinked in the step that reaps it; the limits hold because the guard of each fork
  reads those counts; and the guard of a fork also reads `fpm_state`, so that who
  was told stays all there are. `IInv` adds where the master can be in each state of
  the machine (`Control`). The forty or so actions are first classified into five
  kinds of step (`Quiet`, `Signalling`, `Replaced`, `Forked`, `Buried`) by what they
  do to processes and lists; each part of `IInv` is then proved once per kind.
  `TypeCorrect`: `[]TypeOK`. The maintenance kills the oldest idle child of the list
  of all children, so the types need `Ordered`: the list holds every process that
  exists, once. `Fields` has the rest.

* **PhpOutput.** `HandlersNotReentered`: `[]NotReentered`, and `TypeCorrect`:
  `[]TypeOK`. The invariant is about the C stack (`Shape`): script code of a handler
  is at most once on it and stands directly above the call that waits for it; a
  flush or a push stands at the bottom or above script code; at most one
  handler is on its way back to the stack. `CallsOK` ties it to the layer: while
  `OG(running)` is clear there is no script code on the C stack, and a handler that
  `php_output_flush` has taken off has a place left on the stack to come back to.

  `StackSound`: `[]StackConsistent`, and `CallsWellBracketed`: `[]WellBracketed`, in
  `PhpOutputStackProofs`. Neither is inductive: both speak of points at which script
  code runs, and what holds there depends on the C calls that led to it. `BracketInv`
  says it for every state. `CallsInv` relates each call on the C stack to the call below
  it (`Linked`) and to its handler (`FrameInv`): a flush, a clean or an end that has run
  its handler has no script code below it, unless that handler failed, since
  `php_output_lock_error` was asked before. `StackInv` has each handler on the stack
  once, and `LifeInv` that a handler that had its final call is running, is being
  popped, or is neither active nor on the stack, so that it cannot be called again.
  `SoundInv` is what a bailout destroys and holds until there is one: handlers are
  alive and at their levels, `active` is the top of the stack or the handler that a
  flush at the bottom of the C stack has taken off, and a live handler is on the
  stack, being put back or being freed, so that none is forgotten at the end.

  `OutputKept`: the action property `NothingLost`, in `PhpOutputFlowProofs`. Where data
  is moved the code relies on what is *empty* at that moment: the pass through the
  stack overwrites one of its two buffers at each handler, a pop drops the buffer of
  the handler it frees, and a failed handler's result is taken from its buffer, not
  from what it was given. `FlowInv` says what is empty where (`Carries`, `Passing`),
  that a disabled handler's buffer is, that what a running user handler was given is
  still in its buffer, and that levels are positions (the code asks for level 0 to find
  the last handler, where a position would be meant). Unlike `SoundInv` it survives
  bailouts, which is why it does without liveness and keeps its own `ActiveInv`. Once
  output is disabled, or behaviour is undefined, nothing is claimed (`Exempt`), and no
  step leaves that state.

  `OutputInOrder`: `[]InOrder`, in the same module. The property is stated where no
  data is on its way; in between, some is, in the innermost call and nowhere else.
  `OrderInv` gives that data its place (`Placed`): after what the client has and the
  buffers up to a position of the stack, before the buffers above it. That position
  is where the pass through the stack has come to, one below it once the handler has
  run, and the top of the stack for what a flush or a pop has got out of the active
  handler (`Sorted`). The buffers themselves rise from the client to the top
  (`BuffersRise`), and a handler that has failed or is off the stack has an empty one
  (`AwayEmpty`), so that a pass may skip it and it may return anywhere. `BracketInv` is
  needed for a call that has waited for script code: its handler is still at the
  place at which it was called, or off the stack. `FlowInv` is needed where data goes
  straight to the client: the handler of level 0 is at the bottom. `InOrder` flattens
  the buffers with a recursive function; `FlattenRises` has by `LeastNumber` what it
  computes for a stack of any height. A handler taken off in place of another
  (`misplaced`) is the one way to lose the order, as in the property.

Only model-checked, and why:

* the liveness properties `DeferredIsHandled`, `CacheReenabled`, `FindEnds`,
  `TerminationEnds` and `DynamicRecovers`: liveness and `ENABLED` are out of this
  prover's reach;
* everything about `ZendGc`: its traversals are recursive operators on graphs, about
  which the provers cannot reason at all.

So every invariant and action property that a run checks is a theorem, but for the
cycle collector's; the theorems that need an assumption the code does not guarantee
say so above.

## 5. What is left out of the modelled parts, and why

* `ZendSignal`: the ZTS build (one set of globals per thread; the code is the
  same); the debugging check `SIGG(check)`; `siginfo` and context
  pointers kept in the queue (the memory is outside the model).
* `OpcacheRestart`: additional keys of a script (in `AccelHash`); path resolution,
  permissions and checksums (data, no shared state); the file cache; interned
  strings, whose table is restored in the same step as the memory; ini changes
  (`opcache.enable` is restored before `accel_post_deactivate`); start and
  shutdown of the server; Windows. `request_time` is a number that rises by one
  with each restart, which is the least it can do. A pointer from before a restart
  is one into memory of other contents: the mark and the count made through it are
  modelled, with one script as the amount; what else the store of the mark hits is
  not, nor are lookups of more than one step (in `AccelHash`). A process that dies in the
  middle of a store leaves allocated memory that nobody counts; the store is one
  step, so the model does not show it.
* `AccelHash`: `zend_accel_hash_unlink`, which has no caller; reordering of stores
  by a compiler or processor; a restart between the lookup that finds the bucket for
  a new key and the allocation lock under which `zend_accel_add_key` uses it
  (`AddKey` takes the bucket from the table as it is).
* `FpmMaster`: clocks (a timer that is set may fire at any later time, a fault may
  age out at any time), the slow log with its `ptrace` stops, SIGUSR1 and log
  reopening, the children's output pipes, the counters of the scoreboard, systemd
  and the sockets themselves. A configuration that FPM refuses is excluded by
  `FpmAssumption`. Deaths and failed forks are bounded (`MaxDeaths`,
  `MaxForkFails`).
* `PhpOutput`: conflicts, aliases, hooks and contexts of internal handlers (the
  internal handler is the default one); `php_output_flush_all` and
  `php_output_clean_all`, which nothing calls in a request; `fastcgi_finish_request`
  of FPM, by which a script calls `php_output_end_all` before its end (in the model
  only the end of the request does); implicit flush; a
  `header_register_callback` function that writes, and destructors that run when a
  handler is destroyed; messages printed by errors; functions that only read the
  state. That a default handler passes its buffer without copying it does not show
  without such a header callback.
* `ZendGc`: arrays and references as kinds of their own (a value stands for an
  object, or for an array behind a reference; the symbol table as a member of the
  graph is left out), objects with a `get_gc` of their own, `gc_disable` in the
  middle of a script (`enabled` is chosen in `Init`), exceptions and `exit` in a
  destructor, the end of the request (`zend_objects_store_call_destructors`, an
  unclean shutdown), and assignment over a value, which releases the old one before
  it stores the new one when its count stays above zero. A collection inside a
  destructor is covered for one destructor; two destructors, the second of which
  collects, are beyond the bounds.

Components that have no module are listed with the reason in `PROJECT.json`.

## 6. Plan

1. *Done*: deferred signals, the restart protocol, the hash table with its abstract
   map, the FPM master with its children, the cycle collector, the output layer, and
   the theorems above.
2. `SharedAlloc`: segments, positions and saved state of the allocator; and the
   composition of the hash table with the restart protocol, where the bucket
   `zend_accel_add_key` uses was found before its lock.
3. `TsHash`: the readers-writer protocol of `zend_ts_hash`; the spin locks of the FPM
   scoreboard.
4. Sessions, if their control turns out to be separable from their data.
5. Proofs: the traversals of `ZendGc` as least sets of values, as `LinkedList` does
   it for lists, and then its invariants.

## 7. Running it

    tlc -workers 2 -config MCOpcacheRestart.cfg MCOpcacheRestart
    tlapm OpcacheRestartProofs.tla

A run takes at most three minutes on two workers; the proofs of a module one to five
minutes.
