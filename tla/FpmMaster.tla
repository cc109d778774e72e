------------------------------ MODULE FpmMaster ------------------------------
(***************************************************************************)
(* The FPM master process (sapi/fpm/fpm): its event loop, the reload and   *)
(* termination state machine of fpm_process_ctl.c, and the children of     *)
(* fpm_children.c it forks, signals and buries.                            *)
(*                                                                         *)
(* The master is sequential: every callback of the event loop is a step,   *)
(* or one step per iteration where it loops over fork or waitpid, because  *)
(* children run, die and are signalled meanwhile.  Signals to the master   *)
(* are bytes in a socket pair; signals to a child stay pending until the   *)
(* child is scheduled, and a child that has not reached                    *)
(* fpm_signals_init_child still has the master's handler, which ignores    *)
(* them.  A request is "busy" from accept to its end; clocks are left out, *)
(* so a timer that is set may fire at any later time.                      *)
(***************************************************************************)
EXTENDS Integers, Sequences, FiniteSets, FiniteSetsExt, SequencesExt

CONSTANTS
    NPools,        \* worker pools, in the order of fpm_worker_all_pools
    Config,        \* their configuration
    ProcessMax,    \* process.max, 0 for no limit
    Threshold,     \* emergency_restart_threshold, 0 when it is off
    MaxSpawnRate,  \* FPM_MAX_SPAWN_RATE
    Pids,          \* process ids the kernel hands out, reused after waitpid
    Commands,      \* the signals an administrator sends: "T", "Q", "2"
    MaxCommands,   \* bound: commands sent in a behaviour
    MaxDeaths,     \* bound: children that fault or retire (max_requests)
    MaxForkFails,  \* bound: failures of fork or of the resources it needs
    MaxConn        \* bound: connections waiting at a listening socket

Pools == 1..NPools

\* fpm_conf_process_all_pools refuses any other configuration
ASSUME FpmAssumption ==
    /\ NPools \in Nat
    /\ Config \in [Pools -> [pm : {"static", "dynamic", "ondemand"},
                             max_children : Nat \ {0}, start_servers : Nat,
                             min_spare : Nat, max_spare : Nat]]
    /\ \A p \in Pools : Config[p].pm = "dynamic" =>
          /\ Config[p].min_spare \in 1..Config[p].max_spare
          /\ Config[p].start_servers \in Config[p].min_spare..Config[p].max_spare
          /\ Config[p].max_spare <= Config[p].max_children
    /\ ProcessMax \in Nat /\ Threshold \in Nat /\ MaxSpawnRate \in Nat \ {0}
    /\ IsFiniteSet(Pids)
    /\ Commands \subseteq {"T", "Q", "2"}
    /\ MaxCommands \in Nat /\ MaxDeaths \in Nat /\ MaxForkFails \in Nat
    /\ MaxConn \in Nat

Live    == {"starting", "idle", "busy", "lastreq"}
Dead    == {"exited", "killed", "fault"}      \* zombies, by waitpid's status
Signals == {"QUIT", "TERM", "KILL"}

VARIABLES
    pc,            \* control point of the master
    ret,           \* where fpm_children_make returns to
    at,            \* pool the startup or the maintenance is at
    make,          \* [pool, max] of the call of fpm_children_make
    fpm_state, signal_sent,
    timer,         \* pctl_event is in the timer queue
    pipe,          \* bytes in the socket pair of fpm_signals.c
    children,      \* wp->children of each pool
    order,         \* all linked children, oldest first
    running,       \* wp->running_children
    total,         \* fpm_globals.running_children
    spawn_rate,    \* wp->idle_spawn_rate
    idle_kill,     \* children with idle_kill set
    fresh,         \* faults within emergency_restart_interval, up to Threshold
    st,            \* state of each process
    pool,          \* the pool a process serves
    pend,          \* signals pending at a process
    accepting,     \* children whose scoreboard slot says FPM_REQUEST_ACCEPTING
    conn,          \* connections waiting at the socket of each pool
    ready,         \* edge triggered event of a socket not yet handled
    commands, deaths, forkFails,
    told           \* history: children that were sent signal_sent

ctlVars   == <<pc, ret, at, make>>
pctlVars  == <<fpm_state, signal_sent, timer, told>>
childVars == <<children, order, running, total, pool>>
procVars  == <<st, pend, accepting>>
sockVars  == <<conn, ready>>
boundVars == <<commands, deaths, forkFails>>
vars == <<ctlVars, pctlVars, pipe, childVars, spawn_rate, idle_kill, fresh,
          procVars, sockVars, boundVars>>

NoMake == [pool |-> 0, max |-> 0]

Init ==
    /\ pc = "init" /\ ret = "start" /\ at = 1 /\ make = NoMake
    /\ fpm_state = "normal" /\ signal_sent = "none" /\ timer = FALSE
    /\ told = {} /\ pipe = <<>>
    /\ children = [p \in Pools |-> {}] /\ order = <<>>
    /\ running = [p \in Pools |-> 0] /\ total = 0
    /\ spawn_rate = [p \in Pools |-> 1] /\ idle_kill = {} /\ fresh = 0
    /\ st = [c \in Pids |-> "none"] /\ pool = [c \in Pids |-> 0]
    /\ pend = [c \in Pids |-> {}] /\ accepting = {}
    /\ conn = [p \in Pools |-> 0] /\ ready = [p \in Pools |-> FALSE]
    /\ commands = 0 /\ deaths = 0 /\ forkFails = 0

\* execvp or exit: the memory of the master image is gone, the pipe (closed on
\* exec) with whatever is still in it
Image(where) ==
    /\ pc' = where /\ ret' = "start" /\ at' = 1 /\ make' = NoMake
    /\ fpm_state' = "normal" /\ signal_sent' = "none" /\ timer' = FALSE
    /\ told' = {} /\ pipe' = <<>>
    /\ children' = [p \in Pools |-> {}] /\ order' = <<>>
    /\ running' = [p \in Pools |-> 0] /\ total' = 0
    /\ spawn_rate' = [p \in Pools |-> 1] /\ idle_kill' = {} /\ fresh' = 0

Linked == UNION {children[p] : p \in Pools}

-----------------------------------------------------------------------------
(* fpm_process_ctl.c: the state machine *)

\* fpm_pctl, ACTION_SET: which state may replace which
Overrides(old, new) ==
    \/ old = "normal" /\ new # "normal"
    \/ old = "reloading" /\ new \in {"finishing", "terminating"}
    \/ old = "finishing" /\ new = "terminating"

\* mutant: SIGTERM again instead of SIGKILL
NextSignal_NoKill(state, sent) ==
    IF sent = "none" /\ state # "terminating" THEN "QUIT" ELSE "TERM"

\* fpm_pctl_action_next: the signal that follows the one already sent
NextSignal(state, sent) ==
    CASE sent = "none" -> IF state = "terminating" THEN "TERM" ELSE "QUIT"
      [] sent = "QUIT" -> "TERM"
      [] OTHER         -> "KILL"

\* fpm_pctl_action_last: fpm_pctl_exec, whose execvp may fail, or
\* fpm_pctl_exit
ActionLast(state) ==
    \/ state = "reloading" /\ Image("init")
    \/ Image("gone")

\* fpm_pctl_kill_all; a signal to a zombie has no effect
KillAll(linked, sig) ==
    /\ pend' = [c \in Pids |-> IF c \in linked /\ st[c] \in Live
                               THEN pend[c] \cup {sig} ELSE pend[c]]
    /\ told' = linked

\* fpm_pctl_action_next with children left; armed: whether pctl_event is in
\* the timer queue afterwards
ActionNext(state, sent, linked, armed) ==
    LET sig == NextSignal(state, sent)
    IN  /\ KillAll(linked, sig)
        /\ fpm_state' = state
        /\ signal_sent' = sig
        /\ timer' = armed

\* fpm_pctl(new, ACTION_SET) with children left
PctlSet(new, linked) ==
    IF Overrides(fpm_state, new)
    THEN ActionNext(new, "none", linked, TRUE)
    ELSE UNCHANGED <<pctlVars, pend>>

StateOf(byte) == CASE byte = "T" -> "terminating"
                   [] byte = "Q" -> "finishing"
                   [] byte = "2" -> "reloading"

\* fpm_got_signal, one byte of the pipe that is a command
GotCommand ==
    /\ pc = "loop" /\ pipe # <<>> /\ Head(pipe) # "C"
    /\ LET new == StateOf(Head(pipe))
       IN  IF Overrides(fpm_state, new) /\ total = 0
           THEN ActionLast(new) /\ UNCHANGED <<pool, pend>>
           ELSE /\ PctlSet(new, Linked)
                /\ pipe' = Tail(pipe)
                /\ UNCHANGED <<ctlVars, childVars, spawn_rate, idle_kill, fresh>>
    /\ UNCHANGED <<st, accepting, sockVars, boundVars>>

\* fpm_got_signal, SIGCHLD: fpm_children_bury begins
GotSigchld ==
    /\ pc = "loop" /\ pipe # <<>> /\ Head(pipe) = "C"
    /\ pipe' = Tail(pipe)
    /\ pc' = "bury"
    /\ UNCHANGED <<ret, at, make, pctlVars, childVars, spawn_rate, idle_kill,
                   fresh, procVars, sockVars, boundVars>>

\* fpm_pctl_action.  The event loop removes a timer that is not persistent
\* after its callback: fpm_pctl_timeout_set, called by the callback, finds
\* pctl_event still queued and adds nothing.
TimerFires ==
    /\ pc = "loop" /\ timer
    /\ IF total = 0
       THEN ActionLast(fpm_state) /\ UNCHANGED <<pool, pend>>
       ELSE /\ ActionNext(fpm_state, signal_sent, Linked, FALSE)
            /\ UNCHANGED <<ctlVars, childVars, pipe, spawn_rate, idle_kill, fresh>>
    /\ UNCHANGED <<st, accepting, sockVars, boundVars>>

-----------------------------------------------------------------------------
(* fpm_children.c: forking and burying *)

\* fpm_children_make: how far the pool may grow
MakeMax(p, starting, n) ==
    CASE Config[p].pm = "static" -> Config[p].max_children
      [] Config[p].pm = "dynamic" /\ starting -> Config[p].start_servers
      [] OTHER -> n

\* mutant: the state is not looked at
CanSpawn_Always == TRUE

\* fpm_pctl_can_spawn_children
CanSpawn == fpm_state = "normal"

\* mutant: process.max is forgotten
MayFork_NoProcessMax == CanSpawn /\ running[make.pool] < make.max

\* the condition of the loop in fpm_children_make
MayFork ==
    /\ CanSpawn
    /\ running[make.pool] < make.max
    /\ ProcessMax < 1 \/ total < ProcessMax

\* mutant: the child is counted in its pool only
Link_PoolOnly(p, c) ==
    /\ children' = [children EXCEPT ![p] = @ \cup {c}]
    /\ running' = [running EXCEPT ![p] = @ + 1]
    /\ order' = Append(order, c)
    /\ UNCHANGED total

\* fpm_child_link
Link(p, c) ==
    /\ children' = [children EXCEPT ![p] = @ \cup {c}]
    /\ running' = [running EXCEPT ![p] = @ + 1]
    /\ total' = total + 1
    /\ order' = Append(order, c)

\* fpm_child_unlink
Unlink(p, c) ==
    /\ children' = [children EXCEPT ![p] = @ \ {c}]
    /\ running' = [running EXCEPT ![p] = @ - 1]
    /\ total' = total - 1
    /\ order' = RemoveAt(order, CHOOSE i \in DOMAIN order : order[i] = c)

\* one iteration of fpm_children_make, in the master
Fork(c) ==
    /\ pc = "make" /\ MayFork /\ st[c] = "none"
    /\ Link(make.pool, c)
    /\ st' = [st EXCEPT ![c] = "starting"]
    /\ pool' = [pool EXCEPT ![c] = make.pool]
    /\ UNCHANGED <<ctlVars, pctlVars, pipe, spawn_rate, idle_kill, fresh, pend,
                   accepting, sockVars, boundVars>>

MakeDone ==
    /\ pc = "make" /\ ~MayFork
    /\ pc' = ret /\ make' = NoMake
    /\ UNCHANGED <<ret, at, pctlVars, pipe, childVars, spawn_rate, idle_kill,
                   fresh, procVars, sockVars, boundVars>>

\* fork() or fpm_resources_prepare fails.  Only fpm_run looks at the result.
ForkFails ==
    /\ pc = "make" /\ MayFork /\ forkFails < MaxForkFails
    /\ forkFails' = forkFails + 1
    /\ IF ret = "start" /\ total = 0
       THEN ActionLast("terminating") /\ UNCHANGED <<pool, pend>>
       ELSE /\ IF ret = "start" THEN PctlSet("terminating", Linked)
                                ELSE UNCHANGED <<pctlVars, pend>>
            /\ pc' = IF ret = "start" THEN "loop" ELSE ret
            /\ make' = NoMake
            /\ UNCHANGED <<ret, at, pipe, childVars, spawn_rate, idle_kill, fresh>>
    /\ UNCHANGED <<st, accepting, sockVars, commands, deaths>>

\* fpm_children_bury: "if it's been killed because of dynamic process
\* management don't restart it automaticaly"
Restarts(c) == ~(c \in idle_kill /\ st[c] = "exited")

\* last_faults: the faults of the interval, with the one of c
FaultLevel(c) ==
    IF Threshold > 0 /\ st[c] = "fault" THEN Min({fresh + 1, Threshold}) ELSE fresh
Emergency(c) == Threshold > 0 /\ st[c] = "fault" /\ FaultLevel(c) = Threshold

\* mutant: the children of one pool are counted
LastChild_OfPool(c) == running[pool[c]] = 1

\* fpm_pctl_child_exited: !fpm_globals.running_children once c is unlinked
LastChild(c) == total = 1

\* fpm_children_bury, one child that waitpid returns
Bury(c) ==
    LET p      == pool[c]
        reload == Emergency(c) /\ fpm_state = "normal"
        state  == IF reload THEN "reloading" ELSE fpm_state
    IN  /\ pc = "bury" /\ st[c] \in Dead /\ c \in Linked
        /\ st' = [st EXCEPT ![c] = "none"]
        /\ pool' = [pool EXCEPT ![c] = 0]
        /\ accepting' = accepting \ {c}
        /\ IF state # "normal" /\ LastChild(c)
           THEN ActionLast(state) /\ UNCHANGED pend
           ELSE /\ IF reload
                   THEN ActionNext("reloading", "none", Linked \ {c}, TRUE)
                   ELSE /\ told' = told \ {c}
                        /\ UNCHANGED <<fpm_state, signal_sent, timer, pend>>
                /\ Unlink(p, c)
                /\ idle_kill' = idle_kill \ {c}
                /\ fresh' = FaultLevel(c)
                /\ IF Restarts(c)
                   THEN /\ pc' = "make" /\ ret' = "bury"
                        /\ make' = [pool |-> p, max |-> MakeMax(p, FALSE, running[p])]
                   ELSE UNCHANGED <<pc, ret, make>>
                /\ UNCHANGED <<at, pipe, spawn_rate>>
        /\ UNCHANGED <<sockVars, boundVars>>

BuryDone ==
    /\ pc = "bury" /\ \A c \in Pids : st[c] \notin Dead
    /\ pc' = "loop"
    /\ UNCHANGED <<ret, at, make, pctlVars, pipe, childVars, spawn_rate,
                   idle_kill, fresh, procVars, sockVars, boundVars>>

-----------------------------------------------------------------------------
(* Startup, idle server maintenance, sockets of ondemand pools *)

\* fpm_init up to fpm_signals_init_main: from here on signals go to the pipe
InitMain ==
    /\ pc = "init"
    /\ pc' = "start"
    /\ UNCHANGED <<ret, at, make, pctlVars, pipe, childVars, spawn_rate,
                   idle_kill, fresh, procVars, sockVars, boundVars>>

\* fpm_run and fpm_children_create_initial: one pool
StartPool ==
    /\ pc = "start" /\ at <= NPools
    /\ at' = at + 1
    /\ IF Config[at].pm = "ondemand"
       THEN /\ ready' = [ready EXCEPT ![at] = conn[at] > 0]
            /\ UNCHANGED <<pc, make>>
       ELSE /\ pc' = "make" /\ make' = [pool |-> at, max |-> MakeMax(at, TRUE, 0)]
            /\ UNCHANGED ready
    /\ ret' = "start"
    /\ UNCHANGED <<pctlVars, pipe, childVars, spawn_rate, idle_kill, fresh,
                   procVars, conn, boundVars>>

\* fpm_event_loop begins, or the maintenance of the last pool is done
LoopOver ==
    /\ pc \in {"start", "maint"} /\ at > NPools
    /\ pc' = "loop" /\ at' = 1
    /\ UNCHANGED <<ret, make, pctlVars, pipe, childVars, spawn_rate, idle_kill,
                   fresh, procVars, sockVars, boundVars>>

\* fpm_pctl_perform_idle_server_maintenance_heartbeat
MaintainBegin ==
    /\ pc = "loop" /\ CanSpawn
    /\ pc' = "maint" /\ at' = 1
    /\ UNCHANGED <<ret, make, pctlVars, pipe, childVars, spawn_rate, idle_kill,
                   fresh, procVars, sockVars, boundVars>>

\* fpm_request_is_idle: what the slot says, also of a child that is dead
Idle(p)       == children[p] \cap accepting
OldestIdle(p) == order[Min({i \in DOMAIN order : order[i] \in Idle(p)})]

\* idle_kill = 1 and fpm_pctl_kill(QUIT) for the oldest idle child
KillIdle(p) ==
    LET c == OldestIdle(p)
    IN  /\ idle_kill' = idle_kill \cup {c}
        /\ pend' = IF st[c] \in Live THEN [pend EXCEPT ![c] = @ \cup {"QUIT"}]
                                     ELSE pend

\* mutants: one child fewer than pm.max_children; a rate without limit
ToFork_OffByOne(p, idle) ==
    Min({spawn_rate[p], Config[p].min_spare - idle,
         Config[p].max_children - running[p] - 1})
Doubled_NoCap(rate) == 2 * rate

\* children_to_fork
ToFork(p, idle) ==
    Min({spawn_rate[p], Config[p].min_spare - idle,
         Config[p].max_children - running[p]})

\* "Double the spawn rate for the next iteration"
Doubled(rate) == IF rate < MaxSpawnRate THEN 2 * rate ELSE rate

\* fpm_pctl_perform_idle_server_maintenance, dynamic pools
MaintainDynamic(p) ==
    LET idle == Cardinality(Idle(p))
    IN  /\ Config[p].pm = "dynamic"
        /\ \/ /\ idle > Config[p].max_spare
              /\ KillIdle(p)
              /\ spawn_rate' = [spawn_rate EXCEPT ![p] = 1]
              /\ UNCHANGED <<pc, ret, make>>
           \/ /\ \/ idle \in Config[p].min_spare..Config[p].max_spare
                 \/ idle < Config[p].min_spare /\ ToFork(p, idle) <= 0
              /\ spawn_rate' = [spawn_rate EXCEPT ![p] = 1]
              /\ UNCHANGED <<pc, ret, make, pend, idle_kill>>
           \/ /\ idle < Config[p].min_spare /\ ToFork(p, idle) > 0
              /\ spawn_rate' = [spawn_rate EXCEPT ![p] = Doubled(@)]
              /\ pc' = "make" /\ ret' = "maint"
              /\ make' = [pool |-> p, max |-> running[p] + ToFork(p, idle)]
              /\ UNCHANGED <<pend, idle_kill>>

\* ... and the others: an ondemand child may have been idle for too long
MaintainOther(p) ==
    /\ Config[p].pm # "dynamic"
    /\ \/ Config[p].pm = "ondemand" /\ Idle(p) # {} /\ KillIdle(p)
       \/ UNCHANGED <<pend, idle_kill>>
    /\ UNCHANGED <<pc, ret, make, spawn_rate>>

MaintainPool ==
    /\ pc = "maint" /\ at <= NPools
    /\ MaintainDynamic(at) \/ MaintainOther(at)
    /\ at' = at + 1
    /\ UNCHANGED <<pctlVars, pipe, childVars, fresh, st, accepting, sockVars,
                   boundVars>>

\* fpm_pctl_on_socket_accept: a connection came to an ondemand pool
OnSocketAccept(p) ==
    /\ pc = "loop" /\ ready[p] /\ Config[p].pm = "ondemand"
    /\ ready' = [ready EXCEPT ![p] = FALSE]
    /\ IF running[p] < Config[p].max_children /\ Idle(p) = {}
       THEN /\ pc' = "make" /\ ret' = "loop"
            /\ make' = [pool |-> p, max |-> running[p] + 1]
       ELSE UNCHANGED <<pc, ret, make>>
    /\ UNCHANGED <<at, pctlVars, pipe, childVars, spawn_rate, idle_kill, fresh,
                   procVars, conn, boundVars>>

\* fpm_pctl_heartbeat: SIGTERM for the children whose request timed out
RequestTimeout ==
    /\ pc = "loop"
    /\ \E late \in SUBSET {c \in Linked : st[c] \in {"busy", "lastreq"}} :
          /\ late # {}
          /\ pend' = [c \in Pids |-> IF c \in late THEN pend[c] \cup {"TERM"}
                                     ELSE pend[c]]
    /\ UNCHANGED <<ctlVars, pctlVars, pipe, childVars, spawn_rate, idle_kill,
                   fresh, st, accepting, sockVars, boundVars>>

-----------------------------------------------------------------------------
(* Children *)

masterVars == <<ctlVars, pctlVars, childVars, spawn_rate, idle_kill, fresh>>

\* a byte is written by sig_handler; a second 'C' would only bury again
Written(byte) ==
    IF byte = "C" /\ Contains(pipe, "C") THEN pipe ELSE Append(pipe, byte)

\* the process ends; the master gets SIGCHLD.  Its slot keeps its stage.
Dies(c, how) ==
    /\ st' = [st EXCEPT ![c] = how]
    /\ pend' = [pend EXCEPT ![c] = {}]
    /\ pipe' = Written("C")

\* fpm_child_init, fpm_signals_init_child, then fpm_request_accepting
ChildInit(c) ==
    /\ st[c] = "starting"
    /\ st' = [st EXCEPT ![c] = "idle"]
    /\ accepting' = accepting \cup {c}
    /\ UNCHANGED <<masterVars, pipe, pend, sockVars, boundVars>>

\* fpm_child_init fails: exit(FPM_EXIT_SOFTWARE)
ChildInitFails(c) ==
    /\ st[c] = "starting" /\ forkFails < MaxForkFails
    /\ forkFails' = forkFails + 1
    /\ Dies(c, "exited")
    /\ UNCHANGED <<masterVars, accepting, sockVars, commands, deaths>>

Accept(c) ==
    /\ st[c] = "idle" /\ conn[pool[c]] > 0
    /\ conn' = [conn EXCEPT ![pool[c]] = @ - 1]
    /\ st' = [st EXCEPT ![c] = "busy"]
    /\ accepting' = accepting \ {c}
    /\ UNCHANGED <<masterVars, pipe, pend, ready, boundVars>>

\* the end of a request: the child accepts again
EndRequest(c) ==
    /\ st[c] = "busy"
    /\ st' = [st EXCEPT ![c] = "idle"]
    /\ accepting' = accepting \cup {c}
    /\ UNCHANGED <<masterVars, pipe, pend, sockVars, boundVars>>

\* the request that reaches max_requests
Retire(c) ==
    /\ st[c] = "busy" /\ deaths < MaxDeaths
    /\ deaths' = deaths + 1
    /\ Dies(c, "exited")
    /\ UNCHANGED <<masterVars, accepting, sockVars, commands, forkFails>>

\* the end of the request SIGQUIT came in: fcgi_accept_request returns at once
LastRequest(c) ==
    /\ st[c] = "lastreq"
    /\ Dies(c, "exited")
    /\ UNCHANGED <<masterVars, accepting, sockVars, boundVars>>

\* SIGSEGV or SIGBUS in a request
Fault(c) ==
    /\ st[c] \in {"busy", "lastreq"} /\ deaths < MaxDeaths
    /\ deaths' = deaths + 1
    /\ Dies(c, "fault")
    /\ UNCHANGED <<masterVars, accepting, sockVars, commands, forkFails>>

\* sig_handler in a child that has not set its own handlers: nothing
Ignore(c) ==
    /\ st[c] = "starting" /\ pend[c] \cap {"QUIT", "TERM"} # {}
    /\ pend' = [pend EXCEPT ![c] = @ \cap {"KILL"}]
    /\ UNCHANGED <<masterVars, pipe, st, accepting, sockVars, boundVars>>

\* sig_soft_quit: an idle child leaves fcgi_accept_request and exits, a busy
\* one does so at the end of its request
SoftQuit(c) ==
    /\ st[c] \in {"idle", "busy", "lastreq"} /\ "QUIT" \in pend[c]
    /\ IF st[c] = "idle"
       THEN Dies(c, "exited")
       ELSE /\ st' = [st EXCEPT ![c] = "lastreq"]
            /\ pend' = [pend EXCEPT ![c] = @ \ {"QUIT"}]
            /\ UNCHANGED pipe
    /\ UNCHANGED <<masterVars, accepting, sockVars, boundVars>>

\* SIGTERM with its default action, SIGKILL
Killed(c) ==
    /\ \/ st[c] \in Live /\ "KILL" \in pend[c]
       \/ st[c] \in Live \ {"starting"} /\ "TERM" \in pend[c]
    /\ Dies(c, "killed")
    /\ UNCHANGED <<masterVars, accepting, sockVars, boundVars>>

-----------------------------------------------------------------------------
(* The world *)

\* a command reaches the master: sig_handler, or before it is installed the
\* default action
Command(byte) ==
    /\ commands < MaxCommands /\ pc # "gone"
    /\ commands' = commands + 1
    /\ IF pc = "init" THEN Image("gone")
       ELSE pipe' = Written(byte) /\ UNCHANGED masterVars
    /\ UNCHANGED <<pool, procVars, sockVars, deaths, forkFails>>

Connect(p) ==
    /\ pc # "gone" /\ conn[p] < MaxConn
    /\ conn' = [conn EXCEPT ![p] = @ + 1]
    /\ ready' = [ready EXCEPT ![p] = Config[p].pm = "ondemand"]
    /\ UNCHANGED <<masterVars, pipe, procVars, boundVars>>

\* the oldest fault leaves emergency_restart_interval
FaultExpires ==
    /\ fresh > 0
    /\ fresh' = fresh - 1
    /\ UNCHANGED <<ctlVars, pctlVars, pipe, childVars, spawn_rate, idle_kill,
                   procVars, sockVars, boundVars>>

-----------------------------------------------------------------------------
Make     == MakeDone \/ ForkFails \/ \E c \in Pids : Fork(c)
BuryAll  == BuryDone \/ \E c \in Pids : Bury(c)
Start    == InitMain \/ StartPool
Maintain == MaintainBegin \/ MaintainPool \/ LoopOver
GotSignal == GotCommand \/ GotSigchld

Signalled(c) == Ignore(c) \/ SoftQuit(c) \/ Killed(c)
Request(c)   == Accept(c) \/ EndRequest(c) \/ Retire(c) \/ LastRequest(c)
                \/ Fault(c)

Next ==
    \/ GotSignal \/ TimerFires \/ Make \/ BuryAll \/ Start \/ Maintain
    \/ RequestTimeout \/ FaultExpires
    \/ \E p \in Pools : OnSocketAccept(p) \/ Connect(p)
    \/ \E c \in Pids : ChildInit(c) \/ ChildInitFails(c) \/ Request(c) \/ Signalled(c)
    \/ \E byte \in Commands : Command(byte)

\* The event loop serves every descriptor and every timer that is due in each
\* round; between them the master finishes what it is in.  A child is
\* scheduled: it starts and receives its signals.  Nothing is assumed of how
\* long a request runs or whether one comes.
Fairness ==
    /\ WF_vars(Make) /\ WF_vars(BuryAll) /\ WF_vars(Start)
    /\ WF_vars(MaintainPool \/ LoopOver)
    /\ SF_vars(GotSignal) /\ SF_vars(TimerFires) /\ SF_vars(MaintainBegin)
    /\ \A p \in Pools : SF_vars(OnSocketAccept(p))
    /\ \A c \in Pids : WF_vars(ChildInit(c)) /\ WF_vars(Signalled(c))

Spec     == Init /\ [][Next]_vars
FairSpec == Spec /\ Fairness

-----------------------------------------------------------------------------
(* Properties *)

\* Every variable has its type.
TypeOK ==
    /\ pc \in {"init", "start", "loop", "make", "bury", "maint", "gone"}
    /\ ret \in {"start", "loop", "bury", "maint"}
    /\ at \in 1..(NPools + 1)
    /\ make = NoMake \/ make \in [pool : Pools, max : Nat]
    /\ fpm_state \in {"normal", "reloading", "finishing", "terminating"}
    /\ signal_sent \in Signals \cup {"none"} /\ timer \in BOOLEAN
    /\ pipe \in Seq({"T", "Q", "2", "C"})
    /\ children \in [Pools -> SUBSET Pids] /\ order \in Seq(Pids)
    /\ running \in [Pools -> Nat] /\ total \in Nat
    /\ spawn_rate \in [Pools -> 1..(2 * MaxSpawnRate - 1)]
    /\ idle_kill \subseteq Pids /\ fresh \in 0..Threshold /\ told \subseteq Pids
    /\ st \in [Pids -> Live \cup Dead \cup {"none"}]
    /\ pool \in [Pids -> 0..NPools] /\ pend \in [Pids -> SUBSET Signals]
    /\ accepting \subseteq Pids
    /\ conn \in [Pools -> 0..MaxConn] /\ ready \in [Pools -> BOOLEAN]
    /\ commands \in 0..MaxCommands /\ deaths \in 0..MaxDeaths
    /\ forkFails \in 0..MaxForkFails

\* fpm_children_bury never meets an unknown child ("oops, unknown child"):
\* every process of the kernel is linked in exactly the pool it serves, and
\* the counters that decide about forking and about exiting count them.
ChildrenAccounted ==
    /\ \A p \in Pools : /\ children[p] = {c \in Pids : st[c] # "none" /\ pool[c] = p}
                        /\ running[p] = Cardinality(children[p])
    /\ total = Cardinality(Linked)

\* No pool ever has more processes than pm.max_children, zombies that are not
\* buried yet included (each holds a slot of the scoreboard), and all pools
\* together not more than process.max.
WithinLimits ==
    /\ \A p \in Pools : Cardinality(children[p]) <= Config[p].max_children
    /\ ProcessMax > 0 => total <= ProcessMax

\* Once the master stops its children, every process that is left has been
\* sent the signal it is waiting for them to obey: none was forked since.
AllTold == fpm_state # "normal" => {c \in Pids : st[c] # "none"} \subseteq told

\* The master exits or executes itself only when no child is left: a new
\* master never finds a process it does not know.
NoOrphans == pc \in {"init", "gone"} => \A c \in Pids : st[c] = "none"

Stopping == fpm_state \in {"reloading", "finishing"}

\* SIGTERM ends the master ("immediate termination"), whatever its children do
\* and also when they were forked a moment ago and ignore the first signal.
\* A reload or a graceful stop ends although a request never does, when all
\* children have their handlers by the time the escalation to SIGTERM is due:
\* it is the only one that follows.
TerminationEnds ==
    /\ fpm_state = "terminating" ~> pc = "gone"
    /\ Stopping /\ signal_sent = "QUIT" /\ timer /\ (\A c \in Pids : st[c] # "starting")
           ~> ~Stopping

Unserved(p) ==
    conn[p] > 0 /\ children[p] = {} /\ fpm_state = "normal" /\ pc # "gone"
    /\ (ProcessMax = 0 \/ total < ProcessMax)

\* A dynamic pool that lost all its children, also to failures of fork, gets
\* one when a connection waits for it.
DynamicRecovers ==
    \A p \in Pools : Config[p].pm = "dynamic" => (Unserved(p) ~> ~Unserved(p))

\* The same of an ondemand pool: "if there is at least on idle child, it will
\* handle the connection" (fpm_pctl_on_socket_accept).
OndemandServed ==
    \A p \in Pools : Config[p].pm = "ondemand" => (Unserved(p) ~> ~Unserved(p))

\* A reload or a graceful stop ends: process_control_timeout is the "time
\* limit for child processes to wait for a reaction on signals from master".
GracefulEnds == Stopping ~> ~Stopping

=============================================================================
