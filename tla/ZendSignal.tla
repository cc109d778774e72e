----------------------------- MODULE ZendSignal -----------------------------
(***************************************************************************)
(* Deferred signal handling of the Zend engine (Zend/zend_signal.c), non-  *)
(* ZTS build.  One thread runs requests; inside a critical section         *)
(* (HANDLE_BLOCK_INTERRUPTIONS) signals are queued in a fixed pool of list *)
(* nodes and run when the section ends.  A signal may arrive between any   *)
(* two steps of the thread unless it has masked signals; while a handler   *)
(* runs, global_sigmask masks all the others, so the loop of a handler,   *)
(* modelled step by step, is not itself interrupted.                       *)
(*                                                                         *)
(* A signal handler body is abstract: it is SIG_DFL (kills the process:    *)
(* every signal of zend_sigs terminates by default), SIG_IGN or a function *)
(* that returns.                                                           *)
(***************************************************************************)
EXTENDS Integers, FiniteSets, LinkedList

CONSTANTS
    Signals,       \* the signals of zend_sigs
    QueueSize,     \* ZEND_SIGNAL_QUEUE_SIZE
    MaxDepth,      \* bound: nesting of critical sections
    MaxSignals,    \* bound: signals delivered in a behaviour
    MaxRequests,   \* bound: requests served
    Installs,      \* the entries zend_sigaction is called with
    Builds         \* the builds considered, each the set of orders in which it
                   \* evaluates (SIGG(depth)--) == SIGG(blocked): C leaves it
                   \* open, and it may differ from one place to the next

ASSUME SignalAssumption ==
    /\ QueueSize \in Nat \ {0}
    /\ MaxDepth \in Nat \ {0}
    /\ MaxSignals \in Nat
    /\ MaxRequests \in Nat
    /\ Builds \subseteq SUBSET {"decFirst", "readFirst"}

NULL  == 0
Nodes == 1..QueueSize           \* SIGG(pstorage)

Flags   == {"SIGINFO", "RESETHAND"}
Entry   == [flags : SUBSET Flags, handler : {"DFL", "IGN", "FN"}]

ASSUME InstallsAssumption == Installs \subseteq Entry

Default == [flags |-> {}, handler |-> "DFL"]
NoSig   == "none"

VARIABLES
    pc,        \* control point of the thread
    open,      \* critical sections the thread has entered and will leave
    old,       \* value of SIGG(depth) before the decrement, in UNBLOCK
    seen,      \* value of SIGG(blocked) read by UNBLOCK
    new,       \* <<signal, entry>> being installed by zend_sigaction
    depth, blocked, running, active,
    handlers,  \* SIGG(handlers), the entries of zend_sigs
    orig,      \* global_orig_handlers
    build,     \* the build that runs, a member of Builds
    kernel,    \* disposition in the kernel: original, zend_signal_handler_defer, SIG_IGN
    next, signo, phead, ptail, pavail,
    hq,        \* local variable queue of zend_signal_handler_defer
    alive,     \* "up", "killed" (default action), "segv"
    requests, delivered,
    stamp,     \* history: number of the delivery a node holds
    owed       \* history: deliveries deferred and not yet handled

queueVars == <<next, signo, phead, ptail, pavail, stamp, owed>>
fixedVars == <<orig, build>>
envVars   == <<fixedVars, kernel, hq, alive, requests, delivered>>
mainVars  == <<pc, open, old, seen, new, fixedVars, kernel, requests>>
vars == <<pc, open, old, seen, new, depth, blocked, running, active, handlers,
          orig, build, kernel, next, signo, phead, ptail, pavail, hq, alive, requests,
          delivered, stamp, owed>>

\* zend_signal_globals_ctor pushes pstorage[0], pstorage[1], ... on pavail;
\* zend_signal_init saves the dispositions found at startup.
Init ==
    /\ pc = "off" /\ open = 0 /\ old = 0 /\ seen = 0 /\ new = <<>>
    /\ depth = 0 /\ blocked = 0 /\ running = 0 /\ active = 0
    /\ orig \in [Signals -> {Default, [flags |-> {}, handler |-> "FN"]}]
    /\ build \in Builds
    /\ handlers = [s \in Signals |-> Default]
    /\ kernel = [s \in Signals |-> "original"]
    /\ next = [n \in Nodes |-> n - 1]
    /\ signo = [n \in Nodes |-> NoSig]
    /\ phead = NULL /\ ptail = NULL /\ pavail = QueueSize
    /\ hq = NULL /\ alive = "up" /\ requests = 0 /\ delivered = 0
    /\ stamp = [n \in Nodes |-> 0] /\ owed = {}

\* the thread itself executes: it is alive and no handler is on top of it
Thread(at) == alive = "up" /\ running = 0 /\ pc = at

-----------------------------------------------------------------------------
(* Requests: php_request_startup, php_request_shutdown *)

\* zend_signal_activate: memcpy of the original handlers
ActivateCopy ==
    /\ Thread("off") /\ requests < MaxRequests
    /\ handlers' = orig
    /\ requests' = requests + 1
    /\ pc' = "activate"
    /\ UNCHANGED <<open, old, seen, new, depth, blocked, running, active,
                   fixedVars, kernel, hq, alive, delivered, queueVars>>

\* zend_signal_register: nothing when our handler is already in place, else
\* what the kernel has becomes the handler to call and we install ours
Registered(s) ==
    CASE kernel[s] = "defer"    -> handlers[s]
      [] kernel[s] = "ignored"  -> [flags |-> {}, handler |-> "IGN"]
      [] kernel[s] = "original" -> orig[s]

\* zend_signal_activate: the loop over zend_sigs, then active = 1, depth = 0
ActivateInstall ==
    /\ Thread("activate")
    /\ handlers' = [s \in Signals |-> Registered(s)]
    /\ kernel' = [s \in Signals |-> "defer"]
    /\ active' = 1
    /\ depth' = 0
    /\ pc' = "run"
    /\ UNCHANGED <<open, old, seen, new, blocked, running, fixedVars, hq, alive,
                   requests, delivered, queueVars>>

\* zend_signal_deactivate, with signals masked.  The queue is left as it is.
Deactivate ==
    /\ Thread("run") /\ open = 0
    /\ active' = 0 /\ running' = 0 /\ blocked' = 0 /\ depth' = 0
    /\ pc' = "off"
    /\ UNCHANGED <<open, old, seen, new, handlers, envVars, queueVars>>

-----------------------------------------------------------------------------
(* Critical sections *)

\* ZEND_SIGNAL_BLOCK_INTERRUPTIONS
Block ==
    /\ Thread("run") /\ open < MaxDepth /\ depth < MaxDepth + 1
    /\ depth' = depth + 1
    /\ open' = open + 1
    /\ UNCHANGED <<pc, old, seen, new, blocked, running, active, handlers,
                   envVars, queueVars>>

\* mutants: the end of an inner section resets the depth; --depth == blocked
Decremented_Reset == 0
Passes_PreDecrement(d, b) == d - 1 = b

\* SIGG(depth)-- and the comparison of ZEND_SIGNAL_UNBLOCK_INTERRUPTIONS
Decremented  == depth - 1
Passes(d, b) == d = b

\* ZEND_SIGNAL_UNBLOCK_INTERRUPTIONS, first operand evaluated: depth--
UnblockDec ==
    /\ Thread("run") /\ open > 0 /\ "decFirst" \in build
    /\ old' = depth
    /\ depth' = Decremented
    /\ open' = open - 1
    /\ pc' = "test"
    /\ UNCHANGED <<seen, new, blocked, running, active, handlers, envVars,
                   queueVars>>

\* ... then blocked is read and compared
UnblockTest ==
    /\ Thread("test")
    /\ pc' = IF Passes(old, blocked) THEN "unblock" ELSE "run"
    /\ old' = 0
    /\ UNCHANGED <<open, seen, new, depth, blocked, running, active, handlers,
                   envVars, queueVars>>

\* the other order: blocked is read first
UnblockRead ==
    /\ Thread("run") /\ open > 0 /\ "readFirst" \in build
    /\ seen' = blocked
    /\ pc' = "dec"
    /\ UNCHANGED <<open, old, new, depth, blocked, running, active, handlers,
                   envVars, queueVars>>

\* ... then depth-- and the comparison
UnblockDecTest ==
    /\ Thread("dec")
    /\ depth' = Decremented
    /\ open' = open - 1
    /\ pc' = IF Passes(depth, seen) THEN "unblock" ELSE "run"
    /\ seen' = 0
    /\ UNCHANGED <<old, new, blocked, running, active, handlers, envVars,
                   queueVars>>

\* mutant: the longjmp clears the depth, and the sections still end
Bailout_ClearsDepth ==
    /\ Thread("run") /\ open > 0
    /\ depth' = 0
    /\ UNCHANGED <<pc, open, old, seen, new, blocked, running, active,
                   handlers, envVars, queueVars>>

\* zend_bailout: longjmp out of the sections the thread is in; their
\* HANDLE_UNBLOCK_INTERRUPTIONS never run
Bailout ==
    /\ Thread("run") /\ open > 0
    /\ open' = 0
    /\ UNCHANGED <<pc, old, seen, new, depth, blocked, running, active,
                   handlers, envVars, queueVars>>

-----------------------------------------------------------------------------
(* Running handlers *)

\* zend_signal_handler: SIG_DFL kills the process; SA_RESETHAND is honoured
\* only for a three-argument handler
CallHandler(s) ==
    LET p == handlers[s]
        reset == p.handler = "FN" /\ p.flags = Flags
    IN  /\ alive' = IF p.handler = "DFL" THEN "killed" ELSE alive
        /\ handlers' = IF reset THEN [handlers EXCEPT ![s] = Default]
                                ELSE handlers

\* mutant: the taken list stays the pending list
HandleNow_KeepsHead(s, list) ==
    /\ blocked' = 0 /\ running' = 1 /\ CallHandler(s) /\ hq' = list
    /\ UNCHANGED phead

\* the branch "try to handle signal" of zend_signal_handler_defer: s runs now,
\* then the list taken from phead
HandleNow(s, list) ==
    /\ blocked' = 0
    /\ running' = 1
    /\ CallHandler(s)
    /\ hq' = list
    /\ phead' = NULL

\* while (queue) of zend_signal_handler_defer, one iteration
DrainStep ==
    /\ alive = "up" /\ running = 1 /\ hq # NULL
    /\ CallHandler(signo[hq])
    /\ hq' = next[hq]
    /\ next' = [next EXCEPT ![hq] = pavail]
    /\ signo' = [signo EXCEPT ![hq] = NoSig]
    /\ pavail' = hq
    /\ owed' = owed \ {stamp[hq]}
    /\ UNCHANGED <<depth, blocked, running, active, phead, ptail, stamp,
                   delivered, mainVars>>

\* the list is empty: running = 0, and SIGNAL_END_CRITICAL when the thread
\* itself called zend_signal_handler_defer
DrainEnd ==
    /\ alive = "up" /\ running = 1 /\ hq = NULL
    /\ running' = 0
    /\ pc' = IF pc = "critical" THEN "run" ELSE pc
    /\ UNCHANGED <<open, old, seen, new, depth, blocked, active, handlers,
                   envVars, queueVars>>

\* zend_signal_handler_unblock once the critical test has succeeded: with
\* signals masked, take the head of the queue and hand it to
\* zend_signal_handler_defer, which finds depth 0.  An empty queue is a read
\* through a NULL pointer.
HandlerUnblock ==
    /\ Thread("unblock") /\ active = 1 /\ depth = 0
    /\ IF phead = NULL
       THEN /\ alive' = "segv"
            /\ UNCHANGED <<pc, next, signo, pavail, owed, blocked, running, handlers,
                   hq, phead>>
       ELSE /\ pc' = "critical"
            /\ HandleNow(signo[phead], next[phead])
            /\ next' = [next EXCEPT ![phead] = pavail]
            /\ signo' = [signo EXCEPT ![phead] = NoSig]
            /\ pavail' = phead
            /\ owed' = owed \ {stamp[phead]}
    /\ UNCHANGED <<open, old, seen, new, depth, active, fixedVars, kernel,
                   ptail, requests, delivered, stamp>>

-----------------------------------------------------------------------------
(* Signals *)

\* the kernel interrupts the thread, which masks nothing here
Arrives(s, disposition) ==
    /\ alive = "up" /\ running = 0 /\ delivered < MaxSignals
    /\ kernel[s] = disposition
    /\ delivered' = delivered + 1
    /\ UNCHANGED mainVars

\* before zend_signal_activate ever ran the original disposition is in force
DeliverOriginal(s) ==
    /\ Arrives(s, "original")
    /\ alive' = IF orig[s].handler = "DFL" THEN "killed" ELSE alive
    /\ UNCHANGED <<depth, blocked, running, active, handlers, hq, queueVars>>

\* "need to just run handler if we're inactive and getting a signal"
DeliverInactive(s) ==
    /\ Arrives(s, "defer") /\ active = 0
    /\ CallHandler(s)
    /\ UNCHANGED <<depth, blocked, running, active, hq, queueVars>>

\* outside critical sections.  running is 0: handlers are masked.
DeliverNow(s) ==
    /\ Arrives(s, "defer") /\ active = 1 /\ depth = 0
    /\ HandleNow(s, phead)
    /\ UNCHANGED <<depth, active, next, signo, ptail, pavail, stamp, owed>>

\* if (phead && ptail) ptail->next = queue; else phead = queue;
Appends == phead # NULL /\ ptail # NULL
\* mutants: the old tail is not linked; the new node becomes the head
LinkedNext_NoLink == [next EXCEPT ![pavail] = NULL]
LinkedHead_Always == pavail

LinkedNext ==
    LET linked == [next EXCEPT ![pavail] = NULL]
    IN  IF Appends THEN [linked EXCEPT ![ptail] = pavail] ELSE linked
LinkedHead == IF Appends THEN phead ELSE pavail

\* "delay signal handling": a free node is appended to the pending list
DeliverDeferred(s) ==
    /\ Arrives(s, "defer") /\ active = 1 /\ depth # 0
    /\ blocked' = 1
    /\ IF pavail = NULL
       THEN UNCHANGED queueVars          \* "it's simply forgotton"
       ELSE /\ pavail' = next[pavail]
            /\ signo' = [signo EXCEPT ![pavail] = s]
            /\ next' = LinkedNext
            /\ phead' = LinkedHead
            /\ ptail' = pavail
            /\ stamp' = [stamp EXCEPT ![pavail] = delivered']
            /\ owed' = owed \cup {delivered'}
    /\ UNCHANGED <<depth, running, active, handlers, hq, alive>>

-----------------------------------------------------------------------------
(* zend_sigaction (pcntl_signal, zend_set_timeout), outside critical sections *)

SigactionFlags(s, e) ==
    /\ Thread("run") /\ open = 0
    /\ new' = <<s, e>>
    /\ handlers' = [handlers EXCEPT ![s].flags = e.flags]
    /\ pc' = "sigHandler"
    /\ UNCHANGED <<open, old, seen, depth, blocked, running, active, envVars,
                   queueVars>>

SigactionHandler ==
    /\ Thread("sigHandler")
    /\ handlers' = [handlers EXCEPT ![new[1]].handler = new[2].handler]
    /\ pc' = "sigInstall"
    /\ UNCHANGED <<open, old, seen, new, depth, blocked, running, active,
                   envVars, queueVars>>

\* SIG_IGN goes to the kernel as it is, everything else as our handler
SigactionInstall ==
    /\ Thread("sigInstall")
    /\ kernel' = [kernel EXCEPT ![new[1]] =
                    IF handlers[new[1]].handler = "IGN" THEN "ignored" ELSE "defer"]
    /\ new' = <<>>
    /\ pc' = "run"
    /\ UNCHANGED <<open, old, seen, depth, blocked, running, active, handlers,
                   fixedVars, hq, alive, requests, delivered, queueVars>>

-----------------------------------------------------------------------------
Deliver == \E s \in Signals :
               \/ DeliverOriginal(s)
               \/ DeliverInactive(s)
               \/ DeliverNow(s)
               \/ DeliverDeferred(s)

Sigaction == \/ \E s \in Signals, e \in Installs : SigactionFlags(s, e)
             \/ SigactionHandler
             \/ SigactionInstall

Unblock == UnblockDec \/ UnblockTest \/ UnblockRead \/ UnblockDecTest
           \/ HandlerUnblock

Next ==
    \/ ActivateCopy \/ ActivateInstall \/ Deactivate
    \/ Block \/ Unblock \/ Bailout
    \/ DrainStep \/ DrainEnd
    \/ Deliver \/ Sigaction

\* The thread is scheduled: it finishes the operation it is in, and a critical
\* section ends, the outermost one too: it is code without endless loops, so
\* its closing bracket is not passed by for ever.  Nothing is assumed of
\* signals.
Outermost == open = 1 /\ (UnblockDec \/ UnblockRead)
Fairness ==
    /\ WF_vars(DrainStep \/ DrainEnd)
    /\ WF_vars(Unblock)
    /\ SF_vars(Outermost)

Spec     == Init /\ [][Next]_vars
FairSpec == Spec /\ Fairness

-----------------------------------------------------------------------------
(* Properties *)

\* Every variable has its type; in particular SIGG(depth) never goes negative
\* and SIGG(blocked), compared with it, is 0 or 1.
TypeOK ==
    /\ pc \in {"off", "activate", "run", "test", "dec", "unblock", "critical",
               "sigHandler", "sigInstall"}
    /\ open \in 0..MaxDepth /\ depth \in 0..(MaxDepth + 1)
    /\ old \in 0..(MaxDepth + 1) /\ seen \in {0, 1}
    /\ new = <<>> \/ new \in Signals \X Entry
    /\ blocked \in {0, 1} /\ running \in {0, 1} /\ active \in {0, 1}
    /\ handlers \in [Signals -> Entry] /\ orig \in [Signals -> Entry]
    /\ kernel \in [Signals -> {"original", "defer", "ignored"}]
    /\ build \in Builds
    /\ next \in [Nodes -> Nodes \cup {NULL}]
    /\ signo \in [Nodes -> Signals \cup {NoSig}]
    /\ phead \in Nodes \cup {NULL} /\ ptail \in Nodes \cup {NULL}
    /\ pavail \in Nodes \cup {NULL} /\ hq \in Nodes \cup {NULL}
    /\ alive \in {"up", "killed", "segv"}
    /\ requests \in 0..MaxRequests /\ delivered \in 0..MaxSignals
    /\ stamp \in [Nodes -> 0..MaxSignals] /\ owed \subseteq 1..MaxSignals

\* the nodes of the list that starts at h
List(h) == Reach(next, h)

\* Every node of pstorage is on exactly one of the lists pavail, phead and the
\* one a handler is draining: none leaks and none is on two lists, so the
\* queue never loses capacity and never loops.
NodesPartitioned ==
    alive = "up" =>
        /\ List(phead) \cup List(pavail) \cup List(hq) = Nodes
        /\ Cardinality(List(phead)) + Cardinality(List(pavail))
             + Cardinality(List(hq)) = QueueSize

\* The deferred signals waiting in the lists are exactly those that were queued
\* and not yet handled: none is lost or handled twice, also over the end of
\* the request (zend_signal_deactivate leaves the queue alone). And blocked
\* says that one is pending: zend_signal_handler_unblock relies on it when it
\* takes the head of the queue without looking.
OwedIsQueued ==
    alive = "up" => /\ owed = {stamp[n] : n \in List(phead) \cup List(hq)}
                    /\ blocked = 1 => phead # NULL

\* Deferred signals are handled in the order in which they arrived.
FifoDelivery ==
    [][\A k \in owed \ owed' : \A j \in owed : k <= j]_vars

\* No handler runs while the thread is inside a critical section of an active
\* request, also when it is the end of a section that runs it: SIGG(depth)
\* never falls below the sections the thread is really in.
NoHandlerInCriticalSection == running = 1 => open = 0

\* The head of the queue exists when the end of a critical section takes it
\* ("procmask to protect handler_defer as if it were called by the kernel").
NoNullHead == alive # "segv"

\* A signal deferred in a critical section is handled (blocked is cleared)
\* once the section ends, unless a bailout left the depth unbalanced or the
\* process died.  This is said of builds that decrement depth before they read
\* blocked; in the other order a signal in between waits for another section.
DeferredIsHandled ==
    build = {"decFirst"} /\ blocked = 1
        ~> (blocked = 0 \/ depth > open \/ alive # "up")

=============================================================================
