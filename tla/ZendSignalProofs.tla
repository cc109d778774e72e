-------------------------- MODULE ZendSignalProofs --------------------------
(***************************************************************************)
(* Proofs about ZendSignal for any signals, queue size, nesting and        *)
(* bounds: the types, that no handler runs inside a critical section, and  *)
(* that the queue of deferred signals loses neither nodes nor signals and  *)
(* is first in, first out.                                                 *)
(***************************************************************************)
EXTENDS ZendSignal, LinkedListProofs, FiniteSetTheorems, TLAPS

\* SIGG(depth) covers the sections the thread is in (a bailout can only leave
\* it larger), and no section is open outside a request.
DepthCovers ==
    /\ open <= depth
    /\ pc \in {"off", "activate"} => open = 0
    /\ pc = "dec" => open > 0
    /\ pc \in {"sigHandler", "sigInstall"} => new \in Signals \X Entry

\* The inductive invariant.
IInv == TypeOK /\ DepthCovers /\ NoHandlerInCriticalSection

USE DEF NULL, Default, Flags

LEMMA EntryFacts ==
    /\ Default \in Entry
    /\ [flags |-> {}, handler |-> "IGN"] \in Entry
    /\ [flags |-> {}, handler |-> "FN"] \in Entry
BY DEF Entry

\* IInv holds initially.
LEMMA InitIInv == Init => IInv
<1> SUFFICES ASSUME Init PROVE IInv
    OBVIOUS
<1> USE SignalAssumption DEF Init
<1>1. next \in [Nodes -> Nodes \cup {NULL}] /\ pavail \in Nodes
  BY DEF Nodes
<1>2. orig \in [Signals -> Entry] /\ handlers \in [Signals -> Entry]
  BY EntryFacts
<1> QED
  BY <1>1, <1>2 DEF IInv, TypeOK, DepthCovers, NoHandlerInCriticalSection

\* A handler leaves the table of handlers well typed and can only end the process.
LEMMA CallHandlerType ==
    ASSUME TypeOK, NEW s, CallHandler(s)
    PROVE  handlers' \in [Signals -> Entry] /\ alive' \in {"up", "killed", "segv"}
BY EntryFacts DEF TypeOK, CallHandler

\* Every step preserves IInv.
LEMMA NextIInv == IInv /\ [Next]_vars => IInv'
<1> SUFFICES ASSUME IInv, [Next]_vars PROVE IInv'
    OBVIOUS
<1> USE SignalAssumption, InstallsAssumption
    DEF IInv, TypeOK, DepthCovers, NoHandlerInCriticalSection, Thread,
        queueVars, envVars, mainVars, fixedVars
<1>1. CASE ActivateCopy
  BY <1>1 DEF ActivateCopy
<1>2. CASE ActivateInstall
  <2>1. \A s \in Signals : Registered(s) \in Entry
    BY EntryFacts DEF Registered
  <2> QED BY <1>2, <2>1 DEF ActivateInstall
<1>3. CASE Deactivate
  BY <1>3 DEF Deactivate
<1>4. CASE Block
  BY <1>4 DEF Block
<1>5. CASE Unblock
  <2>1. CASE UnblockDec
    BY <2>1 DEF UnblockDec, Decremented
  <2>2. CASE UnblockTest
    BY <2>2 DEF UnblockTest
  <2>3. CASE UnblockRead
    BY <2>3 DEF UnblockRead
  <2>4. CASE UnblockDecTest
    BY <2>4 DEF UnblockDecTest, Decremented
  <2>5. CASE HandlerUnblock
    <3>1. CASE phead = NULL
      <4>1. /\ alive' = "segv" /\ UNCHANGED <<queueVars, handlers, kernel, orig, pc>>
            /\ UNCHANGED <<open, old, seen, new, depth, blocked, running, active>>
            /\ UNCHANGED <<build, hq, requests, delivered>>
        BY <2>5, <3>1 DEF HandlerUnblock
      <4> QED BY <4>1
    <3>2. CASE phead # NULL
      <4>1. CallHandler(signo[phead])
        BY <2>5, <3>2 DEF HandlerUnblock, HandleNow
      <4>2. handlers' \in [Signals -> Entry] /\ alive' \in {"up", "killed", "segv"}
        BY <4>1, CallHandlerType
      <4>3. /\ pc' = "critical" /\ blocked' = 0 /\ running' = 1 /\ hq' = next[phead]
            /\ phead' = NULL /\ next' = [next EXCEPT ![phead] = pavail]
            /\ signo' = [signo EXCEPT ![phead] = NoSig] /\ pavail' = phead
            /\ owed' \subseteq owed /\ depth = 0
            /\ UNCHANGED <<open, old, seen, new, depth, active, fixedVars, kernel,
                           ptail, requests, delivered, stamp>>
        BY <2>5, <3>2 DEF HandlerUnblock, HandleNow
      <4>4. next' \in [Nodes -> Nodes \cup {NULL}] /\ signo' \in [Nodes -> Signals \cup {NoSig}]
        BY <4>3, <3>2
      <4> QED BY <3>2, <4>2, <4>3, <4>4
    <3> QED BY <3>1, <3>2
  <2> QED BY <1>5, <2>1, <2>2, <2>3, <2>4, <2>5 DEF Unblock
<1>6. CASE Bailout
  BY <1>6 DEF Bailout
<1>7. CASE DrainStep
  <2>1. handlers' \in [Signals -> Entry] /\ alive' \in {"up", "killed", "segv"}
    BY <1>7, CallHandlerType DEF DrainStep
  <2>2. /\ hq \in Nodes /\ hq' = next[hq] /\ pavail' = hq /\ owed' \subseteq owed
        /\ next' = [next EXCEPT ![hq] = pavail]
        /\ signo' = [signo EXCEPT ![hq] = NoSig]
        /\ UNCHANGED <<depth, blocked, running, active, phead, ptail, stamp,
                       delivered, mainVars>>
    BY <1>7 DEF DrainStep
  <2>3. next' \in [Nodes -> Nodes \cup {NULL}] /\ signo' \in [Nodes -> Signals \cup {NoSig}]
    BY <2>2
  <2>4. hq' \in Nodes \cup {NULL} /\ pavail' \in Nodes \cup {NULL}
    BY <2>2
  <2> QED BY <2>1, <2>2, <2>3, <2>4, SMTT(30)
<1>8. CASE DrainEnd
  BY <1>8 DEF DrainEnd
<1>9. CASE Deliver
  <2> PICK s \in Signals : DeliverOriginal(s) \/ DeliverInactive(s)
                           \/ DeliverNow(s) \/ DeliverDeferred(s)
    BY <1>9 DEF Deliver
  <2>1. CASE DeliverOriginal(s)
    BY <2>1 DEF DeliverOriginal, Arrives
  <2>2. CASE DeliverInactive(s)
    <3>1. handlers' \in [Signals -> Entry] /\ alive' \in {"up", "killed", "segv"}
      BY <2>2, CallHandlerType DEF DeliverInactive
    <3> QED BY <2>2, <3>1 DEF DeliverInactive, Arrives
  <2>3. CASE DeliverNow(s)
    <3>1. handlers' \in [Signals -> Entry] /\ alive' \in {"up", "killed", "segv"}
      BY <2>3, CallHandlerType DEF DeliverNow, HandleNow
    <3> QED BY <2>3, <3>1 DEF DeliverNow, HandleNow, Arrives
  <2>4. CASE DeliverDeferred(s)
    <3>1. /\ delivered' \in 1..MaxSignals /\ blocked' = 1
          /\ UNCHANGED <<depth, running, active, handlers, hq, alive, mainVars>>
      BY <2>4 DEF DeliverDeferred, Arrives
    <3>2. CASE pavail = NULL
      <4>1. UNCHANGED queueVars
        BY <2>4, <3>2 DEF DeliverDeferred
      <4> QED BY <3>1, <4>1
    <3>3. CASE pavail # NULL
      <4>1. /\ pavail' = next[pavail] /\ signo' = [signo EXCEPT ![pavail] = s]
            /\ next' = LinkedNext /\ phead' = LinkedHead /\ ptail' = pavail
            /\ stamp' = [stamp EXCEPT ![pavail] = delivered']
            /\ owed' = owed \cup {delivered'}
        BY <2>4, <3>3 DEF DeliverDeferred
      <4>2. LinkedNext \in [Nodes -> Nodes \cup {NULL}] /\ LinkedHead \in Nodes
        BY <3>3 DEF LinkedNext, LinkedHead, Appends
      <4> HIDE DEF IInv, DepthCovers, NoHandlerInCriticalSection
      <4>3. stamp' \in [Nodes -> 0..MaxSignals]
        <5>1. delivered' \in 0..MaxSignals
          BY <3>1
        <5> QED BY <5>1, <4>1 DEF IInv
      <4>5. owed' \subseteq 1..MaxSignals
        BY <3>1, <4>1 DEF IInv
      <4>4. signo' \in [Nodes -> Signals \cup {NoSig}] /\ pavail' \in Nodes \cup {NULL}
        BY <3>3, <4>1 DEF IInv
      <4>6. phead' \in Nodes \cup {NULL} /\ ptail' \in Nodes \cup {NULL}
        BY <3>3, <4>1, <4>2 DEF IInv
      <4>9. next' \in [Nodes -> Nodes \cup {NULL}]
        BY <4>1, <4>2
      <4>10. /\ UNCHANGED <<depth, running, active, handlers, hq, alive, pc, open,
                            old, seen, new, orig, build, kernel, requests>>
             /\ delivered' \in 0..MaxSignals /\ blocked' \in {0, 1}
        BY <3>1
      <4>7. TypeOK'
        BY <4>9, <4>10, <4>3, <4>4, <4>5, <4>6 DEF IInv
      <4>8. DepthCovers' /\ NoHandlerInCriticalSection'
        BY <3>1 DEF IInv, DepthCovers, NoHandlerInCriticalSection
      <4> QED BY <4>7, <4>8 DEF IInv
    <3> QED BY <3>2, <3>3
  <2> QED BY <2>1, <2>2, <2>3, <2>4, SMTT(30)
<1>10. CASE Sigaction
  <2>1. ASSUME NEW s \in Signals, NEW e \in Installs, SigactionFlags(s, e)
        PROVE  IInv'
    <3>1. e \in Entry /\ handlers' = [handlers EXCEPT ![s].flags = e.flags]
      BY <2>1 DEF SigactionFlags
    <3>2. [handlers[s] EXCEPT !.flags = e.flags] \in Entry
      <4>1. handlers[s] \in Entry /\ e \in Entry
        BY <3>1
      <4> HIDE DEF IInv, TypeOK
      <4> QED BY <4>1 DEF Entry
    <3>3. handlers' \in [Signals -> Entry]
      BY <3>1, <3>2
    <3> QED BY <3>3, <2>1, <3>1 DEF SigactionFlags
  <2>2. CASE SigactionHandler
    <3> DEFINE s == new[1]
               h == new[2].handler
    <3>1. handlers' = [handlers EXCEPT ![s].handler = h]
      BY <2>2 DEF SigactionHandler
    <3>2. new \in Signals \X Entry
      BY <2>2 DEF SigactionHandler
    <3>3. s \in Signals /\ h \in {"DFL", "IGN", "FN"}
      <4>1. s \in Signals /\ new[2] \in Entry
        BY <3>2
      <4> QED BY <4>1 DEF Entry
    <3> HIDE DEF s, h
    <3>4. [handlers[s] EXCEPT !.handler = h] \in Entry
      <4>1. handlers[s] \in Entry
        BY <3>3
      <4> HIDE DEF IInv
      <4> QED BY <3>3, <4>1 DEF Entry
    <3>5. handlers' \in [Signals -> Entry]
      BY <3>1, <3>3, <3>4
    <3> QED BY <2>2, <3>5 DEF SigactionHandler
  <2>3. CASE SigactionInstall
    BY <2>3 DEF SigactionInstall
  <2> QED BY <1>10, <2>1, <2>2, <2>3 DEF Sigaction
<1>11. CASE UNCHANGED vars
  BY <1>11 DEF vars
<1> QED
  BY <1>1, <1>2, <1>3, <1>4, <1>5, <1>6, <1>7, <1>8, <1>9, <1>10, <1>11 DEF Next

LEMMA Invariance == Spec => []IInv
BY InitIInv, NextIInv, PTL DEF Spec

\* The variables keep their types: SIGG(depth) never goes negative, whatever
\* signals, bailouts and nested sections do.
THEOREM TypeCorrect == Spec => []TypeOK
<1>1. IInv => TypeOK
  BY DEF IInv
<1> QED BY <1>1, Invariance, PTL

\* A handler never runs while the thread is inside a critical section, for
\* every queue size, nesting depth and either evaluation order of the test in
\* ZEND_SIGNAL_UNBLOCK_INTERRUPTIONS.
THEOREM CriticalSectionsRespected == Spec => []NoHandlerInCriticalSection
<1>1. IInv => NoHandlerInCriticalSection
  BY DEF IInv
<1> QED BY <1>1, Invariance, PTL

-----------------------------------------------------------------------------
(* The queue *)

\* Signals wait on one list: phead, or while handlers run the list taken from it.
Waiting == IF phead # NULL THEN phead ELSE hq

\* The inductive invariant of the queue.  A node waits or is free; the free list
\* has no cycle, and the waiting one has none because the numbers of the
\* deliveries grow along it.
QueueInv ==
    /\ running = 0 => hq = NULL
    /\ running = 1 => phead = NULL
    /\ List(Waiting) \cup List(pavail) = Nodes
    /\ List(Waiting) \cap List(pavail) = {}
    /\ \A n \in List(pavail) : n \notin List(next[n])
    /\ phead # NULL => ptail \in List(Waiting) /\ next[ptail] = NULL
    /\ owed = {stamp[n] : n \in List(Waiting)}
    /\ \A n \in List(Waiting) :
          /\ stamp[n] <= delivered
          /\ next[n] # NULL => stamp[n] < stamp[next[n]]
    /\ blocked = 1 => phead # NULL

\* the fields of the nodes, for the lemmas about lists
NodeTypes ==
    /\ 0 \notin Nodes /\ next \in [Nodes -> Nodes \cup {0}]
    /\ phead \in Nodes \cup {0} /\ pavail \in Nodes \cup {0} /\ hq \in Nodes \cup {0}
    /\ stamp \in [Nodes -> Nat] /\ delivered \in Nat

LEMMA TypeNodes == TypeOK => NodeTypes
<1>1. 0 \notin Nodes
  BY DEF Nodes
<1>2. TypeOK => stamp \in [Nodes -> Nat] /\ delivered \in Nat
  BY SignalAssumption DEF TypeOK
<1> QED BY <1>1, <1>2 DEF TypeOK, NodeTypes

LEMMA TypeNodesPrime == TypeOK' => NodeTypes'
BY TypeNodes, PTL

\* What is behind a waiting node was delivered later.
LEMMA BehindIsYounger ==
    ASSUME NodeTypes, QueueInv, NEW h \in List(Waiting)
    PROVE  /\ List(next[h]) \subseteq List(Waiting)
           /\ \A m \in List(next[h]) : stamp[h] < stamp[m]
<1> USE DEF List, NodeTypes
<1>1. Waiting \in Nodes \cup {0}
  BY DEF Waiting
<1>2. Reach(next, Waiting) \subseteq Nodes /\ Closed(next, Reach(next, Waiting))
  BY <1>1, ReachClosed
<1>3. h \in Nodes /\ next[h] \in Nodes \cup {0} /\ next[h] \in Reach(next, Waiting) \cup {0}
  BY <1>2 DEF Closed
<1> DEFINE S == {m \in Reach(next, Waiting) : stamp[h] < stamp[m]}
<1>4. Closed(next, S \cap Nodes)
  BY <1>2, <1>3 DEF QueueInv, Closed
<1>5. next[h] \in S \cup {0}
  BY <1>3 DEF QueueInv
<1>6. Reach(next, next[h]) \subseteq S
  <2> HIDE DEF S
  <2> QED BY <1>3, <1>4, <1>5, ReachLeast
<1> QED BY <1>6

\* The oldest signal goes first.
Oldest == \A k \in owed \ owed' : \A j \in owed : k <= j

\* The first waiting node becomes the first free one, and its signal is handled.
LEMMA FreeStep ==
    ASSUME NodeTypes, NodeTypes', QueueInv, Waiting # NULL,
           hq' = next[Waiting], phead' = NULL, pavail' = Waiting,
           next'[Waiting] = pavail, \A n \in Nodes \ {Waiting} : next'[n] = next[n],
           owed' = owed \ {stamp[Waiting]},
           UNCHANGED <<ptail, stamp, delivered>>, running' = 1, blocked' # 1
    PROVE  QueueInv' /\ Oldest
<1>0. /\ 0 \notin Nodes /\ next \in [Nodes -> Nodes \cup {0}]
      /\ next' \in [Nodes -> Nodes \cup {0}]
      /\ pavail \in Nodes \cup {0} /\ stamp \in [Nodes -> Nat]
  BY DEF NodeTypes
<1> DEFINE h == Waiting
           R == Reach(next, next[h])
           Q == Reach(next, h)
           A == Reach(next, pavail)
<1>1. h \in Nodes /\ next[h] \in Nodes \cup {0}
  BY DEF NodeTypes, Waiting
<1>a. /\ next'[h] = pavail /\ \A n \in Nodes : n # h => next'[n] = next[n]
      /\ pavail' = h /\ hq' = next[h]
      /\ owed' = owed \ {stamp[h]} /\ phead' = NULL
  OBVIOUS
<1>b. /\ Q \cup A = Nodes /\ Q \cap A = {}
      /\ \A n \in A : n \notin Reach(next, next[n])
      /\ owed = {stamp[n] : n \in Q}
      /\ \A n \in Q : /\ stamp[n] <= delivered
                      /\ next[n] # NULL => stamp[n] < stamp[next[n]]
  BY DEF QueueInv, List
<1>c. Q = {h} \cup R
  <2> HIDE DEF h
  <2> QED BY <1>0, <1>1, ReachUnfold
<1>3. \A m \in R : stamp[h] < stamp[m]
  BY <1>c, BehindIsYounger DEF List
<1> HIDE DEF h
<1>2. R \subseteq Nodes /\ A \subseteq Nodes
  BY <1>0, <1>1, ReachClosed
<1>4. h \notin R
  BY <1>0, <1>1, <1>3
<1>5. h \notin A
  BY <1>b, <1>c
<1>7. Reach(next', next[h]) = R
  <2>1. \A n \in Reach(next, next[h]) : next'[n] = next[n]
    BY <1>2, <1>4, <1>a
  <2> QED BY <1>0, <1>1, <2>1, ReachFrame
<1>8. Reach(next', pavail) = A
  <2>1. \A n \in Reach(next, pavail) : next'[n] = next[n]
    BY <1>2, <1>5, <1>a
  <2> QED BY <1>0, <2>1, ReachFrame
<1>9. Reach(next', h) = {h} \cup A
  BY <1>0, <1>1, <1>a, <1>8, ReachUnfold
<1>10. Waiting' = next[h]
  BY <1>a DEF Waiting
<1>11. List(Waiting)' = R /\ List(pavail)' = {h} \cup A
  BY <1>7, <1>9, <1>10, <1>a DEF List
<1>12. List(Waiting)' \cup List(pavail)' = Nodes /\ List(Waiting)' \cap List(pavail)' = {}
  BY <1>b, <1>c, <1>4, <1>11
<1>13. ASSUME NEW n \in {h} \cup A PROVE n \notin Reach(next', next'[n])
  <2>1. CASE n = h
    BY <1>5, <1>a, <1>8, <2>1
  <2>2. CASE n # h
    <3>1. n \in A /\ n \in Nodes /\ next'[n] = next[n] /\ next[n] \in Nodes \cup {0}
      BY <1>0, <1>2, <1>a, <2>2
    <3>2. Reach(next, n) \subseteq A
      BY <1>0, <3>1, ReachTransitive
    <3>3. Reach(next, next[n]) \subseteq A
      BY <1>0, <3>1, <3>2, ReachUnfold
    <3>4. \A m \in Reach(next, next[n]) : next'[m] = next[m]
      BY <1>2, <1>5, <1>a, <3>3
    <3>5. Reach(next', next[n]) = Reach(next, next[n])
      BY <1>0, <3>1, <3>4, ReachFrame
    <3> QED BY <1>b, <3>1, <3>5
  <2> QED BY <2>1, <2>2
<1>14. owed' = {stamp[n] : n \in R}
  BY <1>0, <1>1, <1>2, <1>3, <1>a, <1>b, <1>c
<1>15. \A n \in R : /\ stamp[n] <= delivered
                    /\ next'[n] # NULL => stamp[n] < stamp[next'[n]]
  BY <1>2, <1>4, <1>a, <1>b, <1>c
<1>16. Oldest
  <2>1. \A j \in owed : stamp[h] <= j
    BY <1>0, <1>1, <1>2, <1>3, <1>b, <1>c
  <2> QED BY <2>1, <1>a DEF Oldest
<1>17. QueueInv'
  <2>1. \A n \in List(pavail)' : n \notin List(next[n])'
    BY <1>11, <1>13 DEF List
  <2>2. owed' = {stamp'[n] : n \in List(Waiting)'}
    BY <1>11, <1>14
  <2>3. \A n \in List(Waiting)' :
           /\ stamp'[n] <= delivered'
           /\ next'[n] # NULL => stamp'[n] < stamp'[next'[n]]
    BY <1>11, <1>15
  <2> QED BY <1>12, <1>a, <2>1, <2>2, <2>3 DEF QueueInv
<1> QED BY <1>16, <1>17

\* The first free node becomes the last waiting one.
LEMMA AppendStep ==
    ASSUME NodeTypes, NodeTypes', QueueInv, pavail # NULL, running = 0,
           pavail' = next[pavail], phead' = LinkedHead, ptail' = pavail,
           next'[pavail] = NULL, Appends => next'[ptail] = pavail,
           \A n \in Nodes : n # pavail /\ ~(Appends /\ n = ptail) => next'[n] = next[n],
           stamp'[pavail] = delivered', \A n \in Nodes \ {pavail} : stamp'[n] = stamp[n],
           owed' = owed \cup {delivered'}, delivered' = delivered + 1,
           UNCHANGED <<hq, running>>
    PROVE  QueueInv' /\ Oldest
<1>0. /\ 0 \notin Nodes /\ next \in [Nodes -> Nodes \cup {0}]
      /\ next' \in [Nodes -> Nodes \cup {0}]
      /\ stamp \in [Nodes -> Nat] /\ delivered \in Nat /\ hq = NULL
      /\ phead \in Nodes \cup {0}
  BY DEF NodeTypes, QueueInv
<1> DEFINE n == pavail
           B == Reach(next, next[n])
           Q == Reach(next, Waiting)
           A == Reach(next, n)
<1>1. n \in Nodes /\ next[n] \in Nodes \cup {0} /\ Waiting = phead
  BY <1>0 DEF NodeTypes, Waiting
<1>b. /\ Q \cup A = Nodes /\ Q \cap A = {}
      /\ \A m \in A : m \notin Reach(next, next[m])
      /\ owed = {stamp[m] : m \in Q}
      /\ \A m \in Q : /\ stamp[m] <= delivered
                      /\ next[m] # NULL => stamp[m] < stamp[next[m]]
      /\ phead # NULL => ptail \in Q /\ next[ptail] = NULL
  BY DEF QueueInv, List
<1>a. /\ next'[n] = 0 /\ (Appends => next'[ptail] = n)
      /\ \A m \in Nodes : m # n /\ ~(Appends /\ m = ptail) => next'[m] = next[m]
      /\ stamp'[n] = delivered + 1 /\ \A m \in Nodes : m # n => stamp'[m] = stamp[m]
      /\ owed' = owed \cup {delivered + 1} /\ phead' = (IF Appends THEN phead ELSE n)
      /\ pavail' = next[n] /\ ptail' = n
  BY DEF LinkedHead
<1> HIDE DEF n
<1>2. A = {n} \cup B /\ B \subseteq Nodes /\ n \in A
  BY <1>0, <1>1, ReachUnfold, ReachClosed
<1>3. n \notin B /\ n \notin Q /\ A \ {n} = B
  BY <1>b, <1>2
<1>4. Appends <=> phead # NULL
  BY <1>0, <1>b DEF Appends
<1>5. \A m \in B : next'[m] = next[m]
  BY <1>2, <1>3, <1>4, <1>a, <1>b
<1>6. Reach(next', next[n]) = B
  BY <1>0, <1>1, <1>5, ReachFrame
<1>7. List(Waiting)' = Q \cup {n}
  <2>1. CASE Appends
    <3>1. phead \in Nodes /\ ptail \in Reach(next, phead) /\ next[ptail] = 0
          /\ n \notin Reach(next, phead) /\ Waiting' = phead /\ Q = Reach(next, phead)
      BY <1>0, <1>1, <1>3, <1>4, <1>a, <1>b, <2>1 DEF Waiting
    <3>2. \A m \in Reach(next, phead) : m # ptail => next'[m] = next[m]
      BY <1>3, <1>a, <1>b, <3>1
    <3>3. next'[n] = 0 /\ next'[ptail] = n
      BY <1>a, <2>1
    <3>4. Reach(next', phead) = Reach(next, phead) \cup {n}
      BY <1>0, <1>1, <3>1, <3>2, <3>3, ReachAppend
    <3> QED BY <3>1, <3>4 DEF List
  <2>2. CASE ~Appends
    <3>1. Waiting' = n /\ Waiting = 0
      BY <1>0, <1>1, <1>4, <1>a, <2>2 DEF Waiting
    <3>2. Q = {}
      BY <1>0, <3>1, ReachNull
    <3>3. Reach(next', n) = {n} \cup Reach(next', 0) /\ Reach(next', 0) = {}
      BY <1>0, <1>1, <1>a, ReachUnfold, ReachNull
    <3> QED BY <3>1, <3>2, <3>3 DEF List
  <2> QED BY <2>1, <2>2
<1>8. List(pavail)' = B
  BY <1>6, <1>a DEF List
<1>9. ASSUME NEW m \in B PROVE m \notin Reach(next', next'[m])
  <2>1. m \in A /\ m \in Nodes /\ next'[m] = next[m] /\ next[m] \in Nodes \cup {0}
    BY <1>0, <1>2, <1>5
  <2>2. Reach(next, m) \subseteq B
    BY <1>0, <1>1, ReachTransitive
  <2>3. Reach(next, next[m]) \subseteq B
    BY <1>0, <2>1, <2>2, ReachUnfold
  <2>4. \A x \in Reach(next, next[m]) : next'[x] = next[x]
    BY <1>5, <2>3
  <2>5. Reach(next', next[m]) = Reach(next, next[m])
    BY <1>0, <2>1, <2>4, ReachFrame
  <2> QED BY <1>b, <2>1, <2>5
<1>10. ASSUME NEW m \in Q \cup {n}
       PROVE  /\ stamp'[m] <= delivered + 1
              /\ next'[m] # NULL => stamp'[m] < stamp'[next'[m]]
  <2>1. CASE m = n
    BY <1>0, <1>a, <2>1
  <2>2. CASE m \in Q /\ Appends /\ m = ptail
    <3>1. stamp'[m] = stamp[m] /\ next'[m] = n /\ stamp[m] \in Nat /\ stamp[m] <= delivered
      BY <1>0, <1>3, <1>a, <1>b, <2>2
    <3> QED BY <1>0, <1>a, <3>1
  <2>3. CASE m \in Q /\ ~(Appends /\ m = ptail)
    <3>1. m \in Nodes /\ m # n /\ next'[m] = next[m] /\ stamp'[m] = stamp[m]
      BY <1>3, <1>a, <1>b, <2>3
    <3>2. stamp[m] \in Nat /\ stamp[m] <= delivered
      BY <1>0, <1>b, <2>3, <3>1
    <3>3. next[m] # NULL => next[m] \in Q
      <4>1. Closed(next, Q)
        BY <1>0, <1>1, ReachClosed
      <4> QED BY <4>1, <2>3 DEF Closed
    <3>4. next[m] # NULL => stamp'[next[m]] = stamp[next[m]]
      BY <1>3, <1>a, <1>b, <3>3
    <3> QED BY <1>0, <1>b, <2>3, <3>1, <3>2, <3>4
  <2> QED BY <2>1, <2>2, <2>3
<1>11. owed' = {stamp'[m] : m \in Q \cup {n}}
  <2>1. \A m \in Q : stamp'[m] = stamp[m]
    BY <1>3, <1>a, <1>b
  <2> QED BY <1>a, <1>b, <2>1
<1>12. QueueInv'
  <2>1. \A m \in List(pavail)' : m \notin List(next[m])'
    BY <1>8, <1>9 DEF List
  <2>2. List(Waiting)' \cup List(pavail)' = Nodes /\ List(Waiting)' \cap List(pavail)' = {}
    BY <1>2, <1>3, <1>7, <1>8, <1>b
  <2>3. ptail' \in List(Waiting)' /\ next'[ptail'] = NULL /\ phead' # NULL
    BY <1>0, <1>1, <1>4, <1>7, <1>a
  <2>4. \A m \in List(Waiting)' :
           /\ stamp'[m] <= delivered'
           /\ next'[m] # NULL => stamp'[m] < stamp'[next'[m]]
    BY <1>7, <1>10
  <2>5. owed' = {stamp'[m] : m \in List(Waiting)'}
    BY <1>7, <1>11
  <2> QED BY <1>0, <2>1, <2>2, <2>3, <2>4, <2>5, SMTT(30) DEF QueueInv
<1>13. Oldest
  BY <1>a DEF Oldest
<1> QED BY <1>12, <1>13

\* A step that leaves the waiting and the free nodes as they are; the waiting
\* list may be taken from phead.
LEMMA SameQueue ==
    ASSUME NodeTypes, QueueInv, UNCHANGED <<next, pavail, ptail, stamp, owed>>,
           \/ UNCHANGED <<phead, hq>>
           \/ hq = NULL /\ hq' = phead /\ phead' = NULL,
           delivered' \in {delivered, delivered + 1},
           running' = 0 => hq' = NULL, running' = 1 => phead' = NULL,
           blocked' = 1 => phead' # NULL
    PROVE  QueueInv' /\ Oldest
<1>1. Waiting' = Waiting /\ (phead' # NULL => phead # NULL)
  BY DEF Waiting
<1>2. List(Waiting)' = List(Waiting) /\ List(pavail)' = List(pavail)
      /\ \A n \in Nodes : List(next[n])' = List(next[n])
  BY <1>1 DEF List
<1>3. List(Waiting) \subseteq Nodes /\ List(pavail) \subseteq Nodes
  BY DEF QueueInv
<1>4. \A n \in List(Waiting) : stamp[n] <= delivered'
  <2>1. \A n \in List(Waiting) : stamp[n] \in Nat /\ stamp[n] <= delivered
    BY <1>3 DEF NodeTypes, QueueInv
  <2> QED BY <2>1 DEF NodeTypes
<1>5. QueueInv'
  BY <1>1, <1>2, <1>3, <1>4 DEF QueueInv
<1>6. Oldest
  BY DEF Oldest
<1> QED BY <1>5, <1>6

LEMMA InitQueue == Init => QueueInv
<1> SUFFICES ASSUME Init PROVE QueueInv
  OBVIOUS
<1>1. NodeTypes /\ Waiting = 0 /\ owed = {} /\ phead = 0 /\ hq = 0 /\ blocked = 0
  BY InitIInv, TypeNodes DEF IInv, Init, Waiting
<1>2. 0 \notin Nodes /\ next \in [Nodes -> Nodes \cup {0}]
  BY <1>1 DEF NodeTypes
<1>3. List(Waiting) = {}
  BY <1>1, <1>2, ReachNull DEF List
<1>4. /\ pavail = QueueSize /\ QueueSize \in Nodes /\ Nodes = 1..QueueSize
      /\ \A n \in Nodes : next[n] = n - 1
  BY SignalAssumption DEF Init, Nodes
<1>5. List(pavail) = Nodes
  <2>1. /\ Reach(next, QueueSize) \subseteq Nodes /\ QueueSize \in Reach(next, QueueSize)
        /\ Closed(next, Reach(next, QueueSize))
    BY <1>2, <1>4, ReachClosed
  <2>2. \A k \in Reach(next, QueueSize) : k \in 2..QueueSize => k - 1 \in Reach(next, QueueSize)
    <3> SUFFICES ASSUME NEW k \in Reach(next, QueueSize), k \in 2..QueueSize
                 PROVE  k - 1 \in Reach(next, QueueSize)
      OBVIOUS
    <3>1. next[k] \in Reach(next, QueueSize) \cup {0} /\ k \in Nodes
      BY <2>1 DEF Closed
    <3>2. next[k] = k - 1 /\ k - 1 # 0
      BY <1>4, <3>1, SignalAssumption
    <3> QED BY <3>1, <3>2
  <2>3. 1..QueueSize \subseteq Reach(next, QueueSize)
    BY <2>1, <2>2, Downward, SignalAssumption
  <2> QED BY <1>4, <2>1, <2>3 DEF List
<1>6. ASSUME NEW n \in Nodes PROVE n \notin List(next[n])
  <2> DEFINE S == {m \in Nodes : m < n}
  <2>1. Closed(next, S \cap Nodes) /\ next[n] \in S \cup {0} /\ next[n] \in Nodes \cup {0}
    BY <1>2, <1>4, SignalAssumption DEF Closed
  <2>2. n \notin S
    BY <1>4, SignalAssumption
  <2> HIDE DEF S
  <2>3. Reach(next, next[n]) \subseteq S
    BY <1>2, <2>1, ReachLeast
  <2> QED BY <2>2, <2>3 DEF List
<1> QED BY <1>1, <1>3, <1>5, <1>6 DEF QueueInv

\* Every step keeps the queue's invariant and handles the oldest signal first.
LEMMA QueueSteps ==
    ASSUME IInv, TypeOK', QueueInv, [Next]_vars
    PROVE  QueueInv' /\ Oldest
<1>0. NodeTypes /\ NodeTypes' /\ running \in {0, 1} /\ blocked \in {0, 1}
  BY TypeNodes, TypeNodesPrime DEF IInv, TypeOK
<1>a. CASE /\ UNCHANGED <<next, pavail, ptail, stamp, owed, phead, hq, blocked>>
           /\ delivered' \in {delivered, delivered + 1} /\ running' = running
  BY <1>0, <1>a, SameQueue DEF QueueInv
<1> USE DEF Thread, queueVars, envVars, mainVars, fixedVars, Arrives
<1>1. CASE ActivateCopy \/ ActivateInstall \/ Block \/ UnblockDec \/ UnblockTest
           \/ UnblockRead \/ UnblockDecTest \/ Bailout
  <2>1. /\ UNCHANGED <<next, pavail, ptail, stamp, owed, phead, hq, blocked, running>>
        /\ delivered' = delivered
    BY <1>1 DEF ActivateCopy, ActivateInstall, Block, UnblockDec, UnblockTest,
                UnblockRead, UnblockDecTest, Bailout
  <2> QED BY <1>a, <2>1
<1>2. CASE Deactivate
  <2>1. /\ UNCHANGED <<next, pavail, ptail, stamp, owed, phead, hq, delivered>>
        /\ running = 0 /\ running' = 0 /\ blocked' = 0
    BY <1>2 DEF Deactivate
  <2> QED BY <1>0, <2>1, SameQueue DEF QueueInv
<1>3. CASE HandlerUnblock
  <2>1. CASE phead = NULL
    BY <1>3, <2>1, <1>a DEF HandlerUnblock
  <2>2. CASE phead # NULL
    <3>1. Waiting = phead
      BY <2>2 DEF Waiting
    <3>2. /\ hq' = next[phead] /\ phead' = NULL /\ pavail' = phead /\ blocked' = 0
          /\ running' = 1 /\ next' = [next EXCEPT ![phead] = pavail]
          /\ owed' = owed \ {stamp[phead]} /\ UNCHANGED <<ptail, stamp, delivered>>
      BY <1>3, <2>2 DEF HandlerUnblock, HandleNow
    <3>3. next'[phead] = pavail /\ \A n \in Nodes \ {phead} : next'[n] = next[n]
      BY <1>0, <2>2, <3>2 DEF NodeTypes
    <3> QED BY <1>0, <2>2, <3>1, <3>2, <3>3, FreeStep
  <2> QED BY <2>1, <2>2
<1>4. CASE DrainStep
  <2>1. running = 1 /\ hq # NULL /\ phead = NULL /\ Waiting = hq /\ blocked = 0
    BY <1>0, <1>4 DEF DrainStep, QueueInv, Waiting
  <2>2. /\ hq' = next[hq] /\ phead' = NULL /\ pavail' = hq /\ blocked' = 0
        /\ running' = 1 /\ next' = [next EXCEPT ![hq] = pavail]
        /\ owed' = owed \ {stamp[hq]} /\ UNCHANGED <<ptail, stamp, delivered>>
    BY <1>4, <2>1 DEF DrainStep
  <2>3. next'[hq] = pavail /\ \A n \in Nodes \ {hq} : next'[n] = next[n]
    BY <1>0, <2>1, <2>2 DEF NodeTypes
  <2> QED BY <1>0, <2>1, <2>2, <2>3, FreeStep
<1>5. CASE DrainEnd
  <2>1. /\ UNCHANGED <<next, pavail, ptail, stamp, owed, phead, hq, blocked, delivered>>
        /\ hq = NULL /\ running' = 0
    BY <1>5 DEF DrainEnd
  <2> QED BY <1>0, <2>1, SameQueue DEF QueueInv
<1>6. ASSUME NEW s \in Signals, DeliverOriginal(s) \/ DeliverInactive(s)
      PROVE  QueueInv' /\ Oldest
  BY <1>6, <1>a DEF DeliverOriginal, DeliverInactive
<1>7. ASSUME NEW s \in Signals, DeliverNow(s) PROVE QueueInv' /\ Oldest
  <2>1. /\ UNCHANGED <<next, pavail, ptail, stamp, owed>> /\ delivered' = delivered + 1
        /\ running = 0 /\ running' = 1 /\ blocked' = 0 /\ hq' = phead /\ phead' = NULL
    BY <1>7 DEF DeliverNow, HandleNow
  <2>2. hq = NULL
    BY <2>1 DEF QueueInv
  <2> QED BY <1>0, <2>1, <2>2, SameQueue
<1>8. ASSUME NEW s \in Signals, DeliverDeferred(s) PROVE QueueInv' /\ Oldest
  <2>1. /\ running = 0 /\ running' = 0 /\ UNCHANGED hq /\ delivered' = delivered + 1
        /\ blocked' = 1
    BY <1>8 DEF DeliverDeferred
  <2>2. CASE pavail = NULL
    <3>1. /\ UNCHANGED <<next, pavail, ptail, stamp, owed, phead>>
      BY <1>8, <2>2 DEF DeliverDeferred
    <3>2. 0 \notin Nodes /\ next \in [Nodes -> Nodes \cup {0}] /\ 1 \in Nodes
      BY <1>0, SignalAssumption DEF NodeTypes, Nodes
    <3>3. Reach(next, 0) = {}
      BY <3>2, ReachNull
    <3>4. Waiting # NULL /\ hq = NULL
      BY <2>1, <2>2, <3>2, <3>3 DEF QueueInv, List
    <3>5. phead # NULL
      BY <3>4 DEF Waiting
    <3> QED BY <1>0, <2>1, <3>1, <3>4, <3>5, SameQueue
  <2>3. CASE pavail # NULL
    <3>1. /\ pavail' = next[pavail] /\ phead' = LinkedHead /\ ptail' = pavail
          /\ next' = LinkedNext /\ stamp' = [stamp EXCEPT ![pavail] = delivered']
          /\ owed' = owed \cup {delivered'}
      BY <1>8, <2>3 DEF DeliverDeferred
    <3>2. Appends => ptail \in Nodes /\ ptail # pavail
      <4>1. Appends => ptail \in List(Waiting)
        BY DEF Appends, QueueInv
      <4>2. pavail \in List(pavail)
        <5>1. 0 \notin Nodes /\ next \in [Nodes -> Nodes \cup {0}] /\ pavail \in Nodes
          BY <1>0, <2>3 DEF NodeTypes
        <5> QED BY <5>1, ReachClosed DEF List
      <4> QED BY <4>1, <4>2 DEF QueueInv
    <3>3. /\ next'[pavail] = NULL /\ (Appends => next'[ptail] = pavail)
          /\ \A n \in Nodes : n # pavail /\ ~(Appends /\ n = ptail) => next'[n] = next[n]
      BY <1>0, <2>3, <3>1, <3>2 DEF LinkedNext, NodeTypes
    <3>4. stamp'[pavail] = delivered' /\ \A n \in Nodes \ {pavail} : stamp'[n] = stamp[n]
      BY <1>0, <2>3, <3>1 DEF NodeTypes
    <3> QED BY <1>0, <2>1, <2>3, <3>1, <3>3, <3>4, AppendStep
  <2> QED BY <2>2, <2>3
<1>9. CASE Sigaction
  BY <1>9, <1>a DEF Sigaction, SigactionFlags, SigactionHandler, SigactionInstall
<1>10. CASE UNCHANGED vars
  BY <1>10, <1>a DEF vars
<1> QED BY <1>1, <1>2, <1>3, <1>4, <1>5, <1>6, <1>7, <1>8, <1>9, <1>10
           DEF Next, Unblock, Deliver

LEMMA QueueInvariance == Spec => [](IInv /\ QueueInv)
<1>1. IInv /\ QueueInv /\ [Next]_vars => IInv' /\ QueueInv'
  BY NextIInv, QueueSteps DEF IInv
<1> QED BY <1>1, InitIInv, InitQueue, PTL DEF Spec

\* Every node of SIGG(pstorage) is on exactly one of the lists pavail, phead and
\* the one a handler drains, for every size of the queue: none leaks, none is on
\* two lists.
THEOREM NoNodeLeaks == Spec => []NodesPartitioned
<1>1. IInv /\ QueueInv => NodesPartitioned
  <2> SUFFICES ASSUME IInv, QueueInv PROVE NodesPartitioned
    OBVIOUS
  <2>1. 0 \notin Nodes /\ next \in [Nodes -> Nodes \cup {0}] /\ running \in {0, 1}
    BY TypeNodes DEF IInv, NodeTypes, TypeOK
  <2>2. Reach(next, 0) = {}
    BY <2>1, ReachNull
  <2>3. \/ List(phead) = List(Waiting) /\ List(hq) = {}
        \/ List(hq) = List(Waiting) /\ List(phead) = {}
    BY <2>1, <2>2 DEF QueueInv, List, Waiting
  <2> DEFINE Q == List(Waiting)
             A == List(pavail)
  <2>4. Q \cup A = Nodes /\ Q \cap A = {}
    BY DEF QueueInv
  <2> HIDE DEF Q, A
  <2>5. IsFiniteSet(Nodes) /\ Cardinality(Nodes) = QueueSize
    BY SignalAssumption, FS_Interval DEF Nodes
  <2>6. IsFiniteSet(Q) /\ IsFiniteSet(A)
    BY <2>4, <2>5, FS_Subset
  <2>7. Cardinality(Q \cup A) = Cardinality(Q) + Cardinality(A) - Cardinality(Q \cap A)
    BY <2>6, FS_Union
  <2>8. Cardinality({}) = 0 /\ Cardinality(Q) \in Nat /\ Cardinality(A) \in Nat
    BY <2>6, FS_EmptySet, FS_CardinalityType
  <2>9. Cardinality(Q) + Cardinality(A) = QueueSize
    <3>1. Cardinality(Nodes) = Cardinality(Q) + Cardinality(A) - Cardinality({})
      BY <2>4, <2>7, Zenon
    <3> QED BY <2>5, <2>8, <3>1
  <2>10. List(phead) \cup List(pavail) \cup List(hq) = Nodes
    BY <2>3, <2>4 DEF Q, A
  <2>11. Cardinality(List(phead)) + Cardinality(List(pavail)) + Cardinality(List(hq))
           = QueueSize
    <3>1. \/ Cardinality(List(phead)) = Cardinality(Q) /\ Cardinality(List(hq)) = 0
          \/ Cardinality(List(hq)) = Cardinality(Q) /\ Cardinality(List(phead)) = 0
      BY <2>3, <2>8, Zenon DEF Q
    <3>2. Cardinality(List(pavail)) = Cardinality(A)
      BY DEF A
    <3> QED BY <2>8, <2>9, <3>1, <3>2
  <2> QED BY <2>10, <2>11 DEF NodesPartitioned
<1> QED BY <1>1, QueueInvariance, PTL

\* The deferred signals that wait are exactly those queued and not yet handled,
\* over the end of a request too, and blocked says truly that one is pending
\* (zend_signal_handler_defer, zend_signal_handler_unblock).
THEOREM NoSignalLost == Spec => []OwedIsQueued
<1>1. IInv /\ QueueInv => OwedIsQueued
  <2> SUFFICES ASSUME IInv, QueueInv PROVE OwedIsQueued
    OBVIOUS
  <2>1. 0 \notin Nodes /\ next \in [Nodes -> Nodes \cup {0}] /\ running \in {0, 1}
    BY TypeNodes DEF IInv, NodeTypes, TypeOK
  <2>2. Reach(next, 0) = {}
    BY <2>1, ReachNull
  <2>3. List(phead) \cup List(hq) = List(Waiting)
    BY <2>1, <2>2 DEF QueueInv, List, Waiting
  <2> QED BY <2>3 DEF QueueInv, OwedIsQueued
<1> QED BY <1>1, QueueInvariance, PTL

\* Deferred signals are handled in the order in which they arrived, however the
\* queue is filled, taken and drained.
THEOREM SignalsInOrder == Spec => FifoDelivery
<1>1. IInv /\ QueueInv /\ IInv' /\ [Next]_vars => [Oldest]_vars
  BY QueueSteps DEF IInv
<1> QED BY <1>1, QueueInvariance, PTL DEF Spec, FifoDelivery, Oldest
=============================================================================
