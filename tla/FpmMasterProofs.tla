--------------------------- MODULE FpmMasterProofs ---------------------------
(***************************************************************************)
(* Proofs about FpmMaster for any pools, configuration, process ids and    *)
(* bounds: the master's lists and counters agree with the processes that   *)
(* exist, pm.max_children and process.max are kept, nobody is forked once  *)
(* the children are told to stop, and nobody is left behind by an exit or  *)
(* a reload.  Then the types, for which the list of all children must hold *)
(* every process once: the idle child that the maintenance kills is looked *)
(* up there.                                                               *)
(***************************************************************************)
EXTENDS FpmMaster, FiniteSetTheorems, LinkedListProofs, TLAPS

USE DEF ctlVars, pctlVars, childVars, procVars, sockVars, boundVars, masterVars

Points == {"init", "start", "loop", "make", "bury", "maint", "gone"}
Procs  == {c \in Pids : st[c] # "none"}

\* control of the master, and what a call of fpm_children_make may reach
Control ==
    /\ pc \in Points /\ ret \in {"start", "loop", "bury", "maint"}
    /\ at \in 1..(NPools + 1)
    /\ spawn_rate \in [Pools -> Nat]
    /\ pc = "make" => /\ make.pool \in Pools /\ make.max \in Nat
                      /\ make.max <= Config[make.pool].max_children

Types ==
    /\ children \in [Pools -> SUBSET Pids]
    /\ running \in [Pools -> Nat] /\ total \in Nat
    /\ st \in [Pids -> Live \cup Dead \cup {"none"}] /\ pool \in [Pids -> 0..NPools]

\* lists and counters against the processes that exist
Accounted ==
    /\ \A c \in Procs : pool[c] \in Pools
    /\ \A p \in Pools : /\ children[p] = {c \in Procs : pool[c] = p}
                        /\ running[p] = Cardinality(children[p])
    /\ total = Cardinality(Procs)

Limits ==
    /\ \A p \in Pools : running[p] <= Config[p].max_children
    /\ ProcessMax > 0 => total <= ProcessMax

Told == fpm_state # "normal" => Procs \subseteq told

IInv == Control /\ Types /\ Accounted /\ Limits /\ Told /\ NoOrphans

-----------------------------------------------------------------------------
(* Finite sets and minima *)

\* The sets of processes are finite.
LEMMA Finite == IsFiniteSet(Procs) /\ \A p \in Pools : IsFiniteSet({c \in Procs : pool[c] = p})
  BY FpmAssumption, FS_Subset DEF Procs

\* The least of three numbers is one of them and below the others.
LEMMA MinOfThree ==
    ASSUME NEW a \in Int, NEW b \in Int, NEW c \in Int
    PROVE  LET m == Min({a, b, c}) IN m \in Int /\ m <= a /\ m <= b /\ m <= c
<1>1. \E x \in {a, b, c} : \A y \in {a, b, c} : x <= y
  <2>1. CASE a <= b /\ a <= c BY <2>1
  <2>2. CASE b <= a /\ b <= c BY <2>2
  <2>3. CASE c <= a /\ c <= b BY <2>3
  <2> QED BY <2>1, <2>2, <2>3
<1> QED BY <1>1 DEF Min

\* The list of all pools' children is the set of processes.
LEMMA LinkedIsProcs == Accounted => Linked = Procs
<1> SUFFICES ASSUME Accounted PROVE Linked = Procs
  OBVIOUS
<1>1. Linked \subseteq Procs
  BY DEF Linked, Accounted
<1>2. ASSUME NEW c \in Procs PROVE c \in Linked
  <2>1. pool[c] \in Pools /\ c \in children[pool[c]]
    BY DEF Accounted
  <2> QED BY <2>1 DEF Linked
<1> QED BY <1>1, <1>2

\* total tells whether anybody is left: fpm_pctl_action_next and
\* fpm_pctl_child_exited decide by it.
LEMMA TotalTells ==
    ASSUME Accounted
    PROVE  /\ total = 0 => Procs = {}
           /\ \A c \in Procs : total = 1 => Procs = {c}
<1>1. IsFiniteSet(Procs) /\ total = Cardinality(Procs)
  BY Finite DEF Accounted
<1>2. total = 0 => Procs = {}
  BY <1>1, FS_EmptySet
<1>3. ASSUME NEW c \in Procs, total = 1 PROVE Procs = {c}
  <2>1. IsFiniteSet(Procs \ {c}) /\ Cardinality(Procs \ {c}) = 0
    <3>1. /\ IsFiniteSet(Procs \ {c})
          /\ Cardinality(Procs \ {c}) = IF c \in Procs THEN Cardinality(Procs) - 1
                                                       ELSE Cardinality(Procs)
      BY <1>1, FS_RemoveElement, Zenon
    <3> QED BY <1>1, <1>3, <3>1
  <2>2. Procs \ {c} = {}
    BY <2>1, FS_EmptySet
  <2> QED BY <2>2
<1> QED BY <1>2, <1>3

-----------------------------------------------------------------------------
(* The kinds of step *)

\* the processes that exist, the lists and the state stay
Quiet ==
    /\ UNCHANGED <<children, order, running, total, pool, fpm_state, told>>
    /\ st' \in [Pids -> Live \cup Dead \cup {"none"}]
    /\ \A c \in Pids : st'[c] = "none" <=> st[c] = "none"
    /\ pc' \in {"init", "gone"} => pc' = pc

\* everybody is sent a signal
Signalling ==
    /\ UNCHANGED <<children, order, running, total, pool, st>>
    /\ told' = Procs /\ pc' \notin {"init", "gone"}

\* the image of the master is replaced or gone, and with it the last child
Replaced ==
    /\ children' = [p \in Pools |-> {}] /\ running' = [p \in Pools |-> 0]
    /\ order' = <<>> /\ total' = 0 /\ fpm_state' = "normal"
    /\ st' \in [Pids -> Live \cup Dead \cup {"none"}]
    /\ pool' \in [Pids -> 0..NPools]
    /\ \A c \in Pids : st'[c] = "none"

Forked ==
    \E p \in Pools, c \in Pids :
        /\ fpm_state = "normal" /\ st[c] = "none"
        /\ running[p] < Config[p].max_children
        /\ ProcessMax < 1 \/ total < ProcessMax
        /\ children' = [children EXCEPT ![p] = @ \cup {c}]
        /\ running' = [running EXCEPT ![p] = @ + 1]
        /\ total' = total + 1 /\ order' = Append(order, c)
        /\ st' = [st EXCEPT ![c] = "starting"] /\ pool' = [pool EXCEPT ![c] = p]
        /\ UNCHANGED fpm_state /\ pc' \notin {"init", "gone"}

Buried ==
    \E c \in Procs :
        /\ children' = [children EXCEPT ![pool[c]] = @ \ {c}]
        /\ running' = [running EXCEPT ![pool[c]] = @ - 1]
        /\ total' = total - 1
        /\ order' = RemoveAt(order, CHOOSE i \in DOMAIN order : order[i] = c)
        /\ st' = [st EXCEPT ![c] = "none"] /\ pool' = [pool EXCEPT ![c] = 0]
        /\ pc' \notin {"init", "gone"}
        /\ \/ fpm_state' = fpm_state /\ told' = told \ {c}
           \/ told' = Procs \ {c}

Kind == Quiet \/ Signalling \/ Replaced \/ Forked \/ Buried

\* Each kind of step keeps the lists, the limits and who was told.
LEMMA KindKeeps ==
    ASSUME IInv, Kind
    PROVE  Types' /\ Accounted' /\ Limits' /\ Told' /\ NoOrphans'
<1> USE FpmAssumption DEF IInv, Types
<1>1. CASE Quiet
  <2>1. Procs' = Procs
    BY <1>1 DEF Quiet, Procs
  <2> QED BY <1>1, <2>1 DEF Quiet, Accounted, Limits, Told, NoOrphans, Procs
<1>2. CASE Signalling
  <2>1. Procs' = Procs
    BY <1>2 DEF Signalling, Procs
  <2> QED BY <1>2, <2>1 DEF Signalling, Accounted, Limits, Told, NoOrphans
<1>3. CASE Replaced
  <2>1. Procs' = {}
    BY <1>3 DEF Replaced, Procs
  <2>2. Types' /\ Told' /\ NoOrphans' /\ Limits'
    BY <1>3, <2>1 DEF Replaced, Told, NoOrphans, Limits
  <2>3. Accounted'
    BY <1>3, <2>1, FS_EmptySet DEF Replaced, Accounted
  <2> QED BY <2>2, <2>3
<1>4. CASE Forked
  <2>1. PICK p \in Pools, c \in Pids :
            /\ fpm_state = "normal" /\ st[c] = "none"
            /\ running[p] < Config[p].max_children
            /\ ProcessMax < 1 \/ total < ProcessMax
            /\ children' = [children EXCEPT ![p] = @ \cup {c}]
            /\ running' = [running EXCEPT ![p] = @ + 1]
            /\ total' = total + 1
            /\ st' = [st EXCEPT ![c] = "starting"] /\ pool' = [pool EXCEPT ![c] = p]
            /\ UNCHANGED fpm_state /\ pc' \notin {"init", "gone"}
    BY <1>4 DEF Forked
  <2>2. Procs' = Procs \cup {c} /\ c \notin Procs
    BY <2>1 DEF Procs
  <2>3. Types'
    <3>1. st' \in [Pids -> Live \cup Dead \cup {"none"}]
      BY <2>1 DEF Live
    <3>2. pool' \in [Pids -> 0..NPools]
      BY <2>1 DEF Pools
    <3> QED BY <2>1, <3>1, <3>2
  <2>7. Told' /\ NoOrphans'
    BY <2>1 DEF Told, NoOrphans
  <2>8. Limits'
    BY <2>1 DEF Limits
  <2>4. total' = Cardinality(Procs')
    BY <2>1, <2>2, Finite, FS_AddElement DEF Accounted
  <2>5. \A d \in Procs' : pool'[d] \in Pools
    BY <2>1, <2>2 DEF Accounted, Procs
  <2>6. ASSUME NEW q \in Pools
        PROVE  /\ children'[q] = {d \in Procs' : pool'[d] = q}
               /\ running'[q] = Cardinality(children'[q])
    <3>1. c \notin children[q] /\ IsFiniteSet(children[q])
      BY <2>2, Finite DEF Accounted
    <3>2. children'[q] = {d \in Procs' : pool'[d] = q}
      BY <2>1, <2>2 DEF Accounted, Procs
    <3>3. running[q] = Cardinality(children[q])
      BY DEF Accounted
    <3>4. CASE q = p
      <4>1. children'[q] = children[q] \cup {c} /\ running'[q] = running[q] + 1
        BY <2>1, <3>4
      <4>2. Cardinality(children[q] \cup {c})
              = IF c \in children[q] THEN Cardinality(children[q])
                                     ELSE Cardinality(children[q]) + 1
        BY <3>1, FS_AddElement, Zenon
      <4> QED BY <3>1, <3>2, <3>3, <4>1, <4>2
    <3>5. CASE q # p
      BY <2>1, <3>2, <3>3, <3>5
    <3> QED BY <3>4, <3>5
  <2> QED BY <2>3, <2>4, <2>5, <2>6, <2>7, <2>8 DEF Accounted
<1>5. CASE Buried
  <2>1. PICK c \in Procs :
            /\ children' = [children EXCEPT ![pool[c]] = @ \ {c}]
            /\ running' = [running EXCEPT ![pool[c]] = @ - 1]
            /\ total' = total - 1
            /\ st' = [st EXCEPT ![c] = "none"] /\ pool' = [pool EXCEPT ![c] = 0]
            /\ pc' \notin {"init", "gone"}
            /\ \/ fpm_state' = fpm_state /\ told' = told \ {c}
               \/ told' = Procs \ {c}
    BY <1>5 DEF Buried
  <2>2. Procs' = Procs \ {c} /\ c \in Pids
    BY <2>1 DEF Procs
  <2>3. pool[c] \in Pools /\ c \in children[pool[c]]
    BY DEF Accounted
  <2>4. /\ total' = Cardinality(Procs')
        /\ total' \in Nat /\ total' <= total
    <3>1. IsFiniteSet(Procs) /\ IsFiniteSet(Procs') /\ total = Cardinality(Procs)
      BY <2>2, Finite, FS_RemoveElement DEF Accounted
    <3>2. Cardinality(Procs') = total - 1
      BY <2>2, <3>1, FS_RemoveElement
    <3> QED BY <2>1, <3>1, <3>2, FS_CardinalityType
  <2>5. ASSUME NEW q \in Pools
        PROVE  /\ children'[q] = {d \in Procs' : pool'[d] = q}
               /\ running'[q] = Cardinality(children'[q])
               /\ running'[q] \in Nat /\ running'[q] <= running[q]
    <3>1. IsFiniteSet(children[q]) /\ running[q] = Cardinality(children[q])
      BY Finite DEF Accounted
    <3>2. children'[q] = {d \in Procs' : pool'[d] = q}
      <4>1. \A d \in Procs' : pool'[d] = pool[d]
        BY <2>1, <2>2 DEF Procs
      <4>2. children[q] = {d \in Procs : pool[d] = q}
        BY DEF Accounted
      <4>3. children'[q] = children[q] \ {c}
        BY <2>1, <2>3, <4>2
      <4> QED BY <2>2, <4>1, <4>2, <4>3
    <3>3. CASE q = pool[c]
      <4>1. children'[q] = children[q] \ {c} /\ running'[q] = running[q] - 1
        BY <2>1, <3>3
      <4>2. /\ IsFiniteSet(children'[q])
            /\ Cardinality(children'[q]) = Cardinality(children[q]) - 1
        <5>1. /\ IsFiniteSet(children[q] \ {c})
              /\ Cardinality(children[q] \ {c})
                   = IF c \in children[q] THEN Cardinality(children[q]) - 1
                                          ELSE Cardinality(children[q])
          BY <3>1, FS_RemoveElement, Zenon
        <5> QED BY <4>1, <2>3, <3>3, <5>1
      <4> QED BY <3>1, <3>2, <4>1, <4>2, FS_CardinalityType
    <3>4. CASE q # pool[c]
      BY <2>1, <3>1, <3>2, <3>4
    <3> QED BY <3>3, <3>4
  <2>6. Accounted'
    <3>1. \A d \in Procs' : pool'[d] \in Pools
      BY <2>1, <2>2 DEF Accounted, Procs
    <3> QED BY <3>1, <2>4, <2>5 DEF Accounted
  <2>7. Types'
    BY <2>1, <2>2, <2>3, <2>4, <2>5
  <2>8. Limits'
    BY <2>4, <2>5 DEF Limits
  <2>9. Told' /\ NoOrphans'
    BY <2>1, <2>2 DEF Told, NoOrphans
  <2> QED BY <2>6, <2>7, <2>8, <2>9
<1> QED BY <1>1, <1>2, <1>3, <1>4, <1>5 DEF Kind

-----------------------------------------------------------------------------
(* Which action is a step of which kind *)

\* A new image of the master has no children and runs nothing.
LEMMA ImageFacts ==
    ASSUME NEW where \in {"init", "gone"}, Image(where) 
    PROVE  /\ Control' /\ children' = [p \in Pools |-> {}]
           /\ running' = [p \in Pools |-> 0] /\ total' = 0 /\ fpm_state' = "normal"
           /\ order' = <<>>
  BY FpmAssumption DEF Image, Control, Points

\* fpm_pctl_exec or fpm_pctl_exit when nobody is left.
LEMMA ActionLastReplaces ==
    ASSUME NEW state, ActionLast(state), pool' \in [Pids -> 0..NPools],
           st' \in [Pids -> Live \cup Dead \cup {"none"}],
           \A c \in Pids : st'[c] = "none"
    PROVE  Control' /\ Replaced
<1>1. Image("init") \/ Image("gone")
  BY DEF ActionLast
<1>2. PICK where \in {"init", "gone"} : Image(where)
  BY <1>1
<1> QED BY <1>2, ImageFacts DEF Replaced

\* A call of fpm_children_make that keeps to pm.max_children.
LEMMA MakeCall ==
    ASSUME NEW p \in Pools, NEW m \in Nat, m <= Config[p].max_children,
           make' = [pool |-> p, max |-> m]
    PROVE  /\ make'.pool \in Pools /\ make'.max \in Nat
           /\ make'.max <= Config[make'.pool].max_children
  OBVIOUS

\* fpm_got_signal and the timer of the escalation.
LEMMA SignalSteps ==
    ASSUME IInv, GotCommand \/ GotSigchld \/ TimerFires
    PROVE  Control' /\ Kind
<1> USE FpmAssumption DEF IInv, Types, Control
<1>0. /\ Linked = Procs
      /\ total = 0 => \A c \in Pids : st[c] = "none"
  BY LinkedIsProcs, TotalTells DEF Procs
<1>1. CASE GotCommand
  <2> DEFINE new == StateOf(Head(pipe))
  <2>1. CASE Overrides(fpm_state, new) /\ total = 0
    <3>1. ActionLast(new) /\ UNCHANGED <<pool, st>>
      BY <1>1, <2>1 DEF GotCommand
    <3> QED BY <3>1, <2>1, <1>0, ActionLastReplaces DEF Kind
  <2>2. CASE ~(Overrides(fpm_state, new) /\ total = 0)
    <3>1. /\ PctlSet(new, Linked) /\ pc = "loop"
          /\ UNCHANGED <<pc, ret, at, make, spawn_rate, children, order, running, total, pool, st>>
      BY <1>1, <2>2 DEF GotCommand
    <3>2. CASE Overrides(fpm_state, new)
      <4>1. fpm_state' = new /\ told' = Linked
        BY <3>1, <3>2 DEF PctlSet, ActionNext, KillAll
      <4> QED BY <3>1, <4>1, <1>0 DEF Kind, Signalling
    <3>3. CASE ~Overrides(fpm_state, new)
      BY <3>1, <3>3 DEF PctlSet, Kind, Quiet
    <3> QED BY <3>2, <3>3
  <2> QED BY <2>1, <2>2
<1>2. CASE GotSigchld
  BY <1>2 DEF GotSigchld, Kind, Quiet, Points
<1>3. CASE TimerFires
  <2>1. CASE total = 0
    <3>1. ActionLast(fpm_state) /\ UNCHANGED <<pool, st>>
      BY <1>3, <2>1 DEF TimerFires
    <3> QED BY <3>1, <2>1, <1>0, ActionLastReplaces DEF Kind
  <2>2. CASE total # 0
    <3>1. /\ pc = "loop" /\ fpm_state' = fpm_state /\ told' = Linked
          /\ UNCHANGED <<pc, ret, at, make, spawn_rate, children, order, running, total, pool, st>>
      BY <1>3, <2>2 DEF TimerFires, ActionNext, KillAll
    <3> QED BY <3>1, <1>0 DEF Kind, Signalling
  <2> QED BY <2>1, <2>2
<1> QED BY <1>1, <1>2, <1>3

\* fpm_children_make.
LEMMA MakeSteps ==
    ASSUME IInv, Make
    PROVE  Control' /\ Kind
<1> USE FpmAssumption DEF IInv, Types, Control
<1>0. /\ Linked = Procs
      /\ total = 0 => \A c \in Pids : st[c] = "none"
  BY LinkedIsProcs, TotalTells DEF Procs
<1>1. ASSUME NEW c \in Pids, Fork(c) PROVE Control' /\ Kind
  <2>1. Forked
    <3>1. /\ make.pool \in Pools
          /\ fpm_state = "normal" /\ st[c] = "none"
          /\ running[make.pool] < Config[make.pool].max_children
          /\ ProcessMax < 1 \/ total < ProcessMax
      BY <1>1 DEF Fork, MayFork, CanSpawn
    <3>2. /\ children' = [children EXCEPT ![make.pool] = @ \cup {c}]
          /\ running' = [running EXCEPT ![make.pool] = @ + 1]
          /\ total' = total + 1 /\ order' = Append(order, c)
          /\ st' = [st EXCEPT ![c] = "starting"]
          /\ pool' = [pool EXCEPT ![c] = make.pool]
          /\ UNCHANGED fpm_state /\ pc' \notin {"init", "gone"}
      BY <1>1 DEF Fork, Link
    <3> QED BY <3>1, <3>2 DEF Forked
  <2> QED BY <1>1, <2>1 DEF Kind, Fork
<1>2. CASE MakeDone
  BY <1>2 DEF MakeDone, Kind, Quiet, Points
<1>3. CASE ForkFails
  <2>1. CASE ret = "start" /\ total = 0
    <3>1. ActionLast("terminating") /\ UNCHANGED <<pool, st>>
      BY <1>3, <2>1 DEF ForkFails
    <3> QED BY <3>1, <2>1, <1>0, ActionLastReplaces DEF Kind
  <2>2. CASE ~(ret = "start" /\ total = 0)
    <3>1. /\ UNCHANGED <<ret, at, spawn_rate, children, order, running, total, pool, st>>
          /\ pc' \in {"loop", "bury", "maint"} /\ ret' = ret
          /\ \/ UNCHANGED <<fpm_state, told>>
             \/ PctlSet("terminating", Linked)
      BY <1>3, <2>2 DEF ForkFails
    <3>2. Control'
      BY <3>1 DEF Points
    <3>3. \/ UNCHANGED <<fpm_state, told>>
          \/ fpm_state' = "terminating" /\ told' = Linked
      BY <3>1 DEF PctlSet, ActionNext, KillAll
    <3> QED BY <3>1, <3>2, <3>3, <1>0 DEF Kind, Signalling, Quiet
  <2> QED BY <2>1, <2>2
<1> QED BY <1>1, <1>2, <1>3 DEF Make

\* fpm_children_bury.
LEMMA BurySteps ==
    ASSUME IInv, BuryAll
    PROVE  Control' /\ Kind
<1> USE FpmAssumption DEF IInv, Types, Control
<1>1. ASSUME NEW c \in Pids, Bury(c) PROVE Control' /\ Kind
  <2> DEFINE reload == Emergency(c) /\ fpm_state = "normal"
             state  == IF reload THEN "reloading" ELSE fpm_state
  <2>1. /\ pc = "bury" /\ c \in Procs /\ pool[c] \in Pools /\ Linked = Procs
        /\ st' = [st EXCEPT ![c] = "none"] /\ pool' = [pool EXCEPT ![c] = 0]
    <3>1. pc = "bury" /\ c \in Linked
      BY <1>1 DEF Bury
    <3>2. st' = [st EXCEPT ![c] = "none"] /\ pool' = [pool EXCEPT ![c] = 0]
      BY <1>1 DEF Bury
    <3> QED BY <3>1, <3>2, LinkedIsProcs DEF Accounted
  <2>2. CASE state # "normal" /\ LastChild(c)
    <3>1. ActionLast(state)
      BY <1>1, <2>2 DEF Bury
    <3>2. Procs = {c}
      BY <2>1, <2>2, TotalTells DEF LastChild
    <3>3. /\ \A d \in Pids : st'[d] = "none"
          /\ st' \in [Pids -> Live \cup Dead \cup {"none"}]
          /\ pool' \in [Pids -> 0..NPools]
      BY <2>1, <3>2 DEF Procs
    <3> QED BY <3>1, <3>3, ActionLastReplaces DEF Kind
  <2>3. CASE ~(state # "normal" /\ LastChild(c))
    <3>1. /\ IF reload THEN ActionNext("reloading", "none", Linked \ {c}, TRUE)
                       ELSE told' = told \ {c} /\ fpm_state' = fpm_state
          /\ Unlink(pool[c], c)
          /\ UNCHANGED <<at, spawn_rate>>
          /\ \/ UNCHANGED <<pc, ret, make>>
             \/ /\ pc' = "make" /\ ret' = "bury"
                /\ make' = [pool |-> pool[c], max |-> MakeMax(pool[c], FALSE, running[pool[c]])]
      BY <1>1, <2>3 DEF Bury
    <3>2. \/ fpm_state' = fpm_state /\ told' = told \ {c}
          \/ fpm_state' = "reloading" /\ told' = Procs \ {c}
      BY <2>1, <3>1 DEF ActionNext, KillAll
    <3>3. pc' \in {"bury", "make"}
      BY <2>1, <3>1
    <3>4. Buried
      BY <2>1, <3>1, <3>2, <3>3 DEF Buried, Unlink
    <3>5. Control'
      <4> DEFINE q == pool[c] 
      <4>1. /\ MakeMax(q, FALSE, running[q]) \in Nat
            /\ MakeMax(q, FALSE, running[q]) <= Config[q].max_children
        BY <2>1 DEF MakeMax, Limits
      <4>2. pc' \in Points /\ ret' \in {"start", "loop", "bury", "maint"}
            /\ at' \in 1..(NPools + 1) /\ spawn_rate' \in [Pools -> Nat]
        BY <3>1, <3>3 DEF Points
      <4>3. ASSUME pc' = "make"
            PROVE  make' = [pool |-> q, max |-> MakeMax(q, FALSE, running[q])]
        BY <4>3, <2>1, <3>1
      <4>4. pc' = "make" => /\ make'.pool \in Pools /\ make'.max \in Nat
                            /\ make'.max <= Config[make'.pool].max_children
        <5>1. q \in Pools
          BY <2>1
        <5> HIDE FpmAssumption DEF q, IInv, Types, Control
        <5> QED BY <4>1, <4>3, <5>1, MakeCall
      <4> QED BY <4>2, <4>4
    <3> QED BY <3>4, <3>5 DEF Kind
  <2> QED BY <2>2, <2>3
<1>2. CASE BuryDone
  BY <1>2 DEF BuryDone, Kind, Quiet, Points
<1> QED BY <1>1, <1>2 DEF BuryAll

\* Start, idle server maintenance and the event of an ondemand socket.
LEMMA PoolSteps ==
    ASSUME IInv,
           Start \/ Maintain \/ \E p \in Pools : OnSocketAccept(p)
    PROVE  Control' /\ Kind
<1> USE FpmAssumption DEF IInv, Types, Control
<1>1. CASE InitMain
  BY <1>1 DEF InitMain, Kind, Quiet, Points
<1>2. CASE StartPool
  <2>1. Quiet
    BY <1>2 DEF StartPool, Quiet
  <2>2. at \in Pools
    BY <1>2 DEF StartPool, Pools
  <2>3. CASE Config[at].pm = "ondemand"
    BY <1>2, <2>1, <2>2, <2>3 DEF StartPool, Kind, Pools
  <2>4. CASE Config[at].pm # "ondemand"
    <3>1. /\ pc' = "make" /\ make' = [pool |-> at, max |-> MakeMax(at, TRUE, 0)]
          /\ ret' = "start" /\ at' = at + 1 /\ spawn_rate' = spawn_rate
      BY <1>2, <2>4 DEF StartPool
    <3>2. MakeMax(at, TRUE, 0) \in Nat /\ MakeMax(at, TRUE, 0) <= Config[at].max_children
      BY <2>2, <2>4 DEF MakeMax
    <3>3. pc' = "make" => /\ make'.pool \in Pools /\ make'.max \in Nat
                          /\ make'.max <= Config[make'.pool].max_children
      BY <2>2, <3>1, <3>2
    <3>4. pc' \in Points /\ ret' \in {"start", "loop", "bury", "maint"}
      BY <3>1 DEF Points
    <3>5. at' \in 1..(NPools + 1)
      BY <2>2, <3>1 DEF Pools
    <3>6. spawn_rate' \in [Pools -> Nat]
      BY <3>1
    <3> QED BY <2>1, <3>3, <3>4, <3>5, <3>6 DEF Kind
  <2> QED BY <2>3, <2>4
<1>3. CASE LoopOver
  BY <1>3 DEF LoopOver, Kind, Quiet, Points
<1>4. CASE MaintainBegin
  BY <1>4 DEF MaintainBegin, Kind, Quiet, Points
<1>5. CASE MaintainPool
  <2>1. at \in Pools /\ pc = "maint" /\ at' = at + 1
    BY <1>5 DEF MaintainPool, Pools
  <2>2. /\ UNCHANGED <<children, order, running, total, pool, fpm_state, told, st>>
        /\ pc' \in {"maint", "make"}
    BY <1>5 DEF MaintainPool, MaintainDynamic, MaintainOther
  <2>3. Quiet
    BY <2>2 DEF Quiet
  <2>4. ASSUME MaintainDynamic(at) PROVE Control'
    <3> DEFINE idle == Cardinality(Idle(at))
               fork == ToFork(at, idle)
    <3>1. idle \in Nat
      <4>1. IsFiniteSet(Idle(at))
        BY <2>1, FS_Subset DEF Idle
      <4> QED BY <4>1, FS_CardinalityType
    <3>2. /\ spawn_rate[at] \in Int /\ Config[at].min_spare - idle \in Int
          /\ Config[at].max_children - running[at] \in Int
      BY <2>1, <3>1
    <3>3. fork \in Int /\ fork <= Config[at].max_children - running[at]
      BY <3>2, MinOfThree DEF ToFork
    <3> HIDE DEF idle, fork
    <3>4. \A rate \in Nat : Doubled(rate) \in Nat
      BY DEF Doubled
    <3>5. spawn_rate' = [spawn_rate EXCEPT ![at] = 1]
          \/ spawn_rate' = [spawn_rate EXCEPT ![at] = Doubled(@)]
      BY <2>4 DEF MaintainDynamic
    <3>6. spawn_rate' \in [Pools -> Nat]
      BY <2>1, <3>4, <3>5
    <3>7. \/ UNCHANGED <<pc, ret, make>>
          \/ /\ fork > 0 /\ pc' = "make" /\ ret' = "maint"
             /\ make' = [pool |-> at, max |-> running[at] + fork]
      BY <2>4 DEF MaintainDynamic, idle, fork
    <3>8. at' \in 1..(NPools + 1)
      BY <2>1 DEF Pools
    <3>9. CASE UNCHANGED <<pc, ret, make>>
      BY <3>6, <3>8, <3>9, <2>1
    <3>10. CASE /\ fork > 0 /\ pc' = "make" /\ ret' = "maint"
                /\ make' = [pool |-> at, max |-> running[at] + fork]
      BY <2>1, <3>3, <3>6, <3>8, <3>10 DEF Points
    <3> QED BY <3>7, <3>9, <3>10
  <2>5. ASSUME MaintainOther(at) PROVE Control'
    BY <2>1, <2>5 DEF MaintainOther, Pools
  <2> QED BY <1>5, <2>3, <2>4, <2>5 DEF MaintainPool, Kind
<1>6. ASSUME NEW p \in Pools, OnSocketAccept(p) PROVE Control' /\ Kind
  <2>1. Quiet
    BY <1>6 DEF OnSocketAccept, Quiet
  <2>2. /\ UNCHANGED <<at, spawn_rate>> /\ pc = "loop"
        /\ \/ UNCHANGED <<pc, ret, make>>
           \/ /\ running[p] < Config[p].max_children
              /\ pc' = "make" /\ ret' = "loop"
              /\ make' = [pool |-> p, max |-> running[p] + 1]
    BY <1>6 DEF OnSocketAccept
  <2>3. Control'
    BY <2>2 DEF Points
  <2> QED BY <2>1, <2>3 DEF Kind
<1> QED BY <1>1, <1>2, <1>3, <1>4, <1>5, <1>6 DEF Start, Maintain

\* The children, and everything outside.
LEMMA ChildSteps ==
    ASSUME IInv,
           \/ RequestTimeout \/ FaultExpires
           \/ \E p \in Pools : Connect(p)
           \/ \E c \in Pids : ChildInit(c) \/ ChildInitFails(c) \/ Request(c) \/ Signalled(c)
           \/ \E byte \in Commands : Command(byte)
    PROVE  Control' /\ Kind
<1> USE DEF IInv, Types, Control
<1>1. CASE RequestTimeout
  BY <1>1 DEF RequestTimeout, Kind, Quiet
<1>2. CASE FaultExpires
  BY <1>2 DEF FaultExpires, Kind, Quiet
<1>3. ASSUME NEW p \in Pools, Connect(p) PROVE Control' /\ Kind
  BY <1>3 DEF Connect, Kind, Quiet
<1>4. ASSUME NEW c \in Pids, NEW how \in Live \cup Dead, UNCHANGED masterVars,
             st[c] # "none", st' = st \/ st' = [st EXCEPT ![c] = how]
      PROVE  Control' /\ Kind
  <2>1. how # "none"
    BY <1>4 DEF Live, Dead
  <2>2. Quiet
    BY <1>4, <2>1 DEF Quiet
  <2> QED BY <1>4, <2>2 DEF Kind
<1>5. ASSUME NEW c \in Pids, ChildInit(c) \/ ChildInitFails(c) \/ Request(c)
      PROVE  Control' /\ Kind
  <2>1. /\ UNCHANGED masterVars /\ st[c] # "none"
        /\ \E how \in Live \cup Dead : st' = [st EXCEPT ![c] = how]
    BY <1>5 DEF ChildInit, ChildInitFails, Request, Accept, EndRequest, Retire,
                LastRequest, Fault, Dies, Live, Dead
  <2> QED BY <1>4, <2>1
<1>6. ASSUME NEW c \in Pids, Signalled(c) PROVE Control' /\ Kind
  <2>1. /\ UNCHANGED masterVars /\ st[c] # "none"
        /\ st' = st \/ \E how \in Live \cup Dead : st' = [st EXCEPT ![c] = how]
    BY <1>6 DEF Signalled, Ignore, SoftQuit, Killed, Dies, Live, Dead
  <2>2. "exited" \in Live \cup Dead
    BY DEF Dead
  <2> QED BY <1>4, <2>1, <2>2
<1>7. ASSUME NEW byte \in Commands, Command(byte) PROVE Control' /\ Kind
  <2>1. CASE pc = "init"
    <3>1. Image("gone") /\ UNCHANGED <<pool, st>>
      BY <1>7, <2>1 DEF Command
    <3>2. \A c \in Pids : st[c] = "none"
      BY <2>1 DEF NoOrphans
    <3> QED BY <3>1, <3>2, ImageFacts DEF Kind, Replaced
  <2>2. CASE pc # "init"
    BY <1>7, <2>2 DEF Command, Kind, Quiet
  <2> QED BY <2>1, <2>2
<1> QED BY <1>1, <1>2, <1>3, <1>5, <1>6, <1>7

-----------------------------------------------------------------------------
(* The theorems *)

LEMMA InitIInv == Init => IInv
<1> SUFFICES ASSUME Init PROVE IInv
  OBVIOUS
<1> USE FpmAssumption DEF Init
<1>1. Procs = {}
  BY DEF Procs
<1>2. Control /\ Types /\ Limits /\ Told /\ NoOrphans
  BY DEF Control, Types, Limits, Told, NoOrphans, Points
<1>3. Accounted
  BY <1>1, FS_EmptySet DEF Accounted
<1> QED BY <1>2, <1>3 DEF IInv

LEMMA NextIInv == IInv /\ [Next]_vars => IInv'
<1> SUFFICES ASSUME IInv, [Next]_vars PROVE IInv'
  OBVIOUS
<1>1. ASSUME Next PROVE Control' /\ Kind
  BY <1>1, SignalSteps, MakeSteps, BurySteps, PoolSteps, ChildSteps DEF Next, GotSignal
<1>2. ASSUME UNCHANGED vars PROVE Control' /\ Kind
  BY <1>2 DEF vars, Kind, Quiet, IInv, Types, Control
<1>3. Control' /\ Kind
  BY <1>1, <1>2
<1> QED BY <1>3, KindKeeps DEF IInv

LEMMA Inductive == Spec => []IInv
  BY InitIInv, NextIInv, PTL DEF Spec

\* For any configuration: fpm_children_bury never meets an unknown child, and
\* wp->running_children and fpm_globals.running_children count exactly the
\* processes that exist, zombies included.
THEOREM ChildrenAreAccounted == Spec => []ChildrenAccounted
<1>1. IInv => ChildrenAccounted
  <2> SUFFICES ASSUME IInv PROVE ChildrenAccounted
    OBVIOUS
  <2>1. Linked = Procs
    BY LinkedIsProcs DEF IInv
  <2> QED BY <2>1 DEF IInv, Accounted, ChildrenAccounted, Procs
<1> QED BY <1>1, Inductive, PTL

\* For any configuration: no pool outgrows pm.max_children and all together do
\* not outgrow process.max, however deaths, timeouts and forks interleave.
THEOREM LimitsKept == Spec => []WithinLimits
<1>1. IInv => WithinLimits
  BY DEF IInv, Accounted, Limits, WithinLimits
<1> QED BY <1>1, Inductive, PTL

\* For any configuration: once the children are told to stop, everybody that
\* exists was told; nobody was forked since.
THEOREM EverybodyTold == Spec => []AllTold
<1>1. IInv => AllTold
  BY DEF IInv, Told, Procs, AllTold
<1> QED BY <1>1, Inductive, PTL

\* For any configuration: fpm_pctl_exec and fpm_pctl_exit run when no process
\* is left.
THEOREM NobodyLeftBehind == Spec => []NoOrphans
<1>1. IInv => NoOrphans
  BY DEF IInv
<1> QED BY <1>1, Inductive, PTL

-----------------------------------------------------------------------------
(* The list of children and the types *)

\* The list holds every process that exists, once.
Ordered ==
    /\ order \in Seq(Pids)
    /\ \A i, j \in 1..Len(order) : order[i] = order[j] => i = j
    /\ \A c \in Pids : c \in Procs <=> \E i \in 1..Len(order) : order[i] = c

\* What is left when a child is taken out of a list.
LEMMA Removed ==
    ASSUME NEW S, NEW s \in Seq(S), NEW k \in 1..Len(s)
    PROVE  /\ RemoveAt(s, k) \in Seq(S) /\ Len(RemoveAt(s, k)) = Len(s) - 1
           /\ \A i \in 1..(Len(s) - 1) : RemoveAt(s, k)[i] = IF i < k THEN s[i] ELSE s[i + 1]
<1> DEFINE u == SubSeq(s, 1, k - 1)
           v == SubSeq(s, k + 1, Len(s))
<1>1. u \in Seq(S) /\ Len(u) = k - 1 /\ \A i \in 1..(k - 1) : u[i] = s[i]
  OBVIOUS
<1>2. v \in Seq(S) /\ Len(v) = Len(s) - k /\ \A i \in 1..(Len(s) - k) : v[i] = s[k + i]
  <2>1. \A i \in (k + 1)..Len(s) : s[i] \in S
    OBVIOUS
  <2>2. v = [i \in 1..(Len(s) - k) |-> s[i + k]]
    BY DEF v
  <2>3. \A i \in 1..(Len(s) - k) : i + k \in (k + 1)..Len(s) /\ i + k = k + i
    OBVIOUS
  <2>4. v \in Seq(S) /\ Len(v) = Len(s) - k
    BY <2>1, <2>2, <2>3
  <2> QED BY <2>2, <2>3, <2>4
<1>3. RemoveAt(s, k) = u \o v
  BY DEF RemoveAt
<1> HIDE DEF u, v
<1>4. Len(s) \in Nat /\ k \in Nat
  OBVIOUS
<1>5. u \o v \in Seq(S) /\ Len(u \o v) = Len(s) - 1
  <2>1. u \in Seq(S) /\ v \in Seq(S)
    BY <1>1, <1>2
  <2>2. u \o v \in Seq(S) /\ Len(u \o v) = Len(u) + Len(v)
    BY <2>1
  <2> QED BY <1>1, <1>2, <1>4, <2>2
<1>6. ASSUME NEW i \in 1..(Len(s) - 1)
      PROVE  (u \o v)[i] = IF i < k THEN s[i] ELSE s[i + 1]
  <2>1. CASE i < k
    BY <1>1, <1>2, <1>4, <2>1
  <2>2. CASE ~(i < k)
    <3>1. (u \o v)[i] = v[i - (k - 1)] /\ i - (k - 1) \in 1..(Len(s) - k)
      BY <1>1, <1>2, <1>4, <2>2
    <3>2. k + (i - (k - 1)) = i + 1
      BY <1>4
    <3> QED BY <1>2, <2>2, <3>1, <3>2
  <2> QED BY <2>1, <2>2
<1> QED BY <1>3, <1>5, <1>6

LEMMA KindKeepsOrder ==
    ASSUME IInv, Ordered, Kind
    PROVE  Ordered'
<1> USE DEF IInv, Types
<1>1. CASE Quiet
  <2>1. Procs' = Procs /\ order' = order
    BY <1>1 DEF Quiet, Procs
  <2> QED BY <2>1 DEF Ordered
<1>2. CASE Signalling
  <2>1. Procs' = Procs /\ order' = order
    BY <1>2 DEF Signalling, Procs
  <2> QED BY <2>1 DEF Ordered
<1>3. CASE Replaced
  <2>1. Procs' = {} /\ order' = <<>>
    BY <1>3 DEF Replaced, Procs
  <2> QED BY <2>1 DEF Ordered
<1>4. CASE Forked
  <2>1. PICK c \in Pids : /\ st[c] = "none" /\ order' = Append(order, c)
                          /\ st' = [st EXCEPT ![c] = "starting"]
    BY <1>4 DEF Forked
  <2>2. Procs' = Procs \cup {c} /\ c \notin Procs
    BY <2>1 DEF Procs
  <2>3. /\ order \in Seq(Pids) /\ Len(order) \in Nat
        /\ Append(order, c) \in Seq(Pids) /\ Len(Append(order, c)) = Len(order) + 1
        /\ \A i \in 1..Len(order) : Append(order, c)[i] = order[i] /\ order[i] # c
        /\ Append(order, c)[Len(order) + 1] = c
    BY <2>2 DEF Ordered
  <2>4. \A i, j \in 1..(Len(order) + 1) : order'[i] = order'[j] => i = j
    <3>1. \A i \in 1..(Len(order) + 1) : i \in 1..Len(order) \/ i = Len(order) + 1
      BY <2>3
    <3> QED BY <2>1, <2>3, <3>1 DEF Ordered
  <2>5. ASSUME NEW d \in Pids
        PROVE  d \in Procs' <=> \E i \in 1..(Len(order) + 1) : order'[i] = d
    <3>1. CASE d = c
      BY <2>1, <2>2, <2>3, <3>1
    <3>2. CASE d # c
      BY <2>1, <2>2, <2>3, <3>2 DEF Ordered
    <3> QED BY <3>1, <3>2
  <2> QED BY <2>1, <2>3, <2>4, <2>5 DEF Ordered
<1>5. CASE Buried
  <2>1. PICK c \in Procs :
            /\ order' = RemoveAt(order, CHOOSE i \in DOMAIN order : order[i] = c)
            /\ st' = [st EXCEPT ![c] = "none"]
    BY <1>5 DEF Buried
  <2>2. Procs' = Procs \ {c} /\ c \in Pids
    BY <2>1 DEF Procs
  <2>3. order \in Seq(Pids) /\ DOMAIN order = 1..Len(order) /\ Len(order) \in Nat
    BY DEF Ordered
  <2>4. PICK k : k = CHOOSE i \in DOMAIN order : order[i] = c
    OBVIOUS
  <2>5. k \in 1..Len(order) /\ order[k] = c
    BY <2>2, <2>3, <2>4 DEF Ordered
  <2>6. /\ order' \in Seq(Pids) /\ Len(order') = Len(order) - 1
        /\ \A i \in 1..(Len(order) - 1) : order'[i] = IF i < k THEN order[i] ELSE order[i + 1]
    BY <2>1, <2>3, <2>4, <2>5, Removed
  <2>7. ASSUME NEW i \in 1..(Len(order) - 1), NEW j \in 1..(Len(order) - 1),
               order'[i] = order'[j]
        PROVE  i = j
    <3> DEFINE m(n) == IF n < k THEN n ELSE n + 1
    <3>1. /\ m(i) \in 1..Len(order) /\ m(j) \in 1..Len(order)
          /\ order'[i] = order[m(i)] /\ order'[j] = order[m(j)]
      <4>1. ASSUME NEW n \in 1..(Len(order) - 1)
            PROVE  m(n) \in 1..Len(order) /\ order'[n] = order[m(n)]
        <5>1. CASE n < k
          BY <2>3, <2>5, <2>6, <5>1, SMTT(30)
        <5>2. CASE ~(n < k)
          <6>1. n + 1 \in 1..Len(order)
            BY <2>3
          <6> QED BY <2>6, <5>2, <6>1
        <5> QED BY <5>1, <5>2
      <4> QED BY <4>1
    <3>2. m(i) = m(j)
      BY <2>7, <3>1 DEF Ordered
    <3> QED BY <2>3, <2>5, <3>2
  <2>8. ASSUME NEW d \in Pids
        PROVE  d \in Procs' <=> \E i \in 1..(Len(order) - 1) : order'[i] = d
    <3>1. ASSUME d \in Procs' PROVE \E i \in 1..(Len(order) - 1) : order'[i] = d
      <4>1. PICK n \in 1..Len(order) : order[n] = d
        BY <2>2, <3>1 DEF Ordered
      <4>2. n # k
        BY <2>2, <2>5, <3>1, <4>1
      <4>3. CASE n < k
        <5>1. n \in 1..(Len(order) - 1) /\ n < k
          BY <2>3, <2>5, <4>3
        <5> QED BY <2>6, <4>1, <5>1
      <4>4. CASE n > k
        <5>1. n - 1 \in 1..(Len(order) - 1) /\ ~(n - 1 < k) /\ (n - 1) + 1 = n
          BY <2>3, <2>5, <4>4
        <5>2. order'[n - 1] = d
          BY <2>6, <4>1, <5>1
        <5> QED BY <5>1, <5>2
      <4> QED BY <2>3, <2>5, <4>2, <4>3, <4>4
    <3>2. ASSUME NEW i \in 1..(Len(order) - 1), order'[i] = d PROVE d \in Procs'
      <4>1. PICK n \in 1..Len(order) : n # k /\ order[n] = d
        <5>1. CASE i < k
          BY <2>3, <2>5, <2>6, <3>2, <5>1
        <5>2. CASE ~(i < k)
          <6>1. i + 1 \in 1..Len(order) /\ i + 1 # k /\ order[i + 1] = d
            BY <2>3, <2>5, <2>6, <3>2, <5>2
          <6> QED BY <6>1
        <5> QED BY <5>1, <5>2
      <4>2. d # c
        BY <2>5, <4>1 DEF Ordered
      <4> QED BY <2>2, <4>1, <4>2 DEF Ordered
    <3> QED BY <3>1, <3>2
  <2> QED BY <2>2, <2>6, <2>7, <2>8 DEF Ordered
<1> QED BY <1>1, <1>2, <1>3, <1>4, <1>5 DEF Kind

\* the rest of the state
Fields ==
    /\ make = NoMake \/ make \in [pool : Pools, max : Nat]
    /\ fpm_state \in {"normal", "reloading", "finishing", "terminating"}
    /\ signal_sent \in Signals \cup {"none"} /\ timer \in BOOLEAN
    /\ pipe \in Seq({"T", "Q", "2", "C"})
    /\ spawn_rate \in [Pools -> 1..(2 * MaxSpawnRate - 1)]
    /\ idle_kill \subseteq Pids /\ fresh \in 0..Threshold /\ told \subseteq Pids
    /\ pend \in [Pids -> SUBSET Signals] /\ accepting \subseteq Pids
    /\ conn \in [Pools -> 0..MaxConn] /\ ready \in [Pools -> BOOLEAN]
    /\ commands \in 0..MaxCommands /\ deaths \in 0..MaxDeaths
    /\ forkFails \in 0..MaxForkFails

\* A new image of the master begins with fields of their types.
LEMMA ImageFields ==
    ASSUME NEW where, Image(where),
           UNCHANGED <<pend, conn, ready, deaths>>, Fields,
           accepting' \subseteq Pids,
           commands' \in 0..MaxCommands, forkFails' \in 0..MaxForkFails
    PROVE  Fields'
<1> USE FpmAssumption DEF Fields, Image
<1>1. spawn_rate' \in [Pools -> 1..(2 * MaxSpawnRate - 1)]
  <2>1. 1 \in 1..(2 * MaxSpawnRate - 1)
    OBVIOUS
  <2> QED BY <2>1
<1>2. fresh' \in 0..Threshold /\ pipe' \in Seq({"T", "Q", "2", "C"})
  OBVIOUS
<1> QED BY <1>1, <1>2

\* A signal to all.
LEMMA ToldFields ==
    ASSUME Fields, NEW state \in {"normal", "reloading", "finishing", "terminating"},
           NEW sent \in Signals \cup {"none"}, NEW armed \in BOOLEAN,
           NEW linked \in SUBSET Pids, ActionNext(state, sent, linked, armed)
    PROVE  /\ fpm_state' \in {"normal", "reloading", "finishing", "terminating"}
           /\ signal_sent' \in Signals \cup {"none"} /\ timer' \in BOOLEAN
           /\ pend' \in [Pids -> SUBSET Signals] /\ told' \subseteq Pids
<1>1. NextSignal(state, sent) \in Signals
  BY DEF NextSignal, Signals
<1>2. pend' \in [Pids -> SUBSET Signals]
  <2>1. \A c \in Pids : pend[c] \in SUBSET Signals
    BY DEF Fields
  <2>2. \A c \in Pids : pend[c] \cup {NextSignal(state, sent)} \in SUBSET Signals
    BY <1>1, <2>1
  <2>3. pend' = [c \in Pids |-> IF c \in linked /\ st[c] \in Live
                                THEN pend[c] \cup {NextSignal(state, sent)} ELSE pend[c]]
    BY DEF ActionNext, KillAll
  <2> QED BY <2>1, <2>2, <2>3
<1>3. /\ fpm_state' = state /\ signal_sent' = NextSignal(state, sent) /\ timer' = armed
      /\ told' = linked
  BY DEF ActionNext, KillAll
<1> QED BY <1>1, <1>2, <1>3

LEMMA LinkedPids == IInv => Linked \in SUBSET Pids
BY DEF IInv, Types, Linked

\* fpm_got_signal and the timer.
LEMMA FieldsSignal ==
    ASSUME IInv, Fields, GotCommand \/ GotSigchld \/ TimerFires
    PROVE  Fields'
<1>0. Linked \in SUBSET Pids
  BY LinkedPids
<1>1. ASSUME pipe # <<>>
      PROVE  /\ Tail(pipe) \in Seq({"T", "Q", "2", "C"})
             /\ Head(pipe) \in {"T", "Q", "2", "C"}
  BY <1>1 DEF Fields
<1>2. CASE GotSigchld
  BY <1>1, <1>2 DEF GotSigchld, Fields
<1>3. CASE GotCommand
  <2> DEFINE new == StateOf(Head(pipe))
  <2>1. /\ new \in {"normal", "reloading", "finishing", "terminating"}
        /\ Tail(pipe) \in Seq({"T", "Q", "2", "C"})
    BY <1>1, <1>3 DEF GotCommand, StateOf
  <2>2. UNCHANGED <<accepting, conn, ready, commands, deaths, forkFails>>
    BY <1>3 DEF GotCommand
  <2>3. CASE Overrides(fpm_state, new) /\ total = 0
    <3>1. ActionLast(new) /\ UNCHANGED pend
      BY <1>3, <2>3 DEF GotCommand
    <3>2. PICK where : Image(where)
      BY <3>1 DEF ActionLast
    <3>3. /\ accepting' \subseteq Pids
          /\ commands' \in 0..MaxCommands /\ forkFails' \in 0..MaxForkFails
      BY <2>2 DEF Fields
    <3> QED BY <2>2, <3>1, <3>2, <3>3, ImageFields
  <2>4. CASE ~(Overrides(fpm_state, new) /\ total = 0)
    <3>1. /\ PctlSet(new, Linked) /\ pipe' = Tail(pipe)
          /\ UNCHANGED <<make, spawn_rate, idle_kill, fresh>>
      BY <1>3, <2>4 DEF GotCommand
    <3>2. /\ fpm_state' \in {"normal", "reloading", "finishing", "terminating"}
          /\ signal_sent' \in Signals \cup {"none"} /\ timer' \in BOOLEAN
          /\ pend' \in [Pids -> SUBSET Signals] /\ told' \subseteq Pids
      <4>1. CASE Overrides(fpm_state, new)
        <5>1. ActionNext(new, "none", Linked, TRUE)
          BY <3>1, <4>1 DEF PctlSet
        <5> HIDE DEF new
        <5> QED BY <1>0, <2>1, <5>1, ToldFields
      <4>2. CASE ~Overrides(fpm_state, new)
        <5>1. UNCHANGED <<fpm_state, signal_sent, timer, told, pend>>
          BY <3>1, <4>2 DEF PctlSet
        <5> QED BY <5>1 DEF Fields
      <4> QED BY <4>1, <4>2
    <3> HIDE DEF new
    <3> QED BY <2>1, <2>2, <3>1, <3>2 DEF Fields
  <2> QED BY <2>3, <2>4
<1>4. CASE TimerFires
  <2>2. UNCHANGED <<accepting, conn, ready, commands, deaths, forkFails>>
    BY <1>4 DEF TimerFires
  <2>3. CASE total = 0
    <3>1. ActionLast(fpm_state) /\ UNCHANGED pend
      BY <1>4, <2>3 DEF TimerFires
    <3>2. PICK where : Image(where)
      BY <3>1 DEF ActionLast
    <3>3. /\ accepting' \subseteq Pids
          /\ commands' \in 0..MaxCommands /\ forkFails' \in 0..MaxForkFails
      BY <2>2 DEF Fields
    <3> QED BY <2>2, <3>1, <3>2, <3>3, ImageFields
  <2>4. CASE total # 0
    <3>1. /\ ActionNext(fpm_state, signal_sent, Linked, FALSE)
          /\ UNCHANGED <<make, pipe, spawn_rate, idle_kill, fresh>>
      BY <1>4, <2>4 DEF TimerFires
    <3>2. /\ fpm_state \in {"normal", "reloading", "finishing", "terminating"}
          /\ signal_sent \in Signals \cup {"none"}
      BY DEF Fields
    <3>3. /\ fpm_state' \in {"normal", "reloading", "finishing", "terminating"}
          /\ signal_sent' \in Signals \cup {"none"} /\ timer' \in BOOLEAN
          /\ pend' \in [Pids -> SUBSET Signals] /\ told' \subseteq Pids
      BY <1>0, <3>1, <3>2, ToldFields
    <3> QED BY <2>2, <3>1, <3>3 DEF Fields
  <2> QED BY <2>3, <2>4
<1> QED BY <1>2, <1>3, <1>4

\* fpm_children_make.
LEMMA FieldsMake ==
    ASSUME IInv, Fields, Make
    PROVE  Fields'
<1>1. CASE MakeDone
  BY <1>1 DEF MakeDone, Fields
<1>2. ASSUME NEW c \in Pids, Fork(c) PROVE Fields'
  BY <1>2 DEF Fork, Fields
<1>3. CASE ForkFails
  <2>1. /\ UNCHANGED <<accepting, conn, ready, commands, deaths>>
        /\ forkFails' \in 0..MaxForkFails
    BY <1>3, FpmAssumption DEF ForkFails, Fields
  <2>2. CASE ret = "start" /\ total = 0
    <3>1. ActionLast("terminating") /\ UNCHANGED pend
      BY <1>3, <2>2 DEF ForkFails
    <3>2. PICK where : Image(where)
      BY <3>1 DEF ActionLast
    <3>3. accepting' \subseteq Pids /\ commands' \in 0..MaxCommands
      BY <2>1 DEF Fields
    <3> QED BY <2>1, <3>1, <3>2, <3>3, ImageFields
  <2>3. CASE ~(ret = "start" /\ total = 0)
    <3>1. /\ PctlSet("terminating", Linked) \/ UNCHANGED <<pctlVars, pend>>
          /\ make' = NoMake /\ UNCHANGED <<pipe, spawn_rate, idle_kill, fresh>>
      BY <1>3, <2>3 DEF ForkFails
    <3>2. ActionNext("terminating", "none", Linked, TRUE)
          \/ UNCHANGED <<fpm_state, signal_sent, timer, told, pend>>
      BY <3>1 DEF PctlSet
    <3>3. /\ fpm_state' \in {"normal", "reloading", "finishing", "terminating"}
          /\ signal_sent' \in Signals \cup {"none"} /\ timer' \in BOOLEAN
          /\ pend' \in [Pids -> SUBSET Signals] /\ told' \subseteq Pids
      <4>1. CASE ActionNext("terminating", "none", Linked, TRUE)
        BY <4>1, LinkedPids, ToldFields
      <4>2. CASE UNCHANGED <<fpm_state, signal_sent, timer, told, pend>>
        BY <4>2 DEF Fields
      <4> QED BY <3>2, <4>1, <4>2
    <3> QED BY <2>1, <3>1, <3>3 DEF Fields
  <2> QED BY <2>2, <2>3
<1> QED BY <1>1, <1>2, <1>3 DEF Make

\* The least of two numbers.
LEMMA MinOfTwo ==
    ASSUME NEW a \in Int, NEW b \in Int
    PROVE  Min({a, b}) = IF a <= b THEN a ELSE b
<1>1. CASE a <= b
  BY <1>1 DEF Min
<1>2. CASE ~(a <= b)
  BY <1>2 DEF Min
<1> QED BY <1>1, <1>2

\* fpm_children_bury.
LEMMA FieldsBury ==
    ASSUME IInv, Fields, BuryAll
    PROVE  Fields'
<1>1. ASSUME NEW c \in Pids, Bury(c) PROVE Fields'
  <2> DEFINE reload == Emergency(c) /\ fpm_state = "normal"
             state  == IF reload THEN "reloading" ELSE fpm_state
  <2>1. /\ UNCHANGED <<conn, ready, commands, deaths, forkFails>>
        /\ accepting' = accepting \ {c} /\ pc = "bury" /\ c \in Linked
    BY <1>1 DEF Bury
  <2>2. /\ accepting' \subseteq Pids /\ conn' \in [Pools -> 0..MaxConn]
        /\ ready' \in [Pools -> BOOLEAN]
        /\ commands' \in 0..MaxCommands /\ deaths' \in 0..MaxDeaths
        /\ forkFails' \in 0..MaxForkFails
    BY <2>1 DEF Fields
  <2>3. CASE state # "normal" /\ LastChild(c)
    <3>1. ActionLast(state) /\ UNCHANGED pend
      BY <1>1, <2>3 DEF Bury
    <3>2. PICK where : Image(where)
      BY <3>1 DEF ActionLast
    <3> QED BY <2>1, <2>2, <3>1, <3>2, ImageFields
  <2>4. CASE ~(state # "normal" /\ LastChild(c))
    <3>1. /\ \/ ActionNext("reloading", "none", Linked \ {c}, TRUE)
             \/ told' = told \ {c} /\ UNCHANGED <<fpm_state, signal_sent, timer, pend>>
          /\ idle_kill' = idle_kill \ {c} /\ fresh' = FaultLevel(c)
          /\ UNCHANGED <<pipe, spawn_rate>>
          /\ \/ UNCHANGED make
             \/ make' = [pool |-> pool[c], max |-> MakeMax(pool[c], FALSE, running[pool[c]])]
      BY <1>1, <2>4 DEF Bury
    <3>2. /\ fpm_state' \in {"normal", "reloading", "finishing", "terminating"}
          /\ signal_sent' \in Signals \cup {"none"} /\ timer' \in BOOLEAN
          /\ pend' \in [Pids -> SUBSET Signals] /\ told' \subseteq Pids
      <4>1. CASE ActionNext("reloading", "none", Linked \ {c}, TRUE)
        <5>1. Linked \ {c} \in SUBSET Pids
          BY LinkedPids
        <5> QED BY <4>1, <5>1, ToldFields
      <4>2. CASE told' = told \ {c} /\ UNCHANGED <<fpm_state, signal_sent, timer, pend>>
        BY <4>2 DEF Fields
      <4> QED BY <3>1, <4>1, <4>2
    <3>3. fresh' \in 0..Threshold
      <4>1. fresh \in 0..Threshold /\ Threshold \in Nat
        BY FpmAssumption DEF Fields
      <4>2. Min({fresh + 1, Threshold}) \in 0..Threshold
        <5>1. fresh + 1 \in Int /\ Threshold \in Int
          BY <4>1
        <5>2. Min({fresh + 1, Threshold})
                = IF fresh + 1 <= Threshold THEN fresh + 1 ELSE Threshold
          BY <5>1, MinOfTwo
        <5> QED BY <4>1, <5>2
      <4> QED BY <3>1, <4>1, <4>2 DEF FaultLevel
    <3>4. make' = NoMake \/ make' \in [pool : Pools, max : Nat]
      <4>1. pool[c] \in Pools
        BY <2>1, LinkedIsProcs DEF IInv, Accounted
      <4>2. MakeMax(pool[c], FALSE, running[pool[c]]) \in Nat
        BY <4>1, FpmAssumption DEF MakeMax, IInv, Types
      <4>3. PICK m \in Nat : m = MakeMax(pool[c], FALSE, running[pool[c]])
        BY <4>2
      <4>4. UNCHANGED make \/ make' = [pool |-> pool[c], max |-> m]
        BY <3>1, <4>3
      <4> QED BY <4>1, <4>4 DEF Fields
    <3>5. idle_kill' \subseteq Pids
      BY <3>1 DEF Fields
    <3> QED BY <2>2, <3>1, <3>2, <3>3, <3>4, <3>5 DEF Fields
  <2> QED BY <2>3, <2>4
<1>2. CASE BuryDone
  BY <1>2 DEF BuryDone, Fields
<1> QED BY <1>1, <1>2 DEF BuryAll

\* The oldest idle child is one of the list.
LEMMA OldestIsChild ==
    ASSUME IInv, Ordered, NEW p \in Pools, Idle(p) # {}
    PROVE  OldestIdle(p) \in Pids
<1> DEFINE T == {i \in DOMAIN order : order[i] \in Idle(p)}
<1>1. order \in Seq(Pids) /\ DOMAIN order = 1..Len(order) /\ Len(order) \in Nat
  BY DEF Ordered
<1>2. T # {}
  <2>1. PICK c \in Idle(p) : TRUE
    OBVIOUS
  <2>2. c \in Procs /\ c \in Pids
    BY <2>1 DEF Idle, IInv, Types, Accounted
  <2>3. PICK i \in 1..Len(order) : order[i] = c
    BY <2>2 DEF Ordered
  <2> QED BY <1>1, <2>1, <2>3
<1>3. T \in SUBSET Nat
  BY <1>1
<1>4. PICK k \in T : \A y \in T : k <= y
  <2> HIDE DEF T
  <2> QED BY <1>2, <1>3, LeastNumber
<1>5. Min(T) \in T
  BY <1>4 DEF Min
<1> QED BY <1>1, <1>5 DEF OldestIdle

\* fpm_pctl_kill of the oldest idle child.
LEMMA FieldsKillIdle ==
    ASSUME IInv, Ordered, Fields, NEW p \in Pools, Idle(p) # {}, KillIdle(p)
    PROVE  idle_kill' \subseteq Pids /\ pend' \in [Pids -> SUBSET Signals]
<1>1. PICK c \in Pids : c = OldestIdle(p)
  BY OldestIsChild
<1>2. /\ idle_kill' = idle_kill \cup {c}
      /\ pend' = IF st[c] \in Live THEN [pend EXCEPT ![c] = @ \cup {"QUIT"}] ELSE pend
  BY <1>1 DEF KillIdle
<1>3. idle_kill \subseteq Pids /\ pend \in [Pids -> SUBSET Signals]
  BY DEF Fields
<1>4. pend[c] \cup {"QUIT"} \in SUBSET Signals
  BY <1>3 DEF Signals
<1> QED BY <1>2, <1>3, <1>4

\* A spawn rate is doubled only below the limit.
LEMMA DoubledRate ==
    ASSUME NEW rate \in 1..(2 * MaxSpawnRate - 1)
    PROVE  Doubled(rate) \in 1..(2 * MaxSpawnRate - 1)
<1>1. CASE rate < MaxSpawnRate
  BY <1>1, FpmAssumption DEF Doubled
<1>2. CASE ~(rate < MaxSpawnRate)
  BY <1>2, FpmAssumption DEF Doubled
<1> QED BY <1>1, <1>2

\* Start, idle server maintenance and the event of an ondemand socket.
LEMMA FieldsPool ==
    ASSUME IInv, Ordered, Fields,
           Start \/ Maintain \/ \E p \in Pools : OnSocketAccept(p)
    PROVE  Fields'
<1>1. CASE InitMain \/ LoopOver \/ MaintainBegin
  BY <1>1 DEF InitMain, LoopOver, MaintainBegin, Fields
<1>2. CASE StartPool
  <2>1. at \in Pools
    BY <1>2 DEF StartPool, Pools, IInv, Control
  <2>2. PICK m \in Nat : m = MakeMax(at, TRUE, 0)
    BY <2>1, FpmAssumption DEF MakeMax
  <2>3. /\ UNCHANGED <<fpm_state, signal_sent, timer, told, pipe, spawn_rate, idle_kill,
                       fresh, pend, accepting, conn, commands, deaths, forkFails>>
        /\ UNCHANGED make \/ make' = [pool |-> at, max |-> m]
        /\ UNCHANGED ready \/ ready' = [ready EXCEPT ![at] = conn[at] > 0]
    BY <1>2, <2>2 DEF StartPool
  <2>4. ready' \in [Pools -> BOOLEAN]
    <3>1. (conn[at] > 0) \in BOOLEAN
      OBVIOUS
    <3> QED BY <2>1, <2>3, <3>1 DEF Fields
  <2>5. make' = NoMake \/ make' \in [pool : Pools, max : Nat]
    BY <2>1, <2>3 DEF Fields
  <2> QED BY <2>3, <2>4, <2>5 DEF Fields
<1>3. CASE MaintainPool
  <2>1. at \in Pools
    BY <1>3 DEF MaintainPool, Pools, IInv, Control
  <2>2. UNCHANGED <<fpm_state, signal_sent, timer, told, pipe, fresh, accepting, conn,
                    ready, commands, deaths, forkFails>>
    BY <1>3 DEF MaintainPool
  <2>3. /\ idle_kill' \subseteq Pids /\ pend' \in [Pids -> SUBSET Signals]
        /\ spawn_rate' \in [Pools -> 1..(2 * MaxSpawnRate - 1)]
        /\ make' = NoMake \/ make' \in [pool : Pools, max : Nat]
    <3>0. 1 \in 1..(2 * MaxSpawnRate - 1)
      BY FpmAssumption
    <3>1. CASE MaintainDynamic(at)
      <4> DEFINE idle == Cardinality(Idle(at))
                 fork == ToFork(at, idle)
      <4>1. idle \in Nat /\ (Idle(at) = {} => idle = 0)
        <5>1. IsFiniteSet(Idle(at))
          BY <2>1, FpmAssumption, FS_Subset DEF Idle, IInv, Types
        <5> QED BY <5>1, FS_CardinalityType, FS_EmptySet
      <4>2. fork \in Int
        <5>1. /\ spawn_rate[at] \in Int /\ Config[at].min_spare - idle \in Int
              /\ Config[at].max_children - running[at] \in Int
          BY <2>1, <4>1, FpmAssumption DEF IInv, Types, Control
        <5> QED BY <5>1, MinOfThree DEF ToFork
      <4>3. Config[at].max_spare \in Nat /\ running[at] \in Nat
        BY <2>1, FpmAssumption DEF IInv, Types
      <4>4. \/ /\ idle > Config[at].max_spare /\ KillIdle(at)
               /\ spawn_rate' = [spawn_rate EXCEPT ![at] = 1] /\ UNCHANGED make
            \/ /\ spawn_rate' = [spawn_rate EXCEPT ![at] = 1]
               /\ UNCHANGED <<make, pend, idle_kill>>
            \/ /\ fork > 0 /\ spawn_rate' = [spawn_rate EXCEPT ![at] = Doubled(@)]
               /\ make' = [pool |-> at, max |-> running[at] + fork]
               /\ UNCHANGED <<pend, idle_kill>>
        BY <3>1 DEF MaintainDynamic
      <4> HIDE DEF idle, fork
      <4>5. spawn_rate' \in [Pools -> 1..(2 * MaxSpawnRate - 1)]
        <5>1. spawn_rate \in [Pools -> 1..(2 * MaxSpawnRate - 1)]
          BY DEF Fields
        <5>2. Doubled(spawn_rate[at]) \in 1..(2 * MaxSpawnRate - 1)
          BY <2>1, <5>1, DoubledRate
        <5> QED BY <3>0, <4>4, <5>1, <5>2
      <4>6. make' = NoMake \/ make' \in [pool : Pools, max : Nat]
        BY <2>1, <4>2, <4>3, <4>4, SMTT(30) DEF Fields
      <4>7. idle_kill' \subseteq Pids /\ pend' \in [Pids -> SUBSET Signals]
        <5>1. CASE idle > Config[at].max_spare /\ KillIdle(at)
          <6>1. Idle(at) # {}
            BY <4>1, <4>3, <5>1
          <6> QED BY <2>1, <5>1, <6>1, FieldsKillIdle
        <5>2. CASE UNCHANGED <<pend, idle_kill>>
          BY <5>2 DEF Fields
        <5> QED BY <4>4, <5>1, <5>2
      <4> QED BY <4>5, <4>6, <4>7
    <3>2. CASE MaintainOther(at)
      <4>1. /\ UNCHANGED <<make, spawn_rate>>
            /\ (Idle(at) # {} /\ KillIdle(at)) \/ UNCHANGED <<pend, idle_kill>>
        BY <3>2 DEF MaintainOther
      <4>2. CASE Idle(at) # {} /\ KillIdle(at)
        <5>1. idle_kill' \subseteq Pids /\ pend' \in [Pids -> SUBSET Signals]
          BY <2>1, <4>2, FieldsKillIdle
        <5> QED BY <4>1, <5>1 DEF Fields
      <4>3. CASE UNCHANGED <<pend, idle_kill>>
        BY <4>1, <4>3 DEF Fields
      <4> QED BY <4>1, <4>2, <4>3
    <3> QED BY <1>3, <3>1, <3>2 DEF MaintainPool
  <2> QED BY <2>2, <2>3 DEF Fields
<1>4. ASSUME NEW p \in Pools, OnSocketAccept(p) PROVE Fields'
  <2>1. /\ UNCHANGED <<fpm_state, signal_sent, timer, told, pipe, spawn_rate, idle_kill,
                       fresh, pend, accepting, conn, commands, deaths, forkFails>>
        /\ UNCHANGED make \/ make' = [pool |-> p, max |-> running[p] + 1]
        /\ ready' = [ready EXCEPT ![p] = FALSE]
    BY <1>4 DEF OnSocketAccept
  <2>2. running[p] + 1 \in Nat
    BY DEF IInv, Types
  <2>3. make' = NoMake \/ make' \in [pool : Pools, max : Nat]
    BY <2>1, <2>2 DEF Fields
  <2> QED BY <2>1, <2>3 DEF Fields
<1> QED BY <1>1, <1>2, <1>3, <1>4 DEF Start, Maintain

\* A byte more in the socket pair.
LEMMA WrittenPipe ==
    ASSUME Fields, NEW byte \in {"T", "Q", "2", "C"}
    PROVE  Written(byte) \in Seq({"T", "Q", "2", "C"})
<1>1. pipe \in Seq({"T", "Q", "2", "C"})
  BY DEF Fields
<1>2. Append(pipe, byte) \in Seq({"T", "Q", "2", "C"})
  BY <1>1
<1> QED BY <1>1, <1>2 DEF Written

\* The children, and everything outside.
LEMMA FieldsChild ==
    ASSUME IInv, Fields,
           \/ RequestTimeout \/ FaultExpires
           \/ \E p \in Pools : Connect(p)
           \/ \E c \in Pids : ChildInit(c) \/ ChildInitFails(c) \/ Request(c) \/ Signalled(c)
           \/ \E byte \in Commands : Command(byte)
    PROVE  Fields'
<1>1. CASE RequestTimeout
  <2>1. PICK late : pend' = [c \in Pids |-> IF c \in late THEN pend[c] \cup {"TERM"}
                                            ELSE pend[c]]
    BY <1>1 DEF RequestTimeout
  <2>2. \A c \in Pids : pend[c] \in SUBSET Signals /\ pend[c] \cup {"TERM"} \in SUBSET Signals
    BY DEF Fields, Signals
  <2>3. pend' \in [Pids -> SUBSET Signals]
    BY <2>1, <2>2
  <2> QED BY <1>1, <2>3 DEF RequestTimeout, Fields
<1>2. CASE FaultExpires
  <2>1. fresh' \in 0..Threshold
    BY <1>2, FpmAssumption DEF FaultExpires, Fields
  <2> QED BY <1>2, <2>1 DEF FaultExpires, Fields
<1>3. ASSUME NEW p \in Pools, Connect(p) PROVE Fields'
  <2>1. conn' \in [Pools -> 0..MaxConn]
    BY <1>3, FpmAssumption DEF Connect, Fields
  <2>2. ready' \in [Pools -> BOOLEAN]
    <3>1. (Config[p].pm = "ondemand") \in BOOLEAN
      OBVIOUS
    <3> QED BY <1>3, <3>1 DEF Connect, Fields
  <2> QED BY <1>3, <2>1, <2>2 DEF Connect, Fields
<1>4. ASSUME NEW c \in Pids, NEW how, Dies(c, how)
      PROVE  pipe' \in Seq({"T", "Q", "2", "C"}) /\ pend' \in [Pids -> SUBSET Signals]
  <2>1. pipe' = Written("C") /\ pend' = [pend EXCEPT ![c] = {}]
    BY <1>4 DEF Dies
  <2>2. Written("C") \in Seq({"T", "Q", "2", "C"})
    BY WrittenPipe
  <2> QED BY <2>1, <2>2 DEF Fields
<1>5. ASSUME NEW c \in Pids, UNCHANGED masterVars,
             pipe' \in Seq({"T", "Q", "2", "C"}), pend' \in [Pids -> SUBSET Signals],
             accepting' \subseteq Pids, conn' \in [Pools -> 0..MaxConn], UNCHANGED ready,
             commands' = commands, deaths' \in 0..MaxDeaths, forkFails' \in 0..MaxForkFails
      PROVE  Fields'
  BY <1>5 DEF Fields
<1>6. /\ pipe \in Seq({"T", "Q", "2", "C"}) /\ pend \in [Pids -> SUBSET Signals]
      /\ accepting \subseteq Pids /\ conn \in [Pools -> 0..MaxConn]
      /\ commands \in 0..MaxCommands /\ deaths \in 0..MaxDeaths
      /\ forkFails \in 0..MaxForkFails
  BY DEF Fields
<1>7. ASSUME NEW c \in Pids, ChildInit(c) \/ EndRequest(c) PROVE Fields'
  BY <1>5, <1>6, <1>7 DEF ChildInit, EndRequest
<1>8. ASSUME NEW c \in Pids, ChildInitFails(c) PROVE Fields'
  <2>1. forkFails' \in 0..MaxForkFails
    BY <1>6, <1>8, FpmAssumption DEF ChildInitFails
  <2> QED BY <1>4, <1>5, <1>6, <1>8, <2>1 DEF ChildInitFails
<1>9. ASSUME NEW c \in Pids, Accept(c) PROVE Fields'
  <2>1. pool[c] \in Pools
    BY <1>9 DEF Accept, IInv, Accounted, Procs
  <2>2. conn' \in [Pools -> 0..MaxConn]
    BY <1>6, <1>9, <2>1, FpmAssumption, SMTT(30) DEF Accept
  <2> QED BY <1>5, <1>6, <1>9, <2>2 DEF Accept
<1>10. ASSUME NEW c \in Pids, Retire(c) \/ Fault(c) PROVE Fields'
  <2>1. deaths' \in 0..MaxDeaths
    BY <1>6, <1>10, FpmAssumption DEF Retire, Fault
  <2> QED BY <1>4, <1>5, <1>6, <1>10, <2>1 DEF Retire, Fault
<1>11. ASSUME NEW c \in Pids, LastRequest(c) \/ Killed(c) PROVE Fields'
  BY <1>4, <1>5, <1>6, <1>11 DEF LastRequest, Killed
<1>12. ASSUME NEW c \in Pids, Ignore(c) \/ SoftQuit(c) PROVE Fields'
  <2>1. pend[c] \cap {"KILL"} \in SUBSET Signals /\ pend[c] \ {"QUIT"} \in SUBSET Signals
    BY <1>6
  <2>2. CASE \E how : Dies(c, how)
    BY <1>4, <1>5, <1>6, <1>12, <2>2 DEF Ignore, SoftQuit
  <2>3. CASE /\ UNCHANGED pipe
             /\ \/ pend' = [pend EXCEPT ![c] = @ \cap {"KILL"}]
                \/ pend' = [pend EXCEPT ![c] = @ \ {"QUIT"}]
    <3>1. pend' \in [Pids -> SUBSET Signals]
      BY <1>6, <2>1, <2>3
    <3> QED BY <1>5, <1>6, <1>12, <2>3, <3>1 DEF Ignore, SoftQuit
  <2> QED BY <1>12, <2>2, <2>3 DEF Ignore, SoftQuit
<1>13. ASSUME NEW byte \in Commands, Command(byte) PROVE Fields'
  <2>1. commands' \in 0..MaxCommands
    BY <1>6, <1>13, FpmAssumption DEF Command
  <2>2. CASE pc = "init"
    BY <1>6, <1>13, <2>1, <2>2, ImageFields DEF Command
  <2>3. CASE pc # "init"
    <3>1. Written(byte) \in Seq({"T", "Q", "2", "C"})
      <4>1. byte \in {"T", "Q", "2", "C"}
        BY FpmAssumption
      <4> QED BY <4>1, WrittenPipe
    <3> QED BY <1>13, <2>1, <2>3, <3>1 DEF Command, Fields
  <2> QED BY <2>2, <2>3
<1> QED BY <1>1, <1>2, <1>3, <1>7, <1>8, <1>9, <1>10, <1>11, <1>12, <1>13
       DEF Request, Signalled

LEMMA InitFields == Init => Ordered /\ Fields
<1> SUFFICES ASSUME Init PROVE Ordered /\ Fields
  OBVIOUS
<1>1. order = <<>> /\ Procs = {}
  BY DEF Init, Procs
<1>2. Ordered
  BY <1>1 DEF Ordered
<1>3. 1 \in 1..(2 * MaxSpawnRate - 1) /\ 0 \in 0..Threshold /\ 0 \in 0..MaxConn
  BY FpmAssumption
<1>4. /\ spawn_rate \in [Pools -> 1..(2 * MaxSpawnRate - 1)]
      /\ conn \in [Pools -> 0..MaxConn] /\ ready \in [Pools -> BOOLEAN]
      /\ pend \in [Pids -> SUBSET Signals] /\ pipe \in Seq({"T", "Q", "2", "C"})
  BY <1>3 DEF Init
<1>5. /\ make = NoMake /\ fpm_state = "normal" /\ signal_sent = "none" /\ timer = FALSE
      /\ idle_kill = {} /\ told = {} /\ accepting = {} /\ fresh = 0
      /\ commands = 0 /\ deaths = 0 /\ forkFails = 0
  BY DEF Init
<1>6. /\ commands \in 0..MaxCommands /\ deaths \in 0..MaxDeaths
      /\ forkFails \in 0..MaxForkFails /\ fresh \in 0..Threshold
  BY <1>3, <1>5, FpmAssumption
<1>7. Fields
  BY <1>4, <1>5, <1>6, Zenon DEF Fields
<1> QED BY <1>2, <1>7

LEMMA NextFields == IInv /\ Ordered /\ Fields /\ [Next]_vars => Ordered' /\ Fields'
<1> SUFFICES ASSUME IInv, Ordered, Fields, [Next]_vars PROVE Ordered' /\ Fields'
  OBVIOUS
<1>1. CASE Next
  <2>1. Kind
    BY <1>1, SignalSteps, MakeSteps, BurySteps, PoolSteps, ChildSteps DEF Next, GotSignal
  <2>2. Fields'
    BY <1>1, FieldsSignal, FieldsMake, FieldsBury, FieldsPool, FieldsChild
       DEF Next, GotSignal
  <2> QED BY <2>1, <2>2, KindKeepsOrder
<1>2. CASE UNCHANGED vars
  <2>1. Ordered'
    <3>1. order' = order /\ Procs' = Procs
      BY <1>2 DEF vars, Procs
    <3> QED BY <3>1 DEF Ordered
  <2>2. Fields'
    BY <1>2 DEF vars, Fields
  <2> QED BY <2>1, <2>2
<1> QED BY <1>1, <1>2

\* For any configuration: every variable keeps its type.  The spawn rate of a
\* pool stays below twice FPM_MAX_SPAWN_RATE, the faults within
\* emergency_restart_interval do not pass the threshold, and the oldest idle
\* child that the maintenance kills is found in the list of children.
THEOREM TypeCorrect == Spec => []TypeOK
<1>1. Spec => [](Ordered /\ Fields)
  BY InitFields, NextFields, Inductive, PTL DEF Spec
<1>2. IInv /\ Ordered /\ Fields => TypeOK
  BY DEF IInv, Control, Points, Types, Ordered, Fields, TypeOK
<1> QED BY <1>1, <1>2, Inductive, PTL

=============================================================================
