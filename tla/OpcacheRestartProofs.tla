------------------------ MODULE OpcacheRestartProofs ------------------------
(***************************************************************************)
(* Proofs about OpcacheRestart for any number of processes and files and   *)
(* any bounds: the type invariant, the exclusion by the allocation lock,   *)
(* that a usage lock taken outside the window of a restart protects the    *)
(* memory until it is released, and that the table is of this epoch.       *)
(*                                                                         *)
(* A restart is several steps, and a process that dies between them leaves *)
(* them half done.  As long as none does (MaxCrashes = 0; forced restarts  *)
(* still kill processes): stale keys are found out, and the wasted memory  *)
(* is counted exactly, but for what is counted through pointers from       *)
(* before a restart.                                                       *)
(***************************************************************************)
EXTENDS OpcacheRestart, FiniteSetTheorems, TLAPS

\* What the proofs use of the records that stand for cached scripts.
LEMMA ScriptFacts ==
    /\ NoScript \notin Scripts
    /\ \A s \in Scripts : /\ s.slot \in 1..Cap /\ s.ep \in Nat /\ s.bad \in BOOLEAN
                          /\ s.ver \in 0..MaxVersion
                          /\ [s EXCEPT !.bad = TRUE] \in Scripts
<1>1. \A s \in Scripts : s.slot \in 1..Cap /\ s.ep \in Nat /\ s.bad \in BOOLEAN
                         /\ s.ver \in 0..MaxVersion
  BY DEF Scripts
<1>2. \A s \in Scripts : [s EXCEPT !.bad = TRUE] \in Scripts
  BY DEF Scripts
<1>3. NoScript \notin Scripts
  <2>1. NoScript.slot = 0
    BY DEF NoScript
  <2> QED BY <1>1, <2>1
<1> QED BY <1>1, <1>2, <1>3

USE DEF lockVars, schedVars, doneVars, cacheVars, procVars, worldVars, Goto, Move

\* What marking a script corrupted does to the table and to the accounting.
LEMMA MarkFacts ==
    ASSUME TypeOK, NEW p \in Procs, MarkCorrupted(p)
    PROVE  /\ alloc = NoProc /\ alloc' = p /\ UNCHANGED <<used, epoch, exhausted>>
           /\ \E l \in {"schedule", "unlock"} : pc' = [pc EXCEPT ![p] = l]
           /\ \/ UNCHANGED <<cache, wasted, stray>>
              \/ cache' = cache /\ wasted' = wasted + 1 /\ stray' = stray + 1
              \/ /\ wasted' = wasted + 1 /\ stray' = stray
                 /\ \E f \in Files :
                       /\ cache[f] \in Scripts /\ ~cache[f].bad
                       /\ cache' = [cache EXCEPT ![f] = [@ EXCEPT !.bad = TRUE]]
<1>1. alloc = NoProc /\ alloc' = p /\ UNCHANGED <<used, epoch, exhausted>>
  BY DEF MarkCorrupted, AllocLock
<1>2. CASE MarkedAlready(p)
  BY <1>1, <1>2 DEF MarkedAlready
<1>3. CASE MarkStray(p)
  BY <1>1, <1>3 DEF MarkStray, Waste, NextIfNecessary
<1>4. ASSUME NEW f \in Files, MarkScript(p, f)
      PROVE  /\ \E l \in {"schedule", "unlock"} : pc' = [pc EXCEPT ![p] = l]
             /\ wasted' = wasted + 1 /\ stray' = stray
             /\ cache[f] \in Scripts /\ ~cache[f].bad
             /\ cache' = [cache EXCEPT ![f] = [@ EXCEPT !.bad = TRUE]]
  <2>1. cache[f] \in Scripts
    BY <1>4 DEF MarkScript, TypeOK
  <2> QED BY <1>4, <2>1 DEF MarkScript, Waste, NextIfNecessary
<1>5. ASSUME \E f \in Files : MarkScript(p, f)
      PROVE  /\ \E l \in {"schedule", "unlock"} : pc' = [pc EXCEPT ![p] = l]
             /\ wasted' = wasted + 1 /\ stray' = stray
             /\ \E f \in Files :
                   /\ cache[f] \in Scripts /\ ~cache[f].bad
                   /\ cache' = [cache EXCEPT ![f] = [@ EXCEPT !.bad = TRUE]]
  BY <1>4, <1>5
<1> QED BY <1>1, <1>2, <1>3, <1>5 DEF MarkCorrupted

\* The initial state and every action respect the types.
LEMMA TypeInit == Init => TypeOK
<1> SUFFICES ASSUME Init PROVE TypeOK
    OBVIOUS
<1> USE OpcacheAssumption DEF Init
<1>1. /\ cache \in [Files -> Scripts \cup {NoScript}]
      /\ script \in [Procs -> Scripts \cup {NoScript}]
      /\ version \in [Files -> 0..MaxVersion]
  OBVIOUS
<1>2. pc \in [Procs -> ControlPoints] /\ guard \in [Procs -> Nat \cup {NoEpoch}]
  BY DEF ControlPoints
<1>3. /\ counted \in [Procs -> BOOLEAN] /\ after \in [Procs -> {"run", "miss", "compare"}]
      /\ last \in [Procs -> Nat] /\ resetPcre \in [Procs -> BOOLEAN]
      /\ uses \in [Procs -> SUBSET Nat] /\ pcre \in [Procs -> SUBSET Nat]
  OBVIOUS
<1>4. scheduled \in 0..MaxRestarts /\ used \in 0..Cap /\ crashes \in 0..MaxCrashes
  OBVIOUS
<1> QED BY <1>1, <1>2, <1>3, <1>4 DEF TypeOK

\* ... the actions of accel_activate and accel_post_deactivate,
LEMMA TypeActivate ==
    ASSUME TypeOK, NEW p \in Procs,
           \/ Activate(p) \/ ActivateLock(p) \/ Recheck(p) \/ Unlock(p) \/ Compare(p)
           \/ PostDeactivate(p)
    PROVE  TypeOK'
<1> USE OpcacheAssumption DEF TypeOK, ControlPoints
<1>1. CASE Activate(p)
  BY <1>1 DEF Activate
<1>2. CASE ActivateLock(p)
  BY <1>2 DEF ActivateLock, AllocLock
<1>3. CASE Recheck(p)
  BY <1>3 DEF Recheck, NextAfterCheck
<1>4. CASE Unlock(p)
  BY <1>4 DEF Unlock
<1>5. CASE Compare(p)
  BY <1>5 DEF Compare
<1>6. CASE PostDeactivate(p)
  BY <1>6 DEF PostDeactivate, UnlockAll
<1> QED BY <1>1, <1>2, <1>3, <1>4, <1>5, <1>6

\* ... of a restart,
LEMMA TypeRestart ==
    ASSUME TypeOK, NEW p \in Procs, RestartStep(p)
    PROVE  TypeOK'
<1> USE OpcacheAssumption DEF TypeOK, ControlPoints
<1>1. CASE RestartBegin(p)
  BY <1>1 DEF RestartBegin
<1>2. CASE RestartEnter(p)
  BY <1>2 DEF RestartEnter
<1>3. CASE RestartFlag(p)
  BY <1>3 DEF RestartFlag
<1>4. CASE RestartReset(p)
  BY <1>4 DEF RestartReset
<1>5. CASE RestartClean(p)
  <2>1. cache' \in [Files -> Scripts \cup {NoScript}]
    BY <1>5 DEF RestartClean, Cleaned
  <2>2. used' \in 0..Cap /\ epoch' \in Nat
    BY <1>5 DEF RestartClean
  <2> QED BY <1>5, <2>1, <2>2 DEF RestartClean
<1>6. CASE RestartEnable(p)
  BY <1>6 DEF RestartEnable
<1>7. CASE RestartStamp(p)
  BY <1>7 DEF RestartStamp, NewStamp
<1>8. CASE RestartLeave(p)
  BY <1>8 DEF RestartLeave
<1>9. CASE RestartLeft(p)
  BY <1>9 DEF RestartLeft
<1> QED BY <1>1, <1>2, <1>3, <1>4, <1>5, <1>6, <1>7, <1>8, <1>9 DEF RestartStep

\* ... of zend_accel_schedule_restart,
LEMMA TypeSchedule ==
    ASSUME TypeOK, NEW p \in Procs, Reset(p) \/ ScheduleStep(p)
    PROVE  TypeOK'
<1> USE OpcacheAssumption DEF TypeOK, ControlPoints
<1>1. CASE Reset(p)
  BY <1>1 DEF Reset
<1>2. CASE Schedule(p)
  BY <1>2 DEF Schedule, Return
<1>3. CASE SetPending(p)
  BY <1>3 DEF SetPending
<1>4. CASE SaveStatus(p)
  BY <1>4 DEF SaveStatus
<1>5. CASE Disable(p)
  BY <1>5 DEF Disable
<1>6. CASE SetForce(p)
  BY <1>6 DEF SetForce, Return
<1> QED BY <1>1, <1>2, <1>3, <1>4, <1>5, <1>6 DEF ScheduleStep

\* ... of persistent_compile_file,
LEMMA TypeCompile ==
    ASSUME TypeOK, NEW p \in Procs,
           CompileOrig(p) \/ (\E f \in Files : CompileStart(p, f)) \/ CompileStep(p)
    PROVE  TypeOK'
<1> USE OpcacheAssumption DEF TypeOK, ControlPoints
<1>1. CASE CompileOrig(p)
  BY <1>1 DEF CompileOrig
<1>2. CASE \E f \in Files : CompileStart(p, f)
  BY <1>2 DEF CompileStart
<1>3. CASE IsActive(p)
  BY <1>3 DEF IsActive
<1>4. CASE ClearFlag(p)
  BY <1>4 DEF ClearFlag
<1>5. CASE Find(p)
  BY <1>5 DEF Find
<1>6. CASE Count(p)
  BY <1>6 DEF Count, ActivateAdd, NoEpoch
<1>7. CASE Hit(p)
  <2>1. script[p].ep \in Nat
    BY <1>7, ScriptFacts DEF Hit
  <2> QED BY <1>7, <2>1 DEF Hit, Execute
<1>8. CASE Outdated(p)
  BY <1>8 DEF Outdated
<1>9. CASE MarkCorrupted(p)
  <2>1. cache' \in [Files -> Scripts \cup {NoScript}]
    <3>1. ASSUME NEW f \in Files, cache[f] \in Scripts,
                 cache' = [cache EXCEPT ![f] = [@ EXCEPT !.bad = TRUE]]
          PROVE  cache' \in [Files -> Scripts \cup {NoScript}]
      BY <3>1, ScriptFacts
    <3> QED BY <1>9, <3>1, MarkFacts
  <2>2. wasted' \in Nat /\ stray' \in Nat /\ pc' \in [Procs -> ControlPoints]
    BY <1>9, MarkFacts
  <2> QED BY <1>9, <2>1, <2>2 DEF MarkCorrupted, AllocLock
<1>10. CASE NotFound(p)
  BY <1>10 DEF NotFound
<1>11. CASE StoreExists(p)
  BY <1>11 DEF StoreExists, StoreLocked, AllocLock
<1>12. CASE StoreFails(p)
  BY <1>12 DEF StoreFails, StoreLocked, AllocLock, NextIfNecessary
<1>13. CASE Store(p)
  <2> DEFINE s == [slot |-> used + 1, ep |-> epoch, ver |-> version[file[p]], bad |-> FALSE]
  <2>1. s \in Scripts /\ s.ep \in Nat
    BY <1>13 DEF Store, HasRoom, Scripts
  <2>2. cache' = [cache EXCEPT ![file[p]] = s] /\ Execute(p, s)
    BY <1>13 DEF Store
  <2>3. used' \in 0..Cap
    BY <1>13 DEF Store, HasRoom
  <2>4. /\ cache' \in [Files -> Scripts \cup {NoScript}]
        /\ script' \in [Procs -> Scripts \cup {NoScript}]
        /\ uses' \in [Procs -> SUBSET Nat]
    BY <2>1, <2>2 DEF Execute
  <2>5. pc' \in [Procs -> ControlPoints]
    BY <1>13 DEF Store, NextIfNecessary
  <2>6. exhausted' \in BOOLEAN /\ alloc' = p
        /\ UNCHANGED <<usage, restartLk, doneVars, file, after, last, resetPcre, pcre,
                       guard, counted, worldVars, schedVars, wasted, stray>>
    BY <1>13 DEF Store, StoreLocked, AllocLock
  <2> HIDE DEF s
  <2> QED BY <2>3, <2>4, <2>5, <2>6
<1> QED BY <1>1, <1>2, <1>3, <1>4, <1>5, <1>6, <1>7, <1>8, <1>9, <1>10, <1>11, <1>12,
           <1>13 DEF CompileStep

\* ... of opcache_invalidate,
LEMMA TypeInvalidate ==
    ASSUME TypeOK, NEW p \in Procs,
           \/ \E f \in Files : ReadLock(p, f)
           \/ ReadLockAdd(p) \/ ReadLockCheck(p) \/ \E b \in BOOLEAN : Invalidate(p, b)
    PROVE  TypeOK'
<1> USE OpcacheAssumption DEF TypeOK, ControlPoints
<1>1. CASE \E f \in Files : ReadLock(p, f)
  BY <1>1 DEF ReadLock
<1>2. CASE ReadLockAdd(p)
  BY <1>2 DEF ReadLockAdd, ActivateAdd, NoEpoch
<1>3. CASE ReadLockCheck(p)
  <2>1. CASE inProgress
    BY <1>3, <2>1 DEF ReadLockCheck
  <2>2. CASE ~inProgress
    <3>1. /\ pc' = [pc EXCEPT ![p] = "invalidate"] /\ counted' = [counted EXCEPT ![p] = TRUE]
          /\ UNCHANGED <<usage, guard, alloc, restartLk, schedVars, doneVars, cacheVars,
                         worldVars, file, script, after, last, resetPcre, uses, pcre>>
      BY <1>3, <2>2 DEF ReadLockCheck
    <3> QED BY <3>1
  <2> QED BY <2>1, <2>2
<1>4. CASE \E b \in BOOLEAN : Invalidate(p, b)
  BY <1>4 DEF Invalidate
<1> QED BY <1>1, <1>2, <1>3, <1>4

\* ... and of the PCRE cache, crashes and kill_all_lockers.
LEMMA TypeWorld ==
    ASSUME TypeOK, NEW p \in Procs,
           \/ PcreUse(p) \/ Crash(p) \/ (\E q \in Procs : Kill(p, q))
           \/ KillDone(p) \/ KillFails(p)
    PROVE  TypeOK'
<1> USE OpcacheAssumption DEF TypeOK, ControlPoints
<1>1. CASE PcreUse(p)
  BY <1>1 DEF PcreUse
<1>2. CASE Crash(p)
  BY <1>2 DEF Crash, Dies, UnlockAll, NoEpoch
<1>3. CASE \E q \in Procs : Kill(p, q)
  BY <1>3 DEF Kill, Dies, UnlockAll, NoEpoch
<1>4. CASE KillDone(p)
  BY <1>4 DEF KillDone
<1>5. CASE KillFails(p)
  BY <1>5 DEF KillFails
<1> QED BY <1>1, <1>2, <1>3, <1>4, <1>5

\* Every step preserves the types.
LEMMA TypeNext == TypeOK /\ [Next]_vars => TypeOK'
<1> SUFFICES ASSUME TypeOK, [Next]_vars PROVE TypeOK'
    OBVIOUS
<1>1. ASSUME NEW p \in Procs, Step(p) PROVE TypeOK'
  BY <1>1, TypeActivate, TypeRestart, TypeSchedule, TypeCompile, TypeInvalidate, TypeWorld
     DEF Step
<1>2. ASSUME NEW p \in Procs,
             \/ Activate(p) \/ PostDeactivate(p) \/ CompileOrig(p)
             \/ Reset(p) \/ PcreUse(p) \/ Crash(p)
             \/ \E f \in Files : CompileStart(p, f) \/ ReadLock(p, f)
      PROVE  TypeOK'
  BY <1>2, TypeActivate, TypeSchedule, TypeCompile, TypeInvalidate, TypeWorld
<1>3. ASSUME NEW f \in Files, FileChanges(f) PROVE TypeOK'
  BY <1>3, OpcacheAssumption DEF FileChanges, TypeOK
<1>4. CASE TimePasses
  BY <1>4 DEF TimePasses, TypeOK
<1>5. CASE UNCHANGED vars
  BY <1>5 DEF vars, TypeOK
<1> QED BY <1>1, <1>2, <1>3, <1>4, <1>5 DEF Next

\* The type invariant, for any processes, files and bounds: in particular the
\* allocator never hands out more than the segment holds.
THEOREM TypeCorrect == Spec => []TypeOK
BY TypeInit, TypeNext, PTL DEF Spec
-----------------------------------------------------------------------------
(* What a step does to the locks: each action is one of eight kinds *)

\* control points at which a request has not taken its usage lock
PreUse == {"idle", "activateLock", "recheck"}

\* where a step that is no critical event may lead
Calm(p, l) ==
    /\ l \in ControlPoints
    /\ l \in Locked => pc[p] \in Locked \/ alloc = p
    /\ l \in Window => pc[p] \in Window
    /\ l \in PreUse => pc[p] \in PreUse

Quiet(p) ==
    /\ \E l \in ControlPoints : Calm(p, l) /\ Goto(p, l)
    /\ UNCHANGED <<alloc, usage, guard, epoch>>

Takes(p) ==
    /\ alloc = NoProc /\ alloc' = p
    /\ \E l \in {"recheck", "unlock", "schedule"} :
          Goto(p, l) /\ (l = "recheck" => pc[p] = "activateLock")
    /\ UNCHANGED <<usage, guard, epoch>>

Releases(p) ==
    /\ pc[p] = "unlock" /\ alloc' = NoProc
    /\ \E l \in {"run", "miss", "compare"} : Goto(p, l)
    /\ UNCHANGED <<usage, guard, epoch>>

Enters(p) ==
    /\ Move(p, "recheck", "restart") /\ usage \ {p} = {}
    /\ UNCHANGED <<alloc, usage, guard, epoch>>

Adds(p) ==
    /\ \E l \in {"validate", "readCheck"} : Goto(p, l)
    /\ ActivateAdd(p)
    /\ UNCHANGED <<alloc, epoch>>

Drops(p) ==
    /\ Goto(p, "run")
    /\ usage' = usage \ {p} /\ guard' = [guard EXCEPT ![p] = NoEpoch]
    /\ UNCHANGED <<alloc, epoch>>

Ends(p) == Goto(p, "idle") /\ UnlockAll(p) /\ UNCHANGED epoch

Cleans(p) ==
    /\ Move(p, "clean", "enable") /\ epoch' = epoch + 1
    /\ UNCHANGED <<alloc, usage, guard>>

Kinds(p) ==
    \/ Quiet(p) \/ Takes(p) \/ Releases(p) \/ Enters(p)
    \/ Adds(p) \/ Drops(p) \/ Ends(p) \/ Cleans(p)

\* A step that moves p along by one calm step and leaves the locks alone is quiet.
LEMMA QuietRule ==
    ASSUME NEW p \in Procs, NEW l \in ControlPoints, Calm(p, l), Goto(p, l),
           UNCHANGED <<alloc, usage, guard, epoch>>
    PROVE  Kinds(p)
BY DEF Kinds, Quiet

\* The steps that touch no lock, except to read it.
LEMMA KindsQuiet ==
    ASSUME TypeOK, NEW p \in Procs,
           \/ Activate(p) \/ Compare(p) \/ RestartBegin(p) \/ RestartEnter(p)
           \/ RestartFlag(p) \/ RestartReset(p) \/ RestartEnable(p)
           \/ RestartStamp(p) \/ RestartLeave(p) \/ RestartLeft(p) \/ Reset(p)
           \/ Schedule(p) \/ SetPending(p) \/ SaveStatus(p) \/ Disable(p)
           \/ SetForce(p) \/ CompileOrig(p) \/ (\E f \in Files : CompileStart(p, f))
           \/ IsActive(p) \/ ClearFlag(p) \/ Find(p) \/ Hit(p) \/ Outdated(p)
           \/ NotFound(p) \/ (\E f \in Files : ReadLock(p, f))
           \/ (\E b \in BOOLEAN : Invalidate(p, b)) \/ KillDone(p) \/ KillFails(p)
    PROVE  Kinds(p)
<1> USE QuietRule DEF Calm, ControlPoints, Locked, Window, PreUse, TypeOK
<1>1. CASE Activate(p)
  BY <1>1 DEF Activate
<1>2. CASE Compare(p)
  BY <1>2 DEF Compare
<1>3. CASE RestartBegin(p)
  BY <1>3 DEF RestartBegin
<1>4. CASE RestartEnter(p)
  BY <1>4 DEF RestartEnter
<1>5. CASE RestartFlag(p)
  BY <1>5 DEF RestartFlag
<1>6. CASE RestartReset(p)
  BY <1>6 DEF RestartReset
<1>7. CASE RestartEnable(p)
  BY <1>7 DEF RestartEnable
<1>8. CASE RestartStamp(p)
  BY <1>8 DEF RestartStamp
<1>9. CASE RestartLeave(p)
  BY <1>9 DEF RestartLeave
<1>10. CASE RestartLeft(p)
  BY <1>10 DEF RestartLeft
<1>11. CASE Reset(p)
  BY <1>11 DEF Reset
<1>12. CASE Schedule(p)
  BY <1>12 DEF Schedule, Return
<1>13. CASE SetPending(p)
  BY <1>13 DEF SetPending
<1>14. CASE SaveStatus(p)
  BY <1>14 DEF SaveStatus
<1>15. CASE Disable(p)
  BY <1>15 DEF Disable
<1>16. CASE SetForce(p)
  BY <1>16 DEF SetForce, Return
<1>17. CASE CompileOrig(p)
  BY <1>17 DEF CompileOrig
<1>18. CASE \E f \in Files : CompileStart(p, f)
  BY <1>18 DEF CompileStart
<1>19. CASE IsActive(p)
  BY <1>19 DEF IsActive
<1>20. CASE ClearFlag(p)
  BY <1>20 DEF ClearFlag
<1>21. CASE Find(p)
  BY <1>21 DEF Find
<1>22. CASE Hit(p)
  BY <1>22 DEF Hit
<1>23. CASE Outdated(p)
  BY <1>23 DEF Outdated
<1>24. CASE NotFound(p)
  BY <1>24 DEF NotFound
<1>25. CASE \E f \in Files : ReadLock(p, f)
  BY <1>25 DEF ReadLock
<1>26. CASE \E b \in BOOLEAN : Invalidate(p, b)
  BY <1>26 DEF Invalidate
<1>27. CASE KillDone(p)
  BY <1>27 DEF KillDone
<1>28. CASE KillFails(p)
  BY <1>28 DEF KillFails
<1> QED
  BY <1>1, <1>2, <1>3, <1>4, <1>5, <1>6, <1>7, <1>8, <1>9, <1>10, <1>11, <1>12, <1>13, <1>14, <1>15, <1>16, <1>17, <1>18, <1>19, <1>20, <1>21, <1>22, <1>23, <1>24, <1>25, <1>26, <1>27, <1>28

\* The steps that take or release a lock, end a request or empty the memory.
LEMMA KindsLocks ==
    ASSUME TypeOK, NEW p \in Procs,
           \/ ActivateLock(p) \/ Recheck(p) \/ RestartClean(p) \/ Unlock(p) \/ PostDeactivate(p)
           \/ Count(p) \/ MarkCorrupted(p) \/ StoreExists(p) \/ StoreFails(p) \/ Store(p)
           \/ ReadLockAdd(p) \/ ReadLockCheck(p) \/ Crash(p)
    PROVE  Kinds(p)
<1> USE DEF Kinds
<1>1. CASE ActivateLock(p)
  <2>1. Takes(p)
    BY <1>1 DEF ActivateLock, AllocLock, Takes
  <2> QED BY <2>1
<1>2. CASE Recheck(p)
  <2>1. CASE pending /\ Lockers(p) = {}
    <3>1. Enters(p)
      BY <1>2, <2>1 DEF Recheck, NextAfterCheck, Enters, Lockers
    <3> QED BY <3>1
  <2>2. CASE ~(pending /\ Lockers(p) = {})
    <3>1. Goto(p, "unlock") \/ Goto(p, "kill")
      BY <1>2, <2>2 DEF Recheck, NextAfterCheck
    <3> QED
      BY <1>2, <3>1, QuietRule
         DEF Recheck, Calm, ControlPoints, Locked, Window, PreUse
  <2> QED BY <2>1, <2>2
<1>3. CASE RestartClean(p)
  <2>1. Cleans(p)
    BY <1>3 DEF RestartClean, Cleans
  <2> QED BY <2>1
<1>4. CASE Unlock(p)
  <2>1. Releases(p)
    BY <1>4 DEF Unlock, Releases, TypeOK
  <2> QED BY <2>1
<1>5. CASE PostDeactivate(p)
  <2>1. Ends(p)
    BY <1>5 DEF PostDeactivate, Ends
  <2> QED BY <2>1
<1>6. CASE Count(p)
  <2>1. Adds(p)
    BY <1>6 DEF Count, Adds
  <2> QED BY <2>1
<1>7. CASE MarkCorrupted(p)
  <2>1. Takes(p)
    BY <1>7, MarkFacts DEF MarkCorrupted, Takes
  <2> QED BY <2>1
<1>8. CASE StoreExists(p)
  <2>1. Takes(p)
    BY <1>8 DEF StoreExists, StoreLocked, AllocLock, Takes
  <2> QED BY <2>1
<1>9. CASE StoreFails(p)
  <2>1. Takes(p)
    BY <1>9 DEF StoreFails, StoreLocked, AllocLock, Takes, NextIfNecessary
  <2> QED BY <2>1
<1>10. CASE Store(p)
  <2>1. Takes(p)
    BY <1>10 DEF Store, StoreLocked, AllocLock, Takes, NextIfNecessary
  <2> QED BY <2>1
<1>11. CASE ReadLockAdd(p)
  <2>1. Adds(p)
    BY <1>11 DEF ReadLockAdd, Adds
  <2> QED BY <2>1
<1>12. CASE ReadLockCheck(p)
  <2>1. CASE inProgress
    <3>1. Drops(p)
      BY <1>12, <2>1 DEF ReadLockCheck, Drops
    <3> QED BY <3>1
  <2>2. CASE ~inProgress
    BY <1>12, <2>2, QuietRule
       DEF ReadLockCheck, Calm, ControlPoints, Locked, Window, PreUse
  <2> QED BY <2>1, <2>2
<1>13. CASE Crash(p)
  <2>1. Ends(p)
    BY <1>13 DEF Crash, Dies, Ends
  <2> QED BY <2>1
<1> QED
  BY <1>1, <1>2, <1>3, <1>4, <1>5, <1>6, <1>7, <1>8, <1>9, <1>10, <1>11, <1>12, <1>13

\* Every step is of one of the kinds or touches neither locks nor control.
LEMMA StepKinds ==
    ASSUME TypeOK, [Next]_vars
    PROVE  (\E p \in Procs : Kinds(p)) \/ UNCHANGED <<pc, alloc, usage, guard, epoch>>
<1>1. ASSUME NEW p \in Procs, NEW q \in Procs, Kill(p, q) PROVE Kinds(q)
  <2>1. Ends(q)
    BY <1>1 DEF Kill, Dies, Ends
  <2> QED BY <2>1 DEF Kinds
<1>2. ASSUME NEW p \in Procs, Step(p) PROVE \E q \in Procs : Kinds(q)
  BY <1>2, <1>1, KindsQuiet, KindsLocks DEF Step, RestartStep, ScheduleStep, CompileStep
<1>3. ASSUME NEW p \in Procs,
             \/ Activate(p) \/ PostDeactivate(p) \/ CompileOrig(p) \/ Reset(p) \/ Crash(p)
             \/ \E f \in Files : CompileStart(p, f) \/ ReadLock(p, f)
      PROVE  Kinds(p)
  BY <1>3, KindsQuiet, KindsLocks
<1>4. ASSUME NEW p \in Procs, PcreUse(p)
      PROVE  UNCHANGED <<pc, alloc, usage, guard, epoch>>
  BY <1>4 DEF PcreUse
<1>5. ASSUME (\E f \in Files : FileChanges(f)) \/ TimePasses \/ UNCHANGED vars
      PROVE  UNCHANGED <<pc, alloc, usage, guard, epoch>>
  BY <1>5 DEF FileChanges, TimePasses, vars
<1> QED BY <1>2, <1>3, <1>4, <1>5 DEF Next

-----------------------------------------------------------------------------
\* The inductive invariant of the usage lock: who is protected holds the lock,
\* a request that has not begun to use the cache is not, and nobody is once a
\* process has found the memory unused.
ReadersInv ==
    /\ \A p \in Procs : guard[p] # NoEpoch => p \in usage
    /\ \A p \in Procs : pc[p] \in PreUse => guard[p] = NoEpoch
    /\ InWindow => \A q \in Procs : guard[q] = NoEpoch
    /\ ReadersProtected

\* The allocation lock excludes, over every kind of step.
LEMMA AllocNext ==
    ASSUME TypeOK, AllocExclusive, [Next]_vars
    PROVE  AllocExclusive'
<1> SUFFICES ASSUME NEW q \in Procs, pc'[q] \in Locked PROVE alloc' = q
  BY DEF AllocExclusive
<1>1. CASE UNCHANGED <<pc, alloc, usage, guard, epoch>>
  BY <1>1 DEF AllocExclusive
<1>2. ASSUME NEW p \in Procs, Kinds(p) PROVE alloc' = q
  <2> USE OpcacheAssumption DEF AllocExclusive, TypeOK, Locked, Window
  <2>1. CASE Quiet(p)
    BY <2>1 DEF Quiet, Calm
  <2>2. CASE Takes(p)
    BY <2>2 DEF Takes
  <2>3. CASE Releases(p)
    BY <2>3 DEF Releases
  <2>4. CASE Enters(p)
    BY <2>4 DEF Enters
  <2>5. CASE Adds(p)
    BY <2>5 DEF Adds
  <2>6. CASE Drops(p)
    BY <2>6 DEF Drops
  <2>7. CASE Ends(p)
    BY <2>7 DEF Ends, UnlockAll
  <2>8. CASE Cleans(p)
    BY <2>8 DEF Cleans
  <2> QED BY <1>2, <2>1, <2>2, <2>3, <2>4, <2>5, <2>6, <2>7, <2>8 DEF Kinds
<1> QED BY <1>1, <1>2, StepKinds

\* Restarts, stores and invalidations exclude each other for any number of
\* processes, whichever of them crash, are killed or bail out.
THEOREM AllocationExclusive == Spec => []AllocExclusive
<1>1. Init => AllocExclusive
  BY DEF Init, AllocExclusive, Locked, Window
<1> QED BY <1>1, AllocNext, TypeCorrect, PTL DEF Spec

\* The usage lock protects, over every kind of step.
LEMMA ReadersNext ==
    ASSUME TypeOK, ReadersInv, [Next]_vars
    PROVE  ReadersInv'
<1>1. CASE UNCHANGED <<pc, alloc, usage, guard, epoch>>
  BY <1>1 DEF ReadersInv, InWindow, ReadersProtected
<1>2. ASSUME NEW p \in Procs, Kinds(p) PROVE ReadersInv'
  <2> USE DEF ReadersInv, ReadersProtected, InWindow, TypeOK, Window, PreUse, NoEpoch
  <2>1. CASE Quiet(p)
    BY <2>1 DEF Quiet, Calm
  <2>2. CASE Takes(p)
    BY <2>2 DEF Takes
  <2>3. CASE Releases(p)
    BY <2>3 DEF Releases
  <2>4. CASE Enters(p)
    BY <2>4 DEF Enters
  <2>5. CASE Adds(p)
    BY <2>5 DEF Adds, ActivateAdd
  <2>6. CASE Drops(p)
    BY <2>6 DEF Drops
  <2>7. CASE Ends(p)
    BY <2>7 DEF Ends, UnlockAll
  <2>8. CASE Cleans(p)
    BY <2>8 DEF Cleans
  <2> QED BY <1>2, <2>1, <2>2, <2>3, <2>4, <2>5, <2>6, <2>7, <2>8 DEF Kinds
<1> QED BY <1>1, <1>2, StepKinds

\* A usage lock taken outside the window of a restart keeps the memory as it
\* is until it is released, for any number of processes.
THEOREM UsageLockProtects == Spec => []ReadersProtected
<1>1. Init => ReadersInv
  BY DEF Init, ReadersInv, ReadersProtected, InWindow, Window
<1>2. ReadersInv => ReadersProtected
  BY DEF ReadersInv
<1> QED BY <1>1, <1>2, ReadersNext, TypeCorrect, PTL DEF Spec

-----------------------------------------------------------------------------
\* The inductive invariant of the hash table: a script that is in it was stored
\* since the last restart, in a slot of its own.
CacheInv ==
    /\ \A f \in Files : cache[f] # NoScript =>
          cache[f].ep = epoch /\ cache[f].slot <= used
    /\ \A f, g \in Files :
          cache[f] # NoScript /\ cache[g] # NoScript /\ cache[f].slot = cache[g].slot
             => f = g

\* Only a restart, a store and an invalidation change what the table holds.
LEMMA CacheSteps ==
    ASSUME [Next]_vars
    PROVE  \/ UNCHANGED <<cache, used, epoch>>
           \/ \E p \in Procs : RestartClean(p) \/ MarkCorrupted(p) \/ Store(p)
<1>1. ASSUME NEW p \in Procs, Step(p)
      PROVE  \/ UNCHANGED <<cache, used, epoch>>
             \/ RestartClean(p) \/ MarkCorrupted(p) \/ Store(p)
  <2>1. CASE ActivateLock(p) \/ Recheck(p) \/ Unlock(p) \/ Compare(p)
    BY <2>1 DEF ActivateLock, Recheck, Unlock, Compare
  <2>2. CASE RestartStep(p)
    BY <2>2 DEF RestartStep, RestartBegin, RestartEnter, RestartFlag, RestartReset,
                RestartEnable, RestartStamp, RestartLeave, RestartLeft
  <2>3. CASE ScheduleStep(p)
    BY <2>3 DEF ScheduleStep, Schedule, SetPending, SaveStatus, Disable, SetForce
  <2>4. CASE CompileStep(p)
    BY <2>4 DEF CompileStep, IsActive, ClearFlag, Find, Count, Hit, Outdated, NotFound,
                StoreExists, StoreFails, StoreLocked
  <2>5. CASE ReadLockAdd(p) \/ ReadLockCheck(p) \/ \E b \in BOOLEAN : Invalidate(p, b)
    BY <2>5 DEF ReadLockAdd, ReadLockCheck, Invalidate
  <2>6. CASE (\E q \in Procs : Kill(p, q)) \/ KillDone(p) \/ KillFails(p)
    BY <2>6 DEF Kill, Dies, KillDone, KillFails
  <2> QED BY <1>1, <2>1, <2>2, <2>3, <2>4, <2>5, <2>6 DEF Step
<1>2. ASSUME NEW p \in Procs,
             \/ Activate(p) \/ PostDeactivate(p) \/ CompileOrig(p)
             \/ Reset(p) \/ PcreUse(p) \/ Crash(p)
             \/ \E f \in Files : CompileStart(p, f) \/ ReadLock(p, f)
      PROVE  UNCHANGED <<cache, used, epoch>>
  BY <1>2 DEF Activate, PostDeactivate, CompileOrig, Reset, PcreUse, Crash, Dies,
              CompileStart, ReadLock
<1>3. ASSUME (\E f \in Files : FileChanges(f)) \/ TimePasses \/ UNCHANGED vars
      PROVE  UNCHANGED <<cache, used, epoch>>
  BY <1>3 DEF FileChanges, TimePasses, vars
<1> QED BY <1>1, <1>2, <1>3 DEF Next

\* ... and they preserve CacheInv.
LEMMA CacheNext ==
    ASSUME TypeOK, CacheInv, [Next]_vars
    PROVE  CacheInv'
<1>1. CASE UNCHANGED <<cache, used, epoch>>
  BY <1>1 DEF CacheInv
<1>2. ASSUME NEW p \in Procs, RestartClean(p) PROVE CacheInv'
  BY <1>2 DEF RestartClean, Cleaned, CacheInv
<1>3. ASSUME NEW p \in Procs, MarkCorrupted(p) PROVE CacheInv'
  <2>1. CASE cache' = cache
    BY <1>3, <2>1, MarkFacts DEF CacheInv
  <2>2. ASSUME NEW f \in Files, cache[f] \in Scripts,
               cache' = [cache EXCEPT ![f] = [@ EXCEPT !.bad = TRUE]]
        PROVE  CacheInv'
    <3>1. cache'[f].slot = cache[f].slot /\ cache'[f].ep = cache[f].ep
      BY <2>2 DEF TypeOK, Scripts
    <3>2. \A g \in Files : g # f => cache'[g] = cache[g]
      BY <2>2 DEF TypeOK
    <3>3. used' = used /\ epoch' = epoch /\ cache[f] # NoScript
      BY <1>3, <2>2, MarkFacts, ScriptFacts
    <3> QED BY <3>1, <3>2, <3>3 DEF CacheInv
  <2> QED BY <1>3, <2>1, <2>2, MarkFacts
<1>4. ASSUME NEW p \in Procs, Store(p) PROVE CacheInv'
  <2> DEFINE s == [slot |-> used + 1, ep |-> epoch, ver |-> version[file[p]], bad |-> FALSE]
  <2>1. cache' = [cache EXCEPT ![file[p]] = s] /\ used' = used + 1 /\ epoch' = epoch
    BY <1>4 DEF Store, StoreLocked
  <2>2. file[p] \in Files /\ used \in Nat
    BY DEF TypeOK
  <2>3. cache'[file[p]].slot = used + 1 /\ cache'[file[p]].ep = epoch
    BY <2>1, <2>2 DEF TypeOK
  <2>4. \A f \in Files : f # file[p] => cache'[f] = cache[f]
    BY <2>1 DEF TypeOK
  <2>5. \A f \in Files : cache[f] # NoScript => cache[f].slot \in Nat
    <3>1. \A f \in Files : cache[f] # NoScript => cache[f] \in Scripts
      BY DEF TypeOK
    <3>2. \A t \in Scripts : t.slot \in Nat
      <4>1. \A t \in Scripts : t.slot \in 1..Cap
        BY ScriptFacts
      <4> QED BY <4>1
    <3> QED BY <3>1, <3>2
  <2>6. \A f \in Files : cache'[f] # NoScript =>
            cache'[f].ep = epoch' /\ cache'[f].slot <= used'
    BY <2>1, <2>2, <2>3, <2>4, <2>5 DEF CacheInv
  <2>7. \A f, g \in Files :
            cache'[f] # NoScript /\ cache'[g] # NoScript /\ cache'[f].slot = cache'[g].slot
               => f = g
    BY <2>2, <2>3, <2>4, <2>5 DEF CacheInv
  <2> QED BY <2>6, <2>7 DEF CacheInv
<1> QED BY <1>1, <1>2, <1>3, <1>4, CacheSteps

\* A script the hash table leads to was stored since the last restart and
\* belongs to one file, for any number of processes and files.
THEOREM TableIsCurrent == Spec => []CacheCurrent
<1>1. Init => CacheInv
  BY DEF Init, CacheInv
<1>2. CacheInv => CacheCurrent
  BY DEF CacheInv, CacheCurrent
<1> QED BY <1>1, <1>2, CacheNext, TypeCorrect, PTL DEF Spec

-----------------------------------------------------------------------------
(* Requests: what a process that has not come to the script may hold *)

\* control points of zend_accel_schedule_restart
SchedPoints == {"schedule", "setPending", "saveStatus", "disable", "setForce"}

\* accel_activate, and between requests
Early(p) ==
    \/ pc[p] \in Window \cup {"idle", "activateLock", "recheck", "kill", "enable", "stamp",
                              "leave", "left", "compare"}
    \/ pc[p] = "unlock" /\ after[p] = "compare"

\* The allocation lock is held where the code relies on it and in the scheduling
\* of a restart; a process that goes on with accel_activate executes no cached
\* code.
RequestInv ==
    /\ \A p \in Procs : alloc = p => pc[p] \in Locked \cup SchedPoints
    /\ \A p \in Procs : pc[p] \in {"markLock", "storeLock"} => after[p] # "compare"
    /\ \A p \in Procs : pc[p] \in SchedPoints /\ alloc = p => after[p] # "compare"
    /\ \A p \in Procs : Early(p) => uses[p] = {} /\ script[p] = NoScript

\* The actions, by the function they belong to.
RequestStep(p) ==
    \/ Activate(p) \/ ActivateLock(p) \/ Recheck(p) \/ Unlock(p) \/ Compare(p)
    \/ PostDeactivate(p)

ScheduleSteps(p) == Reset(p) \/ ScheduleStep(p)

CompileSteps(p) ==
    CompileOrig(p) \/ (\E f \in Files : CompileStart(p, f)) \/ CompileStep(p)

OtherStep(p) ==
    \/ (\E f \in Files : ReadLock(p, f)) \/ ReadLockAdd(p) \/ ReadLockCheck(p)
    \/ (\E b \in BOOLEAN : Invalidate(p, b)) \/ PcreUse(p)
    \/ (\E q \in Procs : Kill(p, q)) \/ KillDone(p) \/ KillFails(p) \/ Crash(p)

WorldStep == (\E f \in Files : FileChanges(f)) \/ TimePasses \/ UNCHANGED vars

\* Every step is one of these.
LEMMA StepCases ==
    ASSUME [Next]_vars
    PROVE  \/ \E p \in Procs : \/ RequestStep(p) \/ RestartStep(p) \/ ScheduleSteps(p)
                               \/ CompileSteps(p) \/ OtherStep(p)
           \/ WorldStep
BY DEF Next, Step, RequestStep, ScheduleSteps, CompileSteps, OtherStep, WorldStep

LEMMA RequestActivate ==
    ASSUME TypeOK, RequestInv, NEW p \in Procs, RequestStep(p)
    PROVE  RequestInv'
<1> USE OpcacheAssumption DEF TypeOK, RequestInv, Early, Locked, Window, SchedPoints
<1>1. CASE Activate(p)
  BY <1>1 DEF Activate
<1>2. CASE ActivateLock(p)
  BY <1>2 DEF ActivateLock, AllocLock
<1>3. CASE Recheck(p)
  BY <1>3 DEF Recheck, NextAfterCheck
<1>4. CASE Unlock(p)
  BY <1>4 DEF Unlock
<1>5. CASE Compare(p)
  BY <1>5 DEF Compare
<1>6. CASE PostDeactivate(p)
  BY <1>6 DEF PostDeactivate, UnlockAll
<1> QED BY <1>1, <1>2, <1>3, <1>4, <1>5, <1>6 DEF RequestStep

LEMMA RequestRestart ==
    ASSUME TypeOK, RequestInv, NEW p \in Procs, RestartStep(p)
    PROVE  RequestInv'
<1> USE OpcacheAssumption DEF TypeOK, RequestInv, Early, Locked, Window, SchedPoints
<1>1. CASE RestartBegin(p)
  BY <1>1 DEF RestartBegin
<1>2. CASE RestartEnter(p)
  BY <1>2 DEF RestartEnter
<1>3. CASE RestartFlag(p)
  BY <1>3 DEF RestartFlag
<1>4. CASE RestartReset(p)
  BY <1>4 DEF RestartReset
<1>5. CASE RestartClean(p)
  BY <1>5 DEF RestartClean
<1>6. CASE RestartEnable(p)
  BY <1>6 DEF RestartEnable
<1>7. CASE RestartStamp(p)
  BY <1>7 DEF RestartStamp
<1>8. CASE RestartLeave(p)
  BY <1>8 DEF RestartLeave
<1>9. CASE RestartLeft(p)
  BY <1>9 DEF RestartLeft
<1> QED BY <1>1, <1>2, <1>3, <1>4, <1>5, <1>6, <1>7, <1>8, <1>9 DEF RestartStep

LEMMA RequestSchedule ==
    ASSUME TypeOK, RequestInv, NEW p \in Procs, ScheduleSteps(p)
    PROVE  RequestInv'
<1> USE OpcacheAssumption DEF TypeOK, RequestInv, Early, Locked, Window, SchedPoints
<1>1. CASE Reset(p)
  BY <1>1 DEF Reset
<1>2. CASE Schedule(p)
  BY <1>2 DEF Schedule, Return
<1>3. CASE SetPending(p)
  BY <1>3 DEF SetPending
<1>4. CASE SaveStatus(p)
  BY <1>4 DEF SaveStatus
<1>5. CASE Disable(p)
  BY <1>5 DEF Disable
<1>6. CASE SetForce(p)
  BY <1>6 DEF SetForce, Return
<1> QED BY <1>1, <1>2, <1>3, <1>4, <1>5, <1>6 DEF ScheduleSteps, ScheduleStep

LEMMA RequestCompile ==
    ASSUME TypeOK, RequestInv, NEW p \in Procs, CompileSteps(p)
    PROVE  RequestInv'
<1> USE OpcacheAssumption DEF TypeOK, RequestInv, Early, Locked, Window, SchedPoints
<1>1. CASE CompileOrig(p)
  BY <1>1 DEF CompileOrig
<1>2. CASE \E f \in Files : CompileStart(p, f)
  BY <1>2 DEF CompileStart
<1>3. CASE IsActive(p)
  BY <1>3 DEF IsActive
<1>4. CASE ClearFlag(p)
  BY <1>4 DEF ClearFlag
<1>5. CASE Find(p)
  BY <1>5 DEF Find
<1>6. CASE Count(p)
  BY <1>6 DEF Count
<1>7. CASE Hit(p)
  BY <1>7 DEF Hit, Execute
<1>8. CASE Outdated(p)
  BY <1>8 DEF Outdated
<1>9. CASE MarkCorrupted(p)
  <2>1. PICK l \in {"schedule", "unlock"} : pc' = [pc EXCEPT ![p] = l]
    BY <1>9, MarkFacts
  <2>2. /\ pc[p] = "markLock" /\ alloc = NoProc /\ alloc' = p
        /\ script' = [script EXCEPT ![p] = NoScript]
        /\ UNCHANGED <<usage, restartLk, schedVars, doneVars, worldVars>>
        /\ UNCHANGED <<counted, file, after, last, resetPcre, uses, pcre, guard>>
    BY <1>9 DEF MarkCorrupted, AllocLock
  <2> QED BY <2>1, <2>2
<1>10. CASE NotFound(p)
  BY <1>10 DEF NotFound
<1>11. CASE StoreExists(p)
  BY <1>11 DEF StoreExists, StoreLocked, AllocLock
<1>12. CASE StoreFails(p)
  BY <1>12 DEF StoreFails, StoreLocked, AllocLock, NextIfNecessary
<1>13. CASE Store(p)
  BY <1>13 DEF Store, StoreLocked, AllocLock, Execute, NextIfNecessary
<1> QED BY <1>1, <1>2, <1>3, <1>4, <1>5, <1>6, <1>7, <1>8, <1>9, <1>10, <1>11, <1>12, <1>13
        DEF CompileSteps, CompileStep

LEMMA RequestOthers ==
    ASSUME TypeOK, RequestInv, NEW p \in Procs, OtherStep(p)
    PROVE  RequestInv'
<1> USE OpcacheAssumption DEF TypeOK, RequestInv, Early, Locked, Window, SchedPoints
<1>1. CASE \E f \in Files : ReadLock(p, f)
  BY <1>1 DEF ReadLock
<1>2. CASE ReadLockAdd(p)
  BY <1>2 DEF ReadLockAdd
<1>3. CASE ReadLockCheck(p)
  BY <1>3 DEF ReadLockCheck
<1>4. CASE \E b \in BOOLEAN : Invalidate(p, b)
  BY <1>4 DEF Invalidate, Stored
<1>5. CASE PcreUse(p)
  BY <1>5 DEF PcreUse
<1>6. CASE \E q \in Procs : Kill(p, q)
  BY <1>6 DEF Kill, Dies, UnlockAll
<1>7. CASE KillDone(p)
  BY <1>7 DEF KillDone
<1>8. CASE KillFails(p)
  BY <1>8 DEF KillFails
<1>9. CASE Crash(p)
  BY <1>9 DEF Crash, Dies, UnlockAll
<1> QED BY <1>1, <1>2, <1>3, <1>4, <1>5, <1>6, <1>7, <1>8, <1>9 DEF OtherStep

LEMMA RequestNext == TypeOK /\ RequestInv /\ [Next]_vars => RequestInv'
<1> SUFFICES ASSUME TypeOK, RequestInv, [Next]_vars PROVE RequestInv'
  OBVIOUS
<1>1. CASE WorldStep
  BY <1>1 DEF WorldStep, FileChanges, TimePasses, vars, RequestInv, Early
<1> QED BY <1>1, StepCases, RequestActivate, RequestRestart, RequestSchedule, RequestCompile,
           RequestOthers

LEMMA RequestInvariance == Spec => []RequestInv
<1>1. Init => RequestInv
  BY OpcacheAssumption DEF Init, RequestInv, Early, Locked, Window, SchedPoints
<1> QED BY <1>1, RequestNext, TypeCorrect, PTL DEF Spec

-----------------------------------------------------------------------------
(* Keys of the in-process caches *)

\* No process dying by itself, the number of restarts is the stamp outside of a
\* restart; what a process executes and the keys it keeps are of the epoch its
\* last request began in or a later one.
KeysInv ==
    /\ \A p \in Procs : pc[p] \in {"enable", "stamp"} => restartTime = epoch - 1
    /\ (\A p \in Procs : pc[p] \notin {"enable", "stamp"}) => restartTime = epoch
    /\ \A p \in Procs : last[p] <= restartTime
    /\ \A p \in Procs : \A e \in pcre[p] \cup uses[p] : last[p] <= e /\ e <= epoch
    /\ \A p \in Procs : script[p] # NoScript =>
          last[p] <= script[p].ep /\ script[p].ep <= epoch

SharedInv == TypeOK /\ AllocExclusive /\ CacheInv /\ RequestInv

LEMMA KeysActivate ==
    ASSUME SharedInv, KeysInv, MaxCrashes = 0, NEW p \in Procs, RequestStep(p)
    PROVE  KeysInv'
<1> USE OpcacheAssumption DEF SharedInv, TypeOK, KeysInv
<1>1. CASE Activate(p)
  BY <1>1 DEF Activate
<1>2. CASE ActivateLock(p)
  BY <1>2 DEF ActivateLock
<1>3. CASE Recheck(p)
  BY <1>3 DEF Recheck, NextAfterCheck
<1>4. CASE Unlock(p)
  BY <1>4 DEF Unlock
<1>5. CASE Compare(p)
  BY <1>5 DEF Compare, RequestInv, Early
<1>6. CASE PostDeactivate(p)
  BY <1>6 DEF PostDeactivate
<1> QED BY <1>1, <1>2, <1>3, <1>4, <1>5, <1>6
        DEF RequestStep

LEMMA KeysRestart ==
    ASSUME SharedInv, KeysInv, MaxCrashes = 0, NEW p \in Procs, RestartStep(p)
    PROVE  KeysInv'
<1> USE OpcacheAssumption DEF SharedInv, TypeOK, KeysInv
<1>1. CASE RestartBegin(p)
  BY <1>1 DEF RestartBegin
<1>2. CASE RestartEnter(p)
  BY <1>2 DEF RestartEnter
<1>3. CASE RestartFlag(p)
  BY <1>3 DEF RestartFlag
<1>4. CASE RestartReset(p)
  BY <1>4 DEF RestartReset
<1>5. CASE RestartClean(p)
  <2>1. \A q \in Procs : script[q] # NoScript => script[q].ep \in Nat
    BY ScriptFacts
  <2>2. \A q \in Procs : \A e \in pcre[q] \cup uses[q] : e \in Nat
    OBVIOUS
  <2>3. /\ epoch' = epoch + 1 /\ restartTime' = restartTime /\ last' = last
        /\ pcre' = pcre /\ uses' = uses /\ script' = script
        /\ pc' = [pc EXCEPT ![p] = "enable"]
    BY <1>5 DEF RestartClean
  <2>4. \A q \in Procs : pc[q] \notin {"enable", "stamp"}
    BY <1>5 DEF RestartClean, AllocExclusive, Locked, Window
  <2>5. restartTime' = epoch' - 1
    BY <2>3, <2>4
  <2> QED BY <2>1, <2>2, <2>3, <2>5
<1>6. CASE RestartEnable(p)
  BY <1>6 DEF RestartEnable
<1>7. CASE RestartStamp(p)
  BY <1>7 DEF RestartStamp, NewStamp, AllocExclusive, Locked, Window
<1>8. CASE RestartLeave(p)
  BY <1>8 DEF RestartLeave
<1>9. CASE RestartLeft(p)
  BY <1>9 DEF RestartLeft
<1> QED BY <1>1, <1>2, <1>3, <1>4, <1>5, <1>6, <1>7, <1>8, <1>9
        DEF RestartStep

LEMMA KeysSchedule ==
    ASSUME SharedInv, KeysInv, MaxCrashes = 0, NEW p \in Procs, ScheduleSteps(p)
    PROVE  KeysInv'
<1> USE OpcacheAssumption DEF SharedInv, TypeOK, KeysInv
<1>1. CASE Reset(p)
  BY <1>1 DEF Reset
<1>2. CASE Schedule(p)
  BY <1>2 DEF Schedule, Return
<1>3. CASE SetPending(p)
  BY <1>3 DEF SetPending
<1>4. CASE SaveStatus(p)
  BY <1>4 DEF SaveStatus
<1>5. CASE Disable(p)
  BY <1>5 DEF Disable
<1>6. CASE SetForce(p)
  BY <1>6 DEF SetForce, Return
<1> QED BY <1>1, <1>2, <1>3, <1>4, <1>5, <1>6
        DEF ScheduleSteps, ScheduleStep

LEMMA KeysCompile ==
    ASSUME SharedInv, KeysInv, MaxCrashes = 0, NEW p \in Procs, CompileSteps(p)
    PROVE  KeysInv'
<1> USE OpcacheAssumption DEF SharedInv, TypeOK, KeysInv
<1>1. CASE CompileOrig(p)
  BY <1>1 DEF CompileOrig
<1>2. CASE \E f \in Files : CompileStart(p, f)
  BY <1>2 DEF CompileStart
<1>3. CASE IsActive(p)
  BY <1>3 DEF IsActive
<1>4. CASE ClearFlag(p)
  BY <1>4 DEF ClearFlag
<1>5. CASE Find(p)
  BY <1>5 DEF Find, CacheInv
<1>6. CASE Count(p)
  BY <1>6 DEF Count
<1>7. CASE Hit(p)
  BY <1>7 DEF Hit, Execute
<1>8. CASE Outdated(p)
  BY <1>8 DEF Outdated
<1>9. CASE MarkCorrupted(p)
  <2>1. PICK l \in {"schedule", "unlock"} : pc' = [pc EXCEPT ![p] = l]
    BY <1>9, MarkFacts
  <2>2. /\ pc[p] = "markLock" /\ alloc = NoProc /\ alloc' = p
        /\ script' = [script EXCEPT ![p] = NoScript]
        /\ UNCHANGED <<usage, restartLk, schedVars, doneVars, worldVars>>
        /\ UNCHANGED <<counted, file, after, last, resetPcre, uses, pcre, guard>>
    BY <1>9 DEF MarkCorrupted, AllocLock
  <2> QED BY <2>1, <2>2
<1>10. CASE NotFound(p)
  BY <1>10 DEF NotFound
<1>11. CASE StoreExists(p)
  BY <1>11 DEF StoreExists, StoreLocked
<1>12. CASE StoreFails(p)
  BY <1>12 DEF StoreFails, StoreLocked, NextIfNecessary
<1>13. CASE Store(p)
  <2>1. /\ script' = [script EXCEPT ![p] = NoScript]
        /\ uses' = [uses EXCEPT ![p] = @ \cup {epoch}]
        /\ UNCHANGED <<restartTime, epoch, last, pcre>>
    BY <1>13 DEF Store, StoreLocked, Execute
  <2>2. \A q \in Procs : (pc'[q] \in {"enable", "stamp"} <=> pc[q] \in {"enable", "stamp"})
    BY <1>13 DEF Store, StoreLocked, NextIfNecessary
  <2>3. last[p] <= epoch
    OBVIOUS
  <2> QED BY <2>1, <2>2, <2>3
<1> QED BY <1>1, <1>2, <1>3, <1>4, <1>5, <1>6, <1>7, <1>8, <1>9, <1>10,
           <1>11, <1>12, <1>13
        DEF CompileSteps, CompileStep

LEMMA KeysOthers ==
    ASSUME SharedInv, KeysInv, MaxCrashes = 0, NEW p \in Procs, OtherStep(p)
    PROVE  KeysInv'
<1> USE OpcacheAssumption DEF SharedInv, TypeOK, KeysInv
<1>1. CASE \E f \in Files : ReadLock(p, f)
  BY <1>1 DEF ReadLock
<1>2. CASE ReadLockAdd(p)
  BY <1>2 DEF ReadLockAdd
<1>3. CASE ReadLockCheck(p)
  BY <1>3 DEF ReadLockCheck
<1>4. CASE \E b \in BOOLEAN : Invalidate(p, b)
  BY <1>4 DEF Invalidate, CacheInv, Stored
<1>5. CASE PcreUse(p)
  BY <1>5 DEF PcreUse
<1>6. CASE \E q \in Procs : Kill(p, q)
  BY <1>6 DEF Kill, Dies, AllocExclusive, Locked, Window, Lockers
<1>7. CASE KillDone(p)
  BY <1>7 DEF KillDone
<1>8. CASE KillFails(p)
  BY <1>8 DEF KillFails
<1>9. CASE Crash(p)
  BY <1>9 DEF Crash
<1> QED BY <1>1, <1>2, <1>3, <1>4, <1>5, <1>6, <1>7, <1>8, <1>9
        DEF OtherStep

LEMMA KeysNext ==
    ASSUME SharedInv, KeysInv, MaxCrashes = 0, [Next]_vars
    PROVE  KeysInv'
<1>1. CASE WorldStep
  BY <1>1 DEF WorldStep, FileChanges, TimePasses, vars, KeysInv
<1> QED BY <1>1, StepCases, KeysActivate, KeysRestart, KeysSchedule, KeysCompile, KeysOthers

LEMMA SharedInvariance == Spec => []SharedInv
<1>1. Init => CacheInv
  BY DEF Init, CacheInv
<1> QED BY <1>1, CacheNext, TypeCorrect, AllocationExclusive, RequestInvariance, PTL
        DEF Spec, SharedInv

\* No process dying by itself, a key of an earlier epoch is found out by the next
\* request of the process that keeps it, for any number of processes, files and
\* restarts.  A crash between the emptying of the memory and the new stamp
\* leaves the stamp behind the epoch, hence the hypothesis.
THEOREM StaleKeysFound == ASSUME MaxCrashes = 0 PROVE Spec => []StaleKeysDetected
<1>1. Init => KeysInv
  BY OpcacheAssumption DEF Init, KeysInv
<1>2. SharedInv /\ KeysInv => StaleKeysDetected
  <2> SUFFICES ASSUME SharedInv, KeysInv, ~Restarting, NEW p \in Procs,
                      NEW e \in pcre[p], e # epoch
               PROVE  last[p] # restartTime
    BY DEF StaleKeysDetected
  <2>1. restartTime = epoch
    BY DEF KeysInv, Restarting, Locked, Window
  <2>2. last[p] <= e /\ e <= epoch /\ last[p] \in Nat /\ e \in Nat /\ epoch \in Nat
    BY DEF SharedInv, TypeOK, KeysInv
  <2> QED BY <2>1, <2>2
<1>3. SharedInv /\ KeysInv /\ [Next]_vars => KeysInv'
  BY KeysNext
<1> QED BY <1>1, <1>2, <1>3, SharedInvariance, PTL DEF Spec

-----------------------------------------------------------------------------
(* The accounting of wasted memory *)

\* files with a script that is not marked corrupted
Valid == {f \in Files : cache[f] # NoScript /\ ~cache[f].bad}

\* The accounting is exact but between zend_reset_cache_vars, which forgets the
\* wasted memory, and zend_accel_hash_clean.
CountInv ==
    \/ \E p \in Procs : pc[p] = "clean"
    \/ IsFiniteSet(Valid) /\ Cardinality(Valid) = used - (wasted - stray)

\* Few steps change what is counted; a process leaves the point between the two
\* resets only by the second, nobody being killed while it holds the lock.
LEMMA CountSteps ==
    ASSUME SharedInv, MaxCrashes = 0, [Next]_vars
    PROVE  \/ /\ UNCHANGED <<cache, used, wasted, stray>>
              /\ \A q \in Procs : pc[q] = "clean" => pc'[q] = "clean"
           \/ \E p \in Procs : \/ RestartReset(p) \/ RestartClean(p)
                               \/ MarkCorrupted(p) \/ Store(p)
<1> DEFINE Same == /\ UNCHANGED <<cache, used, wasted, stray>>
                   /\ \A q \in Procs : pc[q] = "clean" => pc'[q] = "clean"
<1> USE DEF SharedInv, TypeOK
<1>1. ASSUME NEW p \in Procs, RequestStep(p) PROVE Same
  BY <1>1 DEF RequestStep, Activate, ActivateLock, Recheck, Unlock, Compare, PostDeactivate
<1>2. ASSUME NEW p \in Procs, RestartStep(p)
      PROVE  Same \/ RestartReset(p) \/ RestartClean(p)
  BY <1>2 DEF RestartStep, RestartBegin, RestartEnter, RestartFlag, RestartEnable,
              RestartStamp, RestartLeave, RestartLeft
<1>3. ASSUME NEW p \in Procs, ScheduleSteps(p) PROVE Same
  BY <1>3 DEF ScheduleSteps, Reset, ScheduleStep, Schedule, SetPending, SaveStatus, Disable,
              SetForce
<1>4. ASSUME NEW p \in Procs, CompileSteps(p)
      PROVE  Same \/ MarkCorrupted(p) \/ Store(p)
  BY <1>4 DEF CompileSteps, CompileOrig, CompileStart, CompileStep, IsActive, ClearFlag, Find,
              Count, Hit, Outdated, NotFound, StoreExists, StoreFails, StoreLocked
<1>5. ASSUME NEW p \in Procs, OtherStep(p) PROVE Same
  <2>1. ~Crash(p)
    BY OpcacheAssumption DEF Crash
  <2>2. ASSUME NEW q \in Procs, Kill(p, q) PROVE Same
    BY <2>2 DEF Kill, Dies, Lockers, AllocExclusive, Locked, Window
  <2> QED BY <1>5, <2>1, <2>2 DEF OtherStep, ReadLock, ReadLockAdd, ReadLockCheck, Invalidate,
                                  PcreUse, KillDone, KillFails
<1>6. ASSUME WorldStep PROVE Same
  BY <1>6 DEF WorldStep, FileChanges, TimePasses, vars
<1> QED BY <1>1, <1>2, <1>3, <1>4, <1>5, <1>6, StepCases

LEMMA CountNext ==
    ASSUME SharedInv, CountInv, MaxCrashes = 0, [Next]_vars
    PROVE  CountInv'
<1>1. CASE /\ UNCHANGED <<cache, used, wasted, stray>>
           /\ \A q \in Procs : pc[q] = "clean" => pc'[q] = "clean"
  BY <1>1 DEF CountInv, Valid
<1>2. ASSUME NEW p \in Procs, RestartReset(p) PROVE CountInv'
  BY <1>2 DEF RestartReset, CountInv, SharedInv, TypeOK
<1>3. ASSUME NEW p \in Procs, RestartClean(p) PROVE CountInv'
  <2>1. Valid' = {} /\ used' = 0 /\ wasted' = 0 /\ stray' = 0
    BY <1>3 DEF RestartClean, Cleaned, Valid
  <2>2. IsFiniteSet({}) /\ Cardinality({}) = 0
    BY FS_EmptySet
  <2> QED BY <2>1, <2>2 DEF CountInv
<1>4. ASSUME NEW p \in Procs, alloc = NoProc
      PROVE  /\ IsFiniteSet(Valid) /\ Cardinality(Valid) = used - (wasted - stray)
             /\ file[p] \in Files
  BY <1>4, OpcacheAssumption DEF CountInv, SharedInv, AllocExclusive, Locked, Window, TypeOK
<1>5. ASSUME NEW p \in Procs, MarkCorrupted(p) PROVE CountInv'
  <2>1. /\ alloc = NoProc /\ used' = used
        /\ used \in Nat /\ wasted \in Nat /\ stray \in Nat
    BY <1>5, MarkFacts DEF SharedInv, TypeOK
  <2>2. CASE cache' = cache /\ wasted' - stray' = wasted - stray
    BY <2>1, <2>2, <1>4 DEF CountInv, Valid
  <2>3. ASSUME NEW f \in Files, cache[f] \in Scripts, ~cache[f].bad,
               cache' = [cache EXCEPT ![f] = [@ EXCEPT !.bad = TRUE]],
               wasted' = wasted + 1, stray' = stray
        PROVE  CountInv'
    <3>1. f \in Valid
      BY <2>3, ScriptFacts DEF Valid
    <3>2. cache \in [Files -> Scripts \cup {NoScript}]
      BY DEF SharedInv, TypeOK
    <3>3. cache'[f].bad
      BY <2>3, <3>2 DEF Scripts
    <3>4. \A g \in Files : g # f => cache'[g] = cache[g]
      BY <2>3, <3>2
    <3>5. Valid' = Valid \ {f}
      BY <3>3, <3>4 DEF Valid
    <3>6. /\ IsFiniteSet(Valid \ {f})
          /\ Cardinality(Valid \ {f}) = Cardinality(Valid) - 1
      BY <3>1, <2>1, <1>4, FS_RemoveElement
    <3> QED BY <2>3, <3>5, <3>6, <2>1, <1>4 DEF CountInv
  <2>4. \/ cache' = cache /\ wasted' - stray' = wasted - stray
        \/ /\ wasted' = wasted + 1 /\ stray' = stray
           /\ \E f \in Files :
                 /\ cache[f] \in Scripts /\ ~cache[f].bad
                 /\ cache' = [cache EXCEPT ![f] = [@ EXCEPT !.bad = TRUE]]
    BY <1>5, <2>1, MarkFacts DEF SharedInv
  <2> QED BY <2>2, <2>3, <2>4
<1>6. ASSUME NEW p \in Procs, Store(p) PROVE CountInv'
  <2> DEFINE s == [slot |-> used + 1, ep |-> epoch, ver |-> version[file[p]], bad |-> FALSE]
  <2>1. /\ alloc = NoProc /\ used' = used + 1 /\ wasted' = wasted /\ stray' = stray
        /\ cache' = [cache EXCEPT ![file[p]] = s]
    BY <1>6 DEF Store, StoreLocked, AllocLock
  <2>2. file[p] \notin Valid
    BY <1>6 DEF Store, Stored, Valid
  <2>3. cache \in [Files -> Scripts \cup {NoScript}] /\ used \in Nat /\ wasted \in Nat
        /\ stray \in Nat
    BY DEF SharedInv, TypeOK
  <2>4. s # NoScript /\ ~s.bad
    <3>1. s.slot = used + 1 /\ NoScript.slot = 0
      BY DEF NoScript
    <3> QED BY <3>1, <2>3
  <2>5. cache'[file[p]] # NoScript /\ ~cache'[file[p]].bad
    BY <2>1, <2>3, <2>4, <1>4
  <2>6. \A f \in Files : f # file[p] => cache'[f] = cache[f]
    BY <2>1, <2>3
  <2>7. Valid' = Valid \cup {file[p]}
    BY <2>1, <2>5, <2>6, <1>4 DEF Valid
  <2>8. /\ IsFiniteSet(Valid \cup {file[p]})
        /\ Cardinality(Valid \cup {file[p]}) = Cardinality(Valid) + 1
    BY <2>1, <2>2, <1>4, FS_AddElement
  <2> QED BY <2>1, <2>3, <2>7, <2>8, <1>4 DEF CountInv
<1> QED BY <1>1, <1>2, <1>3, <1>5, <1>6, CountSteps

\* No process dying by itself, the wasted memory is exactly what is allocated and
\* unreachable, whichever processes find, outdate, store and invalidate the same
\* file at once, plus what was counted through pointers from before the last
\* restart for memory that is no script any more.  A crash between the two resets
\* leaves the scripts in the table with the count at zero, hence the hypothesis.
THEOREM WasteCounted == ASSUME MaxCrashes = 0 PROVE Spec => []AccountingExact
<1>1. Init => CountInv
  <2> SUFFICES ASSUME Init PROVE CountInv
    OBVIOUS
  <2>1. Valid = {} /\ used - (wasted - stray) = 0
    BY DEF Init, Valid
  <2> QED BY <2>1, FS_EmptySet DEF CountInv
<1>2. CountInv => AccountingExact
  BY DEF CountInv, AccountingExact, Valid, Restarting, Locked, Window
<1>3. SharedInv /\ CountInv /\ [Next]_vars => CountInv'
  BY CountNext
<1> QED BY <1>1, <1>2, <1>3, SharedInvariance, PTL DEF Spec
=============================================================================
