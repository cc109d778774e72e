--------------------------- MODULE OpcacheRestart ---------------------------
(***************************************************************************)
(* The opcode cache shared by the processes of a server                    *)
(* (ext/opcache/ZendAccelerator.c) and the protocol by which one of them   *)
(* empties it while the others run.                                        *)
(*                                                                         *)
(* Three bytes of a lock file coordinate the processes (fcntl locks, which *)
(* the kernel drops when a process dies): byte 0 is the exclusive          *)
(* allocation lock, byte 1 is read-locked by every process that uses the   *)
(* shared memory, byte 2 is held during a restart.  Everything else is     *)
(* flags in shared memory that are read and written without a lock, so     *)
(* each such access is a step of its own.                                  *)
(*                                                                         *)
(* epoch counts the times the memory was emptied: a pointer into the cache *)
(* is represented by the epoch and slot it was allocated in, and is stale  *)
(* when that epoch is over.                                                *)
(***************************************************************************)
EXTENDS Integers, FiniteSets

CONSTANTS
    Procs,         \* server processes
    NoProc,        \* no owner of a lock
    Files,         \* PHP source files
    Cap,           \* scripts that fit in the cache between two restarts
    MaxWasted,     \* max_wasted_percentage, in scripts
    ForceRestart,  \* force_restart_timeout # 0
    Resetters,     \* processes whose scripts call opcache_reset()
    Invalidators,  \* processes whose scripts call opcache_invalidate()
    MaxRestarts,   \* bound: restarts scheduled in a behaviour
    MaxVersion,    \* bound: changes of a source file
    MaxCrashes     \* bound: processes that die by themselves

ASSUME OpcacheAssumption ==
    /\ NoProc \notin Procs
    /\ Cap \in Nat /\ MaxWasted \in Nat
    /\ ForceRestart \in BOOLEAN
    /\ Resetters \subseteq Procs /\ Invalidators \subseteq Procs
    /\ MaxRestarts \in Nat /\ MaxVersion \in Nat /\ MaxCrashes \in Nat

VARIABLES
    \* the lock file
    alloc,          \* owner of byte 0
    usage,          \* processes with a read lock on byte 1
    restartLk,      \* owner of byte 2
    \* accel_shared_globals
    pending,        \* restart_pending
    inProgress,     \* restart_in_progress
    enabled,        \* accelerator_enabled
    before,         \* cache_status_before_restart
    forceTime,      \* force_restart_time: "off", in the future, or reached
    restartTime,    \* last_restart_time
    cache,          \* hash: the script cached for a file
    used, wasted, exhausted,  \* the allocator
    stray,          \* history: what of wasted was counted for no script of the table
    epoch,          \* history: number of restarts of the memory
    scheduled,      \* history: number of restarts scheduled
    \* the processes
    pc,
    counted,        \* ZCG(counted)
    file, script,   \* file being compiled, persistent_script found for it
    after,          \* where the process goes on once it has unlocked
    last,           \* ZCG(last_restart_time)
    resetPcre,      \* reset_pcre
    uses,           \* epochs of the cached code the process executes
    pcre,           \* epochs of the keys in its PCRE cache
    guard,          \* history: epoch in which the usage lock was taken, or none
    \* the file system and the outside world
    version, crashes

lockVars  == <<alloc, usage, restartLk>>
schedVars == <<pending, enabled, before, forceTime, scheduled>>
doneVars  == <<inProgress, restartTime, epoch>>
cacheVars == <<cache, used, wasted, exhausted, stray>>
procVars  == <<counted, file, script, after, last, resetPcre, uses, pcre, guard>>
worldVars == <<version, crashes>>
vars == <<lockVars, schedVars, doneVars, cacheVars, pc, procVars, worldVars>>

NoScript == [slot |-> 0]
NoEpoch  == -1
Scripts  == [slot : 1..Cap, ep : Nat, ver : 0..MaxVersion, bad : BOOLEAN]

\* zend_accel_init_shm: an empty, enabled cache; every process idle
Init ==
    /\ alloc = NoProc /\ usage = {} /\ restartLk = NoProc
    /\ pending = FALSE /\ enabled = TRUE /\ before = FALSE /\ forceTime = "off"
    /\ scheduled = 0 /\ inProgress = FALSE /\ restartTime = 0 /\ epoch = 0
    /\ cache = [f \in Files |-> NoScript]
    /\ used = 0 /\ wasted = 0 /\ exhausted = FALSE /\ stray = 0
    /\ pc = [p \in Procs |-> "idle"]
    /\ counted = [p \in Procs |-> FALSE]
    /\ file \in [Procs -> Files]
    /\ script = [p \in Procs |-> NoScript]
    /\ after = [p \in Procs |-> "run"]
    /\ last = [p \in Procs |-> 0]
    /\ resetPcre = [p \in Procs |-> FALSE]
    /\ uses = [p \in Procs |-> {}]
    /\ pcre = [p \in Procs |-> {}]
    /\ guard = [p \in Procs |-> NoEpoch]
    /\ version = [f \in Files |-> 0] /\ crashes = 0

Goto(p, l)    == pc' = [pc EXCEPT ![p] = l]
Move(p, a, b) == pc[p] = a /\ Goto(p, b)

\* control points between the inactivity check of a restart and the moment
\* the memory is emptied
Window == {"restart", "enter", "flag", "reset", "clean"}
InWindow == \E q \in Procs : pc[q] \in Window

-----------------------------------------------------------------------------
(* The locks *)

\* mutant: F_SETLK whose failure is ignored
AllocLock_NonBlocking(p) == alloc' = p

\* zend_shared_alloc_lock: F_SETLKW on byte 0
AllocLock(p) == alloc = NoProc /\ alloc' = p

\* accel_activate_add: F_SETLK of a read lock on byte 1, which nobody ever
\* write-locks; counted follows
ActivateAdd(p) ==
    /\ usage' = usage \cup {p}
    /\ guard' = [guard EXCEPT ![p] = IF InWindow THEN NoEpoch ELSE epoch]

\* mutant: the usage byte is not in the range that is unlocked
UnlockAll_KeepsUsage(p) ==
    /\ alloc' = IF alloc = p THEN NoProc ELSE alloc
    /\ restartLk' = IF restartLk = p THEN NoProc ELSE restartLk
    /\ UNCHANGED <<usage, guard>>

\* accel_unlock_all, or the kernel when a process dies
UnlockAll(p) ==
    /\ alloc' = IF alloc = p THEN NoProc ELSE alloc
    /\ usage' = usage \ {p}
    /\ restartLk' = IF restartLk = p THEN NoProc ELSE restartLk
    /\ guard' = [guard EXCEPT ![p] = NoEpoch]

\* mutant: F_GETLK for a read lock, with which no read lock conflicts
Lockers_ReadQuery(p) == {}

\* F_GETLK ignores the locks of the process that asks
Lockers(p)      == usage \ {p}
RestartHeld(p)  == restartLk \notin {NoProc, p}

-----------------------------------------------------------------------------
(* accel_activate: the start of a request *)

\* if (ZCSG(restart_pending)), read without a lock
Activate(p) ==
    /\ pc[p] = "idle"
    /\ Goto(p, IF pending THEN "activateLock" ELSE "compare")
    /\ UNCHANGED <<lockVars, schedVars, doneVars, cacheVars, procVars, worldVars>>

ActivateLock(p) ==
    /\ Move(p, "activateLock", "recheck")
    /\ AllocLock(p)
    /\ after' = [after EXCEPT ![p] = "compare"]
    /\ UNCHANGED <<usage, restartLk, schedVars, doneVars, cacheVars, worldVars>>
    /\ UNCHANGED <<counted, file, script, last, resetPcre, uses, pcre, guard>>

\* accel_is_inactive: F_GETLK of byte 1, and the forced restart
NextAfterCheck(p) ==
    IF Lockers(p) = {} THEN "restart"
    ELSE IF forceTime = "due" THEN "kill" ELSE "unlock"

\* "check again, to ensure that the cache wasn't already cleaned by another
\* process", then accel_is_inactive
Recheck(p) ==
    /\ pc[p] = "recheck"
    /\ Goto(p, IF pending THEN NextAfterCheck(p) ELSE "unlock")
    /\ resetPcre' = [resetPcre EXCEPT ![p] = ~pending]
    /\ forceTime' = IF pending /\ NextAfterCheck(p) = "kill" THEN "off" ELSE forceTime
    /\ UNCHANGED <<lockVars, pending, enabled, before, scheduled, doneVars, cacheVars,
                   worldVars>>
    /\ UNCHANGED <<counted, file, script, after, last, uses, pcre, guard>>

\* ZCSG(restart_pending) = 0 and the statistics
RestartBegin(p) ==
    /\ Move(p, "restart", "enter")
    /\ pending' = FALSE
    /\ UNCHANGED <<lockVars, enabled, before, forceTime, scheduled, doneVars,
                   cacheVars, procVars, worldVars>>

\* accel_restart_enter: byte 2, then the flag
RestartEnter(p) ==
    /\ Move(p, "enter", "flag")
    /\ restartLk' = IF restartLk = NoProc THEN p ELSE restartLk
    /\ UNCHANGED <<alloc, usage, schedVars, doneVars, cacheVars, procVars, worldVars>>

RestartFlag(p) ==
    /\ Move(p, "flag", "reset")
    /\ inProgress' = TRUE
    /\ UNCHANGED <<lockVars, schedVars, restartTime, epoch, cacheVars, procVars,
                   worldVars>>

\* zend_reset_cache_vars
RestartReset(p) ==
    /\ Move(p, "reset", "clean")
    /\ exhausted' = FALSE /\ wasted' = 0 /\ stray' = 0
    /\ pending' = FALSE /\ forceTime' = "off"
    /\ UNCHANGED <<lockVars, enabled, before, scheduled, doneVars, cache, used,
                   procVars, worldVars>>

\* mutant: the hash table keeps its entries
Cleaned_Kept == cache

\* zend_accel_hash_clean
Cleaned == [f \in Files |-> NoScript]

\* zend_accel_hash_clean, accel_interned_strings_restore_state and
\* zend_shared_alloc_restore_state: from here on the memory is reused
RestartClean(p) ==
    /\ Move(p, "clean", "enable")
    /\ cache' = Cleaned
    /\ used' = 0 /\ exhausted' = FALSE /\ wasted' = 0 /\ stray' = 0
    /\ epoch' = epoch + 1
    /\ UNCHANGED <<lockVars, schedVars, inProgress, restartTime, procVars, worldVars>>

\* accelerator_enabled = cache_status_before_restart
RestartEnable(p) ==
    /\ Move(p, "enable", "stamp")
    /\ enabled' = before
    /\ UNCHANGED <<lockVars, pending, before, forceTime, scheduled, doneVars,
                   cacheVars, procVars, worldVars>>

\* mutant: always request_time, in the second of the restart before
NewStamp_RequestTime == restartTime

\* last_restart_time = request_time, or one more than it was
NewStamp == restartTime + 1

RestartStamp(p) ==
    /\ Move(p, "stamp", "leave")
    /\ restartTime' = NewStamp
    /\ UNCHANGED <<lockVars, schedVars, inProgress, epoch, cacheVars, procVars,
                   worldVars>>

\* accel_restart_leave: the flag, then byte 2
RestartLeave(p) ==
    /\ Move(p, "leave", "left")
    /\ inProgress' = FALSE
    /\ UNCHANGED <<lockVars, schedVars, restartTime, epoch, cacheVars, procVars,
                   worldVars>>

RestartLeft(p) ==
    /\ Move(p, "left", "unlock")
    /\ restartLk' = IF restartLk = p THEN NoProc ELSE restartLk
    /\ UNCHANGED <<alloc, usage, schedVars, doneVars, cacheVars, procVars, worldVars>>

\* zend_shared_alloc_unlock
Unlock(p) ==
    /\ pc[p] = "unlock" /\ Goto(p, after[p])
    /\ alloc' = NoProc
    /\ after' = [after EXCEPT ![p] = "run"]
    /\ UNCHANGED <<usage, restartLk, schedVars, doneVars, cacheVars, worldVars>>
    /\ UNCHANGED <<counted, file, script, last, resetPcre, uses, pcre, guard>>

\* "SHM was reinitialized": the in-process caches are emptied
Compare(p) ==
    /\ Move(p, "compare", "main")
    /\ last' = [last EXCEPT ![p] = restartTime]
    /\ pcre' = IF restartTime # last[p] \/ resetPcre[p]
               THEN [pcre EXCEPT ![p] = {}] ELSE pcre
    /\ resetPcre' = [resetPcre EXCEPT ![p] = FALSE]
    /\ UNCHANGED <<lockVars, schedVars, doneVars, cacheVars, worldVars>>
    /\ UNCHANGED <<counted, file, script, after, uses, guard>>

\* accel_post_deactivate: the end of a request
PostDeactivate(p) ==
    /\ pc[p] \in {"main", "run", "bailed"} /\ Goto(p, "idle")
    /\ UnlockAll(p)
    /\ counted' = [counted EXCEPT ![p] = FALSE]
    /\ uses' = [uses EXCEPT ![p] = {}]
    /\ script' = [script EXCEPT ![p] = NoScript]
    /\ UNCHANGED <<schedVars, doneVars, cacheVars, worldVars>>
    /\ UNCHANGED <<file, after, last, resetPcre, pcre>>

-----------------------------------------------------------------------------
(* zend_accel_schedule_restart, under the allocation lock or not *)

\* opcache_reset() tests accelerator_enabled, then "don't schedule twice"
Reset(p) ==
    /\ p \in Resetters
    /\ pc[p] = "run" /\ enabled
    /\ Goto(p, "schedule")
    /\ UNCHANGED <<lockVars, schedVars, doneVars, cacheVars, procVars, worldVars>>

\* the continuation of zend_accel_schedule_restart: its caller holds the lock
\* exactly when it is not opcache_reset()
Return(p) == IF alloc = p THEN "unlock" ELSE "run"

Schedule(p) ==
    /\ pc[p] = "schedule"
    /\ IF pending \/ scheduled = MaxRestarts
       THEN Goto(p, Return(p)) /\ UNCHANGED scheduled
       ELSE Goto(p, "setPending") /\ scheduled' = scheduled + 1
    /\ UNCHANGED <<lockVars, pending, enabled, before, forceTime, doneVars,
                   cacheVars, procVars, worldVars>>

SetPending(p) ==
    /\ Move(p, "setPending", "saveStatus")
    /\ pending' = TRUE
    /\ UNCHANGED <<lockVars, enabled, before, forceTime, scheduled, doneVars,
                   cacheVars, procVars, worldVars>>

SaveStatus(p) ==
    /\ Move(p, "saveStatus", "disable")
    /\ before' = enabled
    /\ UNCHANGED <<lockVars, pending, enabled, forceTime, scheduled, doneVars,
                   cacheVars, procVars, worldVars>>

Disable(p) ==
    /\ Move(p, "disable", "setForce")
    /\ enabled' = FALSE
    /\ UNCHANGED <<lockVars, pending, before, forceTime, scheduled, doneVars,
                   cacheVars, procVars, worldVars>>

SetForce(p) ==
    /\ pc[p] = "setForce" /\ Goto(p, Return(p))
    /\ forceTime' = IF ForceRestart THEN "armed" ELSE "off"
    /\ UNCHANGED <<lockVars, pending, enabled, before, scheduled, doneVars,
                   cacheVars, procVars, worldVars>>

\* zend_accel_schedule_restart_if_necessary
NextIfNecessary(w) == IF w >= MaxWasted THEN "schedule" ELSE "unlock"

-----------------------------------------------------------------------------
(* persistent_compile_file *)

\* the process does without the cache while it is switched off, unless it is
\* counted already
CompileOrig(p) ==
    /\ pc[p] \in {"main", "run"} /\ Goto(p, "run")
    /\ ~counted[p] /\ ~enabled
    /\ UNCHANGED <<lockVars, schedVars, doneVars, cacheVars, procVars, worldVars>>

\* ... and during a restart: restart_in_progress is confirmed by a query of
\* byte 2
CompileStart(p, f) ==
    /\ pc[p] \in {"main", "run"}
    /\ counted[p] \/ enabled
    /\ Goto(p, IF inProgress THEN "isActive" ELSE "find")
    /\ file' = [file EXCEPT ![p] = f]
    /\ UNCHANGED <<lockVars, schedVars, doneVars, cacheVars, worldVars>>
    /\ UNCHANGED <<counted, script, after, last, resetPcre, uses, pcre, guard>>

\* accel_restart_is_active: F_GETLK of byte 2
IsActive(p) ==
    /\ pc[p] = "isActive"
    /\ Goto(p, IF RestartHeld(p) THEN "run" ELSE "clearFlag")
    /\ UNCHANGED <<lockVars, schedVars, doneVars, cacheVars, procVars, worldVars>>

\* ... a flag left by a process that died is cleared
ClearFlag(p) ==
    /\ Move(p, "clearFlag", "find")
    /\ inProgress' = FALSE
    /\ UNCHANGED <<lockVars, schedVars, restartTime, epoch, cacheVars, procVars,
                   worldVars>>

\* the hash table is searched; a corrupted script counts as not found
Find(p) ==
    /\ pc[p] = "find"
    /\ LET s == cache[file[p]] IN
           script' = [script EXCEPT ![p] =
                        IF s # NoScript /\ ~s.bad THEN s ELSE NoScript]
    /\ Goto(p, IF counted[p] THEN "validate" ELSE "count")
    /\ UNCHANGED <<lockVars, schedVars, doneVars, cacheVars, worldVars>>
    /\ UNCHANGED <<counted, file, after, last, resetPcre, uses, pcre, guard>>

\* "Make sure we only increase the currently running processes semaphore once"
Count(p) ==
    /\ Move(p, "count", "validate")
    /\ ActivateAdd(p)
    /\ counted' = [counted EXCEPT ![p] = TRUE]
    /\ UNCHANGED <<alloc, restartLk, schedVars, doneVars, cacheVars, worldVars>>
    /\ UNCHANGED <<file, script, after, last, resetPcre, uses, pcre>>

\* zend_accel_load_script of a script in shared memory, until the request ends
Execute(p, s) ==
    /\ uses' = [uses EXCEPT ![p] = @ \cup {s.ep}]
    /\ script' = [script EXCEPT ![p] = NoScript]

\* validate_timestamp_and_record succeeds: the file did not change or
\* revalidate_freq has not elapsed
Hit(p) ==
    /\ script[p] # NoScript
    /\ Move(p, "validate", "run")
    /\ Execute(p, script[p])
    /\ UNCHANGED <<lockVars, schedVars, doneVars, cacheVars, worldVars>>
    /\ UNCHANGED <<counted, file, after, last, resetPcre, pcre, guard>>

\* the script was found before a restart: its memory is reused
Stale(p) == script[p].ep # epoch

\* ... or fails, as it may on any memory that is reused
Outdated(p) ==
    /\ script[p] # NoScript /\ (script[p].ver # version[file[p]] \/ Stale(p))
    /\ Move(p, "validate", "markLock")
    /\ after' = [after EXCEPT ![p] = "miss"]
    /\ UNCHANGED <<lockVars, schedVars, doneVars, cacheVars, worldVars>>
    /\ UNCHANGED <<counted, file, script, last, resetPcre, uses, pcre, guard>>

\* the memory of a script is counted as wasted; a restart may be scheduled when
\* the memory is exhausted
Waste(p) ==
    /\ wasted' = wasted + 1
    /\ Goto(p, IF exhausted THEN NextIfNecessary(wasted + 1) ELSE "unlock")

\* the script is marked corrupted.  Through a pointer from before a restart this
\* may be any script stored since ...
MarkScript(p, f) ==
    /\ cache[f] # NoScript /\ ~cache[f].bad
    /\ cache[f] = script[p] \/ Stale(p)
    /\ cache' = [cache EXCEPT ![f].bad = TRUE]
    /\ Waste(p)
    /\ UNCHANGED stray

\* ... or memory of no script the table leads to
MarkStray(p) ==
    /\ Stale(p)
    /\ stray' = stray + 1
    /\ Waste(p)
    /\ UNCHANGED cache

\* it is marked already, or reads as if it were
MarkedAlready(p) ==
    /\ cache[file[p]] # script[p]
    /\ Goto(p, "unlock")
    /\ UNCHANGED <<cache, wasted, stray>>

\* if (!persistent_script->corrupted), under the lock
MarkCorrupted(p) ==
    /\ pc[p] = "markLock"
    /\ AllocLock(p)
    /\ (\E f \in Files : MarkScript(p, f)) \/ MarkStray(p) \/ MarkedAlready(p)
    /\ script' = [script EXCEPT ![p] = NoScript]
    /\ UNCHANGED <<usage, restartLk, schedVars, doneVars, used, exhausted, worldVars>>
    /\ UNCHANGED <<counted, file, after, last, resetPcre, uses, pcre, guard>>

\* cache miss: "No memory left. Behave like without the Accelerator"
NotFound(p) ==
    /\ pc[p] = "miss" \/ (pc[p] = "validate" /\ script[p] = NoScript)
    /\ Goto(p, IF exhausted \/ pending THEN "run" ELSE "storeLock")
    /\ after' = [after EXCEPT ![p] = "run"]
    /\ UNCHANGED <<lockVars, schedVars, doneVars, cacheVars, worldVars>>
    /\ UNCHANGED <<counted, file, script, last, resetPcre, uses, pcre, guard>>

\* cache_script_in_shared_memory, from zend_shared_alloc_lock on; the file was
\* compiled before.  Another process may have stored it ...
StoreLocked(p) ==
    /\ pc[p] = "storeLock" /\ AllocLock(p)
    /\ UNCHANGED <<usage, restartLk, doneVars, file, after, last, resetPcre, pcre,
                   guard, counted, worldVars>>
    /\ UNCHANGED schedVars

\* mutant: the table is not searched again under the lock
Stored_NoRecheck(p) == FALSE

\* zend_accel_hash_find_entry: the file has a script that is not corrupted
Stored(p) == cache[file[p]] # NoScript /\ ~cache[file[p]].bad

StoreExists(p) ==
    /\ StoreLocked(p) /\ Stored(p)
    /\ Goto(p, "unlock")
    /\ UNCHANGED <<cacheVars, script, uses>>

\* ... there may be no entry left in the hash or no memory, which is exhausted
\* unless a free block above MIN_FREE_MEMORY remains ...
StoreFails(p) ==
    /\ StoreLocked(p) /\ ~Stored(p)
    /\ exhausted' \in {exhausted, TRUE}
    /\ Goto(p, NextIfNecessary(wasted))
    /\ UNCHANGED <<cache, used, wasted, stray, script, uses>>

\* mutant: one script too many
HasRoom_OffByOne == used <= Cap

\* zend_shared_alloc: the script fits in what is left
HasRoom == used < Cap

\* ... or it is copied into shared memory, entered in the hash and executed.
\* There may be no entry left for the key by which it was asked for.
Store(p) ==
    /\ StoreLocked(p) /\ ~Stored(p) /\ HasRoom
    /\ LET s == [slot |-> used + 1, ep |-> epoch, ver |-> version[file[p]],
                 bad |-> FALSE]
       IN  /\ cache' = [cache EXCEPT ![file[p]] = s]
           /\ Execute(p, s)
    /\ used' = used + 1
    /\ \/ Goto(p, "unlock") /\ UNCHANGED exhausted
       \/ Goto(p, NextIfNecessary(wasted)) /\ exhausted' = TRUE
    /\ UNCHANGED <<wasted, stray>>

-----------------------------------------------------------------------------
(* accelerator_shm_read_lock, for opcache_invalidate and opcache_get_status *)

ReadLock(p, f) ==
    /\ p \in Invalidators
    /\ pc[p] = "run" /\ enabled
    /\ Goto(p, IF counted[p] THEN "invalidate" ELSE "readLock")
    /\ file' = [file EXCEPT ![p] = f]
    /\ UNCHANGED <<lockVars, schedVars, doneVars, cacheVars, worldVars>>
    /\ UNCHANGED <<counted, script, after, last, resetPcre, uses, pcre, guard>>

\* accel_activate_add: "acquire usage lock"
ReadLockAdd(p) ==
    /\ Move(p, "readLock", "readCheck")
    /\ ActivateAdd(p)
    /\ UNCHANGED <<alloc, restartLk, schedVars, doneVars, cacheVars, worldVars>>
    /\ UNCHANGED <<counted, file, script, after, last, resetPcre, uses, pcre>>

\* "we already were inside restart this means it's not safe to touch shm"
ReadLockCheck(p) ==
    /\ pc[p] = "readCheck"
    /\ IF inProgress
       THEN /\ Goto(p, "run")
            /\ usage' = usage \ {p}
            /\ guard' = [guard EXCEPT ![p] = NoEpoch]
            /\ UNCHANGED counted
       ELSE /\ Goto(p, "invalidate")
            /\ counted' = [counted EXCEPT ![p] = TRUE]
            /\ UNCHANGED <<usage, guard>>
    /\ UNCHANGED <<alloc, restartLk, schedVars, doneVars, cacheVars, worldVars>>
    /\ UNCHANGED <<file, script, after, last, resetPcre, uses, pcre>>

\* zend_accel_invalidate: a script in the cache that is out of date, or any
\* when forced, is marked corrupted.  accelerator_shm_read_unlock keeps the
\* lock, counted being set.
Invalidate(p, force) ==
    LET found == Stored(p) /\ (force \/ cache[file[p]].ver # version[file[p]])
    IN  /\ pc[p] = "invalidate"
        /\ Goto(p, IF found THEN "markLock" ELSE "run")
        /\ script' = [script EXCEPT ![p] = IF found THEN cache[file[p]] ELSE NoScript]
        /\ after' = [after EXCEPT ![p] = "run"]
        /\ UNCHANGED <<lockVars, schedVars, doneVars, cacheVars, worldVars>>
        /\ UNCHANGED <<counted, file, last, resetPcre, uses, pcre, guard>>

-----------------------------------------------------------------------------
(* In-process caches, the file system, time and death *)

\* preg_match with a pattern of a cached script: the PCRE cache of the process
\* then holds one more key
PcreUse(p) ==
    /\ pc[p] = "run"
    /\ pcre' = [pcre EXCEPT ![p] = @ \cup uses[p]]
    /\ UNCHANGED <<lockVars, schedVars, doneVars, cacheVars, pc, worldVars>>
    /\ UNCHANGED <<counted, file, script, after, last, resetPcre, uses, guard>>

FileChanges(f) ==
    /\ version[f] < MaxVersion
    /\ version' = [version EXCEPT ![f] = @ + 1]
    /\ UNCHANGED <<lockVars, schedVars, doneVars, cacheVars, pc, procVars, crashes>>

\* time(NULL) reaches ZCSG(force_restart_time)
TimePasses ==
    /\ forceTime = "armed" /\ forceTime' = "due"
    /\ UNCHANGED <<lockVars, pending, enabled, before, scheduled, doneVars,
                   cacheVars, pc, procVars, worldVars>>

\* a process dies: the kernel drops its locks, and the server starts another
Dies(p) ==
    /\ UnlockAll(p)
    /\ counted' = [counted EXCEPT ![p] = FALSE]
    /\ script' = [script EXCEPT ![p] = NoScript]
    /\ after' = [after EXCEPT ![p] = "run"]
    /\ last' = [last EXCEPT ![p] = 0]
    /\ resetPcre' = [resetPcre EXCEPT ![p] = FALSE]
    /\ uses' = [uses EXCEPT ![p] = {}]
    /\ pcre' = [pcre EXCEPT ![p] = {}]
    /\ UNCHANGED <<file, schedVars, doneVars, cacheVars, version>>

\* kill_all_lockers, by the process that holds the allocation lock
Kill(p, q) ==
    /\ pc[p] = "kill" /\ q \in Lockers(p)
    /\ Goto(q, "idle")
    /\ Dies(q)
    /\ UNCHANGED crashes

\* no locker is left: accel_is_inactive still answers FAILURE, "next request
\* should be able to restart it"
KillDone(p) ==
    /\ Lockers(p) = {}
    /\ Move(p, "kill", "unlock")
    /\ UNCHANGED <<lockVars, schedVars, doneVars, cacheVars, procVars, worldVars>>

\* a locker cannot be killed: the forced restart is requested again, and
\* zend_accel_error(ACCEL_LOG_ERROR) bails out with the lock held
KillFails(p) ==
    /\ Lockers(p) # {}
    /\ Move(p, "kill", "bailed")
    /\ forceTime' = "due"
    /\ UNCHANGED <<lockVars, pending, enabled, before, scheduled, doneVars,
                   cacheVars, procVars, worldVars>>

Crash(p) ==
    /\ crashes < MaxCrashes /\ pc[p] # "idle"
    /\ crashes' = crashes + 1
    /\ Goto(p, "idle")
    /\ Dies(p)

-----------------------------------------------------------------------------
RestartStep(p) ==
    \/ RestartBegin(p) \/ RestartEnter(p) \/ RestartFlag(p) \/ RestartReset(p)
    \/ RestartClean(p) \/ RestartEnable(p) \/ RestartStamp(p)
    \/ RestartLeave(p) \/ RestartLeft(p)

ScheduleStep(p) ==
    Schedule(p) \/ SetPending(p) \/ SaveStatus(p) \/ Disable(p) \/ SetForce(p)

CompileStep(p) ==
    \/ IsActive(p) \/ ClearFlag(p) \/ Find(p) \/ Count(p) \/ Hit(p) \/ Outdated(p)
    \/ MarkCorrupted(p) \/ NotFound(p) \/ StoreExists(p) \/ StoreFails(p) \/ Store(p)

\* the steps a process takes once it is in an operation
Step(p) ==
    \/ ActivateLock(p) \/ Recheck(p) \/ RestartStep(p) \/ Unlock(p) \/ Compare(p)
    \/ ScheduleStep(p) \/ CompileStep(p)
    \/ ReadLockAdd(p) \/ ReadLockCheck(p) \/ (\E b \in BOOLEAN : Invalidate(p, b))
    \/ (\E q \in Procs : Kill(p, q)) \/ KillDone(p) \/ KillFails(p)

Next ==
    \/ \E p \in Procs :
          \/ Activate(p) \/ Step(p) \/ PostDeactivate(p) \/ CompileOrig(p)
          \/ Reset(p) \/ PcreUse(p) \/ Crash(p)
          \/ \E f \in Files : CompileStart(p, f) \/ ReadLock(p, f)
    \/ \E f \in Files : FileChanges(f)
    \/ TimePasses

\* Processes run and the kernel lets every one of them have the lock it waits
\* for; every request ends, and a request follows (the server is in use).
Fairness == \A p \in Procs :
    /\ SF_vars(Step(p))
    /\ SF_vars(PostDeactivate(p))
    /\ WF_vars(Activate(p))

Spec     == Init /\ [][Next]_vars
FairSpec == Spec /\ Fairness

-----------------------------------------------------------------------------
(* Properties *)

ControlPoints ==
    {"idle", "activateLock", "recheck", "kill", "restart", "enter", "flag", "reset",
     "clean", "enable", "stamp", "leave", "left", "unlock", "compare", "main", "run",
     "bailed", "schedule", "setPending", "saveStatus", "disable", "setForce",
     "isActive", "clearFlag", "find", "count", "validate", "markLock", "miss",
     "storeLock", "readLock", "readCheck", "invalidate"}

\* Every variable has its type.
TypeOK ==
    /\ alloc \in Procs \cup {NoProc} /\ restartLk \in Procs \cup {NoProc}
    /\ usage \subseteq Procs
    /\ pending \in BOOLEAN /\ inProgress \in BOOLEAN
    /\ enabled \in BOOLEAN /\ before \in BOOLEAN
    /\ forceTime \in {"off", "armed", "due"}
    /\ restartTime \in Nat /\ epoch \in Nat /\ scheduled \in 0..MaxRestarts
    /\ cache \in [Files -> Scripts \cup {NoScript}]
    /\ used \in 0..Cap /\ wasted \in Nat /\ stray \in Nat /\ exhausted \in BOOLEAN
    /\ pc \in [Procs -> ControlPoints]
    /\ counted \in [Procs -> BOOLEAN] /\ file \in [Procs -> Files]
    /\ script \in [Procs -> Scripts \cup {NoScript}]
    /\ after \in [Procs -> {"run", "miss", "compare"}]
    /\ last \in [Procs -> Nat] /\ resetPcre \in [Procs -> BOOLEAN]
    /\ uses \in [Procs -> SUBSET Nat] /\ pcre \in [Procs -> SUBSET Nat]
    /\ guard \in [Procs -> Nat \cup {NoEpoch}]
    /\ version \in [Files -> 0..MaxVersion] /\ crashes \in 0..MaxCrashes

\* control points at which a process relies on the allocation lock
Locked == Window \cup {"recheck", "kill", "enable", "stamp", "leave", "left",
                       "unlock", "bailed"}

\* A process that works on the shared memory under zend_shared_alloc_lock owns
\* the lock, whoever died, was killed or bailed out meanwhile: restarts, stores
\* and invalidations exclude each other.
AllocExclusive == \A p \in Procs : pc[p] \in Locked => alloc = p

\* A process that took its usage lock while no restart was between its
\* inactivity check and the reset of the memory keeps the memory for as long
\* as it holds the lock: accel_is_inactive sees it.
ReadersProtected == \A p \in Procs : guard[p] # NoEpoch => guard[p] = epoch

\* The hash table never leads to memory of an earlier epoch, and no two files
\* share a script: what is found was stored since the last restart.
CacheCurrent ==
    /\ \A f \in Files : cache[f] # NoScript =>
          cache[f].ep = epoch /\ cache[f].slot <= used
    /\ \A f, g \in Files : cache[f] # NoScript /\ cache[f] = cache[g] => f = g

Restarting == \E p \in Procs : pc[p] \in Locked \ {"recheck", "kill", "unlock", "bailed"}

\* The wasted memory, by which restarts are decided, is what is allocated and no
\* longer reachable, whoever outdates, invalidates and stores the same file:
\* nothing is counted twice or forgotten.  On top of it comes what was counted
\* through pointers from before the last restart.
AccountingExact ==
    Restarting \/ Cardinality({f \in Files : cache[f] # NoScript /\ ~cache[f].bad})
                    = used - (wasted - stray)

\* A PCRE key of an earlier epoch that a process still holds between requests
\* is found out when its next request compares last_restart_time.
StaleKeysDetected ==
    Restarting \/ \A p \in Procs :
        pc[p] \in {"idle", "compare"} /\ (\E e \in pcre[p] : e # epoch)
            => last[p] # restartTime

Scheduling == \E p \in Procs : pc[p] \in {"saveStatus", "disable", "setForce"}

\* Once switched off for a restart the cache has a restart pending or going on
\* that switches it on again ("don't schedule twice").
CacheComesBack == enabled \/ pending \/ Restarting \/ Scheduling

\* ... and it is switched on again.
CacheReenabled == ~enabled ~> enabled

\* "counted means we are holding read lock for SHM, so that nothing bad can
\* happen": the code a counted process executes is still in memory.
CountedIsSafe == \A p \in Procs : counted[p] => uses[p] \subseteq {epoch}
=============================================================================
