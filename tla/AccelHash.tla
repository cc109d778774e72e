------------------------------ MODULE AccelHash ------------------------------
(***************************************************************************)
(* The hash table of cached scripts in shared memory                       *)
(* (ext/opcache/zend_accelerator_hash.c).  Updates are made by one process *)
(* at a time, which holds the allocation lock; lookups take no lock, so    *)
(* every store of an update that a lookup can see, and every load of a     *)
(* lookup, is a step.  Stores become visible in program order.             *)
(*                                                                         *)
(* The writer makes the calls of cache_script_in_shared_memory and         *)
(* zend_accel_add_key.  A name in both FileNames and KeyNames is a path    *)
(* that is a file at one time and a symbolic link at another.              *)
(***************************************************************************)
EXTENDS Naturals, FiniteSets, LinkedList

CONSTANTS
    FileNames,   \* full real paths of scripts
    KeyNames,    \* other names a script was asked for by
    NoName,
    MaxEntries,  \* max_num_entries, of both arrays
    Readers      \* processes that look names up

Names   == FileNames \cup KeyNames
Entries == 1..MaxEntries       \* hash_entries; 0 is NULL
Junk    == "junk"              \* what is at an address that is no entry

ASSUME AccelHashAssumption ==
    /\ NoName \notin Names
    /\ MaxEntries \in Nat \ {0}

VARIABLES
    hash,        \* the hash function: index of a name in hash_table
    table,       \* hash_table
    key, next, data, indirect,   \* the fields of hash_entries
    num, numDirect,              \* num_entries, num_direct_entries
    wpc, wk, wind, wdata, we,    \* zend_accel_hash_update: control, key, indirect,
                                 \* data (or indirect_bucket), entry
    wthen,       \* the key to be linked afterwards, or none
    rpc, rk, re, rb, result,     \* zend_accel_hash_find_ex, for each reader
    seen,        \* history: what the name led to while it was looked up
    torn         \* history: the table was emptied between two loads of the lookup

tableVars  == <<table, key, next, data, indirect, num, numDirect>>
writerVars == <<wpc, wk, wind, wdata, we, wthen>>
readerVars == <<rpc, rk, re, rb, result>>
vars == <<hash, tableVars, writerVars, readerVars, seen, torn>>

\* zend_accel_hash_init: the shared memory is zeroed
Init ==
    /\ hash \in [Names -> 0..(MaxEntries - 1)]
    /\ table = [i \in 0..(MaxEntries - 1) |-> 0]
    /\ key = [e \in Entries |-> NoName]
    /\ next = [e \in Entries |-> 0]
    /\ data = [e \in Entries |-> NoName]
    /\ indirect = [e \in Entries |-> FALSE]
    /\ num = 0 /\ numDirect = 0
    /\ wpc = "idle" /\ wk = NoName /\ wind = FALSE /\ wdata = NoName
    /\ we = 0 /\ wthen = NoName
    /\ rpc = [r \in Readers |-> "idle"]
    /\ rk = [r \in Readers |-> NoName]
    /\ re = [r \in Readers |-> 0]
    /\ rb = [r \in Readers |-> 0]
    /\ result = [r \in Readers |-> NoName]
    /\ seen = [r \in Readers |-> {}]
    /\ torn = [r \in Readers |-> FALSE]

-----------------------------------------------------------------------------
(* The chains *)

\* the entries of the chain that starts at index i
Chain(i) == Reach(next, table[i])

\* mutant: only the hash values are compared
Matches_HashOnly(e, k) == hash[key[e]] = hash[k]

\* the comparison of hash_value, key_length and key
Matches(e, k) == key[e] = k

\* the entry of a name, as a search that nobody disturbs finds it
EntryOf(k) ==
    LET found == {e \in Chain(hash[k]) : key[e] = k}
    IN  IF found = {} THEN 0 ELSE CHOOSE e \in found : TRUE

\* zend_accel_hash_find_entry: an indirect entry stands for the one it points to
FindEntry(k) ==
    LET e == EntryOf(k) IN IF e # 0 /\ indirect[e] THEN data[e] ELSE e

\* zend_accel_hash_find, undisturbed
Lookup(k) ==
    LET e == EntryOf(k) IN
    IF e = 0 THEN NoName
    ELSE IF indirect[e] THEN data[data[e]] ELSE data[e]

-----------------------------------------------------------------------------
(* The calls the writer makes, under zend_shared_alloc_lock *)

\* mutant: one entry too many
IsFull_OffByOne == num = MaxEntries + 1

\* zend_accel_hash_is_full
IsFull == num = MaxEntries

Begin(k, ind, d) ==
    /\ wpc' = IF ind THEN "resolve" ELSE "search"
    /\ wk' = k /\ wind' = ind /\ wdata' = d

\* cache_script_in_shared_memory stores the script of f, asked for by the name
\* k: f is not cached, or what is cached was found outdated
CacheScript(f, k) ==
    /\ wpc = "idle" /\ ~IsFull
    /\ Begin(f, FALSE, f)
    /\ wthen' = IF k = f THEN NoName ELSE k
    /\ UNCHANGED <<hash, tableVars, we, readerVars>>

\* zend_accel_add_key: a key that leads nowhere, for a script that is found.  The
\* bucket is that of the table as it is: persistent_compile_file has found it
\* before it takes the lock, and no restart is taken to come in between.
AddKey(k, f) ==
    /\ wpc = "idle" /\ ~IsFull
    /\ Lookup(k) = NoName /\ FindEntry(f) # 0
    /\ Begin(k, TRUE, FindEntry(f))
    /\ wthen' = NoName
    /\ UNCHANGED <<hash, tableVars, we, readerVars>>

\* zend_accel_hash_clean, by a restart: the entries keep what they held.  A
\* restart waits for the usage locks of other processes, and a lookup of
\* persistent_compile_file comes before its process takes one, so lookups may be
\* under way.  None of them loads two places of hash_table: one memset is one
\* step to each.
Clean ==
    /\ wpc = "idle"
    /\ table' = [i \in 0..(MaxEntries - 1) |-> 0]
    /\ num' = 0 /\ numDirect' = 0
    /\ UNCHANGED <<hash, key, next, data, indirect, writerVars, readerVars>>

-----------------------------------------------------------------------------
(* zend_accel_hash_update *)

\* while (indirect_bucket->indirect)
Resolve ==
    /\ wpc = "resolve"
    /\ IF indirect[wdata]
       THEN wdata' = data[wdata] /\ UNCHANGED wpc
       ELSE wpc' = "search" /\ UNCHANGED wdata
    /\ UNCHANGED <<hash, tableVars, wk, wind, we, wthen, readerVars>>

\* the update returns: the caller links the key to the bucket it got, if any
Return(e) ==
    /\ IF wthen # NoName /\ e # 0 THEN Begin(wthen, TRUE, e)
       ELSE wpc' = "idle" /\ wk' = NoName /\ wind' = FALSE /\ wdata' = NoName
    /\ wthen' = NoName
    /\ we' = 0

\* "try to see if the element already exists in the hash"
Search ==
    /\ wpc = "search"
    /\ LET e == EntryOf(wk) IN
       \/ e # 0 /\ wpc' = "change" /\ we' = e /\ UNCHANGED <<wk, wind, wdata, wthen>>
       \/ e = 0 /\ IsFull /\ Return(0)
       \/ e = 0 /\ ~IsFull /\ wpc' = "fill" /\ we' = num + 1
                /\ UNCHANGED <<wk, wind, wdata, wthen>>
    /\ UNCHANGED <<hash, tableVars, readerVars>>

\* an entry that exists gets new data ...
Change ==
    /\ wpc = "change" /\ (indirect[we] \/ ~wind)
    /\ data' = IF indirect[we] /\ ~wind THEN [data EXCEPT ![data[we]] = wdata]
               ELSE [data EXCEPT ![we] = wdata]
    /\ Return(we)
    /\ UNCHANGED <<hash, table, key, next, indirect, num, numDirect, readerVars>>

\* ... or a direct one becomes indirect, in two stores
Redirect ==
    /\ wpc = "change" /\ ~indirect[we] /\ wind
    /\ numDirect' = numDirect - 1
    /\ data' = [data EXCEPT ![we] = wdata]
    /\ wpc' = "redirect"
    /\ UNCHANGED <<hash, table, key, next, indirect, num, wk, wind, wdata, we, wthen,
                   readerVars>>

Redirected ==
    /\ wpc = "redirect"
    /\ indirect' = [indirect EXCEPT ![we] = TRUE]
    /\ Return(we)
    /\ UNCHANGED <<hash, table, key, next, data, num, numDirect, readerVars>>

\* mutant: indirect entries are counted as direct
Counted_Always == numDirect + 1

\* num_direct_entries counts the entries of files
Counted == IF wind THEN numDirect ELSE numDirect + 1

\* "Does not exist, add a new entry": nobody sees it until it is linked, but a
\* lookup that was at this entry when the table was emptied.  Such a lookup loads
\* the fields in the opposite order of these stores, so that one step lets it see
\* whatever the single stores would.
Fill ==
    /\ wpc = "fill" /\ wpc' = "next"
    /\ num' = num + 1 /\ numDirect' = Counted
    /\ data' = [data EXCEPT ![we] = wdata]
    /\ indirect' = [indirect EXCEPT ![we] = wind]
    /\ key' = [key EXCEPT ![we] = wk]
    /\ UNCHANGED <<hash, table, next, wk, wind, wdata, we, wthen, readerVars>>

\* mutant: the chain is cut
Head_Null == 0

\* mutant: hash_table[index] was set first
Head_AfterLink == we

\* hash_table[index], before the entry is linked
Head == table[hash[wk]]

SetNext ==
    /\ wpc = "next" /\ wpc' = "link"
    /\ next' = [next EXCEPT ![we] = Head]
    /\ UNCHANGED <<hash, table, key, data, indirect, num, numDirect, wk, wind, wdata,
                   we, wthen, readerVars>>

Link ==
    /\ wpc = "link"
    /\ table' = [table EXCEPT ![hash[wk]] = we]
    /\ Return(we)
    /\ UNCHANGED <<hash, key, next, data, indirect, num, numDirect, readerVars>>

-----------------------------------------------------------------------------
(* zend_accel_hash_find_ex, without a lock *)

ToR(r, l) == rpc' = [rpc EXCEPT ![r] = l]

FindStart(r, k) ==
    /\ rpc[r] = "idle" /\ ToR(r, "head")
    /\ rk' = [rk EXCEPT ![r] = k]
    /\ UNCHANGED <<hash, tableVars, writerVars, re, rb, result>>

FindHead(r) ==
    /\ rpc[r] = "head" /\ ToR(r, "walk")
    /\ re' = [re EXCEPT ![r] = table[hash[rk[r]]]]
    /\ UNCHANGED <<hash, tableVars, writerVars, rk, rb, result>>

\* the key of an entry that a restart has dropped is in memory that is reused
Stale(e) == e > num

FindNext(r) ==
    /\ rpc[r] = "walk" /\ re[r] # 0
    /\ ~Matches(re[r], rk[r]) \/ Stale(re[r])
    /\ re' = [re EXCEPT ![r] = next[re[r]]]
    /\ UNCHANGED <<hash, tableVars, writerVars, rpc, rk, rb, result>>

FindNone(r) ==
    /\ rpc[r] = "walk" /\ re[r] = 0
    /\ ToR(r, "done")
    /\ result' = [result EXCEPT ![r] = NoName]
    /\ UNCHANGED <<hash, tableVars, writerVars, rk, re, rb>>

\* if (entry->indirect)
FindFlag(r) ==
    /\ rpc[r] = "walk" /\ re[r] # 0 /\ Matches(re[r], rk[r])
    /\ ToR(r, IF indirect[re[r]] THEN "bucket" ELSE "data")
    /\ UNCHANGED <<hash, tableVars, writerVars, rk, re, rb, result>>

FindData(r) ==
    /\ rpc[r] = "data" /\ ToR(r, "done")
    /\ result' = [result EXCEPT ![r] = data[re[r]]]
    /\ UNCHANGED <<hash, tableVars, writerVars, rk, re, rb>>

\* ((zend_accel_hash_entry*)entry->data)->data, two loads.  The entry may hold a
\* script by now: then the second load is from inside of it.
FindBucket(r) ==
    /\ rpc[r] = "bucket" /\ ToR(r, "deref")
    /\ rb' = [rb EXCEPT ![r] = data[re[r]]]
    /\ UNCHANGED <<hash, tableVars, writerVars, rk, re, result>>

FindDeref(r) ==
    /\ rpc[r] = "deref" /\ ToR(r, "done")
    /\ result' = [result EXCEPT ![r] = IF rb[r] \in Entries THEN data[rb[r]] ELSE Junk]
    /\ UNCHANGED <<hash, tableVars, writerVars, rk, re, rb>>

FindReturn(r) ==
    /\ rpc[r] = "done" /\ ToR(r, "idle")
    /\ rk' = [rk EXCEPT ![r] = NoName]
    /\ re' = [re EXCEPT ![r] = 0]
    /\ rb' = [rb EXCEPT ![r] = 0]
    /\ result' = [result EXCEPT ![r] = NoName]
    /\ UNCHANGED <<hash, tableVars, writerVars>>

-----------------------------------------------------------------------------
Write ==
    \/ \E f \in FileNames, k \in Names : (k = f \/ k \in KeyNames) /\ CacheScript(f, k)
    \/ \E k \in KeyNames, f \in FileNames : AddKey(k, f)
    \/ Clean \/ Resolve \/ Search \/ Change \/ Redirect \/ Redirected
    \/ Fill \/ SetNext \/ Link

Find(r) ==
    \/ FindHead(r) \/ FindNext(r) \/ FindNone(r) \/ FindFlag(r) \/ FindData(r)
    \/ FindBucket(r) \/ FindDeref(r) \/ FindReturn(r)

\* a lookup has loaded its first pointer and not yet its last
Loading == {"walk", "data", "bucket", "deref"}

\* torn follows whether entries were dropped between two loads of a lookup, seen
\* what the name led to meanwhile, until it is torn
Observe ==
    /\ torn' = [r \in Readers |->
                  rpc'[r] # "idle" /\ (torn[r] \/ (rpc[r] \in Loading /\ num' < num))]
    /\ seen' = [r \in Readers |->
                  IF rpc'[r] = "idle" \/ torn'[r] THEN {}
                  ELSE seen[r] \cup {Lookup(rk[r])'}]

Next ==
    /\ \/ Write
       \/ \E r \in Readers : Find(r) \/ \E k \in Names : FindStart(r, k)
    /\ Observe

Spec == Init /\ [][Next]_vars

\* a process that looks a name up keeps running
Fairness == \A r \in Readers : WF_vars(Find(r) /\ Observe)
FairSpec == Spec /\ Fairness

-----------------------------------------------------------------------------
(* Properties *)

Points == {"idle", "resolve", "search", "change", "redirect", "fill", "next", "link"}

\* Every variable has its type; the table never takes an entry it does not have.
TypeOK ==
    /\ table \in [0..(MaxEntries - 1) -> 0..MaxEntries]
    /\ key \in [Entries -> Names \cup {NoName}]
    /\ next \in [Entries -> 0..MaxEntries]
    /\ data \in [Entries -> FileNames \cup {NoName} \cup Entries]
    /\ indirect \in [Entries -> BOOLEAN]
    /\ num \in 0..MaxEntries /\ numDirect \in 0..MaxEntries
    /\ wpc \in Points /\ wk \in Names \cup {NoName} /\ wind \in BOOLEAN
    /\ wdata \in FileNames \cup {NoName} \cup Entries
    /\ we \in 0..MaxEntries /\ wthen \in KeyNames \cup {NoName}
    /\ re \in [Readers -> 0..MaxEntries]

\* entries that updates have linked
Linked == 1..num \ (IF wpc \in {"next", "link"} THEN {we} ELSE {})

\* Every chain runs through linked entries with falling numbers: it ends, and an
\* entry that is being filled is on none.  What the entries that a restart has
\* dropped lead to falls as well: a lookup that stands at one of them ends too.
ChainsDescend ==
    /\ \A i \in 0..(MaxEntries - 1) : table[i] \in Linked \cup {0}
    /\ \A e \in Entries : next[e] < e
    /\ \A e \in Linked : next[e] \in Linked \cup {0}

\* num_direct_entries, reported by opcache_get_status as the number of cached
\* scripts, is the number of entries that hold a script.
CountsExact ==
    wpc # "redirect" =>
       numDirect = Cardinality({e \in 1..num : ~indirect[e]})

\* A lookup without a lock, beside any updates and as long as no restart empties
\* the table between its first load and its last, finds the script of a file that
\* its name led to at some time during the lookup, and misses only if the name
\* led nowhere.
FindCorrect ==
    \A r \in Readers : rpc[r] = "done" /\ ~torn[r] => result[r] \in seen[r]

\* ... and this is a script, or nothing.
FindsScript ==
    \A r \in Readers :
       rpc[r] = "done" /\ ~torn[r] => result[r] \in FileNames \cup {NoName}

\* A lookup ends, whatever is added to the table meanwhile, and also when it is
\* emptied and filled again under the lookup.
FindEnds == \A r \in Readers : rpc[r] # "idle" ~> rpc[r] = "idle"

\* The table implements the map its callers rely on: what an undisturbed lookup
\* returns changes only as one store, link or restart prescribes.
Map == INSTANCE AccelMap WITH map <- [n \in Names |-> Lookup(n)]
MapSpec == Map!Spec

\* "Returns the data associated with key on success": between updates a name
\* leads to a script or nowhere, never to another entry.
LeadsToData == wpc = "idle" => \A n \in Names : Lookup(n) \in FileNames \cup {NoName}

\* "zend_accel_hash_update() requires exclusive lock, however,
\* zend_accel_hash_find() does not": a lookup returns a script or nothing, never
\* an entry or what happens to be in reused memory.
FindNeedsNoLock ==
    \A r \in Readers : rpc[r] = "done" => result[r] \in FileNames \cup {NoName}
=============================================================================
