-------------------------- MODULE AccelHashProofs --------------------------
(***************************************************************************)
(* Proofs about AccelHash for any hash function, number of entries and     *)
(* readers.                                                                *)
(*                                                                         *)
(* Whatever names the table holds, names that change between file and link *)
(* included, and whatever restart empties it: the chains never form a      *)
(* cycle, dropped entries included, and never show an entry that is being  *)
(* filled (ChainsSound), and the counters are exact (DirectEntriesCounted).*)
(*                                                                         *)
(* As long as no path is both a file and a link (NamesDisjoint), which     *)
(* leaves out the one case in which the code does hand out the address of  *)
(* an entry: every step does one of four things to the table (TableSteps), *)
(* from which a lookup without a lock is correct unless a restart drops    *)
(* the entries it walks (LookupsCorrect, LookupsReturnScripts), the types  *)
(* hold (TypeCorrect) and the table implements the map of AccelMap         *)
(* (TableImplementsMap).                                                   *)
(***************************************************************************)
EXTENDS AccelHash, LinkedListProofs, FiniteSetTheorems, TLAPS

Pending == {"next", "link"}

\* The inductive invariant: the writer's entry is the next free one until it is
\* filled and the last one until it is linked, and all that is on a chain is
\* below it.
ChainInv ==
    /\ hash \in [Names -> 0..(MaxEntries - 1)]
    /\ table \in [0..(MaxEntries - 1) -> 0..MaxEntries]
    /\ next \in [Entries -> 0..MaxEntries]
    /\ num \in 0..MaxEntries
    /\ wpc \in Points
    /\ wpc # "idle" => wk \in Names
    /\ wthen \in Names \cup {NoName}
    /\ wpc = "fill" => we = num + 1 /\ num < MaxEntries
    /\ wpc \in Pending => we = num /\ num > 0
    /\ wpc = "link" => next[we] < we
    /\ ChainsDescend

USE DEF tableVars, writerVars, readerVars, Entries

LEMMA InitChain == Init => ChainInv
BY AccelHashAssumption DEF Init, ChainInv, ChainsDescend, Linked, Points, Pending

\* Where the writer is after an update, whatever the update returned.
LEMMA ReturnFacts ==
    ASSUME ChainInv, NEW e, Return(e)
    PROVE  /\ wpc' \in {"idle", "resolve"}
           /\ wpc' # "idle" => wk' \in Names
           /\ wthen' \in Names \cup {NoName}
BY DEF Return, Begin, ChainInv

\* A step that changes neither the chains nor num, and after which no entry is
\* half linked that was not before, preserves the invariant.
LEMMA QuietChain ==
    ASSUME ChainInv, UNCHANGED <<hash, table, next, num>>, wpc \notin Pending,
           wpc' \in Points \ Pending,
           wpc' # "idle" => wk' \in Names,
           wthen' \in Names \cup {NoName},
           wpc' = "fill" => we' = num + 1 /\ num < MaxEntries
    PROVE  ChainInv'
BY DEF ChainInv, ChainsDescend, Linked, Points, Pending

\* Every step preserves the invariant.
LEMMA NextChain == ChainInv /\ [Next]_vars => ChainInv'
<1> SUFFICES ASSUME ChainInv, [Next]_vars PROVE ChainInv'
    OBVIOUS
<1>1. CASE \E f \in FileNames, k \in Names : CacheScript(f, k)
  <2>1. /\ wpc = "idle" /\ wpc' = "search" /\ wk' \in Names
        /\ wthen' \in Names \cup {NoName} /\ UNCHANGED <<hash, table, next, num>>
    BY <1>1 DEF CacheScript, Begin, Names
  <2> QED BY <2>1, QuietChain DEF Points, Pending
<1>2. CASE \E k \in KeyNames, f \in FileNames : AddKey(k, f)
  <2>1. /\ wpc = "idle" /\ wpc' = "resolve" /\ wk' \in Names
        /\ wthen' = NoName /\ UNCHANGED <<hash, table, next, num>>
    BY <1>2 DEF AddKey, Begin, Names
  <2> QED BY <2>1, QuietChain DEF Points, Pending
<1>3. CASE Clean
  BY <1>3, AccelHashAssumption DEF Clean, ChainInv, ChainsDescend, Linked, Points, Pending
<1>4. CASE Resolve
  <2>1. /\ wpc = "resolve" /\ wpc' \in {"resolve", "search"}
        /\ UNCHANGED <<wk, wthen, hash, table, next, num>>
    BY <1>4 DEF Resolve
  <2> QED BY <2>1, QuietChain DEF Points, Pending, ChainInv
<1>5. CASE Search
  <2>1. wpc = "search" /\ UNCHANGED <<hash, table, next, num>>
    BY <1>5 DEF Search
  <2>2. CASE Return(0)
    BY <2>1, <2>2, ReturnFacts, QuietChain DEF Points, Pending
  <2>3. CASE wpc' = "change" /\ UNCHANGED <<wk, wthen>>
    BY <2>1, <2>3, QuietChain DEF Points, Pending, ChainInv
  <2>4. CASE ~IsFull /\ wpc' = "fill" /\ we' = num + 1 /\ UNCHANGED <<wk, wthen>>
    <3>1. num < MaxEntries
      BY <2>4, AccelHashAssumption DEF IsFull, ChainInv
    <3> QED BY <2>1, <2>4, <3>1, QuietChain DEF Points, Pending, ChainInv
  <2> QED BY <1>5, <2>2, <2>3, <2>4 DEF Search
<1>6. CASE Change
  BY <1>6, ReturnFacts, QuietChain DEF Change, Points, Pending
<1>7. CASE Redirect
  <2>1. /\ wpc = "change" /\ wpc' = "redirect" /\ UNCHANGED <<wk, wthen, hash, table, next, num>>
    BY <1>7 DEF Redirect
  <2> QED BY <2>1, QuietChain DEF Points, Pending, ChainInv
<1>8. CASE Redirected
  BY <1>8, ReturnFacts, QuietChain DEF Redirected, Points, Pending
<1>9. CASE Fill
  <2>1. /\ wpc = "fill" /\ wpc' = "next" /\ num' = num + 1 /\ we = num + 1
        /\ num \in Nat /\ num' \in 0..MaxEntries
        /\ UNCHANGED <<hash, table, next, wk, we, wthen>>
    BY <1>9, AccelHashAssumption DEF Fill, ChainInv
  <2>2. Linked = 1..num /\ Linked' = 1..(num + 1) \ {num + 1}
    BY <2>1 DEF Linked
  <2>3. Linked' = Linked
    BY <2>1, <2>2
  <2>4. ChainsDescend'
    BY <2>1, <2>3 DEF ChainInv, ChainsDescend
  <2> QED BY <2>1, <2>4 DEF ChainInv, Points, Pending
<1>10. CASE SetNext
  <2>1. /\ wpc = "next" /\ wpc' = "link" /\ next' = [next EXCEPT ![num] = Head]
        /\ we = num /\ num \in 1..MaxEntries /\ wk \in Names
        /\ UNCHANGED <<hash, table, num, wk, we, wthen>>
    BY <1>10, AccelHashAssumption DEF SetNext, ChainInv, Pending
  <2>2. Head \in Linked \cup {0}
    BY <2>1 DEF Head, ChainInv, ChainsDescend
  <2>3. Linked = 1..num \ {num} /\ Linked' = Linked
    BY <2>1 DEF Linked
  <2>4. Head < num /\ Head \in 0..MaxEntries
    BY <2>1, <2>2, <2>3, AccelHashAssumption DEF ChainInv
  <2> HIDE DEF Head
  <2>5. ChainsDescend'
    <3>1. /\ \A i \in 0..(MaxEntries - 1) : table'[i] \in Linked' \cup {0}
          /\ \A e \in Linked' : next'[e] \in Linked' \cup {0}
      BY <2>1, <2>3 DEF ChainInv, ChainsDescend
    <3>2. \A e \in Entries : next'[e] < e
      BY <2>1, <2>4 DEF ChainInv, ChainsDescend
    <3> QED BY <3>1, <3>2 DEF ChainsDescend
  <2> QED BY <2>1, <2>4, <2>5 DEF ChainInv, Points, Pending
<1>11. CASE Link
  <2>1. /\ wpc = "link" /\ we = num /\ num \in 1..MaxEntries /\ wk \in Names
        /\ table' = [table EXCEPT ![hash[wk]] = num] /\ next[num] < num
        /\ UNCHANGED <<hash, next, num>>
    BY <1>11, AccelHashAssumption DEF Link, ChainInv, Pending
  <2>2. /\ wpc' \in {"idle", "resolve"} /\ (wpc' # "idle" => wk' \in Names)
        /\ wthen' \in Names \cup {NoName}
    BY <1>11, ReturnFacts DEF Link
  <2>3. Linked = 1..num \ {num} /\ Linked' = 1..num
    BY <2>1, <2>2 DEF Linked
  <2>4. ChainsDescend'
    BY <2>1, <2>3, AccelHashAssumption, SMTT(30) DEF ChainInv, ChainsDescend
  <2> QED BY <2>1, <2>2, <2>4 DEF ChainInv, Points, Pending
<1>12. CASE UNCHANGED <<hash, tableVars, writerVars>>
  BY <1>12 DEF ChainInv, ChainsDescend, Linked
<1>13. ASSUME NEW r \in Readers, Find(r) \/ \E k \in Names : FindStart(r, k)
       PROVE  UNCHANGED <<hash, tableVars, writerVars>>
  BY <1>13 DEF Find, FindStart, FindHead, FindNext, FindNone, FindFlag, FindData,
               FindBucket, FindDeref, FindReturn
<1>14. CASE UNCHANGED vars
  BY <1>12, <1>14 DEF vars
<1> QED BY <1>1, <1>2, <1>3, <1>4, <1>5, <1>6, <1>7, <1>8, <1>9, <1>10, <1>11, <1>12,
           <1>13, <1>14 DEF Next, Write

\* A chain never has a cycle and never leads to an entry that is being filled,
\* and what a dropped entry leads to falls too: a lookup needs no lock to come to
\* an end, whatever names the table holds and whatever restart empties it.
THEOREM ChainsSound == Spec => []ChainsDescend
<1>1. ChainInv => ChainsDescend
  BY DEF ChainInv
<1> QED BY <1>1, InitChain, NextChain, PTL DEF Spec

-----------------------------------------------------------------------------
(* What an undisturbed lookup finds *)

\* A path is not a file at one time and a symbolic link at another.
NamesDisjoint == FileNames \cap KeyNames = {}

\* The linked entries: each is on the chain of its key, no key has two, a file
\* has a direct entry that leads to it, and another name an indirect one that
\* points to a direct one.
EntriesOK ==
    /\ key \in [Entries -> Names \cup {NoName}]
    /\ data \in [Entries -> FileNames \cup {NoName} \cup Entries]
    /\ indirect \in [Entries -> BOOLEAN]
    /\ \A e \in Linked : key[e] \in Names /\ e \in Chain(hash[key[e]])
    /\ \A e, d \in Linked : key[e] = key[d] => e = d
    /\ \A e \in Linked :
          IF indirect[e] THEN /\ key[e] \in KeyNames
                              /\ data[e] \in Linked /\ ~indirect[data[e]]
                         ELSE key[e] \in FileNames /\ data[e] = key[e]

\* the file an entry leads to
Target(e) == IF indirect[e] THEN key[data[e]] ELSE key[e]

\* A name is found in its entry, and only there.
LookupOK ==
    \A n \in Names :
       /\ \A e \in Linked : key[e] = n => EntryOf(n) = e /\ Lookup(n) = Target(e)
       /\ (\A e \in Linked : key[e] # n) => EntryOf(n) = 0 /\ Lookup(n) = NoName

\* Chains hold linked entries only.
LEMMA ChainLinked ==
    ASSUME ChainInv, NEW h \in Linked \cup {0}
    PROVE  Reach(next, h) \subseteq Linked
<1>1. 0 \notin Entries /\ next \in [Entries -> Entries \cup {0}] /\ Linked \subseteq Entries
  BY AccelHashAssumption DEF ChainInv, Linked
<1>2. Closed(next, Linked \cap Entries)
  BY <1>1 DEF Closed, ChainInv, ChainsDescend
<1> QED BY <1>1, <1>2, ReachLeast

LEMMA LookupFacts == ChainInv /\ EntriesOK => LookupOK
<1> SUFFICES ASSUME ChainInv, EntriesOK, NEW n \in Names
             PROVE  /\ \A e \in Linked : key[e] = n =>
                             EntryOf(n) = e /\ Lookup(n) = Target(e)
                    /\ (\A e \in Linked : key[e] # n) =>
                             EntryOf(n) = 0 /\ Lookup(n) = NoName
  BY DEF LookupOK
<1> DEFINE found == {e \in Chain(hash[n]) : key[e] = n}
<1>1. Chain(hash[n]) \subseteq Linked /\ Linked \subseteq Entries /\ 0 \notin Entries
  <2>1. table[hash[n]] \in Linked \cup {0}
    BY DEF ChainInv, ChainsDescend
  <2> QED BY <2>1, ChainLinked, AccelHashAssumption DEF Chain, ChainInv, Linked
<1>2. ASSUME NEW e \in Linked, key[e] = n
      PROVE  EntryOf(n) = e /\ Lookup(n) = Target(e)
  <2>1. found = {e}
    BY <1>1, <1>2 DEF EntriesOK
  <2>2. EntryOf(n) = e
    BY <2>1 DEF EntryOf
  <2>3. e # 0 /\ (indirect[e] => data[data[e]] = key[data[e]]) /\ (~indirect[e] => data[e] = key[e])
    BY <1>1 DEF EntriesOK
  <2>4. Lookup(n) = Target(e)
    BY <2>2, <2>3 DEF Lookup, Target
  <2> QED BY <2>2, <2>4
<1>3. ASSUME \A e \in Linked : key[e] # n PROVE EntryOf(n) = 0 /\ Lookup(n) = NoName
  <2>1. found = {}
    BY <1>1, <1>3
  <2>2. EntryOf(n) = 0
    BY <2>1 DEF EntryOf
  <2> QED BY <2>2 DEF Lookup
<1> QED BY <1>2, <1>3

-----------------------------------------------------------------------------
(* The writer *)

\* What the writer is about to enter: the script of a file, or one more name for
\* an entry that holds a script; an entry it adds has a key no other one has.
WriterOK ==
    /\ wpc = "idle" => wthen = NoName
    /\ wpc # "idle" =>
          IF wind THEN /\ wk \in KeyNames /\ wthen = NoName
                       /\ wdata \in Linked /\ ~indirect[wdata]
                  ELSE /\ wk \in FileNames /\ wdata = wk
                       /\ wthen \in KeyNames \cup {NoName}
    /\ wind \in BOOLEAN
    /\ wpc = "resolve" => wind
    /\ wpc = "change" => we \in Linked /\ key[we] = wk
    /\ wpc # "redirect"
    /\ wpc \in {"fill", "next", "link"} => \A e \in Linked : key[e] # wk
    /\ wpc \in Pending => /\ key[we] = wk /\ indirect[we] = wind /\ data[we] = wdata
    /\ wpc = "link" => next[we] = table[hash[wk]]

TableInv == ChainInv /\ EntriesOK /\ WriterOK

\* the linked entries are what they were
SameEntries ==
    \A e \in Linked : /\ key'[e] = key[e] /\ indirect'[e] = indirect[e]
                      /\ next'[e] = next[e]

EntryTypes ==
    /\ key \in [Entries -> Names \cup {NoName}]
    /\ data \in [Entries -> FileNames \cup {NoName} \cup Entries]
    /\ indirect \in [Entries -> BOOLEAN]

\* The four things that can happen to the table: nothing a lookup could see,
Kept ==
    /\ hash' = hash /\ table' = table /\ Linked' = Linked /\ SameEntries
    /\ \A e \in Linked : data'[e] = data[e]

\* a new entry at the head of its chain,
Added ==
    \E e \in Entries :
       /\ e \notin Linked /\ Linked' = Linked \cup {e}
       /\ hash' = hash /\ UNCHANGED <<key, data, indirect, next>>
       /\ key[e] \in Names /\ \A d \in Linked : key[d] # key[e]
       /\ IF indirect[e] THEN /\ key[e] \in KeyNames
                              /\ data[e] \in Linked /\ ~indirect[data[e]]
                         ELSE key[e] \in FileNames /\ data[e] = key[e]
       /\ next[e] = table[hash[key[e]]]
       /\ table' = [table EXCEPT ![hash[key[e]]] = e]

\* a name led to another script,
Retargeted ==
    \E e \in Linked, d \in Linked :
       /\ UNCHANGED <<hash, table, key, indirect, next>> /\ Linked' = Linked
       /\ indirect[e] /\ ~indirect[d]
       /\ data' = [data EXCEPT ![e] = d]

\* or all entries dropped.
Dropped == Linked' = {} /\ num' = 0 /\ (num = 0 => Linked = {})

\* Typing facts of the array of entries.
LEMMA ArrayFacts ==
    ASSUME ChainInv
    PROVE  /\ 0 \notin Entries /\ next \in [Entries -> Entries \cup {0}]
           /\ Linked \subseteq Entries
           /\ table \in [0..(MaxEntries - 1) -> Entries \cup {0}]
           /\ \A i \in 0..(MaxEntries - 1) : table[i] \in Linked \cup {0}
BY AccelHashAssumption DEF ChainInv, Linked, ChainsDescend

LEMMA ArrayFactsPrime ==
    ASSUME ChainInv'
    PROVE  /\ next' \in [Entries -> Entries \cup {0}]
           /\ Linked' \subseteq Entries
BY AccelHashAssumption, SMTT(30) DEF ChainInv, Linked

\* The entries of a list are unchanged when the linked entries are.
LEMMA ReachKept ==
    ASSUME ChainInv, ChainInv', SameEntries, NEW h \in Linked \cup {0}
    PROVE  Reach(next', h) = Reach(next, h)
<1>1. Reach(next, h) \subseteq Linked
  BY ChainLinked
<1>2. /\ 0 \notin Entries /\ next \in [Entries -> Entries \cup {0}]
      /\ next' \in [Entries -> Entries \cup {0}] /\ h \in Entries \cup {0}
  BY ArrayFacts, ArrayFactsPrime
<1>3. \A n \in Reach(next, h) : next'[n] = next[n]
  BY <1>1 DEF SameEntries
<1> HIDE DEF Entries
<1> QED BY <1>2, <1>3, ReachFrame

LEMMA KeptEntries ==
    ASSUME ChainInv, ChainInv', EntriesOK, EntryTypes', Kept
    PROVE  EntriesOK'
<1>1. ASSUME NEW e \in Linked' PROVE key'[e] \in Names /\ e \in Chain(hash[key[e]])'
  <2>1. e \in Linked /\ key'[e] = key[e] /\ key[e] \in Names /\ e \in Chain(hash[key[e]])
    BY DEF Kept, SameEntries, EntriesOK
  <2>2. table[hash[key[e]]] \in Linked \cup {0}
    BY <2>1, ArrayFacts DEF ChainInv
  <2>3. Reach(next', table[hash[key[e]]]) = Reach(next, table[hash[key[e]]])
    BY <2>2, ReachKept DEF Kept
  <2> QED BY <2>1, <2>3 DEF Chain, Kept
<1>2. \A e, d \in Linked' : key'[e] = key'[d] => e = d
  BY DEF Kept, SameEntries, EntriesOK
<1>3. \A e \in Linked' :
          IF indirect'[e] THEN /\ key'[e] \in KeyNames
                              /\ data'[e] \in Linked' /\ ~indirect'[data'[e]]
                         ELSE key'[e] \in FileNames /\ data'[e] = key'[e]
  BY DEF Kept, SameEntries, EntriesOK
<1> QED BY <1>1, <1>2, <1>3 DEF EntriesOK, EntryTypes

LEMMA RetargetedEntries ==
    ASSUME ChainInv, ChainInv', EntriesOK, EntryTypes', Retargeted
    PROVE  EntriesOK'
<1>1. PICK e \in Linked, d \in Linked :
       /\ UNCHANGED <<hash, table, key, indirect, next>> /\ Linked' = Linked
       /\ indirect[e] /\ ~indirect[d]
       /\ data' = [data EXCEPT ![e] = d]
  BY DEF Retargeted
<1>2. \A n \in Linked' : key'[n] \in Names /\ n \in Chain(hash[key[n]])'
  BY <1>1 DEF EntriesOK, Chain
<1>3. \A n \in Linked' :
          IF indirect'[n] THEN /\ key'[n] \in KeyNames
                              /\ data'[n] \in Linked' /\ ~indirect'[data'[n]]
                         ELSE key'[n] \in FileNames /\ data'[n] = key'[n]
  BY <1>1, ArrayFacts DEF EntriesOK
<1> QED BY <1>1, <1>2, <1>3 DEF EntriesOK, EntryTypes

LEMMA AddedEntries ==
    ASSUME ChainInv, ChainInv', EntriesOK, EntryTypes', Added
    PROVE  EntriesOK'
<1>1. PICK e \in Entries :
       /\ e \notin Linked /\ Linked' = Linked \cup {e}
       /\ hash' = hash /\ UNCHANGED <<key, data, indirect, next>>
       /\ key[e] \in Names /\ \A d \in Linked : key[d] # key[e]
       /\ IF indirect[e] THEN /\ key[e] \in KeyNames
                              /\ data[e] \in Linked /\ ~indirect[data[e]]
                         ELSE key[e] \in FileNames /\ data[e] = key[e]
       /\ next[e] = table[hash[key[e]]]
       /\ table' = [table EXCEPT ![hash[key[e]]] = e]
  BY DEF Added
<1> DEFINE i == hash[key[e]]
<1>2. i \in 0..(MaxEntries - 1) /\ table'[i] = e
      /\ \A j \in 0..(MaxEntries - 1) : j # i => table'[j] = table[j]
  BY <1>1 DEF ChainInv
<1>3. Reach(next, e) = {e} \cup Reach(next, table[i])
  <2>1. 0 \notin Entries /\ next \in [Entries -> Entries \cup {0}] /\ e \in Entries
    BY ArrayFacts
  <2> HIDE DEF Entries
  <2>2. Reach(next, e) = {e} \cup Reach(next, next[e])
    BY <2>1, ReachUnfold
  <2> QED BY <1>1, <2>2
<1>4. ASSUME NEW n \in Linked' PROVE key'[n] \in Names /\ n \in Chain(hash[key[n]])'
  <2>1. CASE n = e
    BY <1>1, <1>2, <1>3, <2>1 DEF Chain
  <2>2. CASE n \in Linked
    <3>1. key[n] \in Names /\ n \in Reach(next, table[hash[key[n]]])
          /\ hash[key[n]] \in 0..(MaxEntries - 1)
      BY <2>2 DEF EntriesOK, Chain, ChainInv
    <3> QED BY <1>1, <1>2, <1>3, <3>1 DEF Chain
  <2> QED BY <1>1, <2>1, <2>2
<1>5. \A n, d \in Linked' : key'[n] = key'[d] => n = d
  BY <1>1 DEF EntriesOK
<1>6. \A n \in Linked' :
          IF indirect'[n] THEN /\ key'[n] \in KeyNames
                              /\ data'[n] \in Linked' /\ ~indirect'[data'[n]]
                         ELSE key'[n] \in FileNames /\ data'[n] = key'[n]
  BY <1>1 DEF EntriesOK
<1> QED BY <1>4, <1>5, <1>6 DEF EntriesOK, EntryTypes

LEMMA DroppedEntries ==
    ASSUME EntryTypes', Dropped
    PROVE  EntriesOK'
BY DEF EntriesOK, EntryTypes, Dropped

\* The end of an update: the writer is idle, or has a name to link to the entry
\* it got.
LEMMA ReturnOK ==
    ASSUME NEW e, Return(e), wthen \in KeyNames \cup {NoName},
           wthen # NoName /\ e # 0 => e \in Linked' /\ ~indirect'[e]
    PROVE  WriterOK' /\ wpc' \in {"idle", "resolve"}
BY DEF Return, Begin, WriterOK, Pending

\* A step of the writer that touches no entry.
LEMMA NoStore ==
    ASSUME UNCHANGED <<hash, tableVars>>, wpc \notin Pending, wpc' \notin Pending, EntriesOK
    PROVE  Kept /\ EntryTypes'
BY DEF Kept, SameEntries, Linked, Pending, EntriesOK, EntryTypes

\* Every step of the writer is one of the four kinds and keeps WriterOK.
LEMMA WriterSteps ==
    ASSUME NamesDisjoint, TableInv, ChainInv', Write
    PROVE  EntryTypes' /\ WriterOK' /\ (Kept \/ Added \/ Retargeted \/ Dropped)
<1>0. LookupOK
  BY LookupFacts DEF TableInv
<1>1. ASSUME NEW f \in FileNames, NEW k \in Names, k = f \/ k \in KeyNames, CacheScript(f, k)
      PROVE  WriterOK' /\ Kept /\ EntryTypes'
  <2>1. UNCHANGED <<hash, tableVars>> /\ wpc \notin Pending /\ wpc' = "search"
    BY <1>1 DEF CacheScript, Begin, Pending
  <2>2. /\ wk' = f /\ wind' = FALSE /\ wdata' = f
        /\ wthen' \in KeyNames \cup {NoName}
    BY <1>1 DEF CacheScript, Begin
  <2>3. WriterOK'
    BY <2>1, <2>2 DEF WriterOK, Pending
  <2> QED BY <2>1, <2>3, NoStore DEF TableInv, Pending
<1>2. ASSUME NEW k \in KeyNames, NEW f \in FileNames, AddKey(k, f)
      PROVE  WriterOK' /\ Kept /\ EntryTypes'
  <2>1. UNCHANGED <<hash, tableVars>> /\ wpc = "idle" /\ wpc' = "resolve"
        /\ FindEntry(f) # 0 /\ wk' = k /\ wind' = TRUE /\ wdata' = FindEntry(f)
        /\ wthen' = NoName
    BY <1>2 DEF AddKey, Begin
  <2>2. PICK e \in Linked : key[e] = f /\ EntryOf(f) = e
    <3>1. ~(\A e \in Linked : key[e] # f)
      <4>1. ASSUME \A e \in Linked : key[e] # f PROVE FALSE
        <5>1. EntryOf(f) = 0
          BY <4>1, <1>0 DEF LookupOK, Names
        <5> QED BY <5>1, <2>1 DEF FindEntry
      <4> QED BY <4>1
    <3> QED BY <3>1, <1>0 DEF LookupOK, Names
  <2>3. ~indirect[e] /\ FindEntry(f) = e
    BY <2>2 DEF TableInv, EntriesOK, NamesDisjoint, FindEntry
  <2>4. Linked' = Linked
    BY <2>1 DEF Linked
  <2>5. WriterOK'
    BY <2>1, <2>2, <2>3, <2>4 DEF WriterOK, Pending
  <2> QED BY <2>1, <2>5, NoStore DEF TableInv, Pending
<1>3. CASE Clean
  <2>1. Dropped /\ EntryTypes'
    BY <1>3 DEF Clean, Dropped, Linked, TableInv, EntriesOK, EntryTypes
  <2>2. WriterOK'
    BY <1>3 DEF Clean, WriterOK, TableInv, Pending
  <2> QED BY <2>1, <2>2
<1>4. CASE Resolve
  <2>1. /\ wpc = "resolve" /\ wpc' = "search" /\ UNCHANGED <<wdata, wk, wind, wthen>>
        /\ UNCHANGED <<hash, tableVars>>
    BY <1>4 DEF Resolve, TableInv, WriterOK
  <2>2. Linked' = Linked
    BY <2>1 DEF Linked
  <2>3. WriterOK'
    BY <2>1, <2>2 DEF WriterOK, TableInv, Pending
  <2> QED BY <2>1, <2>3, NoStore DEF TableInv, Pending
<1>5. CASE Search
  <2>1. wpc = "search" /\ UNCHANGED <<hash, tableVars>> /\ wk \in Names
    BY <1>5 DEF Search, TableInv, ChainInv
  <2>2. CASE Return(0)
    <3>1. WriterOK' /\ wpc' \in {"idle", "resolve"}
      BY <2>1, <2>2, ReturnOK DEF TableInv, WriterOK
    <3> QED BY <2>1, <3>1, NoStore DEF TableInv, Pending
  <2>3. CASE EntryOf(wk) # 0 /\ wpc' = "change" /\ we' = EntryOf(wk)
             /\ UNCHANGED <<wk, wind, wdata, wthen>>
    <3>1. EntryOf(wk) \in Linked /\ key[EntryOf(wk)] = wk
      BY <1>0, <2>1, <2>3 DEF LookupOK
    <3>2. Linked' = Linked
      BY <2>1, <2>3 DEF Linked
    <3>3. WriterOK'
      BY <2>1, <2>3, <3>1, <3>2 DEF WriterOK, TableInv, Pending
    <3> QED BY <2>1, <2>3, <3>3, NoStore DEF TableInv, Pending
  <2>4. CASE EntryOf(wk) = 0 /\ wpc' = "fill" /\ we' = num + 1
             /\ UNCHANGED <<wk, wind, wdata, wthen>>
    <3>1. \A e \in Linked : key[e] # wk
      BY <1>0, <2>1, <2>4, ArrayFacts DEF LookupOK, TableInv
    <3>2. Linked' = Linked
      BY <2>1, <2>4 DEF Linked
    <3>3. WriterOK'
      BY <2>1, <2>4, <3>1, <3>2 DEF WriterOK, TableInv, Pending
    <3> QED BY <2>1, <2>4, <3>3, NoStore DEF TableInv, Pending
  <2> QED BY <1>5, <2>2, <2>3, <2>4 DEF Search
<1>6. CASE Change
  <2>1. /\ wpc = "change" /\ we \in Linked /\ key[we] = wk /\ Return(we)
        /\ UNCHANGED <<hash, table, key, next, indirect, num>>
    BY <1>6 DEF Change, TableInv, WriterOK
  <2>2. indirect[we] = wind
    <3>1. we \in Entries /\ indirect[we] \in BOOLEAN /\ wind \in BOOLEAN
      BY <2>1, ArrayFacts DEF TableInv, WriterOK, EntriesOK
    <3>2. wind => wk \in KeyNames
      BY <2>1 DEF TableInv, WriterOK
    <3>3. ~wind => wk \in FileNames
      BY <2>1 DEF TableInv, WriterOK
    <3>4. indirect[we] => wk \in KeyNames
      BY <2>1 DEF TableInv, EntriesOK
    <3>5. ~indirect[we] => wk \in FileNames
      BY <2>1 DEF TableInv, EntriesOK
    <3>6. ~(wk \in KeyNames /\ wk \in FileNames)
      BY DEF NamesDisjoint
    <3>7. wind <=> indirect[we]
      BY <3>2, <3>3, <3>4, <3>5, <3>6
    <3> QED BY <3>1, <3>7
  <2>3. data' = [data EXCEPT ![we] = wdata]
    BY <1>6, <2>2 DEF Change
  <2>4. wpc' \in {"idle", "resolve"} /\ Linked' = Linked
    BY <2>1 DEF Linked, Return, Begin
  <2>5. WriterOK'
    BY <2>1, <2>2, <2>4, ReturnOK DEF TableInv, WriterOK
  <2>6. EntryTypes'
    <3>1. wdata \in FileNames \cup {NoName} \cup Entries
      BY <2>1, ArrayFacts DEF TableInv, WriterOK
    <3>2. data' \in [Entries -> FileNames \cup {NoName} \cup Entries]
      BY <2>3, <3>1 DEF TableInv, EntriesOK
    <3> QED BY <2>1, <3>2 DEF TableInv, EntriesOK, EntryTypes
  <2>7. CASE wind
    <3>1. wdata \in Linked /\ ~indirect[wdata]
      BY <2>1, <2>7 DEF TableInv, WriterOK
    <3>2. Retargeted
      BY <2>1, <2>2, <2>3, <2>4, <2>7, <3>1, Zenon DEF Retargeted
    <3> QED BY <2>5, <2>6, <3>2
  <2>8. CASE ~wind
    <3>1. data[we] = wdata
      BY <2>1, <2>2, <2>8 DEF TableInv, WriterOK, EntriesOK
    <3>2. data' = data
      BY <2>3, <3>1 DEF TableInv, EntriesOK
    <3>3. Kept
      BY <2>1, <2>4, <3>2 DEF Kept, SameEntries
    <3> QED BY <2>5, <2>6, <3>3
  <2> QED BY <2>5, <2>6, <2>7, <2>8
<1>7. CASE Redirect
  BY <1>7 DEF Redirect, TableInv, WriterOK, EntriesOK, NamesDisjoint
<1>8. CASE Redirected
  BY <1>8 DEF Redirected, TableInv, WriterOK
<1>9. CASE Fill
  <2>1. /\ wpc = "fill" /\ wpc' = "next" /\ we = num + 1 /\ num \in 0..(MaxEntries - 1)
        /\ num' = num + 1 /\ UNCHANGED <<hash, table, next, wk, wind, wdata, we, wthen>>
        /\ data' = [data EXCEPT ![we] = wdata]
        /\ indirect' = [indirect EXCEPT ![we] = wind]
        /\ key' = [key EXCEPT ![we] = wk]
    BY <1>9, AccelHashAssumption DEF Fill, TableInv, ChainInv
  <2>2. Linked = 1..num /\ Linked' = Linked /\ we \notin Linked /\ we \in Entries
    BY <2>1, AccelHashAssumption DEF Linked
  <2>3. EntryTypes'
    <3>1. wk \in Names /\ wind \in BOOLEAN /\ wdata \in FileNames \cup Entries
      BY <2>1, <2>2, ArrayFacts DEF TableInv, WriterOK, Names
    <3> QED BY <2>1, <3>1 DEF TableInv, EntriesOK, EntryTypes
  <2>4. \A e \in Linked : e # we /\ e \in Entries
    BY <2>2, ArrayFacts DEF TableInv
  <2>5. \A e \in Linked : /\ key'[e] = key[e] /\ indirect'[e] = indirect[e]
                          /\ data'[e] = data[e]
    BY <2>1, <2>4 DEF TableInv, EntriesOK
  <2>6. Kept
    BY <2>1, <2>2, <2>5 DEF Kept, SameEntries
  <2>7. key'[we] = wk /\ indirect'[we] = wind /\ data'[we] = wdata
    BY <2>1, <2>2 DEF TableInv, EntriesOK
  <2>8. WriterOK'
    BY <2>1, <2>2, <2>5, <2>7 DEF TableInv, WriterOK, Pending
  <2> QED BY <2>3, <2>6, <2>8
<1>10. CASE SetNext
  <2>1. /\ wpc = "next" /\ wpc' = "link" /\ next' = [next EXCEPT ![we] = table[hash[wk]]]
        /\ we \in Entries /\ we \notin Linked
        /\ UNCHANGED <<hash, table, key, data, indirect, num, wk, wind, wdata, we, wthen>>
    BY <1>10, AccelHashAssumption DEF SetNext, Head, TableInv, ChainInv, Linked, Pending
  <2>2. Linked' = Linked
    BY <2>1 DEF Linked
  <2>3. \A e \in Linked : next'[e] = next[e]
    BY <2>1, ArrayFacts DEF TableInv
  <2>4. next'[we] = table[hash[wk]]
    BY <2>1, ArrayFacts DEF TableInv
  <2>5. Kept /\ EntryTypes'
    BY <2>1, <2>2, <2>3 DEF Kept, SameEntries, TableInv, EntriesOK, EntryTypes
  <2>6. WriterOK'
    BY <2>1, <2>2, <2>4 DEF TableInv, WriterOK, Pending
  <2> QED BY <2>5, <2>6
<1>11. CASE Link
  <2>1. /\ wpc = "link" /\ we \in Entries /\ we \notin Linked /\ Return(we) /\ wk \in Names
        /\ table' = [table EXCEPT ![hash[wk]] = we]
        /\ UNCHANGED <<hash, key, next, data, indirect, num>>
    BY <1>11, AccelHashAssumption DEF Link, TableInv, ChainInv, Linked, Pending
  <2>2. wpc' \in {"idle", "resolve"}
    BY <2>1 DEF Return, Begin
  <2>3. Linked' = Linked \cup {we}
    BY <2>1, <2>2, AccelHashAssumption, SMTT(30) DEF Linked, TableInv, ChainInv, Pending
  <2>4. key[we] = wk /\ indirect[we] = wind /\ data[we] = wdata
        /\ next[we] = table[hash[wk]]
    BY <2>1 DEF TableInv, WriterOK, Pending
  <2>5. Added
    BY <2>1, <2>3, <2>4 DEF Added, TableInv, WriterOK
  <2>6. WriterOK'
    BY <2>1, <2>3, <2>4, ReturnOK DEF TableInv, WriterOK
  <2>7. EntryTypes'
    BY <2>1 DEF TableInv, EntriesOK, EntryTypes
  <2> QED BY <2>5, <2>6, <2>7
<1> QED BY <1>1, <1>2, <1>3, <1>4, <1>5, <1>6, <1>7, <1>8, <1>9, <1>10, <1>11 DEF Write

LEMMA LookupFactsPrime == (ChainInv /\ EntriesOK)' => LookupOK'
BY LookupFacts, PTL

\* The table's invariant holds initially and is preserved.
LEMMA InitTable == Init => TableInv
<1> SUFFICES ASSUME Init PROVE TableInv
  OBVIOUS
<1>1. ChainInv
  BY InitChain
<1>2. Linked = {}
  BY DEF Init, Linked
<1>3. EntriesOK
  BY <1>2 DEF Init, EntriesOK
<1>4. WriterOK
  BY <1>2 DEF Init, WriterOK, Pending
<1> QED BY <1>1, <1>3, <1>4 DEF TableInv

Unwritten == UNCHANGED <<hash, tableVars, writerVars>>

\* Lookups write nothing.
LEMMA FindUnwritten ==
    ASSUME NEW r \in Readers, Find(r) \/ \E k \in Names : FindStart(r, k)
    PROVE  Unwritten
BY DEF Find, FindStart, FindHead, FindNext, FindNone, FindFlag, FindData,
       FindBucket, FindDeref, FindReturn, Unwritten

LEMMA TableSteps ==
    ASSUME NamesDisjoint, TableInv, [Next]_vars
    PROVE  TableInv' /\ (Kept \/ Added \/ Retargeted \/ Dropped)
<1>0. ChainInv'
  BY NextChain DEF TableInv
<1>1. CASE Write
  <2>1. EntryTypes' /\ WriterOK' /\ (Kept \/ Added \/ Retargeted \/ Dropped)
    BY <1>0, <1>1, WriterSteps
  <2>2. EntriesOK'
    BY <1>0, <2>1, KeptEntries, AddedEntries, RetargetedEntries, DroppedEntries DEF TableInv
  <2> QED BY <1>0, <2>1, <2>2 DEF TableInv
<1>2. CASE Unwritten
  <2>1. Linked' = Linked
    BY <1>2 DEF Linked, Unwritten
  <2>2. Kept /\ EntryTypes'
    BY <1>2, <2>1 DEF Kept, SameEntries, Unwritten, EntryTypes, TableInv, EntriesOK
  <2>3. WriterOK'
    BY <1>2, <2>1 DEF WriterOK, TableInv, Unwritten
  <2>4. EntriesOK'
    BY <1>0, <2>2, KeptEntries DEF TableInv
  <2> QED BY <1>0, <2>2, <2>3, <2>4 DEF TableInv
<1>3. CASE UNCHANGED vars
  BY <1>2, <1>3 DEF vars, Unwritten
<1> QED BY <1>1, <1>2, <1>3, FindUnwritten DEF Next

-----------------------------------------------------------------------------
(* The counters *)

\* the entries in use that hold a script
Direct == {e \in 1..num : ~indirect[e]}

\* Between its two stores Redirect has counted an entry off that is still direct.
CountInv ==
    /\ ChainInv
    /\ indirect \in [Entries -> BOOLEAN] /\ wind \in BOOLEAN
    /\ wpc \in {"change", "redirect"} => we \in 1..num
    /\ wpc = "redirect" => ~indirect[we]
    /\ numDirect = Cardinality(Direct) - (IF wpc = "redirect" THEN 1 ELSE 0)

\* An undisturbed search finds a linked entry or none, whatever names the table
\* holds.
LEMMA EntryOfLinked ==
    ASSUME ChainInv, NEW k \in Names
    PROVE  EntryOf(k) \in Linked \cup {0}
<1>1. table[hash[k]] \in Linked \cup {0}
  BY DEF ChainInv, ChainsDescend
<1>2. Chain(hash[k]) \subseteq Linked
  BY <1>1, ChainLinked DEF Chain
<1> QED BY <1>2 DEF EntryOf

\* There are no more direct entries than entries.
LEMMA DirectFinite ==
    ASSUME num \in Nat
    PROVE  /\ IsFiniteSet(Direct)
           /\ Cardinality(Direct) \in 0..num
<1>1. IsFiniteSet(1..num) /\ Cardinality(1..num) = num
  BY FS_Interval
<1>2. Direct \in SUBSET (1..num)
  BY DEF Direct
<1>3. IsFiniteSet(Direct) /\ Cardinality(Direct) <= Cardinality(1..num)
  BY <1>1, <1>2, FS_Subset, Zenon
<1>4. Cardinality(Direct) \in Nat
  BY <1>3, FS_CardinalityType
<1> QED BY <1>1, <1>3, <1>4

LEMMA InitCount == Init => CountInv
<1> SUFFICES ASSUME Init PROVE CountInv
  OBVIOUS
<1>1. Direct = {} /\ numDirect = 0 /\ wpc = "idle"
  BY DEF Init, Direct
<1>2. Cardinality(Direct) = 0
  BY <1>1, FS_EmptySet
<1>3. /\ indirect \in [Entries -> BOOLEAN] /\ wind \in BOOLEAN
  BY DEF Init
<1> QED BY <1>1, <1>2, <1>3, InitChain DEF CountInv

\* A step that neither adds entries nor changes their kind keeps the count.
LEMMA UncountedStep ==
    ASSUME CountInv, ChainInv', UNCHANGED <<num, indirect, numDirect>>,
           wpc # "redirect", wpc' # "redirect", wind' \in BOOLEAN,
           wpc' = "change" => we' \in 1..num
    PROVE  CountInv'
<1>1. Direct' = Direct
  BY DEF Direct
<1> QED BY <1>1 DEF CountInv

\* Every step keeps the count.
LEMMA NextCount == CountInv /\ [Next]_vars => CountInv'
<1> SUFFICES ASSUME CountInv, [Next]_vars PROVE CountInv'
  OBVIOUS
<1>0. ChainInv' /\ num \in Nat /\ IsFiniteSet(Direct) /\ Cardinality(Direct) \in Nat
  <2>1. ChainInv
    BY DEF CountInv
  <2>2. ChainInv'
    BY <2>1, NextChain
  <2>3. num \in Nat
    BY <2>1, AccelHashAssumption DEF ChainInv
  <2> QED BY <2>2, <2>3, DirectFinite
<1>a. ASSUME NEW e, Return(e) PROVE wpc' \in {"idle", "resolve"} /\ wind' \in BOOLEAN
  BY <1>a DEF Return, Begin
<1>1. CASE \E f \in FileNames, k \in Names : CacheScript(f, k)
  BY <1>0, <1>1, UncountedStep DEF CacheScript, Begin
<1>2. CASE \E k \in KeyNames, f \in FileNames : AddKey(k, f)
  BY <1>0, <1>2, UncountedStep DEF AddKey, Begin
<1>3. CASE Clean
  <2>1. Direct' = {} /\ numDirect' = 0 /\ wpc' = "idle" /\ UNCHANGED <<indirect, wind>>
    BY <1>3 DEF Clean, Direct
  <2>2. Cardinality(Direct') = 0
    BY <2>1, FS_EmptySet
  <2> QED BY <1>0, <2>1, <2>2 DEF CountInv
<1>4. CASE Resolve
  <2>1. wpc = "resolve" /\ wpc' \in {"resolve", "search"}
        /\ UNCHANGED <<num, indirect, numDirect, wind>>
    BY <1>4 DEF Resolve
  <2> QED BY <1>0, <2>1, UncountedStep DEF CountInv
<1>5. CASE Search
  <2>1. wpc = "search" /\ UNCHANGED <<num, indirect, numDirect>>
    BY <1>5 DEF Search
  <2>2. wk \in Names
    BY <2>1 DEF CountInv, ChainInv
  <2>3. EntryOf(wk) \in Linked \cup {0}
    BY <2>2, EntryOfLinked DEF CountInv
  <2>4. CASE Return(0)
    BY <1>0, <1>a, <2>1, <2>4, UncountedStep
  <2>5. CASE EntryOf(wk) # 0 /\ wpc' = "change" /\ we' = EntryOf(wk) /\ UNCHANGED wind
    BY <1>0, <2>1, <2>3, <2>5, UncountedStep DEF CountInv, Linked
  <2>6. CASE wpc' = "fill" /\ UNCHANGED wind
    BY <1>0, <2>1, <2>6, UncountedStep DEF CountInv
  <2> QED BY <1>5, <2>4, <2>5, <2>6 DEF Search
<1>6. CASE Change
  BY <1>0, <1>6, <1>a, UncountedStep DEF Change
<1>7. CASE Redirect
  <2>1. /\ wpc = "change" /\ wpc' = "redirect" /\ ~indirect[we]
        /\ numDirect' = numDirect - 1 /\ UNCHANGED <<num, indirect, wind, we>>
    BY <1>7 DEF Redirect
  <2>2. Direct' = Direct
    BY <2>1 DEF Direct
  <2> QED BY <1>0, <2>1, <2>2 DEF CountInv
<1>8. CASE Redirected
  <2>1. /\ wpc = "redirect" /\ indirect' = [indirect EXCEPT ![we] = TRUE]
        /\ UNCHANGED <<num, numDirect>> /\ Return(we)
    BY <1>8 DEF Redirected
  <2>2. we \in Direct /\ Direct' = Direct \ {we}
    BY <2>1, AccelHashAssumption DEF CountInv, ChainInv, Direct
  <2>3. Cardinality(Direct \ {we}) =
           IF we \in Direct THEN Cardinality(Direct) - 1 ELSE Cardinality(Direct)
    BY <1>0, FS_RemoveElement, Zenon
  <2>4. Cardinality(Direct') = Cardinality(Direct) - 1
    BY <2>2, <2>3
  <2>5. indirect' \in [Entries -> BOOLEAN]
    BY <2>1 DEF CountInv
  <2> QED BY <1>0, <1>a, <2>1, <2>4, <2>5 DEF CountInv
<1>9. CASE Fill
  <2>1. /\ wpc = "fill" /\ wpc' = "next" /\ num' = num + 1 /\ we = num + 1
        /\ we \in Entries /\ numDirect' = (IF wind THEN numDirect ELSE numDirect + 1)
        /\ indirect' = [indirect EXCEPT ![we] = wind] /\ UNCHANGED wind
    BY <1>9, AccelHashAssumption DEF Fill, Counted, CountInv, ChainInv
  <2>2. indirect' \in [Entries -> BOOLEAN]
    BY <2>1 DEF CountInv
  <2>a. /\ 1..num' = (1..num) \cup {we} /\ we \notin 1..num
        /\ \A e \in 1..num : indirect'[e] = indirect[e]
        /\ indirect'[we] = wind
    <3>0. num \in 0..MaxEntries /\ MaxEntries \in Nat /\ indirect \in [Entries -> BOOLEAN]
      BY AccelHashAssumption DEF CountInv, ChainInv
    <3>1. we \notin 1..num /\ 1..num \subseteq Entries
      BY <2>1, <3>0
    <3>2. 1..num' = (1..num) \cup {we}
      BY <1>0, <2>1
    <3>3. \A e \in Entries : indirect'[e] = IF e = we THEN wind ELSE indirect[e]
      BY <2>1, <3>0
    <3> QED BY <2>1, <3>1, <3>2, <3>3
  <2>3. CASE wind
    <3>1. Direct' = Direct
      BY <2>a, <2>3 DEF Direct
    <3> QED BY <1>0, <2>1, <2>2, <2>3, <3>1 DEF CountInv
  <2>4. CASE ~wind
    <3>1. we \notin Direct /\ Direct' = Direct \cup {we}
      BY <2>a, <2>4 DEF Direct
    <3>2. Cardinality(Direct \cup {we}) =
             IF we \in Direct THEN Cardinality(Direct) ELSE Cardinality(Direct) + 1
      BY <1>0, FS_AddElement, Zenon
    <3>3. Cardinality(Direct') = Cardinality(Direct) + 1
      BY <3>1, <3>2
    <3> QED BY <1>0, <2>1, <2>2, <2>4, <3>3 DEF CountInv
  <2> QED BY <2>3, <2>4
<1>10. CASE SetNext
  <2>1. wpc = "next" /\ wpc' = "link" /\ UNCHANGED <<num, indirect, numDirect, wind>>
    BY <1>10 DEF SetNext
  <2> QED BY <1>0, <2>1, UncountedStep DEF CountInv
<1>11. CASE Link
  BY <1>0, <1>11, <1>a, UncountedStep DEF Link
<1>12. CASE Unwritten
  <2>1. Direct' = Direct
    BY <1>12 DEF Unwritten, Direct
  <2> QED BY <1>0, <1>12, <2>1 DEF CountInv, Unwritten
<1>13. CASE UNCHANGED vars
  BY <1>12, <1>13 DEF vars, Unwritten
<1> QED BY <1>1, <1>2, <1>3, <1>4, <1>5, <1>6, <1>7, <1>8, <1>9, <1>10, <1>11, <1>12,
           <1>13, FindUnwritten DEF Next, Write

\* num_direct_entries is the number of entries that hold a script whenever no
\* entry is half redirected (zend_accel_hash_update), whatever names the table
\* holds and however full it is.
THEOREM DirectEntriesCounted == Spec => []CountsExact
<1>1. CountInv => CountsExact
  <2> SUFFICES ASSUME CountInv, wpc # "redirect"
               PROVE  numDirect = Cardinality(Direct)
    BY DEF CountsExact, Direct
  <2>1. Cardinality(Direct) \in Nat
    BY DirectFinite DEF CountInv, ChainInv
  <2> QED BY <2>1 DEF CountInv
<1> QED BY <1>1, InitCount, NextCount, PTL DEF Spec

-----------------------------------------------------------------------------
(* Lookups without a lock *)

ReaderPoints == {"idle", "head", "walk", "data", "bucket", "deref", "done"}

ReaderTypes ==
    /\ rpc \in [Readers -> ReaderPoints] /\ rk \in [Readers -> Names \cup {NoName}]
    /\ re \in [Readers -> 0..MaxEntries] /\ rb \in [Readers -> FileNames \cup {NoName} \cup 0..MaxEntries]
    /\ DOMAIN result = Readers
    /\ \A r \in Readers : rpc[r] \in {"data", "bucket"} => re[r] # 0

\* The table can be emptied under a lookup only after its first load.
TornTypes ==
    /\ torn \in [Readers -> BOOLEAN]
    /\ \A r \in Readers : torn[r] => rpc[r] \in Loading \cup {"done"}

\* A lookup has yet to pass the entry of its name, unless the name led nowhere
\* at some time since it began; what it holds on to is what the name led to.
Follows(r) ==
    /\ rpc[r] # "idle" => rk[r] \in Names /\ Lookup(rk[r]) \in seen[r]
    /\ rpc[r] = "walk" =>
          /\ re[r] \in Linked \cup {0}
          /\ NoName \in seen[r] \/ EntryOf(rk[r]) \in Reach(next, re[r])
    /\ rpc[r] \in {"data", "bucket"} =>
          /\ re[r] \in Linked /\ key[re[r]] = rk[r]
          /\ indirect[re[r]] <=> rpc[r] = "bucket"
    /\ rpc[r] = "deref" => rb[r] \in Linked /\ ~indirect[rb[r]] /\ key[rb[r]] \in seen[r]
    /\ rpc[r] = "done" => result[r] \in seen[r]

\* ... unless the table was emptied under it.
ReaderOK(r) == torn[r] \/ Follows(r)

FindInv == TableInv /\ ReaderTypes /\ TornTypes /\ \A r \in Readers : ReaderOK(r)

\* entries are added or change what they lead to
Grown == hash' = hash /\ Linked \subseteq Linked' /\ SameEntries

LEMMA KindsGrown == Kept \/ Added \/ Retargeted => Grown
BY DEF Kept, Added, Retargeted, Grown, SameEntries

LEMMA EntryStays ==
    ASSUME Grown, LookupOK, LookupOK', 0 \notin Linked, NEW n \in Names, EntryOf(n) # 0
    PROVE  /\ EntryOf(n) \in Linked /\ key[EntryOf(n)] = n
           /\ EntryOf(n)' = EntryOf(n)
<1>1. PICK e \in Linked : key[e] = n
  BY DEF LookupOK
<1>2. e \in Linked' /\ key'[e] = n
  BY <1>1 DEF Grown, SameEntries
<1> QED BY <1>1, <1>2 DEF LookupOK

\* A lookup that does not move keeps its invariant while the table grows.
LEMMA ReaderWaits ==
    ASSUME TableInv, TableInv', Grown, NEW r \in Readers, Follows(r),
           rpc'[r] = rpc[r], rk'[r] = rk[r], re'[r] = re[r], rb'[r] = rb[r],
           result'[r] = result[r],
           rpc[r] # "idle" => seen'[r] = seen[r] \cup {Lookup(rk[r])'}
    PROVE  Follows(r)'
<1>0. LookupOK /\ LookupOK' /\ 0 \notin Linked
  BY LookupFacts, LookupFactsPrime, ArrayFacts DEF TableInv
<1>1. CASE rpc[r] = "idle"
  BY <1>1 DEF Follows
<1>2. CASE rpc[r] # "idle"
  <2>1. rk'[r] \in Names /\ Lookup(rk[r])' \in seen'[r] /\ seen[r] \subseteq seen'[r]
    BY <1>2 DEF Follows
  <2>2. CASE rpc[r] = "walk"
    <3>1. re[r] \in Linked \cup {0} /\ rk[r] \in Names /\ Lookup(rk[r]) \in seen[r]
      BY <2>2 DEF Follows
    <3>2. Reach(next', re[r]) = Reach(next, re[r]) /\ Reach(next, re[r]) \subseteq Linked
      BY <3>1, ReachKept, ChainLinked DEF TableInv, Grown
    <3>3. CASE NoName \in seen[r]
      BY <2>1, <2>2, <3>1, <3>3 DEF Follows, Grown
    <3>4. CASE EntryOf(rk[r]) \in Reach(next, re[r])
      <4>1. EntryOf(rk[r]) # 0
        BY <1>0, <3>2, <3>4
      <4>2. EntryOf(rk[r])' = EntryOf(rk[r])
        BY <1>0, <3>1, <4>1, EntryStays
      <4> QED BY <2>1, <2>2, <3>1, <3>2, <3>4, <4>2 DEF Follows, Grown
    <3> QED BY <2>2, <3>3, <3>4 DEF Follows
  <2>3. CASE rpc[r] # "walk"
    BY <2>1, <2>3 DEF Follows, Grown, SameEntries
  <2> QED BY <2>2, <2>3
<1> QED BY <1>1, <1>2

\* A step of a lookup keeps its invariant.
LEMMA ReaderMoves ==
    ASSUME FindInv, TableInv', NEW r \in Readers, ReaderTypes', Follows(r),
           Find(r) \/ \E k \in Names : FindStart(r, k),
           seen'[r] = IF rpc'[r] = "idle" THEN {} ELSE seen[r] \cup {Lookup(rk[r])'}
    PROVE  Follows(r)'
<1>0. /\ LookupOK /\ 0 \notin Entries /\ Linked \subseteq Entries /\ Unwritten
      /\ next \in [Entries -> Entries \cup {0}]
  BY LookupFacts, ArrayFacts, FindUnwritten DEF FindInv, TableInv
<1>14. EntriesOK /\ ChainInv
  BY DEF FindInv, TableInv
<1>1. \A n \in Names : Lookup(n)' = Lookup(n) /\ EntryOf(n)' = EntryOf(n)
  <2>1. UNCHANGED <<hash, table, key, data, indirect, next>>
    BY <1>0 DEF Unwritten
  <2>2. ASSUME NEW n \in Names PROVE EntryOf(n)' = EntryOf(n)
    <3>1. Chain(hash[n])' = Chain(hash[n])
      BY <2>1 DEF Chain
    <3> QED BY <2>1, <3>1 DEF EntryOf
  <2> QED BY <2>1, <2>2 DEF Lookup
<1>2. Linked' = Linked /\ UNCHANGED <<hash, table, key, data, indirect, next>>
  BY <1>0 DEF Linked, Unwritten
<1>3. Follows(r) /\ ReaderTypes
  BY DEF FindInv
<1>4. ASSUME rpc[r] # "idle", rk' = rk, rpc'[r] # "idle"
      PROVE  /\ rk[r] \in Names /\ Lookup(rk[r])' = Lookup(rk[r])
             /\ seen'[r] = seen[r] /\ Lookup(rk[r]) \in seen[r]
  <2>1. rk[r] \in Names /\ Lookup(rk[r]) \in seen[r]
    BY <1>3, <1>4 DEF Follows
  <2>2. Lookup(rk[r])' = Lookup(rk[r])
    BY <1>1, <1>4, <2>1
  <2> QED BY <1>4, <2>1, <2>2
<1>5. ASSUME NEW k \in Names, FindStart(r, k) PROVE Follows(r)'
  <2>1. rpc'[r] = "head" /\ rk'[r] = k
    BY <1>3, <1>5 DEF FindStart, ToR, ReaderTypes
  <2> QED BY <2>1 DEF Follows
<1>6. CASE FindHead(r)
  <2>1. /\ rpc[r] = "head" /\ rpc'[r] = "walk" /\ rk' = rk
        /\ re'[r] = table[hash[rk[r]]]
    BY <1>3, <1>6 DEF FindHead, ToR, ReaderTypes
  <2>2. /\ rk[r] \in Names /\ Lookup(rk[r])' = Lookup(rk[r])
        /\ seen'[r] = seen[r] /\ Lookup(rk[r]) \in seen[r]
    BY <1>4, <2>1
  <2>3. re'[r] \in Linked \cup {0}
    BY <2>1, <2>2, ArrayFacts DEF FindInv, TableInv, ChainInv
  <2>4. NoName \in seen'[r] \/ EntryOf(rk[r]) \in Reach(next, re'[r])
    <3>1. CASE \A e \in Linked : key[e] # rk[r]
      BY <1>0, <2>2, <3>1 DEF LookupOK
    <3>2. ASSUME NEW e \in Linked, key[e] = rk[r]
          PROVE  EntryOf(rk[r]) \in Reach(next, re'[r])
      <4>1. EntryOf(rk[r]) = e /\ e \in Chain(hash[rk[r]])
        BY <1>0, <2>2, <3>2 DEF LookupOK, FindInv, TableInv, EntriesOK
      <4> QED BY <2>1, <4>1 DEF Chain
    <3> QED BY <3>1, <3>2
  <2>5. EntryOf(rk[r])' = EntryOf(rk[r])
    BY <1>1, <2>1, <2>2
  <2> QED BY <1>2, <2>1, <2>2, <2>3, <2>4, <2>5 DEF Follows
<1>7. CASE FindNext(r)
  <2>1. /\ rpc[r] = "walk" /\ rpc'[r] = "walk" /\ rk' = rk /\ re[r] # 0
        /\ key[re[r]] # rk[r] /\ re'[r] = next[re[r]]
    <3>1. rpc[r] = "walk" /\ re[r] # 0
      BY <1>7 DEF FindNext
    <3>2. re[r] \in 1..num /\ num \in Nat
      BY <1>3, <1>14, <3>1, AccelHashAssumption DEF Follows, Linked, ChainInv
    <3>3. ~Stale(re[r])
      BY <3>2 DEF Stale
    <3> QED BY <1>3, <1>7, <3>3 DEF FindNext, Matches, ReaderTypes
  <2>2. /\ rk[r] \in Names /\ Lookup(rk[r])' = Lookup(rk[r])
        /\ seen'[r] = seen[r] /\ Lookup(rk[r]) \in seen[r]
    BY <1>4, <2>1
  <2>3. /\ re[r] \in Linked /\ re[r] \in Entries
        /\ NoName \in seen[r] \/ EntryOf(rk[r]) \in Reach(next, re[r])
    BY <1>0, <1>3, <2>1 DEF Follows
  <2>4. next[re[r]] \in Linked \cup {0}
    BY <1>14, <2>3 DEF ChainInv, ChainsDescend
  <2>5. Reach(next, re[r]) = {re[r]} \cup Reach(next, next[re[r]])
    <3>1. ASSUME NEW e \in Entries PROVE Reach(next, e) = {e} \cup Reach(next, next[e])
      <4> HIDE DEF Entries
      <4> QED BY <1>0, ReachUnfold
    <3> QED BY <2>3, <3>1
  <2>6. NoName \in seen[r] \/ EntryOf(rk[r]) \in Reach(next, next[re[r]])
    <3>1. CASE EntryOf(rk[r]) = re[r]
      <4>1. (\A e \in Linked : key[e] # rk[r])
        BY <1>0, <2>1, <2>2, <2>3, <3>1 DEF LookupOK
      <4> QED BY <1>0, <2>2, <4>1 DEF LookupOK
    <3> QED BY <2>3, <2>5, <3>1
  <2>7. EntryOf(rk[r])' = EntryOf(rk[r])
    BY <1>1, <2>1, <2>2
  <2> QED BY <1>2, <2>1, <2>2, <2>4, <2>6, <2>7 DEF Follows
<1>8. CASE FindNone(r)
  <2>1. /\ rpc[r] = "walk" /\ rpc'[r] = "done" /\ rk' = rk /\ re[r] = 0
        /\ result'[r] = NoName
    BY <1>3, <1>8 DEF FindNone, ToR, ReaderTypes
  <2>2. /\ rk[r] \in Names /\ Lookup(rk[r])' = Lookup(rk[r])
        /\ seen'[r] = seen[r] /\ Lookup(rk[r]) \in seen[r]
    BY <1>4, <2>1
  <2>3. Reach(next, 0) = {}
    <3> HIDE DEF Entries
    <3> QED BY <1>0, ReachNull
  <2>4. NoName \in seen[r]
    BY <1>3, <2>1, <2>3 DEF Follows
  <2> QED BY <2>1, <2>2, <2>4 DEF Follows
<1>9. CASE FindFlag(r)
  <2>1. /\ rpc[r] = "walk" /\ rk' = rk /\ re' = re /\ re[r] # 0 /\ key[re[r]] = rk[r]
        /\ rpc'[r] = IF indirect[re[r]] THEN "bucket" ELSE "data"
    BY <1>3, <1>9 DEF FindFlag, ToR, Matches, ReaderTypes
  <2>2. /\ rk[r] \in Names /\ Lookup(rk[r])' = Lookup(rk[r])
        /\ seen'[r] = seen[r] /\ Lookup(rk[r]) \in seen[r]
    BY <1>4, <2>1
  <2>3. re[r] \in Linked
    BY <1>3, <2>1 DEF Follows
  <2> QED BY <1>2, <2>1, <2>2, <2>3 DEF Follows
<1>10. CASE FindData(r)
  <2>1. /\ rpc[r] = "data" /\ rpc'[r] = "done" /\ rk' = rk /\ result'[r] = data[re[r]]
    BY <1>3, <1>10 DEF FindData, ToR, ReaderTypes
  <2>2. /\ rk[r] \in Names /\ Lookup(rk[r])' = Lookup(rk[r])
        /\ seen'[r] = seen[r] /\ Lookup(rk[r]) \in seen[r]
    BY <1>4, <2>1
  <2>3. re[r] \in Linked /\ key[re[r]] = rk[r] /\ ~indirect[re[r]]
    BY <1>3, <2>1 DEF Follows
  <2>4. data[re[r]] = Lookup(rk[r])
    <3>1. Lookup(rk[r]) = Target(re[r])
      BY <1>0, <2>2, <2>3 DEF LookupOK
    <3> QED BY <1>14, <2>3, <3>1 DEF Target, EntriesOK
  <2> QED BY <2>1, <2>2, <2>4 DEF Follows
<1>11. CASE FindBucket(r)
  <2>1. /\ rpc[r] = "bucket" /\ rpc'[r] = "deref" /\ rk' = rk /\ rb'[r] = data[re[r]]
    BY <1>3, <1>11 DEF FindBucket, ToR, ReaderTypes
  <2>2. /\ rk[r] \in Names /\ Lookup(rk[r])' = Lookup(rk[r])
        /\ seen'[r] = seen[r] /\ Lookup(rk[r]) \in seen[r]
    BY <1>4, <2>1
  <2>3. re[r] \in Linked /\ key[re[r]] = rk[r] /\ indirect[re[r]]
    BY <1>3, <2>1 DEF Follows
  <2>4. data[re[r]] \in Linked /\ ~indirect[data[re[r]]] /\ key[data[re[r]]] = Lookup(rk[r])
    <3>1. Lookup(rk[r]) = Target(re[r])
      BY <1>0, <2>2, <2>3 DEF LookupOK
    <3> QED BY <1>14, <2>3, <3>1 DEF Target, EntriesOK
  <2> QED BY <1>2, <2>1, <2>2, <2>4 DEF Follows
<1>12. CASE FindDeref(r)
  <2>1. /\ rpc[r] = "deref" /\ rpc'[r] = "done" /\ rk' = rk /\ result'[r] = data[rb[r]]
    <3>1. rpc[r] = "deref"
      BY <1>12 DEF FindDeref
    <3>2. rb[r] \in Entries
      BY <1>0, <1>3, <3>1 DEF Follows
    <3> QED BY <1>3, <1>12, <3>2 DEF FindDeref, ToR, ReaderTypes
  <2>2. /\ rk[r] \in Names /\ Lookup(rk[r])' = Lookup(rk[r])
        /\ seen'[r] = seen[r] /\ Lookup(rk[r]) \in seen[r]
    BY <1>4, <2>1
  <2>3. rb[r] \in Linked /\ ~indirect[rb[r]] /\ key[rb[r]] \in seen[r]
    BY <1>3, <2>1 DEF Follows
  <2>4. data[rb[r]] = key[rb[r]]
    BY <2>3 DEF FindInv, TableInv, EntriesOK
  <2> QED BY <2>1, <2>2, <2>3, <2>4 DEF Follows
<1>13. CASE FindReturn(r)
  <2>1. rpc'[r] = "idle"
    BY <1>3, <1>13 DEF FindReturn, ToR, ReaderTypes
  <2> QED BY <2>1 DEF Follows
<1> QED BY <1>5, <1>6, <1>7, <1>8, <1>9, <1>10, <1>11, <1>12, <1>13 DEF Find

\* Lookups keep their types, and move one at a time.
LEMMA ReaderSteps ==
    ASSUME FindInv, NEW r \in Readers, Find(r) \/ \E k \in Names : FindStart(r, k)
    PROVE  /\ ReaderTypes'
           /\ \A q \in Readers \ {r} :
                 /\ rpc'[q] = rpc[q] /\ rk'[q] = rk[q] /\ re'[q] = re[q] /\ rb'[q] = rb[q]
                 /\ result'[q] = result[q]
<1> USE AccelHashAssumption DEF FindInv, ReaderTypes, ReaderPoints, ToR
<1>1. ASSUME NEW k \in Names, FindStart(r, k) PROVE ReaderTypes'
  BY <1>1 DEF FindStart
<1>2. CASE FindHead(r)
  <2>1. table[hash[rk[r]]] \in 0..MaxEntries
    BY <1>2 DEF FindHead, TornTypes, Loading, ReaderOK, Follows, TableInv, ChainInv
  <2> QED BY <1>2, <2>1 DEF FindHead
<1>3. CASE FindNext(r)
  <2>1. next[re[r]] \in 0..MaxEntries
    BY <1>3 DEF FindNext, TableInv, ChainInv
  <2> QED BY <1>3, <2>1 DEF FindNext
<1>4. CASE FindNone(r) \/ FindFlag(r) \/ FindData(r) \/ FindDeref(r)
  BY <1>4 DEF FindNone, FindFlag, FindData, FindDeref
<1>5. CASE FindBucket(r)
  <2>1. data[re[r]] \in FileNames \cup {NoName} \cup 0..MaxEntries
    BY <1>5 DEF FindBucket, TableInv, EntriesOK
  <2> QED BY <1>5, <2>1 DEF FindBucket
<1>6. CASE FindReturn(r)
  BY <1>6 DEF FindReturn
<1>7. \A q \in Readers \ {r} :
                 /\ rpc'[q] = rpc[q] /\ rk'[q] = rk[q] /\ re'[q] = re[q] /\ rb'[q] = rb[q]
                 /\ result'[q] = result[q]
  BY DEF Find, FindStart, FindHead, FindNext, FindNone, FindFlag, FindData, FindBucket,
         FindDeref, FindReturn
<1>8. ReaderTypes'
  BY <1>1, <1>2, <1>3, <1>4, <1>5, <1>6 DEF Find
<1> QED BY <1>7, <1>8

LEMMA InitFind == Init => FindInv
<1> SUFFICES ASSUME Init PROVE FindInv
  OBVIOUS
<1>1. ReaderTypes
  BY AccelHashAssumption DEF Init, ReaderTypes, ReaderPoints
<1>2. TornTypes /\ \A r \in Readers : ReaderOK(r)
  BY DEF Init, TornTypes, ReaderOK, Follows
<1> QED BY <1>1, <1>2, InitTable DEF FindInv

\* A lookup has nothing to lose before its first load, and none goes back there
\* but by ending.
LEMMA TornSteps ==
    ASSUME FindInv, [Next]_vars
    PROVE  TornTypes'
<1> USE DEF TornTypes, Loading
<1>1. CASE UNCHANGED vars
  BY <1>1 DEF FindInv, vars
<1>2. CASE Next
  <2>1. torn' = [r \in Readers |->
           rpc'[r] # "idle" /\ (torn[r] \/ (rpc[r] \in Loading /\ num' < num))]
    BY <1>2 DEF Next, Observe
  <2>2. ASSUME NEW r \in Readers, torn'[r] PROVE rpc'[r] \in Loading \cup {"done"}
    <3>1. rpc'[r] # "idle" /\ rpc[r] \in Loading \cup {"done"}
      BY <2>1, <2>2 DEF FindInv
    <3>2. CASE rpc'[r] = rpc[r]
      BY <3>1, <3>2
    <3>3. CASE Find(r)
      BY <3>1, <3>3 DEF Find, FindHead, FindNext, FindNone, FindFlag, FindData, FindBucket,
                        FindDeref, FindReturn, ToR, FindInv, ReaderTypes
    <3>4. CASE \E k \in Names : FindStart(r, k)
      BY <3>1, <3>4 DEF FindStart
    <3>5. ASSUME NEW q \in Readers \ {r}, Find(q) \/ \E k \in Names : FindStart(q, k)
          PROVE  rpc'[r] = rpc[r]
      BY <3>5, ReaderSteps
    <3>6. CASE Write
      BY <3>2, <3>6 DEF Write, CacheScript, AddKey, Clean, Resolve, Search, Change, Redirect,
                        Redirected, Fill, SetNext, Link
    <3> QED BY <1>2, <3>2, <3>3, <3>4, <3>5, <3>6 DEF Next
  <2> QED BY <2>1, <2>2
<1> QED BY <1>1, <1>2

\* A lookup whose table is emptied is torn, unless it has made no load yet or all
\* of them, or there was nothing to drop.
LEMMA ReaderEmptied ==
    ASSUME FindInv, TableInv', Dropped, NEW r \in Readers, Follows(r), ~torn'[r],
           UNCHANGED readerVars, Observe
    PROVE  Follows(r)'
<1>0. LookupOK' /\ Linked' = {} /\ num' = 0 /\ num \in Nat
  BY LookupFactsPrime DEF TableInv, Dropped, FindInv, ChainInv
<1>1. CASE rpc[r] = "idle"
  BY <1>1 DEF Follows
<1>2. CASE rpc[r] # "idle"
  <2>1. rk[r] \in Names /\ rk' = rk /\ rpc' = rpc /\ re' = re /\ result' = result
    BY <1>2 DEF Follows
  <2>2. Lookup(rk[r])' = NoName
    BY <1>0, <2>1 DEF LookupOK
  <2>3. seen'[r] = seen[r] \cup {NoName}
    BY <1>2, <2>1, <2>2 DEF Observe
  <2>4. ASSUME rpc[r] \in Loading PROVE num = 0 /\ Linked = {}
    <3>1. torn'[r] = (rpc'[r] # "idle" /\ (torn[r] \/ (rpc[r] \in Loading /\ num' < num)))
      BY DEF Observe
    <3>2. ~(num' < num)
      BY <1>2, <2>1, <2>4, <3>1
    <3>3. num = 0
      BY <1>0, <3>2
    <3> QED BY <3>3 DEF Dropped
  <2> QED BY <2>1, <2>2, <2>3, <2>4 DEF Follows, Loading
<1> QED BY <1>1, <1>2

\* Every step preserves the invariant of the table and its lookups.
LEMMA NextFind ==
    ASSUME NamesDisjoint, FindInv, [Next]_vars
    PROVE  FindInv'
<1>1. TableInv' /\ (Grown \/ Dropped) /\ TornTypes'
  BY TableSteps, KindsGrown, TornSteps DEF FindInv
<1>2. CASE UNCHANGED vars
  <2>1. Unwritten /\ UNCHANGED <<readerVars, seen, torn>>
    BY <1>2 DEF vars, Unwritten
  <2>2. \A r \in Readers : ReaderOK(r)'
    BY <2>1 DEF FindInv, ReaderOK, Follows, Unwritten, Lookup, EntryOf, Chain, Linked
  <2> QED BY <1>1, <2>1, <2>2 DEF FindInv, ReaderTypes
<1>3. ASSUME NEW r \in Readers, Observe, ~torn'[r], rpc'[r] # "idle"
      PROVE  ~torn[r] /\ seen'[r] = seen[r] \cup {Lookup(rk[r])'}
  BY <1>3 DEF Observe
<1>4. CASE Write /\ Observe
  <2>1. UNCHANGED readerVars
    BY <1>4 DEF Write, CacheScript, AddKey, Clean, Resolve, Search, Change, Redirect,
                Redirected, Fill, SetNext, Link
  <2>2. ASSUME NEW r \in Readers, ~torn'[r] PROVE Follows(r)'
    <3>1. CASE rpc[r] = "idle"
      BY <2>1, <3>1 DEF Follows
    <3>2. CASE rpc[r] # "idle"
      <4>1. Follows(r) /\ seen'[r] = seen[r] \cup {Lookup(rk[r])'}
        BY <1>3, <1>4, <2>1, <2>2, <3>2 DEF FindInv, ReaderOK
      <4>2. CASE Grown
        BY <1>1, <2>1, <4>1, <4>2, ReaderWaits DEF FindInv
      <4>3. CASE Dropped
        BY <1>1, <1>4, <2>1, <2>2, <4>1, <4>3, ReaderEmptied
      <4> QED BY <1>1, <4>2, <4>3
    <3> QED BY <3>1, <3>2
  <2> QED BY <1>1, <2>1, <2>2 DEF FindInv, ReaderTypes, ReaderOK
<1>5. ASSUME NEW r \in Readers, Find(r) \/ \E k \in Names : FindStart(r, k), Observe
      PROVE  FindInv'
  <2>1. /\ ReaderTypes'
        /\ \A q \in Readers \ {r} :
                 /\ rpc'[q] = rpc[q] /\ rk'[q] = rk[q] /\ re'[q] = re[q] /\ rb'[q] = rb[q]
                 /\ result'[q] = result[q]
    BY <1>5, ReaderSteps
  <2>2. Grown
    BY <1>5, FindUnwritten DEF Unwritten, Grown, SameEntries, Linked
  <2>3. ASSUME ~torn'[r] PROVE Follows(r)'
    <3>1. CASE rpc'[r] = "idle"
      BY <3>1 DEF Follows
    <3>2. CASE rpc'[r] # "idle"
      <4>1. Follows(r) /\ seen'[r] = seen[r] \cup {Lookup(rk[r])'}
        BY <1>3, <1>5, <2>3, <3>2 DEF FindInv, ReaderOK
      <4> QED BY <1>1, <1>5, <2>1, <3>2, <4>1, ReaderMoves
    <3> QED BY <3>1, <3>2
  <2>4. ASSUME NEW q \in Readers \ {r}, ~torn'[q] PROVE Follows(q)'
    <3>1. CASE rpc[q] = "idle"
      BY <2>1, <3>1 DEF Follows
    <3>2. CASE rpc[q] # "idle"
      <4>1. Follows(q) /\ seen'[q] = seen[q] \cup {Lookup(rk[q])'}
        BY <1>3, <1>5, <2>1, <2>4, <3>2 DEF FindInv, ReaderOK
      <4> QED BY <1>1, <2>1, <2>2, <4>1, ReaderWaits DEF FindInv
    <3> QED BY <3>1, <3>2
  <2> QED BY <1>1, <2>1, <2>3, <2>4 DEF FindInv, ReaderOK
<1> QED BY <1>2, <1>4, <1>5 DEF Next

LEMMA FindInductive ==
    ASSUME NamesDisjoint
    PROVE  Spec => []FindInv
<1>1. FindInv /\ [Next]_vars => FindInv'
  BY NextFind
<1> QED BY <1>1, InitFind, PTL DEF Spec

\* A lookup without a lock returns what its name led to at some time during the
\* lookup, and misses only if the name then led nowhere (zend_accel_hash_find
\* against zend_accel_hash_update and zend_accel_hash_clean), for any hash
\* function, number of entries and of readers, as long as no path is both a file
\* and a link and no restart drops entries between its first and its last load.
THEOREM LookupsCorrect ==
    ASSUME NamesDisjoint
    PROVE  Spec => []FindCorrect
<1>1. FindInv => FindCorrect
  BY DEF FindInv, ReaderOK, Follows, FindCorrect
<1> QED BY <1>1, FindInductive, PTL

\* What a name leads to is a script or nothing.
LEMMA LeadsToScript ==
    ChainInv /\ EntriesOK => \A n \in Names : Lookup(n) \in FileNames \cup {NoName}
<1> SUFFICES ASSUME ChainInv, EntriesOK, NEW n \in Names
             PROVE  Lookup(n) \in FileNames \cup {NoName}
  OBVIOUS
<1>1. LookupOK
  BY LookupFacts
<1>2. ASSUME NEW e \in Linked, key[e] = n PROVE Lookup(n) \in FileNames
  <2>1. Target(e) \in FileNames
    BY DEF EntriesOK, Target
  <2> QED BY <1>1, <1>2, <2>1 DEF LookupOK
<1> QED BY <1>1, <1>2 DEF LookupOK

LEMMA LeadsToScriptPrime ==
    (ChainInv /\ EntriesOK)' => (\A n \in Names : Lookup(n) \in FileNames \cup {NoName})'
BY LeadsToScript, PTL

\* "zend_accel_hash_find() does not" require a lock: a name leads to a script or
\* nowhere between updates, and a lookup made while an update is under way
\* returns a script or nothing, never the address of another entry, as long as
\* no path is both a file and a link and no restart drops entries between the
\* lookup's first load and its last.
THEOREM LookupsReturnScripts ==
    ASSUME NamesDisjoint
    PROVE  Spec => [](LeadsToData /\ FindsScript)
<1> DEFINE Scripts == FileNames \cup {NoName}
           SeenOK  == \A r \in Readers : seen[r] \subseteq Scripts
<1>1. Init => FindInv /\ SeenOK
  BY InitFind DEF Init
<1>2. FindInv /\ SeenOK /\ [Next]_vars => FindInv' /\ SeenOK'
  <2> SUFFICES ASSUME FindInv, SeenOK, [Next]_vars PROVE FindInv' /\ SeenOK'
    OBVIOUS
  <2>1. FindInv'
    BY NextFind
  <2>2. \A n \in Names : Lookup(n)' \in Scripts
    BY <2>1, LeadsToScriptPrime DEF FindInv, TableInv
  <2>3. CASE UNCHANGED vars
    BY <2>1, <2>3 DEF vars
  <2>4. CASE Observe
    <3>1. ASSUME NEW r \in Readers PROVE seen'[r] \subseteq Scripts
      <4>1. CASE rpc'[r] = "idle" \/ torn'[r]
        BY <2>4, <4>1 DEF Observe
      <4>2. CASE rpc'[r] # "idle" /\ ~torn'[r]
        <5>1. rk'[r] \in Names
          BY <2>1, <4>2 DEF FindInv, ReaderOK, Follows
        <5>2. seen'[r] = seen[r] \cup {Lookup(rk[r])'}
          BY <2>4, <4>2 DEF Observe
        <5> QED BY <2>2, <5>1, <5>2
      <4> QED BY <4>1, <4>2
    <3> QED BY <2>1, <3>1
  <2> QED BY <2>3, <2>4 DEF Next
<1>3. FindInv /\ SeenOK => LeadsToData /\ FindsScript
  <2> SUFFICES ASSUME FindInv, SeenOK PROVE LeadsToData /\ FindsScript
    OBVIOUS
  <2>1. LeadsToData
    BY LeadsToScript DEF FindInv, TableInv, LeadsToData
  <2>2. FindsScript
    BY DEF FindInv, ReaderOK, Follows, FindsScript
  <2> QED BY <2>1, <2>2
<1> QED BY <1>1, <1>2, <1>3, PTL DEF Spec

\* The writer's variables have their types also when no update is under way.
WriterTypes ==
    /\ wk \in Names \cup {NoName} /\ wind \in BOOLEAN
    /\ wdata \in FileNames \cup {NoName} \cup Entries
    /\ we \in 0..MaxEntries /\ wthen \in KeyNames \cup {NoName}

LEMMA InitWriterTypes == Init => WriterTypes
<1> SUFFICES ASSUME Init PROVE WriterTypes
  OBVIOUS
<1>1. wk = NoName /\ wind = FALSE /\ wdata = NoName /\ we = 0 /\ wthen = NoName
  BY DEF Init
<1>2. we \in 0..MaxEntries
  BY <1>1, AccelHashAssumption
<1> QED BY <1>1, <1>2, Zenon DEF WriterTypes

LEMMA NextWriterTypes ==
    ASSUME NamesDisjoint, WriterTypes, TableInv, TableInv', [Next]_vars
    PROVE  WriterTypes'
<1> DEFINE Cleared == wk' = NoName /\ wdata' = NoName
<1>1. /\ we' \in 0..MaxEntries
      /\ wpc' = "idle" => Cleared \/ UNCHANGED <<wk, wdata>>
  <2>1. ASSUME NEW e, Return(e)
        PROVE  we' = 0 /\ (wpc' = "idle" => Cleared)
    BY <2>1 DEF Return, Begin
  <2>2. CASE UNCHANGED we /\ wpc' # "idle"
    BY <2>2 DEF WriterTypes
  <2>3. CASE UNCHANGED <<we, wk, wdata>>
    BY <2>3 DEF WriterTypes
  <2>4. CASE Search
    <3>1. EntryOf(wk) \in Linked \cup {0}
      BY <2>4, EntryOfLinked DEF Search, TableInv, ChainInv
    <3>2. CASE Return(0)
      BY <2>1, <3>2, AccelHashAssumption
    <3>3. CASE we' = EntryOf(wk) /\ wpc' = "change"
      BY <3>1, <3>3, ArrayFacts, AccelHashAssumption DEF TableInv
    <3>4. CASE ~IsFull /\ we' = num + 1 /\ wpc' = "fill"
      BY <3>4, AccelHashAssumption DEF IsFull, TableInv, ChainInv
    <3> QED BY <2>4, <3>2, <3>3, <3>4 DEF Search
  <2>5. CASE Change \/ Redirected \/ Link
    BY <2>1, <2>5, AccelHashAssumption DEF Change, Redirected, Link
  <2>6. CASE Write /\ ~(Search \/ Change \/ Redirected \/ Link)
    BY <2>2, <2>3, <2>6 DEF Write, CacheScript, AddKey, Begin, Clean, Resolve, Redirect, Fill, SetNext
  <2>7. CASE Unwritten
    BY <2>3, <2>7 DEF Unwritten
  <2>8. CASE UNCHANGED vars
    BY <2>3, <2>8 DEF vars
  <2> QED BY <2>4, <2>5, <2>6, <2>7, <2>8, FindUnwritten DEF Next
<1>2. CASE wpc' = "idle"
  BY <1>1, <1>2 DEF WriterTypes, TableInv, WriterOK
<1>3. CASE wpc' # "idle"
  <2>1. Linked' \subseteq Entries
    BY ArrayFactsPrime DEF TableInv
  <2>2. wk' \in Names /\ wdata' \in FileNames \cup Entries /\ wind' \in BOOLEAN
        /\ wthen' \in KeyNames \cup {NoName}
    BY <1>3, <2>1 DEF TableInv, WriterOK, Names
  <2> QED BY <1>1, <2>2 DEF WriterTypes
<1> QED BY <1>2, <1>3

\* Every variable has its type (zend_accel_hash_update and zend_accel_hash_find):
\* no index is ever taken that the table or the array of entries does not have.
THEOREM TypeCorrect ==
    ASSUME NamesDisjoint
    PROVE  Spec => []TypeOK
<1> DEFINE Inv == FindInv /\ CountInv /\ WriterTypes
<1>1. Init => Inv
  BY InitFind, InitCount, InitWriterTypes
<1>2. Inv /\ [Next]_vars => Inv'
  <2> SUFFICES ASSUME Inv, [Next]_vars PROVE Inv'
    OBVIOUS
  <2>1. FindInv' /\ CountInv'
    BY NextFind, NextCount
  <2>2. WriterTypes'
    BY <2>1, NextWriterTypes DEF FindInv
  <2> QED BY <2>1, <2>2
<1>3. Inv => TypeOK
  <2> SUFFICES ASSUME Inv PROVE TypeOK
    OBVIOUS
  <2>1. num \in 0..MaxEntries /\ table \in [0..(MaxEntries - 1) -> 0..MaxEntries]
        /\ next \in [Entries -> 0..MaxEntries] /\ wpc \in Points
    BY DEF FindInv, TableInv, ChainInv
  <2>2. numDirect \in 0..MaxEntries
    <3>1. Cardinality(Direct) \in 0..num /\ IsFiniteSet(Direct)
      BY <2>1, DirectFinite
    <3>2. wpc # "redirect"
      BY DEF FindInv, TableInv, WriterOK
    <3>3. numDirect = Cardinality(Direct)
      BY <3>1, <3>2 DEF CountInv
    <3> QED BY <2>1, <3>1, <3>3, AccelHashAssumption
  <2>3. key \in [Entries -> Names \cup {NoName}]
        /\ data \in [Entries -> FileNames \cup {NoName} \cup Entries]
        /\ indirect \in [Entries -> BOOLEAN]
    BY DEF FindInv, TableInv, EntriesOK
  <2>4. re \in [Readers -> 0..MaxEntries]
    BY DEF FindInv, ReaderTypes
  <2> QED BY <2>1, <2>2, <2>3, <2>4 DEF TypeOK, WriterTypes
<1> QED BY <1>1, <1>2, <1>3, PTL DEF Spec

-----------------------------------------------------------------------------
(* The table implements the map of AccelMap *)

\* what an undisturbed lookup of each name returns
MapOf == [n \in Names |-> Lookup(n)]

\* A name whose entry stays and leads where it did is found as before; so is a
\* name that neither had nor gets an entry.
LEMMA LookupStays ==
    ASSUME LookupOK, LookupOK', NEW n \in Names,
           \A e \in Linked : key[e] = n =>
               e \in Linked' /\ key'[e] = n /\ Target(e)' = Target(e),
           \A e \in Linked' \ Linked : key'[e] # n,
           \A e \in Linked : key'[e] = key[e]
    PROVE  Lookup(n)' = Lookup(n)
<1>1. CASE \E e \in Linked : key[e] = n
  <2>1. PICK e \in Linked : key[e] = n
    BY <1>1
  <2>2. Lookup(n) = Target(e)
    BY <2>1 DEF LookupOK
  <2>3. Lookup(n)' = Target(e)'
    BY <2>1 DEF LookupOK
  <2> QED BY <2>1, <2>2, <2>3
<1>2. CASE \A e \in Linked : key[e] # n
  <2>1. Lookup(n) = NoName
    BY <1>2 DEF LookupOK
  <2>2. \A e \in Linked' : key'[e] # n
    BY <1>2
  <2>3. Lookup(n)' = NoName
    BY <2>2 DEF LookupOK
  <2> QED BY <2>1, <2>3
<1> QED BY <1>1, <1>2

\* A direct entry leads to its own name.
LEMMA DirectLeads ==
    ASSUME LookupOK, EntriesOK, NEW d \in Linked, ~indirect[d]
    PROVE  key[d] \in FileNames /\ key[d] \in Names /\ Lookup(key[d]) = key[d]
<1>1. key[d] \in FileNames /\ key[d] \in Names
  BY DEF EntriesOK
<1> QED BY <1>1 DEF LookupOK, Target

\* Each of the four kinds of step is a step of the map or leaves it alone.
LEMMA MapSteps ==
    ASSUME NamesDisjoint, TableInv, [Next]_vars
    PROVE  \/ \E f \in FileNames : MapOf' = [MapOf EXCEPT ![f] = f]
           \/ \E k \in KeyNames, f \in FileNames :
                 MapOf[f] = f /\ MapOf' = [MapOf EXCEPT ![k] = f]
           \/ MapOf' = [n \in Names |-> NoName]
           \/ MapOf' = MapOf
<1>0. /\ TableInv' /\ LookupOK /\ LookupOK'
      /\ Kept \/ Added \/ Retargeted \/ Dropped
  BY TableSteps, LookupFacts, LookupFactsPrime DEF TableInv
<1>a. EntriesOK /\ EntriesOK' /\ Linked \subseteq Entries
  BY <1>0, ArrayFacts DEF TableInv
<1>1. CASE Kept
  <2>1. ASSUME NEW n \in Names PROVE Lookup(n)' = Lookup(n)
    <3>1. ASSUME NEW e \in Linked PROVE Target(e)' = Target(e)
      <4>1. /\ key'[e] = key[e] /\ data'[e] = data[e] /\ indirect'[e] = indirect[e]
        BY <1>1 DEF Kept, SameEntries
      <4>2. indirect[e] => data[e] \in Linked
        BY <1>a DEF EntriesOK
      <4>3. indirect[e] => key'[data[e]] = key[data[e]]
        BY <1>1, <4>2 DEF Kept, SameEntries
      <4> QED BY <4>1, <4>3 DEF Target
    <3> QED BY <1>0, <1>1, <3>1, LookupStays DEF Kept, SameEntries
  <2> QED BY <2>1 DEF MapOf
<1>2. CASE Added
  <2>1. PICK e \in Entries :
           /\ e \notin Linked /\ Linked' = Linked \cup {e}
           /\ UNCHANGED <<key, data, indirect>>
           /\ key[e] \in Names /\ \A d \in Linked : key[d] # key[e]
           /\ IF indirect[e] THEN /\ key[e] \in KeyNames
                                  /\ data[e] \in Linked /\ ~indirect[data[e]]
                             ELSE key[e] \in FileNames
    BY <1>2 DEF Added
  <2>2. ASSUME NEW n \in Names, n # key[e] PROVE Lookup(n)' = Lookup(n)
    <3>1. \A d \in Linked : Target(d)' = Target(d)
      BY <2>1 DEF Target
    <3> QED BY <1>0, <2>1, <2>2, <3>1, LookupStays
  <2>3. PICK k \in Names : k = key[e]
    BY <2>1
  <2>4. Lookup(k)' = Target(e)
    <3>1. Target(e)' = Target(e) /\ key'[e] = k /\ e \in Linked'
      BY <2>1, <2>3 DEF Target
    <3> QED BY <1>0, <3>1 DEF LookupOK
  <2>5. MapOf' = [MapOf EXCEPT ![k] = Target(e)]
    BY <2>2, <2>3, <2>4 DEF MapOf
  <2>6. CASE ~indirect[e]
    <3>1. Target(e) = k /\ k \in FileNames
      BY <2>1, <2>3, <2>6 DEF Target
    <3> QED BY <2>5, <3>1
  <2>7. CASE indirect[e]
    <3>1. PICK f \in FileNames : f = key[data[e]] /\ f \in Names /\ Lookup(f) = f
      BY <1>0, <1>a, <2>1, <2>7, DirectLeads
    <3>2. Target(e) = f /\ k \in KeyNames /\ MapOf[f] = f
      BY <2>1, <2>3, <2>7, <3>1 DEF Target, MapOf
    <3> QED BY <2>5, <3>2
  <2> QED BY <2>6, <2>7
<1>3. CASE Retargeted
  <2>1. PICK e \in Linked, d \in Linked :
           /\ UNCHANGED <<key, indirect>> /\ Linked' = Linked
           /\ indirect[e] /\ ~indirect[d] /\ data' = [data EXCEPT ![e] = d]
    BY <1>3 DEF Retargeted
  <2>2. PICK k \in KeyNames : k = key[e] /\ k \in Names
    BY <1>a, <2>1 DEF EntriesOK
  <2>3. PICK f \in FileNames : f = key[d] /\ f \in Names /\ Lookup(f) = f
    BY <1>0, <1>a, <2>1, DirectLeads
  <2>4. data'[e] = d /\ \A x \in Linked : x # e => data'[x] = data[x]
    BY <1>a, <2>1 DEF EntriesOK
  <2>5. ASSUME NEW n \in Names, n # k PROVE Lookup(n)' = Lookup(n)
    <3>1. \A x \in Linked : key[x] = n => Target(x)' = Target(x)
      BY <2>1, <2>2, <2>4, <2>5 DEF Target
    <3> QED BY <1>0, <2>1, <3>1, LookupStays
  <2>6. Lookup(k)' = f
    <3>1. Target(e)' = f /\ key'[e] = k /\ e \in Linked'
      BY <2>1, <2>2, <2>3, <2>4 DEF Target
    <3> QED BY <1>0, <2>2, <3>1 DEF LookupOK
  <2>7. MapOf' = [MapOf EXCEPT ![k] = f] /\ MapOf[f] = f
    BY <2>2, <2>3, <2>5, <2>6 DEF MapOf
  <2> QED BY <2>7
<1>4. CASE Dropped
  <2>1. ASSUME NEW n \in Names PROVE Lookup(n)' = NoName
    BY <1>0, <1>4 DEF LookupOK, Dropped
  <2> QED BY <2>1 DEF MapOf
<1> QED BY <1>0, <1>1, <1>2, <1>3, <1>4

\* zend_accel_hash implements the map its callers rely on: what an undisturbed
\* lookup of a name returns changes only as one store, link or restart
\* prescribes, in one step however many stores the update takes.
THEOREM TableImplementsMap ==
    ASSUME NamesDisjoint
    PROVE  Spec => MapSpec
<1>1. Init => Map!Init
  <2> SUFFICES ASSUME Init PROVE Map!Init
    OBVIOUS
  <2>1. TableInv /\ Linked = {}
    BY InitTable DEF Init, Linked
  <2>2. \A n \in Names : Lookup(n) = NoName
    BY <2>1, LookupFacts DEF LookupOK, TableInv
  <2> QED BY <2>2 DEF Map!Init, Map!Names, Names
<1>2. TableInv /\ [Next]_vars => TableInv'
  BY TableSteps
<1>3. TableInv /\ [Next]_vars => [Map!Next]_[n \in Names |-> Lookup(n)]
  <2> SUFFICES ASSUME TableInv, [Next]_vars PROVE [Map!Next]_MapOf
    BY DEF MapOf
  <2> QED BY MapSteps DEF Map!Next, Map!Store, Map!Link, Map!Clean, Map!Names, MapOf, Names
<1> QED BY <1>1, <1>2, <1>3, InitTable, PTL DEF Spec, MapSpec, Map!Spec
=============================================================================
