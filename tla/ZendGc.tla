------------------------------- MODULE ZendGc -------------------------------
(***************************************************************************)
(* Reference counting and the cycle collector (Zend/zend_gc.c), with the   *)
(* part of the object store that they drive.  A script creates values,     *)
(* stores references to them in variables and in properties, and drops     *)
(* references; a value whose count falls but stays above zero may be the   *)
(* root of a dead cycle and is recorded in the root buffer.                *)
(*                                                                         *)
(* The engine is sequential.  What makes it hard is that it enters script  *)
(* code again: the last release of an object, and the collector between    *)
(* finding the garbage and destroying it, call destructors.  So a state is *)
(* a point at which script code runs, `todo' is the C stack below it (the  *)
(* work left when the script code returns), and an action is one script    *)
(* operation with everything the engine does until script code runs again. *)
(*                                                                         *)
(* Values are collectable values: objects, or arrays behind a reference;   *)
(* nothing below tells them apart but the destructor.  Buffer slots have   *)
(* no number: how many are free, who holds one and who holds a slot of an  *)
(* additional buffer is kept.                                              *)
(***************************************************************************)
EXTENDS Integers, Sequences, FiniteSets, SequencesExt

CONSTANTS
    Values,        \* values the script may create
    Destructors,   \* those of them whose class has a destructor
    Null,          \* IS_UNDEF, and the end of a list
    Vars,          \* variables of the script
    NSlots,        \* how many properties each of them has
    BufMax,        \* GC_ROOT_BUFFER_MAX_ENTRIES - 1: slots of the root buffer
    MaxScript,     \* bound: operations of one destructor call
    MaxDepth       \* bound: collections inside one another

ASSUME GcAssumption ==
    /\ Destructors \subseteq Values
    /\ Null \notin Values
    /\ NSlots \in [Values -> Nat]
    /\ BufMax \in Nat
    /\ MaxScript \in Nat
    /\ MaxDepth \in Nat \ {0}

VARIABLES
    alive,      \* allocated values
    var,        \* what the variables hold
    prop,       \* what the properties hold
    rc,         \* GC_REFCOUNT
    color,      \* GC_REF_GET_COLOR
    addr,       \* GC_ADDRESS: in the root buffer, in an additional one, none
    called,     \* IS_OBJ_DESTRUCTOR_CALLED
    freed,      \* IS_OBJ_FREE_CALLED and the bucket of the store invalid
    free,       \* slots in GC_G(unused) or from GC_G(first_unused) on
    roots,      \* GC_G(roots)
    lists,      \* the to_free lists of the collections under way, last first
    saved,      \* current->refcount
    next,       \* GC_G(next_to_free)
    active,     \* GC_G(gc_active)
    enabled,    \* GC_G(gc_enabled)
    todo,       \* the engine's work below the running script code
    missed,     \* history: values that are in no list although they were
                \* offered as a root or taken for garbage
    moved,      \* history: the garbage of the collection under way to which its
                \* destructors took a reference, and that they may have dropped one to
    broken      \* history: the engine used memory it had given back

vars == <<alive, var, prop, rc, color, addr, called, freed, free, roots, lists,
          saved, next, active, enabled, todo, missed, moved, broken>>

(* The state as a record, threaded through the engine's functions; `flags' *)
(* is the local variable gc_flags, `deep' the nesting an action needs.     *)
Now == [alive |-> alive, var |-> var, prop |-> prop, rc |-> rc, color |-> color,
        addr |-> addr, called |-> called, freed |-> freed, free |-> free,
        roots |-> roots, lists |-> lists, saved |-> saved, next |-> next,
        active |-> active, todo |-> todo, missed |-> missed, moved |-> moved,
        broken |-> broken, flags |-> FALSE, deep |-> Len(lists)]

(* Every reference leads to an allocated value, orig_next_to_free (in      *)
(* todo) and next_to_free included.                                        *)
NoDangling(s) ==
    /\ ~s.broken
    /\ \A v \in Vars : s.var[v] \in s.alive \cup {Null}
    /\ \A x \in s.alive : ToSet(s.prop[x]) \subseteq s.alive \cup {Null}
    /\ \A i \in DOMAIN s.todo : s.todo[i].x \in s.alive \cup {Null}
    /\ s.next \in s.alive \cup {Null}

Becomes(s) ==
    /\ alive' = s.alive /\ var' = s.var /\ prop' = s.prop /\ rc' = s.rc
    /\ color' = s.color /\ addr' = s.addr /\ called' = s.called
    /\ freed' = s.freed /\ free' = s.free /\ roots' = s.roots
    /\ lists' = s.lists /\ saved' = s.saved /\ next' = s.next
    /\ active' = s.active /\ todo' = s.todo /\ missed' = s.missed
    /\ moved' = IF s.lists = <<>> /\ NoDangling(s) THEN {} ELSE s.moved
    /\ broken' = s.broken
    /\ UNCHANGED enabled

Kids(s, x)     == SelectSeq(s.prop[x], LAMBDA y : y # Null)
NoProps(x)     == [i \in 1..NSlots[x] |-> Null]
First(q)       == IF q = <<>> THEN Null ELSE Head(q)
After(q, x)    == First(SubSeq(q, SelectInSeq(q, LAMBDA y : y = x) + 1, Len(q)))
Task(op, x)    == [op |-> op, x |-> x]
Push(s, tasks) == [s EXCEPT !.todo = tasks \o @]
Tasks(op, q)   == [i \in DOMAIN q |-> Task(op, q[i])]

-----------------------------------------------------------------------------
(* The root buffer.                                                        *)

(* gc_remove_from_roots and gc_remove_from_additional_roots: only a slot   *)
(* of the root buffer goes back to the unused ones.                        *)
Unlink_Kept(s, x) ==
    [s EXCEPT !.roots = Remove(@, x),
              !.lists = [i \in DOMAIN @ |-> Remove(@[i], x)],
              !.addr[x] = "none",
              !.saved[x] = 0]

Unlink(s, x) ==
    [s EXCEPT !.roots = Remove(@, x),
              !.lists = [i \in DOMAIN @ |-> Remove(@[i], x)],
              !.free = IF s.addr[x] = "buf" THEN @ + 1 ELSE @,
              !.addr[x] = "none",
              !.saved[x] = 0]

gc_remove_from_buffer(s, x) ==
    LET t == [Unlink(s, x) EXCEPT !.color[x] = "black"]
    IN  IF s.next = x THEN [t EXCEPT !.next = After(Head(s.lists), x)] ELSE t

Link(s, x, where, hue) ==
    [s EXCEPT !.roots = <<x>> \o @,
              !.free = IF where = "buf" THEN @ - 1 ELSE @,
              !.addr[x] = where,
              !.color[x] = hue,
              !.missed = @ \ {x}]

Miss(s, x) == [s EXCEPT !.missed = @ \cup {x}]

(* GC_MAY_LEAK: GC_INFO is zero, no address and black.                     *)
GC_MAY_LEAK(s, x) == s.addr[x] = "none" /\ s.color[x] = "black"

gc_possible_root(s, x) ==
    IF s.active THEN Miss(s, x)
    ELSE IF s.free > 0 THEN Link(s, x, "buf", "purple")
    ELSE IF ~enabled THEN Miss(s, x)
    ELSE Push([s EXCEPT !.rc[x] = @ + 1],
              <<Task("collect", Null), Task("root", x)>>)

(* The end of gc_possible_root, after the collection it started.           *)
RootAfterCollection_Forgotten(s, x) ==
    LET t == [s EXCEPT !.rc[x] = @ - 1]
    IN  IF t.rc[x] = 0 THEN Push(t, <<Task("del", x)>>) ELSE t

RootAfterCollection(s, x) ==
    LET t == [s EXCEPT !.rc[x] = @ - 1]
    IN  IF t.rc[x] = 0 THEN Push(t, <<Task("del", x)>>)
        ELSE IF ~GC_MAY_LEAK(t, x) THEN t
        ELSE IF t.free > 0 THEN Link(t, x, "buf", "purple")
        ELSE Miss(t, x)

-----------------------------------------------------------------------------
(* Reference counting: i_zval_ptr_dtor and zend_objects_store_del.         *)

i_zval_ptr_dtor(s, x) ==
    LET t == [s EXCEPT !.rc[x] = @ - 1]
    IN  IF t.rc[x] = 0 THEN Push(t, <<Task("del", x)>>)
        ELSE IF GC_MAY_LEAK(t, x) THEN gc_possible_root(t, x)
        ELSE t

(* The destructor is entered with one count of the caller and one of       *)
(* zend_objects_destroy_object, which releases its own by zval_ptr_dtor.   *)
CallDestructor(s, x, rest) ==
    LET t == [s EXCEPT !.called = @ \cup {x}]
    IN  IF x \in Destructors \ s.called
        THEN Push([t EXCEPT !.rc[x] = @ + 2],
                  <<[op |-> "script", x |-> x, left |-> MaxScript],
                    Task("release", x), Task("unhold", x)>> \o rest)
        ELSE Push(t, rest)

zend_objects_store_del(s, x) ==
    IF x \in s.freed THEN s ELSE CallDestructor(s, x, <<Task("delete", x)>>)

(* free_obj: the properties are released one after the other, under a      *)
(* count that keeps the value itself from being deleted.                   *)
FreeObj(s, x, rest) ==
    Push([s EXCEPT !.freed = @ \cup {x}, !.rc[x] = @ + 1, !.prop[x] = NoProps(x)],
         Tasks("release", Kids(s, x)) \o <<Task("unhold", x)>> \o rest)

zend_objects_store_free(s, x) ==
    IF s.rc[x] = 0 THEN FreeObj(s, x, <<Task("efree", x)>>) ELSE s

(* The memory of a value is given back; its fields keep no meaning.        *)
Efree_FlagsKept(s, x) ==
    [s EXCEPT !.alive = @ \ {x}, !.freed = @ \ {x},
              !.missed = @ \ {x}, !.rc[x] = 0, !.prop[x] = NoProps(x),
              !.color[x] = "black", !.addr[x] = "none", !.saved[x] = 0]

Efree(s, x) ==
    [s EXCEPT !.alive = @ \ {x}, !.called = @ \ {x}, !.freed = @ \ {x},
              !.missed = @ \ {x}, !.rc[x] = 0, !.prop[x] = NoProps(x),
              !.color[x] = "black", !.addr[x] = "none", !.saved[x] = 0]

GC_REMOVE_FROM_BUFFER(s, x) ==
    IF s.addr[x] # "none" THEN gc_remove_from_buffer(s, x) ELSE s

-----------------------------------------------------------------------------
(* The three traversals of the collector.                                  *)

RECURSIVE gc_scan_black(_, _)
gc_scan_black_OncePerValue(s, x) ==
    FoldLeft(LAMBDA t, y :
                IF t.color[y] # "black"
                THEN gc_scan_black([t EXCEPT !.rc[y] = @ + 1], y) ELSE t,
             [s EXCEPT !.color[x] = "black"], Kids(s, x))

gc_scan_black(s, x) ==
    FoldLeft(LAMBDA t, y :
                LET u == [t EXCEPT !.rc[y] = @ + 1]
                IN  IF u.color[y] # "black" THEN gc_scan_black(u, y) ELSE u,
             [s EXCEPT !.color[x] = "black"], Kids(s, x))

RECURSIVE gc_mark_grey(_, _)
gc_mark_grey(s, x) ==
    IF s.color[x] = "grey" THEN s
    ELSE FoldLeft(LAMBDA t, y : gc_mark_grey([t EXCEPT !.rc[y] = @ - 1], y),
                  [s EXCEPT !.color[x] = "grey"], Kids(s, x))

gc_mark_roots(s) ==
    FoldLeft(LAMBDA t, x : IF t.color[x] = "purple" THEN gc_mark_grey(t, x) ELSE t,
             s, s.roots)

RECURSIVE gc_scan(_, _)
gc_scan(s, x) ==
    IF s.color[x] # "grey" THEN s
    ELSE IF s.rc[x] > 0 THEN gc_scan_black(s, x)
    ELSE FoldLeft(gc_scan, [s EXCEPT !.color[x] = "white"], Kids(s, x))

gc_scan_roots(s) == FoldLeft(gc_scan, s, s.roots)

gc_add_garbage(s, x) == Link(s, x, IF s.free > 0 THEN "buf" ELSE "extra", "black")

RECURSIVE gc_collect_white(_, _)
gc_collect_white_LastFlag(s, x) ==
    IF s.color[x] # "white" THEN s
    ELSE LET w == [s EXCEPT !.color[x] = "black", !.flags = x \in Destructors]
         IN  FoldLeft(LAMBDA t, y :
                         gc_collect_white([t EXCEPT !.rc[y] = @ + 1], y),
                      IF GC_MAY_LEAK(w, x) THEN gc_add_garbage(w, x) ELSE w,
                      Kids(s, x))

gc_collect_white(s, x) ==
    IF s.color[x] # "white" THEN s
    ELSE LET w == [s EXCEPT !.color[x] = "black",
                            !.flags = @ \/ x \in Destructors]
         IN  FoldLeft(LAMBDA t, y :
                         gc_collect_white([t EXCEPT !.rc[y] = @ + 1], y),
                      IF GC_MAY_LEAK(w, x) THEN gc_add_garbage(w, x) ELSE w,
                      Kids(s, x))

(* Black roots leave the list; what white ones reach enters it at the head. *)
gc_collect_roots(s) ==
    LET t == FoldLeft(LAMBDA u, x : IF u.color[x] = "black" THEN Unlink(u, x)
                                    ELSE u,
                      s, s.roots)
    IN  FoldLeft(gc_collect_white, t, t.roots)

(* A value a destructor has taken leaves the list of garbage with all the  *)
(* garbage it reaches.                                                     *)
RECURSIVE gc_remove_nested_data_from_buffer(_, _, _)
gc_remove_nested_data_from_buffer_Shallow(s, x, root) ==
    Miss(IF root THEN Unlink(s, x) ELSE gc_remove_from_buffer(s, x), x)

gc_remove_nested_data_from_buffer(s, x, root) ==
    IF root \/ (s.addr[x] # "none" /\ s.color[x] = "black")
    THEN FoldLeft(LAMBDA t, y : gc_remove_nested_data_from_buffer(t, y, FALSE),
                  Miss(IF root THEN Unlink(s, x) ELSE gc_remove_from_buffer(s, x), x),
                  Kids(s, x))
    ELSE s

-----------------------------------------------------------------------------
(* zend_gc_collect_cycles, in the parts that script code separates.        *)

NothingToDo_OneRoot(s) == Len(s.roots) <= 1 \/ s.active

NothingToDo(s) == s.roots = <<>> \/ s.active

zend_gc_collect_cycles(s) ==
    LET t == gc_collect_roots(gc_scan_roots(gc_mark_roots(s)))
        u == [t EXCEPT !.roots = <<>>, !.lists = <<t.roots>> \o @,
                       !.deep = IF @ > Len(s.lists) THEN @ ELSE Len(s.lists) + 1]
        garbage == ToSet(t.roots)
        destroy == <<Task("destroying", Null), Task("freeing", s.next)>>
    IN  IF NothingToDo(s) THEN s
        ELSE IF t.roots = <<>> THEN t
        ELSE IF ~t.flags THEN Push(u, destroy)
        ELSE Push([u EXCEPT !.next = Head(t.roots),
                            !.saved = [x \in Values |->
                                IF x \in garbage THEN t.rc[x] ELSE @[x]]],
                  <<Task("dtors", Null), Task("captured", Null)>> \o destroy)

(* One turn of the loop that calls the destructors of the garbage.         *)
CallDtors(s) ==
    IF s.next = Null THEN s
    ELSE CallDestructor([s EXCEPT !.next = After(Head(s.lists), s.next)], s.next,
                        <<Task("dtors", Null)>>)

RECURSIVE RemoveCaptured(_, _)
RemoveCaptured(s, x) ==
    IF x = Null THEN s
    ELSE LET t == [s EXCEPT !.next = After(Head(s.lists), x)]
             u == IF t.rc[x] > t.saved[x]
                  THEN gc_remove_nested_data_from_buffer(t, x, TRUE) ELSE t
         IN  RemoveCaptured(u, u.next)

StartDestroying(s) ==
    Push([s EXCEPT !.active = TRUE, !.next = First(Head(s.lists))],
         <<Task("destroy", Null)>>)

DestroyNext(s) ==
    IF s.next = Null THEN s
    ELSE FreeObj([s EXCEPT !.next = After(Head(s.lists), s.next)], s.next,
                 <<Task("destroy", Null)>>)

FreeGarbage(s, orig) ==
    LET t == FoldLeft(LAMBDA u, x : Efree([u EXCEPT !.free =
                                    IF u.addr[x] = "buf" THEN @ + 1 ELSE @], x),
                      s, Head(s.lists))
    IN  [t EXCEPT !.lists = Tail(@), !.next = orig, !.active = FALSE]

-----------------------------------------------------------------------------
(* The engine at work until script code runs again.                        *)

Step(s, task) ==
    CASE task.op = "release"    -> i_zval_ptr_dtor(s, task.x)
      [] task.op = "unhold"     -> [s EXCEPT !.rc[task.x] = @ - 1]
      [] task.op = "del"        -> zend_objects_store_del(s, task.x)
      [] task.op = "delete"     -> zend_objects_store_free(s, task.x)
      [] task.op = "efree"      -> Efree(GC_REMOVE_FROM_BUFFER(s, task.x), task.x)
      [] task.op = "root"       -> RootAfterCollection(s, task.x)
      [] task.op = "collect"    -> zend_gc_collect_cycles(s)
      [] task.op = "dtors"      -> CallDtors(s)
      [] task.op = "captured"   -> RemoveCaptured(s, First(Head(s.lists)))
      [] task.op = "destroying" -> StartDestroying(s)
      [] task.op = "destroy"    -> DestroyNext(s)
      [] task.op = "freeing"    -> FreeGarbage(s, task.x)

RECURSIVE Run(_)
Run(s) ==
    IF s.todo = <<>> \/ s.todo[1].op = "script" THEN s
    ELSE Run(Step([s EXCEPT !.todo = Tail(@),
                            !.broken = @ \/ s.todo[1].x \notin s.alive \cup {Null}],
                  s.todo[1]))

-----------------------------------------------------------------------------
(* Script code.  It reaches what its variables and the objects whose       *)
(* destructors run lead to.                                                *)

Places  == (Vars \X {0}) \cup UNION {{x} \X (1..NSlots[x]) : x \in Values}
Held(p) == IF p[2] = 0 THEN var[p[1]] ELSE prop[p[1]][p[2]]
Put(s, p, y) == IF p[2] = 0 THEN [s EXCEPT !.var[p[1]] = y]
                            ELSE [s EXCEPT !.prop[p[1]][p[2]] = y]

RECURSIVE ReachFrom(_, _)
ReachFrom(s, S) ==
    LET T == S \cup (UNION {ToSet(s.prop[x]) : x \in S} \ {Null})
    IN  IF T = S THEN S ELSE ReachFrom(s, T)

This  == {todo[i].x : i \in {j \in DOMAIN todo : todo[j].op = "script"}}
InVars(s) == {s.var[v] : v \in Vars} \ {Null}
Reach == ReachFrom(Now, InVars(Now) \cup This)

Reachable(p) == p[2] = 0 \/ p[1] \in Reach

(* What the code running at the top of todo does next, with what is left   *)
(* of its operations.  Once the heap is broken the model stops.            *)
Sound == NoDangling(Now) /\ Reach \cap freed = {}

Running ==
    /\ Sound
    /\ todo # <<>> => todo[1].left > 0

Used == IF todo = <<>> THEN Now ELSE [Now EXCEPT !.todo[1].left = @ - 1]

Engine(s) == LET t == Run(s) IN t.deep <= MaxDepth /\ Becomes(t)

Garbage == UNION {ToSet(lists[i]) : i \in DOMAIN lists}

New(p, x) ==
    /\ Running
    /\ x \notin alive
    /\ Reachable(p) /\ Held(p) = Null
    /\ Engine(Put([Used EXCEPT !.alive = @ \cup {x}, !.rc[x] = 1], p, x))

Store(p, x) ==
    /\ Running
    /\ x \in Reach
    /\ Reachable(p) /\ Held(p) = Null
    /\ Engine(Put([Used EXCEPT !.rc[x] = @ + 1,
                        !.moved = IF x \in Garbage THEN @ \cup {<<"captured", x>>} ELSE @],
                     p, x))

Unset(p) ==
    /\ Running
    /\ Reachable(p) /\ Held(p) # Null
    /\ Engine(Push(Put([Used EXCEPT !.moved = @ \cup (
                              IF p[1] \notin Garbage THEN {}
                              ELSE {"dropped"} \X (Garbage \cap ReachFrom(Now, {Held(p)})))],
                          p, Null),
                      <<Task("release", Held(p))>>))

gc_collect_cycles == Running /\ Engine(Push(Used, <<Task("collect", Null)>>))

Return ==
    /\ todo # <<>>
    /\ Sound
    /\ Engine([Now EXCEPT !.todo = Tail(@)])

Undefined == ~Sound /\ UNCHANGED vars

Init ==
    /\ alive = {} /\ called = {} /\ freed = {} /\ missed = {} /\ moved = {}
    /\ var = [v \in Vars |-> Null]
    /\ prop = [x \in Values |-> NoProps(x)]
    /\ rc = [x \in Values |-> 0]
    /\ color = [x \in Values |-> "black"]
    /\ addr = [x \in Values |-> "none"]
    /\ saved = [x \in Values |-> 0]
    /\ free = BufMax
    /\ roots = <<>> /\ lists = <<>> /\ todo = <<>>
    /\ next = Null
    /\ active = FALSE /\ broken = FALSE
    /\ enabled \in BOOLEAN

Next ==
    \/ \E p \in Places, x \in Values : New(p, x) \/ Store(p, x)
    \/ \E p \in Places : Unset(p)
    \/ gc_collect_cycles
    \/ Return
    \/ Undefined

Spec == Init /\ [][Next]_vars

-----------------------------------------------------------------------------
(* Properties.                                                             *)

(* Types, and that the flags of a value do not outlive it.                 *)
TypeOK ==
    /\ alive \subseteq Values
    /\ called \subseteq alive /\ freed \subseteq alive /\ missed \subseteq alive
    /\ rc \in [Values -> Int]
    /\ saved \in [Values -> Nat]
    /\ color \in [Values -> {"black", "purple"}]
    /\ addr \in [Values -> {"none", "buf", "extra"}]
    /\ free \in 0..BufMax
    /\ active \in BOOLEAN /\ enabled \in BOOLEAN /\ broken \in BOOLEAN

(* No value is given back while a variable, a property of a living value   *)
(* or the engine itself still refers to it, whatever destructors do        *)
(* between the moment the collector finds the garbage and the moment it    *)
(* destroys it: they may take values out of the garbage, take it apart, or *)
(* create values.  One thing is excluded, because the code cannot see it:  *)
(* a destructor that takes one reference to a value of the garbage and     *)
(* drops another one to it, or to a value that leads to it, leaves its     *)
(* count where it was.                                                     *)
SafeCollection ==
    Sound \/ \E x \in Values : {<<"captured", x>>, <<"dropped", x>>} \subseteq moved

References(x) ==
    Cardinality({v \in Vars : var[v] = x})
      + Cardinality({p \in Places : p[1] \in alive /\ p[2] # 0 /\ Held(p) = x})
      + Cardinality({i \in DOMAIN todo :
                todo[i].op \in {"release", "unhold", "root"} /\ todo[i].x = x})

(* Wherever script code runs, the count of every value is the number of    *)
(* references to it from variables, properties and the engine's own frames:*)
(* what marking subtracts, scanning and collecting give back exactly.      *)
CountsExact == Sound => \A x \in alive : rc[x] = References(x)

InLists == <<roots>> \o lists

(* The slots of the root buffer that are not free are those of living      *)
(* values, a value is on exactly one list when it has an address and on    *)
(* none otherwise, and purple are just the possible roots: no slot leaks   *)
(* and none is shared, across collections, removals and additional buffers.*)
BufferExact ==
    Sound =>
        /\ free + Cardinality({x \in alive : addr[x] = "buf"}) = BufMax
        /\ \A x \in Values :
            /\ Cardinality({<<i, j>> \in (1..Len(InLists)) \X (1..Cardinality(Values)) :
                   j <= Len(InLists[i]) /\ InLists[i][j] = x})
               = IF addr[x] = "none" THEN 0 ELSE 1
            /\ color[x] = "purple" <=> x \in ToSet(roots)

(* In the main script, a value nothing refers to any more can still be     *)
(* found: it is reached from a possible root, or from a value the engine   *)
(* refused to record (full buffer, collector active) or took off the list. *)
NothingLost ==
    Sound /\ todo = <<>> =>
        alive \ Reach \subseteq ReachFrom(Now, ToSet(roots) \cup missed)

(* A collection in the main script that has no destructor to run leaves    *)
(* alive only what the script reaches, but for what the engine had missed: *)
(* it finds every dead cycle and frees all of it.                          *)
CollectComplete ==
    Sound /\ todo = <<>> =>
        LET t == Run(Push(Now, <<Task("collect", Null)>>))
        IN  t.todo = <<>> =>
                t.alive \ ReachFrom(t, InVars(t)) \subseteq ReachFrom(t, t.missed)

(* An object with a destructor is not given back before it was called,     *)
(* whichever way it goes: by its last release or as a member of a cycle.   *)
DestructedFirst ==
    [][\A x \in Destructors : x \in alive \ alive' => x \in called]_vars
=============================================================================
