------------------------- MODULE PhpOutputStackProofs -------------------------
(***************************************************************************)
(* Proofs about PhpOutput for any kinds of handlers and any bounds: that   *)
(* the stack of handlers is sound wherever script code runs, and that a    *)
(* handler's calls are well bracketed.                                     *)
(***************************************************************************)
EXTENDS PhpOutputProofs

-----------------------------------------------------------------------------
(* The invariant *)

Disabled == {x \in 1..Len(h) : h[x].disabled}

\* a call that php_output_handler_op was done for, or that needs none
Done(f) == f.st \notin {"call", "wait"}

\* Which call f the call g has made, when the handlers D have failed: script code
\* makes calls of the layer (all but php_output_write stop at php_output_lock_error,
\* unless the handler to end has failed), php_output_handler_op calls script code,
\* php_output_flush and php_output_stack_pop write, php_output_end_all pops.
Link(f, g, D) ==
    /\ (g.st = "wait") <=> (f.do = "user")
    /\ \/ /\ g.do = "user"
          /\ f.do \in {"op", "flush", "clean", "pop", "free"}
          /\ f.do \in {"flush", "clean"} => f.st = "call"
          /\ f.do = "pop" /\ f.st # "call" => f.x \in D /\ f.out = <<>>
          /\ f.do = "free" => f.x \in D
       \/ /\ f.do = "user"
          /\ g.do \in {"op", "flush", "clean", "pop"}
          /\ g.x = f.x /\ ("final" \in f.op <=> g.do = "pop")
       \/ f.do = "op" /\ g.do \in {"push", "free"}
       \/ f.do \in {"pop", "free"} /\ g.do = "all"

Chain(s, D) == \A i \in 1..(Len(s) - 1) : Link(s[i], s[i + 1], D)

Linked(s, D) == Chain(s, D) /\ (s # <<>> => Head(s).st # "wait")

\* What a call of a user handler says: the first one starts, none follows the last.
Bracketed(f) == ("start" \in f.op <=> f.life = "new") /\ f.life # "ended"

Innermost(do, x) == calls # <<>> /\ top.do = do /\ top.x = x

FrameInv(f) ==
    /\ f.do \in {"flush", "clean"} => active = f.x \/ Innermost("free", f.x)
    /\ f.do = "pop" => /\ active = f.x
                       /\ ~Done(f) => f.x \notin Disabled
                       /\ Done(f) => f.x \in Disabled \/ h[f.x].life = "ended"
    /\ f.do = "free" => /\ f.x \notin ToSet(handlers) /\ active # f.x
                        /\ f.x \in Disabled \/ h[f.x].life = "ended"
    /\ f.do = "push" => f.x \notin ToSet(handlers)
    /\ f.do = "op" => fatal \/ Disabled # {} \/ f.n <= Len(handlers)
    /\ f.do = "user" => running = f.x /\ h[f.x].life = Lived(f.op) /\ Bracketed(f)
    /\ f.do = "all" => phase \in {"flush", "undefined"}
    /\ f.st = "call" => /\ f.do \in {"op", "flush", "clean", "pop"}
                        /\ f.op = {} <=> f.do = "op"
                        /\ f.op = {} => f.x \in ToSet(handlers)
                        /\ f.op # {} => active = f.x
                        /\ "start" \in f.op => ~h[f.x].started
                        /\ "final" \in f.op <=> f.do = "pop"

CallsInv == Linked(calls, Disabled) /\ \A f \in ToSet(calls) : FrameInv(f)

Distinct(s) == \A i, j \in 1..Len(s) : s[i] = s[j] => i = j

StackInv ==
    /\ Distinct(handlers)
    /\ active = 0 => handlers = <<>>
    /\ active \in ToSet(handlers) => active = Last(handlers)

\* Nothing runs a handler any more.
Over == NoUser(calls) /\ (running # 0 \/ (broken /\ active = 0))

LifeInv ==
    Over \/ \A x \in 1..Len(h) :
               \/ x = running
               \/ /\ h[x].started <=> h[x].life # "new"
                  /\ h[x].life = "ended" => \/ x \notin ToSet(handlers) /\ active # x
                                            \/ Innermost("pop", x) /\ Done(top)

Pushing(x) == \E f \in ToSet(calls) : f.do = "push" /\ f.x = x

Freeing(x) == \E f \in ToSet(calls) : f.do = "free" /\ f.x = x

SoundInv ==
    /\ \A i \in 1..Len(handlers) : h[handlers[i]].live /\ h[handlers[i]].level = i - 1
    /\ active = NewActive(handlers) \/ Pushing(active)
    /\ \A f \in ToSet(calls) : f.do = "push" =>
          \/ active = f.x /\ h[f.x].live /\ h[f.x].level = Len(handlers)
          \/ active # f.x /\ f.x \in Disabled
    /\ running # 0 => ~NoUser(calls)
    /\ \A x \in 1..Len(h) :
          /\ h[x].live => \/ x \in ToSet(handlers) \/ Freeing(x)
                          \/ \E f \in ToSet(calls) : f.do = "push" /\ (f.x = x \/ f.x # active)
          /\ ~h[x].live => /\ h[x].buffer = <<>>
                           /\ x \in Disabled \/ h[x].life = "ended"
    /\ phase = "off" => handlers = <<>>
    /\ Disabled = {} => phase # "undefined" /\ (~broken \/ phase = "off")

BracketInv == CallsInv /\ StackInv /\ LifeInv /\ (~fatal => SoundInv)

-----------------------------------------------------------------------------
(* Stacks of calls *)

\* Calls that are made and that return, as a set.
LEMMA OnPushed ==
    ASSUME NEW F, NEW s \in Seq(F), NEW f \in F
    PROVE  ToSet(<<f>> \o s) = {f} \cup ToSet(s)
<1>1. PICK t : t = <<f>> \o s
  OBVIOUS
<1>2. /\ t \in Seq(F) /\ Len(t) = Len(s) + 1 /\ t[1] = f /\ Len(s) \in Nat
      /\ \A i \in 2..(Len(s) + 1) : t[i] = s[i - 1]
      /\ DOMAIN t = 1..Len(t) /\ DOMAIN s = 1..Len(s)
  BY <1>1, Pushed
<1>3. ASSUME NEW i \in DOMAIN t PROVE t[i] \in {f} \cup ToSet(s)
  <2>1. i = 1 \/ (i \in 2..(Len(s) + 1) /\ i - 1 \in DOMAIN s)
    BY <1>2, <1>3
  <2> QED BY <1>2, <2>1 DEF ToSet
<1>4. ASSUME NEW j \in DOMAIN s PROVE s[j] \in ToSet(t)
  <2>1. j + 1 \in 2..(Len(s) + 1) /\ j + 1 \in DOMAIN t /\ (j + 1) - 1 = j
    BY <1>2, <1>4
  <2>2. t[j + 1] = s[j]
    BY <1>2, <2>1
  <2> QED BY <2>1, <2>2 DEF ToSet
<1>5. 1 \in DOMAIN t
  BY <1>2
<1>6. f \in ToSet(t)
  BY <1>2, <1>5 DEF ToSet
<1>7. ToSet(t) = {f} \cup ToSet(s)
  <2>1. ASSUME NEW e \in ToSet(t) PROVE e \in {f} \cup ToSet(s)
    BY <1>3, <2>1 DEF ToSet
  <2>2. ASSUME NEW e \in ToSet(s) PROVE e \in ToSet(t)
    <3>1. PICK j \in DOMAIN s : e = s[j]
      BY <2>2 DEF ToSet
    <3> QED BY <1>4, <3>1
  <2> QED BY <1>6, <2>1, <2>2
<1> QED BY <1>1, <1>7

LEMMA OnPopped ==
    ASSUME NEW F, NEW s \in Seq(F), s # <<>>
    PROVE  ToSet(s) = {Head(s)} \cup ToSet(Tail(s))
<1>1. s = <<Head(s)>> \o Tail(s) /\ Tail(s) \in Seq(F) /\ Head(s) \in F
  OBVIOUS
<1>2. PICK f \in F, t \in Seq(F) : f = Head(s) /\ t = Tail(s)
  BY <1>1
<1>3. ToSet(<<f>> \o t) = {f} \cup ToSet(t)
  BY OnPushed
<1> QED BY <1>1, <1>2, <1>3

LEMMA OnNone == ToSet(<<>>) = {}
BY DEF ToSet

LEMMA OnStack ==
    ASSUME NEW F, NEW s \in Seq(F)
    PROVE  /\ ToSet(s) \subseteq F
           /\ NoUser(s) <=> \A f \in ToSet(s) : f.do # "user"
           /\ NoPush(s) <=> \A f \in ToSet(s) : f.do # "push"
           /\ Shape(s) => \A f, g \in ToSet(s) : f.do = "user" /\ g.do = "user" => f = g
<1>1. DOMAIN s = 1..Len(s) /\ \A i \in 1..Len(s) : s[i] \in F
  OBVIOUS
<1>2. ToSet(s) \subseteq F
  BY <1>1 DEF ToSet
<1>3. NoUser(s) <=> \A f \in ToSet(s) : f.do # "user"
  BY <1>1 DEF ToSet, NoUser
<1>4. NoPush(s) <=> \A f \in ToSet(s) : f.do # "push"
  BY <1>1 DEF ToSet, NoPush
<1>5. ASSUME Shape(s), NEW f \in ToSet(s), NEW g \in ToSet(s), f.do = "user", g.do = "user"
      PROVE  f = g
  <2>1. PICK i \in 1..Len(s) : f = s[i]
    BY <1>1, <1>5 DEF ToSet
  <2>2. PICK j \in 1..Len(s) : g = s[j]
    BY <1>1, <1>5 DEF ToSet
  <2>3. i = j
    BY <1>5, <2>1, <2>2 DEF Shape
  <2> QED BY <2>1, <2>2, <2>3
<1> QED BY <1>2, <1>3, <1>4, <1>5

LEMMA LinkedNone == \A D : Linked(<<>>, D) /\ Chain(<<>>, D)
BY DEF Linked, Chain

LEMMA LinkedPushed ==
    ASSUME NEW F, NEW s \in Seq(F), NEW f \in F, NEW D, Chain(s, D),
           s # <<>> => Link(f, Head(s), D)
    PROVE  Chain(<<f>> \o s, D) /\ (f.st # "wait" => Linked(<<f>> \o s, D))
<1>1. PICK t : t = <<f>> \o s
  OBVIOUS
<1>2. /\ t \in Seq(F) /\ t # <<>> /\ Head(t) = f /\ Len(t) = Len(s) + 1 /\ t[1] = f
      /\ \A i \in 2..(Len(s) + 1) : t[i] = s[i - 1]
      /\ Len(s) \in Nat
  BY <1>1, Pushed
<1>3. ASSUME NEW i \in 1..(Len(t) - 1) PROVE Link(t[i], t[i + 1], D)
  <2>1. i + 1 \in 2..(Len(s) + 1) /\ (i + 1) - 1 = i /\ i \in 1..Len(s)
    BY <1>2, <1>3
  <2>2. t[i + 1] = s[i]
    BY <1>2, <2>1
  <2>3. CASE i = 1
    <3>1. s # <<>> /\ Head(s) = s[1]
      BY <2>1
    <3> QED BY <1>2, <2>2, <2>3, <3>1
  <2>4. CASE i # 1
    <3>1. i \in 2..(Len(s) + 1) /\ i - 1 \in 1..(Len(s) - 1) /\ (i - 1) + 1 = i
      BY <2>1, <2>4, <1>2
    <3>2. t[i] = s[i - 1]
      BY <1>2, <3>1
    <3>3. Link(s[i - 1], s[(i - 1) + 1], D)
      BY <3>1 DEF Chain
    <3> QED BY <2>2, <3>1, <3>2, <3>3
  <2> QED BY <2>3, <2>4
<1> QED BY <1>1, <1>2, <1>3 DEF Linked, Chain

\* The calls below the innermost one. A call that waits there runs a user handler.
LEMMA LinkedPopped ==
    ASSUME NEW F, NEW s \in Seq(F), s # <<>>, NEW D, Linked(s, D)
    PROVE  /\ Chain(Tail(s), D)
           /\ Tail(s) # <<>> => Link(Head(s), Head(Tail(s)), D)
           /\ Head(s).do # "user" => Linked(Tail(s), D)
           /\ \A f \in ToSet(Tail(s)) : f.do \in {"op", "flush", "clean", "pop"} =>
                 f.st = "wait" /\ \E u \in ToSet(s) : u.do = "user" /\ u.x = f.x
           /\ Tail(s) # <<>> /\ Head(Tail(s)).do \in {"all", "push"} =>
                 ToSet(Tail(s)) = {Head(Tail(s))}
<1>1. PICK t : t = Tail(s)
  OBVIOUS
<1>2. /\ t \in Seq(F) /\ Len(s) \in Nat \ {0} /\ Len(t) = Len(s) - 1 /\ Head(s) = s[1]
      /\ \A i \in 1..(Len(s) - 1) : t[i] = s[i + 1]
      /\ DOMAIN t = 1..Len(t) /\ DOMAIN s = 1..Len(s)
  BY <1>1, PoppedOne
<1>3. ASSUME NEW i \in 1..(Len(t) - 1) PROVE Link(t[i], t[i + 1], D)
  <2>1. i \in 1..(Len(s) - 1) /\ i + 1 \in 1..(Len(s) - 1)
    BY <1>2, <1>3
  <2>2. t[i] = s[i + 1] /\ t[i + 1] = s[(i + 1) + 1] /\ Link(s[i + 1], s[(i + 1) + 1], D)
    BY <1>2, <2>1 DEF Linked, Chain
  <2> QED BY <2>2
<1>4. ASSUME t # <<>> PROVE Link(Head(s), Head(t), D)
  <2>1. Head(t) = t[1] /\ 1 \in 1..(Len(s) - 1) /\ 1 + 1 = 2
    BY <1>2, <1>4
  <2>2. t[1] = s[2] /\ Link(s[1], s[1 + 1], D)
    BY <1>2, <2>1 DEF Linked, Chain
  <2> QED BY <1>2, <2>1, <2>2
<1>5. Head(s).do # "user" => Linked(t, D)
  BY <1>3, <1>4 DEF Linked, Chain, Link
<1>6. ASSUME NEW f \in ToSet(t), f.do \in {"op", "flush", "clean", "pop"}
      PROVE  f.st = "wait" /\ \E u \in ToSet(s) : u.do = "user" /\ u.x = f.x
  <2>1. PICK i \in 1..Len(t) : f = t[i]
    BY <1>2, <1>6 DEF ToSet
  <2>2. i \in 1..(Len(s) - 1) /\ i \in DOMAIN s
    BY <1>2, <2>1
  <2>3. f = s[i + 1] /\ Link(s[i], s[i + 1], D)
    BY <1>2, <2>1, <2>2 DEF Linked, Chain
  <2>4. Link(s[i], f, D)
    BY <2>3
  <2>5. s[i].do = "user" /\ s[i].x = f.x /\ f.st = "wait"
    BY <1>6, <2>4 DEF Link
  <2>6. s[i] \in ToSet(s)
    BY <2>2 DEF ToSet
  <2> QED BY <2>5, <2>6
<1>7. ASSUME t # <<>>, Head(t).do \in {"all", "push"} PROVE ToSet(t) = {Head(t)}
  <2>1. Len(t) \in Nat \ {0} /\ Head(t) = t[1]
    BY <1>2, <1>7
  <2>2. ASSUME Len(t) # 1 PROVE FALSE
    <3>0. \A l \in Nat \ {0} : l # 1 => 1 \in 1..(l - 1)
      OBVIOUS
    <3>1. 1 \in 1..(Len(t) - 1)
      BY <2>1, <2>2, <3>0, Zenon
    <3>2. Link(t[1], t[1 + 1], D)
      BY <1>3, <3>1
    <3> QED BY <1>7, <2>1, <3>2 DEF Link
  <2>3. DOMAIN t = {1}
    BY <1>2, <2>1, <2>2
  <2> QED BY <2>1, <2>3 DEF ToSet
<1>8. Chain(t, D)
  BY <1>3 DEF Chain
<1> QED BY <1>1, <1>4, <1>5, <1>6, <1>7, <1>8

\* Handlers fail for good.
LEMMA LinkedGrows ==
    ASSUME NEW s, NEW D, NEW E, D \subseteq E
    PROVE  /\ \A f, g : Link(f, g, D) => Link(f, g, E)
           /\ Linked(s, D) => Linked(s, E)
           /\ Chain(s, D) => Chain(s, E)
<1>1. \A f, g : Link(f, g, D) => Link(f, g, E)
  BY DEF Link
<1> QED BY <1>1 DEF Linked, Chain

-----------------------------------------------------------------------------
(* The stack of handlers *)

\* A handler on top of the stack.
LEMMA HandlerPushed ==
    ASSUME NEW n, NEW s \in Seq(1..n), NEW x
    PROVE  /\ Len(Append(s, x)) = Len(s) + 1 /\ Append(s, x) # <<>>
           /\ Last(Append(s, x)) = x
           /\ \A i \in 1..Len(s) : Append(s, x)[i] = s[i]
           /\ Append(s, x)[Len(s) + 1] = x
           /\ ToSet(Append(s, x)) = ToSet(s) \cup {x}
           /\ Distinct(s) /\ x \notin ToSet(s) => Distinct(Append(s, x))
<1>1. PICK S : S = (1..n) \cup {x}
  OBVIOUS
<1>2. s \in Seq(S) /\ x \in S
  BY <1>1, SeqMonotonic
<1>3. PICK t : t = Append(s, x)
  OBVIOUS
<1>4. /\ t \in Seq(S) /\ Len(s) \in Nat /\ Len(t) = Len(s) + 1 /\ t # <<>>
      /\ \A i \in 1..Len(s) : t[i] = s[i]
      /\ t[Len(s) + 1] = x /\ DOMAIN s = 1..Len(s) /\ DOMAIN t = 1..Len(t)
  BY <1>2, <1>3
<1>5. Last(t) = x
  BY <1>4 DEF Last
<1>6. \A i \in 1..Len(t) : i \in 1..Len(s) \/ i = Len(s) + 1
  BY <1>4
<1>7. ToSet(t) = ToSet(s) \cup {x}
  <2>1. ASSUME NEW e \in ToSet(t) PROVE e \in ToSet(s) \cup {x}
    BY <1>4, <1>6, <2>1 DEF ToSet
  <2>2. ASSUME NEW e \in ToSet(s) PROVE e \in ToSet(t)
    <3>1. PICK i \in 1..Len(s) : e = s[i]
      BY <1>4, <2>2 DEF ToSet
    <3>2. i \in DOMAIN t /\ t[i] = e
      BY <1>4, <3>1
    <3> QED BY <3>2 DEF ToSet
  <2>3. x \in ToSet(t)
    <3>1. Len(s) + 1 \in DOMAIN t
      BY <1>4
    <3> QED BY <1>4, <3>1 DEF ToSet
  <2> QED BY <2>1, <2>2, <2>3
<1>8. ASSUME Distinct(s), x \notin ToSet(s), NEW i \in 1..Len(t), NEW j \in 1..Len(t), t[i] = t[j]
      PROVE  i = j
  <2>1. ASSUME NEW k \in 1..Len(s) PROVE t[k] # x
    BY <1>4, <1>8, <2>1 DEF ToSet
  <2>2. CASE i \in 1..Len(s) /\ j \in 1..Len(s)
    BY <1>4, <1>8, <2>2 DEF Distinct
  <2>3. CASE i = Len(s) + 1 \/ j = Len(s) + 1
    BY <1>4, <1>6, <1>8, <2>1, <2>3
  <2> QED BY <1>6, <2>2, <2>3
<1> QED BY <1>3, <1>4, <1>5, <1>7, <1>8 DEF Distinct

\* The top one off the stack, which may be empty.
LEMMA HandlerPopped ==
    ASSUME NEW n \in Nat, handlers \in Seq(1..n), Distinct(handlers)
    PROVE  /\ DelTop \in Seq(1..n) /\ Distinct(DelTop)
           /\ handlers = <<>> => DelTop = <<>>
           /\ handlers # <<>> => /\ Len(handlers) \in Nat \ {0}
                                 /\ Len(DelTop) = Len(handlers) - 1
                                 /\ Last(handlers) = handlers[Len(handlers)]
                                 /\ Last(handlers) \in ToSet(handlers)
                                 /\ ToSet(DelTop) = ToSet(handlers) \ {Last(handlers)}
           /\ \A i \in 1..Len(DelTop) : i \in 1..Len(handlers) /\ DelTop[i] = handlers[i]
           /\ NewActive(DelTop) \in ToSet(DelTop) => NewActive(DelTop) = Last(DelTop)
           /\ NewActive(DelTop) = 0 => DelTop = <<>>
           /\ NewActive(DelTop) # 0 => NewActive(DelTop) \in ToSet(DelTop)
<1>1. CASE handlers = <<>>
  <2>1. DelTop = <<>> /\ Len(<<>>) = 0 /\ <<>> \in Seq(1..n)
    BY <1>1 DEF DelTop
  <2> QED BY <1>1, <2>1, OnNone DEF NewActive, Distinct
<1>2. CASE handlers # <<>>
  <2>1. Len(handlers) \in Nat \ {0} /\ DelTop = SubSeq(handlers, 1, Len(handlers) - 1)
    BY <1>2 DEF DelTop, Front
  <2>2. PICK d : d = DelTop
    OBVIOUS
  <2>3. d \in Seq(1..n) /\ Len(d) = Len(handlers) - 1
    <3>1. d \in Seq(1..n)
      BY <2>2, DelTopType
    <3>2. Len(d) = Len(handlers) - 1
      <4>0. PICK k \in Nat : k = Len(handlers) - 1
        <5>1. \A l \in Nat \ {0} : l - 1 \in Nat
          OBVIOUS
        <5>2. Len(handlers) - 1 \in Nat
          BY <2>1, <5>1, Zenon
        <5> QED BY <5>2
      <4>1. PICK m \in Int : k = Len(handlers) - 1 /\ m = 1
        BY <4>0
      <4>2. k \in Int /\ \A i \in m..k : handlers[i] \in 1..n
        <5>1. \A i \in 1..(Len(handlers) - 1) : handlers[i] \in 1..n
          BY <2>1
        <5> QED BY <4>1, <5>1
      <4>3. Len(SubSeq(handlers, m, k)) = IF m <= k THEN k - m + 1 ELSE 0
        BY <4>2, SubSeqProperties, Zenon
      <4>4. (IF 1 <= k THEN k - 1 + 1 ELSE 0) = k
        OBVIOUS
      <4> QED BY <2>1, <2>2, <4>1, <4>3, <4>4
    <3> QED BY <3>1, <3>2
  <2>4. \A i \in 1..Len(d) : i \in 1..Len(handlers) /\ d[i] = handlers[i]
    BY <2>1, <2>2, <2>3
  <2>5. DOMAIN d = 1..Len(d) /\ DOMAIN handlers = 1..Len(handlers) /\ Len(d) \in Nat
    BY <2>3
  <2>6. Distinct(d)
    BY <2>4 DEF Distinct
  <2>7. Last(handlers) = handlers[Len(handlers)] /\ Len(handlers) \in 1..Len(handlers)
    BY <2>1 DEF Last
  <2>8. Last(handlers) \in ToSet(handlers)
    BY <2>5, <2>7 DEF ToSet
  <2>9. ToSet(d) = ToSet(handlers) \ {Last(handlers)}
    <3>1. ASSUME NEW e \in ToSet(d) PROVE e \in ToSet(handlers) /\ e # Last(handlers)
      <4>1. PICK i \in 1..Len(d) : e = d[i]
        BY <2>5, <3>1 DEF ToSet
      <4>2. e = handlers[i] /\ i \in DOMAIN handlers /\ i # Len(handlers)
        BY <2>3, <2>4, <2>5, <4>1
      <4>3. e \in ToSet(handlers)
        BY <4>2 DEF ToSet
      <4> QED BY <2>5, <2>7, <4>2, <4>3 DEF Distinct
    <3>2. ASSUME NEW e \in ToSet(handlers), e # Last(handlers) PROVE e \in ToSet(d)
      <4>1. PICK i \in 1..Len(handlers) : e = handlers[i]
        BY <2>5, <3>2 DEF ToSet
      <4>2. i \in 1..Len(d)
        BY <2>3, <2>5, <2>7, <3>2, <4>1
      <4> QED BY <2>4, <2>5, <4>1, <4>2 DEF ToSet
    <3> QED BY <3>1, <3>2
  <2>10. /\ NewActive(d) \in ToSet(d) => NewActive(d) = Last(d)
         /\ NewActive(d) = 0 => d = <<>>
         /\ NewActive(d) # 0 => NewActive(d) \in ToSet(d)
    <3>1. CASE d = <<>>
      BY <3>1, OnNone DEF NewActive
    <3>2. CASE d # <<>>
      <4>1. Len(d) \in 1..Len(d) /\ Last(d) = d[Len(d)]
        BY <2>3, <3>2 DEF Last
      <4>2. Last(d) \in ToSet(d) /\ Last(d) \in 1..n
        <5>1. d[Len(d)] \in 1..n
          BY <2>3, <4>1
        <5>2. d[Len(d)] \in ToSet(d)
          BY <2>5, <4>1 DEF ToSet
        <5> QED BY <4>1, <5>1, <5>2
      <4> QED BY <3>2, <4>2 DEF NewActive
    <3> QED BY <3>1, <3>2
  <2> QED BY <1>2, <2>1, <2>2, <2>3, <2>4, <2>6, <2>7, <2>8, <2>9, <2>10
<1> QED BY <1>1, <1>2

\* No handler twice: as many as the stack is high.
LEMMA DistinctCount ==
    ASSUME NEW n, NEW s \in Seq(1..n), Distinct(s)
    PROVE  Cardinality(ToSet(s)) = Len(s)
<1>1. Len(s) \in Nat /\ DOMAIN s = 1..Len(s) /\ s = [i \in 1..Len(s) |-> s[i]]
  OBVIOUS
<1>2. s \in Bijection(1..Len(s), ToSet(s))
  <2>1. s \in [1..Len(s) -> ToSet(s)]
    BY <1>1 DEF ToSet
  <2>2. \A a, b \in 1..Len(s) : s[a] = s[b] => a = b
    BY DEF Distinct
  <2>3. \A e \in ToSet(s) : \E a \in 1..Len(s) : s[a] = e
    BY <1>1 DEF ToSet
  <2> QED BY <2>1, <2>2, <2>3 DEF Bijection, Injection, Surjection, IsInjective
<1>3. IsFiniteSet(1..Len(s)) /\ Cardinality(1..Len(s)) = Len(s)
  <2>1. PICK m \in Nat : m = Len(s)
    BY <1>1
  <2>2. 0 \in Int /\ m \in Int
    OBVIOUS
  <2>3. IsFiniteSet(1..m) /\ Cardinality(1..m) = IF 1 > m THEN 0 ELSE m - 1 + 1
    BY FS_Interval
  <2> QED BY <2>1, <2>3
<1>4. Cardinality(ToSet(s)) = Cardinality(1..Len(s))
  <2>1. PICK S, T : S = 1..Len(s) /\ T = ToSet(s)
    OBVIOUS
  <2>2. ExistsBijection(S, T)
    BY <1>2, <2>1 DEF ExistsBijection
  <2>3. Cardinality(T) = Cardinality(S)
    BY <1>3, <2>1, <2>2, FS_Bijection
  <2> QED BY <2>1, <2>3
<1> QED BY <1>3, <1>4

-----------------------------------------------------------------------------
(* Steps *)

Calls == ToSet(calls)

Below == ToSet(rest)

LEMMA OnCalls ==
    OutputInv => /\ Calls \subseteq Fr
                 /\ NoUser(calls) <=> \A f \in Calls : f.do # "user"
                 /\ NoPush(calls) <=> \A f \in Calls : f.do # "push"
                 /\ calls = <<>> => Calls = {}
                 /\ Disabled \subseteq 1..Len(h)
                 /\ ToSet(handlers) \subseteq 1..Len(h)
<1> SUFFICES ASSUME OutputInv PROVE
                 /\ Calls \subseteq Fr
                 /\ NoUser(calls) <=> \A f \in Calls : f.do # "user"
                 /\ NoPush(calls) <=> \A f \in Calls : f.do # "push"
                 /\ calls = <<>> => Calls = {}
                 /\ Disabled \subseteq 1..Len(h)
                 /\ ToSet(handlers) \subseteq 1..Len(h)
  OBVIOUS
<1>1. calls \in Seq(Fr)
  BY DEF OutputInv, CallsOK, Fr
<1>2. handlers \in Seq(1..Len(h))
  BY DEF OutputInv, DataOK
<1>3. ToSet(handlers) \subseteq 1..Len(h)
  BY <1>2, OnStack
<1> QED BY <1>1, <1>3, OnStack, OnNone DEF Calls, Disabled

LEMMA OnCallsNext ==
    OutputInv' => /\ NoUser(calls') <=> \A f \in Calls' : f.do # "user"
                  /\ NoPush(calls') <=> \A f \in Calls' : f.do # "push"
                  /\ calls' = <<>> => Calls' = {}
                  /\ Disabled' \subseteq 1..Len(h')
                  /\ ToSet(handlers') \subseteq 1..Len(h')
<1> DEFINE A == /\ NoUser(calls) <=> \A f \in Calls : f.do # "user"
                /\ NoPush(calls) <=> \A f \in Calls : f.do # "push"
                /\ calls = <<>> => Calls = {}
                /\ Disabled \subseteq 1..Len(h)
                /\ ToSet(handlers) \subseteq 1..Len(h)
<1>1. OutputInv => A
  BY OnCalls
<1> HIDE DEF A
<1>2. OutputInv' => A'
  BY <1>1, PTL
<1> QED BY <1>2 DEF A

\* The innermost call and those below it.
LEMMA Core ==
    ASSUME OutputInv, CallsInv, calls # <<>>
    PROVE  /\ Calls = {top} \cup Below /\ top \in Fr /\ rest \in Seq(Fr) /\ Below \subseteq Fr
           /\ FrameInv(top)
           /\ \A f \in Below : FrameInv(f) /\ f.st # "call"
           /\ \A f \in Below : f.do \in {"op", "flush", "clean", "pop"} =>
                 f.st = "wait" /\ \E u \in Calls : u.do = "user" /\ u.x = f.x
           /\ rest # <<>> => Head(rest) \in Below /\ Link(top, Head(rest), Disabled)
           /\ rest = <<>> => Below = {}
           /\ rest # <<>> /\ Head(rest).do \in {"all", "push"} => Below = {Head(rest)}
           /\ Chain(rest, Disabled) /\ (top.do # "user" => Linked(rest, Disabled))
           /\ top.st # "wait"
           /\ NoUser(rest) <=> \A f \in Below : f.do # "user"
           /\ \A f \in Calls : f.do \notin {"op", "all"} \/ f.st # "none" => f.x \in 1..Len(h)
           /\ \A f, g \in Calls : f.do = "user" /\ g.do = "user" => f = g
<1>1. calls \in Seq(Fr) /\ Shape(calls) /\ Linked(calls, Disabled)
  BY DEF OutputInv, CallsOK, Fr, CallsInv
<1>2. Calls = {top} \cup Below
  BY <1>1, OnPopped DEF Calls, Below, top, rest
<1>3. top \in Fr /\ rest \in Seq(Fr) /\ Calls \subseteq Fr
  BY TopCall, OnCalls
<1>4. \A f \in Calls : FrameInv(f)
  BY DEF CallsInv, Calls
<1>5. /\ Chain(rest, Disabled) /\ (top.do # "user" => Linked(rest, Disabled))
      /\ rest # <<>> => Link(top, Head(rest), Disabled)
      /\ \A f \in Below : f.do \in {"op", "flush", "clean", "pop"} =>
            f.st = "wait" /\ \E u \in Calls : u.do = "user" /\ u.x = f.x
      /\ rest # <<>> /\ Head(rest).do \in {"all", "push"} => Below = {Head(rest)}
  BY <1>1, LinkedPopped DEF Calls, Below, top, rest
<1>6. top.st # "wait"
  BY <1>1 DEF Linked, top
<1>7. NoUser(rest) <=> \A f \in Below : f.do # "user"
  BY <1>3, OnStack DEF Below
<1>8. rest # <<>> => Head(rest) \in Below
  <2>1. PICK r \in Seq(Fr) : r = rest
    BY <1>3
  <2>2. r # <<>> => Head(r) \in ToSet(r)
    BY OnPopped
  <2> QED BY <2>1, <2>2 DEF Below
<1>9. \A f \in Below : f.st # "call"
  <2>1. /\ Len(calls) \in Nat \ {0} /\ Len(rest) = Len(calls) - 1
        /\ \A i \in 1..(Len(calls) - 1) : rest[i] = calls[i + 1]
        /\ DOMAIN rest = 1..Len(rest)
    BY <1>1, <1>3, PoppedOne DEF rest
  <2>2. ASSUME NEW i \in DOMAIN rest PROVE rest[i].st # "call"
    <3>1. i \in 1..(Len(calls) - 1) /\ i + 1 \in 2..Len(calls)
      BY <2>1, <2>2
    <3>2. rest[i] = calls[i + 1] /\ calls[i + 1].st # "call"
      BY <1>1, <2>1, <3>1 DEF Shape
    <3> QED BY <3>2
  <2> QED BY <2>2 DEF Below, ToSet
<1>10. ASSUME NEW f \in Calls, f.do \notin {"op", "all"} \/ f.st # "none" PROVE f.x \in 1..Len(h)
  <2>1. f \in Fr
    BY <1>3
  <2> QED BY <1>10, <2>1, Sizes DEF Fr, Frames, FrameType, FrameOK
<1>11. \A f, g \in Calls : f.do = "user" /\ g.do = "user" => f = g
  BY <1>1, OnStack DEF Calls
<1>12. rest = <<>> => Below = {}
  BY OnNone DEF Below
<1> QED BY <1>2, <1>3, <1>4, <1>5, <1>6, <1>7, <1>8, <1>9, <1>10, <1>11, <1>12

\* A step that only makes or ends calls, no pops and pushes of handlers.
LEMMA QuietStep ==
    ASSUME OutputInv, OutputInv', BracketInv,
           calls = <<>> \/ top.do \in {"user", "all", "op", "flush", "clean"},
           \A f \in Calls : (f = top /\ top.do \in {"op", "flush", "clean"}) \/ f \in Calls',
           \A f \in Calls' : f \in Calls \/
              (f.do \in {"op", "flush", "clean", "pop"} /\ FrameInv(f)),
           Linked(calls', Disabled),
           UNCHANGED <<h, handlers, active, running, broken, phase, fatal>>
    PROVE  BracketInv'
<1>1. \A x : ~Innermost("free", x) /\ ~Innermost("pop", x)
  BY DEF Innermost
<1>2. Disabled' = Disabled /\ ToSet(handlers') = ToSet(handlers)
  BY DEF Disabled
<1>3. \A f \in Calls : FrameInv(f)
  BY DEF BracketInv, CallsInv, Calls
<1>4. ASSUME NEW f \in Calls' PROVE FrameInv(f)'
  <2>1. FrameInv(f)
    BY <1>3
  <2> QED BY <1>1, <1>2, <2>1 DEF FrameInv, Done
<1>5. CallsInv'
  BY <1>2, <1>4 DEF CallsInv, Calls
<1>6. StackInv'
  BY DEF BracketInv, StackInv, Distinct
<1>7. \A f : f.do \in {"push", "free", "user"} => (f \in Calls <=> f \in Calls')
  OBVIOUS
<1>8. NoUser(calls') <=> NoUser(calls)
  BY <1>7, OnCalls, OnCallsNext
<1>9. LifeInv'
  <2>1. CASE Over
    BY <1>8, <2>1 DEF Over, LifeInv
  <2>2. CASE ~Over
    BY <1>1, <1>2, <2>2 DEF BracketInv, LifeInv
  <2> QED BY <2>1, <2>2
<1>10. ASSUME ~fatal PROVE SoundInv'
  <2>1. SoundInv
    BY <1>10 DEF BracketInv
  <2>2. \A x : (Pushing(x))' <=> Pushing(x)
    BY <1>7 DEF Pushing, Calls
  <2>3. \A x : (Freeing(x))' <=> Freeing(x)
    BY <1>7 DEF Freeing, Calls
  <2>4. \A i \in 1..Len(handlers') : h'[handlers'[i]].live /\ h'[handlers'[i]].level = i - 1
    BY <2>1 DEF SoundInv
  <2>5. active' = NewActive(handlers') \/ (Pushing(active))'
    <3>1. (Pushing(active))' <=> Pushing(active)
      BY <1>7 DEF Pushing, Calls
    <3> QED BY <2>1, <3>1 DEF SoundInv, NewActive
  <2>6. ASSUME NEW f \in ToSet(calls'), f.do = "push"
        PROVE  \/ active' = f.x /\ h'[f.x].live /\ h'[f.x].level = Len(handlers')
               \/ active' # f.x /\ f.x \in Disabled'
    <3>1. f \in ToSet(calls)
      BY <1>7, <2>6 DEF Calls
    <3> QED BY <1>2, <2>1, <2>6, <3>1 DEF SoundInv
  <2>7. running' # 0 => ~NoUser(calls')
    BY <1>8, <2>1 DEF SoundInv
  <2>8. ASSUME NEW x \in 1..Len(h'), h'[x].live
        PROVE  \/ x \in ToSet(handlers') \/ (Freeing(x))'
               \/ \E f \in ToSet(calls') : f.do = "push" /\ (f.x = x \/ f.x # active')
    <3>1. \/ x \in ToSet(handlers) \/ Freeing(x)
          \/ \E f \in ToSet(calls) : f.do = "push" /\ (f.x = x \/ f.x # active)
      BY <2>1, <2>8 DEF SoundInv
    <3> QED BY <1>2, <1>7, <2>3, <3>1 DEF Calls
  <2>9. ASSUME NEW x \in 1..Len(h'), ~h'[x].live
        PROVE  h'[x].buffer = <<>> /\ (x \in Disabled' \/ h'[x].life = "ended")
    BY <1>2, <2>1, <2>9 DEF SoundInv
  <2>10. /\ phase' = "off" => handlers' = <<>>
         /\ Disabled' = {} => phase' # "undefined" /\ (~broken' \/ phase' = "off")
    BY <1>2, <2>1 DEF SoundInv
  <2> QED BY <2>4, <2>5, <2>6, <2>7, <2>8, <2>9, <2>10 DEF SoundInv
<1> QED BY <1>5, <1>6, <1>9, <1>10 DEF BracketInv

\* A call is made.
LEMMA QuietCall ==
    ASSUME OutputInv, OutputInv', BracketInv, NEW F, calls \in Seq(F), NEW f \in F,
           calls = <<>> \/ top.do \in {"user", "all"},
           calls' = <<f>> \o calls,
           f.do \in {"op", "flush", "clean", "pop"}, f.st # "wait", FrameInv(f),
           calls # <<>> => Link(f, top, Disabled),
           UNCHANGED <<h, handlers, active, running, broken, phase, fatal>>
    PROVE  BracketInv'
<1>1. Calls' = {f} \cup Calls
  BY OnPushed DEF Calls
<1>2. Linked(calls', Disabled)
  <2>1. Chain(calls, Disabled)
    BY DEF BracketInv, CallsInv, Linked
  <2>2. calls # <<>> => Link(f, Head(calls), Disabled)
    BY DEF top
  <2> QED BY <2>1, <2>2, LinkedPushed
<1> QED BY <1>1, <1>2, QuietStep

\* A call that runs no handler any more returns.
LEMMA QuietReturn ==
    ASSUME OutputInv, OutputInv', BracketInv, calls # <<>>, calls' = rest,
           top.do \in {"op", "flush", "clean"},
           UNCHANGED <<h, handlers, active, running, broken, phase, fatal>>
    PROVE  BracketInv'
<1>1. CallsInv
  BY DEF BracketInv
<1>2. Calls' = Below /\ Calls = {top} \cup Below /\ Linked(calls', Disabled)
  BY <1>1, Core DEF Calls, Below
<1> QED BY <1>2, QuietStep

\* A pass through the stack goes on.
LEMMA QuietPass ==
    ASSUME OutputInv, OutputInv', BracketInv, Doing("op"), NEW f \in Fr, f.do = "op",
           f.st # "wait", FrameInv(f), calls' = <<f>> \o rest,
           UNCHANGED <<h, handlers, active, running, broken, phase, fatal>>
    PROVE  BracketInv'
<1>1. CallsInv /\ calls # <<>> /\ top.do = "op"
  BY DEF BracketInv, Doing
<1>2. /\ rest \in Seq(Fr) /\ Calls = {top} \cup Below /\ Chain(rest, Disabled)
      /\ rest # <<>> => Link(top, Head(rest), Disabled)
  BY <1>1, Core
<1>3. Calls' = {f} \cup Below
  BY <1>2, OnPushed DEF Calls, Below
<1>4. rest # <<>> => Link(f, Head(rest), Disabled)
  BY <1>1, <1>2 DEF Link
<1>5. Linked(calls', Disabled)
  BY <1>2, <1>4, LinkedPushed
<1> QED BY <1>1, <1>2, <1>3, <1>5, QuietStep

\* The call of php_output_op when the stack is hs.
LEMMA OpFrameInv ==
    ASSUME NEW hs, Len(hs) \in Nat, NEW act, NEW data
    PROVE  /\ OpFrame(hs, act, data).do = "op" /\ OpFrame(hs, act, data).st = "none"
           /\ OpFrame(hs, act, data).n <= Len(hs)
<1>1. 0 <= Len(hs) /\ Len(hs) <= Len(hs)
  OBVIOUS
<1>2. CASE act # 0 /\ hs # <<>>
  BY <1>1, <1>2 DEF OpFrame, Frame
<1>3. CASE ~(act # 0 /\ hs # <<>>)
  BY <1>1, <1>3 DEF OpFrame, Frame
<1> QED BY <1>2, <1>3

LEMMA EchoKeeps ==
    ASSUME OutputInv, OutputInv', BracketInv, Echo
    PROVE  BracketInv'
<1>0. UNCHANGED <<h, handlers, active, running, broken, phase, fatal>>
  BY DEF Echo
<1>1. CASE activated
  <2>1. PICK f : f = OpFrame(handlers, active, <<written + 1>>)
    OBVIOUS
  <2>2. f.do = "op" /\ f.st = "none" /\ f.n <= Len(handlers)
    <3>1. Len(handlers) \in Nat
      BY Sizes
    <3> QED BY <2>1, <3>1, OpFrameInv
  <2>3. FrameInv(f)
    BY <2>2 DEF FrameInv
  <2>4. calls' = <<f>> \o calls
    BY <1>1, <2>1 DEF Echo
  <2>5. PICK F : calls \in Seq(F) /\ f \in F
    <3>1. calls \in Seq(Fr)
      BY DEF OutputInv, CallsOK, Fr
    <3>2. calls \in Seq(Fr \cup {f})
      BY <3>1, SeqMonotonic
    <3> QED BY <3>2
  <2>6. calls = <<>> \/ (top.do = "user" /\ top.st = "none")
    BY OpTypes DEF Echo
  <2>7. calls # <<>> => Link(f, top, Disabled)
    BY <2>2, <2>6 DEF Link
  <2>8. f.do \in {"op", "flush", "clean", "pop"} /\ f.st # "wait"
    BY <2>2
  <2>9. calls = <<>> \/ top.do \in {"user", "all"}
    BY <2>6
  <2> QED BY <1>0, <2>3, <2>4, <2>5, <2>7, <2>8, <2>9, QuietCall
<1>2. CASE ~activated
  <2>1. calls' = calls
    BY <1>2 DEF Echo
  <2>2. Calls' = Calls /\ Linked(calls', Disabled)
    BY <2>1 DEF Calls, BracketInv, CallsInv
  <2>3. calls = <<>> \/ top.do \in {"user", "all", "op", "flush", "clean"}
    BY OpTypes DEF Echo
  <2> QED BY <1>0, <2>2, <2>3, QuietStep
<1> QED BY <1>1, <1>2

\* The call of php_output_stack_pop for the active handler.
LEMMA PopFrameInv ==
    ASSUME OutputInv, active # 0, NEW d \in BOOLEAN
    PROVE  LET f == PopFrame(active, d)
           IN  /\ f \in Fr /\ f.do = "pop" /\ f.st # "wait" /\ f.x = active /\ FrameInv(f)
               /\ f.st # "call" => f.x \in Disabled /\ f.out = <<>>
<1>1. active \in 1..Len(h)
  BY Sizes DEF OutputInv, DataOK
<1>2. PICK f : f = PopFrame(active, d)
  OBVIOUS
<1>3. f \in Fr /\ f.do = "pop"
  BY <1>1, <1>2, PopFrameType DEF Fr
<1>4. CASE h[active].disabled
  <2>1. f.st = "nodata" /\ f.x = active /\ f.out = <<>>
    BY <1>2, <1>4 DEF PopFrame, Frame
  <2>2. active \in Disabled
    BY <1>1, <1>4 DEF Disabled
  <2>3. FrameInv(f)
    BY <1>3, <2>1, <2>2 DEF FrameInv, Done
  <2> QED BY <1>2, <1>3, <2>1, <2>2, <2>3
<1>5. CASE ~h[active].disabled
  <2>1. PICK p : p = {"final"} \cup (IF h[active].started THEN {} ELSE {"start"})
                               \cup (IF d THEN {"clean"} ELSE {})
    OBVIOUS
  <2>2. f.st = "call" /\ f.x = active /\ f.op = p
    BY <1>2, <1>5, <2>1 DEF PopFrame, Frame
  <2>3. p # {} /\ "final" \in p /\ ("start" \in p => ~h[active].started)
    BY <2>1
  <2>4. active \notin Disabled
    BY <1>5 DEF Disabled
  <2>5. FrameInv(f)
    BY <1>3, <2>2, <2>3, <2>4 DEF FrameInv, Done
  <2> QED BY <1>2, <1>3, <2>2, <2>5
<1> QED BY <1>4, <1>5

LEMMA ScriptCallsKeep ==
    ASSUME OutputInv, OutputInv', BracketInv,
           ObFlush \/ ObClean \/ \E d \in BOOLEAN : ObEnd(d)
    PROVE  BracketInv'
<1>1. Op /\ active # 0 /\ active \in 1..Len(h) /\ active \in 0..Len(h)
  BY Sizes DEF ObFlush, ObClean, ObEnd, OutputInv, DataOK
<1>2. calls \in Seq(Fr) /\ (calls = <<>> \/ (top.do = "user" /\ top.st = "none"))
  BY <1>1, OpTypes
<1>3. /\ 0 \in 0..Len(h) /\ <<>> \in Seq(1..written)
      /\ {"flush"} \in SUBSET OpFlags /\ {"clean"} \in SUBSET OpFlags
  BY Sizes DEF OpFlags
<1>4. PICK f : /\ Call(f) /\ f \in Fr /\ f.do \in {"flush", "clean", "pop"} /\ f.st # "wait"
               /\ f.do # "pop" => f.st = "call"
               /\ f.do = "pop" /\ f.st # "call" => f.x \in Disabled /\ f.out = <<>>
               /\ FrameInv(f)
  <2>1. CASE ObFlush
    <3>1. PICK f : f = [Frame("flush", active) EXCEPT !.st = "call", !.op = {"flush"}]
      OBVIOUS
    <3>2. f.do = "flush" /\ f.st = "call" /\ f.op = {"flush"} /\ f.x = active
      BY <3>1 DEF Frame
    <3>3. f \in Fr
      BY <1>1, <1>3, <3>1 DEF Fr, Frames, FrameType, FrameOK, Frame, Doings, Statuses, Lives
    <3>4. FrameInv(f)
      BY <3>2 DEF FrameInv
    <3> QED BY <2>1, <3>1, <3>2, <3>3, <3>4 DEF ObFlush
  <2>2. CASE ObClean
    <3>1. PICK f : f = [Frame("clean", active) EXCEPT !.st = "call", !.op = {"clean"},
                                                      !.discard = TRUE]
      OBVIOUS
    <3>2. f.do = "clean" /\ f.st = "call" /\ f.op = {"clean"} /\ f.x = active
      BY <3>1 DEF Frame
    <3>3. f \in Fr
      BY <1>1, <1>3, <3>1 DEF Fr, Frames, FrameType, FrameOK, Frame, Doings, Statuses, Lives
    <3>4. FrameInv(f)
      BY <3>2 DEF FrameInv
    <3> QED BY <2>2, <3>1, <3>2, <3>3, <3>4 DEF ObClean
  <2>3. ASSUME NEW d \in BOOLEAN, ObEnd(d)
        PROVE  \E f : /\ Call(f) /\ f \in Fr /\ f.do = "pop" /\ f.st # "wait"
                      /\ f.st # "call" => f.x \in Disabled /\ f.out = <<>>
                      /\ FrameInv(f)
    <3>1. PICK f : f = PopFrame(active, d)
      OBVIOUS
    <3>2. /\ f \in Fr /\ f.do = "pop" /\ f.st # "wait" /\ FrameInv(f)
          /\ f.st # "call" => f.x \in Disabled /\ f.out = <<>>
      BY <1>1, <3>1, PopFrameInv
    <3>3. Call(f)
      BY <2>3, <3>1 DEF ObEnd
    <3> QED BY <3>2, <3>3
  <2> QED BY <2>1, <2>2, <2>3
<1>5. calls # <<>> => Link(f, top, Disabled)
  BY <1>2, <1>4 DEF Link
<1>6. /\ calls' = <<f>> \o calls
      /\ UNCHANGED <<h, handlers, active, running, broken, phase, fatal>>
  BY <1>4 DEF Call
<1>7. f.do \in {"op", "flush", "clean", "pop"} /\ (calls = <<>> \/ top.do \in {"user", "all"})
  BY <1>2, <1>4
<1> QED BY <1>2, <1>4, <1>5, <1>6, <1>7, QuietCall

LEMMA ApplyKeeps ==
    ASSUME OutputInv, OutputInv', BracketInv, ApplyHandler
    PROVE  BracketInv'
<1>0. /\ Doing("op") /\ top.st = "none" /\ top.n \in 1..Len(handlers)
      /\ UNCHANGED <<h, handlers, active, running, broken, phase, fatal>>
  BY DEF ApplyHandler
<1>1. top \in Fr /\ top.do = "op" /\ top.op = {} /\ top.n \in 0..Len(h)
  BY <1>0, DoingTypes DEF Fr, Frames, FrameType, FrameOK
<1>2. handlers \in Seq(1..Len(h)) /\ Len(handlers) \in Nat /\ Len(handlers) <= Len(h)
      /\ Len(h) \in Nat
  BY Sizes DEF OutputInv, DataOK
<1>3. PICK x : x = handlers[top.n]
  OBVIOUS
<1>4. x \in 1..Len(h) /\ x \in 0..Len(h) /\ x # 0 /\ x \in ToSet(handlers)
  <2>1. handlers[top.n] \in 1..Len(h) /\ DOMAIN handlers = 1..Len(handlers)
    BY <1>0, <1>2
  <2>2. handlers[top.n] \in ToSet(handlers)
    BY <1>0, <2>1 DEF ToSet
  <2> QED BY <1>2, <1>3, <2>1, <2>2
<1>5. top.n # 0 /\ top.n - 1 \in 0..Len(h) /\ top.n <= Len(handlers) /\ top.n - 1 <= Len(handlers)
      /\ <<>> \in Seq(1..written)
  BY <1>0, <1>1, <1>2
<1> DEFINE f1 == [top EXCEPT !.x = x, !.st = "call"]
           f2 == [top EXCEPT !.out = top.in, !.in = <<>>, !.n = @ - 1]
           f3 == [top EXCEPT !.n = @ - 1]
<1>6. f1 \in Fr /\ f1.do = "op" /\ f1.st # "wait" /\ FrameInv(f1)
  <2>1. f1.do = "op" /\ f1.st = "call" /\ f1.op = {} /\ f1.x = x /\ f1.n <= Len(handlers)
    BY <1>1, <1>5 DEF Fr, Frames, FrameType
  <2>2. f1 \in Fr
    BY <1>1, <1>4, <1>5 DEF Fr, Frames, FrameType, FrameOK, Statuses
  <2> HIDE DEF f1
  <2>3. FrameInv(f1)
    BY <1>4, <2>1 DEF FrameInv
  <2> QED BY <2>1, <2>2, <2>3
<1>7. f2 \in Fr /\ f2.do = "op" /\ f2.st # "wait" /\ FrameInv(f2)
  <2>1. f2.do = "op" /\ f2.st = "none" /\ f2.n <= Len(handlers)
    BY <1>0, <1>1, <1>5 DEF Fr, Frames, FrameType
  <2>2. f2 \in Fr
    BY <1>0, <1>1, <1>5 DEF Fr, Frames, FrameType, FrameOK
  <2> HIDE DEF f2
  <2>3. FrameInv(f2)
    BY <2>1 DEF FrameInv
  <2> QED BY <2>1, <2>2, <2>3
<1>8. f3 \in Fr /\ f3.do = "op" /\ f3.st # "wait" /\ FrameInv(f3)
  <2>1. f3.do = "op" /\ f3.st = "none" /\ f3.n <= Len(handlers)
    BY <1>0, <1>1, <1>5 DEF Fr, Frames, FrameType
  <2>2. f3 \in Fr
    BY <1>0, <1>1, <1>5 DEF Fr, Frames, FrameType, FrameOK
  <2> HIDE DEF f3
  <2>3. FrameInv(f3)
    BY <2>1 DEF FrameInv
  <2> QED BY <2>1, <2>2, <2>3
<1>9. PICK f \in {f1, f2, f3} : calls' = <<f>> \o rest
  <2>1. h[x].disabled \in BOOLEAN
    BY <1>4, Sizes DEF HandlerType
  <2>2. CASE ~h[x].disabled
    BY <1>3, <2>2 DEF ApplyHandler
  <2>3. CASE h[x].disabled /\ h[x].level = 0
    BY <1>3, <2>3 DEF ApplyHandler
  <2>4. CASE h[x].disabled /\ h[x].level # 0
    BY <1>3, <2>4 DEF ApplyHandler
  <2> QED BY <2>1, <2>2, <2>3, <2>4
<1> HIDE DEF f1, f2, f3
<1>10. f \in Fr /\ f.do = "op" /\ f.st # "wait" /\ FrameInv(f)
  BY <1>6, <1>7, <1>8
<1> QED BY <1>0, <1>9, <1>10, QuietPass

LEMMA ApplyNextKeeps ==
    ASSUME OutputInv, OutputInv', BracketInv, ApplyNext
    PROVE  BracketInv'
<1>0. /\ Doing("op") /\ top.st # "none"
      /\ UNCHANGED <<h, handlers, active, running, broken, phase, fatal>>
  BY DEF ApplyNext
<1>1. /\ top \in Fr /\ top.do = "op" /\ <<>> \in Seq(1..written) /\ calls # <<>>
      /\ FrameInv(top)
  <2>1. top \in Fr /\ top.do = "op" /\ calls # <<>>
    BY <1>0, DoingTypes
  <2>2. CallsInv
    BY DEF BracketInv
  <2> QED BY <2>1, <2>2, Core
<1>2. top.n \in 0..Len(h) /\ top.n # 0 /\ top.op = {} /\ top.out \in Seq(1..written)
  BY <1>0, <1>1 DEF Fr, Frames, FrameType, FrameOK
<1>3. top.n - 1 \in 0..Len(h) /\ 0 \in 0..Len(h)
  BY <1>2, Sizes
<1>4. /\ 0 <= Len(handlers)
      /\ fatal \/ Disabled # {} \/ top.n - 1 <= Len(handlers)
  BY <1>1, <1>2, Sizes DEF FrameInv
<1> DEFINE f1 == [[top EXCEPT !.n = 0] EXCEPT !.st = "none"]
           f2 == [[top EXCEPT !.n = @ - 1, !.in = top.out, !.out = <<>>] EXCEPT !.st = "none"]
           f3 == [[top EXCEPT !.n = @ - 1] EXCEPT !.st = "none"]
<1>5. f1 \in Fr /\ f1.do = "op" /\ f1.st = "none" /\ f1.n = 0
  BY <1>1, <1>3 DEF Fr, Frames, FrameType, FrameOK, Statuses
<1>6. f2 \in Fr /\ f2.do = "op" /\ f2.st = "none" /\ f2.n = top.n - 1
  BY <1>1, <1>2, <1>3 DEF Fr, Frames, FrameType, FrameOK, Statuses
<1>7. f3 \in Fr /\ f3.do = "op" /\ f3.st = "none" /\ f3.n = top.n - 1
  BY <1>1, <1>3 DEF Fr, Frames, FrameType, FrameOK, Statuses
<1>8. PICK f \in {f1, f2, f3} : calls' = <<f>> \o rest
  <2>1. CASE top.st = "nodata"
    BY <2>1 DEF ApplyNext, Swapped
  <2>2. CASE top.st # "nodata" /\ h[top.x].level # 0
    BY <2>2 DEF ApplyNext, Swapped
  <2>3. CASE top.st # "nodata" /\ h[top.x].level = 0
    BY <2>3 DEF ApplyNext, Swapped
  <2> QED BY <2>1, <2>2, <2>3
<1> HIDE DEF f1, f2, f3
<1>9. f \in Fr /\ f.do = "op" /\ f.st = "none" /\ (f.n = 0 \/ f.n = top.n - 1)
  BY <1>5, <1>6, <1>7
<1>10. FrameInv(f)
  BY <1>4, <1>9 DEF FrameInv
<1>11. f.st # "wait"
  BY <1>9
<1> QED BY <1>0, <1>8, <1>9, <1>10, <1>11, QuietPass

\* A pass at its end, and what has nothing to write.
LEMMA ReturnsKeep ==
    ASSUME OutputInv, OutputInv', BracketInv,
           \/ SapiWrite \/ CleanReturns \/ (ClientGone /\ ~Bailout(FALSE))
           \/ (FlushWrites /\ top.out = <<>>)
    PROVE  BracketInv'
<1>1. calls # <<>> /\ top.do \in {"op", "flush", "clean"}
  BY DEF SapiWrite, CleanReturns, ClientGone, FlushWrites, Doing
<1>2. /\ calls' = rest
      /\ UNCHANGED <<h, handlers, active, running, broken, phase, fatal>>
  BY DEF SapiWrite, CleanReturns, ClientGone, FlushWrites
<1> QED BY <1>1, <1>2, QuietReturn

LEMMA EndAllPopsKeeps ==
    ASSUME OutputInv, OutputInv', BracketInv, Doing("all"), active # 0,
           Call(PopFrame(active, top.discard))
    PROVE  BracketInv'
<1>1. calls # <<>> /\ top.do = "all" /\ top.st \notin {"call", "wait"} /\ top \in Fr
  BY DoingTypes
<1>2. top.discard \in BOOLEAN
  BY <1>1 DEF Fr, Frames, FrameType
<1>3. PICK f : f = PopFrame(active, top.discard)
  OBVIOUS
<1>4. /\ f \in Fr /\ f.do = "pop" /\ f.st # "wait" /\ FrameInv(f)
  BY <1>2, <1>3, PopFrameInv
<1>5. /\ calls' = <<f>> \o calls
      /\ UNCHANGED <<h, handlers, active, running, broken, phase, fatal>>
  BY <1>3 DEF Call
<1>6. Link(f, top, Disabled)
  BY <1>1, <1>4 DEF Link
<1>7. calls \in Seq(Fr)
  BY DEF OutputInv, CallsOK, Fr
<1>8. f.do \in {"op", "flush", "clean", "pop"} /\ top.do \in {"user", "all"}
  BY <1>1, <1>4
<1> QED BY <1>4, <1>5, <1>6, <1>7, <1>8, QuietCall

\* What may come of it is left open only when a bailout has left the layer before or
\* a handler has failed.
LEMMA UndefinedKeeps ==
    ASSUME OutputInv, BracketInv, Undefined, fatal \/ Disabled # {}
    PROVE  BracketInv'
<1>1. /\ phase' = "undefined"
      /\ UNCHANGED <<h, handlers, active, running, broken, calls, fatal>>
  BY DEF Undefined
<1>2. Disabled' = Disabled
  BY <1>1 DEF Disabled
<1>3. CallsInv'
  <2>1. ASSUME NEW f \in ToSet(calls') PROVE FrameInv(f)'
    <3>1. FrameInv(f)
      BY <1>1, <2>1 DEF BracketInv, CallsInv
    <3>2. \A do, x : (Innermost(do, x))' <=> Innermost(do, x)
      BY <1>1 DEF Innermost, top
    <3> QED BY <1>1, <1>2, <3>1, <3>2 DEF FrameInv, Done
  <2>2. Linked(calls', Disabled')
    BY <1>1, <1>2 DEF BracketInv, CallsInv
  <2> QED BY <2>1, <2>2 DEF CallsInv
<1>4. StackInv'
  BY <1>1 DEF BracketInv, StackInv, Distinct
<1>5. LifeInv'
  BY <1>1 DEF BracketInv, LifeInv, Over, Innermost, top, Done
<1>6. ~fatal => SoundInv'
  BY <1>1, <1>2 DEF BracketInv, SoundInv, Pushing, Freeing, NewActive
<1> QED BY <1>1, <1>3, <1>4, <1>5, <1>6 DEF BracketInv

\* php_request_shutdown goes on: the stack of calls is gone.
LEMMA Cleared ==
    ASSUME OutputInv, phase \in Phases \ {"off", "undefined"}, NextPhase
    PROVE  /\ \A D : Linked(calls', D)
           /\ \A f \in Calls' : f.do = "all" /\ f.st = "none" /\ phase' = "flush"
           /\ NoUser(calls')
<1>1. CASE calls' = <<>>
  BY <1>1, LinkedNone, EmptyShape, OnNone DEF Calls
<1>2. ASSUME phase' = "flush", NEW d \in BOOLEAN,
             calls' = <<[Frame("all", 0) EXCEPT !.discard = d]>>
      PROVE  /\ \A D : Linked(calls', D)
             /\ \A f \in Calls' : f.do = "all" /\ f.st = "none" /\ phase' = "flush"
  <2>1. PICK f : f = [Frame("all", 0) EXCEPT !.discard = d]
    OBVIOUS
  <2>2. f.do = "all" /\ f.st = "none" /\ calls' = <<f>>
    BY <1>2, <2>1 DEF Frame
  <2>3. Head(<<f>>) = f /\ DOMAIN <<f>> = {1} /\ <<f>>[1] = f /\ 1..(Len(<<f>>) - 1) = {}
    OBVIOUS
  <2>4. Calls' = {f}
    BY <2>2, <2>3 DEF Calls, ToSet
  <2>5. \A D : Linked(<<f>>, D)
    BY <2>2, <2>3 DEF Linked, Chain
  <2> QED BY <1>2, <2>2, <2>4, <2>5
<1>3. NoUser(calls')
  BY PhaseStep
<1> QED BY <1>1, <1>2, <1>3 DEF NextPhase

LEMMA ClearedCalls ==
    ASSUME OutputInv, phase \in Phases \ {"off", "undefined"}, NextPhase
    PROVE  CallsInv'
<1>1. ASSUME NEW f \in ToSet(calls') PROVE FrameInv(f)'
  <2>1. f.do = "all" /\ f.st = "none" /\ phase' = "flush"
    BY <1>1, Cleared DEF Calls
  <2> QED BY <2>1 DEF FrameInv
<1>2. Linked(calls', Disabled')
  BY Cleared
<1> QED BY <1>1, <1>2 DEF CallsInv

\* Off the stack, all of it.
LEMMA DeactivatedStack ==
    ASSUME php_output_deactivate
    PROVE  StackInv'
<1>1. handlers' = <<>> /\ active' = 0
  BY DEF php_output_deactivate
<1>2. Len(<<>>) = 0 /\ ToSet(handlers') = {}
  BY <1>1, OnNone
<1> QED BY <1>1, <1>2 DEF StackInv, Distinct

\* A bailout out of script code or of ub_write.
LEMMA BailoutKeeps ==
    ASSUME OutputInv, OutputInv', BracketInv, phase \in Phases \ {"off", "undefined"},
           NEW l \in BOOLEAN, Bailout(l),
           l \/ (calls # <<>> /\ top.do \in {"user", "op"})
    PROVE  BracketInv'
<1>1. NextPhase /\ fatal' = TRUE
  BY DEF Bailout
<1>2. CallsInv' /\ NoUser(calls')
  BY <1>1, ClearedCalls, Cleared
<1>3. CASE l \/ phase = "flush"
  <2>1. php_output_deactivate
    BY <1>3 DEF Bailout
  <2>2. LifeInv'
    BY <1>2, <2>1 DEF php_output_deactivate, LifeInv, Over
  <2> QED BY <1>1, <1>2, <2>1, <2>2, DeactivatedStack DEF BracketInv
<1>4. CASE ~(l \/ phase = "flush")
  <2>1. UNCHANGED <<h, handlers, active, running, broken>> /\ calls # <<>> /\ top.do \in {"user", "op"}
    BY <1>4 DEF Bailout
  <2>2. StackInv'
    BY <2>1 DEF BracketInv, StackInv, Distinct
  <2>3. LifeInv'
    <3>1. CASE running # 0 \/ (broken /\ active = 0)
      BY <1>2, <2>1, <3>1 DEF LifeInv, Over
    <3>2. CASE ~(running # 0 \/ (broken /\ active = 0))
      <4>1. \A x : ~Innermost("pop", x)
        BY <2>1 DEF Innermost
      <4>2. \A x \in 1..Len(h) :
               \/ x = running
               \/ /\ h[x].started <=> h[x].life # "new"
                  /\ h[x].life = "ended" => x \notin ToSet(handlers) /\ active # x
        BY <3>2, <4>1 DEF BracketInv, LifeInv, Over
      <4> QED BY <2>1, <4>2 DEF LifeInv
    <3> QED BY <3>1, <3>2
  <2> QED BY <1>1, <1>2, <2>2, <2>3 DEF BracketInv
<1> QED BY <1>3, <1>4

LEMMA ExitKeeps ==
    ASSUME OutputInv, OutputInv', BracketInv, Exit
    PROVE  BracketInv'
<1>1. Op /\ Bailout(FALSE) /\ calls # <<>> /\ top.do = "user"
  BY DEF Exit, InHandler
<1>2. phase \in Phases \ {"off", "undefined"} /\ top.do \in {"user", "op"}
  BY <1>1, OpTypes
<1> QED BY <1>1, <1>2, BailoutKeeps

LEMMA LockedKeeps ==
    ASSUME OutputInv, OutputInv', BracketInv, HandlerLocked
    PROVE  BracketInv'
<1>1. Bailout(TRUE) /\ Calling
  BY DEF HandlerLocked, LockError
<1>2. phase \in Phases \ {"off", "undefined"}
  BY <1>1, BufferType DEF OutputInv, DataOK
<1> QED BY <1>1, <1>2, BailoutKeeps

LEMMA ClientGoneKeeps ==
    ASSUME OutputInv, OutputInv', BracketInv, ClientGone
    PROVE  BracketInv'
<1>1. CASE Bailout(FALSE)
  <2>1. Doing("op")
    BY DEF ClientGone
  <2>2. phase \in Phases \ {"off", "undefined"} /\ calls # <<>> /\ top.do \in {"user", "op"}
    BY <2>1, DoingTypes
  <2> QED BY <1>1, <2>2, BailoutKeeps
<1>2. CASE ~Bailout(FALSE)
  BY <1>2, ReturnsKeep
<1> QED BY <1>1, <1>2

LEMMA EndOfPhaseKeeps ==
    ASSUME OutputInv, OutputInv', BracketInv, EndOfPhase
    PROVE  BracketInv'
<1>1. /\ calls = <<>> /\ phase \in {"script", "functions", "destructors"} /\ NextPhase
      /\ UNCHANGED <<h, handlers, active, running, broken, fatal>>
  BY DEF EndOfPhase
<1>2. phase \in Phases \ {"off", "undefined"} /\ phase' \in {"functions", "destructors", "flush"}
  BY <1>1 DEF Phases, NextPhase, After
<1>3. /\ CallsInv' /\ NoUser(calls') /\ NoUser(calls)
      /\ \A f \in Calls' : f.do = "all"
      /\ Calls = {}
  BY <1>1, <1>2, ClearedCalls, Cleared, EmptyShape, OnNone DEF Calls
<1>4. Disabled' = Disabled
  BY <1>1 DEF Disabled
<1>5. StackInv'
  BY <1>1 DEF BracketInv, StackInv, Distinct
<1>6. LifeInv'
  <2>1. CASE Over
    BY <1>1, <1>3, <2>1 DEF LifeInv, Over
  <2>2. CASE ~Over
    <3>1. \A x : ~Innermost("pop", x)
      BY <1>1 DEF Innermost
    <3> QED BY <1>1, <2>2, <3>1 DEF BracketInv, LifeInv
  <2> QED BY <2>1, <2>2
<1>7. ASSUME ~fatal PROVE SoundInv'
  <2>1. SoundInv
    BY <1>7 DEF BracketInv
  <2>2. active = NewActive(handlers) /\ NewActive(handlers') = NewActive(handlers)
    BY <1>1, <1>3, <2>1 DEF SoundInv, Pushing, Calls, NewActive
  <2>3. ASSUME NEW x \in 1..Len(h), h[x].live PROVE x \in ToSet(handlers)
    BY <1>3, <2>1, <2>3 DEF SoundInv, Freeing, Calls
  <2>4. \A f \in ToSet(calls') : f.do # "push"
    BY <1>3 DEF Calls
  <2>5. running = 0
    BY <1>3, <2>1 DEF SoundInv
  <2>6. ASSUME NEW x \in 1..Len(h'), ~h'[x].live
        PROVE  h'[x].buffer = <<>> /\ (x \in Disabled' \/ h'[x].life = "ended")
    BY <1>1, <1>4, <2>1, <2>6 DEF SoundInv
  <2>7. Disabled' = {} => phase' # "undefined" /\ (~broken' \/ phase' = "off")
    BY <1>1, <1>2, <1>4, <2>1 DEF SoundInv
  <2>8. \A i \in 1..Len(handlers') : h'[handlers'[i]].live /\ h'[handlers'[i]].level = i - 1
    BY <1>1, <2>1 DEF SoundInv
  <2>9. phase' # "off" /\ active' = NewActive(handlers') /\ running' = 0
    BY <1>1, <1>2, <2>2, <2>5
  <2>10. \A x \in 1..Len(h') : h'[x].live => x \in ToSet(handlers')
    BY <1>1, <2>3
  <2> QED BY <2>4, <2>6, <2>7, <2>8, <2>9, <2>10 DEF SoundInv
<1> QED BY <1>1, <1>3, <1>5, <1>6, <1>7 DEF BracketInv

\* php_output_end_all is through: nothing is on the stack that php_output_deactivate
\* would destroy.
LEMMA EndAllEndsKeeps ==
    ASSUME OutputInv, OutputInv', BracketInv, Doing("all"), active = 0,
           php_output_deactivate, NextPhase, fatal' = fatal
    PROVE  BracketInv'
<1>1. calls # <<>> /\ top.do = "all" /\ phase \in Phases \ {"off", "undefined"} /\ CallsInv
  BY DoingTypes DEF BracketInv
<1>2. FrameInv(top) /\ Calls = {top}
  <2>1. rest = <<>>
    BY <1>1, Core DEF Link
  <2> QED BY <1>1, <2>1, Core
<1>3. phase = "flush" /\ phase' = "off"
  BY <1>1, <1>2 DEF FrameInv, NextPhase, After
<1>4. handlers = <<>> /\ ToSet(handlers) = {}
  BY OnNone DEF BracketInv, StackInv
<1>5. Len(h') = Len(h) /\ \A x \in 1..Len(h) : h'[x] = h[x]
  <2>1. h' = Freed({})
    BY <1>4 DEF php_output_deactivate
  <2>2. Len(h') = Len(h)
    BY <2>1, FreedType
  <2> QED BY <2>1, <2>2, Sizes DEF Freed
<1>6. /\ handlers' = <<>> /\ active' = 0 /\ running' = 0 /\ broken' = TRUE
  BY DEF php_output_deactivate
<1>7. CallsInv' /\ NoUser(calls') /\ \A f \in Calls' : f.do = "all"
  BY <1>1, ClearedCalls, Cleared
<1>8. LifeInv'
  BY <1>6, <1>7 DEF LifeInv, Over
<1>9. ASSUME ~fatal PROVE SoundInv'
  <2>1. SoundInv
    BY <1>9 DEF BracketInv
  <2>2. \A x \in 1..Len(h) : ~h[x].live
    BY <1>1, <1>2, <1>4, <2>1 DEF SoundInv, Freeing, Calls
  <2>3. \A x \in 1..Len(h) : h[x].buffer = <<>> /\ (x \in Disabled \/ h[x].life = "ended")
    BY <2>1, <2>2 DEF SoundInv
  <2>4. \A x \in 1..Len(h') : /\ ~h'[x].live /\ h'[x].buffer = <<>>
                              /\ x \in Disabled' \/ h'[x].life = "ended"
    BY <1>5, <2>2, <2>3 DEF Disabled
  <2>5. active' = NewActive(handlers') /\ Len(handlers') = 0
    BY <1>6 DEF NewActive
  <2>6. \A f \in ToSet(calls') : f.do # "push"
    BY <1>7 DEF Calls
  <2> QED BY <1>3, <1>6, <2>4, <2>5, <2>6 DEF SoundInv
<1> QED BY <1>7, <1>8, <1>9, DeactivatedStack DEF BracketInv

LEMMA EndAllKeeps ==
    ASSUME OutputInv, OutputInv', BracketInv, EndAll
    PROVE  BracketInv'
<1>1. CASE Popped /\ Call(PopFrame(active, top.discard))
  BY <1>1, EndAllPopsKeeps DEF EndAll, Popped
<1>2. CASE ~(Popped /\ Call(PopFrame(active, top.discard)))
  BY <1>2, EndAllEndsKeeps DEF EndAll, Popped
<1> QED BY <1>1, <1>2

\* Handlers are run; none is created, pushed, popped or destroyed.
LEMMA SoundRun ==
    ASSUME OutputInv, SoundInv, Len(h') = Len(h),
           \A y \in 1..Len(h) : h'[y].live = h[y].live /\ h'[y].level = h[y].level,
           \A y \in 1..Len(h) : ~h[y].live =>
              h'[y].buffer = <<>> /\ (y \in Disabled' \/ h'[y].life = "ended"),
           Disabled \subseteq Disabled',
           \A f : f.do \in {"push", "free"} => (f \in Calls <=> f \in Calls'),
           running' # 0 => ~NoUser(calls'),
           UNCHANGED <<handlers, active, broken, phase>>
    PROVE  SoundInv'
<1>1. ASSUME NEW f \in Calls, f.do = "push" PROVE f.x \in 1..Len(h)
  <2>1. f \in Fr
    BY OnCalls
  <2> QED BY <1>1, <2>1, Sizes DEF Fr, Frames, FrameType, FrameOK
<1>2. handlers \in Seq(1..Len(h))
  BY DEF OutputInv, DataOK
<1>3. \A i \in 1..Len(handlers') : h'[handlers'[i]].live /\ h'[handlers'[i]].level = i - 1
  <2> SUFFICES ASSUME NEW i \in 1..Len(handlers)
               PROVE  h'[handlers[i]].live /\ h'[handlers[i]].level = i - 1
    OBVIOUS
  <2>1. handlers[i] \in 1..Len(h)
    BY <1>2
  <2> QED BY <2>1 DEF SoundInv
<1>4. active' = NewActive(handlers') \/ (Pushing(active))'
  <2>1. (Pushing(active))' <=> Pushing(active)
    BY DEF Pushing, Calls
  <2> QED BY <2>1 DEF SoundInv, NewActive
<1>5. ASSUME NEW f \in ToSet(calls'), f.do = "push"
      PROVE  \/ active' = f.x /\ h'[f.x].live /\ h'[f.x].level = Len(handlers')
             \/ active' # f.x /\ f.x \in Disabled'
  <2>1. f \in ToSet(calls) /\ f.x \in 1..Len(h)
    BY <1>1, <1>5 DEF Calls
  <2> QED BY <1>5, <2>1 DEF SoundInv
<1>6. ASSUME NEW x \in 1..Len(h'), h'[x].live
      PROVE  \/ x \in ToSet(handlers') \/ (Freeing(x))'
             \/ \E f \in ToSet(calls') : f.do = "push" /\ (f.x = x \/ f.x # active')
  <2>1. \/ x \in ToSet(handlers) \/ Freeing(x)
        \/ \E f \in ToSet(calls) : f.do = "push" /\ (f.x = x \/ f.x # active)
    BY <1>6 DEF SoundInv
  <2>2. (Freeing(x))' <=> Freeing(x)
    BY DEF Freeing, Calls
  <2> QED BY <2>1, <2>2 DEF Calls
<1>7. ASSUME NEW x \in 1..Len(h'), ~h'[x].live
      PROVE  h'[x].buffer = <<>> /\ (x \in Disabled' \/ h'[x].life = "ended")
  BY <1>7
<1>8. /\ phase' = "off" => handlers' = <<>>
      /\ Disabled' = {} => phase' # "undefined" /\ (~broken' \/ phase' = "off")
  BY DEF SoundInv
<1> QED BY <1>3, <1>4, <1>5, <1>6, <1>7, <1>8 DEF SoundInv

\* The handler that is to be run.
LEMMA ToBeRun ==
    ASSUME OutputInv, BracketInv, Calling
    PROVE  /\ top.x \in 1..Len(h) /\ active # 0
           /\ top.x \in ToSet(handlers) \/ active = top.x
           /\ ~fatal => h[top.x].live
           /\ \A f \in Calls : f.do = "free" => f.x # top.x
           /\ calls # <<>> /\ CallsInv /\ top.st = "call" /\ FrameInv(top)
<1>1. calls # <<>> /\ CallsInv /\ top.st = "call"
  BY DEF Calling, BracketInv
<1>2. FrameInv(top) /\ top.x \in 1..Len(h) /\ \A f \in Calls : FrameInv(f)
  BY <1>1, Core
<1>3. top.x \in ToSet(handlers) \/ active = top.x
  BY <1>1, <1>2 DEF FrameInv
<1>4. active # 0
  <2>1. CASE active = top.x
    BY <1>2, <2>1, Sizes
  <2>2. CASE top.x \in ToSet(handlers)
    BY <2>2, OnNone DEF BracketInv, StackInv
  <2> QED BY <1>3, <2>1, <2>2
<1>5. \A f \in Calls : f.do = "free" => f.x # top.x
  BY <1>2, <1>3 DEF FrameInv
<1>6. ASSUME ~fatal PROVE h[top.x].live
  <2>1. SoundInv /\ handlers \in Seq(1..Len(h))
    BY <1>6 DEF BracketInv, OutputInv, DataOK
  <2>2. \A y \in ToSet(handlers) : h[y].live
    <3>1. DOMAIN handlers = 1..Len(handlers)
      BY <2>1
    <3> QED BY <2>1, <3>1 DEF SoundInv, ToSet
  <2>3. CASE active = NewActive(handlers)
    <3>1. active \in ToSet(handlers)
      <4>1. handlers # <<>> /\ active = Last(handlers)
        BY <1>4, <2>3 DEF NewActive
      <4>2. Len(handlers) \in 1..Len(handlers) /\ DOMAIN handlers = 1..Len(handlers)
            /\ Last(handlers) = handlers[Len(handlers)]
        BY <2>1, <4>1 DEF Last
      <4> QED BY <4>1, <4>2 DEF ToSet
    <3> QED BY <1>3, <2>2, <3>1
  <2>4. CASE Pushing(active)
    <3>1. h[active].live
      BY <2>1, <2>4 DEF SoundInv, Pushing
    <3> QED BY <1>3, <2>2, <3>1
  <2> QED BY <2>1, <2>3, <2>4 DEF SoundInv
<1> QED BY <1>1, <1>2, <1>3, <1>4, <1>5, <1>6

LEMMA StoresKeep ==
    ASSUME OutputInv, OutputInv', BracketInv, HandlerStores
    PROVE  BracketInv'
<1>0. Calling /\ top.op = {} /\ UNCHANGED <<handlers, active, running, broken, phase, fatal>>
  BY DEF HandlerStores
<1>1. /\ calls # <<>> /\ CallsInv /\ top.st = "call" /\ FrameInv(top) /\ top.x \in 1..Len(h)
      /\ ~fatal => h[top.x].live
  BY <1>0, ToBeRun
<1>2. top.do = "op" /\ top \in Fr
  BY <1>0, <1>1, TopCall DEF FrameInv
<1>3. PICK x \in 1..Len(h) : x = top.x
  BY <1>1
<1>4. PICK f : f = [top EXCEPT !.in = <<>>, !.st = "nodata"]
  OBVIOUS
<1>5. f.do = "op" /\ f.st = "nodata" /\ f.n = top.n /\ f.x = x
  BY <1>2, <1>3, <1>4 DEF Fr, Frames, FrameType
<1>6. f \in Fr
  <2>1. top.n # 0 /\ top.x # 0 /\ <<>> \in Seq(1..written)
    BY <1>1, <1>2, Sizes DEF Fr, Frames, FrameOK
  <2> QED BY <1>2, <1>4, <2>1 DEF Fr, Frames, FrameType, FrameOK, Statuses
<1>7. PICK buf : h' = [h EXCEPT ![x].buffer = buf] /\ calls' = <<f>> \o rest
  BY <1>3, <1>4 DEF HandlerStores
<1>8. /\ Len(h') = Len(h)
      /\ \A y \in 1..Len(h) : y # x => h'[y] = h[y]
      /\ \A y \in 1..Len(h) : /\ h'[y].started = h[y].started /\ h'[y].disabled = h[y].disabled
                              /\ h'[y].life = h[y].life /\ h'[y].live = h[y].live
                              /\ h'[y].level = h[y].level
  <2>1. h \in Seq(HandlerType(written)) /\ DOMAIN h = 1..Len(h)
    BY Sizes DEF OutputInv, DataOK
  <2>2. \A y \in 1..Len(h) : h[y] \in HandlerType(written)
    BY Sizes
  <2>3. Len(h') = Len(h)
    BY <1>7, <2>1
  <2>4. \A y \in 1..Len(h) : y # x => h'[y] = h[y]
    BY <1>7, <2>1
  <2>5. h'[x] = [h[x] EXCEPT !.buffer = buf]
    BY <1>7, <2>1
  <2>6. /\ h'[x].started = h[x].started /\ h'[x].disabled = h[x].disabled
        /\ h'[x].life = h[x].life /\ h'[x].live = h[x].live /\ h'[x].level = h[x].level
    BY <2>2, <2>5 DEF HandlerType
  <2> QED BY <2>3, <2>4, <2>6
<1>9. Disabled' = Disabled
  BY <1>8 DEF Disabled
<1>10. /\ rest \in Seq(Fr) /\ Calls = {top} \cup Below /\ Chain(rest, Disabled)
       /\ rest # <<>> => Link(top, Head(rest), Disabled)
       /\ \A g \in Below : FrameInv(g) /\ g.st # "call"
       /\ \A g \in Calls : g.do \notin {"op", "all"} => g.x \in 1..Len(h)
  BY <1>1, Core
<1>11. Calls' = {f} \cup Below
  BY <1>6, <1>7, <1>10, OnPushed DEF Calls, Below
<1>12. CallsInv'
  <2>1. Linked(calls', Disabled)
    <3>1. rest # <<>> => Link(f, Head(rest), Disabled)
      BY <1>2, <1>5, <1>10 DEF Link
    <3>2. f.st # "wait"
      BY <1>5
    <3> QED BY <1>6, <1>7, <1>10, <3>1, <3>2, LinkedPushed
  <2>2. FrameInv(f)'
    BY <1>0, <1>1, <1>2, <1>5, <1>9 DEF FrameInv
  <2>3. ASSUME NEW g \in Below PROVE FrameInv(g)'
    <3>1. ~Innermost("free", g.x)
      BY <1>2 DEF Innermost
    <3>2. FrameInv(g) /\ g.st # "call" /\ (g.do \notin {"op", "all"} => g.x \in 1..Len(h))
      BY <1>10
    <3> QED BY <1>0, <1>8, <1>9, <3>1, <3>2 DEF FrameInv, Done
  <2> QED BY <1>9, <1>11, <2>1, <2>2, <2>3 DEF CallsInv, Calls
<1>13. StackInv'
  BY <1>0 DEF BracketInv, StackInv, Distinct
<1>14. \A g : g.do \in {"push", "free", "user"} => (g \in Calls <=> g \in Calls')
  BY <1>2, <1>5, <1>10, <1>11
<1>15. NoUser(calls') <=> NoUser(calls)
  BY <1>14, OnCalls, OnCallsNext
<1>16. LifeInv'
  <2>1. CASE Over
    BY <1>0, <1>15, <2>1 DEF Over, LifeInv
  <2>2. CASE ~Over
    <3>1. \A y : ~Innermost("pop", y)
      BY <1>2 DEF Innermost
    <3> QED BY <1>0, <1>8, <2>2, <3>1 DEF BracketInv, LifeInv
  <2> QED BY <2>1, <2>2
<1>17. ASSUME ~fatal PROVE SoundInv'
  <2>1. SoundInv
    BY <1>17 DEF BracketInv
  <2>2. ASSUME NEW y \in 1..Len(h), ~h[y].live
        PROVE  h'[y].buffer = <<>> /\ (y \in Disabled' \/ h'[y].life = "ended")
    <3>1. y # x
      BY <1>1, <1>3, <1>17, <2>2
    <3> QED BY <1>8, <1>9, <2>1, <2>2, <3>1 DEF SoundInv
  <2>3. running' # 0 => ~NoUser(calls')
    BY <1>0, <1>15, <2>1 DEF SoundInv
  <2> QED BY <1>0, <1>8, <1>9, <1>14, <2>1, <2>2, <2>3, SoundRun
<1> QED BY <1>0, <1>12, <1>13, <1>16, <1>17 DEF BracketInv

\* A handler is run when no other runs, and not after its final call.
LEMMA ReadyToRun ==
    ASSUME OutputInv, BracketInv, Calling, ~Locked(top.op), NEW buf,
           top.op # {} \/ Full(top.x, top.in, buf)
    PROVE  /\ running = 0 /\ \A f \in Calls : f.do # "user"
           /\ \A f \in Below : f.do \in {"push", "free", "all"}
           /\ h[top.x].started <=> h[top.x].life # "new"
           /\ h[top.x].life # "ended"
           /\ \A y \in 1..Len(h) : /\ h[y].started <=> h[y].life # "new"
                                   /\ h[y].life = "ended" => y \notin ToSet(handlers) /\ active # y
           /\ top.do \in {"op", "flush", "clean", "pop"}
<1>1. running = 0 /\ NoUser(calls)
  BY NoneRuns
<1>2. /\ top.x \in 1..Len(h) /\ active # 0
      /\ top.x \in ToSet(handlers) \/ active = top.x
      /\ calls # <<>> /\ CallsInv /\ top.st = "call" /\ FrameInv(top)
  BY ToBeRun
<1>3. \A f \in Calls : f.do # "user"
  BY <1>1, OnCalls
<1>4. ASSUME NEW f \in Below PROVE f.do \in {"push", "free", "all"}
  <2>1. f \in Fr /\ f.do \notin {"op", "flush", "clean", "pop"} /\ f.do # "user"
    BY <1>2, <1>3, <1>4, Core
  <2> QED BY <2>1 DEF Fr, Frames, FrameType, Doings
<1>5. ~Over
  BY <1>1, <1>2 DEF Over
<1>6. ASSUME NEW y \in 1..Len(h)
      PROVE  /\ h[y].started <=> h[y].life # "new"
             /\ h[y].life = "ended" => y \notin ToSet(handlers) /\ active # y
  <2>1. y # running /\ ~Done(top)
    BY <1>1, <1>2 DEF Done
  <2> QED BY <1>5, <2>1 DEF BracketInv, LifeInv
<1>7. top.do \in {"op", "flush", "clean", "pop"}
  BY <1>2 DEF FrameInv
<1> QED BY <1>1, <1>2, <1>3, <1>4, <1>6, <1>7

\* A call below that waits for none, when a handler is run.
LEMMA BelowKeeps ==
    ASSUME NEW g, g.do \in {"push", "free", "all"}, FrameInv(g), g.st # "call",
           UNCHANGED <<handlers, active, phase>>, Disabled \subseteq Disabled',
           g.do = "free" => h'[g.x].life = h[g.x].life
    PROVE  FrameInv(g)'
BY DEF FrameInv

LEMMA CalledKeeps ==
    ASSUME OutputInv, OutputInv', BracketInv, HandlerCalled
    PROVE  BracketInv'
<1>0. /\ Calling /\ ~Locked(top.op)
      /\ top.op # {} \/ Full(top.x, top.in, h[top.x].buffer \o top.in)
      /\ UNCHANGED <<handlers, active, broken, phase, fatal>>
  BY DEF HandlerCalled
<1>1. /\ calls # <<>> /\ CallsInv /\ top.st = "call" /\ FrameInv(top) /\ top.x \in 1..Len(h)
      /\ ~fatal => h[top.x].live
      /\ \A f \in Calls : f.do = "free" => f.x # top.x
  BY <1>0, ToBeRun
<1>2. PICK x \in 1..Len(h) : x = top.x
  BY <1>1
<1>3. /\ running = 0 /\ (\A f \in Calls : f.do # "user")
      /\ \A f \in Below : f.do \in {"push", "free", "all"}
      /\ h[x].started <=> h[x].life # "new"
      /\ h[x].life # "ended"
      /\ \A y \in 1..Len(h) : /\ h[y].started <=> h[y].life # "new"
                              /\ h[y].life = "ended" => y \notin ToSet(handlers) /\ active # y
      /\ top.do \in {"op", "flush", "clean", "pop"}
  <2>1. PICK buf : buf = h[top.x].buffer \o top.in
    OBVIOUS
  <2>2. top.op # {} \/ Full(top.x, top.in, buf)
    BY <1>0, <2>1
  <2> QED BY <1>0, <1>2, <2>2, ReadyToRun
<1>4. PICK buf : buf = h[x].buffer \o top.in
  OBVIOUS
<1>5. PICK op : op = IF h[x].started THEN top.op ELSE top.op \cup {"start"}
  OBVIOUS
<1>6. PICK u : u = [Frame("user", x) EXCEPT !.op = op, !.in = buf, !.life = h[x].life]
  OBVIOUS
<1>7. PICK f : f = [top EXCEPT !.in = <<>>, !.st = "wait"]
  OBVIOUS
<1>8. /\ h' = [h EXCEPT ![x].buffer = buf, ![x].life = Lived(op)]
      /\ calls' = <<u, f>> \o rest /\ running' = x
  BY <1>2, <1>4, <1>5, <1>6, <1>7 DEF HandlerCalled
<1>9. top \in Fr
  BY <1>1, Core
<1>10. u.do = "user" /\ u.st = "none" /\ u.x = x /\ u.op = op /\ u.life = h[x].life
  BY <1>6 DEF Frame
<1>11. f.do = top.do /\ f.st = "wait" /\ f.x = x /\ f.n = top.n
  BY <1>2, <1>7, <1>9 DEF Fr, Frames, FrameType
<1>12. /\ Len(h') = Len(h)
       /\ \A y \in 1..Len(h) : y # x => h'[y] = h[y]
       /\ \A y \in 1..Len(h) : /\ h'[y].started = h[y].started /\ h'[y].disabled = h[y].disabled
                               /\ h'[y].live = h[y].live /\ h'[y].level = h[y].level
       /\ h'[x].life = Lived(op)
  <2>1. h \in Seq(HandlerType(written)) /\ DOMAIN h = 1..Len(h)
    BY Sizes DEF OutputInv, DataOK
  <2>2. h[x] \in HandlerType(written)
    BY Sizes
  <2>3. Len(h') = Len(h)
    BY <1>8, <2>1
  <2>4. \A y \in 1..Len(h) : y # x => h'[y] = h[y]
    BY <1>8, <2>1
  <2>5. h'[x] = [h[x] EXCEPT !.buffer = buf, !.life = Lived(op)]
    BY <1>8, <2>1, <2>2 DEF HandlerType
  <2>6. /\ h'[x].started = h[x].started /\ h'[x].disabled = h[x].disabled
        /\ h'[x].live = h[x].live /\ h'[x].level = h[x].level /\ h'[x].life = Lived(op)
    BY <2>2, <2>5 DEF HandlerType
  <2> QED BY <2>3, <2>4, <2>6
<1>13. Disabled' = Disabled
  BY <1>12 DEF Disabled
<1>14. /\ "start" \in op <=> h[x].life = "new"
       /\ "final" \in op <=> top.do = "pop"
  BY <1>1, <1>2, <1>3, <1>5 DEF FrameInv
<1>15. /\ rest \in Seq(Fr) /\ Calls = {top} \cup Below /\ Chain(rest, Disabled)
       /\ rest # <<>> => Link(top, Head(rest), Disabled) /\ Head(rest) \in Below
       /\ \A g \in Below : FrameInv(g) /\ g.st # "call"
       /\ \A g \in Calls : g.do \notin {"op", "all"} => g.x \in 1..Len(h)
  BY <1>1, Core
<1>16. PICK F : rest \in Seq(F) /\ u \in F /\ f \in F
  <2>1. rest \in Seq(Fr \cup {u, f})
    BY <1>15, SeqMonotonic
  <2> QED BY <2>1
<1>17. PICK s \in Seq(F) : s = <<f>> \o rest
  BY <1>16, Pushed
<1>18. calls' = <<u>> \o s /\ s # <<>> /\ Head(s) = f
  <2>1. s # <<>> /\ Head(s) = f
    BY <1>16, <1>17, Pushed
  <2>2. <<u, f>> \o rest = <<u>> \o (<<f>> \o rest)
    BY <1>16, PushedTwo
  <2> QED BY <1>8, <1>17, <2>1, <2>2
<1>19. Calls' = {u, f} \cup Below
  <2>1. ToSet(s) = {f} \cup Below
    BY <1>16, <1>17, OnPushed DEF Below
  <2>2. Calls' = {u} \cup ToSet(s)
    BY <1>16, <1>18, OnPushed DEF Calls
  <2> QED BY <2>1, <2>2
<1>20. CallsInv'
  <2>1. Linked(calls', Disabled)
    <3>1. rest # <<>> => Link(f, Head(rest), Disabled)
      BY <1>3, <1>11, <1>15 DEF Link
    <3>2. Chain(s, Disabled)
      BY <1>15, <1>16, <1>17, <3>1, LinkedPushed
    <3>3. Link(u, f, Disabled)
      BY <1>3, <1>10, <1>11, <1>14 DEF Link
    <3>4. u.st # "wait"
      BY <1>10
    <3> QED BY <1>16, <1>18, <3>2, <3>3, <3>4, LinkedPushed
  <2>2. FrameInv(u)'
    BY <1>3, <1>8, <1>10, <1>12, <1>14 DEF FrameInv, Bracketed
  <2>3. FrameInv(f)'
    BY <1>0, <1>1, <1>2, <1>3, <1>11, <1>13 DEF FrameInv, Done
  <2>4. ASSUME NEW g \in Below PROVE FrameInv(g)'
    <3>1. /\ FrameInv(g) /\ g.st # "call" /\ g.do \in {"push", "free", "all"}
          /\ g.do = "free" => g.x \in 1..Len(h) /\ g.x # x
      BY <1>1, <1>2, <1>3, <1>15
    <3>2. g.do = "free" => h'[g.x].life = h[g.x].life
      BY <1>12, <3>1
    <3> QED BY <1>0, <1>13, <3>1, <3>2, BelowKeeps
  <2> QED BY <1>13, <1>19, <2>1, <2>2, <2>3, <2>4 DEF CallsInv, Calls
<1>21. StackInv'
  BY <1>0 DEF BracketInv, StackInv, Distinct
<1>22. LifeInv'
  <2>1. ASSUME NEW y \in 1..Len(h), y # x
        PROVE  /\ h'[y].started <=> h'[y].life # "new"
               /\ h'[y].life = "ended" => y \notin ToSet(handlers') /\ active' # y
    BY <1>0, <1>3, <1>12, <2>1
  <2> QED BY <1>8, <1>12, <2>1 DEF LifeInv
<1>23. ASSUME ~fatal PROVE SoundInv'
  <2>1. SoundInv
    BY <1>23 DEF BracketInv
  <2>2. ASSUME NEW y \in 1..Len(h), ~h[y].live
        PROVE  h'[y].buffer = <<>> /\ (y \in Disabled' \/ h'[y].life = "ended")
    <3>1. y # x
      BY <1>1, <1>2, <1>23, <2>2
    <3> QED BY <1>12, <1>13, <2>1, <2>2, <3>1 DEF SoundInv
  <2>3. running' # 0 => ~NoUser(calls')
    BY <1>10, <1>19, OnCallsNext
  <2>4. \A g : g.do \in {"push", "free"} => (g \in Calls <=> g \in Calls')
    BY <1>3, <1>10, <1>11, <1>15, <1>19
  <2> QED BY <1>0, <1>12, <1>13, <2>1, <2>2, <2>3, <2>4, SoundRun
<1> QED BY <1>0, <1>20, <1>21, <1>22, <1>23 DEF BracketInv

LEMMA InternalKeeps ==
    ASSUME OutputInv, OutputInv', BracketInv, HandlerInternal
    PROVE  BracketInv'
<1>0. /\ Calling /\ ~Locked(top.op)
      /\ top.op # {} \/ Full(top.x, top.in, h[top.x].buffer \o top.in)
      /\ UNCHANGED <<handlers, active, broken, phase, fatal>>
      /\ running' = 0
  BY DEF HandlerInternal
<1>1. /\ calls # <<>> /\ CallsInv /\ top.st = "call" /\ FrameInv(top) /\ top.x \in 1..Len(h)
      /\ ~fatal => h[top.x].live
      /\ \A f \in Calls : f.do = "free" => f.x # top.x
  BY <1>0, ToBeRun
<1>2. PICK x \in 1..Len(h) : x = top.x
  BY <1>1
<1>3. /\ \A f \in Calls : f.do # "user"
      /\ \A f \in Below : f.do \in {"push", "free", "all"}
      /\ \A y \in 1..Len(h) : /\ h[y].started <=> h[y].life # "new"
                              /\ h[y].life = "ended" => y \notin ToSet(handlers) /\ active # y
      /\ top.do \in {"op", "flush", "clean", "pop"}
  <2>1. PICK buf : buf = h[top.x].buffer \o top.in
    OBVIOUS
  <2>2. top.op # {} \/ Full(top.x, top.in, buf)
    BY <1>0, <2>1
  <2> QED BY <1>0, <2>2, ReadyToRun
<1>4. PICK buf : buf = h[x].buffer \o top.in
  OBVIOUS
<1>5. PICK op : op = IF h[x].started THEN top.op ELSE top.op \cup {"start"}
  OBVIOUS
<1>6. PICK status \in {"nodata", "success"} :
         status = IF buf = <<>> THEN "nodata" ELSE "success"
  OBVIOUS
<1>7. PICK e : e = [Result(h[x], status) EXCEPT !.life = Lived(op)]
  OBVIOUS
<1>8. PICK f : f = [top EXCEPT !.in = <<>>, !.out = buf, !.st = status]
  OBVIOUS
<1>9. /\ h' = [h EXCEPT ![x] = e]
      /\ calls' = <<f>> \o rest
  BY <1>2, <1>4, <1>5, <1>6, <1>7, <1>8 DEF HandlerInternal
<1>10. top \in Fr
  BY <1>1, Core
<1>11. f.do = top.do /\ f.st = status /\ f.x = x /\ f.n = top.n
  BY <1>2, <1>8, <1>10 DEF Fr, Frames, FrameType
<1>12. /\ Len(h') = Len(h)
       /\ \A y \in 1..Len(h) : y # x => h'[y] = h[y]
       /\ \A y \in 1..Len(h) : /\ h'[y].disabled <=> h[y].disabled
                               /\ h'[y].live = h[y].live /\ h'[y].level = h[y].level
       /\ h'[x].life = Lived(op) /\ h'[x].started
  <2>1. h \in Seq(HandlerType(written)) /\ DOMAIN h = 1..Len(h)
    BY Sizes DEF OutputInv, DataOK
  <2>2. h[x] \in HandlerType(written)
    BY Sizes
  <2>3. Len(h') = Len(h)
    BY <1>9, <2>1
  <2>4. \A y \in 1..Len(h) : y # x => h'[y] = h[y]
    BY <1>9, <2>1
  <2>5. h'[x] = e
    BY <1>9, <2>1
  <2>6. /\ e.disabled <=> h[x].disabled
        /\ e.live = h[x].live /\ e.level = h[x].level /\ e.life = Lived(op) /\ e.started
    BY <1>6, <1>7, <2>2 DEF HandlerType, Result
  <2> QED BY <2>3, <2>4, <2>5, <2>6
<1>13. Disabled' = Disabled
  BY <1>12 DEF Disabled
<1>14. "final" \in op <=> top.do = "pop"
  BY <1>1, <1>2, <1>3, <1>5 DEF FrameInv
<1>15. /\ rest \in Seq(Fr) /\ Calls = {top} \cup Below /\ Chain(rest, Disabled)
       /\ rest # <<>> => Link(top, Head(rest), Disabled) /\ Head(rest) \in Below
       /\ \A g \in Below : FrameInv(g) /\ g.st # "call"
       /\ \A g \in Calls : g.do \notin {"op", "all"} => g.x \in 1..Len(h)
  BY <1>1, Core
<1>16. PICK F : rest \in Seq(F) /\ f \in F
  <2>1. rest \in Seq(Fr \cup {f})
    BY <1>15, SeqMonotonic
  <2> QED BY <2>1
<1>17. Calls' = {f} \cup Below
  BY <1>9, <1>16, OnPushed DEF Calls, Below
<1>18. calls' # <<>> /\ Head(calls') = f
  BY <1>9, <1>16, Pushed
<1>19. f.st \notin {"call", "wait", "none"}
  BY <1>6, <1>11
<1>20. CallsInv'
  <2>1. Linked(calls', Disabled)
    <3>1. rest # <<>> => Link(f, Head(rest), Disabled)
      BY <1>3, <1>11, <1>15 DEF Link
    <3> QED BY <1>9, <1>15, <1>16, <1>19, <3>1, LinkedPushed
  <2>2. FrameInv(f)'
    <3>1. f.do = "pop" => h'[f.x].life = "ended"
      BY <1>11, <1>12, <1>14 DEF Lived
    <3> QED BY <1>0, <1>1, <1>2, <1>3, <1>11, <1>13, <1>19, <3>1 DEF FrameInv, Done
  <2>3. ASSUME NEW g \in Below PROVE FrameInv(g)'
    <3>1. /\ FrameInv(g) /\ g.st # "call" /\ g.do \in {"push", "free", "all"}
          /\ g.do = "free" => g.x \in 1..Len(h) /\ g.x # x
      BY <1>1, <1>2, <1>3, <1>15
    <3>2. g.do = "free" => h'[g.x].life = h[g.x].life
      BY <1>12, <3>1
    <3> QED BY <1>0, <1>13, <3>1, <3>2, BelowKeeps
  <2> QED BY <1>13, <1>17, <2>1, <2>2, <2>3 DEF CallsInv, Calls
<1>21. StackInv'
  BY <1>0 DEF BracketInv, StackInv, Distinct
<1>22. LifeInv'
  <2>1. ASSUME NEW y \in 1..Len(h), y # x
        PROVE  /\ h'[y].started <=> h'[y].life # "new"
               /\ h'[y].life = "ended" => y \notin ToSet(handlers') /\ active' # y
    BY <1>0, <1>3, <1>12, <2>1
  <2>2. h'[x].started <=> h'[x].life # "new"
    BY <1>12 DEF Lived
  <2>3. h'[x].life = "ended" => (Innermost("pop", x) /\ Done(top))'
    BY <1>11, <1>12, <1>14, <1>18, <1>19 DEF Lived, Innermost, Done, top
  <2> QED BY <1>12, <2>1, <2>2, <2>3 DEF LifeInv
<1>23. ASSUME ~fatal PROVE SoundInv'
  <2>1. SoundInv
    BY <1>23 DEF BracketInv
  <2>2. ASSUME NEW y \in 1..Len(h), ~h[y].live
        PROVE  h'[y].buffer = <<>> /\ (y \in Disabled' \/ h'[y].life = "ended")
    <3>1. y # x
      BY <1>1, <1>2, <1>23, <2>2
    <3> QED BY <1>12, <1>13, <2>1, <2>2, <3>1 DEF SoundInv
  <2>3. running' # 0 => ~NoUser(calls')
    BY <1>0
  <2>4. \A g : g.do \in {"push", "free"} => (g \in Calls <=> g \in Calls')
    BY <1>3, <1>11, <1>15, <1>17
  <2> QED BY <1>0, <1>12, <1>13, <2>1, <2>2, <2>3, <2>4, SoundRun
<1> QED BY <1>0, <1>20, <1>21, <1>22, <1>23 DEF BracketInv

\* Below a user handler and the call that runs it.
LEMMA BelowUser ==
    ASSUME OutputInv, CallsInv, InHandler
    PROVE  /\ rest # <<>> /\ rest \in Seq(Fr) /\ Tail(rest) \in Seq(Fr)
           /\ Head(rest) \in Fr /\ Head(rest) = calls[2] /\ Head(rest).st = "wait"
           /\ Head(rest).do \in {"op", "flush", "clean", "pop"} /\ Head(rest).x = top.x
           /\ "final" \in top.op <=> Head(rest).do = "pop"
           /\ Calls = {top, Head(rest)} \cup ToSet(Tail(rest))
           /\ \A f \in ToSet(Tail(rest)) : f.do \in {"push", "free", "all"}
           /\ Chain(Tail(rest), Disabled)
           /\ Tail(rest) # <<>> => /\ Head(Tail(rest)) \in ToSet(Tail(rest))
                                   /\ Link(Head(rest), Head(Tail(rest)), Disabled)
<1>1. calls # <<>> /\ top.do = "user"
  BY DEF InHandler
<1>2. /\ rest # <<>> /\ rest \in Seq(Fr) /\ Head(rest) \in Fr /\ Head(rest) = calls[2]
      /\ Head(rest).st = "wait" /\ Head(rest).do # "user" /\ Head(rest).x = top.x /\ NoUser(rest)
  BY <1>1, TopCall
<1>3. /\ Calls = {top} \cup Below /\ Chain(rest, Disabled)
      /\ Link(top, Head(rest), Disabled)
      /\ \A f \in Below : f.do # "user"
  BY <1>1, <1>2, Core
<1>4. PICK r \in Seq(Fr) : r = rest
  BY <1>2
<1>5. /\ r # <<>> /\ Tail(r) \in Seq(Fr) /\ Len(r) \in Nat \ {0} /\ Len(Tail(r)) = Len(r) - 1
      /\ Head(r) = r[1] /\ \A i \in 1..(Len(r) - 1) : Tail(r)[i] = r[i + 1]
  BY <1>2, <1>4, PoppedOne
<1>6. ToSet(r) = {Head(r)} \cup ToSet(Tail(r))
  BY <1>2, <1>4, OnPopped
<1>7. PICK t \in Seq(Fr) : t = Tail(r)
  BY <1>5
<1>8. /\ DOMAIN t = 1..Len(t) /\ Len(t) = Len(r) - 1 /\ DOMAIN r = 1..Len(r)
      /\ \A i \in 1..Len(t) : t[i] = r[i + 1] /\ i \in 1..Len(r) /\ i + 1 \in 1..Len(r)
  BY <1>5, <1>7
<1>9. ASSUME NEW i \in 1..Len(t) PROVE Link(r[i], t[i], Disabled) /\ r[i].do # "user" /\ t[i] \in Fr
  <2>1. i \in 1..(Len(r) - 1) /\ t[i] = r[i + 1] /\ i \in DOMAIN r
    BY <1>5, <1>8, <1>9
  <2>2. Link(r[i], r[i + 1], Disabled)
    BY <1>3, <1>4, <2>1 DEF Chain
  <2>3. r[i] \in Below
    BY <1>4, <2>1 DEF Below, ToSet
  <2> QED BY <1>3, <1>9, <2>1, <2>2, <2>3
<1>10. ASSUME NEW f \in ToSet(t) PROVE f.do \in {"push", "free", "all"}
  <2>1. PICK i \in 1..Len(t) : f = t[i]
    BY <1>8, <1>10 DEF ToSet
  <2>2. Link(r[i], f, Disabled) /\ r[i].do # "user" /\ f \in Below
    <3>1. f \in ToSet(r)
      BY <1>6, <1>7, <1>10
    <3> QED BY <1>4, <1>9, <2>1, <3>1 DEF Below
  <2> QED BY <1>3, <2>2 DEF Link
<1>11. Chain(t, Disabled)
  <2>1. ASSUME NEW i \in 1..(Len(t) - 1) PROVE Link(t[i], t[i + 1], Disabled)
    <3>1. i \in 1..Len(t) /\ i + 1 \in 1..Len(t)
      BY <1>8, <2>1, <1>5
    <3>2. Link(r[i + 1], t[i + 1], Disabled) /\ t[i] = r[i + 1]
      BY <1>8, <1>9, <3>1
    <3> QED BY <3>2
  <2> QED BY <2>1 DEF Chain
<1>12. ASSUME t # <<>> PROVE Head(t) \in ToSet(t) /\ Link(Head(r), Head(t), Disabled)
  <2>1. 1 \in 1..Len(t) /\ Head(t) = t[1]
    BY <1>12
  <2>2. Head(t) \in ToSet(t)
    BY <1>8, <2>1 DEF ToSet
  <2> QED BY <1>5, <1>9, <2>1, <2>2
<1>13. Head(rest).do \in {"op", "flush", "clean", "pop"} /\ ("final" \in top.op <=> Head(rest).do = "pop")
  BY <1>1, <1>2, <1>3 DEF Link
<1> QED BY <1>2, <1>3, <1>4, <1>6, <1>7, <1>10, <1>11, <1>12, <1>13 DEF Below

LEMMA ReturnKeeps ==
    ASSUME OutputInv, OutputInv', BracketInv, NEW status \in {"success", "nodata", "failure"},
           Return(status)
    PROVE  BracketInv'
<1>0. /\ InHandler /\ calls # <<>> /\ top.do = "user" /\ CallsInv
      /\ UNCHANGED <<handlers, active, broken, phase, fatal>> /\ running' = 0
  BY DEF Return, InHandler, BracketInv
<1>1. /\ rest # <<>> /\ rest \in Seq(Fr) /\ Tail(rest) \in Seq(Fr)
      /\ Head(rest) \in Fr /\ Head(rest) = calls[2] /\ Head(rest).st = "wait"
      /\ Head(rest).do \in {"op", "flush", "clean", "pop"} /\ Head(rest).x = top.x
      /\ "final" \in top.op <=> Head(rest).do = "pop"
      /\ Calls = {top, Head(rest)} \cup ToSet(Tail(rest))
      /\ \A f \in ToSet(Tail(rest)) : f.do \in {"push", "free", "all"}
      /\ Chain(Tail(rest), Disabled)
      /\ Tail(rest) # <<>> => /\ Head(Tail(rest)) \in ToSet(Tail(rest))
                              /\ Link(Head(rest), Head(Tail(rest)), Disabled)
  BY <1>0, BelowUser
<1>2. PICK g \in Fr : g = Head(rest)
  BY <1>1
<1>3. PICK t \in Seq(Fr) : t = Tail(rest)
  BY <1>1
<1>4. /\ FrameInv(top) /\ FrameInv(g) /\ \A f \in ToSet(t) : FrameInv(f)
      /\ \A f \in Calls : f.do \notin {"op", "all"} => f.x \in 1..Len(h)
      /\ \A f \in ToSet(t) : f.st # "call"
  <2>1. Calls = {top} \cup Below /\ top.do = "user" /\ \A f \in Below : FrameInv(f) /\ f.st # "call"
    BY <1>0, Core
  <2>2. g \in Below /\ ToSet(t) \subseteq Below
    <3>1. Below = {g} \cup ToSet(t)
      BY <1>1, <1>2, <1>3, OnPopped DEF Below
    <3> QED BY <3>1
  <2> QED BY <1>0, <2>1, <2>2, Core
<1>5. top.x \in 1..Len(h)
  BY <1>0, <1>1, <1>4
<1>6. PICK x \in 1..Len(h) : x = top.x
  BY <1>5
<1>7. running = x /\ h[x].life = Lived(top.op) /\ g.x = x
  BY <1>0, <1>1, <1>2, <1>4, <1>6 DEF FrameInv
<1>8. PICK e : e = Result(h[x], status)
  OBVIOUS
<1>9. PICK f : f = [g EXCEPT !.out = Out(h[x], status, top.in), !.st = status]
  OBVIOUS
<1>10. /\ h' = [h EXCEPT ![x] = e]
       /\ calls' = <<f>> \o t
  BY <1>1, <1>2, <1>3, <1>6, <1>8, <1>9 DEF Return
<1>11. f.do = g.do /\ f.st = status /\ f.x = x /\ f.n = g.n /\ f.st \notin {"call", "wait", "none"}
  BY <1>7, <1>9 DEF Fr, Frames, FrameType
<1>12. /\ Len(h') = Len(h)
       /\ \A y \in 1..Len(h) : y # x => h'[y] = h[y]
       /\ \A y \in 1..Len(h) : /\ h[y].disabled => h'[y].disabled
                               /\ h'[y].life = h[y].life
                               /\ h'[y].live = h[y].live /\ h'[y].level = h[y].level
       /\ h'[x].started /\ h'[x].buffer = <<>>
  <2>1. h \in Seq(HandlerType(written)) /\ DOMAIN h = 1..Len(h)
    BY Sizes DEF OutputInv, DataOK
  <2>2. h[x] \in HandlerType(written)
    BY Sizes
  <2>3. Len(h') = Len(h)
    BY <1>10, <2>1
  <2>4. \A y \in 1..Len(h) : y # x => h'[y] = h[y]
    BY <1>10, <2>1
  <2>5. h'[x] = e
    BY <1>10, <2>1
  <2>6. /\ h[x].disabled => e.disabled
        /\ e.live = h[x].live /\ e.level = h[x].level /\ e.life = h[x].life /\ e.started
        /\ e.buffer = <<>>
    BY <1>8, <2>2 DEF HandlerType, Result
  <2> QED BY <2>3, <2>4, <2>5, <2>6
<1>13. Disabled \subseteq Disabled'
  BY <1>12 DEF Disabled
<1>14. PICK F : t \in Seq(F) /\ f \in F
  <2>1. t \in Seq(Fr \cup {f})
    BY SeqMonotonic
  <2> QED BY <2>1
<1>15. Calls' = {f} \cup ToSet(t) /\ calls' # <<>> /\ Head(calls') = f
  BY <1>10, <1>14, OnPushed, Pushed DEF Calls
<1>16. g.do \in {"flush", "clean"} => active = x
  BY <1>0, <1>4, <1>7 DEF FrameInv, Innermost
<1>17. CallsInv'
  <2>1. Linked(calls', Disabled')
    <3>1. t # <<>> => Link(f, Head(t), Disabled)
      BY <1>1, <1>2, <1>3, <1>11 DEF Link
    <3>2. Chain(t, Disabled)
      BY <1>1, <1>3
    <3>3. Linked(calls', Disabled)
      BY <1>10, <1>11, <1>14, <3>1, <3>2, LinkedPushed
    <3> QED BY <1>13, <3>3, LinkedGrows
  <2>2. FrameInv(f)'
    <3>1. f.do = "pop" => h'[f.x].life = "ended"
      BY <1>1, <1>2, <1>7, <1>11, <1>12 DEF Lived
    <3>2. f.do = "op" => fatal' \/ Disabled' # {} \/ f.n <= Len(handlers')
      BY <1>0, <1>4, <1>11, <1>13 DEF FrameInv
    <3>3. f.do = "pop" => active' = f.x
      BY <1>0, <1>4, <1>7, <1>11 DEF FrameInv
    <3>4. f.do \in {"op", "flush", "clean", "pop"}
      BY <1>1, <1>2, <1>11
    <3> QED BY <1>0, <1>11, <1>16, <3>1, <3>2, <3>3, <3>4 DEF FrameInv, Done
  <2>3. ASSUME NEW k \in ToSet(t) PROVE FrameInv(k)'
    <3>1. /\ FrameInv(k) /\ k.st # "call" /\ k.do \in {"push", "free", "all"}
          /\ k.do = "free" => k.x \in 1..Len(h)
      BY <1>1, <1>3, <1>4
    <3>2. k.do = "free" => h'[k.x].life = h[k.x].life
      BY <1>12, <3>1
    <3> QED BY <1>0, <1>13, <3>1, <3>2, BelowKeeps
  <2> QED BY <1>15, <2>1, <2>2, <2>3 DEF CallsInv, Calls
<1>18. StackInv'
  BY <1>0 DEF BracketInv, StackInv, Distinct
<1>19. LifeInv'
  <2>0. ~Over /\ \A y : ~Innermost("pop", y)
    <3>1. ~NoUser(calls)
      BY <1>0, <1>1, OnCalls
    <3> QED BY <1>0, <3>1 DEF Over, Innermost
  <2>1. ASSUME NEW y \in 1..Len(h), y # x
        PROVE  /\ h'[y].started <=> h'[y].life # "new"
               /\ h'[y].life = "ended" => y \notin ToSet(handlers') /\ active' # y
    <3>1. /\ h[y].started <=> h[y].life # "new"
          /\ h[y].life = "ended" => y \notin ToSet(handlers) /\ active # y
      BY <1>7, <2>0, <2>1 DEF BracketInv, LifeInv
    <3> QED BY <1>0, <1>12, <2>1, <3>1
  <2>2. h'[x].started <=> h'[x].life # "new"
    BY <1>7, <1>12 DEF Lived
  <2>3. h'[x].life = "ended" => (Innermost("pop", x) /\ Done(top))'
    BY <1>1, <1>2, <1>7, <1>11, <1>12, <1>15 DEF Lived, Innermost, Done, top
  <2> QED BY <1>12, <2>1, <2>2, <2>3 DEF LifeInv
<1>20. ASSUME ~fatal PROVE SoundInv'
  <2>1. SoundInv
    BY <1>20 DEF BracketInv
  <2>2. ASSUME NEW y \in 1..Len(h), ~h[y].live
        PROVE  h'[y].buffer = <<>> /\ (y \in Disabled' \/ h'[y].life = "ended")
    <3>1. h[y].buffer = <<>> /\ (y \in Disabled \/ h[y].life = "ended")
      BY <2>1, <2>2 DEF SoundInv
    <3> QED BY <1>12, <1>13, <2>2, <3>1
  <2>3. running' # 0 => ~NoUser(calls')
    BY <1>0
  <2>4. \A k : k.do \in {"push", "free"} => (k \in Calls <=> k \in Calls')
    BY <1>0, <1>1, <1>2, <1>3, <1>11, <1>15
  <2> QED BY <1>0, <1>12, <1>13, <2>1, <2>2, <2>3, <2>4, SoundRun
<1> QED BY <1>0, <1>17, <1>18, <1>19, <1>20 DEF BracketInv

LEMMA StaleKeeps ==
    ASSUME OutputInv, BracketInv, ApplyStale
    PROVE  BracketInv'
<1>1. Doing("op") /\ Undefined /\ top.n > Len(handlers) /\ CallsInv
  BY DEF ApplyStale, BracketInv
<1>2. FrameInv(top) /\ top \in Fr /\ top.do = "op"
  BY <1>1, DoingTypes, Core
<1>3. top.n \in Int /\ Len(handlers) \in Int
  BY <1>2, Sizes DEF Fr, Frames, FrameType
<1>4. fatal \/ Disabled # {}
  BY <1>1, <1>2, <1>3 DEF FrameInv
<1> QED BY <1>1, <1>4, UndefinedKeeps

\* ob_start when php_output_lock_error lets it: no handler runs, or none is active.
LEMMA StartKeeps ==
    ASSUME OutputInv, OutputInv', BracketInv, NEW k \in Kinds, ObStart(k)
    PROVE  BracketInv'
<1>0. Op /\ CallsInv
  BY DEF ObStart, BracketInv
<1>1. /\ phase \in Phases \ {"off", "undefined"} /\ calls \in Seq(Fr)
      /\ calls = <<>> \/ (calls # <<>> /\ top.do = "user" /\ top.st = "none")
  BY <1>0, OpTypes
<1>2. CASE LockError
  BY <1>1, <1>2, BailoutKeeps DEF LockError
<1>3. CASE broken /\ Undefined
  <2>1. fatal \/ Disabled # {}
    BY <1>1, <1>3 DEF BracketInv, SoundInv
  <2> QED BY <1>3, <2>1, UndefinedKeeps
<1>4. CASE /\ ~Locked({"start"}) /\ ~broken
           /\ h' = Append(h, [user |-> k.user, size |-> k.size, can |-> k.can,
                              started |-> FALSE, disabled |-> FALSE,
                              level |-> Len(handlers), buffer |-> <<>>,
                              live |-> TRUE, life |-> "new"])
           /\ handlers' = Append(handlers, Len(h'))
           /\ active' = Len(h')
           /\ UNCHANGED <<running, activated, headers, broken, calls, phase,
                          sent, written, fatal, misplaced>>
  <2>1. PICK e : e = [user |-> k.user, size |-> k.size, can |-> k.can,
                      started |-> FALSE, disabled |-> FALSE,
                      level |-> Len(handlers), buffer |-> <<>>,
                      live |-> TRUE, life |-> "new"]
    OBVIOUS
  <2>2. /\ e.started = FALSE /\ e.disabled = FALSE /\ e.level = Len(handlers)
        /\ e.live = TRUE /\ e.life = "new"
    BY <2>1
  <2>3. PICK x : x = Len(h')
    OBVIOUS
  <2>4. /\ x = Len(h) + 1 /\ x \notin 1..Len(h) /\ x # 0 /\ x \in 1..Len(h')
        /\ \A y \in 1..Len(h') : y \in 1..Len(h) \/ y = x
        /\ \A y \in 1..Len(h) : y \in 1..Len(h')
        /\ \A y \in 1..Len(h) : h'[y] = h[y]
        /\ h'[x] = e
    <3>1. h' = Append(h, e) /\ h \in Seq(HandlerType(written) \cup {e}) /\ Len(h) \in Nat
      <4>1. h \in Seq(HandlerType(written)) /\ Len(h) \in Nat
        BY Sizes DEF OutputInv, DataOK
      <4> QED BY <1>4, <2>1, <4>1, SeqMonotonic
    <3>2. /\ Len(h') = Len(h) + 1 /\ \A y \in 1..Len(h) : h'[y] = h[y]
          /\ h'[Len(h) + 1] = e
      BY <3>1
    <3> QED BY <2>3, <3>1, <3>2
  <2>5. /\ ToSet(handlers) \subseteq 1..Len(h) /\ x \notin ToSet(handlers)
        /\ Calls \subseteq Fr /\ Calls' = Calls
        /\ NoUser(calls) <=> \A f \in Calls : f.do # "user"
        /\ calls = <<>> => Calls = {}
    BY <1>4, <2>4, OnCalls DEF Calls
  <2>6. /\ Len(handlers') = Len(handlers) + 1 /\ handlers' # <<>> /\ Last(handlers') = x
        /\ \A i \in 1..Len(handlers) : handlers'[i] = handlers[i]
        /\ handlers'[Len(handlers) + 1] = x
        /\ ToSet(handlers') = ToSet(handlers) \cup {x}
        /\ Distinct(handlers')
    <3>1. handlers \in Seq(1..Len(h)) /\ Distinct(handlers) /\ handlers' = Append(handlers, x)
      BY <1>4, <2>3 DEF OutputInv, DataOK, BracketInv, StackInv
    <3> QED BY <2>5, <3>1, HandlerPushed
  <2>7. Disabled' = Disabled
    <3>1. \A y \in 1..Len(h') : h'[y].disabled <=> (y \in 1..Len(h) /\ h[y].disabled)
      BY <2>2, <2>4
    <3> QED BY <2>4, <3>1 DEF Disabled
  <2>8. ASSUME calls # <<>>
        PROVE  /\ active = 0 /\ top.do = "user" /\ top.st = "none"
               /\ \A f \in Calls : f.do \notin {"flush", "clean", "pop"} /\ f.st # "call"
    <3>1. /\ top.do = "user" /\ top.st = "none" /\ FrameInv(top) /\ Calls = {top} \cup Below
          /\ \A f \in Below : FrameInv(f) /\ f.st # "call"
          /\ \A f \in Calls : f.do \notin {"op", "all"} => f.x \in 1..Len(h)
          /\ top \in Fr
      BY <1>0, <1>1, <2>8, Core
    <3>2. running # 0
      BY <3>1, Sizes DEF FrameInv
    <3>3. active = 0
      BY <1>4, <3>2 DEF Locked
    <3>4. ASSUME NEW f \in Calls, f.do \in {"flush", "clean", "pop"} PROVE FALSE
      <4>1. FrameInv(f) /\ f.x \in 1..Len(h) /\ f.x # 0
        BY <3>1, <3>4, Sizes
      <4>2. active = f.x \/ Innermost("free", f.x)
        BY <3>4, <4>1 DEF FrameInv
      <4> QED BY <3>1, <3>3, <4>1, <4>2 DEF Innermost
    <3> QED BY <3>1, <3>3, <3>4
  <2>9. CallsInv'
    <3>1. Linked(calls', Disabled')
      BY <1>0, <1>4, <2>7 DEF CallsInv
    <3>2. ASSUME NEW f \in ToSet(calls') PROVE FrameInv(f)'
      <4>1. /\ f \in Calls /\ f \in Fr /\ FrameInv(f) /\ calls # <<>>
        BY <1>0, <1>4, <2>5, <3>2 DEF CallsInv, Calls
      <4>2. f.do \notin {"flush", "clean", "pop"} /\ f.st # "call"
        BY <2>8, <4>1
      <4>3. f.do \notin {"op", "all"} => f.x \in 1..Len(h) /\ f.x # x /\ h'[f.x] = h[f.x]
        BY <1>0, <2>4, <4>1, Core
      <4>4. f.n \in Nat /\ Len(handlers) \in Nat
        BY <4>1, Sizes DEF Fr, Frames, FrameType
      <4>5. f.n <= Len(handlers) => f.n <= Len(handlers')
        BY <2>6, <4>4
      <4>6. active' = x
        BY <1>4, <2>3
      <4> QED BY <1>4, <2>6, <2>7, <4>1, <4>2, <4>3, <4>5, <4>6 DEF FrameInv
    <3> QED BY <3>1, <3>2 DEF CallsInv
  <2>10. StackInv'
    BY <1>4, <2>3, <2>4, <2>6 DEF StackInv
  <2>11. LifeInv'
    <3>1. CASE Over
      BY <1>4, <3>1 DEF Over, LifeInv
    <3>2. CASE ~Over
      <4>1. \A y : ~Innermost("pop", y)
        BY <2>8 DEF Innermost
      <4>2. ASSUME NEW y \in 1..Len(h), y # running
            PROVE  /\ h'[y].started <=> h'[y].life # "new"
                   /\ h'[y].life = "ended" => y \notin ToSet(handlers') /\ active' # y
        <5>1. /\ h[y].started <=> h[y].life # "new"
              /\ h[y].life = "ended" => y \notin ToSet(handlers) /\ active # y
          BY <3>2, <4>1, <4>2 DEF BracketInv, LifeInv
        <5> QED BY <1>4, <2>3, <2>4, <2>6, <5>1
      <4>3. (h'[x].started <=> h'[x].life # "new") /\ h'[x].life # "ended"
        BY <2>2, <2>4
      <4> QED BY <1>4, <2>4, <4>2, <4>3 DEF LifeInv
    <3> QED BY <3>1, <3>2
  <2>12. ASSUME ~fatal PROVE SoundInv'
    <3>0. SoundInv /\ handlers \in Seq(1..Len(h)) /\ Len(handlers) \in Nat
      BY <2>12, Sizes DEF BracketInv, OutputInv, DataOK
    <3>1. ASSUME NEW i \in 1..Len(handlers')
          PROVE  h'[handlers'[i]].live /\ h'[handlers'[i]].level = i - 1
      <4>1. CASE i \in 1..Len(handlers)
        <5>1. handlers[i] \in 1..Len(h) /\ handlers'[i] = handlers[i]
          BY <2>6, <3>0, <4>1
        <5> QED BY <2>4, <3>0, <4>1, <5>1 DEF SoundInv
      <4>2. CASE i = Len(handlers) + 1
        <5>1. i - 1 = Len(handlers)
          BY <3>0, <4>2
        <5> QED BY <2>2, <2>4, <2>6, <4>2, <5>1
      <4> QED BY <2>6, <3>0, <3>1, <4>1, <4>2
    <3>2. active' = NewActive(handlers') /\ active' = x
      BY <1>4, <2>3, <2>6 DEF NewActive
    <3>3. ASSUME NEW f \in ToSet(calls'), f.do = "push"
          PROVE  active' # f.x /\ f.x \in Disabled'
      <4>1. f \in Calls /\ calls # <<>>
        BY <2>5, <3>3 DEF Calls
      <4>2. f.x \in 1..Len(h) /\ active = 0 /\ f.x # 0
        BY <1>0, <2>8, <3>3, <4>1, Core, Sizes
      <4> QED BY <2>4, <2>7, <3>0, <3>2, <3>3, <4>1, <4>2 DEF SoundInv, Calls
    <3>4. running' # 0 => ~NoUser(calls')
      BY <1>4, <3>0 DEF SoundInv
    <3>5. ASSUME NEW y \in 1..Len(h'), h'[y].live
          PROVE  \/ y \in ToSet(handlers') \/ (Freeing(y))'
                 \/ \E f \in ToSet(calls') : f.do = "push" /\ (f.x = y \/ f.x # active')
      <4>1. CASE y = x
        BY <2>6, <4>1
      <4>2. CASE y \in 1..Len(h)
        <5>1. \/ y \in ToSet(handlers) \/ Freeing(y)
              \/ \E f \in ToSet(calls) : f.do = "push"
          BY <2>4, <3>0, <3>5, <4>2 DEF SoundInv
        <5>2. Freeing(y) => (Freeing(y))'
          BY <1>4 DEF Freeing
        <5> QED BY <1>4, <2>6, <3>3, <5>1, <5>2
      <4> QED BY <2>4, <4>1, <4>2
    <3>6. ASSUME NEW y \in 1..Len(h'), ~h'[y].live
          PROVE  h'[y].buffer = <<>> /\ (y \in Disabled' \/ h'[y].life = "ended")
      <4>1. y \in 1..Len(h)
        BY <2>2, <2>4, <3>6
      <4> QED BY <2>4, <2>7, <3>0, <3>6, <4>1 DEF SoundInv
    <3>7. /\ phase' # "off" /\ phase' # "undefined" /\ ~broken'
      BY <1>1, <1>4
    <3> QED BY <3>1, <3>2, <3>3, <3>4, <3>5, <3>6, <3>7 DEF SoundInv
  <2> QED BY <1>4, <2>9, <2>10, <2>11, <2>12 DEF BracketInv
<1> QED BY <1>2, <1>3, <1>4 DEF ObStart

\* php_output_flush takes the active handler off the stack: it is the top one.
LEMMA FlushWritesKeeps ==
    ASSUME OutputInv, OutputInv', BracketInv, FlushWrites, top.out # <<>>
    PROVE  BracketInv'
<1>0. /\ Doing("flush") /\ CallsInv
      /\ handlers' = DelTop /\ broken' = (broken \/ handlers = <<>>)
      /\ calls' = <<OpFrame(DelTop, active, top.out), Frame("push", top.x)>> \o rest
      /\ UNCHANGED <<h, active, running, phase, fatal>>
  BY DEF FlushWrites, BracketInv
<1>1. /\ calls # <<>> /\ top.do = "flush" /\ top.st \notin {"call", "wait"}
      /\ phase \in Phases \ {"off", "undefined"} /\ top \in Fr
  BY <1>0, DoingTypes
<1>2. rest = <<>> /\ FrameInv(top) /\ Calls = {top} /\ top.x \in 1..Len(h)
  <2>1. rest = <<>>
    BY <1>0, <1>1, Core DEF Link
  <2> QED BY <1>0, <1>1, <2>1, Core
<1>3. PICK x \in 1..Len(h) : x = top.x
  BY <1>2
<1>4. active = x /\ x # 0
  BY <1>1, <1>2, <1>3, Sizes DEF FrameInv, Innermost
<1>5. /\ handlers \in Seq(1..Len(h)) /\ Len(h) \in Nat /\ Distinct(handlers)
      /\ x \in ToSet(handlers) => x = Last(handlers)
  BY <1>4, Sizes DEF OutputInv, DataOK, BracketInv, StackInv
<1>6. /\ DelTop \in Seq(1..Len(h)) /\ Distinct(DelTop)
      /\ handlers = <<>> => DelTop = <<>>
      /\ handlers # <<>> => /\ Len(handlers) \in Nat \ {0}
                            /\ Len(DelTop) = Len(handlers) - 1
                            /\ Last(handlers) = handlers[Len(handlers)]
                            /\ ToSet(DelTop) = ToSet(handlers) \ {Last(handlers)}
      /\ \A i \in 1..Len(DelTop) : i \in 1..Len(handlers) /\ DelTop[i] = handlers[i]
  BY <1>5, HandlerPopped
<1>7. x \notin ToSet(DelTop) /\ ToSet(DelTop) \subseteq ToSet(handlers)
  <2>1. CASE handlers = <<>>
    BY <1>6, <2>1, OnNone
  <2>2. CASE handlers # <<>>
    BY <1>5, <1>6, <2>2
  <2> QED BY <2>1, <2>2
<1>8. PICK f : f = OpFrame(DelTop, active, top.out)
  OBVIOUS
<1>9. f.do = "op" /\ f.st = "none" /\ f.n <= Len(DelTop)
  <2>1. PICK hs : hs = DelTop /\ Len(hs) \in Nat
    BY <1>6
  <2> QED BY <1>8, <2>1, OpFrameInv
<1>10. PICK g : g = Frame("push", x)
  OBVIOUS
<1>11. g.do = "push" /\ g.st = "none" /\ g.x = x
  BY <1>10 DEF Frame
<1>12. PICK F : f \in F /\ g \in F
  <2>1. f \in {f, g} /\ g \in {f, g}
    OBVIOUS
  <2> QED BY <2>1
<1>13. PICK s \in Seq(F) : /\ s = <<g>> /\ s # <<>> /\ Head(s) = g /\ calls' = <<f>> \o s
                           /\ ToSet(s) = {g}
  <2>1. <<>> \in Seq(F) /\ <<g>> \in Seq(F)
    BY <1>12
  <2>2. calls' = <<f>> \o (<<g>> \o <<>>)
    BY <1>0, <1>2, <1>3, <1>8, <1>10, <1>12, <2>1, PushedTwo
  <2>3. <<g>> \o <<>> = <<g>>
    BY <2>1, ConcatEmptySeq
  <2>4. DOMAIN <<g>> = {1} /\ <<g>>[1] = g /\ Head(<<g>>) = g /\ <<g>> # <<>>
    OBVIOUS
  <2>5. ToSet(<<g>>) = {g}
    BY <2>4 DEF ToSet
  <2> QED BY <2>1, <2>2, <2>3, <2>4, <2>5
<1>14. Calls' = {f, g}
  <2>1. ToSet(<<f>> \o s) = {f} \cup ToSet(s)
    BY <1>12, OnPushed
  <2>2. ToSet(calls') = {f} \cup {g}
    BY <1>13, <2>1, Zenon
  <2> QED BY <2>2 DEF Calls
<1>15. Disabled' = Disabled
  BY <1>0 DEF Disabled
<1>16. CallsInv'
  <2>1. Linked(calls', Disabled)
    <3>1. Chain(s, Disabled)
      <4>1. 1..(Len(<<g>>) - 1) = {}
        OBVIOUS
      <4> QED BY <1>13, <4>1 DEF Chain
    <3>2. Link(f, g, Disabled) /\ f.st # "wait"
      BY <1>9, <1>11 DEF Link
    <3> QED BY <1>12, <1>13, <3>1, <3>2, LinkedPushed
  <2>2. FrameInv(f)'
    BY <1>0, <1>9 DEF FrameInv
  <2>3. FrameInv(g)'
    BY <1>0, <1>7, <1>11 DEF FrameInv
  <2> QED BY <1>14, <1>15, <2>1, <2>2, <2>3 DEF CallsInv, Calls
<1>17. StackInv'
  BY <1>0, <1>4, <1>6, <1>7 DEF StackInv
<1>18. NoUser(calls) /\ NoUser(calls')
  BY <1>1, <1>2, <1>9, <1>11, <1>14, OnCalls, OnCallsNext
<1>19. LifeInv'
  <2>1. CASE Over
    BY <1>0, <1>4, <1>18, <2>1 DEF Over, LifeInv
  <2>2. CASE ~Over
    <3>1. \A y : ~Innermost("pop", y)
      BY <1>1 DEF Innermost
    <3> QED BY <1>0, <1>7, <2>2, <3>1 DEF BracketInv, LifeInv
  <2> QED BY <2>1, <2>2
<1>20. ASSUME ~fatal PROVE SoundInv'
  <2>0. SoundInv
    BY <1>20 DEF BracketInv
  <2>1. active = NewActive(handlers)
    BY <1>1, <1>2, <2>0 DEF SoundInv, Pushing, Calls
  <2>2. handlers # <<>> /\ x = Last(handlers)
    BY <1>4, <2>1 DEF NewActive
  <2>3. h[x].live /\ h[x].level = Len(handlers')
    <3>1. Len(handlers) \in 1..Len(handlers) /\ x = handlers[Len(handlers)]
      BY <1>6, <2>2
    <3> QED BY <1>0, <1>6, <2>0, <2>2, <3>1 DEF SoundInv
  <2>4. \A i \in 1..Len(handlers') : h'[handlers'[i]].live /\ h'[handlers'[i]].level = i - 1
    BY <1>0, <1>6, <2>0 DEF SoundInv
  <2>5. (Pushing(active))'
    BY <1>0, <1>4, <1>11, <1>14 DEF Pushing, Calls
  <2>6. \A p \in ToSet(calls') : p.do = "push" =>
           active' = p.x /\ h'[p.x].live /\ h'[p.x].level = Len(handlers')
    BY <1>0, <1>4, <1>9, <1>11, <1>14, <2>3 DEF Calls
  <2>7. running' = 0
    BY <1>0, <1>18, <2>0 DEF SoundInv
  <2>8. ASSUME NEW y \in 1..Len(h'), h'[y].live
        PROVE  \/ y \in ToSet(handlers')
               \/ \E p \in ToSet(calls') : p.do = "push" /\ p.x = y
    <3>1. y \in ToSet(handlers)
      BY <1>0, <1>1, <1>2, <2>0, <2>8 DEF SoundInv, Freeing, Calls
    <3> QED BY <1>0, <1>6, <1>11, <1>14, <2>2, <3>1 DEF Calls
  <2>9. \A y \in 1..Len(h') : ~h'[y].live =>
           h'[y].buffer = <<>> /\ (y \in Disabled' \/ h'[y].life = "ended")
    BY <1>0, <1>15, <2>0 DEF SoundInv
  <2>10. phase' # "off" /\ (Disabled' = {} => phase' # "undefined" /\ ~broken')
    BY <1>0, <1>1, <1>15, <2>0, <2>2 DEF SoundInv
  <2> QED BY <2>4, <2>5, <2>6, <2>7, <2>8, <2>9, <2>10 DEF SoundInv
<1> QED BY <1>0, <1>16, <1>17, <1>19, <1>20 DEF BracketInv

\* ... and it is put back where it was, unless it has ended itself or been ended.
LEMMA FlushReturnsKeeps ==
    ASSUME OutputInv, OutputInv', BracketInv, FlushReturns
    PROVE  BracketInv'
<1>0. Doing("push") /\ CallsInv
  BY DEF FlushReturns, BracketInv
<1>1. /\ calls # <<>> /\ top.do = "push" /\ phase \in Phases \ {"off", "undefined"} /\ top \in Fr
  BY <1>0, DoingTypes
<1>2. rest = <<>> /\ FrameInv(top) /\ Calls = {top} /\ top.x \in 1..Len(h)
  <2>1. rest = <<>>
    BY <1>0, <1>1, Core DEF Link
  <2> QED BY <1>0, <1>1, <2>1, Core
<1>3. CASE (active # top.x \/ broken) /\ Undefined
  <2>1. fatal \/ Disabled # {}
    BY <1>1, <1>2, <1>3 DEF BracketInv, SoundInv, Calls
  <2> QED BY <1>3, <2>1, UndefinedKeeps
<1>4. CASE /\ active = top.x /\ ~broken
           /\ handlers' = Append(handlers, active)
           /\ calls' = rest
           /\ UNCHANGED <<h, active, running, activated, headers, broken, phase,
                          sent, written, fatal, misplaced>>
  <2>1. PICK x \in 1..Len(h) : x = top.x
    BY <1>2
  <2>2. active = x /\ x # 0 /\ x \notin ToSet(handlers)
    BY <1>1, <1>2, <1>4, <2>1, Sizes DEF FrameInv
  <2>3. /\ Len(handlers') = Len(handlers) + 1 /\ handlers' # <<>> /\ Last(handlers') = x
        /\ \A i \in 1..Len(handlers) : handlers'[i] = handlers[i]
        /\ handlers'[Len(handlers) + 1] = x
        /\ ToSet(handlers') = ToSet(handlers) \cup {x}
        /\ Distinct(handlers')
    <3>1. handlers \in Seq(1..Len(h)) /\ Distinct(handlers) /\ handlers' = Append(handlers, x)
      BY <1>4, <2>2 DEF OutputInv, DataOK, BracketInv, StackInv
    <3> QED BY <2>2, <3>1, HandlerPushed
  <2>4. calls' = <<>> /\ Calls' = {} /\ Disabled' = Disabled
    BY <1>2, <1>4, OnNone DEF Calls, Disabled
  <2>5. CallsInv'
    BY <2>4, LinkedNone DEF CallsInv, Calls
  <2>6. StackInv'
    BY <1>4, <2>2, <2>3 DEF StackInv
  <2>7. NoUser(calls) /\ NoUser(calls')
    BY <1>1, <1>2, <2>4, OnCalls, OnCallsNext
  <2>8. LifeInv'
    <3>1. CASE Over
      BY <1>4, <2>7, <3>1 DEF Over, LifeInv
    <3>2. CASE ~Over
      <4>1. \A y : ~Innermost("pop", y)
        BY <1>1 DEF Innermost
      <4> QED BY <1>4, <2>2, <2>3, <3>2, <4>1 DEF BracketInv, LifeInv
    <3> QED BY <3>1, <3>2
  <2>9. ASSUME ~fatal PROVE SoundInv'
    <3>0. SoundInv /\ Len(handlers) \in Nat
      BY <2>9, Sizes DEF BracketInv
    <3>1. h[x].live /\ h[x].level = Len(handlers)
      BY <1>1, <1>2, <2>1, <2>2, <3>0 DEF SoundInv, Calls
    <3>2. ASSUME NEW i \in 1..Len(handlers')
          PROVE  h'[handlers'[i]].live /\ h'[handlers'[i]].level = i - 1
      <4>1. CASE i \in 1..Len(handlers)
        BY <1>4, <2>3, <3>0, <4>1 DEF SoundInv
      <4>2. CASE i = Len(handlers) + 1
        <5>1. i - 1 = Len(handlers)
          BY <3>0, <4>2
        <5> QED BY <1>4, <2>3, <3>1, <4>2, <5>1
      <4> QED BY <2>3, <3>0, <3>2, <4>1, <4>2
    <3>3. active' = NewActive(handlers')
      BY <1>4, <2>2, <2>3 DEF NewActive
    <3>4. running' = 0
      BY <1>4, <2>7, <3>0 DEF SoundInv
    <3>5. ASSUME NEW y \in 1..Len(h'), h'[y].live PROVE y \in ToSet(handlers')
      <4>1. \/ y \in ToSet(handlers) \/ Freeing(y)
            \/ \E f \in Calls : f.do = "push" /\ (f.x = y \/ f.x # active)
        BY <1>4, <3>0, <3>5 DEF SoundInv, Calls
      <4>2. ~Freeing(y)
        BY <1>1, <1>2 DEF Freeing, Calls
      <4> QED BY <1>2, <2>1, <2>2, <2>3, <4>1, <4>2
    <3>6. \A y \in 1..Len(h') : ~h'[y].live =>
             h'[y].buffer = <<>> /\ (y \in Disabled' \/ h'[y].life = "ended")
      BY <1>4, <2>4, <3>0 DEF SoundInv
    <3>7. phase' # "off" /\ phase' # "undefined" /\ ~broken' /\ ToSet(calls') = {}
      BY <1>1, <1>4, <2>4 DEF Calls
    <3> QED BY <3>2, <3>3, <3>4, <3>5, <3>6, <3>7 DEF SoundInv
  <2> QED BY <1>4, <2>5, <2>6, <2>8, <2>9 DEF BracketInv
<1> QED BY <1>3, <1>4 DEF FlushReturns

\* What php_output_stack_pop and the rest of it were called by. Script code that a
\* user handler runs comes this far with a failed handler only.
LEMMA PopCaller ==
    ASSUME OutputInv, CallsInv, calls # <<>>, top.do \in {"pop", "free"}, Done(top)
    PROVE  \/ \A f \in Below : f.do = "all"
           \/ /\ rest # <<>> /\ Head(rest).do = "user" /\ Head(rest) \in Below
              /\ top.x \in Disabled /\ (top.do = "pop" => top.out = <<>>)
<1>1. CASE rest = <<>>
  BY <1>1, Core
<1>2. CASE rest # <<>>
  <2>1. Link(top, Head(rest), Disabled) /\ Head(rest) \in Below
    BY <1>2, Core
  <2>2. Head(rest).do \in {"user", "all"}
    BY <2>1 DEF Link
  <2>3. CASE Head(rest).do = "user"
    BY <1>2, <2>1, <2>3 DEF Link, Done
  <2>4. CASE Head(rest).do = "all"
    <3>1. Below = {Head(rest)}
      BY <1>2, <2>4, Core
    <3> QED BY <2>4, <3>1
  <2> QED BY <2>2, <2>3, <2>4
<1> QED BY <1>1, <1>2

LEMMA PopWritesKeeps ==
    ASSUME OutputInv, OutputInv', BracketInv, PopWrites
    PROVE  BracketInv'
<1>0. /\ Doing("pop") /\ CallsInv
      /\ handlers' = DelTop /\ broken' = (broken \/ handlers = <<>>)
      /\ active' = NewActive(DelTop)
      /\ UNCHANGED <<h, running, phase, fatal>>
  BY DEF PopWrites, BracketInv
<1>1. /\ calls # <<>> /\ top.do = "pop" /\ top.st \notin {"call", "wait"}
      /\ phase \in Phases \ {"off", "undefined"} /\ Done(top)
  BY <1>0, DoingTypes DEF Done
<1>2. /\ Calls = {top} \cup Below /\ rest \in Seq(Fr) /\ FrameInv(top) /\ top.x \in 1..Len(h)
      /\ \A f \in Below : FrameInv(f) /\ f.st # "call"
      /\ \A f \in Below : f.do = "pop" => f.st = "wait"
      /\ Linked(rest, Disabled) /\ Chain(rest, Disabled)
      /\ rest # <<>> => Link(top, Head(rest), Disabled)
      /\ \A f \in Calls : f.do \notin {"op", "all"} => f.x \in 1..Len(h)
  BY <1>0, <1>1, Core
<1>3. \/ \A f \in Below : f.do = "all"
      \/ /\ rest # <<>> /\ Head(rest).do = "user" /\ Head(rest) \in Below
         /\ top.x \in Disabled /\ top.out = <<>>
  BY <1>0, <1>1, PopCaller
<1>4. PICK x \in 1..Len(h) : x = top.x
  BY <1>2
<1>5. active = x /\ x # 0 /\ (x \in Disabled \/ h[x].life = "ended")
  BY <1>1, <1>2, <1>4, Sizes DEF FrameInv
<1>6. /\ handlers \in Seq(1..Len(h)) /\ Len(h) \in Nat /\ Distinct(handlers)
      /\ x \in ToSet(handlers) => x = Last(handlers)
      /\ ToSet(handlers) \subseteq 1..Len(h)
  BY <1>5, Sizes, OnCalls DEF OutputInv, DataOK, BracketInv, StackInv
<1>7. /\ DelTop \in Seq(1..Len(h)) /\ Distinct(DelTop)
      /\ handlers = <<>> => DelTop = <<>>
      /\ handlers # <<>> => ToSet(DelTop) = ToSet(handlers) \ {Last(handlers)}
      /\ \A i \in 1..Len(DelTop) : i \in 1..Len(handlers) /\ DelTop[i] = handlers[i]
      /\ NewActive(DelTop) \in ToSet(DelTop) => NewActive(DelTop) = Last(DelTop)
      /\ NewActive(DelTop) = 0 => DelTop = <<>>
      /\ NewActive(DelTop) # 0 => NewActive(DelTop) \in ToSet(DelTop)
  BY <1>6, HandlerPopped
<1>8. x \notin ToSet(DelTop) /\ ToSet(DelTop) \subseteq ToSet(handlers)
  <2>1. CASE handlers = <<>>
    BY <1>7, <2>1, OnNone
  <2>2. CASE handlers # <<>>
    BY <1>6, <1>7, <2>2
  <2> QED BY <2>1, <2>2
<1>9. \A y \in 1..Len(h) : y \notin ToSet(handlers) \/ y = x => active' # y
  BY <1>0, <1>7, <1>8, Sizes
<1>10. PICK g : g = Frame("free", x)
  OBVIOUS
<1>11. g.do = "free" /\ g.st = "none" /\ g.x = x
  BY <1>10 DEF Frame
<1>12. PICK f : f = OpFrame(DelTop, active', top.out)
  OBVIOUS
<1>13. f.do = "op" /\ f.st = "none" /\ f.n <= Len(DelTop)
  <2>1. PICK hs : hs = DelTop /\ Len(hs) \in Nat
    BY <1>7
  <2>2. PICK a : a = active'
    OBVIOUS
  <2> QED BY <1>12, <2>1, <2>2, OpFrameInv
<1>14. PICK F : rest \in Seq(F) /\ f \in F /\ g \in F
  <2>1. rest \in Seq(Fr \cup {f, g})
    BY <1>2, SeqMonotonic
  <2> QED BY <2>1
<1>15. PICK s \in Seq(F) : s = <<g>> \o rest
  BY <1>14, Pushed
<1>16. s # <<>> /\ Head(s) = g /\ ToSet(s) = {g} \cup Below
  BY <1>14, <1>15, OnPushed, Pushed DEF Below
<1>17. Linked(s, Disabled)
  <2>1. rest # <<>> => Link(g, Head(rest), Disabled)
    <3>1. CASE Below = {} \/ \A b \in Below : b.do = "all"
      BY <1>0, <1>1, <1>2, <1>11, <3>1, Core DEF Link
    <3>2. CASE Head(rest).do = "user" /\ top.x \in Disabled
      BY <1>1, <1>2, <1>4, <1>11, <3>2 DEF Link
    <3> QED BY <1>3, <3>1, <3>2
  <2>2. g.st # "wait"
    BY <1>11
  <2> QED BY <1>2, <1>14, <1>15, <2>1, <2>2, LinkedPushed
<1>18. \/ /\ calls' = <<f>> \o s /\ \A b \in Below : b.do = "all"
       \/ calls' = s
  <2>1. CASE top.out # <<>> /\ ~top.discard
    <3>1. calls' = <<f>> \o <<g>> \o rest
      BY <1>4, <1>10, <1>12, <2>1 DEF PopWrites
    <3>2. <<f>> \in Seq(F) /\ <<g>> \in Seq(F)
      BY <1>14
    <3>3. calls' = <<f>> \o s
      BY <1>14, <1>15, <3>1, <3>2, ConcatAssociative
    <3> QED BY <1>3, <2>1, <3>3
  <2>2. CASE ~(top.out # <<>> /\ ~top.discard)
    <3>1. calls' = <<>> \o <<g>> \o rest
      BY <1>4, <1>10, <2>2 DEF PopWrites
    <3>2. <<g>> \in Seq(F)
      BY <1>14
    <3> QED BY <1>15, <3>1, <3>2, ConcatEmptySeq
  <2> QED BY <2>1, <2>2
<1>19. /\ {g} \cup Below \subseteq Calls' /\ Calls' \subseteq {f, g} \cup Below
       /\ Linked(calls', Disabled)
  <2>1. CASE calls' = <<f>> \o s
    <3>1. Calls' = {f} \cup ToSet(s)
      BY <1>14, <2>1, OnPushed DEF Calls
    <3>2. Link(f, g, Disabled) /\ f.st # "wait"
      BY <1>11, <1>13 DEF Link
    <3>3. Chain(s, Disabled)
      BY <1>17 DEF Linked
    <3>4. Linked(calls', Disabled)
      BY <1>14, <1>16, <2>1, <3>2, <3>3, LinkedPushed
    <3> QED BY <1>16, <3>1, <3>4
  <2>2. CASE calls' = s
    BY <1>16, <1>17, <2>2 DEF Calls
  <2> QED BY <1>18, <2>1, <2>2
<1>20. Disabled' = Disabled
  BY <1>0 DEF Disabled
<1>21. ASSUME NEW b \in Below, b.do # "all"
       PROVE  x \in Disabled /\ calls' = s /\ (Innermost("free", x))'
  <2>1. x \in Disabled /\ calls' = s
    BY <1>3, <1>4, <1>18, <1>21
  <2> QED BY <1>11, <1>16, <2>1 DEF Innermost, top
<1>22. CallsInv'
  <2>1. FrameInv(f)'
    BY <1>0, <1>13 DEF FrameInv
  <2>2. FrameInv(g)'
    BY <1>0, <1>5, <1>8, <1>9, <1>11, <1>20 DEF FrameInv
  <2>3. ASSUME NEW b \in Below PROVE FrameInv(b)'
    <3>1. /\ FrameInv(b) /\ b.st # "call" /\ (b.do = "pop" => b.st = "wait")
          /\ b.do \notin {"op", "all"} => b.x \in 1..Len(h)
      BY <1>2
    <3>2. b.do \in {"flush", "clean"} => (Innermost("free", b.x))'
      <4>1. ASSUME b.do \in {"flush", "clean"} PROVE b.x = x /\ b.do # "all"
        BY <1>1, <1>5, <3>1, <4>1 DEF FrameInv, Innermost
      <4> QED BY <1>21, <4>1
    <3>3. b.do # "pop"
      BY <1>5, <1>21, <3>1 DEF FrameInv, Done
    <3>4. b.do = "op" => Disabled # {}
      BY <1>21
    <3>5. b.do = "free" => b.x \notin ToSet(handlers') /\ active' # b.x
      BY <1>0, <1>8, <1>9, <3>1 DEF FrameInv
    <3>6. b.do = "push" => b.x \notin ToSet(handlers')
      BY <1>0, <1>8, <3>1 DEF FrameInv
    <3> QED BY <1>0, <1>20, <3>1, <3>2, <3>3, <3>4, <3>5, <3>6 DEF FrameInv
  <2>4. \A b \in Calls' : FrameInv(b)'
    BY <1>19, <2>1, <2>2, <2>3
  <2> QED BY <1>19, <1>20, <2>4 DEF CallsInv, Calls
<1>23. StackInv'
  BY <1>0, <1>7 DEF StackInv
<1>24. \A b : b.do \in {"push", "user"} => (b \in Calls <=> b \in Calls')
  BY <1>1, <1>2, <1>11, <1>13, <1>19
<1>25. NoUser(calls') <=> NoUser(calls)
  BY <1>24, OnCalls, OnCallsNext
<1>26. LifeInv'
  <2>1. CASE Over
    BY <1>0, <1>5, <1>25, <2>1 DEF Over, LifeInv
  <2>2. CASE ~Over
    <3>1. ASSUME NEW y \in 1..Len(h), y # running
          PROVE  /\ h[y].started <=> h[y].life # "new"
                 /\ h[y].life = "ended" => y \notin ToSet(handlers') /\ active' # y
      <4>1. /\ h[y].started <=> h[y].life # "new"
            /\ h[y].life = "ended" => y \notin ToSet(handlers) \/ y = x
        BY <1>4, <2>2, <3>1 DEF BracketInv, LifeInv, Innermost
      <4> QED BY <1>0, <1>8, <1>9, <4>1
    <3> QED BY <1>0, <3>1 DEF LifeInv
  <2> QED BY <2>1, <2>2
<1>27. ASSUME ~fatal PROVE SoundInv'
  <2>0. SoundInv
    BY <1>27 DEF BracketInv
  <2>1. \A i \in 1..Len(handlers') : h'[handlers'[i]].live /\ h'[handlers'[i]].level = i - 1
    BY <1>0, <1>7, <2>0 DEF SoundInv
  <2>2. active' = NewActive(handlers')
    BY <1>0 DEF NewActive
  <2>3. ASSUME NEW p \in ToSet(calls'), p.do = "push" PROVE active' # p.x /\ p.x \in Disabled'
    <3>1. p \in Calls /\ p \in Below /\ FrameInv(p) /\ p.x \in 1..Len(h)
      BY <1>1, <1>2, <1>24, <2>3 DEF Calls
    <3>2. p.x \notin ToSet(handlers) /\ x \in Disabled
      BY <1>21, <2>3, <3>1 DEF FrameInv
    <3>3. active' # p.x
      BY <1>9, <3>1, <3>2
    <3> QED BY <1>5, <1>20, <2>0, <2>3, <3>1, <3>2, <3>3 DEF SoundInv, Calls
  <2>4. running' # 0 => ~NoUser(calls')
    BY <1>0, <1>25, <2>0 DEF SoundInv
  <2>5. ((handlers # <<>> /\ Last(handlers) # x) \/ handlers = <<>>) =>
           \E p \in Below : p.do = "push" /\ p \in ToSet(calls') /\ p.x = x
    <3>1. ASSUME (handlers # <<>> /\ Last(handlers) # x) \/ handlers = <<>>
          PROVE  Pushing(active)
      BY <1>5, <2>0, <3>1 DEF SoundInv, NewActive
    <3>2. Pushing(active) => \E p \in Below : p.do = "push" /\ p \in ToSet(calls') /\ p.x = x
      BY <1>1, <1>2, <1>5, <1>19 DEF Pushing, Calls
    <3> QED BY <3>1, <3>2
  <2>6. ASSUME NEW y \in 1..Len(h'), h'[y].live
        PROVE  \/ y \in ToSet(handlers') \/ (Freeing(y))'
               \/ \E p \in ToSet(calls') : p.do = "push" /\ (p.x = y \/ p.x # active')
    <3>1. \/ y \in ToSet(handlers) \/ Freeing(y)
          \/ \E p \in Calls : p.do = "push"
      BY <1>0, <2>0, <2>6 DEF SoundInv, Calls
    <3>2. CASE y \in ToSet(handlers)
      <4>1. handlers # <<>>
        BY <3>2, OnNone
      <4>2. CASE y # Last(handlers)
        BY <1>0, <1>7, <3>2, <4>1, <4>2
      <4>3. CASE y = Last(handlers) /\ y = x
        <5>1. (Freeing(x))'
          BY <1>11, <1>19 DEF Freeing, Calls
        <5> QED BY <4>3, <5>1
      <4>4. CASE y = Last(handlers) /\ y # x
        BY <2>3, <2>5, <4>1, <4>4
      <4> QED BY <4>2, <4>3, <4>4
    <3>3. CASE Freeing(y)
      <4>1. PICK b \in Calls : b.do = "free" /\ b.x = y
        BY <3>3 DEF Freeing, Calls
      <4>2. b \in Calls'
        BY <1>1, <1>2, <1>19, <4>1
      <4>3. (Freeing(y))'
        BY <4>1, <4>2 DEF Freeing, Calls
      <4> QED BY <4>3
    <3>4. CASE \E p \in Calls : p.do = "push"
      BY <1>24, <2>3, <3>4 DEF Calls
    <3> QED BY <3>1, <3>2, <3>3, <3>4
  <2>7. \A y \in 1..Len(h') : ~h'[y].live =>
           h'[y].buffer = <<>> /\ (y \in Disabled' \/ h'[y].life = "ended")
    BY <1>0, <1>20, <2>0 DEF SoundInv
  <2>8. ASSUME Disabled' = {} PROVE ~broken'
    <3>1. ~broken
      BY <1>1, <1>20, <2>0, <2>8 DEF SoundInv
    <3>2. handlers # <<>>
      BY <1>20, <1>21, <2>5, <2>8
    <3> QED BY <1>0, <3>1, <3>2
  <2>9. phase' # "off" /\ phase' # "undefined"
    BY <1>0, <1>1
  <2> QED BY <2>1, <2>2, <2>3, <2>4, <2>6, <2>7, <2>8, <2>9 DEF SoundInv
<1> QED BY <1>0, <1>22, <1>23, <1>26, <1>27 DEF BracketInv

LEMMA PopFreesKeeps ==
    ASSUME OutputInv, OutputInv', BracketInv, PopFrees
    PROVE  BracketInv'
<1>0. Doing("free") /\ CallsInv
  BY DEF PopFrees, BracketInv
<1>1. /\ calls # <<>> /\ top.do = "free" /\ phase \in Phases \ {"off", "undefined"} /\ Done(top)
  BY <1>0, DoingTypes DEF Done
<1>2. /\ Calls = {top} \cup Below /\ rest \in Seq(Fr) /\ FrameInv(top) /\ top.x \in 1..Len(h)
      /\ \A f \in Below : FrameInv(f) /\ f.st # "call"
      /\ \A f \in Below : f.do \in {"flush", "clean"} => \E u \in Calls : u.do = "user" /\ u.x = f.x
      /\ Linked(rest, Disabled)
      /\ \A f \in Calls : f.do \notin {"op", "all"} => f.x \in 1..Len(h)
  BY <1>0, <1>1, Core
<1>3. \/ \A f \in Below : f.do = "all"
      \/ top.x \in Disabled
  BY <1>0, <1>1, PopCaller
<1>4. DOMAIN calls = 1..Len(calls)
  BY DEF OutputInv, CallsOK
<1>5. CASE /\ \E i \in DOMAIN calls : calls[i].do = "user" /\ calls[i].x = top.x
           /\ Undefined
  <2>1. PICK u \in Calls : u.do = "user"
    BY <1>5 DEF Calls, ToSet
  <2>2. Disabled # {}
    BY <1>1, <1>2, <1>3, <2>1
  <2> QED BY <1>5, <2>2, UndefinedKeeps
<1>6. CASE /\ \A i \in DOMAIN calls : calls[i].do # "user" \/ calls[i].x # top.x
           /\ h' = Freed({top.x})
           /\ calls' = rest
           /\ UNCHANGED <<handlers, active, running, activated, headers, broken,
                          phase, sent, written, fatal, misplaced>>
  <2>1. PICK x \in 1..Len(h) : x = top.x
    BY <1>2
  <2>2. \A u \in Calls : u.do # "user" \/ u.x # x
    BY <1>6, <2>1 DEF Calls, ToSet
  <2>3. x \notin ToSet(handlers) /\ active # x /\ (x \in Disabled \/ h[x].life = "ended")
    BY <1>1, <1>2, <2>1 DEF FrameInv
  <2>4. /\ Len(h') = Len(h)
        /\ \A y \in 1..Len(h) : y # x => h'[y] = h[y]
        /\ \A y \in 1..Len(h) : /\ h'[y].started = h[y].started /\ h'[y].disabled = h[y].disabled
                                /\ h'[y].life = h[y].life
        /\ ~h'[x].live /\ h'[x].buffer = <<>>
    <3>1. Len(h') = Len(h)
      BY <1>6, FreedType
    <3>2. DOMAIN h = 1..Len(h) /\ h[x] \in HandlerType(written)
      BY Sizes
    <3>3. \A y \in 1..Len(h) : y # x => h'[y] = h[y]
      BY <1>6, <2>1, <3>2 DEF Freed
    <3>4. h'[x] = [h[x] EXCEPT !.live = FALSE, !.buffer = <<>>]
      BY <1>6, <2>1, <3>2 DEF Freed
    <3>5. /\ h'[x].started = h[x].started /\ h'[x].disabled = h[x].disabled
          /\ h'[x].life = h[x].life /\ ~h'[x].live /\ h'[x].buffer = <<>>
      BY <3>2, <3>4 DEF HandlerType
    <3> QED BY <3>1, <3>3, <3>5
  <2>5. Disabled' = Disabled /\ Calls' = Below
    BY <1>6, <2>4 DEF Disabled, Calls, Below
  <2>6. CallsInv'
    <3>1. ASSUME NEW f \in Below PROVE FrameInv(f)'
      <4>1. /\ FrameInv(f) /\ f.st # "call"
            /\ f.do \notin {"op", "all"} => f.x \in 1..Len(h) /\ h'[f.x].life = h[f.x].life
        BY <1>2, <2>4
      <4>2. f.do \in {"flush", "clean"} => active = f.x
        BY <1>2, <2>1, <2>2, <4>1 DEF FrameInv, Innermost
      <4> QED BY <1>6, <2>5, <4>1, <4>2 DEF FrameInv
    <3>2. Linked(calls', Disabled')
      BY <1>2, <1>6, <2>5
    <3> QED BY <2>5, <3>1, <3>2 DEF CallsInv, Calls
  <2>7. StackInv'
    BY <1>6 DEF BracketInv, StackInv, Distinct
  <2>8. NoUser(calls') <=> NoUser(calls)
    BY <1>1, <1>2, <2>5, OnCalls, OnCallsNext
  <2>9. LifeInv'
    <3>1. CASE Over
      BY <1>6, <2>8, <3>1 DEF Over, LifeInv
    <3>2. CASE ~Over
      <4>1. \A y : ~Innermost("pop", y)
        BY <1>1 DEF Innermost
      <4> QED BY <1>6, <2>4, <3>2, <4>1 DEF BracketInv, LifeInv
    <3> QED BY <3>1, <3>2
  <2>10. ASSUME ~fatal PROVE SoundInv'
    <3>0. SoundInv /\ handlers \in Seq(1..Len(h)) /\ DOMAIN handlers = 1..Len(handlers)
      <4>1. handlers \in Seq(1..Len(h))
        BY DEF OutputInv, DataOK
      <4> QED BY <2>10, <4>1 DEF BracketInv
    <3>1. ASSUME NEW i \in 1..Len(handlers')
          PROVE  h'[handlers'[i]].live /\ h'[handlers'[i]].level = i - 1
      <4>1. handlers' = handlers /\ i \in DOMAIN handlers
        BY <1>6, <3>0, <3>1
      <4>2. handlers[i] \in 1..Len(h) /\ handlers[i] # x
        BY <2>3, <3>0, <4>1 DEF ToSet
      <4> QED BY <2>4, <3>0, <4>1, <4>2 DEF SoundInv
    <3>2. active' = NewActive(handlers') \/ (Pushing(active))'
      <4>1. Pushing(active) => (Pushing(active))'
        BY <1>1, <1>2, <1>6, <2>5 DEF Pushing, Calls
      <4> QED BY <1>6, <3>0, <4>1 DEF SoundInv, NewActive
    <3>3. ASSUME NEW f \in ToSet(calls'), f.do = "push"
          PROVE  \/ active' = f.x /\ h'[f.x].live /\ h'[f.x].level = Len(handlers')
                 \/ active' # f.x /\ f.x \in Disabled'
      <4>1. f \in ToSet(calls) /\ f.x \in 1..Len(h)
        BY <1>2, <2>5, <3>3 DEF Calls
      <4> QED BY <1>6, <2>3, <2>4, <2>5, <3>0, <3>3, <4>1 DEF SoundInv
    <3>4. running' # 0 => ~NoUser(calls')
      BY <1>6, <2>8, <3>0 DEF SoundInv
    <3>5. ASSUME NEW y \in 1..Len(h'), h'[y].live
          PROVE  \/ y \in ToSet(handlers') \/ (Freeing(y))'
                 \/ \E f \in ToSet(calls') : f.do = "push" /\ (f.x = y \/ f.x # active')
      <4>1. y \in 1..Len(h) /\ y # x /\ h[y].live
        BY <2>4, <3>5
      <4>2. \/ y \in ToSet(handlers) \/ Freeing(y)
            \/ \E f \in ToSet(calls) : f.do = "push" /\ (f.x = y \/ f.x # active)
        BY <3>0, <4>1 DEF SoundInv
      <4>3. Freeing(y) => (Freeing(y))'
        BY <1>2, <2>1, <2>5, <4>1 DEF Freeing, Calls
      <4> QED BY <1>1, <1>2, <1>6, <2>5, <4>2, <4>3 DEF Calls
    <3>6. ASSUME NEW y \in 1..Len(h'), ~h'[y].live
          PROVE  h'[y].buffer = <<>> /\ (y \in Disabled' \/ h'[y].life = "ended")
      BY <2>3, <2>4, <2>5, <3>0, <3>6 DEF SoundInv
    <3>7. /\ phase' # "off" /\ phase' # "undefined" /\ (Disabled' = {} => ~broken')
      BY <1>1, <1>6, <2>5, <3>0 DEF SoundInv
    <3> QED BY <3>1, <3>2, <3>3, <3>4, <3>5, <3>6, <3>7 DEF SoundInv
  <2> QED BY <1>6, <2>6, <2>7, <2>9, <2>10 DEF BracketInv
<1> QED BY <1>5, <1>6 DEF PopFrees

-----------------------------------------------------------------------------
(* The invariant holds *)

LEMMA InitBracket == Init => BracketInv
<1> SUFFICES ASSUME Init PROVE BracketInv
  OBVIOUS
<1>1. /\ h = <<>> /\ handlers = <<>> /\ calls = <<>> /\ active = 0 /\ running = 0
      /\ phase = "script" /\ broken = FALSE
  BY DEF Init
<1>2. Len(<<>>) = 0 /\ 1..0 = {} /\ ToSet(<<>>) = {}
  BY OnNone
<1>3. CallsInv
  BY <1>1, <1>2, LinkedNone DEF CallsInv
<1>4. StackInv
  BY <1>1, <1>2 DEF StackInv, Distinct
<1>5. LifeInv
  BY <1>1, <1>2 DEF LifeInv
<1>6. SoundInv
  BY <1>1, <1>2 DEF SoundInv, NewActive
<1> QED BY <1>3, <1>4, <1>5, <1>6 DEF BracketInv

LEMMA NextBracket == OutputInv /\ OutputInv' /\ BracketInv /\ [Next]_vars => BracketInv'
<1> SUFFICES ASSUME OutputInv, OutputInv', BracketInv, [Next]_vars PROVE BracketInv'
  OBVIOUS
<1>1. CASE Echo
  BY <1>1, EchoKeeps
<1>2. CASE ObFlush \/ ObClean \/ \E d \in BOOLEAN : ObEnd(d)
  BY <1>2, ScriptCallsKeep
<1>3. CASE Exit
  BY <1>3, ExitKeeps
<1>4. CASE EndOfPhase
  BY <1>4, EndOfPhaseKeeps
<1>5. ASSUME NEW k \in Kinds, ObStart(k) PROVE BracketInv'
  BY <1>5, StartKeeps
<1>6. ASSUME NEW s \in {"success", "nodata", "failure"}, Return(s) PROVE BracketInv'
  BY <1>6, ReturnKeeps
<1>7. CASE HandlerLocked
  BY <1>7, LockedKeeps
<1>8. CASE HandlerStores
  BY <1>8, StoresKeep
<1>9. CASE HandlerCalled
  BY <1>9, CalledKeeps
<1>10. CASE HandlerInternal
  BY <1>10, InternalKeeps
<1>11. CASE ApplyHandler
  BY <1>11, ApplyKeeps
<1>12. CASE ApplyStale
  BY <1>12, StaleKeeps
<1>13. CASE ApplyNext
  BY <1>13, ApplyNextKeeps
<1>14. CASE SapiWrite \/ CleanReturns
  BY <1>14, ReturnsKeep
<1>15. CASE ClientGone
  BY <1>15, ClientGoneKeeps
<1>16. CASE FlushWrites
  BY <1>16, ReturnsKeep, FlushWritesKeeps
<1>17. CASE FlushReturns
  BY <1>17, FlushReturnsKeeps
<1>18. CASE PopWrites
  BY <1>18, PopWritesKeeps
<1>19. CASE PopFrees
  BY <1>19, PopFreesKeeps
<1>20. CASE EndAll
  BY <1>20, EndAllKeeps
<1>21. CASE UNCHANGED vars
  <2>1. UNCHANGED <<h, handlers, active, running, broken, calls, phase, fatal>>
    BY <1>21 DEF vars
  <2>2. CallsInv'
    <3>1. ASSUME NEW f \in ToSet(calls') PROVE FrameInv(f)'
      <4>1. FrameInv(f)
        BY <2>1, <3>1 DEF BracketInv, CallsInv
      <4> QED BY <2>1, <4>1 DEF FrameInv, Done, Disabled, Innermost, top
    <3>2. Linked(calls', Disabled')
      BY <2>1 DEF BracketInv, CallsInv, Disabled
    <3> QED BY <3>1, <3>2 DEF CallsInv
  <2>3. StackInv'
    BY <2>1 DEF BracketInv, StackInv, Distinct
  <2>4. LifeInv'
    BY <2>1 DEF BracketInv, LifeInv, Over, Innermost, top, Done
  <2>5. ~fatal => SoundInv'
    BY <2>1 DEF BracketInv, SoundInv, Pushing, Freeing, NewActive, Disabled
  <2> QED BY <2>1, <2>2, <2>3, <2>4, <2>5 DEF BracketInv
<1> QED BY <1>1, <1>2, <1>3, <1>4, <1>5, <1>6, <1>7, <1>8, <1>9, <1>10, <1>11, <1>12,
           <1>13, <1>14, <1>15, <1>16, <1>17, <1>18, <1>19, <1>20, <1>21 DEF Next, Finished

LEMMA BracketInvariance == Spec => [](OutputInv /\ BracketInv)
<1>1. OutputInv /\ BracketInv /\ [Next]_vars => OutputInv' /\ BracketInv'
  BY NextOutput, NextBracket
<1> QED BY <1>1, InitOutput, InitBracket, PTL DEF Spec

-----------------------------------------------------------------------------
(* What it says *)

LEMMA SoundStack == OutputInv /\ BracketInv => StackConsistent
<1> SUFFICES ASSUME OutputInv, BracketInv PROVE StackConsistent
  OBVIOUS
<1>1. /\ handlers \in Seq(1..Len(h)) /\ DOMAIN handlers = 1..Len(handlers)
      /\ DOMAIN h = 1..Len(h) /\ DOMAIN calls = 1..Len(calls)
  <2>1. handlers \in Seq(1..Len(h)) /\ calls \in Seq(Fr)
    BY DEF OutputInv, DataOK, CallsOK, Fr
  <2> QED BY <2>1, Sizes
<1>2. phase = "undefined" => fatal \/ \E x \in DOMAIN h : h[x].disabled
  BY <1>1 DEF BracketInv, SoundInv, Disabled
<1>3. ASSUME ScriptRuns, ~fatal
      PROVE  /\ \A i \in DOMAIN handlers : /\ h[handlers[i]].live
                                           /\ h[handlers[i]].level = i - 1
             /\ \/ active = (IF handlers = <<>> THEN 0 ELSE Last(handlers))
                \/ \E i \in DOMAIN calls : calls[i].do = "push" /\ calls[i].x = active
             /\ running = (IF InHandler THEN top.x ELSE 0)
  <2>1. SoundInv /\ CallsInv
    BY <1>3 DEF BracketInv
  <2>2. \A i \in DOMAIN handlers : h[handlers[i]].live /\ h[handlers[i]].level = i - 1
    BY <1>1, <2>1 DEF SoundInv
  <2>3. \/ active = (IF handlers = <<>> THEN 0 ELSE Last(handlers))
        \/ \E i \in DOMAIN calls : calls[i].do = "push" /\ calls[i].x = active
    BY <2>1 DEF SoundInv, NewActive, Pushing, ToSet
  <2>4. CASE InHandler
    <3>1. FrameInv(top)
      BY <2>1, <2>4, Core DEF InHandler
    <3> QED BY <2>2, <2>3, <2>4, <3>1 DEF FrameInv, InHandler
  <2>5. CASE ~InHandler
    <3>1. NoUser(calls)
      BY <1>3, <2>5, EmptyShape DEF ScriptRuns
    <3>2. running = 0
      BY <2>1, <3>1 DEF SoundInv
    <3> QED BY <2>2, <2>3, <2>5, <3>2
  <2> QED BY <2>4, <2>5
<1>4. Cardinality(ToSet(handlers)) = Len(handlers)
  BY <1>1, DistinctCount DEF BracketInv, StackInv
<1> QED BY <1>2, <1>3, <1>4 DEF StackConsistent

\* Wherever script code runs, of the request or of an output handler, and as long as
\* no bailout has left the layer's C code, the stack of handlers is sound: each handler
\* is on it once, is alive and knows its level, OG(active) is the top one or the one
\* php_output_flush is to put back, and OG(running) is the handler whose code runs.
\* What the C code does is defined, unless a handler has failed or a bailout was taken.
THEOREM StackSound == Spec => []StackConsistent
BY BracketInvariance, SoundStack, PTL

LEMMA BracketedCalls == OutputInv /\ BracketInv => WellBracketed
<1> SUFFICES ASSUME OutputInv, BracketInv PROVE WellBracketed
  OBVIOUS
<1>1. DOMAIN h = 1..Len(h) /\ DOMAIN calls = 1..Len(calls)
  <2>1. calls \in Seq(Fr)
    BY DEF OutputInv, CallsOK, Fr
  <2> QED BY <2>1, Sizes
<1>2. ASSUME NEW i \in DOMAIN calls, calls[i].do = "user"
      PROVE  /\ ("start" \in calls[i].op) <=> (calls[i].life = "new")
             /\ calls[i].life # "ended"
  <2>1. FrameInv(calls[i])
    BY <1>2 DEF BracketInv, CallsInv, ToSet
  <2> QED BY <1>2, <2>1 DEF FrameInv, Bracketed
<1>3. ASSUME ~fatal, NEW x \in DOMAIN h
      PROVE  h[x].live \/ h[x].disabled \/ h[x].life = "ended"
  BY <1>1, <1>3 DEF BracketInv, SoundInv, Disabled
<1>4. ASSUME phase = "off", ~fatal PROVE (\A x \in DOMAIN h : ~h[x].live) /\ Held = {}
  <2>1. SoundInv /\ handlers = <<>> /\ calls = <<>>
    BY <1>4 DEF BracketInv, SoundInv, OutputInv, CallsOK
  <2>2. ToSet(handlers) = {} /\ ToSet(calls) = {} /\ ToSet(<<>>) = {} /\ DOMAIN calls = {}
    BY <2>1, OnNone
  <2>3. ASSUME NEW x \in DOMAIN h PROVE ~h[x].live /\ h[x].buffer = <<>>
    BY <1>1, <2>1, <2>2, <2>3 DEF SoundInv, Freeing
  <2>4. Held = {}
    <3>1. \A S \in {ToSet(h[x].buffer) : x \in DOMAIN h} : S = {}
      BY <2>2, <2>3
    <3>2. {ToSet(calls[i].in) \cup ToSet(calls[i].out) : i \in DOMAIN calls} = {}
      BY <2>2
    <3> QED BY <3>1, <3>2 DEF Held
  <2> QED BY <2>3, <2>4
<1> QED BY <1>2, <1>3, <1>4 DEF WellBracketed

\* The first call of an output handler, and only that one, has the start flag, and no
\* call follows the final one, be handlers flushed, cleaned and ended by other handlers
\* or left by a bailout. Unless a bailout interferes, a handler is destroyed after its
\* final call or when it has failed, and at the end of the request all are destroyed
\* and no buffer holds anything.
THEOREM CallsWellBracketed == Spec => []WellBracketed
BY BracketInvariance, BracketedCalls, PTL

=============================================================================
