--------------------------- MODULE PhpOutputProofs ---------------------------
(***************************************************************************)
(* Proofs about PhpOutput for any kinds of handlers and any bounds: the    *)
(* types, and that script code of one output handler runs at a time.       *)
(***************************************************************************)
EXTENDS PhpOutput, FiniteSetTheorems, SequenceTheorems, TLAPS

-----------------------------------------------------------------------------
(* Stacks *)

\* One more call on the stack.
LEMMA Pushed ==
    ASSUME NEW F, NEW s \in Seq(F), NEW f \in F
    PROVE  /\ <<f>> \o s \in Seq(F) /\ Len(<<f>> \o s) = Len(s) + 1
           /\ <<f>> \o s # <<>> /\ Head(<<f>> \o s) = f /\ Tail(<<f>> \o s) = s
           /\ (<<f>> \o s)[1] = f
           /\ \A i \in 2..(Len(s) + 1) : (<<f>> \o s)[i] = s[i - 1]
OBVIOUS

\* Two more calls are one and another.
LEMMA PushedTwo ==
    ASSUME NEW F, NEW s \in Seq(F), NEW f \in F, NEW g \in F
    PROVE  <<f, g>> \o s = <<f>> \o (<<g>> \o s)
<1>1. <<f, g>> \in Seq(F) /\ <<f>> \in Seq(F) /\ <<g>> \in Seq(F)
  OBVIOUS
<1>2. <<f, g>> = <<f>> \o <<g>>
  <2>1. Len(<<f, g>>) = 2 /\ Len(<<f>> \o <<g>>) = 2 /\ <<f>> \o <<g>> \in Seq(F)
    BY <1>1
  <2>2. /\ <<f, g>>[1] = (<<f>> \o <<g>>)[1]
        /\ <<f, g>>[2] = (<<f>> \o <<g>>)[2]
    BY <1>1
  <2> DEFINE u == <<f, g>>
             v == <<f>> \o <<g>>
  <2>3. u \in Seq(F) /\ v \in Seq(F) /\ Len(u) = Len(v) /\ \A i \in 1..Len(u) : u[i] = v[i]
    <3>1. \A i \in 1..2 : i = 1 \/ i = 2
      OBVIOUS
    <3> QED BY <1>1, <2>1, <2>2, <3>1
  <2> HIDE DEF u, v
  <2>4. u = v
    BY <2>3, SeqEqual
  <2> QED BY <2>4 DEF u, v
<1> QED BY <1>1, <1>2, ConcatAssociative

\* The innermost call returns.
LEMMA PoppedOne ==
    ASSUME NEW F, NEW s \in Seq(F), s # <<>>
    PROVE  /\ Tail(s) \in Seq(F) /\ Len(s) \in Nat \ {0} /\ Len(Tail(s)) = Len(s) - 1
           /\ Head(s) \in F /\ Head(s) = s[1]
           /\ \A i \in 1..(Len(s) - 1) : Tail(s)[i] = s[i + 1]
OBVIOUS

\* a flush that has run its handler, until it is back on the stack of handlers
Returning(f) == f.do = "push" \/ (f.do = "flush" /\ f.st # "call")

\* The stack of calls: a user handler runs on top of the call that waits for it,
\* and only one does; only the innermost call is about to run a handler; a flush
\* is called by script code, and one at a time goes past its handler.
Shape(s) ==
    /\ \A i \in 1..Len(s) : s[i].do = "user" =>
          /\ s[i].st = "none" /\ i < Len(s)
          /\ s[i + 1].st = "wait" /\ s[i + 1].do # "user" /\ s[i + 1].x = s[i].x
    /\ \A i, j \in 1..Len(s) : s[i].do = "user" /\ s[j].do = "user" => i = j
    /\ \A i \in 2..Len(s) : s[i].st # "call"
    /\ \A i \in 1..Len(s) : s[i].do \in {"flush", "push"} =>
          i = Len(s) \/ s[i + 1].do = "user"
    /\ \A i, j \in 1..Len(s) : Returning(s[i]) /\ Returning(s[j]) => i = j

NoUser(s) == \A i \in 1..Len(s) : s[i].do # "user"

NoReturning(s) == \A i \in 1..Len(s) : ~Returning(s[i])

LEMMA EmptyShape == Shape(<<>>) /\ NoUser(<<>>) /\ NoReturning(<<>>)
BY DEF Shape, NoUser, NoReturning

\* What is left when the innermost call returns.
LEMMA ShapePopped ==
    ASSUME NEW F, NEW s \in Seq(F), s # <<>>, Shape(s)
    PROVE  /\ Shape(Tail(s))
           /\ Tail(s) # <<>> => Head(Tail(s)).st # "call"
           /\ NoUser(s) => NoUser(Tail(s))
           /\ Head(s).do = "user" =>
                 /\ NoUser(Tail(s)) /\ Tail(s) # <<>> /\ Head(s).st = "none"
                 /\ Head(Tail(s)).st = "wait" /\ Head(Tail(s)).do # "user"
                 /\ Head(Tail(s)).x = Head(s).x
           /\ Head(s).do \in {"flush", "push"} =>
                 Tail(s) = <<>> \/ Head(Tail(s)).do = "user"
           /\ Returning(Head(s)) => NoReturning(Tail(s))
           /\ NoReturning(s) => NoReturning(Tail(s))
<1> DEFINE t == Tail(s)
<1>1. /\ t \in Seq(F) /\ Len(s) \in Nat \ {0} /\ Len(t) = Len(s) - 1 /\ Head(s) = s[1]
      /\ \A i \in 1..Len(t) : t[i] = s[i + 1] /\ i + 1 \in 2..Len(s) /\ i + 1 \in 1..Len(s)
      /\ 1 \in 1..Len(s)
  BY PoppedOne
<1>2. /\ t # <<>> => Len(t) >= 1 /\ Head(t) = t[1] /\ t[1] = s[2] /\ 2 \in 2..Len(s)
      /\ Len(s) > 1 => t # <<>>
  <2>1. ASSUME t # <<>> PROVE Len(t) \in Nat \ {0} /\ Head(t) = t[1]
    BY <1>1, <2>1, PoppedOne
  <2>2. ASSUME t # <<>> PROVE t[1] = s[2] /\ 2 \in 2..Len(s)
    <3>1. 1 \in 1..Len(t)
      BY <2>1, <2>2
    <3> QED BY <1>1, <3>1
  <2>3. Len(s) > 1 => t # <<>>
    BY <1>1
  <2> QED BY <2>1, <2>2, <2>3
<1> HIDE DEF t
<1>3. Shape(t)
  <2>1. ASSUME NEW i \in 1..Len(t), t[i].do = "user"
        PROVE  /\ t[i].st = "none" /\ i < Len(t)
               /\ t[i + 1].st = "wait" /\ t[i + 1].do # "user" /\ t[i + 1].x = t[i].x
    <3>1. s[i + 1].do = "user" /\ t[i] = s[i + 1] /\ i + 1 \in 1..Len(s)
      BY <1>1, <2>1
    <3>2. i + 1 < Len(s) /\ s[i + 1].st = "none" /\ s[(i + 1) + 1].st = "wait"
          /\ s[(i + 1) + 1].do # "user" /\ s[(i + 1) + 1].x = s[i + 1].x
      BY <3>1 DEF Shape
    <3>3. i + 1 \in 1..Len(t) /\ t[i + 1] = s[(i + 1) + 1]
      BY <1>1, <3>2
    <3>4. i < Len(t)
      BY <1>1, <3>2
    <3> QED BY <3>1, <3>2, <3>3, <3>4
  <2>2. ASSUME NEW i \in 1..Len(t), NEW j \in 1..Len(t), t[i].do = "user", t[j].do = "user"
        PROVE  i = j
    <3>1. /\ i + 1 \in 1..Len(s) /\ j + 1 \in 1..Len(s)
          /\ s[i + 1].do = "user" /\ s[j + 1].do = "user"
      BY <1>1, <2>2
    <3>2. i + 1 = j + 1
      BY <3>1 DEF Shape
    <3> QED BY <3>2
  <2>3. ASSUME NEW i \in 2..Len(t) PROVE t[i].st # "call"
    <3>1. i \in 1..Len(t)
      OBVIOUS
    <3> QED BY <1>1, <3>1 DEF Shape
  <2>4. ASSUME NEW i \in 1..Len(t), t[i].do \in {"flush", "push"}
        PROVE  i = Len(t) \/ t[i + 1].do = "user"
    <3>1. i + 1 = Len(s) \/ s[(i + 1) + 1].do = "user"
      BY <1>1, <2>4 DEF Shape
    <3>2. i = Len(t) \/ i + 1 \in 1..Len(t)
      BY <1>1
    <3> QED BY <1>1, <3>1, <3>2
  <2>5. ASSUME NEW i \in 1..Len(t), NEW j \in 1..Len(t), Returning(t[i]), Returning(t[j])
        PROVE  i = j
    <3>1. i + 1 = j + 1
      BY <1>1, <2>5 DEF Shape
    <3> QED BY <3>1
  <2> QED BY <2>1, <2>2, <2>3, <2>4, <2>5 DEF Shape
<1>4. t # <<>> => Head(t).st # "call"
  BY <1>2 DEF Shape
<1>5. NoUser(s) => NoUser(t)
  BY <1>1 DEF NoUser
<1>6. ASSUME Head(s).do = "user"
      PROVE  /\ NoUser(t) /\ t # <<>> /\ Head(s).st = "none"
             /\ Head(t).st = "wait" /\ Head(t).do # "user" /\ Head(t).x = Head(s).x
  <2>1. s[1].do = "user" /\ s[1].st = "none" /\ 1 < Len(s) /\ s[1 + 1].st = "wait"
        /\ s[1 + 1].do # "user" /\ s[1 + 1].x = s[1].x
    BY <1>1, <1>6 DEF Shape
  <2>2. ASSUME NEW i \in 1..Len(t), t[i].do = "user" PROVE FALSE
    <3>1. s[i + 1].do = "user" /\ i + 1 \in 1..Len(s)
      BY <1>1, <2>2
    <3>2. i + 1 = 1
      BY <1>1, <2>1, <3>1 DEF Shape
    <3> QED BY <3>2
  <2>3. t # <<>> /\ Head(t) = s[1 + 1]
    BY <1>1, <1>2, <2>1
  <2> QED BY <1>1, <2>1, <2>2, <2>3 DEF NoUser
<1>7. Head(s).do \in {"flush", "push"} => t = <<>> \/ Head(t).do = "user"
  <2>1. Head(s).do \in {"flush", "push"} => 1 = Len(s) \/ s[1 + 1].do = "user"
    BY <1>1 DEF Shape
  <2> QED BY <1>1, <1>2, <2>1
<1>8. Returning(Head(s)) => NoReturning(t)
  <2>1. ASSUME Returning(s[1]), NEW i \in 1..Len(t), Returning(t[i]) PROVE FALSE
    <3>1. i + 1 = 1
      BY <1>1, <2>1 DEF Shape
    <3> QED BY <3>1
  <2> QED BY <1>1, <2>1 DEF NoReturning
<1>9. NoReturning(s) => NoReturning(t)
  BY <1>1 DEF NoReturning
<1> QED BY <1>3, <1>4, <1>5, <1>6, <1>7, <1>8, <1>9 DEF t

\* What one more call has to be: a user handler on top of the call that waits for
\* it, when no other runs, or else a call made by the innermost one.
Fits(f, s) ==
    /\ s # <<>> => Head(s).st # "call"
    /\ f.do = "user" => /\ NoUser(s) /\ s # <<>> /\ f.st = "none"
                        /\ Head(s).st = "wait" /\ Head(s).do # "user" /\ Head(s).x = f.x
    /\ f.do \in {"flush", "push"} => s = <<>> \/ Head(s).do = "user"
    /\ Returning(f) => NoReturning(s)

LEMMA ShapePushed ==
    ASSUME NEW F, NEW s \in Seq(F), NEW f \in F, Shape(s), Fits(f, s)
    PROVE  /\ Shape(<<f>> \o s)
           /\ NoUser(s) /\ f.do # "user" => NoUser(<<f>> \o s)
           /\ NoReturning(s) /\ ~Returning(f) => NoReturning(<<f>> \o s)
<1> DEFINE t == <<f>> \o s
<1>1. /\ t \in Seq(F) /\ Len(t) = Len(s) + 1 /\ t[1] = f /\ Len(s) \in Nat
      /\ \A i \in 2..Len(t) : t[i] = s[i - 1]
  BY Pushed
<1>2. s # <<>> => Len(s) \in Nat \ {0} /\ Head(s) = s[1]
  BY PoppedOne
<1>3. s = <<>> => Len(s) = 0
  OBVIOUS
<1> HIDE DEF t
<1>4. \A i \in 1..Len(t) : i = 1 \/ (i \in 2..Len(t) /\ i - 1 \in 1..Len(s))
  BY <1>1
<1>5. s # <<>> => Len(t) > 1 /\ t[1 + 1] = Head(s)
  <2>1. ASSUME s # <<>> PROVE 2 \in 2..Len(t) /\ t[2] = s[1]
    <3>1. 2 \in 2..Len(t)
      BY <1>1, <1>2, <2>1
    <3> QED BY <1>1, <3>1
  <2> QED BY <1>2, <2>1
<1>6. Shape(t)
  <2>1. ASSUME NEW i \in 1..Len(t), t[i].do = "user"
        PROVE  /\ t[i].st = "none" /\ i < Len(t)
               /\ t[i + 1].st = "wait" /\ t[i + 1].do # "user" /\ t[i + 1].x = t[i].x
    <3>1. CASE i = 1
      BY <1>1, <1>5, <2>1, <3>1 DEF Fits
    <3>2. CASE i \in 2..Len(t) /\ i - 1 \in 1..Len(s)
      <4>1. s[i - 1].do = "user" /\ t[i] = s[i - 1]
        BY <1>1, <2>1, <3>2
      <4>2. s[i - 1].st = "none" /\ i - 1 < Len(s) /\ s[(i - 1) + 1].st = "wait"
            /\ s[(i - 1) + 1].do # "user" /\ s[(i - 1) + 1].x = s[i - 1].x
        BY <3>2, <4>1 DEF Shape
      <4>3. i + 1 \in 2..Len(t) /\ t[i + 1] = s[(i - 1) + 1] /\ i < Len(t)
        <5>1. i + 1 \in 2..Len(t) /\ (i + 1) - 1 = (i - 1) + 1 /\ i < Len(t)
          BY <1>1, <3>2, <4>2
        <5> QED BY <1>1, <5>1
      <4> QED BY <4>1, <4>2, <4>3
    <3> QED BY <1>4, <3>1, <3>2
  <2>2. ASSUME NEW i \in 1..Len(t), NEW j \in 1..Len(t), t[i].do = "user", t[j].do = "user"
        PROVE  i = j
    <3>1. ASSUME NEW k \in 1..Len(t), t[k].do = "user", t[1].do = "user" PROVE k = 1
      BY <1>1, <1>4, <3>1 DEF Fits, NoUser
    <3>2. CASE i = 1 \/ j = 1
      BY <2>2, <3>1, <3>2
    <3>3. CASE i # 1 /\ j # 1
      <4>1. /\ i - 1 \in 1..Len(s) /\ j - 1 \in 1..Len(s)
            /\ s[i - 1].do = "user" /\ s[j - 1].do = "user"
        BY <1>1, <1>4, <2>2, <3>3
      <4>2. i - 1 = j - 1
        BY <4>1 DEF Shape
      <4> QED BY <4>2
    <3> QED BY <3>2, <3>3
  <2>3. ASSUME NEW i \in 2..Len(t) PROVE t[i].st # "call"
    <3>1. i - 1 \in 1..Len(s) /\ t[i] = s[i - 1]
      BY <1>1
    <3>2. CASE i - 1 = 1
      <4>1. s # <<>> /\ t[i] = Head(s)
        BY <1>2, <1>3, <3>1, <3>2
      <4> QED BY <4>1 DEF Fits
    <3>3. CASE i - 1 \in 2..Len(s)
      BY <3>1, <3>3 DEF Shape
    <3> QED BY <3>1, <3>2, <3>3
  <2>4. ASSUME NEW i \in 1..Len(t), t[i].do \in {"flush", "push"}
        PROVE  i = Len(t) \/ t[i + 1].do = "user"
    <3>1. CASE i = 1
      BY <1>1, <1>3, <1>5, <2>4, <3>1 DEF Fits
    <3>2. CASE i \in 2..Len(t) /\ i - 1 \in 1..Len(s)
      <4>1. i - 1 = Len(s) \/ s[(i - 1) + 1].do = "user"
        BY <1>1, <2>4, <3>2 DEF Shape
      <4>2. i = Len(t) \/ (i + 1 \in 2..Len(t) /\ (i + 1) - 1 = (i - 1) + 1)
        BY <1>1, <3>2
      <4>3. i = Len(t) \/ t[i + 1] = s[(i - 1) + 1]
        BY <1>1, <4>2
      <4> QED BY <1>1, <3>2, <4>1, <4>3
    <3> QED BY <1>4, <3>1, <3>2
  <2>5. ASSUME NEW i \in 1..Len(t), NEW j \in 1..Len(t), Returning(t[i]), Returning(t[j])
        PROVE  i = j
    <3>1. ASSUME NEW k \in 1..Len(t), Returning(t[k]), Returning(t[1]) PROVE k = 1
      BY <1>1, <1>4, <3>1 DEF Fits, NoReturning
    <3>2. CASE i = 1 \/ j = 1
      BY <2>5, <3>1, <3>2
    <3>3. CASE i # 1 /\ j # 1
      <4>1. /\ i - 1 \in 1..Len(s) /\ j - 1 \in 1..Len(s)
            /\ Returning(s[i - 1]) /\ Returning(s[j - 1])
        BY <1>1, <1>4, <2>5, <3>3
      <4>2. i - 1 = j - 1
        BY <4>1 DEF Shape
      <4> QED BY <4>2
    <3> QED BY <3>2, <3>3
  <2> QED BY <2>1, <2>2, <2>3, <2>4, <2>5 DEF Shape
<1>7. NoUser(s) /\ f.do # "user" => NoUser(t)
  BY <1>1, <1>4 DEF NoUser
<1>8. NoReturning(s) /\ ~Returning(f) => NoReturning(t)
  BY <1>1, <1>4 DEF NoReturning
<1> QED BY <1>6, <1>7, <1>8 DEF t

-----------------------------------------------------------------------------
(* Types *)

Lives    == {"new", "begun", "ended"}
OpFlags  == {"start", "flush", "clean", "final"}
Statuses == {"none", "call", "wait", "nodata", "success", "failure"}
Doings   == {"op", "pop", "flush", "clean", "push", "free", "all", "user"}

\* Calls when n handlers were created and w things written. All but a pass
\* through the stack (before it is at a handler) and php_output_end_all are about
\* a handler.
FrameType(n, w) == [do : Doings, x : 0..n, op : SUBSET OpFlags, in : Seq(1..w),
                    out : Seq(1..w), st : Statuses, n : 0..n, discard : BOOLEAN,
                    life : Lives]

FrameOK(f) ==
    /\ f.x = 0 => f.do \in {"op", "all"} /\ f.st = "none"
    /\ f.do = "op" => f.op = {} /\ (f.st = "none" \/ f.n # 0)
    /\ f.do = "flush" => f.op # {}

Frames(n, w) == {f \in FrameType(n, w) : FrameOK(f)}

HandlerType(w) == [user : BOOLEAN, size : Nat, can : SUBSET Abilities,
                   started : BOOLEAN, disabled : BOOLEAN, level : 0..MaxHandlers,
                   buffer : Seq(1..w), live : BOOLEAN, life : Lives]

Phases == {"script", "functions", "destructors", "flush", "off", "undefined"}

DataOK ==
    /\ written \in 0..MaxWrites /\ ops \in 0..MaxOps
    /\ h \in Seq(HandlerType(written)) /\ Len(h) <= MaxHandlers
    /\ handlers \in Seq(1..Len(h)) /\ Len(handlers) <= Len(h)
    /\ active \in 0..Len(h) /\ running \in 0..Len(h)
    /\ headers \in {"none", "sent", "failed"} /\ phase \in Phases
    /\ sent \in Seq(1..written)
    /\ activated \in BOOLEAN /\ broken \in BOOLEAN
    /\ fatal \in BOOLEAN /\ misplaced \in BOOLEAN

NoPush(s) == \A i \in 1..Len(s) : s[i].do # "push"

\* A handler that is run is run by request, with one active, or for a full chunk;
\* and a handler on its way back to the stack has its place there.
CallsOK ==
    /\ calls \in Seq(Frames(Len(h), written))
    /\ Shape(calls)
    /\ running = 0 => NoUser(calls)
    /\ calls # <<>> /\ top.st = "call" /\ top.op # {} => active # 0
    /\ phase = "off" => calls = <<>>
    /\ broken \/ Len(handlers) < Len(h) \/ NoPush(calls)

OutputInv == DataOK /\ CallsOK

\* Sequences of sequences' types grow with them.
LEMMA TypesGrow ==
    ASSUME NEW n \in Nat, NEW m \in Nat, n <= m, NEW v \in Nat, NEW w \in Nat, v <= w
    PROVE  /\ Frames(n, v) \subseteq Frames(m, w)
           /\ HandlerType(v) \subseteq HandlerType(w)
<1>1. 1..v \subseteq 1..w /\ 0..n \subseteq 0..m
  OBVIOUS
<1>2. \A s \in Seq(1..v) : s \in Seq(1..w)
  BY <1>1, SeqMonotonic
<1>3. ASSUME NEW f \in FrameType(n, v) PROVE f \in FrameType(m, w)
  BY <1>1, <1>2 DEF FrameType
<1>4. ASSUME NEW f \in HandlerType(v) PROVE f \in HandlerType(w)
  BY <1>1, <1>2 DEF HandlerType
<1> QED BY <1>3, <1>4 DEF Frames

\* A sequence with other elements.
LEMMA SameLength ==
    ASSUME NEW S, NEW s \in Seq(S), NEW t, t = [i \in DOMAIN s |-> t[i]],
           \A i \in 1..Len(s) : t[i] \in S
    PROVE  t \in Seq(S) /\ Len(t) = Len(s)
<1>1. DOMAIN s = 1..Len(s) /\ Len(s) \in Nat
  OBVIOUS
<1>2. t \in [1..Len(s) -> S]
  BY <1>1
<1>3. t \in Seq(S)
  BY <1>1, <1>2, SeqDef
<1>4. DOMAIN t = 1..Len(t) /\ DOMAIN t = 1..Len(s) /\ Len(t) \in Nat
  BY <1>1, <1>2, <1>3
<1> QED BY <1>1, <1>3, <1>4

\* The last handler off the stack.
LEMMA DelTopType ==
    ASSUME NEW S, handlers \in Seq(S)
    PROVE  /\ DelTop \in Seq(S) /\ Len(DelTop) <= Len(handlers)
           /\ handlers # <<>> => Len(DelTop) < Len(handlers)
           /\ DelTop # <<>> => Last(DelTop) \in S
<1>1. CASE handlers = <<>>
  BY <1>1 DEF DelTop
<1>2. CASE handlers # <<>>
  <2>1. Len(handlers) \in Nat \ {0} /\ DelTop = SubSeq(handlers, 1, Len(handlers) - 1)
    BY <1>2 DEF DelTop, Front
  <2>2. DelTop \in Seq(S) /\ Len(DelTop) = Len(handlers) - 1
    <3>1. \A i \in 1..(Len(handlers) - 1) : handlers[i] \in S
      BY <2>1
    <3>2. PICK k \in Nat : k = Len(handlers) - 1
      BY <2>1
    <3>3. \A i \in 1..k : handlers[i] \in S
      BY <3>1, <3>2
    <3>4. PICK m \in Int : m = 1
      OBVIOUS
    <3>5. /\ SubSeq(handlers, m, k) \in Seq(S)
          /\ Len(SubSeq(handlers, m, k)) = (IF m <= k THEN k - m + 1 ELSE 0)
      <4>1. k \in Int /\ \A i \in m..k : handlers[i] \in S
        BY <3>3, <3>4
      <4> QED BY <4>1, SubSeqProperties, Zenon
    <3>6. (IF 1 <= k THEN k - 1 + 1 ELSE 0) = k
      OBVIOUS
    <3> QED BY <2>1, <3>2, <3>4, <3>5, <3>6
  <2>3. DelTop # <<>> => Last(DelTop) \in S
    BY <2>2 DEF Last
  <2> QED BY <1>2, <2>1, <2>2, <2>3
<1> QED BY <1>1, <1>2

-----------------------------------------------------------------------------
(* Calls made and calls that return *)

LEMMA CallMade ==
    ASSUME NEW F, NEW s \in Seq(F), NEW f \in F, Shape(s), Fits(f, s),
           NEW c, c = <<f>> \o s
    PROVE  /\ c \in Seq(F) /\ Shape(c) /\ c # <<>> /\ Head(c) = f /\ Tail(c) = s
           /\ NoUser(s) /\ f.do # "user" => NoUser(c)
           /\ NoPush(s) /\ f.do # "push" => NoPush(c)
           /\ NoReturning(s) /\ ~Returning(f) => NoReturning(c)
<1>1. /\ c \in Seq(F) /\ c # <<>> /\ Head(c) = f /\ Tail(c) = s /\ Len(c) = Len(s) + 1
      /\ c[1] = f /\ \A i \in 2..(Len(s) + 1) : c[i] = s[i - 1]
  BY Pushed
<1>2. /\ Shape(c) /\ (NoUser(s) /\ f.do # "user" => NoUser(c))
      /\ (NoReturning(s) /\ ~Returning(f) => NoReturning(c))
  BY ShapePushed
<1>3. ASSUME NoPush(s), f.do # "push", NEW i \in 1..Len(c) PROVE c[i].do # "push"
  <2>1. CASE i = 1
    BY <1>1, <1>3, <2>1
  <2>2. CASE i # 1
    <3>1. i \in 2..(Len(s) + 1) /\ i - 1 \in 1..Len(s)
      BY <1>1, <2>2
    <3> QED BY <1>1, <1>3, <3>1 DEF NoPush
  <2> QED BY <2>1, <2>2
<1> QED BY <1>1, <1>2, <1>3 DEF NoPush

LEMMA CallReturns ==
    ASSUME NEW F, NEW s \in Seq(F), s # <<>>, Shape(s)
    PROVE  /\ Tail(s) \in Seq(F) /\ Head(s) \in F /\ Shape(Tail(s))
           /\ Tail(s) # <<>> => Head(Tail(s)) \in F /\ Head(Tail(s)).st # "call"
                                /\ Head(Tail(s)) = s[2]
           /\ NoUser(s) => NoUser(Tail(s)) /\ Head(s).do # "user"
           /\ NoPush(s) => NoPush(Tail(s)) /\ Head(s).do # "push"
           /\ Head(s).do = "user" =>
                 /\ NoUser(Tail(s)) /\ Tail(s) # <<>> /\ Head(s).st = "none"
                 /\ Head(Tail(s)).st = "wait" /\ Head(Tail(s)).do # "user"
                 /\ Head(Tail(s)).x = Head(s).x
           /\ Head(s).do \in {"flush", "push"} =>
                 Tail(s) = <<>> \/ Head(Tail(s)).do = "user"
           /\ Returning(Head(s)) => NoReturning(Tail(s)) /\ NoPush(Tail(s))
           /\ Head(s).do = "flush" /\ NoUser(s) => Tail(s) = <<>>
<1>1. /\ Tail(s) \in Seq(F) /\ Len(s) \in Nat \ {0} /\ Len(Tail(s)) = Len(s) - 1
      /\ Head(s) \in F /\ Head(s) = s[1]
      /\ \A i \in 1..(Len(s) - 1) : Tail(s)[i] = s[i + 1]
  BY PoppedOne
<1>2. ASSUME Tail(s) # <<>> PROVE Head(Tail(s)) \in F /\ Head(Tail(s)) = s[2]
  <2>1. /\ Len(Tail(s)) \in Nat \ {0} /\ Head(Tail(s)) \in F
        /\ Head(Tail(s)) = Tail(s)[1]
    BY <1>1, <1>2, PoppedOne
  <2>2. 1 \in 1..(Len(s) - 1) /\ 1 + 1 = 2
    BY <1>1, <2>1
  <2> QED BY <1>1, <2>1, <2>2
<1>3. NoPush(s) => NoPush(Tail(s)) /\ Head(s).do # "push"
  BY <1>1 DEF NoPush
<1>4. NoUser(s) => Head(s).do # "user"
  BY <1>1 DEF NoUser
<1>5. NoReturning(Tail(s)) => NoPush(Tail(s))
  BY DEF NoReturning, NoPush, Returning
<1>6. ASSUME NoUser(s), Tail(s) # <<>> PROVE Head(Tail(s)).do # "user"
  <2>1. 2 \in 1..Len(s)
    BY <1>1, <1>6, PoppedOne
  <2> QED BY <1>2, <1>6, <2>1 DEF NoUser
<1> QED BY <1>1, <1>2, <1>3, <1>4, <1>5, <1>6, ShapePopped

\* The call of php_output_op.
LEMMA OpFrameType ==
    ASSUME NEW n \in Nat, NEW w \in Nat, NEW hs \in Seq(1..n), Len(hs) <= n, NEW act,
           NEW data \in Seq(1..w)
    PROVE  /\ OpFrame(hs, act, data) \in Frames(n, w)
           /\ OpFrame(hs, act, data).do = "op" /\ OpFrame(hs, act, data).st = "none"
           /\ OpFrame(hs, act, data).op = {}
<1>1. Len(hs) \in 0..n /\ 0 \in 0..n /\ <<>> \in Seq(1..w)
  OBVIOUS
<1> DEFINE f == [Frame("op", 0) EXCEPT !.in = data, !.n = Len(hs)]
           g == [Frame("op", 0) EXCEPT !.out = data]
<1>2. f \in Frames(n, w) /\ f.do = "op" /\ f.st = "none" /\ f.op = {}
  BY <1>1 DEF Frames, FrameType, FrameOK, Frame, Doings, Statuses, Lives
<1>3. g \in Frames(n, w) /\ g.do = "op" /\ g.st = "none" /\ g.op = {}
  BY <1>1 DEF Frames, FrameType, FrameOK, Frame, Doings, Statuses, Lives
<1> HIDE DEF f, g
<1>4. OpFrame(hs, act, data) = f \/ OpFrame(hs, act, data) = g
  BY DEF OpFrame, f, g
<1> QED BY <1>2, <1>3, <1>4

\* The call of php_output_stack_pop.
LEMMA PopFrameType ==
    ASSUME OutputInv, NEW x \in 1..Len(h), NEW d \in BOOLEAN
    PROVE  PopFrame(x, d) \in Frames(Len(h), written) /\ PopFrame(x, d).do = "pop"
<1>1. Len(h) \in Nat /\ written \in Nat /\ x \in 0..Len(h) /\ 0 \in 0..Len(h) /\ x # 0
      /\ <<>> \in Seq(1..written)
  BY DEF OutputInv, DataOK
<1> DEFINE f == [Frame("pop", x) EXCEPT !.st = "nodata", !.discard = d]
           p == {"final"} \cup (IF h[x].started THEN {} ELSE {"start"})
                          \cup (IF d THEN {"clean"} ELSE {})
           g == [Frame("pop", x) EXCEPT !.st = "call", !.discard = d, !.op = p]
<1>2. f \in Frames(Len(h), written) /\ f.do = "pop"
  BY <1>1 DEF Frames, FrameType, FrameOK, Frame, Doings, Statuses, Lives
<1>3. p \in SUBSET OpFlags
  BY DEF OpFlags
<1> HIDE DEF p
<1>4. g \in Frames(Len(h), written) /\ g.do = "pop"
  BY <1>1, <1>3 DEF Frames, FrameType, FrameOK, Frame, Doings, Statuses, Lives
<1> HIDE DEF f, g
<1>5. PopFrame(x, d) = f \/ PopFrame(x, d) = g
  BY DEF PopFrame, f, g, p
<1> QED BY <1>2, <1>4, <1>5

LEMMA FrameOfType ==
    ASSUME NEW n \in Nat, NEW w \in Nat, NEW x \in 1..n
    PROVE  \A do \in {"push", "free"} :
              /\ Frame(do, x) \in Frames(n, w)
              /\ Frame(do, x).do = do /\ Frame(do, x).st = "none" /\ Frame(do, x).op = {}
<1>1. x \in 0..n /\ 0 \in 0..n /\ x # 0 /\ <<>> \in Seq(1..w)
  OBVIOUS
<1> QED BY <1>1 DEF Frames, FrameType, FrameOK, Frame, Doings, Statuses, Lives

-----------------------------------------------------------------------------
(* Steps *)

Fr == Frames(Len(h), written)

LEMMA Sizes ==
    OutputInv => /\ Len(h) \in Nat /\ written \in Nat /\ Len(handlers) \in Nat
                 /\ MaxHandlers \in Nat /\ MaxWrites \in Nat /\ MaxOps \in Nat
                 /\ DOMAIN h = 1..Len(h) /\ \A x \in 1..Len(h) : h[x] \in HandlerType(written)
BY BoundsAssumption DEF OutputInv, DataOK

\* A step that leaves f on top of s.
LEMMA StackStep ==
    ASSUME OutputInv, NEW s \in Seq(Fr), Shape(s), NEW f \in Fr, Fits(f, s),
           calls' = <<f>> \o s, Len(h') = Len(h), written' = written,
           running' = 0 => NoUser(s) /\ f.do # "user",
           f.st = "call" /\ f.op # {} => active' # 0,
           phase' # "off",
           broken' \/ Len(handlers') < Len(h) \/ (NoPush(s) /\ f.do # "push")
    PROVE  CallsOK'
<1>1. /\ calls' \in Seq(Fr) /\ Shape(calls') /\ calls' # <<>> /\ Head(calls') = f
      /\ NoUser(s) /\ f.do # "user" => NoUser(calls')
      /\ NoPush(s) /\ f.do # "push" => NoPush(calls')
  <2>1. PICK c : c = calls'
    OBVIOUS
  <2>2. /\ c \in Seq(Fr) /\ Shape(c) /\ c # <<>> /\ Head(c) = f
        /\ NoUser(s) /\ f.do # "user" => NoUser(c)
        /\ NoPush(s) /\ f.do # "push" => NoPush(c)
    BY <2>1, CallMade
  <2> QED BY <2>1, <2>2
<1>2. calls' \in Seq(Frames(Len(h'), written'))
  BY <1>1 DEF Fr
<1> QED BY <1>1, <1>2 DEF CallsOK, top

\* A step that leaves s.
LEMMA ReturnStep ==
    ASSUME OutputInv, NEW s \in Seq(Fr), Shape(s), s # <<>> => Head(s).st # "call",
           calls' = s, Len(h') = Len(h), written' = written,
           running' = 0 => NoUser(s),
           phase' = "off" => s = <<>>,
           broken' \/ Len(handlers') < Len(h) \/ NoPush(s)
    PROVE  CallsOK'
<1>1. calls' \in Seq(Frames(Len(h'), written'))
  BY DEF Fr
<1> QED BY <1>1 DEF CallsOK, top

LEMMA TopCall ==
    ASSUME OutputInv, calls # <<>>
    PROVE  /\ rest \in Seq(Fr) /\ top \in Fr /\ Shape(rest)
           /\ rest # <<>> => Head(rest) \in Fr /\ Head(rest).st # "call"
                             /\ Head(rest) = calls[2]
           /\ NoUser(calls) => NoUser(rest) /\ top.do # "user"
           /\ NoPush(calls) => NoPush(rest) /\ top.do # "push"
           /\ top.do = "user" =>
                 /\ NoUser(rest) /\ rest # <<>> /\ top.st = "none"
                 /\ Head(rest).st = "wait" /\ Head(rest).do # "user"
                 /\ Head(rest).x = top.x
           /\ top.do \in {"flush", "push"} => rest = <<>> \/ Head(rest).do = "user"
           /\ Returning(top) => NoReturning(rest) /\ NoPush(rest)
           /\ top.do = "flush" /\ NoUser(calls) => rest = <<>>
           /\ top.st # "none" \/ top.do \notin {"op", "all"} => top.x \in 1..Len(h)
<1>1. calls \in Seq(Fr) /\ Shape(calls)
  BY DEF OutputInv, CallsOK, Fr
<1>2. top \in Fr
  BY <1>1, CallReturns DEF top
<1>3. top.st # "none" \/ top.do \notin {"op", "all"} => top.x \in 1..Len(h)
  BY <1>2, Sizes DEF Fr, Frames, FrameType, FrameOK
<1> QED BY <1>1, <1>3, CallReturns DEF top, rest

LEMMA UndefinedStep ==
    ASSUME OutputInv, Undefined, ops' \in 0..MaxOps
    PROVE  OutputInv'
<1>1. DataOK'
  BY DEF OutputInv, DataOK, Undefined, Phases
<1>2. CallsOK'
  BY DEF OutputInv, CallsOK, Undefined, top
<1> QED BY <1>1, <1>2 DEF OutputInv

\* Where script code runs and calls the layer.
LEMMA OpTypes ==
    ASSUME OutputInv, Op
    PROVE  /\ ops' \in 0..MaxOps /\ phase \in Phases \ {"off", "undefined"}
           /\ calls \in Seq(Fr) /\ Shape(calls)
           /\ calls = <<>> \/ (top.do = "user" /\ top.st = "none")
<1>1. ops' \in 0..MaxOps
  BY Sizes DEF OutputInv, DataOK, Op
<1>2. calls = <<>> \/ (calls # <<>> /\ top.do = "user")
  BY DEF Op, ScriptRuns, InHandler
<1>3. phase \in Phases \ {"off", "undefined"}
  BY DEF OutputInv, DataOK, CallsOK, Op, ScriptRuns, InHandler, Phases
<1> QED BY <1>1, <1>2, <1>3, TopCall DEF OutputInv, CallsOK, Fr

\* A call of the layer.
LEMMA CallStep ==
    ASSUME OutputInv, NEW f \in Fr, Call(f), ops' \in 0..MaxOps, phase # "off",
           Fits(f, calls), f.do \notin {"user", "push"},
           f.st = "call" /\ f.op # {} => active # 0
    PROVE  OutputInv'
<1>1. DataOK'
  BY DEF OutputInv, DataOK, Call
<1>2. CallsOK'
  BY StackStep DEF OutputInv, CallsOK, Fr, Call
<1> QED BY <1>1, <1>2 DEF OutputInv

LEMMA EchoStep ==
    ASSUME OutputInv, Echo
    PROVE  OutputInv'
<1>1. /\ Len(h) \in Nat /\ written \in Nat /\ written' = written + 1 /\ h' = h
      /\ written' \in 0..MaxWrites /\ written' \in Nat /\ written <= written'
  BY Sizes DEF Echo
<1>2. /\ Frames(Len(h), written) \subseteq Frames(Len(h), written')
      /\ HandlerType(written) \subseteq HandlerType(written')
      /\ 1..written \subseteq 1..written'
  BY <1>1, TypesGrow
<1>3. /\ h \in Seq(HandlerType(written')) /\ sent \in Seq(1..written')
      /\ calls \in Seq(Frames(Len(h), written'))
  BY <1>2, SeqMonotonic DEF OutputInv, DataOK, CallsOK
<1>4. DataOK'
  BY <1>1, <1>3, OpTypes DEF Echo, OutputInv, DataOK
<1>5. /\ calls' \in Seq(Frames(Len(h), written')) /\ Shape(calls')
      /\ NoUser(calls) => NoUser(calls')
      /\ calls' = <<>> \/ Head(calls').st # "call"
      /\ NoPush(calls) => NoPush(calls')
  <2>1. CASE activated
    <3>0. PICK f : f = OpFrame(handlers, active, <<written + 1>>)
      OBVIOUS
    <3>1. <<written + 1>> \in Seq(1..written')
      BY <1>1
    <3>2. f \in Frames(Len(h), written') /\ f.do = "op" /\ f.st = "none"
      <4>1. handlers \in Seq(1..Len(h)) /\ Len(handlers) <= Len(h)
        BY DEF OutputInv, DataOK
      <4>2. PICK w \in Nat : w = written'
        BY <1>1
      <4>3. PICK d \in Seq(1..w) : d = <<written + 1>>
        BY <3>1, <4>2
      <4>4. /\ OpFrame(handlers, active, d) \in Frames(Len(h), w)
            /\ OpFrame(handlers, active, d).do = "op"
            /\ OpFrame(handlers, active, d).st = "none"
        BY <1>1, <4>1, OpFrameType
      <4> QED BY <3>0, <4>2, <4>3, <4>4
    <3>3. calls' = <<f>> \o calls
      BY <2>1, <3>0 DEF Echo
    <3>4. Fits(f, calls)
      BY <3>2, OpTypes DEF Fits, Returning, Echo, top
    <3>5. /\ calls' \in Seq(Frames(Len(h), written')) /\ Shape(calls')
          /\ NoUser(calls) => NoUser(calls')
          /\ Head(calls') = f
          /\ NoPush(calls) => NoPush(calls')
      <4>1. PICK c : c = calls'
        OBVIOUS
      <4>2. /\ c \in Seq(Frames(Len(h), written')) /\ Shape(c)
            /\ NoUser(calls) => NoUser(c)
            /\ Head(c) = f
            /\ NoPush(calls) => NoPush(c)
        <5>1. Shape(calls) /\ c = <<f>> \o calls
          BY <3>3, <4>1 DEF OutputInv, CallsOK
        <5>2. PICK F : F = Frames(Len(h), written')
          OBVIOUS
        <5>3. f \in F /\ calls \in Seq(F) /\ f.do # "user" /\ f.do # "push"
          BY <1>3, <3>2, <5>2
        <5>4. /\ c \in Seq(F) /\ Shape(c) /\ Head(c) = f
              /\ NoUser(calls) => NoUser(c)
              /\ NoPush(calls) => NoPush(c)
          BY <3>4, <5>1, <5>3, CallMade
        <5> QED BY <5>2, <5>4
      <4> QED BY <4>1, <4>2
    <3> QED BY <3>2, <3>5
  <2>2. CASE ~activated
    BY <1>3, <2>2, OpTypes DEF Echo, OutputInv, CallsOK, top
  <2> QED BY <2>1, <2>2
<1>6. CallsOK'
  <2>1. phase' # "off"
    BY OpTypes DEF Echo
  <2>2. running' = 0 => NoUser(calls')
    BY <1>5 DEF Echo, OutputInv, CallsOK
  <2>3. broken' \/ Len(handlers') < Len(h') \/ NoPush(calls')
    BY <1>5 DEF Echo, OutputInv, CallsOK
  <2>4. calls' # <<>> /\ Head(calls').st = "call" /\ Head(calls').op # {} => active' # 0
    BY <1>5
  <2> QED BY <1>1, <1>5, <2>1, <2>2, <2>3, <2>4 DEF CallsOK, top
<1> QED BY <1>4, <1>6 DEF OutputInv

\* Handlers that are destroyed.
LEMMA FreedType ==
    ASSUME OutputInv, NEW xs
    PROVE  Freed(xs) \in Seq(HandlerType(written)) /\ Len(Freed(xs)) = Len(h)
<1>1. \A x \in 1..Len(h) : Freed(xs)[x] \in HandlerType(written)
  <2> SUFFICES ASSUME NEW x \in 1..Len(h) PROVE Freed(xs)[x] \in HandlerType(written)
    OBVIOUS
  <2>1. h[x] \in HandlerType(written) /\ <<>> \in Seq(1..written)
    BY Sizes
  <2>2. [h[x] EXCEPT !.live = FALSE, !.buffer = <<>>] \in HandlerType(written)
    BY <2>1 DEF HandlerType
  <2> QED BY <2>1, <2>2, Sizes DEF Freed
<1>2. h \in Seq(HandlerType(written))
  BY DEF OutputInv, DataOK
<1>3. Freed(xs) = [x \in DOMAIN h |-> Freed(xs)[x]]
  BY DEF Freed
<1> QED BY <1>1, <1>2, <1>3, SameLength

\* php_output_deactivate.
LEMMA Deactivated ==
    ASSUME OutputInv, php_output_deactivate
    PROVE  /\ h' \in Seq(HandlerType(written)) /\ Len(h') = Len(h)
           /\ handlers' = <<>> /\ active' = 0 /\ running' = 0
           /\ activated' \in BOOLEAN /\ broken' = TRUE
BY FreedType DEF php_output_deactivate

\* php_request_shutdown goes on with no call of the layer, or with the flush.
LEMMA PhaseStep ==
    ASSUME OutputInv, phase \in Phases \ {"off", "undefined"}, NextPhase
    PROVE  /\ phase' \in Phases /\ (phase' = "off" => calls' = <<>>)
           /\ calls' \in Seq(Fr) /\ Shape(calls') /\ NoUser(calls') /\ NoPush(calls')
           /\ calls' # <<>> => Head(calls').st # "call"
<1>1. phase' \in Phases /\ After[phase] \in Phases
  BY DEF NextPhase, Phases, After
<1>2. CASE phase' # "flush" /\ calls' = <<>>
  BY <1>1, <1>2, EmptyShape DEF NoPush
<1>3. ASSUME phase' = "flush", NEW d \in BOOLEAN,
             calls' = <<[Frame("all", 0) EXCEPT !.discard = d]>>
      PROVE  /\ calls' \in Seq(Fr) /\ Shape(calls') /\ NoUser(calls') /\ NoPush(calls')
             /\ calls' # <<>> => Head(calls').st # "call"
  <2>1. PICK f : f = [Frame("all", 0) EXCEPT !.discard = d]
    OBVIOUS
  <2>2. f \in Fr /\ f.do = "all" /\ f.st = "none"
    <3>1. 0 \in 0..Len(h) /\ <<>> \in Seq(1..written)
      BY Sizes
    <3> QED BY <2>1, <3>1 DEF Fr, Frames, FrameType, FrameOK, Frame, Doings, Statuses, Lives
  <2>3. calls' = <<f>> \o <<>>
    BY <1>3, <2>1
  <2>4. Fits(f, <<>>)
    BY <2>2 DEF Fits, Returning
  <2>5. PICK c : c = calls'
    OBVIOUS
  <2>6. <<>> \in Seq(Fr) /\ Shape(<<>>) /\ NoUser(<<>>) /\ NoPush(<<>>)
    BY EmptyShape DEF NoPush
  <2>7. c \in Seq(Fr) /\ Shape(c) /\ NoUser(c) /\ NoPush(c) /\ Head(c) = f
    <3>1. f.do # "user" /\ f.do # "push" /\ c = <<f>> \o <<>>
      BY <2>2, <2>3, <2>5
    <3> QED BY <2>2, <2>4, <2>6, <3>1, CallMade
  <2> QED BY <2>2, <2>5, <2>7
<1> QED BY <1>1, <1>2, <1>3 DEF NextPhase

LEMMA BailoutStep ==
    ASSUME OutputInv, phase \in Phases \ {"off", "undefined"}, NEW l \in BOOLEAN, Bailout(l),
           headers' \in {"none", "sent", "failed"}, ops' \in 0..MaxOps
    PROVE  OutputInv'
<1>1. /\ h' \in Seq(HandlerType(written)) /\ Len(h') = Len(h)
      /\ handlers' \in Seq(1..Len(h)) /\ Len(handlers') <= Len(h)
      /\ active' \in 0..Len(h) /\ running' \in 0..Len(h)
      /\ activated' \in BOOLEAN /\ broken' \in BOOLEAN
  <2>1. CASE php_output_deactivate
    <3>1. Len(<<>>) = 0 /\ 0 \in 0..Len(h) /\ <<>> \in Seq(1..Len(h)) /\ 0 <= Len(h)
      BY Sizes
    <3> QED BY <2>1, <3>1, Deactivated
  <2>2. CASE UNCHANGED <<h, handlers, active, running, activated, broken>>
    BY <2>2 DEF OutputInv, DataOK
  <2> QED BY <2>1, <2>2 DEF Bailout
<1>2. /\ written' = written /\ sent' = sent /\ misplaced' = misplaced /\ fatal' = TRUE
      /\ NextPhase
  BY DEF Bailout
<1>3. DataOK'
  BY <1>1, <1>2, PhaseStep DEF OutputInv, DataOK
<1>4. CallsOK'
  <2>1. PICK s : s = calls'
    OBVIOUS
  <2>2. s \in Seq(Fr) /\ Shape(s) /\ NoUser(s) /\ NoPush(s) /\ (phase' = "off" => s = <<>>)
        /\ (s # <<>> => Head(s).st # "call")
    BY <1>2, <2>1, PhaseStep
  <2> QED BY <1>1, <1>2, <2>1, <2>2, ReturnStep
<1> QED BY <1>3, <1>4 DEF OutputInv

LEMMA LockErrorStep ==
    ASSUME OutputInv, phase \in Phases \ {"off", "undefined"}, LockError, ops' \in 0..MaxOps
    PROVE  OutputInv'
<1>1. headers' \in {"none", "sent", "failed"} /\ Bailout(TRUE)
  BY DEF LockError, php_output_header, OutputInv, DataOK
<1> QED BY <1>1, BailoutStep

LEMMA StartStep ==
    ASSUME OutputInv, NEW k \in Kinds, ObStart(k)
    PROVE  OutputInv'
<1>0. Op /\ Len(h) < MaxHandlers
  BY DEF ObStart
<1>1. CASE LockError
  BY <1>0, <1>1, OpTypes, LockErrorStep
<1>2. CASE Undefined
  BY <1>0, <1>2, OpTypes, UndefinedStep
<1>3. CASE /\ ~broken
           /\ h' = Append(h, [user |-> k.user, size |-> k.size, can |-> k.can,
                              started |-> FALSE, disabled |-> FALSE,
                              level |-> Len(handlers), buffer |-> <<>>,
                              live |-> TRUE, life |-> "new"])
           /\ handlers' = Append(handlers, Len(h'))
           /\ active' = Len(h')
           /\ UNCHANGED <<running, activated, headers, broken, calls, phase,
                          sent, written, fatal, misplaced>>
  <2>1. PICK e : e = [user |-> k.user, size |-> k.size, can |-> k.can,
                      started |-> FALSE, disabled |-> FALSE,
                      level |-> Len(handlers), buffer |-> <<>>,
                      live |-> TRUE, life |-> "new"]
    OBVIOUS
  <2>2. e \in HandlerType(written)
    <3>1. k.user \in BOOLEAN /\ k.size \in Nat /\ k.can \in SUBSET Abilities
      BY KindsAssumption DEF KindType
    <3>2. Len(handlers) \in 0..MaxHandlers /\ <<>> \in Seq(1..written)
      BY Sizes DEF OutputInv, DataOK
    <3> QED BY <2>1, <3>1, <3>2 DEF HandlerType, Lives
  <2>3. h' = Append(h, e)
    BY <1>3, <2>1
  <2>4. h' \in Seq(HandlerType(written)) /\ Len(h') = Len(h) + 1
    BY <2>2, <2>3 DEF OutputInv, DataOK
  <2>5. /\ Len(h') \in Nat /\ Len(h) <= Len(h') /\ 1..Len(h) \subseteq 1..Len(h')
        /\ 0..Len(h) \subseteq 0..Len(h') /\ Len(h') \in 1..Len(h')
        /\ Len(h') \in 0..Len(h') /\ Len(h') <= MaxHandlers
    BY <1>0, <2>4, Sizes
  <2>6. handlers' \in Seq(1..Len(h')) /\ Len(handlers') = Len(handlers) + 1
    <3>1. handlers \in Seq(1..Len(h'))
      BY <2>5, SeqMonotonic DEF OutputInv, DataOK
    <3> QED BY <1>3, <2>5, <3>1
  <2>7. DataOK'
    <3>1. Len(handlers') <= Len(h')
      BY <2>4, <2>6, Sizes DEF OutputInv, DataOK
    <3>2. running' \in 0..Len(h') /\ active' \in 0..Len(h')
      BY <1>3, <2>5 DEF OutputInv, DataOK
    <3>3. ops' \in 0..MaxOps
      BY <1>0, OpTypes
    <3> QED BY <1>3, <2>4, <2>5, <2>6, <3>1, <3>2, <3>3 DEF OutputInv, DataOK
  <2>8. calls \in Seq(Frames(Len(h'), written))
    <3>1. PICK n \in Nat : n = Len(h')
      BY <2>5
    <3>2. Frames(Len(h), written) \subseteq Frames(n, written)
      BY <2>5, <3>1, TypesGrow, Sizes
    <3>3. calls \in Seq(Frames(n, written))
      BY <3>2, SeqMonotonic DEF OutputInv, CallsOK
    <3> QED BY <3>1, <3>3
  <2>9. CallsOK'
    <3>1. Shape(calls') /\ (running' = 0 => NoUser(calls')) /\ (phase' = "off" => calls' = <<>>)
      BY <1>3 DEF OutputInv, CallsOK
    <3>2. active' # 0
      BY <1>3, <2>5
    <3>3. broken' \/ Len(handlers') < Len(h') \/ NoPush(calls')
      <4>1. broken \/ Len(handlers) < Len(h) \/ NoPush(calls)
        BY DEF OutputInv, CallsOK
      <4>2. Len(handlers) < Len(h) => Len(handlers') < Len(h')
        BY <2>4, <2>6, Sizes
      <4> QED BY <1>3, <4>1, <4>2
    <3> QED BY <1>3, <2>8, <3>1, <3>2, <3>3 DEF CallsOK
  <2> QED BY <2>7, <2>9 DEF OutputInv
<1> QED BY <1>1, <1>2, <1>3 DEF ObStart

\* ob_flush, ob_clean, ob_end_flush and ob_end_clean.
LEMMA ScriptSteps ==
    ASSUME OutputInv, ObFlush \/ ObClean \/ \E d \in BOOLEAN : ObEnd(d)
    PROVE  OutputInv'
<1>1. Op /\ active # 0 /\ active \in 1..Len(h)
  BY Sizes DEF ObFlush, ObClean, ObEnd, OutputInv, DataOK
<1>2. /\ 0 \in 0..Len(h) /\ active \in 0..Len(h) /\ <<>> \in Seq(1..written)
      /\ {"flush"} \in SUBSET OpFlags /\ {"clean"} \in SUBSET OpFlags
  BY <1>1, Sizes DEF OpFlags
<1>3. /\ ops' \in 0..MaxOps /\ phase # "off"
      /\ calls = <<>> \/ (top.do = "user" /\ top.st = "none")
  BY <1>1, OpTypes
<1>4. PICK f : /\ Call(f) /\ f \in Fr /\ f.do \in {"flush", "clean", "pop"}
               /\ f.do = "flush" => f.st = "call"
  <2>1. CASE ObFlush
    <3>1. PICK f : f = [Frame("flush", active) EXCEPT !.st = "call", !.op = {"flush"}]
      OBVIOUS
    <3>2. f \in Fr /\ f.do = "flush" /\ f.st = "call"
      BY <1>1, <1>2, <3>1 DEF Fr, Frames, FrameType, FrameOK, Frame, Doings, Statuses, Lives
    <3> QED BY <2>1, <3>1, <3>2 DEF ObFlush
  <2>2. CASE ObClean
    <3>1. PICK f : f = [Frame("clean", active) EXCEPT !.st = "call", !.op = {"clean"},
                                                      !.discard = TRUE]
      OBVIOUS
    <3>2. f \in Fr /\ f.do = "clean"
      BY <1>1, <1>2, <3>1 DEF Fr, Frames, FrameType, FrameOK, Frame, Doings, Statuses, Lives
    <3> QED BY <2>2, <3>1, <3>2 DEF ObClean
  <2>3. ASSUME NEW d \in BOOLEAN, ObEnd(d)
        PROVE  \E f : Call(f) /\ f \in Fr /\ f.do = "pop"
    <3>1. PopFrame(active, d) \in Fr /\ PopFrame(active, d).do = "pop"
      BY <1>1, PopFrameType DEF Fr
    <3> QED BY <2>3, <3>1 DEF ObEnd
  <2> QED BY <2>1, <2>2, <2>3
<1>5. Fits(f, calls)
  BY <1>3, <1>4 DEF Fits, Returning, top
<1>6. f.do \notin {"user", "push"}
  BY <1>4
<1> QED BY <1>1, <1>3, <1>4, <1>5, <1>6, CallStep

LEMMA ExitStep ==
    ASSUME OutputInv, Exit
    PROVE  OutputInv'
<1>1. Op /\ Bailout(FALSE)
  BY DEF Exit
<1>2. headers' \in {"none", "sent", "failed"}
  BY DEF Exit, php_output_header, OutputInv, DataOK
<1> QED BY <1>1, <1>2, OpTypes, BailoutStep

LEMMA EndOfPhaseStep ==
    ASSUME OutputInv, EndOfPhase
    PROVE  OutputInv'
<1>1. phase \in Phases \ {"off", "undefined"} /\ NextPhase
  BY DEF EndOfPhase, Phases
<1>2. DataOK'
  BY <1>1, PhaseStep DEF EndOfPhase, OutputInv, DataOK
<1>3. CallsOK'
  <2>1. PICK s : s = calls'
    OBVIOUS
  <2>2. s \in Seq(Fr) /\ Shape(s) /\ NoUser(s) /\ NoPush(s) /\ (phase' = "off" => s = <<>>)
        /\ (s # <<>> => Head(s).st # "call")
    BY <1>1, <2>1, PhaseStep
  <2>3. Len(h') = Len(h) /\ written' = written
    BY DEF EndOfPhase
  <2> QED BY <2>1, <2>2, <2>3, ReturnStep
<1> QED BY <1>2, <1>3 DEF OutputInv

\* The handler of the innermost call is changed, and the call goes on.
LEMMA HandlerStep ==
    ASSUME OutputInv, NEW x \in 1..Len(h), NEW e \in HandlerType(written),
           h' = [h EXCEPT ![x] = e], running' \in 0..Len(h),
           UNCHANGED <<handlers, active, activated, headers, broken, phase, sent,
                       written, ops, fatal, misplaced>>
    PROVE  DataOK' /\ Len(h') = Len(h)
<1>1. h' \in Seq(HandlerType(written)) /\ Len(h') = Len(h)
  BY ExceptSeq DEF OutputInv, DataOK
<1> QED BY <1>1 DEF OutputInv, DataOK

\* What a handler is given.
LEMMA BufferType ==
    ASSUME OutputInv, Calling
    PROVE  /\ top.x \in 1..Len(h) /\ top.do # "user" /\ phase # "off" /\ phase # "undefined"
           /\ h[top.x].buffer \o top.in \in Seq(1..written)
           /\ top.do = "flush" => top.op # {}
           /\ top.op # {} => active # 0
<1>1. calls # <<>> /\ top.st = "call" /\ phase # "undefined"
  BY DEF Calling
<1>2. top.x \in 1..Len(h) /\ top.do # "user" /\ top \in Fr
  BY <1>1, TopCall
<1>3. h[top.x].buffer \in Seq(1..written)
  BY <1>2, Sizes DEF HandlerType
<1>4. top.in \in Seq(1..written) /\ (top.do = "flush" => top.op # {})
  BY <1>2 DEF Fr, Frames, FrameType, FrameOK
<1> QED BY <1>1, <1>2, <1>3, <1>4 DEF OutputInv, CallsOK

LEMMA LockedStep ==
    ASSUME OutputInv, HandlerLocked
    PROVE  OutputInv'
<1>1. LockError /\ Calling /\ ops' = ops
  BY DEF HandlerLocked
<1>2. phase \in Phases \ {"off", "undefined"} /\ ops' \in 0..MaxOps
  BY <1>1, BufferType DEF OutputInv, DataOK
<1> QED BY <1>1, <1>2, LockErrorStep

LEMMA StoresStep ==
    ASSUME OutputInv, HandlerStores
    PROVE  OutputInv'
<1>0. calls # <<>> /\ Calling
  BY DEF HandlerStores, Calling
<1>1. PICK buf \in Seq(1..written) : buf = h[top.x].buffer \o top.in
  BY <1>0, BufferType
<1>2. PICK x \in 1..Len(h) : x = top.x
  BY <1>0, BufferType
<1>3. PICK e : e = [h[x] EXCEPT !.buffer = buf]
  OBVIOUS
<1>4. PICK f : f = [top EXCEPT !.in = <<>>, !.st = "nodata"]
  OBVIOUS
<1>5. top \in Fr /\ <<>> \in Seq(1..written) /\ h[x] \in HandlerType(written)
  BY <1>0, TopCall, Sizes
<1>6. e \in HandlerType(written)
  BY <1>3, <1>5 DEF HandlerType
<1>7. f \in Fr /\ f.do = top.do /\ f.st = "nodata" /\ f.op = top.op
  <2>1. top.do = "op" => top.n # 0
    BY <1>0, <1>5 DEF Fr, Frames, FrameOK, Calling
  <2>2. top.x # 0
    BY <1>2, Sizes
  <2> QED BY <1>4, <1>5, <2>1, <2>2 DEF Fr, Frames, FrameType, FrameOK, Statuses
<1>8. /\ h' = [h EXCEPT ![x] = e] /\ calls' = <<f>> \o rest /\ top.op = {}
      /\ UNCHANGED <<handlers, active, running, activated, headers, broken,
                     phase, sent, written, ops, fatal, misplaced>>
  BY <1>1, <1>2, <1>3, <1>4 DEF HandlerStores
<1>9. DataOK' /\ Len(h') = Len(h)
  <2>1. running' \in 0..Len(h)
    BY <1>8 DEF OutputInv, DataOK
  <2> QED BY <1>6, <1>8, <2>1, HandlerStep
<1>10. CallsOK'
  <2>1. top.do # "user" /\ top.do # "flush"
    BY <1>0, <1>8, BufferType
  <2>2. Fits(f, rest)
    BY <1>0, <1>7, <2>1, TopCall DEF Fits, Returning
  <2>3. running' = 0 => NoUser(rest) /\ f.do # "user"
    BY <1>0, <1>7, <1>8, TopCall DEF OutputInv, CallsOK
  <2>4. broken' \/ Len(handlers') < Len(h) \/ (NoPush(rest) /\ f.do # "push")
    BY <1>0, <1>7, <1>8, TopCall DEF OutputInv, CallsOK
  <2>5. rest \in Seq(Fr) /\ Shape(rest) /\ phase' # "off" /\ written' = written
    BY <1>0, <1>8, TopCall, BufferType
  <2>6. f.st # "call"
    BY <1>7
  <2> QED BY <1>7, <1>8, <1>9, <2>2, <2>3, <2>4, <2>5, <2>6, StackStep
<1> QED BY <1>9, <1>10 DEF OutputInv

\* php_output_lock_error, and the check of OG(running) before a chunk is passed
\* on: no other handler runs when one is entered.
LEMMA NoneRuns ==
    ASSUME OutputInv, Calling, ~Locked(top.op), NEW buf,
           top.op # {} \/ Full(top.x, top.in, buf)
    PROVE  running = 0 /\ NoUser(calls)
<1>1. running = 0
  BY BufferType DEF Locked, Full
<1> QED BY <1>1 DEF OutputInv, CallsOK

LEMMA CalledStep ==
    ASSUME OutputInv, HandlerCalled
    PROVE  OutputInv'
<1>0. calls # <<>> /\ Calling /\ top.st = "call"
  BY DEF HandlerCalled, Calling
<1>1. PICK buf \in Seq(1..written) : buf = h[top.x].buffer \o top.in
  BY <1>0, BufferType
<1>2. PICK x \in 1..Len(h) : x = top.x
  BY <1>0, BufferType
<1>3. PICK op : op = IF h[x].started THEN top.op ELSE top.op \cup {"start"}
  OBVIOUS
<1>4. PICK e : e = [h[x] EXCEPT !.buffer = buf, !.life = Lived(op)]
  OBVIOUS
<1>5. PICK u : u = [Frame("user", x) EXCEPT !.op = op, !.in = buf, !.life = h[x].life]
  OBVIOUS
<1>6. PICK f : f = [top EXCEPT !.in = <<>>, !.st = "wait"]
  OBVIOUS
<1>7. /\ top \in Fr /\ <<>> \in Seq(1..written) /\ h[x] \in HandlerType(written)
      /\ x # 0 /\ x \in 0..Len(h) /\ 0 \in 0..Len(h)
  BY <1>0, TopCall, Sizes
<1>8. op \in SUBSET OpFlags
  <2>1. top.op \in SUBSET OpFlags
    BY <1>7 DEF Fr, Frames, FrameType
  <2> QED BY <1>3, <2>1 DEF OpFlags
<1>9. e \in HandlerType(written)
  BY <1>4, <1>7 DEF HandlerType, Lived, Lives
<1>10. u \in Fr /\ u.do = "user" /\ u.st = "none" /\ u.x = x
  <2>1. h[x].life \in Lives
    BY <1>7 DEF HandlerType
  <2> QED BY <1>5, <1>7, <1>8, <2>1
          DEF Fr, Frames, FrameType, FrameOK, Frame, Doings, Statuses, Lives
<1>11. f \in Fr /\ f.do = top.do /\ f.st = "wait" /\ f.x = x
  <2>1. top.do = "op" => top.n # 0
    BY <1>0, <1>7 DEF Fr, Frames, FrameOK
  <2> QED BY <1>2, <1>6, <1>7, <2>1 DEF Fr, Frames, FrameType, FrameOK, Statuses
<1>12. /\ h' = [h EXCEPT ![x].buffer = buf, ![x].life = Lived(op)]
       /\ calls' = <<u, f>> \o rest /\ running' = x
       /\ NoUser(calls)
       /\ UNCHANGED <<handlers, active, activated, headers, broken, phase,
                      sent, written, ops, fatal, misplaced>>
  <2>1. NoUser(calls)
    BY <1>0, NoneRuns DEF HandlerCalled
  <2> QED BY <1>1, <1>2, <1>3, <1>5, <1>6, <2>1 DEF HandlerCalled
<1>13. h' = [h EXCEPT ![x] = e]
  BY <1>4, <1>12, <1>7, Sizes DEF HandlerType
<1>14. DataOK' /\ Len(h') = Len(h)
  <2>1. running' \in 0..Len(h)
    BY <1>7, <1>12
  <2> QED BY <1>9, <1>12, <1>13, <2>1, HandlerStep
<1>15. CallsOK'
  <2>1. PICK s : s = <<f>> \o rest
    OBVIOUS
  <2>2. rest \in Seq(Fr) /\ Shape(rest) /\ NoUser(rest) /\ top.do # "user"
        /\ (top.do = "flush" => rest = <<>>)
    BY <1>0, <1>12, TopCall
  <2>3. Fits(f, rest)
    <3>1. Returning(f) => NoReturning(rest)
      <4>1. CASE top.do = "flush"
        BY <2>2, <4>1, EmptyShape
      <4>2. CASE top.do # "flush"
        BY <1>0, <1>11, <4>2, TopCall DEF Returning
      <4> QED BY <4>1, <4>2
    <3> QED BY <1>0, <1>11, <2>2, <3>1, TopCall DEF Fits
  <2>4. /\ s \in Seq(Fr) /\ Shape(s) /\ s # <<>> /\ Head(s) = f /\ NoUser(s)
        /\ NoPush(rest) /\ f.do # "push" => NoPush(s)
    BY <1>11, <2>1, <2>2, <2>3, CallMade
  <2>5. calls' = <<u>> \o s
    BY <1>10, <1>11, <1>12, <2>1, <2>2, PushedTwo
  <2>6. Fits(u, s)
    BY <1>10, <1>11, <2>2, <2>4 DEF Fits, Returning
  <2>7. broken' \/ Len(handlers') < Len(h) \/ (NoPush(s) /\ u.do # "push")
    <3>1. broken \/ Len(handlers) < Len(h) \/ (NoPush(rest) /\ top.do # "push")
      BY <1>0, TopCall DEF OutputInv, CallsOK
    <3> QED BY <1>10, <1>11, <1>12, <2>4, <3>1
  <2>8. running' # 0 /\ phase' # "off" /\ written' = written
    BY <1>0, <1>7, <1>12, BufferType
  <2> QED BY <1>10, <1>14, <2>4, <2>5, <2>6, <2>7, <2>8, StackStep
<1> QED BY <1>14, <1>15 DEF OutputInv

LEMMA ResultType ==
    ASSUME NEW w \in Nat, NEW e \in HandlerType(w), NEW s
    PROVE  Result(e, s) \in HandlerType(w)
<1>1. <<>> \in Seq(1..w) /\ (e.disabled \/ s = "failure") \in BOOLEAN
  OBVIOUS
<1> QED BY <1>1 DEF Result, HandlerType

LEMMA InternalStep ==
    ASSUME OutputInv, HandlerInternal
    PROVE  OutputInv'
<1>0. calls # <<>> /\ Calling /\ top.st = "call"
  BY DEF HandlerInternal, Calling
<1>1. PICK buf \in Seq(1..written) : buf = h[top.x].buffer \o top.in
  BY <1>0, BufferType
<1>2. PICK x \in 1..Len(h) : x = top.x
  BY <1>0, BufferType
<1>3. PICK op : op = IF h[x].started THEN top.op ELSE top.op \cup {"start"}
  OBVIOUS
<1>4. PICK status \in {"nodata", "success"} :
         status = IF buf = <<>> THEN "nodata" ELSE "success"
  OBVIOUS
<1>5. PICK e : e = [Result(h[x], status) EXCEPT !.life = Lived(op)]
  OBVIOUS
<1>6. PICK f : f = [top EXCEPT !.in = <<>>, !.out = buf, !.st = status]
  OBVIOUS
<1>7. /\ top \in Fr /\ <<>> \in Seq(1..written) /\ h[x] \in HandlerType(written)
      /\ x # 0 /\ 0 \in 0..Len(h)
  BY <1>0, TopCall, Sizes
<1>8. e \in HandlerType(written)
  <2>1. Result(h[x], status) \in HandlerType(written)
    BY <1>7, ResultType, Sizes
  <2> QED BY <1>5, <2>1 DEF HandlerType, Lived, Lives
<1>9. f \in Fr /\ f.do = top.do /\ f.st = status
  <2>1. top.do = "op" => top.n # 0
    BY <1>0, <1>7 DEF Fr, Frames, FrameOK
  <2> QED BY <1>2, <1>6, <1>7, <2>1 DEF Fr, Frames, FrameType, FrameOK, Statuses
<1>10. /\ h' = [h EXCEPT ![x] = e]
       /\ calls' = <<f>> \o rest /\ running' = 0
       /\ NoUser(calls)
       /\ UNCHANGED <<handlers, active, activated, headers, broken, phase,
                      sent, written, ops, fatal, misplaced>>
  <2>1. NoUser(calls)
    BY <1>0, NoneRuns DEF HandlerInternal
  <2> QED BY <1>1, <1>2, <1>3, <1>4, <1>5, <1>6, <2>1 DEF HandlerInternal
<1>11. DataOK' /\ Len(h') = Len(h)
  <2>1. running' \in 0..Len(h)
    BY <1>7, <1>10
  <2> QED BY <1>8, <1>10, <2>1, HandlerStep
<1>12. CallsOK'
  <2>1. rest \in Seq(Fr) /\ Shape(rest) /\ NoUser(rest) /\ top.do # "user"
        /\ (top.do = "flush" => rest = <<>>)
    BY <1>0, <1>10, TopCall
  <2>2. Fits(f, rest)
    <3>1. Returning(f) => NoReturning(rest)
      <4>1. CASE top.do = "flush"
        BY <2>1, <4>1, EmptyShape
      <4>2. CASE top.do # "flush"
        BY <1>0, <1>9, <4>2, TopCall DEF Returning
      <4> QED BY <4>1, <4>2
    <3> QED BY <1>0, <1>9, <2>1, <3>1, TopCall DEF Fits
  <2>3. broken' \/ Len(handlers') < Len(h) \/ (NoPush(rest) /\ f.do # "push")
    BY <1>0, <1>9, <1>10, TopCall DEF OutputInv, CallsOK
  <2>4. phase' # "off" /\ written' = written /\ f.st # "call" /\ f.do # "user"
    BY <1>0, <1>9, <1>10, <2>1, BufferType
  <2> QED BY <1>9, <1>10, <1>11, <2>1, <2>2, <2>3, <2>4, StackStep
<1> QED BY <1>11, <1>12 DEF OutputInv

LEMMA ReturnedStep ==
    ASSUME OutputInv, NEW status \in {"success", "nodata", "failure"}, Return(status)
    PROVE  OutputInv'
<1>0. calls # <<>> /\ top.do = "user" /\ phase # "undefined"
  BY DEF Return, InHandler
<1>1. /\ rest \in Seq(Fr) /\ top \in Fr /\ Shape(rest) /\ NoUser(rest) /\ rest # <<>>
      /\ Head(rest) \in Fr /\ Head(rest) = calls[2] /\ top.x \in 1..Len(h)
      /\ Head(rest).st = "wait" /\ Head(rest).do # "user" /\ Head(rest).x = top.x
  BY <1>0, TopCall
<1>2. PICK x \in 1..Len(h) : x = top.x
  BY <1>1
<1>3. PICK e : e = Result(h[x], status)
  OBVIOUS
<1>4. PICK f : f = [calls[2] EXCEPT !.out = Out(h[x], status, top.in), !.st = status]
  OBVIOUS
<1>5. h[x] \in HandlerType(written) /\ e \in HandlerType(written)
  BY <1>3, ResultType, Sizes
<1>6. Out(h[x], status, top.in) \in Seq(1..written)
  <2>1. h[x].buffer \in Seq(1..written) /\ <<>> \in Seq(1..written)
    BY <1>5 DEF HandlerType
  <2>2. top \in Fr
    BY <1>1
  <2>3. top.in \in Seq(1..written)
    BY <2>2 DEF Fr, Frames, FrameType
  <2> QED BY <2>1, <2>3 DEF Out
<1>7. f \in Fr /\ f.do = Head(rest).do /\ f.st = status
  <2>1. Head(rest).do = "op" => Head(rest).n # 0
    BY <1>1 DEF Fr, Frames, FrameOK
  <2>2. Head(rest).x # 0
    BY <1>1, Sizes
  <2> QED BY <1>1, <1>4, <1>6, <2>1, <2>2 DEF Fr, Frames, FrameType, FrameOK, Statuses
<1>8. /\ h' = [h EXCEPT ![x] = e] /\ calls' = <<f>> \o Tail(rest) /\ running' = 0
      /\ UNCHANGED <<handlers, active, activated, headers, broken, phase,
                     sent, written, ops, fatal, misplaced>>
  BY <1>2, <1>3, <1>4 DEF Return
<1>9. DataOK' /\ Len(h') = Len(h)
  <2>1. running' \in 0..Len(h)
    BY <1>8, Sizes
  <2> QED BY <1>5, <1>8, <2>1, HandlerStep
<1>10. CallsOK'
  <2>1. PICK r : r = rest
    OBVIOUS
  <2>2. /\ Tail(r) \in Seq(Fr) /\ Shape(Tail(r)) /\ NoUser(Tail(r))
        /\ Tail(r) # <<>> => Head(Tail(r)).st # "call"
        /\ NoPush(r) => NoPush(Tail(r)) /\ Head(r).do # "push"
        /\ Head(r).do \in {"flush", "push"} => Tail(r) = <<>> \/ Head(Tail(r)).do = "user"
        /\ Returning(Head(r)) => NoReturning(Tail(r))
    BY <1>1, <2>1, CallReturns
  <2>3. Fits(f, Tail(r))
    <3>1. Returning(f) => Returning(Head(r))
      BY <1>1, <1>7, <2>1 DEF Returning
    <3> QED BY <1>1, <1>7, <2>1, <2>2, <3>1 DEF Fits
  <2>4. broken' \/ Len(handlers') < Len(h) \/ (NoPush(Tail(r)) /\ f.do # "push")
    BY <1>0, <1>7, <1>8, <2>1, <2>2, TopCall DEF OutputInv, CallsOK
  <2>5. phase' # "off" /\ written' = written /\ f.st # "call" /\ f.do # "user"
    BY <1>0, <1>1, <1>7, <1>8 DEF OutputInv, CallsOK
  <2> QED BY <1>7, <1>8, <1>9, <2>1, <2>2, <2>3, <2>4, <2>5, StackStep
<1> QED BY <1>9, <1>10 DEF OutputInv

\* Steps of the C code that change nothing but its stack.
LEMMA QuietData ==
    ASSUME OutputInv,
           UNCHANGED <<h, handlers, active, running, activated, headers, broken,
                       phase, sent, written, ops, fatal, misplaced>>
    PROVE  DataOK'
BY DEF OutputInv, DataOK

LEMMA DoingTypes ==
    ASSUME OutputInv, NEW do, Doing(do)
    PROVE  /\ calls # <<>> /\ top.do = do /\ top.st \notin {"call", "wait"}
           /\ phase \in Phases \ {"off", "undefined"}
           /\ top \in Fr /\ rest \in Seq(Fr) /\ Shape(rest)
           /\ rest # <<>> => Head(rest).st # "call"
           /\ running = 0 => NoUser(rest)
           /\ broken \/ Len(handlers) < Len(h) \/ (NoPush(rest) /\ top.do # "push")
<1>1. calls # <<>> /\ top.do = do /\ top.st \notin {"call", "wait"} /\ phase # "undefined"
  BY DEF Doing
<1>2. phase \in Phases \ {"off", "undefined"}
  BY <1>1 DEF OutputInv, DataOK, CallsOK
<1> QED BY <1>1, <1>2, TopCall DEF OutputInv, CallsOK

\* The innermost call is a pass through the stack and goes on.
LEMMA OpStep ==
    ASSUME OutputInv, Doing("op"), NEW f \in Fr, f.do = "op",
           calls' = <<f>> \o rest,
           UNCHANGED <<h, handlers, active, running, activated, headers, broken,
                       phase, sent, written, ops, fatal, misplaced>>
    PROVE  OutputInv'
<1>1. DataOK'
  BY QuietData
<1>2. Fits(f, rest)
  BY DoingTypes DEF Fits, Returning
<1>3. f.op = {}
  BY DEF Fr, Frames, FrameOK
<1>4. CallsOK'
  <2>1. rest \in Seq(Fr) /\ Shape(rest) /\ phase' # "off"
    BY DoingTypes
  <2>2. running' = 0 => NoUser(rest) /\ f.do # "user"
    BY DoingTypes
  <2>3. broken' \/ Len(handlers') < Len(h) \/ (NoPush(rest) /\ f.do # "push")
    BY DoingTypes
  <2> QED BY <1>2, <1>3, <2>1, <2>2, <2>3, StackStep
<1> QED BY <1>1, <1>4 DEF OutputInv

LEMMA ApplyStep ==
    ASSUME OutputInv, ApplyHandler
    PROVE  OutputInv'
<1>0. Doing("op") /\ top.st = "none" /\ top.n \in 1..Len(handlers)
  BY DEF ApplyHandler
<1>1. PICK x : x = handlers[top.n]
  OBVIOUS
<1>2. x \in 1..Len(h) /\ x \in 0..Len(h) /\ x # 0 /\ top.n \in 1..Len(h)
  <2>1. handlers[top.n] \in 1..Len(h)
    BY <1>0 DEF OutputInv, DataOK
  <2>2. /\ Len(handlers) \in Nat /\ Len(h) \in Nat /\ Len(handlers) <= Len(h)
    BY Sizes DEF OutputInv, DataOK
  <2> QED BY <1>0, <1>1, <2>1, <2>2
<1>3. top \in Fr /\ top.do = "op" /\ <<>> \in Seq(1..written)
  BY <1>0, DoingTypes
<1>4. top.n - 1 \in 0..Len(h)
  BY <1>2, Sizes
<1> DEFINE f1 == [top EXCEPT !.x = x, !.st = "call"]
           f2 == [top EXCEPT !.out = top.in, !.in = <<>>, !.n = @ - 1]
           f3 == [top EXCEPT !.n = @ - 1]
<1>5. f1 \in Fr /\ f1.do = "op"
  <2>1. top.n # 0
    BY <1>2, Sizes
  <2> QED BY <1>2, <1>3, <2>1 DEF Fr, Frames, FrameType, FrameOK, Statuses
<1>6. f2 \in Fr /\ f2.do = "op"
  BY <1>0, <1>3, <1>4 DEF Fr, Frames, FrameType, FrameOK
<1>7. f3 \in Fr /\ f3.do = "op"
  BY <1>0, <1>3, <1>4 DEF Fr, Frames, FrameType, FrameOK
<1>8. PICK f \in {f1, f2, f3} : calls' = <<f>> \o rest
  <2>1. /\ h[x].disabled \in BOOLEAN
    BY <1>2, Sizes DEF HandlerType
  <2>2. CASE ~h[x].disabled
    BY <1>1, <2>2 DEF ApplyHandler
  <2>3. CASE h[x].disabled /\ h[x].level = 0
    BY <1>1, <2>3 DEF ApplyHandler
  <2>4. CASE h[x].disabled /\ h[x].level # 0
    BY <1>1, <2>4 DEF ApplyHandler
  <2> QED BY <2>1, <2>2, <2>3, <2>4
<1> HIDE DEF f1, f2, f3
<1>9. f \in Fr /\ f.do = "op"
  BY <1>5, <1>6, <1>7
<1> QED BY <1>0, <1>8, <1>9, OpStep DEF ApplyHandler

LEMMA StaleStep ==
    ASSUME OutputInv, ApplyStale
    PROVE  OutputInv'
<1>1. Undefined /\ ops' \in 0..MaxOps
  BY DEF ApplyStale, OutputInv, DataOK
<1> QED BY <1>1, UndefinedStep

LEMMA ApplyNextStep ==
    ASSUME OutputInv, ApplyNext
    PROVE  OutputInv'
<1>0. Doing("op") /\ top.st # "none"
  BY DEF ApplyNext
<1>1. top \in Fr /\ top.do = "op" /\ <<>> \in Seq(1..written)
  BY <1>0, DoingTypes
<1>2. top.n \in 0..Len(h) /\ top.n # 0 /\ top.op = {} /\ top.out \in Seq(1..written)
  BY <1>0, <1>1 DEF Fr, Frames, FrameType, FrameOK
<1>3. top.n - 1 \in 0..Len(h) /\ 0 \in 0..Len(h)
  BY <1>2, Sizes
<1> DEFINE f1 == [[top EXCEPT !.n = 0] EXCEPT !.st = "none"]
           f2 == [[top EXCEPT !.n = @ - 1, !.in = top.out, !.out = <<>>] EXCEPT !.st = "none"]
           f3 == [[top EXCEPT !.n = @ - 1] EXCEPT !.st = "none"]
<1>4. f1 \in Fr /\ f1.do = "op"
  BY <1>1, <1>3 DEF Fr, Frames, FrameType, FrameOK, Statuses
<1>5. f2 \in Fr /\ f2.do = "op"
  BY <1>1, <1>2, <1>3 DEF Fr, Frames, FrameType, FrameOK, Statuses
<1>6. f3 \in Fr /\ f3.do = "op"
  BY <1>1, <1>3 DEF Fr, Frames, FrameType, FrameOK, Statuses
<1>7. PICK f \in {f1, f2, f3} : calls' = <<f>> \o rest
  <2>1. CASE top.st = "nodata"
    BY <2>1 DEF ApplyNext, Swapped
  <2>2. CASE top.st # "nodata" /\ h[top.x].level # 0
    BY <2>2 DEF ApplyNext, Swapped
  <2>3. CASE top.st # "nodata" /\ h[top.x].level = 0
    BY <2>3 DEF ApplyNext, Swapped
  <2> QED BY <2>1, <2>2, <2>3
<1> HIDE DEF f1, f2, f3
<1>8. f \in Fr /\ f.do = "op"
  BY <1>4, <1>5, <1>6
<1> QED BY <1>0, <1>7, <1>8, OpStep DEF ApplyNext

LEMMA WriteSteps ==
    ASSUME OutputInv, SapiWrite \/ ClientGone \/ CleanReturns
    PROVE  OutputInv'
<1>0. PICK do : Doing(do)
  BY DEF SapiWrite, ClientGone, CleanReturns
<1>1. top.out \in Seq(1..written)
  BY <1>0, DoingTypes DEF Fr, Frames, FrameType
<1>2. ASSUME calls' = rest, headers' \in {"none", "sent", "failed"}, sent' \in Seq(1..written),
             UNCHANGED <<h, handlers, active, running, activated, broken, phase,
                         written, ops, fatal, misplaced>>
      PROVE  OutputInv'
  <2>1. DataOK'
    BY <1>2 DEF OutputInv, DataOK
  <2>2. CallsOK'
    <3>1. rest \in Seq(Fr) /\ Shape(rest) /\ phase' # "off" /\ (rest # <<>> => Head(rest).st # "call")
      BY <1>0, <1>2, DoingTypes
    <3>2. running' = 0 => NoUser(rest)
      BY <1>0, <1>2, DoingTypes
    <3>3. broken' \/ Len(handlers') < Len(h) \/ NoPush(rest)
      BY <1>0, <1>2, DoingTypes
    <3>4. Len(h') = Len(h) /\ written' = written
      BY <1>2
    <3> QED BY <1>2, <3>1, <3>2, <3>3, <3>4, ReturnStep
  <2> QED BY <2>1, <2>2 DEF OutputInv
<1>3. CASE SapiWrite
  <2>1. headers' \in {"none", "sent", "failed"}
    BY <1>3 DEF SapiWrite, php_output_header, OutputInv, DataOK
  <2>2. sent' \in Seq(1..written)
    <3>1. sent \in Seq(1..written)
      BY DEF OutputInv, DataOK
    <3>2. sent \o top.out \in Seq(1..written)
      BY <1>1, <3>1
    <3>3. sent' = sent \/ sent' = sent \o top.out
      BY <1>3 DEF SapiWrite
    <3> QED BY <3>1, <3>2, <3>3
  <2> QED BY <1>2, <1>3, <2>1, <2>2 DEF SapiWrite
<1>4. CASE ClientGone
  <2>1. headers' \in {"none", "sent", "failed"} /\ ops' \in 0..MaxOps
    BY <1>4 DEF ClientGone, OutputInv, DataOK
  <2>2. CASE Bailout(FALSE)
    BY <1>0, <2>1, <2>2, DoingTypes, BailoutStep
  <2>3. CASE ~Bailout(FALSE)
    <3>1. sent' \in Seq(1..written)
      BY <1>4, <2>3 DEF ClientGone, OutputInv, DataOK
    <3> QED BY <1>2, <1>4, <2>1, <2>3, <3>1 DEF ClientGone
  <2> QED BY <2>2, <2>3
<1>5. CASE CleanReturns
  <2>1. headers' \in {"none", "sent", "failed"} /\ sent' \in Seq(1..written)
    BY <1>5 DEF CleanReturns, OutputInv, DataOK
  <2> QED BY <1>2, <1>5, <2>1 DEF CleanReturns
<1> QED BY <1>3, <1>4, <1>5

LEMMA FlushWritesStep ==
    ASSUME OutputInv, FlushWrites
    PROVE  OutputInv'
<1>0. Doing("flush") /\ calls # <<>> /\ top.do = "flush"
  BY DoingTypes DEF FlushWrites
<1>1. /\ top.out \in Seq(1..written) /\ top.x \in 1..Len(h)
      /\ rest = <<>> \/ Head(rest).do = "user"
      /\ NoReturning(rest) /\ NoPush(rest)
  <2>1. top \in Fr /\ Returning(top)
    BY <1>0, DoingTypes DEF Returning
  <2> QED BY <1>0, <2>1, TopCall DEF Fr, Frames, FrameType
<1>2. rest \in Seq(Fr) /\ Shape(rest) /\ phase # "off" /\ (rest # <<>> => Head(rest).st # "call")
      /\ (running = 0 => NoUser(rest))
  BY <1>0, DoingTypes
<1>3. UNCHANGED <<h, active, running, activated, headers, phase, sent, written, ops,
                  fatal, misplaced>>
  BY DEF FlushWrites
<1>4. CASE top.out = <<>>
  <2>1. calls' = rest /\ UNCHANGED <<handlers, broken>>
    BY <1>4 DEF FlushWrites
  <2>2. DataOK'
    BY <1>3, <2>1, QuietData
  <2>3. CallsOK'
    BY <1>1, <1>2, <1>3, <2>1, ReturnStep
  <2> QED BY <2>2, <2>3 DEF OutputInv
<1>5. CASE top.out # <<>>
  <2>1. /\ DelTop \in Seq(1..Len(h)) /\ Len(DelTop) <= Len(h) /\ Len(DelTop) \in Nat
        /\ handlers # <<>> => Len(DelTop) < Len(h)
    <3>1. handlers \in Seq(1..Len(h)) /\ Len(handlers) <= Len(h)
      BY DEF OutputInv, DataOK
    <3>2. DelTop \in Seq(1..Len(h)) /\ Len(DelTop) <= Len(handlers)
          /\ (handlers # <<>> => Len(DelTop) < Len(handlers))
      BY <3>1, DelTopType
    <3>3. Len(DelTop) \in Nat
      BY <3>2
    <3> QED BY <3>1, <3>2, <3>3, Sizes
  <2>2. PICK f : f = OpFrame(DelTop, active, top.out)
    OBVIOUS
  <2>3. PICK g : g = Frame("push", top.x)
    OBVIOUS
  <2>4. f \in Fr /\ f.do = "op" /\ f.st = "none"
    <3>1. PICK d \in Seq(1..written) : d = top.out
      BY <1>1
    <3>2. PICK hs \in Seq(1..Len(h)) : hs = DelTop
      BY <2>1
    <3>3. /\ OpFrame(hs, active, d) \in Frames(Len(h), written)
          /\ OpFrame(hs, active, d).do = "op" /\ OpFrame(hs, active, d).st = "none"
      BY <2>1, <3>2, OpFrameType, Sizes
    <3> QED BY <2>2, <3>1, <3>2, <3>3 DEF Fr
  <2>5. g \in Fr /\ g.do = "push" /\ g.st = "none"
    BY <1>1, <2>3, FrameOfType, Sizes DEF Fr
  <2>6. /\ calls' = <<f, g>> \o rest /\ handlers' = DelTop
        /\ broken' = (broken \/ handlers = <<>>)
    BY <1>5, <2>2, <2>3 DEF FlushWrites
  <2>7. DataOK'
    BY <1>3, <2>1, <2>6 DEF OutputInv, DataOK
  <2>8. PICK s : s = <<g>> \o rest
    OBVIOUS
  <2>9. Fits(g, rest)
    BY <1>1, <1>2, <2>5 DEF Fits
  <2>10. s \in Seq(Fr) /\ Shape(s) /\ s # <<>> /\ Head(s) = g /\ (NoUser(rest) => NoUser(s))
    <3>1. g.do # "user"
      BY <2>5
    <3> QED BY <1>2, <2>5, <2>8, <2>9, <3>1, CallMade
  <2>11. calls' = <<f>> \o s
    BY <1>2, <2>4, <2>5, <2>6, <2>8, PushedTwo
  <2>12. Fits(f, s)
    BY <2>4, <2>5, <2>10 DEF Fits, Returning
  <2>13. broken' \/ Len(handlers') < Len(h)
    BY <2>1, <2>6
  <2>14. /\ f.do # "user" /\ f.st # "call" /\ phase' # "off" /\ written' = written
         /\ Len(h') = Len(h) /\ (running' = 0 => NoUser(s))
    BY <1>2, <1>3, <2>4, <2>10
  <2>15. CallsOK'
    BY <2>4, <2>10, <2>11, <2>12, <2>13, <2>14, StackStep
  <2> QED BY <2>7, <2>15 DEF OutputInv
<1> QED BY <1>4, <1>5

LEMMA FlushReturnsStep ==
    ASSUME OutputInv, FlushReturns
    PROVE  OutputInv'
<1>0. Doing("push") /\ calls # <<>> /\ top.do = "push" /\ ops' = ops
  BY DoingTypes DEF FlushReturns
<1>1. CASE Undefined
  BY <1>0, <1>1, UndefinedStep DEF OutputInv, DataOK
<1>2. CASE /\ active = top.x /\ ~broken
           /\ handlers' = Append(handlers, active)
           /\ calls' = rest
           /\ UNCHANGED <<h, active, running, activated, headers, broken, phase,
                          sent, written, fatal, misplaced>>
  <2>1. top.x \in 1..Len(h) /\ NoPush(rest)
    BY <1>0, TopCall DEF Returning
  <2>2. Len(handlers) < Len(h)
    BY <1>0, <1>2, DoingTypes
  <2>3. handlers' \in Seq(1..Len(h)) /\ Len(handlers') = Len(handlers) + 1
    <3>1. active \in 1..Len(h) /\ handlers \in Seq(1..Len(h))
      BY <1>2, <2>1 DEF OutputInv, DataOK
    <3> QED BY <1>2, <3>1
  <2>4. Len(handlers') <= Len(h)
    BY <2>2, <2>3, Sizes
  <2>5. DataOK'
    BY <1>0, <1>2, <2>3, <2>4 DEF OutputInv, DataOK
  <2>6. CallsOK'
    <3>1. rest \in Seq(Fr) /\ Shape(rest) /\ phase' # "off"
          /\ (rest # <<>> => Head(rest).st # "call") /\ (running' = 0 => NoUser(rest))
      BY <1>0, <1>2, DoingTypes
    <3>2. Len(h') = Len(h) /\ written' = written
      BY <1>2
    <3> QED BY <1>2, <2>1, <3>1, <3>2, ReturnStep
  <2> QED BY <2>5, <2>6 DEF OutputInv
<1> QED BY <1>1, <1>2 DEF FlushReturns

LEMMA PopWritesStep ==
    ASSUME OutputInv, PopWrites
    PROVE  OutputInv'
<1>0. Doing("pop") /\ calls # <<>> /\ top.do = "pop"
  BY DoingTypes DEF PopWrites
<1>1. top.out \in Seq(1..written) /\ top.x \in 1..Len(h)
  BY <1>0, DoingTypes, TopCall DEF Fr, Frames, FrameType
<1>2. /\ rest \in Seq(Fr) /\ Shape(rest) /\ phase # "off"
      /\ rest # <<>> => Head(rest).st # "call"
      /\ running = 0 => NoUser(rest)
      /\ broken \/ Len(handlers) < Len(h) \/ NoPush(rest)
  BY <1>0, DoingTypes
<1>3. /\ DelTop \in Seq(1..Len(h)) /\ Len(DelTop) <= Len(h)
      /\ broken \/ handlers = <<>> \/ Len(DelTop) < Len(h)
      /\ NewActive(DelTop) \in 0..Len(h)
  <2>1. handlers \in Seq(1..Len(h)) /\ Len(handlers) <= Len(h)
    BY DEF OutputInv, DataOK
  <2>2. /\ DelTop \in Seq(1..Len(h)) /\ Len(DelTop) <= Len(handlers)
        /\ handlers # <<>> => Len(DelTop) < Len(handlers)
        /\ DelTop # <<>> => Last(DelTop) \in 1..Len(h)
    BY <2>1, DelTopType
  <2>3. Len(DelTop) \in Nat
    BY <2>2
  <2> QED BY <2>1, <2>2, <2>3, Sizes DEF NewActive
<1>4. /\ handlers' = DelTop /\ broken' = (broken \/ handlers = <<>>)
      /\ active' = NewActive(DelTop)
      /\ misplaced' = (misplaced \/ (handlers # <<>> /\ Last(handlers) # top.x))
      /\ UNCHANGED <<h, running, activated, headers, phase, sent, written, ops, fatal>>
  BY DEF PopWrites
<1>5. DataOK'
  <2>1. misplaced' \in BOOLEAN /\ broken' \in BOOLEAN
    BY <1>4
  <2> QED BY <1>3, <1>4, <2>1 DEF OutputInv, DataOK
<1>6. PICK g : g = Frame("free", top.x)
  OBVIOUS
<1>7. g \in Fr /\ g.do = "free" /\ g.st = "none"
  BY <1>1, <1>6, FrameOfType, Sizes DEF Fr
<1>8. PICK s : s = <<g>> \o rest
  OBVIOUS
<1>9. Fits(g, rest)
  BY <1>2, <1>7 DEF Fits, Returning
<1>10. /\ s \in Seq(Fr) /\ Shape(s) /\ s # <<>> /\ Head(s) = g
       /\ NoUser(rest) => NoUser(s)
  <2>1. g.do # "user"
    BY <1>7
  <2> QED BY <1>2, <1>7, <1>8, <1>9, <2>1, CallMade
<1>11. broken' \/ Len(handlers') < Len(h)
  BY <1>3, <1>4
<1>12. /\ phase' # "off" /\ written' = written /\ Len(h') = Len(h)
       /\ running' = 0 => NoUser(s)
  BY <1>2, <1>4, <1>10
<1>13. CallsOK'
  <2>1. CASE top.out # <<>> /\ ~top.discard
    <3>1. PICK f : f = OpFrame(DelTop, active', top.out)
      OBVIOUS
    <3>2. f \in Fr /\ f.do = "op" /\ f.st = "none"
      <4>1. PICK d \in Seq(1..written) : d = top.out
        BY <1>1
      <4>2. PICK hs \in Seq(1..Len(h)) : hs = DelTop
        BY <1>3
      <4>3. PICK a : a = active'
        OBVIOUS
      <4>4. /\ OpFrame(hs, a, d) \in Frames(Len(h), written)
            /\ OpFrame(hs, a, d).do = "op" /\ OpFrame(hs, a, d).st = "none"
        BY <1>3, <4>2, OpFrameType, Sizes
      <4> QED BY <3>1, <4>1, <4>2, <4>3, <4>4 DEF Fr
    <3>3. calls' = <<f>> \o s
      <4>1. calls' = <<f>> \o <<g>> \o rest
        BY <2>1, <3>1, <1>6 DEF PopWrites
      <4>2. <<f>> \in Seq(Fr) /\ <<g>> \in Seq(Fr)
        BY <1>7, <3>2
      <4> QED BY <1>2, <1>8, <4>1, <4>2, ConcatAssociative
    <3>4. Fits(f, s)
      BY <1>7, <1>10, <3>2 DEF Fits, Returning
    <3>5. f.do # "user" /\ f.st # "call"
      BY <3>2
    <3> QED BY <1>10, <1>11, <1>12, <3>2, <3>3, <3>4, <3>5, StackStep
  <2>2. CASE ~(top.out # <<>> /\ ~top.discard)
    <3>1. calls' = s
      <4>1. calls' = <<>> \o <<g>> \o rest
        BY <2>2, <1>6 DEF PopWrites
      <4>2. <<g>> \in Seq(Fr)
        BY <1>7
      <4> QED BY <1>8, <4>1, <4>2, ConcatEmptySeq
    <3>2. Head(s).st # "call"
      BY <1>7, <1>10
    <3> QED BY <1>10, <1>11, <1>12, <3>1, <3>2, ReturnStep
  <2> QED BY <2>1, <2>2
<1> QED BY <1>5, <1>13 DEF OutputInv

LEMMA PopFreesStep ==
    ASSUME OutputInv, PopFrees
    PROVE  OutputInv'
<1>0. Doing("free") /\ ops' = ops
  BY DEF PopFrees
<1>1. CASE Undefined
  BY <1>0, <1>1, UndefinedStep DEF OutputInv, DataOK
<1>2. CASE /\ h' = Freed({top.x})
           /\ calls' = rest
           /\ UNCHANGED <<handlers, active, running, activated, headers, broken,
                          phase, sent, written, fatal, misplaced>>
  <2>1. h' \in Seq(HandlerType(written)) /\ Len(h') = Len(h)
    BY <1>2, FreedType
  <2>2. DataOK'
    BY <1>0, <1>2, <2>1 DEF OutputInv, DataOK
  <2>3. CallsOK'
    <3>1. rest \in Seq(Fr) /\ Shape(rest) /\ phase' # "off"
          /\ (rest # <<>> => Head(rest).st # "call") /\ (running' = 0 => NoUser(rest))
      BY <1>0, <1>2, DoingTypes
    <3>2. broken' \/ Len(handlers') < Len(h) \/ NoPush(rest)
      BY <1>0, <1>2, DoingTypes
    <3> QED BY <1>2, <2>1, <3>1, <3>2, ReturnStep
  <2> QED BY <2>2, <2>3 DEF OutputInv
<1> QED BY <1>1, <1>2 DEF PopFrees

LEMMA EndAllStep ==
    ASSUME OutputInv, EndAll
    PROVE  OutputInv'
<1>0. Doing("all") /\ ops' = ops /\ ops' \in 0..MaxOps
  BY DEF EndAll, OutputInv, DataOK
<1>1. CASE Popped /\ Call(PopFrame(active, top.discard))
  <2>1. active # 0 /\ active \in 1..Len(h) /\ top.discard \in BOOLEAN
    <3>1. top \in Fr
      BY <1>0, DoingTypes
    <3>2. top.discard \in BOOLEAN
      BY <3>1 DEF Fr, Frames, FrameType
    <3>3. active # 0 /\ active \in 1..Len(h)
      BY <1>1, Sizes DEF Popped, OutputInv, DataOK
    <3> QED BY <3>2, <3>3
  <2>2. PICK f : f = PopFrame(active, top.discard)
    OBVIOUS
  <2>3. f \in Fr /\ f.do = "pop"
    BY <2>1, <2>2, PopFrameType DEF Fr
  <2>4. Fits(f, calls) /\ phase # "off"
    BY <1>0, <2>3, DoingTypes DEF Fits, Returning, top
  <2>5. f.do \notin {"user", "push"}
    BY <2>3
  <2> QED BY <1>0, <1>1, <2>1, <2>2, <2>3, <2>4, <2>5, CallStep
<1>2. CASE /\ IF activated THEN php_output_header ELSE UNCHANGED headers
           /\ php_output_deactivate
           /\ NextPhase
           /\ UNCHANGED <<sent, written, fatal, misplaced>>
  <2>1. /\ h' \in Seq(HandlerType(written)) /\ Len(h') = Len(h)
        /\ handlers' = <<>> /\ active' = 0 /\ running' = 0
        /\ activated' \in BOOLEAN /\ broken' = TRUE
    BY <1>2, Deactivated
  <2>2. Len(<<>>) = 0 /\ 0 \in 0..Len(h) /\ <<>> \in Seq(1..Len(h)) /\ 0 <= Len(h)
    BY Sizes
  <2>3. headers' \in {"none", "sent", "failed"}
    BY <1>2 DEF php_output_header, OutputInv, DataOK
  <2>4. PICK s : s = calls'
    OBVIOUS
  <2>5. /\ s \in Seq(Fr) /\ Shape(s) /\ NoUser(s) /\ NoPush(s) /\ (phase' = "off" => s = <<>>)
        /\ (s # <<>> => Head(s).st # "call") /\ phase' \in Phases
    BY <1>0, <1>2, <2>4, DoingTypes, PhaseStep
  <2>6. DataOK'
    BY <1>0, <1>2, <2>1, <2>2, <2>3, <2>5 DEF OutputInv, DataOK
  <2>7. CallsOK'
    BY <1>2, <2>1, <2>4, <2>5, ReturnStep
  <2> QED BY <2>6, <2>7 DEF OutputInv
<1> QED BY <1>1, <1>2 DEF EndAll

-----------------------------------------------------------------------------
(* The invariant *)

LEMMA InitOutput == Init => OutputInv
<1> SUFFICES ASSUME Init PROVE OutputInv
  OBVIOUS
<1>1. Len(<<>>) = 0 /\ \A S : <<>> \in Seq(S)
  OBVIOUS
<1>2. 0 \in 0..MaxWrites /\ 0 \in 0..MaxOps /\ 0 <= MaxHandlers /\ 0 \in 0..0
  BY BoundsAssumption
<1>3. DataOK
  <2>1. h \in Seq(HandlerType(written)) /\ handlers \in Seq(1..Len(h)) /\ sent \in Seq(1..written)
    BY <1>1 DEF Init
  <2>2. Len(h) = 0 /\ Len(handlers) = 0
    BY <1>1 DEF Init
  <2>3. /\ written \in 0..MaxWrites /\ ops \in 0..MaxOps
        /\ active \in 0..Len(h) /\ running \in 0..Len(h)
        /\ Len(h) <= MaxHandlers /\ Len(handlers) <= Len(h)
    BY <1>2, <2>2 DEF Init
  <2>4. /\ headers \in {"none", "sent", "failed"} /\ phase \in Phases
        /\ activated \in BOOLEAN /\ broken \in BOOLEAN
        /\ fatal \in BOOLEAN /\ misplaced \in BOOLEAN
    BY DEF Init, Phases
  <2> QED BY <2>1, <2>3, <2>4 DEF DataOK
<1>4. CallsOK
  BY <1>1, EmptyShape DEF Init, CallsOK, NoPush
<1> QED BY <1>3, <1>4 DEF OutputInv

LEMMA NextOutput == OutputInv /\ [Next]_vars => OutputInv'
<1> SUFFICES ASSUME OutputInv, [Next]_vars PROVE OutputInv'
  OBVIOUS
<1>1. CASE Echo
  BY <1>1, EchoStep
<1>2. CASE ObFlush \/ ObClean \/ \E d \in BOOLEAN : ObEnd(d)
  BY <1>2, ScriptSteps
<1>3. CASE Exit
  BY <1>3, ExitStep
<1>4. CASE EndOfPhase
  BY <1>4, EndOfPhaseStep
<1>5. ASSUME NEW k \in Kinds, ObStart(k) PROVE OutputInv'
  BY <1>5, StartStep
<1>6. ASSUME NEW s \in {"success", "nodata", "failure"}, Return(s) PROVE OutputInv'
  BY <1>6, ReturnedStep
<1>7. CASE HandlerLocked
  BY <1>7, LockedStep
<1>8. CASE HandlerStores
  BY <1>8, StoresStep
<1>9. CASE HandlerCalled
  BY <1>9, CalledStep
<1>10. CASE HandlerInternal
  BY <1>10, InternalStep
<1>11. CASE ApplyHandler
  BY <1>11, ApplyStep
<1>12. CASE ApplyStale
  BY <1>12, StaleStep
<1>13. CASE ApplyNext
  BY <1>13, ApplyNextStep
<1>14. CASE SapiWrite \/ ClientGone \/ CleanReturns
  BY <1>14, WriteSteps
<1>15. CASE FlushWrites
  BY <1>15, FlushWritesStep
<1>16. CASE FlushReturns
  BY <1>16, FlushReturnsStep
<1>17. CASE PopWrites
  BY <1>17, PopWritesStep
<1>18. CASE PopFrees
  BY <1>18, PopFreesStep
<1>19. CASE EndAll
  BY <1>19, EndAllStep
<1>20. CASE UNCHANGED vars
  <2>1. DataOK'
    BY <1>20 DEF vars, OutputInv, DataOK
  <2>2. CallsOK'
    BY <1>20 DEF vars, OutputInv, CallsOK, top
  <2> QED BY <2>1, <2>2 DEF OutputInv
<1> QED BY <1>1, <1>2, <1>3, <1>4, <1>5, <1>6, <1>7, <1>8, <1>9, <1>10, <1>11, <1>12,
           <1>13, <1>14, <1>15, <1>16, <1>17, <1>18, <1>19, <1>20 DEF Next, Finished

LEMMA OutputInvariance == Spec => []OutputInv
BY InitOutput, NextOutput, PTL DEF Spec

LEMMA OneUser == OutputInv => NotReentered
<1> SUFFICES ASSUME OutputInv PROVE NotReentered
  OBVIOUS
<1>1. calls \in Seq(Fr) /\ Shape(calls)
  BY DEF OutputInv, CallsOK, Fr
<1>2. DOMAIN calls = 1..Len(calls)
  BY <1>1
<1> DEFINE S == {i \in DOMAIN calls : calls[i].do = "user"}
<1>3. \A i, j \in S : i = j
  BY <1>1, <1>2 DEF Shape
<1> HIDE DEF S
<1>4. CASE S = {}
  <2>1. Cardinality(S) = 0
    BY <1>4, FS_EmptySet, Zenon
  <2> QED BY <2>1 DEF NotReentered, S
<1>5. CASE S # {}
  <2>1. PICK i : i \in S
    BY <1>5
  <2>2. S = {i}
    BY <1>3, <2>1
  <2>3. Cardinality(S) = 1
    BY <2>2, FS_Singleton, Zenon
  <2> QED BY <2>3 DEF NotReentered, S
<1> QED BY <1>4, <1>5

\* Whatever script code of an output handler writes or calls, and however a request
\* is left by a bailout, no handler is entered from a handler: php_output_lock_error
\* stops the calls that would flush, clean or end one, and
\* php_output_handler_append lets a chunk wait as long as OG(running) is set.
THEOREM HandlersNotReentered == Spec => []NotReentered
BY OutputInvariance, OneUser, PTL

LEMMA TypesOK == OutputInv => TypeOK
<1> SUFFICES ASSUME OutputInv PROVE TypeOK
  OBVIOUS
<1>1. DataOK /\ DOMAIN h = 1..Len(h) /\ Len(h) \in Nat
  BY Sizes DEF OutputInv
<1>2. ASSUME NEW x \in DOMAIN h
      PROVE  /\ h[x].can \subseteq Abilities
             /\ h[x].level \in 0..MaxHandlers
             /\ ToSet(h[x].buffer) \subseteq 1..written
             /\ h[x].life \in {"new", "begun", "ended"}
  <2>1. h[x] \in HandlerType(written)
    BY <1>1, <1>2, Sizes
  <2>2. h[x].buffer \in Seq(1..written) /\ h[x].life \in Lives
        /\ h[x].level \in 0..MaxHandlers /\ h[x].can \in SUBSET Abilities
    BY <2>1 DEF HandlerType
  <2>3. ToSet(h[x].buffer) \subseteq 1..written
    <3>1. PICK b \in Seq(1..written) : b = h[x].buffer
      BY <2>2
    <3>2. \A i \in DOMAIN b : b[i] \in 1..written
      BY LenProperties, ElementOfSeq
    <3>3. ToSet(b) \subseteq 1..written
      BY <3>2, Zenon DEF ToSet
    <3> QED BY <3>1, <3>3
  <2> QED BY <2>2, <2>3 DEF Lives
<1>3. ToSet(handlers) \subseteq DOMAIN h /\ Len(handlers) <= Len(h)
  BY <1>1 DEF DataOK, ToSet
<1>4. ToSet(sent) \subseteq 1..written
  BY <1>1 DEF DataOK, ToSet
<1>5. {active, running} \subseteq 0..Len(h) /\ {activated, broken, fatal, misplaced} \subseteq BOOLEAN
  BY <1>1 DEF DataOK
<1> QED BY <1>1, <1>2, <1>3, <1>4, <1>5 DEF TypeOK, DataOK, Phases

\* The stack never holds more handlers than ob_start has started, through flushes,
\* ends out of turn and pushes of whatever is active; buffers and client get only
\* what was written.
THEOREM TypeCorrect == Spec => []TypeOK
BY OutputInvariance, TypesOK, PTL
=============================================================================
