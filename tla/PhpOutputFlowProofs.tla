------------------------- MODULE PhpOutputFlowProofs -------------------------
(***************************************************************************)
(* Proofs about PhpOutput for any kinds of handlers and any bounds: what   *)
(* is written is lost only where it may be, step by step on its way        *)
(* through the handlers to the client, and reaches it in order.            *)
(***************************************************************************)
EXTENDS PhpOutputStackProofs, LinkedListProofs

-----------------------------------------------------------------------------
(* The invariant *)

\* Output is disabled, or nothing happens any more.
Exempt == headers = "failed" \/ phase \in {"off", "undefined"}

\* A pass through the stack at the handler of level n - 1, at which it has only what is to
\* go in or only what came out, or at its end. What goes in goes to no failed handler.
Passing(f) ==
    IF f.st = "none"
    THEN (f.n # 0 => f.out = <<>>) /\ (f.n = 0 => f.in = <<>>)
    ELSE /\ h[f.x].level = f.n - 1
         /\ f.st = "call" => f.x \notin Disabled
         /\ f.st # "call" => f.in = <<>>

\* What a call holds. A user handler's input is still in its buffer, to be passed along
\* if it fails; a handler that is to leave the stack or to be destroyed holds nothing;
\* and a handler on its way back to the stack returns to its level.
Carries(f) ==
    /\ f.do \notin {"op", "user"} => f.in = <<>>
    /\ f.do \in {"user", "push", "free", "all"} \/ f.st \in {"call", "wait"} => f.out = <<>>
    /\ f.do = "op" => Passing(f)
    /\ f.do = "user" => ToSet(f.in) \subseteq ToSet(h[f.x].buffer)
    /\ f.do = "clean" => f.discard
    /\ f.do = "free" \/ (f.do = "pop" /\ Done(f)) => h[f.x].buffer = <<>>
    /\ f.do = "flush" /\ Done(f) => running = 0
    /\ f.do = "push" => active # f.x \/ h[f.x].level = Len(handlers)

LevelsInv == \A i \in 1..Len(handlers) : h[handlers[i]].level = i - 1

\* OG(active) is the top of the stack or to return there; a bailout that left a handler's
\* script code lets no other be run.
ActiveInv ==
    \/ active = NewActive(handlers) \/ Pushing(active)
    \/ running # 0 /\ NoUser(calls)

Flowing ==
    /\ \A f \in Calls : Carries(f)
    /\ \A x \in Disabled : h[x].buffer = <<>>
    /\ LevelsInv
    /\ ActiveInv

FlowInv == Exempt \/ Flowing

\* What becomes of t in a step: the alternatives of NothingLost.
Accounted(t) ==
    \/ t \in Held' \cup ToSet(sent')
    \/ /\ InHandler /\ calls' # <<>>
       /\ t \notin ToSet(top.in) \/ Head(calls').st = "nodata"
       /\ Head(calls').st # "failure"
    \/ calls # <<>> /\ top.discard /\ t \in ToSet(top.out)
    \/ phase' # phase
    \/ headers' = "failed"

Kept == \A t \in Held : Accounted(t)

-----------------------------------------------------------------------------
(* What is held *)

LEMMA OnHeld ==
    OutputInv => \A t : t \in Held <=>
                    \/ \E x \in 1..Len(h) : t \in ToSet(h[x].buffer)
                    \/ \E f \in Calls : t \in ToSet(f.in) \cup ToSet(f.out)
<1> SUFFICES ASSUME OutputInv, NEW t
             PROVE  t \in Held <=>
                    \/ \E x \in 1..Len(h) : t \in ToSet(h[x].buffer)
                    \/ \E f \in Calls : t \in ToSet(f.in) \cup ToSet(f.out)
  OBVIOUS
<1>1. DOMAIN h = 1..Len(h)
  BY Sizes
<1>2. t \in Held <=> \/ \E x \in DOMAIN h : t \in ToSet(h[x].buffer)
                     \/ \E i \in DOMAIN calls : t \in ToSet(calls[i].in) \cup ToSet(calls[i].out)
  BY Zenon DEF Held
<1>3. (\E i \in DOMAIN calls : t \in ToSet(calls[i].in) \cup ToSet(calls[i].out))
      <=> \E f \in Calls : t \in ToSet(f.in) \cup ToSet(f.out)
  BY Zenon DEF Calls, ToSet
<1> QED BY <1>1, <1>2, <1>3

LEMMA OnHeldNext ==
    OutputInv' => \A t : t \in Held' <=>
                     \/ \E x \in 1..Len(h') : t \in ToSet(h'[x].buffer)
                     \/ \E f \in Calls' : t \in ToSet(f.in) \cup ToSet(f.out)
<1> DEFINE A == \A t : t \in Held <=>
                     \/ \E x \in 1..Len(h) : t \in ToSet(h[x].buffer)
                     \/ \E f \in Calls : t \in ToSet(f.in) \cup ToSet(f.out)
<1>1. OutputInv => A
  BY OnHeld
<1> HIDE DEF A
<1>2. OutputInv' => A'
  BY <1>1, PTL
<1> QED BY <1>2 DEF A

\* What is somewhere after the step is accounted for.
LEMMA StillHeld ==
    ASSUME OutputInv'
    PROVE  /\ \A x \in 1..Len(h') : \A t \in ToSet(h'[x].buffer) : Accounted(t)
           /\ \A f \in Calls' : \A t \in ToSet(f.in) \cup ToSet(f.out) : Accounted(t)
           /\ \A t \in ToSet(sent') : Accounted(t)
<1>1. \A t \in Held' : Accounted(t)
  BY DEF Accounted
<1>2. \A t \in ToSet(sent') : Accounted(t)
  BY DEF Accounted
<1> QED BY <1>1, <1>2, OnHeldNext

\* A step keeps what the buffers and the calls it ends hold.
LEMMA KeptStep ==
    ASSUME OutputInv, OutputInv',
           \A x \in 1..Len(h) : \A t \in ToSet(h[x].buffer) : Accounted(t),
           \A f \in Calls : f \in Calls' \/ \A t \in ToSet(f.in) \cup ToSet(f.out) : Accounted(t)
    PROVE  Kept
<1> SUFFICES ASSUME NEW t \in Held PROVE Accounted(t)
  BY DEF Kept
<1>1. CASE \E x \in 1..Len(h) : t \in ToSet(h[x].buffer)
  BY <1>1
<1>2. ASSUME NEW f \in Calls, t \in ToSet(f.in) \cup ToSet(f.out) PROVE Accounted(t)
  BY <1>2, StillHeld
<1> QED BY <1>1, <1>2, OnHeld

\* The elements of one sequence after the other.
LEMMA Joined ==
    ASSUME NEW S, NEW s \in Seq(S), NEW t \in Seq(S)
    PROVE  ToSet(s \o t) = ToSet(s) \cup ToSet(t)
<1>1. PICK u : u = s \o t
  OBVIOUS
<1>2. /\ u \in Seq(S) /\ Len(u) = Len(s) + Len(t) /\ Len(s) \in Nat /\ Len(t) \in Nat
      /\ DOMAIN u = 1..Len(u) /\ DOMAIN s = 1..Len(s) /\ DOMAIN t = 1..Len(t)
      /\ \A i \in 1..Len(u) : u[i] = IF i <= Len(s) THEN s[i] ELSE t[i - Len(s)]
  BY <1>1
<1>3. ASSUME NEW e \in ToSet(u) PROVE e \in ToSet(s) \cup ToSet(t)
  <2>1. PICK i \in 1..Len(u) : e = u[i]
    BY <1>2, <1>3 DEF ToSet
  <2>2. CASE i <= Len(s)
    <3>1. i \in DOMAIN s /\ e = s[i]
      BY <1>2, <2>1, <2>2
    <3> QED BY <3>1 DEF ToSet
  <2>3. CASE ~(i <= Len(s))
    <3>1. i - Len(s) \in DOMAIN t /\ e = t[i - Len(s)]
      BY <1>2, <2>1, <2>3
    <3> QED BY <3>1 DEF ToSet
  <2> QED BY <2>2, <2>3
<1>4. ASSUME NEW e \in ToSet(s) PROVE e \in ToSet(u)
  <2>1. PICK i \in 1..Len(s) : e = s[i]
    BY <1>2, <1>4 DEF ToSet
  <2>2. i \in 1..Len(u) /\ u[i] = s[i]
    BY <1>2
  <2> QED BY <1>2, <2>1, <2>2 DEF ToSet
<1>5. ASSUME NEW e \in ToSet(t) PROVE e \in ToSet(u)
  <2>1. PICK i \in 1..Len(t) : e = t[i]
    BY <1>2, <1>5 DEF ToSet
  <2>2. Len(s) + i \in 1..Len(u) /\ u[Len(s) + i] = t[i]
    BY <1>2
  <2> QED BY <1>2, <2>1, <2>2 DEF ToSet
<1>6. ToSet(u) = ToSet(s) \cup ToSet(t)
  BY <1>3, <1>4, <1>5
<1> QED BY <1>1, <1>6

-----------------------------------------------------------------------------
(* Steps that only make or end calls *)

\* The calls that are there before and after the step are as they were.
LEMMA QuietFlow ==
    ASSUME OutputInv, OutputInv', Flowing,
           \A f \in Calls : f.do \in {"user", "push"} => f \in Calls',
           \A f \in Calls' : f \in Calls \/ (f.do # "user" /\ Carries(f)),
           UNCHANGED <<h, handlers, active, running>>
    PROVE  Flowing'
<1>1. Disabled' = Disabled
  BY DEF Disabled
<1>2. ASSUME NEW f \in Calls' PROVE Carries(f)'
  <2>1. Carries(f)
    BY DEF Flowing
  <2> QED BY <1>1, <2>1 DEF Carries, Passing, Done
<1>3. LevelsInv'
  BY DEF Flowing, LevelsInv
<1>4. ActiveInv'
  <2>1. Pushing(active) => (Pushing(active))'
    BY DEF Pushing, Calls
  <2>2. NoUser(calls) => NoUser(calls')
    BY OnCalls, OnCallsNext
  <2> QED BY <2>1, <2>2 DEF Flowing, ActiveInv, NewActive
<1> QED BY <1>1, <1>2, <1>3, <1>4 DEF Flowing

\* ... and so are the buffers.
LEMMA QuietKept ==
    ASSUME OutputInv, OutputInv', h' = h,
           \A f \in Calls : f \in Calls' \/ \A t \in ToSet(f.in) \cup ToSet(f.out) : Accounted(t)
    PROVE  Kept
<1>1. \A x \in 1..Len(h) : \A t \in ToSet(h[x].buffer) : Accounted(t)
  BY StillHeld
<1> QED BY <1>1, KeptStep

\* A call is made that holds what it may.
LEMMA CallFlow ==
    ASSUME OutputInv, OutputInv', Flowing, NEW F, calls \in Seq(F), NEW f \in F,
           calls' = <<f>> \o calls, f.do # "user", Carries(f),
           UNCHANGED <<h, handlers, active, running>>
    PROVE  Flowing' /\ Kept
<1>1. Calls' = {f} \cup Calls
  BY OnPushed DEF Calls
<1>2. \A g \in Calls : g \in Calls'
  BY <1>1
<1>3. \A g \in Calls' : g \in Calls \/ (g.do # "user" /\ Carries(g))
  BY <1>1
<1>4. Flowing'
  BY <1>2, <1>3, QuietFlow
<1>5. Kept
  BY <1>2, QuietKept
<1> QED BY <1>4, <1>5

\* The call of php_output_op holds what is to be written.
LEMMA OpFrameCarries ==
    ASSUME NEW hs, Len(hs) \in Nat, hs # <<>> => Len(hs) # 0, NEW act, NEW data
    PROVE  /\ Carries(OpFrame(hs, act, data))
           /\ ToSet(data) \subseteq ToSet(OpFrame(hs, act, data).in)
                                    \cup ToSet(OpFrame(hs, act, data).out)
<1>1. PICK f : f = OpFrame(hs, act, data)
  OBVIOUS
<1>2. CASE act # 0 /\ hs # <<>>
  <2>1. f.do = "op" /\ f.st = "none" /\ f.in = data /\ f.out = <<>> /\ f.n = Len(hs)
    BY <1>1, <1>2 DEF OpFrame, Frame
  <2>2. Carries(f)
    BY <1>2, <2>1 DEF Carries, Passing
  <2> QED BY <1>1, <2>1, <2>2
<1>3. CASE ~(act # 0 /\ hs # <<>>)
  <2>1. f.do = "op" /\ f.st = "none" /\ f.in = <<>> /\ f.out = data /\ f.n = 0
    BY <1>1, <1>3 DEF OpFrame, Frame
  <2>2. Carries(f)
    BY <2>1 DEF Carries, Passing
  <2> QED BY <1>1, <2>1, <2>2
<1> QED BY <1>2, <1>3

LEMMA EchoFlow ==
    ASSUME OutputInv, OutputInv', Flowing, Echo
    PROVE  Flowing' /\ Kept
<1>0. UNCHANGED <<h, handlers, active, running>>
  BY DEF Echo
<1>1. CASE activated
  <2>1. PICK f : f = OpFrame(handlers, active, <<written + 1>>)
    OBVIOUS
  <2>2. Len(handlers) \in Nat /\ (handlers # <<>> => Len(handlers) # 0)
    BY DEF OutputInv, DataOK
  <2>3. Carries(f) /\ f.do # "user"
    BY <2>1, <2>2, OpFrameCarries, OpFrameInv
  <2>4. calls' = <<f>> \o calls
    BY <1>1, <2>1 DEF Echo
  <2>5. PICK F : calls \in Seq(F) /\ f \in F
    <3>1. calls \in Seq(Fr)
      BY DEF OutputInv, CallsOK, Fr
    <3>2. calls \in Seq(Fr \cup {f})
      BY <3>1, SeqMonotonic
    <3> QED BY <3>2
  <2> QED BY <1>0, <2>3, <2>4, <2>5, CallFlow
<1>2. CASE ~activated
  <2>1. calls' = calls
    BY <1>2 DEF Echo
  <2>2. Calls' = Calls
    BY <2>1 DEF Calls
  <2> QED BY <1>0, <2>2, QuietFlow, QuietKept
<1> QED BY <1>1, <1>2

\* The call of php_output_stack_pop: a failed handler holds nothing.
LEMMA PopFrameCarries ==
    ASSUME OutputInv, Flowing, active # 0, NEW d
    PROVE  Carries(PopFrame(active, d)) /\ PopFrame(active, d).do # "user"
<1>1. active \in 1..Len(h)
  BY Sizes DEF OutputInv, DataOK
<1>2. PICK f : f = PopFrame(active, d)
  OBVIOUS
<1>3. f.do = "pop" /\ f.in = <<>> /\ f.out = <<>> /\ f.x = active
      /\ (~h[active].disabled => f.st = "call")
  BY <1>2 DEF PopFrame, Frame
<1>4. h[active].disabled => h[active].buffer = <<>>
  BY <1>1 DEF Flowing, Disabled
<1>5. Carries(f) /\ f.do # "user"
  BY <1>3, <1>4 DEF Carries, Done
<1> QED BY <1>2, <1>5

LEMMA ScriptCallsFlow ==
    ASSUME OutputInv, OutputInv', Flowing,
           ObFlush \/ ObClean \/ \E d \in BOOLEAN : ObEnd(d)
    PROVE  Flowing' /\ Kept
<1>1. active # 0
  BY DEF ObFlush, ObClean, ObEnd
<1>2. PICK f : Call(f) /\ f.do # "user" /\ Carries(f)
  <2>1. CASE ObFlush
    <3>1. PICK f : f = [Frame("flush", active) EXCEPT !.st = "call", !.op = {"flush"}]
      OBVIOUS
    <3>2. f.do = "flush" /\ f.st = "call" /\ f.in = <<>> /\ f.out = <<>>
      BY <3>1 DEF Frame
    <3>3. Carries(f)
      BY <3>2 DEF Carries, Done
    <3> QED BY <2>1, <3>1, <3>2, <3>3 DEF ObFlush
  <2>2. CASE ObClean
    <3>1. PICK f : f = [Frame("clean", active) EXCEPT !.st = "call", !.op = {"clean"},
                                                      !.discard = TRUE]
      OBVIOUS
    <3>2. f.do = "clean" /\ f.discard /\ f.in = <<>> /\ f.out = <<>>
      BY <3>1 DEF Frame
    <3>3. Carries(f)
      BY <3>2 DEF Carries, Done
    <3> QED BY <2>2, <3>1, <3>2, <3>3 DEF ObClean
  <2>3. ASSUME NEW d \in BOOLEAN, ObEnd(d) PROVE \E f : Call(f) /\ f.do # "user" /\ Carries(f)
    BY <1>1, <2>3, PopFrameCarries DEF ObEnd
  <2> QED BY <2>1, <2>2, <2>3
<1>3. PICK F : calls \in Seq(F) /\ f \in F
  <2>1. calls \in Seq(Fr)
    BY DEF OutputInv, CallsOK, Fr
  <2>2. calls \in Seq(Fr \cup {f})
    BY <2>1, SeqMonotonic
  <2> QED BY <2>2
<1>4. calls' = <<f>> \o calls /\ UNCHANGED <<h, handlers, active, running>>
  BY <1>2 DEF Call
<1> QED BY <1>2, <1>3, <1>4, CallFlow

LEMMA EndAllPopsFlow ==
    ASSUME OutputInv, OutputInv', Flowing, active # 0, Call(PopFrame(active, top.discard))
    PROVE  Flowing' /\ Kept
<1>1. PICK f : f = PopFrame(active, top.discard)
  OBVIOUS
<1>2. Carries(f) /\ f.do # "user"
  BY <1>1, PopFrameCarries
<1>3. PICK F : calls \in Seq(F) /\ f \in F
  <2>1. calls \in Seq(Fr)
    BY DEF OutputInv, CallsOK, Fr
  <2>2. calls \in Seq(Fr \cup {f})
    BY <2>1, SeqMonotonic
  <2> QED BY <2>2
<1>4. calls' = <<f>> \o calls /\ UNCHANGED <<h, handlers, active, running>>
  BY <1>1 DEF Call
<1> QED BY <1>2, <1>3, <1>4, CallFlow

\* A pass through the stack goes on with what it has.
LEMMA PassFlow ==
    ASSUME OutputInv, OutputInv', BracketInv, Flowing, Doing("op"), NEW f, f.do = "op",
           Carries(f), calls' = <<f>> \o rest,
           ToSet(top.in) \cup ToSet(top.out) \subseteq ToSet(f.in) \cup ToSet(f.out),
           UNCHANGED <<h, handlers, active, running>>
    PROVE  Flowing' /\ Kept
<1>1. CallsInv /\ calls # <<>> /\ top.do = "op"
  BY DEF BracketInv, Doing
<1>2. rest \in Seq(Fr) /\ Calls = {top} \cup Below
  BY <1>1, Core
<1>3. Calls' = {f} \cup Below
  <2>1. PICK F : rest \in Seq(F) /\ f \in F
    <3>1. rest \in Seq(Fr \cup {f})
      BY <1>2, SeqMonotonic
    <3> QED BY <3>1
  <2> QED BY <2>1, OnPushed DEF Calls, Below
<1>4. Flowing'
  <2>1. \A g \in Calls : g.do \in {"user", "push"} => g \in Calls'
    BY <1>1, <1>2, <1>3
  <2>2. \A g \in Calls' : g \in Calls \/ (g.do # "user" /\ Carries(g))
    BY <1>2, <1>3
  <2> QED BY <2>1, <2>2, QuietFlow
<1>5. Kept
  <2>1. \A t \in ToSet(f.in) \cup ToSet(f.out) : Accounted(t)
    BY <1>3, StillHeld
  <2>2. \A g \in Calls : g \in Calls' \/ \A t \in ToSet(g.in) \cup ToSet(g.out) : Accounted(t)
    BY <1>2, <1>3, <2>1
  <2> QED BY <2>2, QuietKept
<1> QED BY <1>4, <1>5

LEMMA ApplyFlow ==
    ASSUME OutputInv, OutputInv', BracketInv, Flowing, ApplyHandler
    PROVE  Flowing' /\ Kept
<1>0. /\ Doing("op") /\ top.st = "none" /\ top.n \in 1..Len(handlers)
      /\ UNCHANGED <<h, handlers, active, running>>
  BY DEF ApplyHandler
<1>1. top \in Fr /\ top.do = "op" /\ CallsInv /\ calls # <<>> /\ top.n # 0
  BY <1>0, DoingTypes, Sizes DEF BracketInv
<1>2. top.out = <<>> /\ top \in Calls
  <2>1. top \in Calls
    BY <1>1, Core
  <2> QED BY <1>0, <1>1, <2>1 DEF Flowing, Carries, Passing
<1>3. PICK x : x = handlers[top.n]
  OBVIOUS
<1>4. x \in 1..Len(h) /\ h[x].level = top.n - 1 /\ h[x] \in HandlerType(written)
  <2>1. handlers \in Seq(1..Len(h))
    BY DEF OutputInv, DataOK
  <2>2. handlers[top.n] \in 1..Len(h)
    BY <1>0, <2>1
  <2>3. h[handlers[top.n]].level = top.n - 1
    BY <1>0 DEF Flowing, LevelsInv
  <2> QED BY <1>3, <2>2, <2>3, Sizes
<1>5. h[x].disabled \in BOOLEAN
  BY <1>4 DEF HandlerType
<1>6. CASE ~h[x].disabled
  <2>1. PICK f : f = [top EXCEPT !.x = x, !.st = "call"]
    OBVIOUS
  <2>2. /\ f.do = "op" /\ f.st = "call" /\ f.x = x /\ f.n = top.n
        /\ f.in = top.in /\ f.out = top.out
    BY <1>1, <2>1 DEF Fr, Frames, FrameType
  <2>3. Carries(f)
    BY <1>2, <1>4, <1>6, <2>2 DEF Carries, Passing, Disabled
  <2>4. calls' = <<f>> \o rest
    BY <1>3, <1>6, <2>1 DEF ApplyHandler
  <2> QED BY <1>0, <2>2, <2>3, <2>4, PassFlow
<1>7. CASE h[x].disabled /\ h[x].level = 0
  <2>1. PICK f : f = [top EXCEPT !.out = top.in, !.in = <<>>, !.n = @ - 1]
    OBVIOUS
  <2>2. f.do = "op" /\ f.st = "none" /\ f.n = 0 /\ f.in = <<>> /\ f.out = top.in
    BY <1>0, <1>1, <1>4, <1>7, <2>1 DEF Fr, Frames, FrameType
  <2>3. Carries(f)
    BY <2>2 DEF Carries, Passing
  <2>4. calls' = <<f>> \o rest
    BY <1>3, <1>7, <2>1 DEF ApplyHandler
  <2>5. ToSet(top.in) \cup ToSet(top.out) \subseteq ToSet(f.in) \cup ToSet(f.out)
    BY <1>2, <2>2
  <2> QED BY <1>0, <2>2, <2>3, <2>4, <2>5, PassFlow
<1>8. CASE h[x].disabled /\ h[x].level # 0
  <2>1. PICK f : f = [top EXCEPT !.n = @ - 1]
    OBVIOUS
  <2>2. f.do = "op" /\ f.st = "none" /\ f.n # 0 /\ f.in = top.in /\ f.out = top.out
    BY <1>0, <1>1, <1>4, <1>8, <2>1 DEF Fr, Frames, FrameType
  <2>3. Carries(f)
    BY <1>2, <2>2 DEF Carries, Passing
  <2>4. calls' = <<f>> \o rest
    BY <1>3, <1>8, <2>1 DEF ApplyHandler
  <2> QED BY <1>0, <2>2, <2>3, <2>4, PassFlow
<1> QED BY <1>5, <1>6, <1>7, <1>8

LEMMA ApplyNextFlow ==
    ASSUME OutputInv, OutputInv', BracketInv, Flowing, ApplyNext
    PROVE  Flowing' /\ Kept
<1>0. /\ Doing("op") /\ top.st # "none" /\ top.st # "call"
      /\ UNCHANGED <<h, handlers, active, running>>
  BY DEF ApplyNext, Doing
<1>1. top \in Fr /\ top.do = "op" /\ CallsInv /\ calls # <<>>
  BY <1>0, DoingTypes DEF BracketInv
<1>2. top.in = <<>> /\ h[top.x].level = top.n - 1
  <2>1. top \in Calls
    BY <1>1, Core
  <2> QED BY <1>0, <1>1, <2>1 DEF Flowing, Carries, Passing
<1>3. CASE top.st = "nodata"
  <2>1. PICK f : f = [[top EXCEPT !.n = 0] EXCEPT !.st = "none"]
    OBVIOUS
  <2>2. f.do = "op" /\ f.st = "none" /\ f.n = 0 /\ f.in = top.in /\ f.out = top.out
    BY <1>1, <2>1 DEF Fr, Frames, FrameType
  <2>3. Carries(f)
    BY <1>2, <2>2 DEF Carries, Passing
  <2>4. calls' = <<f>> \o rest
    BY <1>3, <2>1 DEF ApplyNext, Swapped
  <2> QED BY <1>0, <2>2, <2>3, <2>4, PassFlow
<1>4. CASE top.st # "nodata" /\ h[top.x].level # 0
  <2>1. PICK f : f = [[top EXCEPT !.n = @ - 1, !.in = top.out, !.out = <<>>] EXCEPT !.st = "none"]
    OBVIOUS
  <2>2. f.do = "op" /\ f.st = "none" /\ f.n # 0 /\ f.in = top.out /\ f.out = <<>>
    BY <1>1, <1>2, <1>4, <2>1 DEF Fr, Frames, FrameType
  <2>3. Carries(f)
    BY <2>2 DEF Carries, Passing
  <2>4. calls' = <<f>> \o rest
    BY <1>4, <2>1 DEF ApplyNext, Swapped
  <2>5. ToSet(top.in) \cup ToSet(top.out) \subseteq ToSet(f.in) \cup ToSet(f.out)
    BY <1>2, <2>2
  <2> QED BY <1>0, <2>2, <2>3, <2>4, <2>5, PassFlow
<1>5. CASE top.st # "nodata" /\ h[top.x].level = 0
  <2>1. PICK f : f = [[top EXCEPT !.n = @ - 1] EXCEPT !.st = "none"]
    OBVIOUS
  <2>2. f.do = "op" /\ f.st = "none" /\ f.n = 0 /\ f.in = top.in /\ f.out = top.out
    BY <1>1, <1>2, <1>5, <2>1 DEF Fr, Frames, FrameType
  <2>3. Carries(f)
    BY <1>2, <2>2 DEF Carries, Passing
  <2>4. calls' = <<f>> \o rest
    BY <1>5, <2>1 DEF ApplyNext, Swapped
  <2> QED BY <1>0, <2>2, <2>3, <2>4, PassFlow
<1> QED BY <1>3, <1>4, <1>5

\* A call returns whose output is accounted for.
LEMMA ReturnFlow ==
    ASSUME OutputInv, OutputInv', BracketInv, Flowing, calls # <<>>, calls' = rest,
           top.do \in {"op", "flush", "clean"},
           \A t \in ToSet(top.in) \cup ToSet(top.out) : Accounted(t),
           UNCHANGED <<h, handlers, active, running>>
    PROVE  Flowing' /\ Kept
<1>1. Calls' = Below /\ Calls = {top} \cup Below
  <2>1. CallsInv
    BY DEF BracketInv
  <2> QED BY <2>1, Core DEF Calls, Below
<1>2. Flowing'
  <2>1. \A g \in Calls : g.do \in {"user", "push"} => g \in Calls'
    BY <1>1
  <2>2. \A g \in Calls' : g \in Calls
    BY <1>1
  <2> QED BY <2>1, <2>2, QuietFlow
<1>3. Kept
  <2>1. \A g \in Calls : g \in Calls' \/ \A t \in ToSet(g.in) \cup ToSet(g.out) : Accounted(t)
    BY <1>1
  <2> QED BY <2>1, QuietKept
<1> QED BY <1>2, <1>3

LEMMA SapiWriteFlow ==
    ASSUME OutputInv, OutputInv', BracketInv, Flowing, SapiWrite
    PROVE  Flowing' /\ Kept
<1>0. /\ calls # <<>> /\ top.do = "op" /\ top.st = "none" /\ top.n = 0 /\ calls' = rest
      /\ UNCHANGED <<h, handlers, active, running>>
      /\ sent' = IF headers' = "failed" THEN sent ELSE sent \o top.out
  BY DEF SapiWrite, Doing
<1>1. top \in Fr /\ top \in Calls
  <2>1. CallsInv
    BY DEF BracketInv
  <2> QED BY <1>0, <2>1, Core
<1>2. top.in = <<>> /\ top.out \in Seq(1..written) /\ sent \in Seq(1..written)
  <2>1. top.in = <<>>
    BY <1>0, <1>1 DEF Flowing, Carries, Passing
  <2> QED BY <1>1, <2>1 DEF Fr, Frames, FrameType, OutputInv, DataOK
<1>3. \A t \in ToSet(top.in) \cup ToSet(top.out) : Accounted(t)
  <2>1. CASE headers' = "failed"
    BY <2>1 DEF Accounted
  <2>2. CASE headers' # "failed"
    <3>1. PICK s \in Seq(1..written), o \in Seq(1..written) : s = sent /\ o = top.out
      BY <1>2
    <3>2. ToSet(s \o o) = ToSet(s) \cup ToSet(o)
      BY Joined
    <3>3. ToSet(top.out) \subseteq ToSet(sent')
      BY <1>0, <2>2, <3>1, <3>2
    <3> QED BY <1>2, <3>3, OnNone, StillHeld
  <2> QED BY <2>1, <2>2
<1>4. top.do \in {"op", "flush", "clean"}
  BY <1>0
<1> QED BY <1>0, <1>3, <1>4, ReturnFlow

LEMMA CleanFlow ==
    ASSUME OutputInv, OutputInv', BracketInv, Flowing, CleanReturns
    PROVE  Flowing' /\ Kept
<1>0. /\ calls # <<>> /\ top.do = "clean" /\ calls' = rest
      /\ UNCHANGED <<h, handlers, active, running>>
  BY DEF CleanReturns, Doing
<1>1. top \in Calls
  <2>1. CallsInv
    BY DEF BracketInv
  <2> QED BY <1>0, <2>1, Core
<1>2. top.in = <<>> /\ top.discard
  BY <1>0, <1>1 DEF Flowing, Carries
<1>3. \A t \in ToSet(top.in) \cup ToSet(top.out) : Accounted(t)
  BY <1>0, <1>2, OnNone DEF Accounted
<1>4. top.do \in {"op", "flush", "clean"}
  BY <1>0
<1> QED BY <1>0, <1>3, <1>4, ReturnFlow

-----------------------------------------------------------------------------
(* Bailouts and the parts of a request *)

\* A bailout, or the next part of the request: what is lost is accounted for.
LEMMA PhaseKept ==
    ASSUME phase' # phase \/ headers' = "failed"
    PROVE  Kept
BY DEF Kept, Accounted

\* The calls that php_request_shutdown makes hold nothing.
LEMMA ClearedCarries ==
    ASSUME phase \in Phases \ {"off", "undefined"}, NextPhase
    PROVE  phase' # phase /\ \A f \in Calls' : f.do = "all" /\ Carries(f)'
<1>1. phase' # phase
  BY DEF NextPhase, After, Phases
<1>2. CASE calls' = <<>>
  BY <1>1, <1>2, OnNone DEF Calls
<1>3. ASSUME NEW d \in BOOLEAN, calls' = <<[Frame("all", 0) EXCEPT !.discard = d]>>
      PROVE  \A f \in Calls' : f.do = "all" /\ Carries(f)'
  <2>1. PICK f : f = [Frame("all", 0) EXCEPT !.discard = d]
    OBVIOUS
  <2>2. f.do = "all" /\ f.st = "none" /\ f.in = <<>> /\ f.out = <<>> /\ calls' = <<f>>
    BY <1>3, <2>1 DEF Frame
  <2>3. DOMAIN <<f>> = {1} /\ <<f>>[1] = f
    OBVIOUS
  <2>4. Calls' = {f}
    BY <2>2, <2>3 DEF Calls, ToSet
  <2>5. Carries(f)'
    BY <2>2 DEF Carries
  <2> QED BY <2>2, <2>4, <2>5
<1> QED BY <1>1, <1>2, <1>3 DEF NextPhase

\* The next part of the request, the layer as it is. A handler that a bailout has left
\* counts as running.
LEMMA PhaseFlow ==
    ASSUME OutputInv, OutputInv', Flowing, phase \in Phases \ {"off", "undefined"}, NextPhase,
           UNCHANGED <<h, handlers, active, running>>,
           calls = <<>> \/ running # 0
    PROVE  Flowing' /\ Kept
<1>1. phase' # phase /\ (\A f \in Calls' : f.do = "all" /\ Carries(f)')
  BY ClearedCarries
<1>2. NoUser(calls')
  BY Cleared
<1>3. Disabled' = Disabled /\ LevelsInv'
  BY DEF Disabled, Flowing, LevelsInv
<1>4. ActiveInv'
  <2>1. CASE running # 0
    BY <1>2, <2>1 DEF ActiveInv
  <2>2. CASE calls = <<>> /\ running = 0
    <3>1. active = NewActive(handlers)
      BY <2>2, OnNone DEF Flowing, ActiveInv, Pushing
    <3> QED BY <3>1 DEF ActiveInv, NewActive
  <2> QED BY <2>1, <2>2
<1>5. Flowing'
  BY <1>1, <1>3, <1>4 DEF Flowing
<1> QED BY <1>1, <1>5, PhaseKept

LEMMA DeactivatedFlow ==
    ASSUME OutputInv, OutputInv', Flowing, phase \in Phases \ {"off", "undefined"}, NextPhase,
           php_output_deactivate
    PROVE  Flowing' /\ Kept
<1>1. phase' # phase /\ (\A f \in Calls' : f.do = "all" /\ Carries(f)')
  BY ClearedCarries
<1>2. handlers' = <<>> /\ active' = 0 /\ Len(<<>>) = 0
  BY DEF php_output_deactivate
<1>3. LevelsInv' /\ ActiveInv'
  BY <1>2 DEF LevelsInv, ActiveInv, NewActive
<1>4. PICK X : h' = Freed(X)
  BY DEF php_output_deactivate
<1>5. ASSUME NEW x \in Disabled' PROVE h'[x].buffer = <<>>
  <2>1. Len(h') = Len(h) /\ DOMAIN h = 1..Len(h)
    BY <1>4, FreedType, Sizes
  <2>2. x \in 1..Len(h) /\ h'[x].disabled /\ h[x] \in HandlerType(written)
    BY <1>5, <2>1, Sizes DEF Disabled
  <2>3. CASE x \in X
    <3>1. h'[x] = [h[x] EXCEPT !.live = FALSE, !.buffer = <<>>]
      BY <1>4, <2>1, <2>2, <2>3 DEF Freed
    <3> QED BY <2>2, <3>1 DEF HandlerType
  <2>4. CASE x \notin X
    <3>1. h'[x] = h[x]
      BY <1>4, <2>1, <2>2, <2>4 DEF Freed
    <3> QED BY <2>2, <3>1 DEF Flowing, Disabled
  <2> QED BY <2>3, <2>4
<1>6. Flowing'
  BY <1>1, <1>3, <1>5 DEF Flowing
<1> QED BY <1>1, <1>6, PhaseKept

\* A bailout out of a user handler, or with an error of php_output_lock_error.
LEMMA BailoutFlow ==
    ASSUME OutputInv, OutputInv', Flowing, phase \in Phases \ {"off", "undefined"},
           NEW l \in BOOLEAN, Bailout(l), l \/ running # 0
    PROVE  Flowing' /\ Kept
<1>1. CASE l \/ phase = "flush"
  BY <1>1, DeactivatedFlow DEF Bailout
<1>2. CASE ~(l \/ phase = "flush")
  BY <1>2, PhaseFlow DEF Bailout
<1> QED BY <1>1, <1>2

LEMMA ExitFlow ==
    ASSUME OutputInv, OutputInv', BracketInv, Flowing, Exit
    PROVE  Flowing' /\ Kept
<1>1. Op /\ Bailout(FALSE) /\ calls # <<>> /\ top.do = "user" /\ CallsInv
  BY DEF Exit, InHandler, BracketInv
<1>2. phase \in Phases \ {"off", "undefined"}
  BY <1>1, OpTypes
<1>3. running # 0
  <2>1. FrameInv(top) /\ top.x \in 1..Len(h)
    BY <1>1, Core, TopCall
  <2> QED BY <1>1, <2>1, Sizes DEF FrameInv
<1> QED BY <1>1, <1>2, <1>3, BailoutFlow

LEMMA LockedFlow ==
    ASSUME OutputInv, OutputInv', Flowing, HandlerLocked
    PROVE  Flowing' /\ Kept
<1>1. Bailout(TRUE) /\ Calling
  BY DEF HandlerLocked, LockError
<1>2. phase \in Phases \ {"off", "undefined"}
  BY <1>1, BufferType DEF OutputInv, DataOK
<1> QED BY <1>1, <1>2, BailoutFlow

LEMMA EndOfPhaseFlow ==
    ASSUME OutputInv, OutputInv', Flowing, EndOfPhase
    PROVE  Flowing' /\ Kept
<1>1. /\ calls = <<>> /\ phase \in Phases \ {"off", "undefined"} /\ NextPhase
      /\ UNCHANGED <<h, handlers, active, running>>
  BY DEF EndOfPhase, Phases
<1> QED BY <1>1, PhaseFlow

LEMMA EndAllFlow ==
    ASSUME OutputInv, OutputInv', Flowing, EndAll
    PROVE  Flowing' /\ Kept
<1>1. CASE Popped /\ Call(PopFrame(active, top.discard))
  BY <1>1, EndAllPopsFlow DEF Popped
<1>2. CASE ~(Popped /\ Call(PopFrame(active, top.discard)))
  <2>1. Doing("all") /\ php_output_deactivate /\ NextPhase
    BY <1>2 DEF EndAll
  <2>2. phase \in Phases \ {"off", "undefined"}
    BY <2>1, DoingTypes
  <2> QED BY <2>1, <2>2, DeactivatedFlow
<1> QED BY <1>1, <1>2

-----------------------------------------------------------------------------
(* Handlers are run *)

\* A call below the innermost one, when a handler is run.
LEMMA BelowCarries ==
    ASSUME NEW g, Carries(g), g.do \in {"op", "flush", "clean", "pop"} => g.st = "wait",
           g.do \notin {"op", "all"} \/ g.st # "none" => h'[g.x].level = h[g.x].level,
           g.do = "user" => ToSet(h[g.x].buffer) \subseteq ToSet(h'[g.x].buffer),
           g.do = "free" => h'[g.x].buffer = h[g.x].buffer,
           UNCHANGED <<handlers, active>>
    PROVE  Carries(g)'
<1>1. g.do = "op" => Passing(g)'
  BY DEF Carries, Passing
<1>2. g.do = "user" => ToSet(g.in) \subseteq ToSet(h'[g.x].buffer)
  BY DEF Carries
<1>3. g.do = "push" => active' # g.x \/ h'[g.x].level = Len(handlers')
  BY DEF Carries
<1> QED BY <1>1, <1>2, <1>3 DEF Carries, Done

\* The handler x is run; none is created, pushed, popped or destroyed.
LEMMA RunFlow ==
    ASSUME OutputInv, Flowing, NEW x \in 1..Len(h), Len(h') = Len(h),
           \A y \in 1..Len(h) : h'[y].level = h[y].level,
           \A y \in 1..Len(h) : y # x => h'[y] = h[y],
           h'[x].disabled => h'[x].buffer = <<>>,
           \A f \in Calls' : Carries(f)',
           \A f \in Calls : f.do = "push" => f \in Calls',
           running # 0 /\ NoUser(calls) => running' # 0 /\ NoUser(calls'),
           UNCHANGED <<handlers, active>>
    PROVE  Flowing'
<1>1. LevelsInv'
  <2> SUFFICES ASSUME NEW i \in 1..Len(handlers) PROVE h'[handlers[i]].level = i - 1
    BY DEF LevelsInv
  <2>1. handlers[i] \in 1..Len(h)
    BY DEF OutputInv, DataOK
  <2> QED BY <2>1 DEF Flowing, LevelsInv
<1>2. ActiveInv'
  <2>1. Pushing(active) => (Pushing(active))'
    BY DEF Pushing, Calls
  <2> QED BY <2>1 DEF Flowing, ActiveInv, NewActive
<1>3. ASSUME NEW y \in Disabled' PROVE h'[y].buffer = <<>>
  <2>1. y \in 1..Len(h) /\ h'[y].disabled
    BY <1>3 DEF Disabled
  <2>2. CASE y = x
    BY <2>1, <2>2
  <2>3. CASE y # x
    BY <2>1, <2>3 DEF Flowing, Disabled
  <2> QED BY <2>2, <2>3
<1> QED BY <1>1, <1>2, <1>3 DEF Flowing

\* What goes in is added to the handler's buffer.
LEMMA BufferJoined ==
    ASSUME OutputInv, BracketInv, Calling
    PROVE  /\ ToSet(h[top.x].buffer \o top.in) = ToSet(h[top.x].buffer) \cup ToSet(top.in)
           /\ h[top.x].buffer = <<>> /\ top.in = <<>> => h[top.x].buffer \o top.in = <<>>
<1>1. top.x \in 1..Len(h) /\ calls # <<>> /\ CallsInv
  BY ToBeRun
<1>2. h[top.x] \in HandlerType(written) /\ top \in Fr
  BY <1>1, Sizes, Core
<1>3. h[top.x].buffer \in Seq(1..written) /\ top.in \in Seq(1..written)
  BY <1>2 DEF HandlerType, Fr, Frames, FrameType
<1>4. PICK s \in Seq(1..written), i \in Seq(1..written) : s = h[top.x].buffer /\ i = top.in
  BY <1>3
<1>5. ToSet(s \o i) = ToSet(s) \cup ToSet(i)
  BY Joined
<1>6. <<>> \o <<>> = <<>>
  OBVIOUS
<1> QED BY <1>4, <1>5, <1>6

LEMMA StoresFlow ==
    ASSUME OutputInv, OutputInv', BracketInv, Flowing, HandlerStores
    PROVE  Flowing' /\ Kept
<1>0. Calling /\ top.op = {} /\ UNCHANGED <<handlers, active, running>>
  BY DEF HandlerStores
<1>1. /\ calls # <<>> /\ CallsInv /\ top.st = "call" /\ FrameInv(top) /\ top.x \in 1..Len(h)
      /\ \A g \in Calls : g.do = "free" => g.x # top.x
  BY <1>0, ToBeRun
<1>2. top.do = "op" /\ top \in Fr
  BY <1>0, <1>1, TopCall DEF FrameInv
<1>3. PICK x \in 1..Len(h) : x = top.x
  BY <1>1
<1>4. PICK f : f = [top EXCEPT !.in = <<>>, !.st = "nodata"]
  OBVIOUS
<1>5. f.do = "op" /\ f.st = "nodata" /\ f.n = top.n /\ f.x = x /\ f.in = <<>> /\ f.out = top.out
  BY <1>2, <1>3, <1>4 DEF Fr, Frames, FrameType
<1>6. PICK buf : buf = h[x].buffer \o top.in
  OBVIOUS
<1>7. h' = [h EXCEPT ![x].buffer = buf] /\ calls' = <<f>> \o rest
  BY <1>3, <1>4, <1>6 DEF HandlerStores
<1>8. ToSet(buf) = ToSet(h[x].buffer) \cup ToSet(top.in)
  BY <1>0, <1>3, <1>6, BufferJoined
<1>9. /\ Len(h') = Len(h)
      /\ \A y \in 1..Len(h) : y # x => h'[y] = h[y]
      /\ \A y \in 1..Len(h) : h'[y].level = h[y].level
      /\ h'[x].buffer = buf /\ h'[x].disabled = h[x].disabled
  <2>1. h \in Seq(HandlerType(written)) /\ DOMAIN h = 1..Len(h)
    BY Sizes DEF OutputInv, DataOK
  <2>2. Len(h') = Len(h)
    BY <1>7, <2>1
  <2>3. \A y \in 1..Len(h) : y # x => h'[y] = h[y]
    BY <1>7, <2>1
  <2>4. h'[x] = [h[x] EXCEPT !.buffer = buf] /\ h[x] \in HandlerType(written)
    BY <1>7, <2>1
  <2>5. h'[x].buffer = buf /\ h'[x].disabled = h[x].disabled /\ h'[x].level = h[x].level
    BY <2>4 DEF HandlerType
  <2> QED BY <2>2, <2>3, <2>5
<1>10. /\ rest \in Seq(Fr) /\ Calls = {top} \cup Below
       /\ \A g \in Below : g.do \in {"op", "flush", "clean", "pop"} => g.st = "wait"
       /\ \A g \in Calls : g.do \notin {"op", "all"} \/ g.st # "none" => g.x \in 1..Len(h)
  BY <1>1, Core
<1>11. Calls' = {f} \cup Below
  <2>1. PICK F : rest \in Seq(F) /\ f \in F
    <3>1. rest \in Seq(Fr \cup {f})
      BY <1>10, SeqMonotonic
    <3> QED BY <3>1
  <2> QED BY <1>7, <2>1, OnPushed DEF Calls, Below
<1>12. Passing(top) /\ top.out = <<>> /\ Carries(top)
  BY <1>1, <1>2, <1>10 DEF Flowing, Carries
<1>13. h[x].level = top.n - 1 /\ x \notin Disabled
  BY <1>1, <1>3, <1>12 DEF Passing
<1>14. Carries(f)'
  <2>1. Passing(f)'
    BY <1>5, <1>9, <1>13 DEF Passing
  <2> QED BY <1>5, <1>12, <2>1 DEF Carries
<1>15. ASSUME NEW g \in Below PROVE Carries(g)'
  <2>1. /\ Carries(g) /\ (g.do \in {"op", "flush", "clean", "pop"} => g.st = "wait")
        /\ g.do \notin {"op", "all"} \/ g.st # "none" => g.x \in 1..Len(h)
        /\ g.do = "free" => g.x # x
    BY <1>1, <1>3, <1>10 DEF Flowing
  <2>2. g.do \notin {"op", "all"} \/ g.st # "none" => h'[g.x].level = h[g.x].level
    BY <1>9, <2>1
  <2>3. g.do = "user" => ToSet(h[g.x].buffer) \subseteq ToSet(h'[g.x].buffer)
    BY <1>8, <1>9, <2>1
  <2>4. g.do = "free" => h'[g.x].buffer = h[g.x].buffer
    BY <1>9, <2>1
  <2> QED BY <1>0, <2>1, <2>2, <2>3, <2>4, BelowCarries
<1>16. Flowing'
  <2>1. \A g \in Calls' : Carries(g)'
    BY <1>11, <1>14, <1>15
  <2>2. \A g \in Calls : g.do = "push" => g \in Calls'
    BY <1>2, <1>10, <1>11
  <2>3. NoUser(calls) => NoUser(calls')
    BY <1>5, <1>10, <1>11, OnCalls, OnCallsNext
  <2>4. h'[x].disabled => h'[x].buffer = <<>>
    BY <1>9, <1>13 DEF Disabled
  <2> QED BY <1>0, <1>9, <2>1, <2>2, <2>3, <2>4, RunFlow
<1>17. Kept
  <2>1. \A t \in ToSet(h[x].buffer) \cup ToSet(top.in) : Accounted(t)
    <3>1. x \in 1..Len(h') /\ h'[x].buffer = buf
      BY <1>9
    <3> QED BY <1>8, <3>1, StillHeld
  <2>2. \A y \in 1..Len(h) : \A t \in ToSet(h[y].buffer) : Accounted(t)
    <3> SUFFICES ASSUME NEW y \in 1..Len(h) PROVE \A t \in ToSet(h[y].buffer) : Accounted(t)
      OBVIOUS
    <3>1. CASE y = x
      BY <2>1, <3>1
    <3>2. CASE y # x
      BY <1>9, <3>2, StillHeld
    <3> QED BY <3>1, <3>2
  <2>3. \A g \in Calls : g \in Calls' \/ \A t \in ToSet(g.in) \cup ToSet(g.out) : Accounted(t)
    BY <1>10, <1>11, <1>12, <2>1, OnNone
  <2> QED BY <2>2, <2>3, KeptStep
<1> QED BY <1>16, <1>17

LEMMA CalledFlow ==
    ASSUME OutputInv, OutputInv', BracketInv, Flowing, HandlerCalled
    PROVE  Flowing' /\ Kept
<1>0. /\ Calling /\ ~Locked(top.op)
      /\ top.op # {} \/ Full(top.x, top.in, h[top.x].buffer \o top.in)
      /\ UNCHANGED <<handlers, active>>
  BY DEF HandlerCalled
<1>1. /\ calls # <<>> /\ CallsInv /\ top.st = "call" /\ FrameInv(top) /\ top.x \in 1..Len(h)
      /\ \A g \in Calls : g.do = "free" => g.x # top.x
  BY <1>0, ToBeRun
<1>2. PICK x \in 1..Len(h) : x = top.x
  BY <1>1
<1>3. /\ running = 0 /\ (\A g \in Calls : g.do # "user")
      /\ \A g \in Below : g.do \in {"push", "free", "all"}
      /\ top.do \in {"op", "flush", "clean", "pop"}
  <2>1. PICK buf : buf = h[top.x].buffer \o top.in
    OBVIOUS
  <2>2. top.op # {} \/ Full(top.x, top.in, buf)
    BY <1>0, <2>1
  <2> QED BY <1>0, <2>2, ReadyToRun
<1>4. PICK buf : buf = h[x].buffer \o top.in
  OBVIOUS
<1>5. PICK op : op = IF h[x].started THEN top.op ELSE top.op \cup {"start"}
  OBVIOUS
<1>6. PICK u : u = [Frame("user", x) EXCEPT !.op = op, !.in = buf, !.life = h[x].life]
  OBVIOUS
<1>7. PICK f : f = [top EXCEPT !.in = <<>>, !.st = "wait"]
  OBVIOUS
<1>8. /\ h' = [h EXCEPT ![x].buffer = buf, ![x].life = Lived(op)]
      /\ calls' = <<u, f>> \o rest
  BY <1>2, <1>4, <1>5, <1>6, <1>7 DEF HandlerCalled
<1>9. top \in Fr /\ top \in Calls
  BY <1>1, Core
<1>10. u.do = "user" /\ u.st = "none" /\ u.x = x /\ u.in = buf /\ u.out = <<>>
  BY <1>6 DEF Frame
<1>11. /\ f.do = top.do /\ f.st = "wait" /\ f.x = x /\ f.n = top.n /\ f.in = <<>>
       /\ f.out = top.out /\ f.discard = top.discard
  BY <1>2, <1>7, <1>9 DEF Fr, Frames, FrameType
<1>12. /\ Len(h') = Len(h)
       /\ \A y \in 1..Len(h) : y # x => h'[y] = h[y]
       /\ \A y \in 1..Len(h) : h'[y].level = h[y].level
       /\ h'[x].buffer = buf /\ h'[x].disabled = h[x].disabled
  <2>1. h \in Seq(HandlerType(written)) /\ DOMAIN h = 1..Len(h)
    BY Sizes DEF OutputInv, DataOK
  <2>2. h[x] \in HandlerType(written)
    BY Sizes
  <2>3. Len(h') = Len(h)
    BY <1>8, <2>1
  <2>4. \A y \in 1..Len(h) : y # x => h'[y] = h[y]
    BY <1>8, <2>1
  <2>5. h'[x] = [h[x] EXCEPT !.buffer = buf, !.life = Lived(op)]
    BY <1>8, <2>1, <2>2 DEF HandlerType
  <2>6. h'[x].level = h[x].level /\ h'[x].buffer = buf /\ h'[x].disabled = h[x].disabled
    BY <2>2, <2>5 DEF HandlerType
  <2> QED BY <2>3, <2>4, <2>6
<1>13. /\ rest \in Seq(Fr) /\ Calls = {top} \cup Below
       /\ \A g \in Calls : g.do \notin {"op", "all"} \/ g.st # "none" => g.x \in 1..Len(h)
  BY <1>1, Core
<1>14. Calls' = {u, f} \cup Below
  <2>1. PICK F : rest \in Seq(F) /\ u \in F /\ f \in F
    <3>1. rest \in Seq(Fr \cup {u, f})
      BY <1>13, SeqMonotonic
    <3> QED BY <3>1
  <2>2. PICK s \in Seq(F) : s = <<f>> \o rest
    BY <2>1, Pushed
  <2>3. calls' = <<u>> \o s
    BY <1>8, <2>1, <2>2, PushedTwo
  <2>4. ToSet(s) = {f} \cup Below
    BY <2>1, <2>2, OnPushed DEF Below
  <2>5. Calls' = {u} \cup ToSet(s)
    BY <2>1, <2>3, OnPushed DEF Calls
  <2> QED BY <2>4, <2>5
<1>15. ToSet(buf) = ToSet(h[x].buffer) \cup ToSet(top.in)
  BY <1>0, <1>2, <1>4, BufferJoined
<1>16. Carries(top) /\ top.out = <<>>
  BY <1>1, <1>9 DEF Flowing, Carries
<1>17. Carries(u)'
  BY <1>10, <1>12 DEF Carries
<1>18. Carries(f)'
  <2>1. f.do = "op" => Passing(f)'
    BY <1>1, <1>2, <1>11, <1>12, <1>16 DEF Carries, Passing
  <2> QED BY <1>3, <1>11, <1>16, <2>1 DEF Carries, Done
<1>19. ASSUME NEW g \in Below PROVE Carries(g)'
  <2>1. /\ Carries(g) /\ g.do \in {"push", "free", "all"}
        /\ g.do \notin {"op", "all"} \/ g.st # "none" => g.x \in 1..Len(h)
        /\ g.do = "free" => g.x # x
    BY <1>1, <1>2, <1>3, <1>13 DEF Flowing
  <2>2. g.do \notin {"op", "all"} \/ g.st # "none" => h'[g.x].level = h[g.x].level
    BY <1>12, <2>1
  <2>3. g.do = "free" => h'[g.x].buffer = h[g.x].buffer
    BY <1>12, <2>1
  <2>4. /\ g.do \in {"op", "flush", "clean", "pop"} => g.st = "wait"
        /\ g.do = "user" => ToSet(h[g.x].buffer) \subseteq ToSet(h'[g.x].buffer)
    BY <2>1
  <2> QED BY <1>0, <2>1, <2>2, <2>3, <2>4, BelowCarries
<1>20. Flowing'
  <2>1. \A g \in Calls' : Carries(g)'
    BY <1>14, <1>17, <1>18, <1>19
  <2>2. \A g \in Calls : g.do = "push" => g \in Calls'
    BY <1>3, <1>13, <1>14
  <2>3. h'[x].disabled => h'[x].buffer = <<>>
    <3>1. ASSUME h[x].disabled PROVE buf = <<>>
      <4>1. x \in Disabled /\ h[x].buffer = <<>>
        BY <3>1 DEF Flowing, Disabled
      <4>2. top.in = <<>>
        BY <1>1, <1>2, <1>3, <1>16, <4>1 DEF Carries, Passing
      <4> QED BY <1>0, <1>2, <1>4, <4>1, <4>2, BufferJoined
    <3> QED BY <1>12, <3>1
  <2> QED BY <1>0, <1>3, <1>12, <2>1, <2>2, <2>3, RunFlow
<1>21. Kept
  <2>1. \A t \in ToSet(h[x].buffer) \cup ToSet(top.in) : Accounted(t)
    <3>1. u \in Calls' /\ u.in = buf
      BY <1>10, <1>14
    <3> QED BY <1>15, <3>1, StillHeld
  <2>2. \A y \in 1..Len(h) : \A t \in ToSet(h[y].buffer) : Accounted(t)
    <3> SUFFICES ASSUME NEW y \in 1..Len(h) PROVE \A t \in ToSet(h[y].buffer) : Accounted(t)
      OBVIOUS
    <3>1. CASE y = x
      BY <2>1, <3>1
    <3>2. CASE y # x
      BY <1>12, <3>2, StillHeld
    <3> QED BY <3>1, <3>2
  <2>3. \A g \in Calls : g \in Calls' \/ \A t \in ToSet(g.in) \cup ToSet(g.out) : Accounted(t)
    BY <1>13, <1>14, <1>16, <2>1, OnNone
  <2> QED BY <2>2, <2>3, KeptStep
<1> QED BY <1>20, <1>21

LEMMA InternalFlow ==
    ASSUME OutputInv, OutputInv', BracketInv, Flowing, HandlerInternal
    PROVE  Flowing' /\ Kept
<1>0. /\ Calling /\ ~Locked(top.op) /\ running' = 0
      /\ top.op # {} \/ Full(top.x, top.in, h[top.x].buffer \o top.in)
      /\ UNCHANGED <<handlers, active>>
  BY DEF HandlerInternal
<1>1. /\ calls # <<>> /\ CallsInv /\ top.st = "call" /\ FrameInv(top) /\ top.x \in 1..Len(h)
      /\ \A g \in Calls : g.do = "free" => g.x # top.x
  BY <1>0, ToBeRun
<1>2. PICK x \in 1..Len(h) : x = top.x
  BY <1>1
<1>3. /\ running = 0 /\ (\A g \in Calls : g.do # "user")
      /\ \A g \in Below : g.do \in {"push", "free", "all"}
      /\ top.do \in {"op", "flush", "clean", "pop"}
  <2>1. PICK buf : buf = h[top.x].buffer \o top.in
    OBVIOUS
  <2>2. top.op # {} \/ Full(top.x, top.in, buf)
    BY <1>0, <2>1
  <2> QED BY <1>0, <2>2, ReadyToRun
<1>4. PICK buf : buf = h[x].buffer \o top.in
  OBVIOUS
<1>5. PICK op : op = IF h[x].started THEN top.op ELSE top.op \cup {"start"}
  OBVIOUS
<1>6. PICK status \in {"nodata", "success"} :
         status = IF buf = <<>> THEN "nodata" ELSE "success"
  OBVIOUS
<1>7. PICK e : e = [Result(h[x], status) EXCEPT !.life = Lived(op)]
  OBVIOUS
<1>8. PICK f : f = [top EXCEPT !.in = <<>>, !.out = buf, !.st = status]
  OBVIOUS
<1>9. h' = [h EXCEPT ![x] = e] /\ calls' = <<f>> \o rest
  BY <1>2, <1>4, <1>5, <1>6, <1>7, <1>8 DEF HandlerInternal
<1>10. top \in Fr /\ top \in Calls
  BY <1>1, Core
<1>11. /\ f.do = top.do /\ f.st = status /\ f.x = x /\ f.n = top.n /\ f.in = <<>>
       /\ f.out = buf /\ f.discard = top.discard
  BY <1>2, <1>8, <1>10 DEF Fr, Frames, FrameType
<1>12. /\ Len(h') = Len(h)
       /\ \A y \in 1..Len(h) : y # x => h'[y] = h[y]
       /\ \A y \in 1..Len(h) : h'[y].level = h[y].level
       /\ h'[x].buffer = <<>>
  <2>1. h \in Seq(HandlerType(written)) /\ DOMAIN h = 1..Len(h)
    BY Sizes DEF OutputInv, DataOK
  <2>2. h[x] \in HandlerType(written)
    BY Sizes
  <2>3. Len(h') = Len(h)
    BY <1>9, <2>1
  <2>4. \A y \in 1..Len(h) : y # x => h'[y] = h[y]
    BY <1>9, <2>1
  <2>5. h'[x] = e
    BY <1>9, <2>1
  <2>6. e.level = h[x].level /\ e.buffer = <<>>
    BY <1>7, <2>2 DEF HandlerType, Result
  <2> QED BY <2>3, <2>4, <2>5, <2>6
<1>13. /\ rest \in Seq(Fr) /\ Calls = {top} \cup Below
       /\ \A g \in Calls : g.do \notin {"op", "all"} \/ g.st # "none" => g.x \in 1..Len(h)
  BY <1>1, Core
<1>14. Calls' = {f} \cup Below
  <2>1. PICK F : rest \in Seq(F) /\ f \in F
    <3>1. rest \in Seq(Fr \cup {f})
      BY <1>13, SeqMonotonic
    <3> QED BY <3>1
  <2> QED BY <1>9, <2>1, OnPushed DEF Calls, Below
<1>15. ToSet(buf) = ToSet(h[x].buffer) \cup ToSet(top.in)
  BY <1>0, <1>2, <1>4, BufferJoined
<1>16. Carries(top) /\ top.out = <<>>
  BY <1>1, <1>10 DEF Flowing, Carries
<1>17. Carries(f)'
  <2>1. f.do = "op" => Passing(f)'
    BY <1>1, <1>2, <1>6, <1>11, <1>12, <1>16 DEF Carries, Passing
  <2>2. f.do = "clean" => f.discard
    BY <1>11, <1>16 DEF Carries
  <2> QED BY <1>0, <1>3, <1>6, <1>11, <1>12, <2>1, <2>2 DEF Carries
<1>18. ASSUME NEW g \in Below PROVE Carries(g)'
  <2>1. /\ Carries(g) /\ g.do \in {"push", "free", "all"}
        /\ g.do \notin {"op", "all"} \/ g.st # "none" => g.x \in 1..Len(h)
        /\ g.do = "free" => g.x # x
    BY <1>1, <1>2, <1>3, <1>13 DEF Flowing
  <2>2. g.do \notin {"op", "all"} \/ g.st # "none" => h'[g.x].level = h[g.x].level
    BY <1>12, <2>1
  <2>3. g.do = "free" => h'[g.x].buffer = h[g.x].buffer
    BY <1>12, <2>1
  <2>4. /\ g.do \in {"op", "flush", "clean", "pop"} => g.st = "wait"
        /\ g.do = "user" => ToSet(h[g.x].buffer) \subseteq ToSet(h'[g.x].buffer)
    BY <2>1
  <2> QED BY <1>0, <2>1, <2>2, <2>3, <2>4, BelowCarries
<1>19. Flowing'
  <2>1. \A g \in Calls' : Carries(g)'
    BY <1>14, <1>17, <1>18
  <2>2. \A g \in Calls : g.do = "push" => g \in Calls'
    BY <1>3, <1>13, <1>14
  <2> QED BY <1>0, <1>3, <1>12, <2>1, <2>2, RunFlow
<1>20. Kept
  <2>1. \A t \in ToSet(h[x].buffer) \cup ToSet(top.in) : Accounted(t)
    <3>1. f \in Calls' /\ f.out = buf
      BY <1>11, <1>14
    <3> QED BY <1>15, <3>1, StillHeld
  <2>2. \A y \in 1..Len(h) : \A t \in ToSet(h[y].buffer) : Accounted(t)
    <3> SUFFICES ASSUME NEW y \in 1..Len(h) PROVE \A t \in ToSet(h[y].buffer) : Accounted(t)
      OBVIOUS
    <3>1. CASE y = x
      BY <2>1, <3>1
    <3>2. CASE y # x
      BY <1>12, <3>2, StillHeld
    <3> QED BY <3>1, <3>2
  <2>3. \A g \in Calls : g \in Calls' \/ \A t \in ToSet(g.in) \cup ToSet(g.out) : Accounted(t)
    BY <1>13, <1>14, <1>16, <2>1, OnNone
  <2> QED BY <2>2, <2>3, KeptStep
<1> QED BY <1>19, <1>20

\* What a user handler was given or wrote itself is passed along if it fails; what it
\* keeps or replaces is its own matter.
LEMMA ReturnedFlow ==
    ASSUME OutputInv, OutputInv', BracketInv, Flowing,
           NEW status \in {"success", "nodata", "failure"}, Return(status)
    PROVE  Flowing' /\ Kept
<1>0. /\ InHandler /\ calls # <<>> /\ top.do = "user" /\ CallsInv
      /\ UNCHANGED <<handlers, active>> /\ running' = 0
  BY DEF Return, InHandler, BracketInv
<1>1. /\ rest # <<>> /\ Head(rest) \in Fr /\ Head(rest) = calls[2] /\ Head(rest).st = "wait"
      /\ Head(rest).do \in {"op", "flush", "clean", "pop"} /\ Head(rest).x = top.x
      /\ Tail(rest) \in Seq(Fr)
      /\ Calls = {top, Head(rest)} \cup ToSet(Tail(rest))
      /\ \A k \in ToSet(Tail(rest)) : k.do \in {"push", "free", "all"}
  BY <1>0, BelowUser
<1>2. PICK g \in Fr : g = Head(rest)
  BY <1>1
<1>3. PICK t \in Seq(Fr) : t = Tail(rest)
  BY <1>1
<1>4. \A k \in Calls : k.do \notin {"op", "all"} \/ k.st # "none" => k.x \in 1..Len(h)
  BY <1>0, Core
<1>5. top.x \in 1..Len(h)
  BY <1>0, <1>1, <1>4
<1>6. PICK x \in 1..Len(h) : x = top.x
  BY <1>5
<1>7. Carries(top) /\ Carries(g)
  BY <1>1, <1>2 DEF Flowing
<1>8. /\ top.out = <<>> /\ ToSet(top.in) \subseteq ToSet(h[x].buffer)
      /\ g.in = <<>> /\ g.out = <<>> /\ g.x = x
  <2>1. top.out = <<>> /\ ToSet(top.in) \subseteq ToSet(h[x].buffer)
    BY <1>0, <1>6, <1>7 DEF Carries
  <2>2. g.in = <<>> /\ g.out = <<>>
    BY <1>1, <1>2, <1>7 DEF Carries, Passing
  <2> QED BY <1>1, <1>2, <1>6, <2>1, <2>2
<1>9. PICK e : e = Result(h[x], status)
  OBVIOUS
<1>10. PICK o : o = Out(h[x], status, top.in)
  OBVIOUS
<1>11. PICK f : f = [g EXCEPT !.out = o, !.st = status]
  OBVIOUS
<1>12. h' = [h EXCEPT ![x] = e] /\ calls' = <<f>> \o t
  BY <1>1, <1>2, <1>3, <1>6, <1>9, <1>10, <1>11 DEF Return
<1>13. /\ f.do = g.do /\ f.st = status /\ f.x = x /\ f.n = g.n /\ f.in = g.in
       /\ f.out = o /\ f.discard = g.discard
  BY <1>8, <1>11 DEF Fr, Frames, FrameType
<1>14. /\ Len(h') = Len(h)
       /\ \A y \in 1..Len(h) : y # x => h'[y] = h[y]
       /\ \A y \in 1..Len(h) : h'[y].level = h[y].level
       /\ h'[x].buffer = <<>>
  <2>1. h \in Seq(HandlerType(written)) /\ DOMAIN h = 1..Len(h)
    BY Sizes DEF OutputInv, DataOK
  <2>2. h[x] \in HandlerType(written)
    BY Sizes
  <2>3. Len(h') = Len(h)
    BY <1>12, <2>1
  <2>4. \A y \in 1..Len(h) : y # x => h'[y] = h[y]
    BY <1>12, <2>1
  <2>5. h'[x] = e
    BY <1>12, <2>1
  <2>6. e.level = h[x].level /\ e.buffer = <<>>
    BY <1>9, <2>2 DEF HandlerType, Result
  <2> QED BY <2>3, <2>4, <2>5, <2>6
<1>15. Calls' = {f} \cup ToSet(t) /\ calls' # <<>> /\ Head(calls') = f
  <2>1. PICK F : t \in Seq(F) /\ f \in F
    <3>1. t \in Seq(Fr \cup {f})
      BY SeqMonotonic
    <3> QED BY <3>1
  <2> QED BY <1>12, <2>1, OnPushed, Pushed DEF Calls
<1>16. Carries(f)'
  <2>1. f.do = "op" => Passing(f)'
    BY <1>1, <1>2, <1>7, <1>8, <1>13, <1>14 DEF Carries, Passing
  <2>2. f.do = "clean" => f.discard
    BY <1>7, <1>13 DEF Carries
  <2>3. f.do \in {"op", "flush", "clean", "pop"} /\ f.st \notin {"call", "wait"} /\ f.in = <<>>
    BY <1>1, <1>2, <1>8, <1>13
  <2> QED BY <1>0, <1>13, <1>14, <2>1, <2>2, <2>3 DEF Carries
<1>17. ASSUME NEW k \in ToSet(t) PROVE Carries(k)'
  <2>1. /\ Carries(k) /\ k.do \in {"push", "free", "all"}
        /\ k.do \notin {"op", "all"} \/ k.st # "none" => k.x \in 1..Len(h)
    BY <1>1, <1>3, <1>4 DEF Flowing
  <2>2. k.do \notin {"op", "all"} \/ k.st # "none" => h'[k.x].level = h[k.x].level
    BY <1>14, <2>1
  <2>3. k.do = "free" => h[k.x].buffer = <<>>
    BY <2>1 DEF Carries
  <2>4. k.do = "free" => h'[k.x].buffer = h[k.x].buffer
    BY <1>14, <2>1, <2>3
  <2>5. /\ k.do \in {"op", "flush", "clean", "pop"} => k.st = "wait"
        /\ k.do = "user" => ToSet(h[k.x].buffer) \subseteq ToSet(h'[k.x].buffer)
    BY <2>1
  <2> QED BY <1>0, <2>1, <2>2, <2>4, <2>5, BelowCarries
<1>18. Flowing'
  <2>1. \A k \in Calls' : Carries(k)'
    BY <1>15, <1>16, <1>17
  <2>2. \A k \in Calls : k.do = "push" => k \in Calls'
    BY <1>0, <1>1, <1>2, <1>3, <1>15
  <2>3. ~NoUser(calls)
    BY <1>0, <1>1, OnCalls
  <2> QED BY <1>0, <1>14, <2>1, <2>2, <2>3, RunFlow
<1>19. Kept
  <2>1. \A b \in ToSet(h[x].buffer) : Accounted(b)
    <3>1. \A b \in ToSet(o) : Accounted(b)
      BY <1>13, <1>15, StillHeld
    <3>2. CASE status = "failure"
      BY <1>10, <3>1, <3>2 DEF Out
    <3>3. CASE status = "success"
      <4>1. o = top.in
        BY <1>10, <3>3 DEF Out
      <4>2. \A b : b \notin ToSet(top.in) => Accounted(b)
        BY <1>0, <1>13, <1>15, <3>3 DEF Accounted
      <4> QED BY <3>1, <4>1, <4>2
    <3>4. CASE status = "nodata"
      BY <1>0, <1>13, <1>15, <3>4 DEF Accounted
    <3> QED BY <3>2, <3>3, <3>4
  <2>2. \A y \in 1..Len(h) : \A b \in ToSet(h[y].buffer) : Accounted(b)
    <3> SUFFICES ASSUME NEW y \in 1..Len(h) PROVE \A b \in ToSet(h[y].buffer) : Accounted(b)
      OBVIOUS
    <3>1. CASE y = x
      BY <2>1, <3>1
    <3>2. CASE y # x
      BY <1>14, <3>2, StillHeld
    <3> QED BY <3>1, <3>2
  <2>3. \A k \in Calls : k \in Calls' \/ \A b \in ToSet(k.in) \cup ToSet(k.out) : Accounted(b)
    BY <1>1, <1>2, <1>3, <1>8, <1>15, <2>1, OnNone
  <2> QED BY <2>2, <2>3, KeptStep
<1> QED BY <1>18, <1>19

-----------------------------------------------------------------------------
(* Handlers are created, pushed, popped and destroyed *)

LEMMA UndefinedFlow ==
    ASSUME phase # "undefined", Undefined
    PROVE  FlowInv' /\ Kept
BY PhaseKept DEF Undefined, FlowInv, Exempt

\* Buffers on the stack, one more on top of it.
LEMMA LevelsPushed ==
    ASSUME OutputInv, LevelsInv, NEW x, handlers' = Append(handlers, x),
           \A y \in 1..Len(h) : h'[y].level = h[y].level,
           h'[x].level = Len(handlers)
    PROVE  LevelsInv' /\ NewActive(handlers') = x
<1>1. handlers \in Seq(1..Len(h)) /\ Len(handlers) \in Nat
  BY DEF OutputInv, DataOK
<1>2. /\ Len(handlers') = Len(handlers) + 1 /\ handlers' # <<>> /\ Last(handlers') = x
      /\ \A i \in 1..Len(handlers) : handlers'[i] = handlers[i]
      /\ handlers'[Len(handlers) + 1] = x
  BY <1>1, HandlerPushed
<1>3. ASSUME NEW i \in 1..Len(handlers') PROVE h'[handlers'[i]].level = i - 1
  <2>1. CASE i \in 1..Len(handlers)
    <3>1. handlers[i] \in 1..Len(h)
      BY <1>1, <2>1
    <3> QED BY <1>2, <2>1, <3>1 DEF LevelsInv
  <2>2. CASE i = Len(handlers) + 1
    <3>1. i - 1 = Len(handlers)
      BY <1>1, <2>2
    <3> QED BY <1>2, <2>2, <3>1
  <2> QED BY <1>1, <1>2, <2>1, <2>2
<1> QED BY <1>2, <1>3 DEF LevelsInv, NewActive

LEMMA StartFlow ==
    ASSUME OutputInv, OutputInv', Flowing, NEW k \in Kinds, ObStart(k)
    PROVE  FlowInv' /\ Kept
<1>1. phase \in Phases \ {"off", "undefined"}
  BY OpTypes DEF ObStart
<1>2. CASE LockError
  BY <1>1, <1>2, BailoutFlow DEF LockError, FlowInv
<1>3. CASE Undefined
  BY <1>1, <1>3, UndefinedFlow
<1>4. CASE /\ h' = Append(h, [user |-> k.user, size |-> k.size, can |-> k.can,
                              started |-> FALSE, disabled |-> FALSE,
                              level |-> Len(handlers), buffer |-> <<>>,
                              live |-> TRUE, life |-> "new"])
           /\ handlers' = Append(handlers, Len(h'))
           /\ active' = Len(h')
           /\ UNCHANGED <<running, calls>>
  <2>1. PICK e : e = [user |-> k.user, size |-> k.size, can |-> k.can,
                      started |-> FALSE, disabled |-> FALSE,
                      level |-> Len(handlers), buffer |-> <<>>,
                      live |-> TRUE, life |-> "new"]
    OBVIOUS
  <2>2. e.disabled = FALSE /\ e.level = Len(handlers)
    BY <2>1
  <2>3. PICK x : x = Len(h')
    OBVIOUS
  <2>4. /\ x \notin 1..Len(h) /\ h'[x] = e
        /\ \A y \in 1..Len(h') : y \in 1..Len(h) \/ y = x
        /\ \A y \in 1..Len(h) : h'[y] = h[y] /\ y \in 1..Len(h')
    <3>1. h' = Append(h, e) /\ h \in Seq(HandlerType(written) \cup {e}) /\ Len(h) \in Nat
      <4>1. h \in Seq(HandlerType(written)) /\ Len(h) \in Nat
        BY Sizes DEF OutputInv, DataOK
      <4> QED BY <1>4, <2>1, <4>1, SeqMonotonic
    <3>2. /\ Len(h') = Len(h) + 1 /\ \A y \in 1..Len(h) : h'[y] = h[y]
          /\ h'[Len(h) + 1] = e
      BY <3>1
    <3> QED BY <2>3, <3>1, <3>2
  <2>5. Disabled' = Disabled
    <3>1. \A y \in 1..Len(h') : h'[y].disabled <=> (y \in 1..Len(h) /\ h[y].disabled)
      BY <2>2, <2>4
    <3> QED BY <2>4, <3>1 DEF Disabled
  <2>6. LevelsInv' /\ ActiveInv'
    <3>1. handlers' = Append(handlers, x) /\ active' = x
      BY <1>4, <2>3
    <3>2. h'[x].level = Len(handlers) /\ \A y \in 1..Len(h) : h'[y].level = h[y].level
      BY <2>2, <2>4
    <3>3. LevelsInv' /\ NewActive(handlers') = x
      BY <3>1, <3>2, LevelsPushed DEF Flowing
    <3> QED BY <3>1, <3>3 DEF ActiveInv
  <2>7. Calls' = Calls
    BY <1>4 DEF Calls
  <2>8. ASSUME NEW g \in Calls PROVE Carries(g)'
    <3>1. g \in Fr /\ Carries(g)
      BY OnCalls DEF Flowing
    <3>2. g.do \notin {"op", "all"} \/ g.st # "none" => g.x \in 1..Len(h)
      BY <3>1, Sizes DEF Fr, Frames, FrameType, FrameOK
    <3>3. g.do = "op" => Passing(g)'
      BY <2>4, <2>5, <3>1, <3>2 DEF Carries, Passing
    <3>4. g.do \notin {"op", "all"} => h'[g.x] = h[g.x] /\ active' # g.x
      BY <1>4, <2>3, <2>4, <3>2
    <3> QED BY <1>4, <3>1, <3>3, <3>4 DEF Carries, Done
  <2>9. \A y \in Disabled' : h'[y].buffer = <<>>
    BY <2>4, <2>5 DEF Flowing, Disabled
  <2>10. Flowing'
    BY <2>6, <2>7, <2>8, <2>9 DEF Flowing
  <2>11. Kept
    <3>1. \A y \in 1..Len(h) : \A t \in ToSet(h[y].buffer) : Accounted(t)
      BY <2>4, StillHeld
    <3>2. \A g \in Calls : g \in Calls'
      BY <2>7
    <3> QED BY <3>1, <3>2, KeptStep
  <2> QED BY <2>10, <2>11 DEF FlowInv
<1> QED BY <1>2, <1>3, <1>4 DEF ObStart

\* php_output_flush takes the active handler off the stack, to which it returns at the
\* same level.
LEMMA FlushWritesFlow ==
    ASSUME OutputInv, OutputInv', BracketInv, Flowing, FlushWrites
    PROVE  Flowing' /\ Kept
<1>0. Doing("flush") /\ CallsInv /\ UNCHANGED <<h, active, running>>
  BY DEF FlushWrites, BracketInv
<1>1. calls # <<>> /\ top.do = "flush" /\ top.st \notin {"call", "wait"}
  BY <1>0, DoingTypes
<1>2. rest = <<>> /\ FrameInv(top) /\ Calls = {top} /\ top.x \in 1..Len(h)
  <2>1. rest = <<>>
    BY <1>0, <1>1, Core DEF Link
  <2> QED BY <1>0, <1>1, <2>1, Core
<1>3. top.in = <<>> /\ running = 0
  BY <1>1, <1>2 DEF Flowing, Carries, Done
<1>4. CASE top.out = <<>>
  <2>1. \A t \in ToSet(top.in) \cup ToSet(top.out) : Accounted(t)
    BY <1>3, <1>4, OnNone
  <2>2. calls' = rest /\ UNCHANGED handlers /\ top.do \in {"op", "flush", "clean"}
    BY <1>1, <1>4 DEF FlushWrites
  <2> QED BY <1>0, <1>1, <2>1, <2>2, ReturnFlow
<1>5. CASE top.out # <<>>
  <2>1. /\ handlers' = DelTop
        /\ calls' = <<OpFrame(DelTop, active, top.out), Frame("push", top.x)>> \o rest
    BY <1>5 DEF FlushWrites
  <2>2. PICK x \in 1..Len(h) : x = top.x
    BY <1>2
  <2>3. active = x /\ x # 0
    BY <1>1, <1>2, <2>2, Sizes DEF FrameInv, Innermost
  <2>4. handlers \in Seq(1..Len(h)) /\ Len(h) \in Nat /\ Distinct(handlers)
    BY Sizes DEF OutputInv, DataOK, BracketInv, StackInv
  <2>5. active = Last(handlers) /\ handlers # <<>>
    <3>1. ~Pushing(active)
      BY <1>1, <1>2 DEF Pushing, Calls
    <3> QED BY <1>3, <2>3, <3>1 DEF Flowing, ActiveInv, NewActive
  <2>6. /\ Len(handlers) \in Nat \ {0} /\ Len(DelTop) = Len(handlers) - 1
        /\ Last(handlers) = handlers[Len(handlers)] /\ DelTop \in Seq(1..Len(h))
        /\ \A i \in 1..Len(DelTop) : i \in 1..Len(handlers) /\ DelTop[i] = handlers[i]
    BY <2>4, <2>5, HandlerPopped
  <2>7. h[x].level = Len(handlers')
    <3>1. Len(handlers) \in 1..Len(handlers)
      BY <2>6
    <3>2. h[handlers[Len(handlers)]].level = Len(handlers) - 1
      BY <3>1 DEF Flowing, LevelsInv
    <3> QED BY <2>1, <2>3, <2>5, <2>6, <3>2
  <2>8. PICK f : f = OpFrame(DelTop, active, top.out)
    OBVIOUS
  <2>9. Carries(f)' /\ ToSet(top.out) \subseteq ToSet(f.in) \cup ToSet(f.out)
    <3>1. PICK hs \in Seq(1..Len(h)) : hs = DelTop
      BY <2>6
    <3>2. Len(hs) \in Nat /\ (hs # <<>> => Len(hs) # 0)
      OBVIOUS
    <3>3. /\ f.do = "op" /\ f.st = "none" /\ Carries(f)
          /\ ToSet(top.out) \subseteq ToSet(f.in) \cup ToSet(f.out)
      BY <2>8, <3>1, <3>2, OpFrameCarries, OpFrameInv
    <3>4. Carries(f)'
      BY <3>3 DEF Carries, Passing
    <3> QED BY <3>3, <3>4
  <2>10. PICK g : g = Frame("push", x)
    OBVIOUS
  <2>11. g.do = "push" /\ g.x = x /\ g.in = <<>> /\ g.out = <<>>
    BY <2>10 DEF Frame
  <2>12. Carries(g)'
    BY <1>0, <2>7, <2>11 DEF Carries
  <2>13. Calls' = {f, g}
    <3>1. calls' = <<f, g>> \o <<>>
      BY <1>2, <2>1, <2>2, <2>8, <2>10
    <3>2. PICK F : f \in F /\ g \in F
      <4>1. f \in {f, g} /\ g \in {f, g}
        OBVIOUS
      <4> QED BY <4>1
    <3>3. <<>> \in Seq(F)
      OBVIOUS
    <3>4. calls' = <<f>> \o (<<g>> \o <<>>)
      BY <3>1, <3>2, <3>3, PushedTwo
    <3>5. PICK s \in Seq(F) : s = <<g>> \o <<>>
      BY <3>2, <3>3, Pushed
    <3>6. ToSet(s) = {g}
      <4>1. PICK e \in Seq(F) : e = <<>>
        BY <3>3
      <4>2. ToSet(<<g>> \o e) = {g} \cup ToSet(e)
        BY <3>2, OnPushed
      <4> QED BY <3>5, <4>1, <4>2, OnNone
    <3>7. Calls' = {f} \cup ToSet(s)
      BY <3>2, <3>4, <3>5, OnPushed DEF Calls
    <3> QED BY <3>6, <3>7
  <2>14. Flowing'
    <3>1. LevelsInv'
      <4> SUFFICES ASSUME NEW i \in 1..Len(DelTop) PROVE h[DelTop[i]].level = i - 1
        BY <1>0, <2>1 DEF LevelsInv
      <4> QED BY <2>6 DEF Flowing, LevelsInv
    <3>2. ActiveInv'
      <4>1. (Pushing(active))'
        BY <1>0, <2>3, <2>11, <2>13 DEF Pushing, Calls
      <4> QED BY <4>1 DEF ActiveInv
    <3>3. Disabled' = Disabled
      BY <1>0 DEF Disabled
    <3> QED BY <1>0, <2>9, <2>12, <2>13, <3>1, <3>2, <3>3 DEF Flowing
  <2>15. Kept
    <3>1. \A t \in ToSet(f.in) \cup ToSet(f.out) : Accounted(t)
      BY <2>13, StillHeld
    <3>2. \A k \in Calls : k \in Calls' \/ \A t \in ToSet(k.in) \cup ToSet(k.out) : Accounted(t)
      BY <1>2, <1>3, <2>9, <3>1, OnNone
    <3> QED BY <1>0, <3>2, QuietKept
  <2> QED BY <2>14, <2>15
<1> QED BY <1>4, <1>5

LEMMA FlushReturnsFlow ==
    ASSUME OutputInv, OutputInv', BracketInv, Flowing, FlushReturns
    PROVE  FlowInv' /\ Kept
<1>0. Doing("push") /\ CallsInv
  BY DEF FlushReturns, BracketInv
<1>1. calls # <<>> /\ top.do = "push" /\ phase # "undefined"
  BY <1>0, DoingTypes
<1>2. rest = <<>> /\ Calls = {top} /\ top.x \in 1..Len(h)
  <2>1. rest = <<>>
    BY <1>0, <1>1, Core DEF Link
  <2> QED BY <1>0, <1>1, <2>1, Core
<1>3. CASE Undefined
  BY <1>1, <1>3, UndefinedFlow
<1>4. CASE /\ active = top.x /\ handlers' = Append(handlers, active) /\ calls' = rest
           /\ UNCHANGED <<h, active, running>>
  <2>1. top.in = <<>> /\ top.out = <<>> /\ h[active].level = Len(handlers)
    BY <1>1, <1>2, <1>4 DEF Flowing, Carries
  <2>2. Calls' = {} /\ Disabled' = Disabled
    BY <1>2, <1>4, OnNone DEF Calls, Disabled
  <2>3. LevelsInv' /\ ActiveInv'
    <3>1. PICK x : x = active
      OBVIOUS
    <3>2. handlers' = Append(handlers, x) /\ h'[x].level = Len(handlers)
      BY <1>4, <2>1, <3>1
    <3>3. LevelsInv' /\ NewActive(handlers') = x
      BY <1>4, <3>2, LevelsPushed DEF Flowing
    <3> QED BY <1>4, <3>1, <3>3 DEF ActiveInv
  <2>4. Flowing'
    BY <1>4, <2>2, <2>3 DEF Flowing
  <2>5. Kept
    <3>1. \A k \in Calls : \A t \in ToSet(k.in) \cup ToSet(k.out) : Accounted(t)
      BY <1>2, <2>1, OnNone
    <3> QED BY <1>4, <3>1, QuietKept
  <2> QED BY <2>4, <2>5 DEF FlowInv
<1> QED BY <1>3, <1>4 DEF FlushReturns

\* php_output_stack_pop: the handler is off the stack and holds nothing; what came out of
\* it is written below, or discarded.
LEMMA PopWritesFlow ==
    ASSUME OutputInv, OutputInv', BracketInv, Flowing, PopWrites
    PROVE  Flowing' /\ Kept
<1>0. /\ Doing("pop") /\ CallsInv
      /\ handlers' = DelTop /\ active' = NewActive(DelTop)
      /\ UNCHANGED <<h, running>>
  BY DEF PopWrites, BracketInv
<1>1. calls # <<>> /\ top.do = "pop" /\ Done(top)
  BY <1>0, DoingTypes DEF Done
<1>2. /\ Calls = {top} \cup Below /\ rest \in Seq(Fr) /\ top.x \in 1..Len(h) /\ top \in Fr
      /\ \A b \in Below : FrameInv(b)
      /\ \A b \in Calls : b.do \notin {"op", "all"} => b.x \in 1..Len(h)
  BY <1>0, <1>1, Core
<1>3. top.discard \in BOOLEAN
  BY <1>2 DEF Fr, Frames, FrameType
<1>4. top.in = <<>> /\ h[top.x].buffer = <<>>
  BY <1>1, <1>2 DEF Flowing, Carries
<1>5. /\ DelTop \in Seq(1..Len(h))
      /\ \A i \in 1..Len(DelTop) : i \in 1..Len(handlers) /\ DelTop[i] = handlers[i]
      /\ NewActive(DelTop) # 0 => NewActive(DelTop) \in ToSet(DelTop)
      /\ ToSet(DelTop) \subseteq ToSet(handlers)
  <2>1. handlers \in Seq(1..Len(h)) /\ Len(h) \in Nat /\ Distinct(handlers)
    BY Sizes DEF OutputInv, DataOK, BracketInv, StackInv
  <2>2. /\ handlers = <<>> => DelTop = <<>>
        /\ handlers # <<>> => ToSet(DelTop) = ToSet(handlers) \ {Last(handlers)}
    BY <2>1, HandlerPopped
  <2>3. ToSet(DelTop) \subseteq ToSet(handlers)
    BY <2>2, OnNone
  <2> QED BY <2>1, <2>3, HandlerPopped
<1>6. PICK g : g = Frame("free", top.x)
  OBVIOUS
<1>7. g.do = "free" /\ g.x = top.x /\ g.in = <<>> /\ g.out = <<>>
  BY <1>6 DEF Frame
<1>8. Carries(g)'
  BY <1>0, <1>4, <1>7 DEF Carries
<1>9. PICK f : f = OpFrame(DelTop, active', top.out)
  OBVIOUS
<1>10. Carries(f)' /\ f.do = "op" /\ ToSet(top.out) \subseteq ToSet(f.in) \cup ToSet(f.out)
  <2>1. PICK hs \in Seq(1..Len(h)) : hs = DelTop
    BY <1>5
  <2>2. Len(hs) \in Nat /\ (hs # <<>> => Len(hs) # 0)
    OBVIOUS
  <2>3. PICK a : a = active'
    OBVIOUS
  <2>4. /\ f.do = "op" /\ f.st = "none" /\ Carries(f)
        /\ ToSet(top.out) \subseteq ToSet(f.in) \cup ToSet(f.out)
    BY <1>9, <2>1, <2>2, <2>3, OpFrameCarries, OpFrameInv
  <2>5. Carries(f)'
    BY <2>4 DEF Carries, Passing
  <2> QED BY <2>4, <2>5
<1>11. PICK F : rest \in Seq(F) /\ f \in F /\ g \in F
  <2>1. rest \in Seq(Fr \cup {f, g})
    BY <1>2, SeqMonotonic
  <2> QED BY <2>1
<1>12. PICK s \in Seq(F) : s = <<g>> \o rest
  BY <1>11, Pushed
<1>13. ToSet(s) = {g} \cup Below
  BY <1>11, <1>12, OnPushed DEF Below
<1>14. \/ Calls' = {f, g} \cup Below
       \/ Calls' = {g} \cup Below /\ (top.out = <<>> \/ top.discard)
  <2>1. CASE top.out # <<>> /\ ~top.discard
    <3>1. calls' = <<f>> \o <<g>> \o rest
      BY <1>6, <1>9, <2>1 DEF PopWrites
    <3>2. calls' = <<f>> \o s
      <4>1. <<f>> \in Seq(F) /\ <<g>> \in Seq(F)
        BY <1>11
      <4>2. (<<f>> \o <<g>>) \o rest = <<f>> \o (<<g>> \o rest)
        BY <1>11, <4>1, ConcatAssociative
      <4> QED BY <1>12, <3>1, <4>2
    <3>3. Calls' = {f} \cup ToSet(s)
      BY <1>11, <3>2, OnPushed DEF Calls
    <3> QED BY <1>13, <3>3
  <2>2. CASE ~(top.out # <<>> /\ ~top.discard)
    <3>1. calls' = <<>> \o <<g>> \o rest
      BY <1>6, <2>2 DEF PopWrites
    <3>2. <<>> \o <<g>> = <<g>>
      OBVIOUS
    <3>3. Calls' = {g} \cup Below
      BY <1>12, <1>13, <3>1, <3>2 DEF Calls
    <3> QED BY <1>3, <2>2, <3>3
  <2> QED BY <2>1, <2>2
<1>15. ASSUME NEW b \in Below PROVE Carries(b)'
  <2>1. /\ Carries(b) /\ FrameInv(b)
        /\ b.do = "push" => b.x \in 1..Len(h)
    BY <1>2 DEF Flowing
  <2>2. b.do = "push" => active' # b.x
    <3>1. ASSUME b.do = "push" PROVE b.x # 0 /\ b.x \notin ToSet(handlers)
      BY <2>1, <3>1, Sizes DEF FrameInv
    <3> QED BY <1>0, <1>5, <3>1
  <2>3. Disabled' = Disabled
    BY <1>0 DEF Disabled
  <2> QED BY <1>0, <2>1, <2>2, <2>3 DEF Carries, Passing, Done
<1>16. Flowing'
  <2>1. LevelsInv'
    <3> SUFFICES ASSUME NEW i \in 1..Len(DelTop) PROVE h[DelTop[i]].level = i - 1
      BY <1>0 DEF LevelsInv
    <3> QED BY <1>5 DEF Flowing, LevelsInv
  <2>2. ActiveInv'
    BY <1>0 DEF ActiveInv, NewActive
  <2>3. \A x \in Disabled' : h'[x].buffer = <<>>
    BY <1>0 DEF Flowing, Disabled
  <2>4. \A b \in Calls' : Carries(b)'
    BY <1>8, <1>10, <1>14, <1>15
  <2> QED BY <2>1, <2>2, <2>3, <2>4 DEF Flowing
<1>17. Kept
  <2>1. \A t \in ToSet(top.out) : Accounted(t)
    <3>1. CASE f \in Calls'
      BY <1>10, <3>1, StillHeld
    <3>2. CASE top.discard
      BY <1>1, <3>2 DEF Accounted
    <3> QED BY <1>14, <3>1, <3>2, OnNone
  <2>2. \A k \in Calls : k \in Calls' \/ \A t \in ToSet(k.in) \cup ToSet(k.out) : Accounted(t)
    BY <1>2, <1>4, <1>14, <2>1, OnNone
  <2> QED BY <1>0, <2>2, QuietKept
<1> QED BY <1>16, <1>17

\* A handler that is destroyed holds nothing.
LEMMA PopFreesFlow ==
    ASSUME OutputInv, OutputInv', BracketInv, Flowing, PopFrees
    PROVE  FlowInv' /\ Kept
<1>0. Doing("free") /\ CallsInv
  BY DEF PopFrees, BracketInv
<1>1. calls # <<>> /\ top.do = "free" /\ phase # "undefined"
  BY <1>0, DoingTypes
<1>2. /\ Calls = {top} \cup Below /\ rest \in Seq(Fr) /\ top.x \in 1..Len(h)
      /\ \A b \in Below : b.do \in {"op", "flush", "clean", "pop"} => b.st = "wait"
      /\ \A b \in Calls : b.do \notin {"op", "all"} \/ b.st # "none" => b.x \in 1..Len(h)
  BY <1>0, <1>1, Core
<1>3. CASE Undefined
  BY <1>1, <1>3, UndefinedFlow
<1>4. CASE /\ \A i \in DOMAIN calls : calls[i].do # "user" \/ calls[i].x # top.x
           /\ h' = Freed({top.x}) /\ calls' = rest
           /\ UNCHANGED <<handlers, active, running>>
  <2>1. PICK x \in 1..Len(h) : x = top.x
    BY <1>2
  <2>2. \A u \in Calls : u.do # "user" \/ u.x # x
    BY <1>4, <2>1 DEF Calls, ToSet
  <2>3. h[x].buffer = <<>> /\ top.in = <<>> /\ top.out = <<>>
    BY <1>1, <1>2, <2>1 DEF Flowing, Carries
  <2>4. /\ Len(h') = Len(h)
        /\ \A y \in 1..Len(h) : y # x => h'[y] = h[y]
        /\ \A y \in 1..Len(h) : h'[y].level = h[y].level /\ h'[y].buffer = h[y].buffer
    <3>1. Len(h') = Len(h)
      BY <1>4, FreedType
    <3>2. DOMAIN h = 1..Len(h) /\ h[x] \in HandlerType(written)
      BY Sizes
    <3>3. \A y \in 1..Len(h) : y # x => h'[y] = h[y]
      BY <1>4, <2>1, <3>2 DEF Freed
    <3>4. h'[x] = [h[x] EXCEPT !.live = FALSE, !.buffer = <<>>]
      BY <1>4, <2>1, <3>2 DEF Freed
    <3>5. h'[x].level = h[x].level /\ h'[x].buffer = h[x].buffer
      BY <2>3, <3>2, <3>4 DEF HandlerType
    <3> QED BY <3>1, <3>3, <3>5
  <2>5. Calls' = Below
    BY <1>4 DEF Calls, Below
  <2>6. ASSUME NEW b \in Below PROVE Carries(b)'
    <3>1. /\ Carries(b) /\ (b.do \in {"op", "flush", "clean", "pop"} => b.st = "wait")
          /\ b.do \notin {"op", "all"} \/ b.st # "none" => b.x \in 1..Len(h)
      BY <1>2 DEF Flowing
    <3>2. /\ b.do \notin {"op", "all"} \/ b.st # "none" => h'[b.x].level = h[b.x].level
          /\ b.do = "user" => ToSet(h[b.x].buffer) \subseteq ToSet(h'[b.x].buffer)
          /\ b.do = "free" => h'[b.x].buffer = h[b.x].buffer
      BY <2>4, <3>1
    <3> QED BY <1>4, <3>1, <3>2, BelowCarries
  <2>7. Flowing'
    <3>1. \A b \in Calls' : Carries(b)'
      BY <2>5, <2>6
    <3>2. \A b \in Calls : b.do = "push" => b \in Calls'
      BY <1>1, <1>2, <2>5
    <3>3. NoUser(calls) => NoUser(calls')
      BY <1>2, <2>5, OnCalls, OnCallsNext
    <3>4. h'[x].disabled => h'[x].buffer = <<>>
      BY <2>3, <2>4
    <3> QED BY <1>4, <2>4, <3>1, <3>2, <3>3, <3>4, RunFlow
  <2>8. Kept
    <3>1. \A y \in 1..Len(h) : \A t \in ToSet(h[y].buffer) : Accounted(t)
      BY <2>4, StillHeld
    <3>2. \A b \in Calls : b \in Calls' \/ \A t \in ToSet(b.in) \cup ToSet(b.out) : Accounted(t)
      BY <1>2, <2>3, <2>5, OnNone
    <3> QED BY <3>1, <3>2, KeptStep
  <2> QED BY <2>7, <2>8 DEF FlowInv
<1> QED BY <1>3, <1>4 DEF PopFrees

\* The client is gone: output is disabled.
LEMMA ClientGoneFlow ==
    ASSUME ClientGone
    PROVE  FlowInv' /\ Kept
<1>1. headers' = "failed"
  BY DEF ClientGone
<1> QED BY <1>1, PhaseKept DEF FlowInv, Exempt

\* The loop over the stack has gone astray.
LEMMA StaleFlow ==
    ASSUME ApplyStale
    PROVE  FlowInv' /\ Kept
BY UndefinedFlow DEF ApplyStale, Doing

-----------------------------------------------------------------------------
(* Disabled output *)

\* Nothing in a request switches disabled output on again.
LEMMA StaysFailed ==
    ASSUME headers = "failed", Next
    PROVE  headers' = "failed"
<1>1. php_output_header => headers' = "failed"
  BY DEF php_output_header
<1>2. CASE Echo \/ ObFlush \/ ObClean \/ Exit \/ EndOfPhase
  BY <1>1, <1>2 DEF Echo, ObFlush, ObClean, Call, Exit, EndOfPhase
<1>3. ASSUME NEW k \in Kinds, ObStart(k) PROVE headers' = "failed"
  BY <1>1, <1>3 DEF ObStart, LockError, Undefined
<1>4. ASSUME NEW d \in BOOLEAN, ObEnd(d) PROVE headers' = "failed"
  BY <1>4 DEF ObEnd, Call
<1>5. ASSUME NEW s \in {"success", "nodata", "failure"}, Return(s) PROVE headers' = "failed"
  BY <1>5 DEF Return
<1>6. CASE HandlerLocked \/ HandlerStores \/ HandlerCalled \/ HandlerInternal
  BY <1>1, <1>6 DEF HandlerLocked, LockError, HandlerStores, HandlerCalled, HandlerInternal
<1>7. CASE ApplyHandler \/ ApplyStale \/ ApplyNext \/ SapiWrite \/ ClientGone
  BY <1>1, <1>7 DEF ApplyHandler, ApplyStale, Undefined, ApplyNext, SapiWrite, ClientGone
<1>8. CASE FlushWrites \/ FlushReturns \/ CleanReturns
  BY <1>8 DEF FlushWrites, FlushReturns, Undefined, CleanReturns
<1>9. CASE PopWrites \/ PopFrees \/ EndAll \/ Finished
  BY <1>1, <1>9 DEF PopWrites, PopFrees, Undefined, EndAll, Call, Finished, vars
<1> QED BY <1>2, <1>3, <1>4, <1>5, <1>6, <1>7, <1>8, <1>9 DEF Next

\* A request that is over, or whose behaviour is undefined, does nothing.
LEMMA OverStays ==
    ASSUME OutputInv, phase \in {"off", "undefined"}, Next
    PROVE  UNCHANGED vars
<1>1. phase = "off" => calls = <<>>
  BY DEF OutputInv, CallsOK
<1>2. ~Op /\ ~Calling /\ (\A do : ~Doing(do)) /\ ~(InHandler /\ phase # "undefined")
  BY <1>1 DEF Op, ScriptRuns, InHandler, Calling, Doing
<1>3. ~Echo /\ ~ObFlush /\ ~ObClean /\ ~Exit /\ ~EndOfPhase
  BY <1>2 DEF Echo, ObFlush, ObClean, Exit, EndOfPhase
<1>4. (\A k \in Kinds : ~ObStart(k)) /\ (\A d \in BOOLEAN : ~ObEnd(d))
  BY <1>2 DEF ObStart, ObEnd
<1>5. \A s \in {"success", "nodata", "failure"} : ~Return(s)
  BY <1>2 DEF Return
<1>6. ~HandlerLocked /\ ~HandlerStores /\ ~HandlerCalled /\ ~HandlerInternal
  BY <1>2 DEF HandlerLocked, HandlerStores, HandlerCalled, HandlerInternal
<1>7. ~ApplyHandler /\ ~ApplyStale /\ ~ApplyNext /\ ~SapiWrite /\ ~ClientGone
  BY <1>2 DEF ApplyHandler, ApplyStale, ApplyNext, SapiWrite, ClientGone
<1>8. ~FlushWrites /\ ~FlushReturns /\ ~CleanReturns /\ ~PopWrites /\ ~PopFrees /\ ~EndAll
  BY <1>2 DEF FlushWrites, FlushReturns, CleanReturns, PopWrites, PopFrees, EndAll
<1>9. Finished
  BY <1>3, <1>4, <1>5, <1>6, <1>7, <1>8 DEF Next
<1> QED BY <1>9 DEF Finished

LEMMA ExemptStays ==
    ASSUME OutputInv, Exempt, Next
    PROVE  Exempt' /\ (Kept \/ UNCHANGED vars)
<1>1. CASE headers = "failed"
  BY <1>1, StaysFailed, PhaseKept DEF Exempt
<1>2. CASE phase \in {"off", "undefined"}
  <2>1. UNCHANGED vars
    BY <1>2, OverStays
  <2>2. phase' = phase
    BY <2>1 DEF vars
  <2> QED BY <1>2, <2>1, <2>2 DEF Exempt
<1> QED BY <1>1, <1>2 DEF Exempt

-----------------------------------------------------------------------------
(* The invariant holds, and with it every step keeps what was written *)

LEMMA InitFlow == Init => FlowInv
<1> SUFFICES ASSUME Init PROVE Flowing
  BY DEF FlowInv
<1>1. h = <<>> /\ handlers = <<>> /\ calls = <<>> /\ active = 0
  BY DEF Init
<1>2. Len(<<>>) = 0 /\ 1..0 = {} /\ ToSet(<<>>) = {}
  BY OnNone
<1>3. Calls = {} /\ Disabled = {}
  BY <1>1, <1>2 DEF Calls, Disabled
<1>4. LevelsInv
  BY <1>1, <1>2 DEF LevelsInv
<1>5. ActiveInv
  BY <1>1 DEF ActiveInv, NewActive
<1> QED BY <1>3, <1>4, <1>5 DEF Flowing

LEMMA FlowingStep ==
    ASSUME OutputInv, OutputInv', BracketInv, Flowing, Next
    PROVE  FlowInv' /\ (Kept \/ UNCHANGED vars)
<1>1. CASE Echo
  BY <1>1, EchoFlow DEF FlowInv
<1>2. CASE ObFlush \/ ObClean \/ \E d \in BOOLEAN : ObEnd(d)
  BY <1>2, ScriptCallsFlow DEF FlowInv
<1>3. CASE Exit
  BY <1>3, ExitFlow DEF FlowInv
<1>4. CASE EndOfPhase
  BY <1>4, EndOfPhaseFlow DEF FlowInv
<1>5. ASSUME NEW k \in Kinds, ObStart(k) PROVE FlowInv' /\ Kept
  BY <1>5, StartFlow
<1>6. ASSUME NEW s \in {"success", "nodata", "failure"}, Return(s) PROVE FlowInv' /\ Kept
  BY <1>6, ReturnedFlow DEF FlowInv
<1>7. CASE HandlerLocked
  BY <1>7, LockedFlow DEF FlowInv
<1>8. CASE HandlerStores
  BY <1>8, StoresFlow DEF FlowInv
<1>9. CASE HandlerCalled
  BY <1>9, CalledFlow DEF FlowInv
<1>10. CASE HandlerInternal
  BY <1>10, InternalFlow DEF FlowInv
<1>11. CASE ApplyHandler
  BY <1>11, ApplyFlow DEF FlowInv
<1>12. CASE ApplyStale
  BY <1>12, StaleFlow
<1>13. CASE ApplyNext
  BY <1>13, ApplyNextFlow DEF FlowInv
<1>14. CASE SapiWrite
  BY <1>14, SapiWriteFlow DEF FlowInv
<1>15. CASE ClientGone
  BY <1>15, ClientGoneFlow
<1>16. CASE FlushWrites
  BY <1>16, FlushWritesFlow DEF FlowInv
<1>17. CASE FlushReturns
  BY <1>17, FlushReturnsFlow
<1>18. CASE CleanReturns
  BY <1>18, CleanFlow DEF FlowInv
<1>19. CASE PopWrites
  BY <1>19, PopWritesFlow DEF FlowInv
<1>20. CASE PopFrees
  BY <1>20, PopFreesFlow
<1>21. CASE EndAll
  BY <1>21, EndAllFlow DEF FlowInv
<1>22. CASE Finished
  <2>1. phase \in {"off", "undefined"} /\ UNCHANGED vars
    BY <1>22 DEF Finished
  <2>2. phase' = phase
    BY <2>1 DEF vars
  <2> QED BY <2>1, <2>2 DEF FlowInv, Exempt
<1> QED BY <1>1, <1>2, <1>3, <1>4, <1>5, <1>6, <1>7, <1>8, <1>9, <1>10, <1>11, <1>12, <1>13,
           <1>14, <1>15, <1>16, <1>17, <1>18, <1>19, <1>20, <1>21, <1>22 DEF Next

\* Where nothing changes, what is held stays where it is.
LEMMA StillFlow ==
    ASSUME FlowInv, UNCHANGED vars
    PROVE  FlowInv'
<1>1. UNCHANGED <<h, handlers, active, running, calls, headers, phase>>
  BY DEF vars
<1>2. CASE Exempt
  BY <1>1, <1>2 DEF FlowInv, Exempt
<1>3. CASE Flowing
  <2>1. Calls' = Calls /\ Disabled' = Disabled
    BY <1>1 DEF Calls, Disabled
  <2>2. ASSUME NEW f \in Calls PROVE Carries(f)'
    <3>1. Carries(f)
      BY <1>3 DEF Flowing
    <3> QED BY <1>1, <2>1, <3>1 DEF Carries, Passing, Done
  <2>3. LevelsInv' /\ ActiveInv'
    BY <1>1, <1>3 DEF Flowing, LevelsInv, ActiveInv, NewActive, Pushing
  <2> QED BY <1>1, <1>3, <2>1, <2>2, <2>3 DEF Flowing, FlowInv
<1> QED BY <1>2, <1>3 DEF FlowInv

LEMMA NextFlow ==
    OutputInv /\ OutputInv' /\ BracketInv /\ FlowInv /\ [Next]_vars => FlowInv' /\ [Kept]_vars
<1> SUFFICES ASSUME OutputInv, OutputInv', BracketInv, FlowInv, [Next]_vars
             PROVE  FlowInv' /\ (Kept \/ UNCHANGED vars)
  OBVIOUS
<1>1. CASE UNCHANGED vars
  BY <1>1, StillFlow
<1>2. CASE Next /\ Exempt
  BY <1>2, ExemptStays DEF FlowInv
<1>3. CASE Next /\ Flowing
  BY <1>3, FlowingStep
<1> QED BY <1>1, <1>2, <1>3 DEF FlowInv

LEMMA FlowInvariance == Spec => [](OutputInv /\ BracketInv /\ FlowInv)
<1>1. OutputInv /\ BracketInv /\ FlowInv /\ [Next]_vars => OutputInv' /\ BracketInv' /\ FlowInv'
  BY NextOutput, NextBracket, NextFlow
<1> QED BY <1>1, InitOutput, InitBracket, InitFlow, PTL DEF Spec

\* What was written and is in a handler's buffer or on its way through the handlers is
\* after every step still there or with the client - unless the handler that was given
\* it kept it or wrote it itself, it is cleaned or discarded, output is disabled, or a
\* bailout or the end of the request clears the layer. What a failing handler was given
\* goes on to the next one, whatever script code handlers run in between.
THEOREM OutputKept == Spec => NothingLost
<1>1. OutputInv /\ BracketInv /\ FlowInv /\ [Next]_vars => OutputInv'
  BY NextOutput
<1>2. OutputInv /\ BracketInv /\ FlowInv /\ [Next]_vars => [Kept]_vars
  BY <1>1, NextFlow
<1>3. Spec => [][Kept]_vars
  BY <1>2, FlowInvariance, PTL DEF Spec
<1> QED BY <1>3 DEF NothingLost, Kept, Accounted

-----------------------------------------------------------------------------
(* Sequences in order *)

\* No number is followed by a smaller one or by itself, next to it or later.
Rises(s) == \A i, j \in 1..Len(s) : i < j => s[i] < s[j]

Before(s, t) == \A a \in ToSet(s), b \in ToSet(t) : a < b

LEMMA EmptyOrder ==
    Rises(<<>>) /\ \A d : Before(<<>>, d) /\ Before(d, <<>>)
<1>1. Len(<<>>) = 0 /\ 1..0 = {}
  OBVIOUS
<1> QED BY <1>1, OnNone DEF Rises, Before

LEMMA OrderJoined ==
    ASSUME NEW w \in Nat, NEW s \in Seq(1..w), NEW t \in Seq(1..w),
           Rises(s), Rises(t), Before(s, t)
    PROVE  Rises(s \o t)
<1>1. PICK u : u = s \o t
  OBVIOUS
<1>2. /\ u \in Seq(1..w) /\ Len(u) = Len(s) + Len(t) /\ Len(s) \in Nat /\ Len(t) \in Nat
      /\ DOMAIN u = 1..Len(u) /\ DOMAIN s = 1..Len(s) /\ DOMAIN t = 1..Len(t)
      /\ \A i \in 1..Len(u) : u[i] = IF i <= Len(s) THEN s[i] ELSE t[i - Len(s)]
  BY <1>1
<1>3. ASSUME NEW i \in 1..Len(u), NEW j \in 1..Len(u), i < j PROVE u[i] < u[j]
  <2>1. CASE j <= Len(s)
    <3>1. i \in 1..Len(s) /\ j \in 1..Len(s) /\ u[i] = s[i] /\ u[j] = s[j]
      BY <1>2, <1>3, <2>1
    <3> QED BY <1>3, <3>1 DEF Rises
  <2>2. CASE i > Len(s)
    <3>1. i \in Int /\ j \in Int /\ ~(i <= Len(s)) /\ ~(j <= Len(s))
      BY <1>2, <1>3, <2>2
    <3>2. u[i] = t[i - Len(s)] /\ u[j] = t[j - Len(s)]
      BY <1>2, <3>1
    <3>3. i - Len(s) \in 1..Len(t) /\ j - Len(s) \in 1..Len(t) /\ i - Len(s) < j - Len(s)
      BY <1>2, <1>3, <3>1
    <3> QED BY <3>2, <3>3 DEF Rises
  <2>3. CASE i <= Len(s) /\ j > Len(s)
    <3>1. /\ i \in DOMAIN s /\ u[i] = s[i]
          /\ j - Len(s) \in DOMAIN t /\ u[j] = t[j - Len(s)]
      BY <1>2, <1>3, <2>3
    <3> QED BY <3>1 DEF Before, ToSet
  <2> QED BY <1>2, <1>3, <2>1, <2>2, <2>3
<1> QED BY <1>1, <1>3 DEF Rises

LEMMA RisesIncreasing ==
    ASSUME NEW w, NEW s \in Seq(w), Rises(s)
    PROVE  Increasing(s)
<1>1. Len(s) \in Nat
  OBVIOUS
<1>2. ASSUME NEW i \in 1..(Len(s) - 1) PROVE s[i] < s[i + 1]
  <2>1. i \in 1..Len(s) /\ i + 1 \in 1..Len(s) /\ i < i + 1
    BY <1>1
  <2> QED BY <2>1 DEF Rises
<1> QED BY <1>2 DEF Increasing

\* g is the recursive function of FlattenSeq on the first n numbers.
Flattens(g, s, n) == g = [i \in 1..n |-> IF i = 1 THEN s[i] ELSE g[i-1] \o s[i]]

\* A recursive function over the first n numbers, up to which it exists, by the least
\* number up to which it does not.
LEMMA FlattenExists ==
    ASSUME NEW X, NEW s \in Seq(Seq(X)), NEW n \in 1..Len(s)
    PROVE  \E g \in [1..n -> Seq(X)] : Flattens(g, s, n)
<1> DEFINE P(m) == \E g \in [1..m -> Seq(X)] :
                       g = [i \in 1..m |-> IF i = 1 THEN s[i] ELSE g[i-1] \o s[i]]
           T == {m \in 1..Len(s) : ~P(m)}
<1>0. Len(s) \in Nat
  OBVIOUS
<1>1. P(1)
  <2>1. 1 \in 1..Len(s) /\ s[1] \in Seq(X)
    BY <1>0
  <2>2. PICK g : g = [i \in 1..1 |-> s[1]]
    OBVIOUS
  <2>3. g \in [1..1 -> Seq(X)] /\ g = [i \in 1..1 |-> IF i = 1 THEN s[i] ELSE g[i-1] \o s[i]]
    BY <2>1, <2>2
  <2> QED BY <2>3
<1>2. ASSUME NEW m \in 1..Len(s), m # 1, P(m - 1) PROVE P(m)
  <2>0. m \in Nat /\ m - 1 \in 1..(m - 1) /\ s[m] \in Seq(X)
    BY <1>0, <1>2
  <2>2. PICK g \in [1..(m - 1) -> Seq(X)] :
               g = [i \in 1..(m - 1) |-> IF i = 1 THEN s[i] ELSE g[i-1] \o s[i]]
    BY <1>2
  <2>3. PICK e \in Seq(X) : e = g[m - 1] \o s[m]
    <3>1. PICK a \in Seq(X), b \in Seq(X) : a = g[m - 1] /\ b = s[m]
      BY <2>0
    <3>2. a \o b \in Seq(X)
      OBVIOUS
    <3> QED BY <3>1, <3>2
  <2>4. PICK k : k = [i \in 1..m |-> IF i = m THEN e ELSE g[i]]
    OBVIOUS
  <2>5. k \in [1..m -> Seq(X)]
    <3>1. \A i \in 1..m : i # m => i \in 1..(m - 1)
      BY <2>0
    <3> QED BY <2>4, <3>1
  <2>6. ASSUME NEW i \in 1..m PROVE k[i] = IF i = 1 THEN s[i] ELSE k[i-1] \o s[i]
    <3>1. CASE i = m
      <4>1. m - 1 \in 1..m /\ m - 1 # m
        BY <2>0
      <4> QED BY <1>2, <2>3, <2>4, <3>1, <4>1
    <3>2. CASE i # m
      <4>1. i \in 1..(m - 1) /\ (i # 1 => i - 1 \in 1..m /\ i - 1 # m)
        BY <2>0, <3>2
      <4>2. g[i] = IF i = 1 THEN s[i] ELSE g[i-1] \o s[i]
        BY <2>2, <4>1
      <4> QED BY <2>4, <3>2, <4>1, <4>2
    <3> QED BY <3>1, <3>2
  <2>7. k = [i \in 1..m |-> IF i = 1 THEN s[i] ELSE k[i-1] \o s[i]]
    BY <2>5, <2>6
  <2> QED BY <2>5, <2>7
<1> HIDE DEF P
<1> SUFFICES ASSUME T # {} PROVE FALSE
  BY DEF P, Flattens
<1>3. T \in SUBSET Nat
  BY <1>0
<1>4. PICK m \in T : \A y \in T : m <= y
  <2> HIDE DEF T
  <2> QED BY <1>3, LeastNumber
<1>5. m \in 1..Len(s) /\ ~P(m)
  OBVIOUS
<1>6. m # 1
  BY <1>1, <1>5
<1>7. m - 1 \in 1..Len(s) /\ ~(m <= m - 1)
  BY <1>0, <1>5, <1>6
<1>8. P(m - 1)
  BY <1>4, <1>7
<1> QED BY <1>2, <1>5, <1>6, <1>8

LEMMA FlattenUnfolds ==
    ASSUME NEW X, NEW s \in Seq(Seq(X)), s # <<>>
    PROVE  \E f : /\ f = [i \in 1..Len(s) |-> IF i = 1 THEN s[i] ELSE f[i-1] \o s[i]]
                  /\ FlattenSeq(s) = f[Len(s)]
<1>1. Len(s) \in 1..Len(s) /\ Len(s) # 0
  OBVIOUS
<1> DEFINE Q(f) == f = [i \in 1..Len(s) |-> IF i = 1 THEN s[i] ELSE f[i-1] \o s[i]]
<1>2. \E f : Q(f)
  <2>1. PICK n \in 1..Len(s) : n = Len(s)
    BY <1>1
  <2>2. PICK g \in [1..n -> Seq(X)] : Flattens(g, s, n)
    BY FlattenExists
  <2> QED BY <2>1, <2>2 DEF Flattens
<1>3. FlattenSeq(s) = (CHOOSE f : Q(f))[Len(s)]
  BY <1>1, Zenon DEF FlattenSeq
<1>4. Q(CHOOSE f : Q(f))
  <2> HIDE DEF Q
  <2> QED BY <1>2, Zenon
<1> QED BY <1>3, <1>4

\* Sequences that rise, each after the ones before it, flatten to one that does.
LEMMA FlattenRises ==
    ASSUME NEW w \in Nat, NEW s \in Seq(Seq(1..w)),
           \A i \in 1..Len(s) : Rises(s[i]),
           \A i, j \in 1..Len(s) : i < j => Before(s[i], s[j])
    PROVE  /\ FlattenSeq(s) \in Seq(1..w) /\ Rises(FlattenSeq(s))
           /\ \A e \in ToSet(FlattenSeq(s)) : \E i \in 1..Len(s) : e \in ToSet(s[i])
<1>0. Len(s) \in Nat /\ \A i \in 1..Len(s) : s[i] \in Seq(1..w)
  OBVIOUS
<1>1. CASE s = <<>>
  <2>1. FlattenSeq(s) = <<>>
    <3>1. Len(s) = 0
      BY <1>1
    <3> QED BY <1>1, <3>1 DEF FlattenSeq
  <2>2. <<>> \in Seq(1..w)
    OBVIOUS
  <2> QED BY <2>1, <2>2, EmptyOrder, OnNone
<1>2. CASE s # <<>>
  <2>1. PICK f : /\ f = [i \in 1..Len(s) |-> IF i = 1 THEN s[i] ELSE f[i-1] \o s[i]]
                 /\ FlattenSeq(s) = f[Len(s)]
    BY <1>2, FlattenUnfolds
  <2> DEFINE P(m) == /\ f[m] \in Seq(1..w) /\ Rises(f[m])
                     /\ \A e \in ToSet(f[m]) : \E i \in 1..m : e \in ToSet(s[i])
             T == {m \in 1..Len(s) : ~P(m)}
  <2>2. Len(s) \in 1..Len(s) /\ 1 \in 1..Len(s)
    BY <1>0, <1>2
  <2>3. P(1)
    <3>1. f[1] = s[1] /\ 1 \in 1..1
      BY <2>1, <2>2
    <3> QED BY <1>0, <2>2, <3>1
  <2>4. ASSUME NEW m \in 1..Len(s), m # 1, P(m - 1) PROVE P(m)
    <3>0. m \in Nat /\ m - 1 \in 1..Len(s) /\ s[m] \in Seq(1..w)
      BY <1>0, <2>4
    <3>1. PICK a \in Seq(1..w), b \in Seq(1..w) : a = f[m - 1] /\ b = s[m]
      BY <2>4, <3>0
    <3>2. f[m] = a \o b
      BY <2>1, <2>4, <3>1
    <3>3. Rises(a) /\ Rises(b)
      BY <2>4, <3>1
    <3>4. Before(a, b)
      <4> SUFFICES ASSUME NEW c \in ToSet(a), NEW d \in ToSet(b) PROVE c < d
        BY DEF Before
      <4>1. PICK i \in 1..(m - 1) : c \in ToSet(s[i])
        BY <2>4, <3>1
      <4>2. i \in 1..Len(s) /\ i < m
        BY <3>0
      <4>3. Before(s[i], s[m])
        BY <4>2
      <4> QED BY <3>1, <4>1, <4>3 DEF Before
    <3>5. Rises(a \o b)
      BY <3>3, <3>4, OrderJoined
    <3>6. a \o b \in Seq(1..w)
      OBVIOUS
    <3>7. ToSet(a \o b) = ToSet(a) \cup ToSet(b)
      BY Joined
    <3>8. ASSUME NEW e \in ToSet(f[m]) PROVE \E i \in 1..m : e \in ToSet(s[i])
      <4>1. CASE e \in ToSet(a)
        <5>1. PICK i \in 1..(m - 1) : e \in ToSet(s[i])
          BY <2>4, <3>1, <4>1
        <5>2. i \in 1..m
          BY <3>0
        <5> QED BY <5>1, <5>2
      <4>2. CASE e \in ToSet(b)
        <5>1. m \in 1..m
          BY <3>0
        <5> QED BY <3>1, <4>2, <5>1
      <4> QED BY <3>2, <3>7, <3>8, <4>1, <4>2
    <3> QED BY <3>2, <3>5, <3>6, <3>8
  <2>5. ASSUME T # {} PROVE FALSE
    <3> HIDE DEF P
    <3>1. T \in SUBSET Nat
      BY <1>0
    <3>2. PICK m \in T : \A y \in T : m <= y
      <4> HIDE DEF T
      <4> QED BY <2>5, <3>1, LeastNumber
    <3>3. m \in 1..Len(s) /\ ~P(m)
      OBVIOUS
    <3>4. m # 1
      BY <2>3, <3>3
    <3>5. m - 1 \in 1..Len(s) /\ ~(m <= m - 1)
      BY <1>0, <3>3, <3>4
    <3>6. P(m - 1)
      BY <3>2, <3>5
    <3> QED BY <2>4, <3>3, <3>4, <3>6
  <2>6. P(Len(s))
    <3> HIDE DEF P
    <3> QED BY <2>2, <2>5
  <2> QED BY <2>1, <2>6
<1> QED BY <1>1, <1>2

-----------------------------------------------------------------------------
(* Everything has its place: the invariant *)

Buf(i) == h[handlers[i]].buffer

\* The data d belong after what the client has and the buffers up to the n-th from the
\* bottom of the stack, and before the buffers above it.
Placed(d, n) ==
    /\ Rises(d) /\ Before(sent, d)
    /\ \A i \in 1..Len(handlers) : /\ i <= n => Before(Buf(i), d)
                                   /\ i > n => Before(d, Buf(i))

BuffersRise ==
    /\ Rises(sent)
    /\ \A i \in 1..Len(handlers) : Rises(Buf(i)) /\ Before(sent, Buf(i))
    /\ \A i, j \in 1..Len(handlers) : i < j => Before(Buf(i), Buf(j))

\* A handler that takes no part holds nothing.
AwayEmpty ==
    \A x \in 1..Len(h) : x \in Disabled \/ x \notin ToSet(handlers) => h[x].buffer = <<>>

\* Where the data of a call belong. The handler that a pass through the stack has come to
\* is at the place of the pass, if it is still on the stack.
Sorted(f) ==
    /\ f.do = "user" => Rises(f.in) /\ ToSet(f.in) \subseteq ToSet(h[f.x].buffer)
    /\ f.do = "op" =>
          /\ IF f.st \in {"none", "call"} THEN Placed(f.in, f.n) ELSE f.in = <<>>
          /\ f.st \in {"success", "failure"} => Placed(f.out, f.n - 1)
          /\ f.st \in {"none", "nodata"} /\ headers # "failed" => Placed(f.out, 0)
          /\ f.st = "call" => f.n \in 1..Len(handlers) /\ f.x = handlers[f.n] /\ f.x \notin Disabled
          /\ f.st # "none" => \A i \in 1..Len(handlers) : handlers[i] = f.x => i = f.n
    /\ f.do \in {"flush", "clean", "pop"} =>
          /\ f.in = <<>>
          /\ Done(f) => Placed(f.out, Len(handlers)) /\ h[f.x].buffer = <<>>
          /\ Done(f) /\ f.out # <<>> => f.x \in ToSet(handlers)

InSequence == BuffersRise /\ AwayEmpty /\ \A f \in Calls : Sorted(f)

OrderInv == misplaced \/ phase = "undefined" \/ InSequence

-----------------------------------------------------------------------------
(* Steps that keep the order *)

LEMMA PlacedNone == \A n : Placed(<<>>, n)
BY EmptyOrder DEF Placed

\* The calls that are there before and after the step are as they were.
LEMMA QuietOrder ==
    ASSUME InSequence, \A f \in Calls' : f \in Calls \/ Sorted(f),
           headers = "failed" => headers' = "failed",
           UNCHANGED <<h, handlers, sent>>
    PROVE  InSequence'
<1>1. Disabled' = Disabled
  BY DEF Disabled
<1>2. \A i \in 1..Len(handlers) : Buf(i)' = Buf(i)
  BY DEF Buf
<1>3. \A d, n : Placed(d, n) => Placed(d, n)'
  BY <1>2 DEF Placed
<1>4. ASSUME NEW f \in Calls' PROVE Sorted(f)'
  <2>1. Sorted(f)
    BY DEF InSequence
  <2> QED BY <1>1, <1>3, <2>1 DEF Sorted, Done
<1>5. BuffersRise'
  BY <1>2 DEF InSequence, BuffersRise
<1>6. AwayEmpty'
  BY <1>1 DEF InSequence, AwayEmpty
<1> QED BY <1>4, <1>5, <1>6 DEF InSequence

\* A call below the innermost one.
LEMMA BelowSorted ==
    ASSUME NEW g, Sorted(g), g.do \in {"op", "flush", "clean", "pop"} => g.st = "wait",
           g.do = "user" => ToSet(h[g.x].buffer) \subseteq ToSet(h'[g.x].buffer),
           \A i \in 1..Len(handlers') : i \in 1..Len(handlers) /\ handlers'[i] = handlers[i]
    PROVE  Sorted(g)'
<1>1. g.do = "op" => /\ g.in = <<>> /\ g.st = "wait"
                     /\ \A i \in 1..Len(handlers') : handlers'[i] = g.x => i = g.n
  BY DEF Sorted
<1>2. g.do \in {"flush", "clean", "pop"} => g.in = <<>> /\ g.st = "wait"
  BY DEF Sorted
<1>3. g.do = "user" => Rises(g.in) /\ ToSet(g.in) \subseteq ToSet(h'[g.x].buffer)
  BY DEF Sorted
<1> QED BY <1>1, <1>2, <1>3 DEF Sorted, Done

\* Handlers leave the stack from its top, buffers are emptied.
LEMMA FewerRise ==
    ASSUME BuffersRise, sent' = sent,
           \A i \in 1..Len(handlers') :
              i \in 1..Len(handlers) /\ h'[handlers'[i]].buffer \in {Buf(i), <<>>}
    PROVE  BuffersRise'
<1>1. Rises(sent')
  BY DEF BuffersRise
<1>2. \A i \in 1..Len(handlers') : Rises(h'[handlers'[i]].buffer)
                                   /\ Before(sent', h'[handlers'[i]].buffer)
  BY EmptyOrder DEF BuffersRise
<1>3. ASSUME NEW i \in 1..Len(handlers'), NEW j \in 1..Len(handlers'), i < j
      PROVE  Before(h'[handlers'[i]].buffer, h'[handlers'[j]].buffer)
  BY <1>3, EmptyOrder DEF BuffersRise
<1> QED BY <1>1, <1>2, <1>3 DEF BuffersRise, Buf

LEMMA FewerPlaced ==
    ASSUME NEW d, NEW n \in Nat, NEW m \in Nat, Placed(d, n), sent' = sent,
           \A i \in 1..Len(handlers') :
              /\ i \in 1..Len(handlers) /\ h'[handlers'[i]].buffer \in {Buf(i), <<>>}
              /\ i <= n <=> i <= m
    PROVE  Placed(d, m)'
<1>1. Rises(d) /\ Before(sent', d)
  BY DEF Placed
<1>2. ASSUME NEW i \in 1..Len(handlers')
      PROVE  /\ i <= m => Before(h'[handlers'[i]].buffer, d)
             /\ i > m => Before(d, h'[handlers'[i]].buffer)
  <2>1. CASE i <= m
    BY <2>1, EmptyOrder DEF Placed
  <2>2. CASE i > m
    <3>1. i \in Nat /\ ~(i <= m) /\ i > n
      BY <2>2
    <3> QED BY <3>1, EmptyOrder DEF Placed
  <2> QED BY <2>1, <2>2
<1> QED BY <1>1, <1>2 DEF Placed, Buf

\* What belongs after an empty buffer belongs before it, too.
LEMMA PlacedBelow ==
    ASSUME NEW d, NEW n \in 1..Len(handlers), Placed(d, n), Buf(n) = <<>>
    PROVE  Placed(d, n - 1)
<1>1. ASSUME NEW i \in 1..Len(handlers)
      PROVE  /\ i <= n - 1 => Before(Buf(i), d)
             /\ i > n - 1 => Before(d, Buf(i))
  <2>1. CASE i = n
    <3>1. ~(n <= n - 1)
      OBVIOUS
    <3> QED BY <2>1, <3>1, EmptyOrder
  <2>2. CASE i # n
    <3>1. (i <= n - 1 => i <= n) /\ (i > n - 1 => i > n)
      BY <2>2
    <3> QED BY <3>1 DEF Placed
  <2> QED BY <2>1, <2>2
<1> QED BY <1>1 DEF Placed

LEMMA BufferTypes ==
    ASSUME OutputInv
    PROVE  /\ written \in Nat /\ Len(handlers) \in Nat /\ sent \in Seq(1..written)
           /\ \A x \in 1..Len(h) : h[x].buffer \in Seq(1..written)
           /\ \A i \in 1..Len(handlers) : handlers[i] \in 1..Len(h) /\ Buf(i) \in Seq(1..written)
           /\ \A f \in Fr : f.in \in Seq(1..written) /\ f.out \in Seq(1..written)
                            /\ f.n \in Nat
<1>1. \A x \in 1..Len(h) : h[x].buffer \in Seq(1..written)
  BY Sizes DEF HandlerType
<1>2. \A i \in 1..Len(handlers) : handlers[i] \in 1..Len(h)
  BY DEF OutputInv, DataOK
<1>3. sent \in Seq(1..written)
  BY DEF OutputInv, DataOK
<1>4. \A f \in Fr : f.in \in Seq(1..written) /\ f.out \in Seq(1..written) /\ f.n \in Nat
  BY Sizes DEF Fr, Frames, FrameType
<1> QED BY <1>1, <1>2, <1>3, <1>4, Sizes DEF Buf

\* What belongs after the n-th buffer joins it.
LEMMA BufferAndMore ==
    ASSUME OutputInv, BuffersRise, NEW n \in 1..Len(handlers), NEW d \in Seq(1..written),
           Placed(d, n)
    PROVE  /\ Rises(Buf(n) \o d) /\ Before(sent, Buf(n) \o d)
           /\ \A i \in 1..Len(handlers) : /\ i < n => Before(Buf(i), Buf(n) \o d)
                                          /\ i > n => Before(Buf(n) \o d, Buf(i))
<1>1. PICK b \in Seq(1..written) : b = Buf(n)
  BY BufferTypes
<1>2. written \in Nat /\ n \in Nat /\ Len(handlers) \in Nat
  BY BufferTypes
<1>3. Rises(b) /\ Rises(d) /\ Before(b, d) /\ Before(sent, b) /\ Before(sent, d)
  BY <1>1, <1>2 DEF BuffersRise, Placed
<1>4. Rises(b \o d)
  BY <1>2, <1>3, OrderJoined
<1>5. ToSet(b \o d) = ToSet(b) \cup ToSet(d)
  BY Joined
<1>6. ASSUME NEW i \in 1..Len(handlers)
      PROVE  /\ i < n => Before(Buf(i), b \o d)
             /\ i > n => Before(b \o d, Buf(i))
  <2>1. CASE i < n
    <3>1. Before(Buf(i), b) /\ Before(Buf(i), d) /\ ~(i > n)
      BY <1>1, <1>2, <2>1 DEF BuffersRise, Placed
    <3> QED BY <1>5, <3>1 DEF Before
  <2>2. CASE i > n
    <3>1. Before(b, Buf(i)) /\ Before(d, Buf(i)) /\ ~(i < n)
      BY <1>1, <1>2, <2>2 DEF BuffersRise, Placed
    <3> QED BY <1>5, <3>1 DEF Before
  <2> QED BY <2>1, <2>2
<1>7. Before(sent, b \o d)
  BY <1>3, <1>5 DEF Before
<1> QED BY <1>1, <1>4, <1>6, <1>7

\* The buffer of the n-th handler becomes b; none other changes.
LEMMA BufferChanged ==
    ASSUME OutputInv, BracketInv, BuffersRise, NEW n \in 1..Len(handlers), NEW b,
           Rises(b), Before(sent, b),
           \A i \in 1..Len(handlers) : /\ i < n => Before(Buf(i), b)
                                       /\ i > n => Before(b, Buf(i)),
           h'[handlers[n]].buffer = b,
           \A y \in 1..Len(h) : y # handlers[n] => h'[y].buffer = h[y].buffer,
           UNCHANGED <<handlers, sent>>
    PROVE  BuffersRise'
<1>1. \A i \in 1..Len(handlers) : i # n => handlers[i] # handlers[n] /\ handlers[i] \in 1..Len(h)
  BY BufferTypes DEF BracketInv, StackInv, Distinct
<1>2. \A i \in 1..Len(handlers) : h'[handlers'[i]].buffer = IF i = n THEN b ELSE Buf(i)
  BY <1>1 DEF Buf
<1>3. ASSUME NEW i \in 1..Len(handlers), NEW j \in 1..Len(handlers), i < j
      PROVE  Before(h'[handlers'[i]].buffer, h'[handlers'[j]].buffer)
  <2>1. CASE i = n
    <3>1. j # n /\ j > n
      BY <1>3, <2>1
    <3> QED BY <1>2, <2>1, <3>1
  <2>2. CASE j = n
    <3>1. i # n /\ i < n
      BY <1>3, <2>2
    <3> QED BY <1>2, <2>2, <3>1
  <2>3. CASE i # n /\ j # n
    BY <1>2, <1>3, <2>3 DEF BuffersRise
  <2> QED BY <2>1, <2>2, <2>3
<1>4. \A i \in 1..Len(handlers) : Rises(h'[handlers'[i]].buffer)
                                  /\ Before(sent', h'[handlers'[i]].buffer)
  BY <1>2 DEF BuffersRise
<1> QED BY <1>3, <1>4 DEF BuffersRise, Buf

\* The n-th handler gives away b.
LEMMA GivenPlaced ==
    ASSUME OutputInv, BracketInv, NEW n \in 1..Len(handlers), NEW b,
           Rises(b), Before(sent, b),
           \A i \in 1..Len(handlers) : /\ i < n => Before(Buf(i), b)
                                       /\ i > n => Before(b, Buf(i)),
           h'[handlers[n]].buffer = <<>>,
           \A y \in 1..Len(h) : y # handlers[n] => h'[y].buffer = h[y].buffer,
           UNCHANGED <<handlers, sent>>
    PROVE  Placed(b, n)' /\ Placed(b, n - 1)'
<1>1. \A i \in 1..Len(handlers) : i # n => handlers[i] # handlers[n] /\ handlers[i] \in 1..Len(h)
  BY BufferTypes DEF BracketInv, StackInv, Distinct
<1>2. \A i \in 1..Len(handlers) : h'[handlers'[i]].buffer = IF i = n THEN <<>> ELSE Buf(i)
  BY <1>1 DEF Buf
<1>3. ASSUME NEW i \in 1..Len(handlers)
      PROVE  /\ i <= n => Before(h'[handlers'[i]].buffer, b)
             /\ i > n => Before(b, h'[handlers'[i]].buffer)
             /\ i <= n - 1 => Before(h'[handlers'[i]].buffer, b)
             /\ i > n - 1 => Before(b, h'[handlers'[i]].buffer)
  <2>1. CASE i = n
    BY <1>2, <2>1, EmptyOrder
  <2>2. CASE i # n
    <3>1. (i <= n => i < n) /\ (i <= n - 1 => i < n) /\ (i > n - 1 => i > n)
      BY <2>2
    <3> QED BY <1>2, <2>2, <3>1
  <2> QED BY <2>1, <2>2
<1> QED BY <1>3 DEF Placed, Buf

\* A handler gives away some of what is in its buffer, in order: where it is, if it
\* is anywhere on the stack, at n.
LEMMA OwnPlaced ==
    ASSUME OutputInv, BracketInv, InSequence, NEW x \in 1..Len(h), NEW b,
           Rises(b), ToSet(b) \subseteq ToSet(h[x].buffer), b # <<>> => ToSet(b) # {},
           NEW n, \A i \in 1..Len(handlers) : handlers[i] = x => i = n,
           h'[x].buffer = <<>>,
           \A y \in 1..Len(h) : y # x => h'[y].buffer = h[y].buffer,
           UNCHANGED <<handlers, sent>>
    PROVE  Placed(b, n)' /\ Placed(b, n - 1)' /\ (b # <<>> => x \in ToSet(handlers))
<1>1. CASE x \notin ToSet(handlers)
  <2>1. ToSet(b) = {}
    BY <1>1, OnNone DEF InSequence, AwayEmpty
  <2>2. b = <<>>
    BY <2>1
  <2>3. Placed(<<>>, n)' /\ Placed(<<>>, n - 1)'
    BY EmptyOrder DEF Placed
  <2> QED BY <2>2, <2>3
<1>2. CASE x \in ToSet(handlers)
  <2>1. DOMAIN handlers = 1..Len(handlers)
    BY DEF OutputInv, DataOK
  <2>2. n \in 1..Len(handlers) /\ handlers[n] = x
    BY <1>2, <2>1 DEF ToSet
  <2>3. Before(sent, Buf(n)) /\ Buf(n) = h[x].buffer
    BY <2>2 DEF InSequence, BuffersRise, Buf
  <2>4. Before(sent, b)
    BY <2>3 DEF Before
  <2>5. ASSUME NEW i \in 1..Len(handlers)
        PROVE  (i < n => Before(Buf(i), b)) /\ (i > n => Before(b, Buf(i)))
    <3>1. (i < n => Before(Buf(i), Buf(n))) /\ (i > n => Before(Buf(n), Buf(i)))
      <4>1. i > n => n < i
        BY <2>2
      <4> QED BY <2>2, <4>1 DEF InSequence, BuffersRise
    <3> QED BY <2>3, <3>1 DEF Before
  <2>6. PICK m \in 1..Len(handlers) : m = n
    BY <2>2
  <2>7. Placed(b, m)' /\ Placed(b, m - 1)'
    BY <2>2, <2>4, <2>5, <2>6, GivenPlaced
  <2> QED BY <1>2, <2>6, <2>7
<1> QED BY <1>1, <1>2

\* One handler's buffer changes: emptied, or added to where the handler takes part.
LEMMA AwayRun ==
    ASSUME AwayEmpty, NEW x \in 1..Len(h), Len(h') = Len(h), handlers' = handlers,
           \A y \in 1..Len(h) : y # x => h'[y] = h[y],
           \/ h'[x].buffer = <<>>
           \/ /\ h'[x].disabled = h[x].disabled
              /\ h'[x].buffer = h[x].buffer \/ (x \in ToSet(handlers) /\ x \notin Disabled)
    PROVE  AwayEmpty'
<1> SUFFICES ASSUME NEW y \in 1..Len(h), y \in Disabled' \/ y \notin ToSet(handlers)
             PROVE  h'[y].buffer = <<>>
  BY DEF AwayEmpty
<1>1. y \in Disabled' <=> h'[y].disabled
  BY DEF Disabled
<1>2. y \in Disabled <=> h[y].disabled
  BY DEF Disabled
<1>3. CASE y # x
  BY <1>1, <1>2, <1>3 DEF AwayEmpty
<1>4. CASE y = x
  BY <1>1, <1>2, <1>4 DEF AwayEmpty
<1> QED BY <1>3, <1>4

-----------------------------------------------------------------------------
(* Calls are made *)

LEMMA OpFrameFields ==
    ASSUME NEW hs, NEW act, NEW data, NEW f, f = OpFrame(hs, act, data)
    PROVE  /\ f.do = "op" /\ f.st = "none" /\ f.x = 0
           /\ \/ act # 0 /\ hs # <<>> /\ f.in = data /\ f.out = <<>> /\ f.n = Len(hs)
              \/ (act = 0 \/ hs = <<>>) /\ f.in = <<>> /\ f.out = data /\ f.n = 0
<1>1. CASE act # 0 /\ hs # <<>>
  BY <1>1 DEF OpFrame, Frame
<1>2. CASE ~(act # 0 /\ hs # <<>>)
  BY <1>2 DEF OpFrame, Frame
<1> QED BY <1>1, <1>2

\* php_output_op is called with what belongs after all buffers.
LEMMA OpFrameSorted ==
    ASSUME NEW act, NEW data, NEW f, f = OpFrame(handlers, act, data),
           Placed(data, Len(handlers)), act = 0 => handlers = <<>>
    PROVE  Sorted(f)
<1>1. /\ f.do = "op" /\ f.st = "none"
      /\ \/ act # 0 /\ handlers # <<>> /\ f.in = data /\ f.out = <<>> /\ f.n = Len(handlers)
         \/ (act = 0 \/ handlers = <<>>) /\ f.in = <<>> /\ f.out = data /\ f.n = 0
  BY OpFrameFields
<1>2. handlers = <<>> => Len(handlers) = 0
  OBVIOUS
<1>3. Placed(f.in, f.n) /\ Placed(f.out, 0)
  BY <1>1, <1>2, PlacedNone
<1> QED BY <1>1, <1>3 DEF Sorted

LEMMA CallOrder ==
    ASSUME InSequence, NEW F, calls \in Seq(F), NEW f \in F, calls' = <<f>> \o calls, Sorted(f),
           UNCHANGED <<h, handlers, sent, headers>>
    PROVE  InSequence'
<1>1. Calls' = {f} \cup Calls
  BY OnPushed DEF Calls
<1> QED BY <1>1, QuietOrder

\* What is written is after all that was.
LEMMA EchoOrder ==
    ASSUME OutputInv, BracketInv, InSequence, Echo
    PROVE  InSequence'
<1>0. UNCHANGED <<h, handlers, sent, headers>>
  BY DEF Echo
<1>1. calls \in Seq(Fr)
  BY DEF OutputInv, CallsOK, Fr
<1>2. CASE calls' = calls
  <2>1. Calls' = Calls
    BY <1>2 DEF Calls
  <2> QED BY <1>0, <2>1, QuietOrder
<1>3. CASE calls' = <<OpFrame(handlers, active, <<written + 1>>)>> \o calls
  <2>1. PICK d : d = <<written + 1>>
    OBVIOUS
  <2>2. ToSet(d) = {written + 1} /\ Rises(d)
    <3>1. Len(d) = 1 /\ d[1] = written + 1 /\ DOMAIN d = {1}
      BY <2>1
    <3> QED BY <3>1 DEF ToSet, Rises
  <2>3. \A s \in Seq(1..written) : Before(s, d)
    <3> SUFFICES ASSUME NEW s \in Seq(1..written), NEW e \in ToSet(s) PROVE e < written + 1
      BY <2>2 DEF Before
    <3>1. e \in 1..written /\ written \in Nat
      BY BufferTypes DEF ToSet
    <3> QED BY <3>1
  <2>4. Placed(d, Len(handlers))
    <3>1. \A i \in 1..Len(handlers) : Before(Buf(i), d) /\ ~(i > Len(handlers))
      BY <2>3, BufferTypes
    <3> QED BY <2>2, <2>3, <3>1, BufferTypes DEF Placed
  <2>5. PICK f : f = OpFrame(handlers, active, d)
    OBVIOUS
  <2>6. active = 0 => handlers = <<>>
    BY DEF BracketInv, StackInv
  <2>7. Sorted(f)
    BY <2>4, <2>5, <2>6, OpFrameSorted
  <2>8. PICK F : calls \in Seq(F) /\ f \in F
    <3>1. calls \in Seq(Fr \cup {f})
      BY <1>1, SeqMonotonic
    <3> QED BY <3>1
  <2>9. calls' = <<f>> \o calls
    BY <1>3, <2>1, <2>5
  <2> QED BY <1>0, <2>7, <2>8, <2>9, CallOrder
<1> QED BY <1>2, <1>3 DEF Echo

LEMMA PopFrameSorted ==
    ASSUME AwayEmpty, NEW x \in 1..Len(h), NEW d, NEW f, f = PopFrame(x, d)
    PROVE  Sorted(f)
<1>1. CASE h[x].disabled
  <2>1. f.do = "pop" /\ f.x = x /\ f.in = <<>> /\ f.out = <<>> /\ f.st = "nodata"
    BY <1>1 DEF PopFrame, Frame
  <2>2. h[x].buffer = <<>>
    BY <1>1 DEF AwayEmpty, Disabled
  <2> QED BY <2>1, <2>2, PlacedNone DEF Sorted
<1>2. CASE ~h[x].disabled
  <2>1. f.do = "pop" /\ f.x = x /\ f.in = <<>> /\ f.out = <<>> /\ f.st = "call"
    BY <1>2 DEF PopFrame, Frame
  <2> QED BY <2>1 DEF Sorted, Done
<1> QED BY <1>1, <1>2

LEMMA ScriptCallsOrder ==
    ASSUME OutputInv, InSequence, NEW f, Sorted(f), Call(f)
    PROVE  InSequence'
<1>1. calls \in Seq(Fr)
  BY DEF OutputInv, CallsOK, Fr
<1>2. PICK F : calls \in Seq(F) /\ f \in F
  <2>1. calls \in Seq(Fr \cup {f})
    BY <1>1, SeqMonotonic
  <2> QED BY <2>1
<1> QED BY <1>2, CallOrder DEF Call

LEMMA ScriptOrder ==
    ASSUME OutputInv, InSequence, ObFlush \/ ObClean \/ \E d \in BOOLEAN : ObEnd(d)
    PROVE  InSequence'
<1>1. active # 0 => active \in 1..Len(h)
  BY DEF OutputInv, DataOK
<1>2. CASE ObFlush
  <2>1. PICK f : f = [Frame("flush", active) EXCEPT !.st = "call", !.op = {"flush"}]
    OBVIOUS
  <2>2. f.do = "flush" /\ f.st = "call" /\ f.in = <<>>
    BY <2>1 DEF Frame
  <2>3. Sorted(f)
    BY <2>2 DEF Sorted, Done
  <2> QED BY <1>2, <2>1, <2>3, ScriptCallsOrder DEF ObFlush
<1>3. CASE ObClean
  <2>1. PICK f : f = [Frame("clean", active) EXCEPT !.st = "call", !.op = {"clean"},
                                                    !.discard = TRUE]
    OBVIOUS
  <2>2. f.do = "clean" /\ f.st = "call" /\ f.in = <<>>
    BY <2>1 DEF Frame
  <2>3. Sorted(f)
    BY <2>2 DEF Sorted, Done
  <2> QED BY <1>3, <2>1, <2>3, ScriptCallsOrder DEF ObClean
<1>4. ASSUME NEW d \in BOOLEAN, ObEnd(d) PROVE InSequence'
  <2>1. PICK f : f = PopFrame(active, d)
    OBVIOUS
  <2>2. active \in 1..Len(h)
    BY <1>1, <1>4 DEF ObEnd
  <2>3. Sorted(f)
    BY <2>1, <2>2, PopFrameSorted DEF InSequence
  <2> QED BY <1>4, <2>1, <2>3, ScriptCallsOrder DEF ObEnd
<1> QED BY <1>2, <1>3, <1>4

-----------------------------------------------------------------------------
(* A pass through the stack *)

\* The innermost call becomes f.
LEMMA TopOrder ==
    ASSUME OutputInv, BracketInv, InSequence, calls # <<>>, NEW f, Sorted(f),
           calls' = <<f>> \o rest, UNCHANGED <<h, handlers, sent, headers>>
    PROVE  InSequence'
<1>1. rest \in Seq(Fr) /\ Calls = {top} \cup Below
  BY Core DEF BracketInv
<1>2. PICK F : rest \in Seq(F) /\ f \in F
  <2>1. rest \in Seq(Fr \cup {f})
    BY <1>1, SeqMonotonic
  <2> QED BY <2>1
<1>3. Calls' = {f} \cup Below
  BY <1>2, OnPushed DEF Calls, Below
<1> QED BY <1>1, <1>3, QuietOrder

LEMMA ApplyOrder ==
    ASSUME OutputInv, BracketInv, FlowInv, InSequence, ApplyHandler
    PROVE  InSequence'
<1>0. /\ Doing("op") /\ top.st = "none" /\ top.n \in 1..Len(handlers)
      /\ UNCHANGED <<h, handlers, sent, headers>>
  BY DEF ApplyHandler
<1>1. calls # <<>> /\ top.do = "op" /\ phase \notin {"off", "undefined"} /\ top \in Fr
  BY <1>0, DoingTypes
<1>2. top \in Calls
  BY <1>1, Core DEF BracketInv
<1>3. Sorted(top)
  BY <1>2 DEF InSequence
<1>4. Placed(top.in, top.n) /\ (headers # "failed" => Placed(top.out, 0))
  BY <1>0, <1>1, <1>3 DEF Sorted
<1>5. PICK n \in 1..Len(handlers) : n = top.n
  BY <1>0
<1>6. PICK x : x = handlers[n]
  OBVIOUS
<1>7. x \in 1..Len(h) /\ n \in Nat /\ Buf(n) = h[x].buffer
  BY <1>6, BufferTypes DEF Buf
<1>8. PICK f : f = CASE ~h[x].disabled ->
                            [top EXCEPT !.x = x, !.st = "call"]
                     [] h[x].disabled /\ h[x].level = 0 ->
                            [top EXCEPT !.out = top.in, !.in = <<>>, !.n = @ - 1]
                     [] OTHER -> [top EXCEPT !.n = @ - 1]
  OBVIOUS
<1>9. calls' = <<f>> \o rest
  BY <1>5, <1>6, <1>8 DEF ApplyHandler
<1>10. h[x].disabled => Placed(top.in, n - 1)
  <2>1. h[x].disabled => Buf(n) = <<>>
    BY <1>7 DEF InSequence, AwayEmpty, Disabled
  <2>2. PICK d : d = top.in
    OBVIOUS
  <2> QED BY <1>4, <1>5, <2>1, <2>2, PlacedBelow
<1>11. Sorted(f)
  <2>1. CASE ~h[x].disabled
    <3>1. f = [top EXCEPT !.x = x, !.st = "call"]
      BY <1>8, <2>1
    <3>2. f.do = "op" /\ f.st = "call" /\ f.x = x /\ f.n = n /\ f.in = top.in
      BY <1>1, <1>5, <3>1 DEF Fr, Frames, FrameType
    <3>3. \A i \in 1..Len(handlers) : handlers[i] = x => i = n
      BY <1>6 DEF BracketInv, StackInv, Distinct
    <3>4. x \notin Disabled
      BY <2>1 DEF Disabled
    <3> QED BY <1>4, <1>5, <1>6, <3>2, <3>3, <3>4 DEF Sorted
  <2>2. CASE h[x].disabled /\ h[x].level = 0
    <3>1. f = [top EXCEPT !.out = top.in, !.in = <<>>, !.n = @ - 1]
      BY <1>8, <2>2
    <3>2. f.do = "op" /\ f.st = "none" /\ f.in = <<>> /\ f.out = top.in
      BY <1>0, <1>1, <3>1 DEF Fr, Frames, FrameType
    <3>3. headers # "failed" => n - 1 = 0
      BY <1>1, <1>6, <2>2 DEF FlowInv, Exempt, Flowing, LevelsInv
    <3>4. headers # "failed" => Placed(f.out, 0)
      BY <1>10, <2>2, <3>2, <3>3
    <3> QED BY <3>2, <3>4, PlacedNone DEF Sorted
  <2>3. CASE h[x].disabled /\ h[x].level # 0
    <3>1. f = [top EXCEPT !.n = @ - 1]
      BY <1>8, <2>3
    <3>2. f.do = "op" /\ f.st = "none" /\ f.in = top.in /\ f.out = top.out /\ f.n = n - 1
      BY <1>0, <1>1, <1>5, <3>1 DEF Fr, Frames, FrameType
    <3> QED BY <1>4, <1>10, <2>3, <3>2 DEF Sorted
  <2> QED BY <2>1, <2>2, <2>3
<1> QED BY <1>0, <1>1, <1>9, <1>11, TopOrder

LEMMA ApplyNextOrder ==
    ASSUME OutputInv, BracketInv, FlowInv, InSequence, ApplyNext
    PROVE  InSequence'
<1>0. Doing("op") /\ top.st # "none" /\ UNCHANGED <<h, handlers, sent, headers>>
  BY DEF ApplyNext
<1>1. /\ calls # <<>> /\ top.do = "op" /\ phase \notin {"off", "undefined"} /\ top \in Fr
      /\ top.st \notin {"call", "wait"}
  BY <1>0, DoingTypes
<1>2. top \in Calls
  BY <1>1, Core DEF BracketInv
<1>3. Sorted(top)
  BY <1>2 DEF InSequence
<1>4. top.st \in {"nodata", "success", "failure"}
  BY <1>0, <1>1 DEF Fr, Frames, FrameType, Statuses
<1>5. /\ top.in = <<>>
      /\ top.st \in {"success", "failure"} => Placed(top.out, top.n - 1)
      /\ top.st = "nodata" /\ headers # "failed" => Placed(top.out, 0)
  BY <1>0, <1>1, <1>3, <1>4 DEF Sorted
<1>6. PICK f : f = [Swapped(top) EXCEPT !.st = "none"]
  OBVIOUS
<1>7. calls' = <<f>> \o rest
  BY <1>6 DEF ApplyNext
<1>8. Sorted(f)
  <2>1. CASE top.st = "nodata"
    <3>1. f = [[top EXCEPT !.n = 0] EXCEPT !.st = "none"]
      BY <1>6, <2>1 DEF Swapped
    <3>2. f.do = "op" /\ f.st = "none" /\ f.in = top.in /\ f.out = top.out
      BY <1>1, <3>1 DEF Fr, Frames, FrameType
    <3> QED BY <1>5, <2>1, <3>2, PlacedNone DEF Sorted
  <2>2. CASE top.st # "nodata" /\ h[top.x].level # 0
    <3>1. f = [[top EXCEPT !.n = @ - 1, !.in = top.out, !.out = <<>>] EXCEPT !.st = "none"]
      BY <1>6, <2>2 DEF Swapped
    <3>2. f.do = "op" /\ f.st = "none" /\ f.in = top.out /\ f.out = <<>> /\ f.n = top.n - 1
      BY <1>1, <3>1 DEF Fr, Frames, FrameType
    <3> QED BY <1>4, <1>5, <2>2, <3>2, PlacedNone DEF Sorted
  <2>3. CASE top.st # "nodata" /\ h[top.x].level = 0
    <3>1. f = [[top EXCEPT !.n = @ - 1] EXCEPT !.st = "none"]
      BY <1>6, <2>3 DEF Swapped
    <3>2. f.do = "op" /\ f.st = "none" /\ f.in = top.in /\ f.out = top.out
      BY <1>1, <3>1 DEF Fr, Frames, FrameType
    <3>3. headers # "failed" => Passing(top)
      BY <1>1, <1>2 DEF FlowInv, Exempt, Flowing, Carries
    <3>4. headers # "failed" => top.n - 1 = 0
      BY <1>0, <2>3, <3>3 DEF Passing
    <3> QED BY <1>4, <1>5, <2>3, <3>2, <3>4, PlacedNone DEF Sorted
  <2> QED BY <2>1, <2>2, <2>3
<1> QED BY <1>0, <1>1, <1>7, <1>8, TopOrder

\* The innermost call returns.
LEMMA ReturnOrder ==
    ASSUME OutputInv, BracketInv, InSequence, calls # <<>>, calls' = rest,
           headers = "failed" => headers' = "failed", UNCHANGED <<h, handlers, sent>>
    PROVE  InSequence'
<1>1. Calls = {top} \cup Below
  BY Core DEF BracketInv
<1>2. Calls' = Below
  BY DEF Calls, Below
<1> QED BY <1>1, <1>2, QuietOrder

\* The client gets what belongs before all buffers.
LEMMA SapiWriteOrder ==
    ASSUME OutputInv, BracketInv, InSequence, SapiWrite
    PROVE  InSequence'
<1>0. /\ Doing("op") /\ top.st = "none" /\ calls' = rest
      /\ UNCHANGED <<h, handlers>>
  BY DEF SapiWrite
<1>1. calls # <<>> /\ top.do = "op" /\ top \in Fr
  BY <1>0, DoingTypes
<1>2. headers = "failed" => headers' = "failed"
  BY DEF SapiWrite, php_output_header
<1>3. CASE headers' = "failed"
  <2>1. sent' = sent
    BY <1>3 DEF SapiWrite
  <2> QED BY <1>0, <1>1, <1>2, <2>1, ReturnOrder
<1>4. CASE headers' # "failed"
  <2>1. PICK d : d = top.out
    OBVIOUS
  <2>2. sent' = sent \o d /\ headers # "failed"
    BY <1>2, <1>4, <2>1 DEF SapiWrite
  <2>3. /\ Calls = {top} \cup Below
        /\ \A g \in Below : g.do \in {"op", "flush", "clean", "pop"} => g.st = "wait"
    BY <1>1, Core DEF BracketInv
  <2>4. Placed(d, 0)
    BY <1>0, <1>1, <2>1, <2>2, <2>3 DEF InSequence, Sorted
  <2>5. /\ d \in Seq(1..written) /\ sent \in Seq(1..written) /\ written \in Nat
        /\ Len(handlers) \in Nat
    BY <1>1, <2>1, BufferTypes
  <2>6. Rises(sent \o d) /\ ToSet(sent \o d) = ToSet(sent) \cup ToSet(d)
    <3>1. Rises(sent) /\ Rises(d) /\ Before(sent, d)
      BY <2>4 DEF InSequence, BuffersRise, Placed
    <3>2. PICK s \in Seq(1..written) : s = sent
      BY <2>5
    <3>3. Rises(s \o d)
      BY <2>5, <3>1, <3>2, OrderJoined
    <3>4. ToSet(s \o d) = ToSet(s) \cup ToSet(d)
      BY <2>5, Joined
    <3> QED BY <3>2, <3>3, <3>4
  <2>7. \A i \in 1..Len(handlers) : Buf(i)' = Buf(i)
    BY <1>0 DEF Buf
  <2>8. ASSUME NEW i \in 1..Len(handlers) PROVE Before(sent \o d, Buf(i))
    <3>1. Before(sent, Buf(i))
      BY DEF InSequence, BuffersRise
    <3>2. Before(d, Buf(i))
      <4>1. i > 0
        BY <2>5
      <4> QED BY <2>4, <4>1 DEF Placed
    <3> QED BY <2>6, <3>1, <3>2 DEF Before
  <2>9. BuffersRise'
    BY <1>0, <2>2, <2>6, <2>7, <2>8 DEF InSequence, BuffersRise
  <2>10. AwayEmpty'
    BY <1>0 DEF InSequence, AwayEmpty, Disabled
  <2>11. ASSUME NEW g \in Calls' PROVE Sorted(g)'
    <3>1. g \in Below
      BY <1>0, <2>11 DEF Calls, Below
    <3>2. Sorted(g) /\ (g.do \in {"op", "flush", "clean", "pop"} => g.st = "wait")
      BY <2>3, <3>1 DEF InSequence
    <3> QED BY <1>0, <3>2, BelowSorted
  <2> QED BY <2>9, <2>10, <2>11 DEF InSequence
<1> QED BY <1>3, <1>4

-----------------------------------------------------------------------------
(* Bailouts and the parts of a request *)

LEMMA ClearedSorted ==
    ASSUME OutputInv, phase \in Phases \ {"off", "undefined"}, NextPhase
    PROVE  \A f \in Calls' : f.do = "all" /\ Sorted(f) /\ Sorted(f)'
<1>1. \A f \in Calls' : f.do = "all"
  BY Cleared
<1> QED BY <1>1 DEF Sorted

LEMMA PhaseOrder ==
    ASSUME OutputInv, InSequence, phase \in Phases \ {"off", "undefined"}, NextPhase,
           headers = "failed" => headers' = "failed", UNCHANGED <<h, handlers, sent>>
    PROVE  InSequence'
<1>1. \A f \in Calls' : Sorted(f)
  BY ClearedSorted
<1> QED BY <1>1, QuietOrder

LEMMA DeactivatedOrder ==
    ASSUME OutputInv, InSequence, phase \in Phases \ {"off", "undefined"}, NextPhase,
           php_output_deactivate, sent' = sent
    PROVE  InSequence'
<1>1. \A f \in Calls' : Sorted(f)'
  BY ClearedSorted
<1>2. handlers' = <<>> /\ h' = Freed(ToSet(handlers)) /\ Len(<<>>) = 0 /\ 1..0 = {}
  BY DEF php_output_deactivate
<1>3. BuffersRise'
  BY <1>2 DEF InSequence, BuffersRise
<1>4. PICK X : X = ToSet(handlers)
  OBVIOUS
<1>5. h' = Freed(X) /\ Len(h') = Len(h) /\ DOMAIN h = 1..Len(h)
  BY <1>2, <1>4, FreedType, Sizes
<1>6. ASSUME NEW x \in 1..Len(h) PROVE h'[x].buffer = <<>>
  <2>1. CASE x \in X
    <3>1. h'[x] = [h[x] EXCEPT !.live = FALSE, !.buffer = <<>>]
      BY <1>5, <2>1 DEF Freed
    <3>2. h[x] \in HandlerType(written)
      BY Sizes
    <3> QED BY <3>1, <3>2 DEF HandlerType
  <2>2. CASE x \notin X
    <3>1. h'[x] = h[x]
      BY <1>5, <2>2 DEF Freed
    <3> QED BY <1>4, <2>2, <3>1 DEF InSequence, AwayEmpty
  <2> QED BY <2>1, <2>2
<1>7. AwayEmpty'
  BY <1>5, <1>6 DEF AwayEmpty
<1> QED BY <1>1, <1>3, <1>7 DEF InSequence

LEMMA BailoutOrder ==
    ASSUME OutputInv, InSequence, phase \in Phases \ {"off", "undefined"},
           NEW l \in BOOLEAN, Bailout(l), headers = "failed" => headers' = "failed"
    PROVE  InSequence'
<1>1. CASE l \/ phase = "flush"
  BY <1>1, DeactivatedOrder DEF Bailout
<1>2. CASE ~(l \/ phase = "flush")
  BY <1>2, PhaseOrder DEF Bailout
<1> QED BY <1>1, <1>2

LEMMA ExitOrder ==
    ASSUME OutputInv, InSequence, Exit
    PROVE  InSequence'
<1>1. Op /\ Bailout(FALSE) /\ (headers = "failed" => headers' = "failed")
  BY DEF Exit, php_output_header
<1>2. phase \in Phases \ {"off", "undefined"}
  BY <1>1, OpTypes
<1> QED BY <1>1, <1>2, BailoutOrder

LEMMA LockedOrder ==
    ASSUME OutputInv, InSequence, HandlerLocked
    PROVE  InSequence'
<1>1. Bailout(TRUE) /\ Calling /\ (headers = "failed" => headers' = "failed")
  BY DEF HandlerLocked, LockError, php_output_header
<1>2. phase \in Phases \ {"off", "undefined"}
  BY <1>1, BufferType DEF OutputInv, DataOK
<1> QED BY <1>1, <1>2, BailoutOrder

LEMMA EndOfPhaseOrder ==
    ASSUME OutputInv, InSequence, EndOfPhase
    PROVE  InSequence'
<1>1. /\ phase \in Phases \ {"off", "undefined"} /\ NextPhase
      /\ UNCHANGED <<h, handlers, sent, headers>>
  BY DEF EndOfPhase, Phases
<1> QED BY <1>1, PhaseOrder

LEMMA EndAllOrder ==
    ASSUME OutputInv, InSequence, EndAll
    PROVE  InSequence'
<1>1. CASE Popped /\ Call(PopFrame(active, top.discard))
  <2>1. active \in 1..Len(h)
    BY <1>1 DEF OutputInv, DataOK, Popped
  <2>2. PICK d : d = top.discard
    OBVIOUS
  <2>3. PICK f : f = PopFrame(active, d)
    OBVIOUS
  <2>4. Sorted(f)
    BY <2>1, <2>3, PopFrameSorted DEF InSequence
  <2> QED BY <1>1, <2>2, <2>3, <2>4, ScriptCallsOrder
<1>2. CASE ~(Popped /\ Call(PopFrame(active, top.discard)))
  <2>1. Doing("all") /\ php_output_deactivate /\ NextPhase /\ sent' = sent
    BY <1>2 DEF EndAll
  <2>2. phase \in Phases \ {"off", "undefined"}
    BY <2>1, DoingTypes
  <2> QED BY <2>1, <2>2, DeactivatedOrder
<1> QED BY <1>1, <1>2

LEMMA ClientGoneOrder ==
    ASSUME OutputInv, BracketInv, InSequence, ClientGone
    PROVE  InSequence'
<1>1. Doing("op") /\ headers' = "failed"
  BY DEF ClientGone
<1>2. calls # <<>> /\ phase \in Phases \ {"off", "undefined"}
  BY <1>1, DoingTypes
<1>3. CASE Bailout(FALSE)
  BY <1>1, <1>2, <1>3, BailoutOrder
<1>4. CASE calls' = rest /\ UNCHANGED <<h, handlers, sent>>
  BY <1>1, <1>2, <1>4, ReturnOrder
<1> QED BY <1>3, <1>4 DEF ClientGone

-----------------------------------------------------------------------------
(* Handlers are created *)

\* A handler with nothing in its buffer is pushed.
LEMMA PushedRise ==
    ASSUME OutputInv, BuffersRise, NEW x, handlers' = Append(handlers, x), sent' = sent,
           \A y \in 1..Len(h) : h'[y] = h[y], h'[x].buffer = <<>>
    PROVE  /\ BuffersRise' /\ ToSet(handlers') = ToSet(handlers) \cup {x}
           /\ Len(handlers') = Len(handlers) + 1
           /\ \A i \in 1..Len(handlers') : \/ i \in 1..Len(handlers) /\ handlers'[i] = handlers[i]
                                           \/ handlers'[i] = x
<1>1. handlers \in Seq(1..Len(h)) /\ Len(handlers) \in Nat
  BY DEF OutputInv, DataOK
<1>2. /\ Len(handlers') = Len(handlers) + 1
      /\ \A i \in 1..Len(handlers) : handlers'[i] = handlers[i]
      /\ handlers'[Len(handlers) + 1] = x
      /\ ToSet(handlers') = ToSet(handlers) \cup {x}
  BY <1>1, HandlerPushed
<1>3. \A i \in 1..Len(handlers') : \/ i \in 1..Len(handlers) /\ handlers'[i] = handlers[i]
                                   \/ handlers'[i] = x
  BY <1>1, <1>2
<1>4. \A i \in 1..Len(handlers') :
         \/ i \in 1..Len(handlers) /\ h'[handlers'[i]].buffer = Buf(i)
         \/ h'[handlers'[i]].buffer = <<>>
  <2> SUFFICES ASSUME NEW i \in 1..Len(handlers')
               PROVE  \/ i \in 1..Len(handlers) /\ h'[handlers'[i]].buffer = Buf(i)
                      \/ h'[handlers'[i]].buffer = <<>>
    OBVIOUS
  <2>1. CASE handlers'[i] = x
    BY <2>1
  <2>2. CASE i \in 1..Len(handlers) /\ handlers'[i] = handlers[i]
    <3>1. handlers[i] \in 1..Len(h)
      BY <1>1, <2>2
    <3> QED BY <2>2, <3>1 DEF Buf
  <2> QED BY <1>3, <2>1, <2>2
<1>5. \A i \in 1..Len(handlers') : Rises(h'[handlers'[i]].buffer)
                                   /\ Before(sent', h'[handlers'[i]].buffer)
  BY <1>4, EmptyOrder DEF BuffersRise
<1>6. ASSUME NEW i \in 1..Len(handlers'), NEW j \in 1..Len(handlers'), i < j
      PROVE  Before(h'[handlers'[i]].buffer, h'[handlers'[j]].buffer)
  BY <1>4, <1>6, EmptyOrder DEF BuffersRise
<1>7. BuffersRise'
  BY <1>5, <1>6 DEF BuffersRise, Buf
<1> QED BY <1>2, <1>3, <1>7

LEMMA StartOrder ==
    ASSUME OutputInv, BracketInv, InSequence, NEW k \in Kinds, ObStart(k)
    PROVE  OrderInv'
<1>1. Op /\ phase \in Phases \ {"off", "undefined"}
  BY OpTypes DEF ObStart
<1>2. CASE LockError
  <2>1. Bailout(TRUE) /\ (headers = "failed" => headers' = "failed")
    BY <1>2 DEF LockError, php_output_header
  <2> QED BY <1>1, <2>1, BailoutOrder DEF OrderInv
<1>3. CASE Undefined
  BY <1>3 DEF Undefined, OrderInv
<1>4. CASE /\ h' = Append(h, [user |-> k.user, size |-> k.size, can |-> k.can,
                              started |-> FALSE, disabled |-> FALSE,
                              level |-> Len(handlers), buffer |-> <<>>,
                              live |-> TRUE, life |-> "new"])
           /\ handlers' = Append(handlers, Len(h'))
           /\ UNCHANGED <<calls, sent>>
  <2>1. PICK e : e = [user |-> k.user, size |-> k.size, can |-> k.can,
                      started |-> FALSE, disabled |-> FALSE,
                      level |-> Len(handlers), buffer |-> <<>>,
                      live |-> TRUE, life |-> "new"]
    OBVIOUS
  <2>2. e.buffer = <<>>
    BY <2>1
  <2>3. PICK x : x = Len(h')
    OBVIOUS
  <2>4. /\ x \notin 1..Len(h) /\ h'[x] = e
        /\ \A y \in 1..Len(h') : y \in 1..Len(h) \/ y = x
        /\ \A y \in 1..Len(h) : h'[y] = h[y]
    <3>1. h' = Append(h, e) /\ h \in Seq(HandlerType(written) \cup {e}) /\ Len(h) \in Nat
      <4>1. h \in Seq(HandlerType(written)) /\ Len(h) \in Nat
        BY Sizes DEF OutputInv, DataOK
      <4> QED BY <1>4, <2>1, <4>1, SeqMonotonic
    <3>2. /\ Len(h') = Len(h) + 1 /\ \A y \in 1..Len(h) : h'[y] = h[y]
          /\ h'[Len(h) + 1] = e
      BY <3>1
    <3> QED BY <2>3, <3>1, <3>2
  <2>5. /\ BuffersRise' /\ ToSet(handlers') = ToSet(handlers) \cup {x}
        /\ \A i \in 1..Len(handlers') : \/ i \in 1..Len(handlers) /\ handlers'[i] = handlers[i]
                                        \/ handlers'[i] = x
    <3>1. handlers' = Append(handlers, x) /\ h'[x].buffer = <<>> /\ sent' = sent
      BY <1>4, <2>2, <2>3, <2>4
    <3> QED BY <2>4, <3>1, PushedRise DEF InSequence
  <2>6. ASSUME NEW y \in 1..Len(h'), y \in Disabled' \/ y \notin ToSet(handlers')
        PROVE  h'[y].buffer = <<>>
    <3>1. CASE y = x
      BY <2>2, <2>4, <3>1
    <3>2. CASE y # x
      <4>1. y \in 1..Len(h) /\ h'[y] = h[y]
        BY <2>4, <3>2
      <4>2. y \in Disabled \/ y \notin ToSet(handlers)
        BY <2>5, <2>6, <4>1 DEF Disabled
      <4> QED BY <4>1, <4>2 DEF InSequence, AwayEmpty
    <3> QED BY <3>1, <3>2
  <2>7. ASSUME NEW g \in Calls PROVE Sorted(g)'
    <3>1. Sorted(g)
      BY DEF InSequence
    <3>2. g.do \in {"op", "flush", "clean", "pop"} => g.st = "wait" /\ g.x \in 1..Len(h)
      <4>1. calls # <<>>
        BY OnNone DEF Calls
      <4>2. top.do = "user"
        BY <1>1, <4>1, OpTypes
      <4> QED BY <4>1, <4>2, Core DEF BracketInv
    <3>3. g.do = "user" => h'[g.x] = h[g.x]
      <4>1. calls # <<>>
        BY OnNone DEF Calls
      <4>2. g.do = "user" => g.x \in 1..Len(h)
        BY <4>1, Core DEF BracketInv
      <4> QED BY <2>4, <4>2
    <3>4. g.do = "op" => g.in = <<>> /\ \A i \in 1..Len(handlers') : handlers'[i] = g.x => i = g.n
      BY <2>4, <2>5, <3>1, <3>2 DEF Sorted
    <3>5. g.do \in {"flush", "clean", "pop"} => g.in = <<>>
      BY <3>1 DEF Sorted
    <3>6. g.do = "user" => Rises(g.in) /\ ToSet(g.in) \subseteq ToSet(h'[g.x].buffer)
      BY <3>1, <3>3 DEF Sorted
    <3> QED BY <3>2, <3>4, <3>5, <3>6 DEF Sorted, Done
  <2>8. Calls' = Calls
    BY <1>4 DEF Calls
  <2>9. AwayEmpty'
    BY <2>6 DEF AwayEmpty
  <2> QED BY <2>5, <2>7, <2>8, <2>9 DEF InSequence, OrderInv
<1> QED BY <1>2, <1>3, <1>4 DEF ObStart

-----------------------------------------------------------------------------
(* Handlers are run *)

\* A pass through the stack is at a handler that takes part: what goes in joins its buffer.
LEMMA PassJoins ==
    ASSUME OutputInv, BracketInv, InSequence, Calling, top.do = "op", NEW buf,
           buf = h[top.x].buffer \o top.in
    PROVE  /\ top.n \in 1..Len(handlers) /\ top.x = handlers[top.n]
           /\ top.x \in ToSet(handlers) /\ top.x \notin Disabled
           /\ \A i \in 1..Len(handlers) : handlers[i] = top.x => i = top.n
           /\ Rises(buf) /\ Before(sent, buf)
           /\ \A i \in 1..Len(handlers) : /\ i < top.n => Before(Buf(i), buf)
                                          /\ i > top.n => Before(buf, Buf(i))
<1>1. calls # <<>> /\ top.st = "call" /\ top \in Calls /\ top \in Fr
  <2>1. calls # <<>> /\ top.st = "call"
    BY DEF Calling
  <2> QED BY <2>1, Core DEF BracketInv
<1>2. /\ top.n \in 1..Len(handlers) /\ top.x = handlers[top.n] /\ top.x \notin Disabled
      /\ \A i \in 1..Len(handlers) : handlers[i] = top.x => i = top.n
      /\ Placed(top.in, top.n)
  BY <1>1 DEF InSequence, Sorted
<1>3. top.x \in ToSet(handlers)
  <2>1. DOMAIN handlers = 1..Len(handlers)
    BY DEF OutputInv, DataOK
  <2> QED BY <1>2, <2>1 DEF ToSet
<1>4. PICK n \in 1..Len(handlers), d \in Seq(1..written) : n = top.n /\ d = top.in
  BY <1>1, <1>2, BufferTypes
<1>5. buf = Buf(n) \o d
  BY <1>2, <1>4 DEF Buf
<1>6. Placed(d, n)
  BY <1>2, <1>4
<1>7. /\ Rises(Buf(n) \o d) /\ Before(sent, Buf(n) \o d)
      /\ \A i \in 1..Len(handlers) : /\ i < n => Before(Buf(i), Buf(n) \o d)
                                     /\ i > n => Before(Buf(n) \o d, Buf(i))
  BY <1>6, BufferAndMore DEF InSequence
<1> QED BY <1>2, <1>3, <1>4, <1>5, <1>7

\* The calls below the one that runs the handler x.
LEMMA RunBelow ==
    ASSUME OutputInv, BracketInv, InSequence, calls # <<>>, handlers' = handlers,
           \A y \in 1..Len(h) : ToSet(h[y].buffer) \subseteq ToSet(h'[y].buffer)
                                \/ \A u \in Below : u.do # "user" \/ u.x # y
    PROVE  \A g \in Below : Sorted(g)'
<1> SUFFICES ASSUME NEW g \in Below PROVE Sorted(g)'
  OBVIOUS
<1>1. /\ Sorted(g) /\ (g.do \in {"op", "flush", "clean", "pop"} => g.st = "wait")
      /\ g.do = "user" => g.x \in 1..Len(h)
  BY Core DEF BracketInv, InSequence
<1>2. g.do = "user" => ToSet(h[g.x].buffer) \subseteq ToSet(h'[g.x].buffer)
  BY <1>1
<1> QED BY <1>1, <1>2, BelowSorted

LEMMA StoresOrder ==
    ASSUME OutputInv, BracketInv, FlowInv, InSequence, HandlerStores
    PROVE  InSequence'
<1>0. Calling /\ top.op = {} /\ UNCHANGED <<handlers, sent, headers>>
  BY DEF HandlerStores
<1>1. calls # <<>> /\ CallsInv /\ top.st = "call" /\ FrameInv(top) /\ top.x \in 1..Len(h)
  BY <1>0, ToBeRun
<1>2. top.do = "op" /\ top \in Fr /\ top \in Calls /\ phase \notin {"off", "undefined"}
  BY <1>0, <1>1, Core, BufferType DEF FrameInv
<1>3. PICK x \in 1..Len(h) : x = top.x
  BY <1>1
<1>4. PICK f : f = [top EXCEPT !.in = <<>>, !.st = "nodata"]
  OBVIOUS
<1>5. f.do = "op" /\ f.st = "nodata" /\ f.n = top.n /\ f.x = x /\ f.in = <<>> /\ f.out = top.out
  BY <1>2, <1>3, <1>4 DEF Fr, Frames, FrameType
<1>6. PICK buf : buf = h[top.x].buffer \o top.in
  OBVIOUS
<1>7. h' = [h EXCEPT ![x].buffer = buf] /\ calls' = <<f>> \o rest
  BY <1>3, <1>4, <1>6 DEF HandlerStores
<1>8. /\ Len(h') = Len(h)
      /\ \A y \in 1..Len(h) : y # x => h'[y] = h[y]
      /\ h'[x].buffer = buf /\ h'[x].disabled = h[x].disabled
  <2>1. h \in Seq(HandlerType(written)) /\ DOMAIN h = 1..Len(h)
    BY Sizes DEF OutputInv, DataOK
  <2>2. h'[x] = [h[x] EXCEPT !.buffer = buf] /\ h[x] \in HandlerType(written)
    BY <1>7, <2>1
  <2>3. h'[x].buffer = buf /\ h'[x].disabled = h[x].disabled
    BY <2>2 DEF HandlerType
  <2>4. Len(h') = Len(h) /\ \A y \in 1..Len(h) : y # x => h'[y] = h[y]
    BY <1>7, <2>1
  <2> QED BY <2>3, <2>4
<1>9. PICK n \in 1..Len(handlers) : n = top.n /\ x = handlers[n]
  BY <1>0, <1>2, <1>3, <1>6, PassJoins
<1>10. /\ x \in ToSet(handlers) /\ x \notin Disabled
       /\ \A i \in 1..Len(handlers) : handlers[i] = x => i = n
       /\ Rises(buf) /\ Before(sent, buf)
       /\ \A i \in 1..Len(handlers) : /\ i < n => Before(Buf(i), buf)
                                      /\ i > n => Before(buf, Buf(i))
  BY <1>0, <1>2, <1>3, <1>6, <1>9, PassJoins
<1>11. BuffersRise'
  <2>1. \A y \in 1..Len(h) : y # handlers[n] => h'[y].buffer = h[y].buffer
    BY <1>8, <1>9
  <2>2. h'[handlers[n]].buffer = buf
    BY <1>8, <1>9
  <2> QED BY <1>0, <1>10, <2>1, <2>2, BufferChanged DEF InSequence
<1>12. AwayEmpty'
  BY <1>0, <1>8, <1>10, AwayRun DEF InSequence
<1>13. Sorted(f)'
  <2>1. headers # "failed" => f.out = <<>>
    BY <1>1, <1>2, <1>5 DEF FlowInv, Exempt, Flowing, Carries
  <2>2. Placed(<<>>, 0)'
    BY EmptyOrder DEF Placed
  <2> QED BY <1>0, <1>5, <1>9, <1>10, <2>1, <2>2 DEF Sorted
<1>14. ToSet(buf) = ToSet(h[x].buffer) \cup ToSet(top.in)
  BY <1>0, <1>3, <1>6, BufferJoined
<1>15. \A g \in Below : Sorted(g)'
  <2>1. \A y \in 1..Len(h) : ToSet(h[y].buffer) \subseteq ToSet(h'[y].buffer)
    BY <1>8, <1>14
  <2> QED BY <1>0, <1>1, <2>1, RunBelow
<1>16. Calls' = {f} \cup Below
  <2>1. rest \in Seq(Fr)
    BY <1>1, Core
  <2>2. PICK F : rest \in Seq(F) /\ f \in F
    <3>1. rest \in Seq(Fr \cup {f})
      BY <2>1, SeqMonotonic
    <3> QED BY <3>1
  <2> QED BY <1>7, <2>2, OnPushed DEF Calls, Below
<1> QED BY <1>11, <1>12, <1>13, <1>15, <1>16 DEF InSequence

\* The buffer of any handler is in order.
LEMMA OneRises ==
    ASSUME OutputInv, InSequence, NEW x \in 1..Len(h)
    PROVE  Rises(h[x].buffer)
<1>1. CASE x \notin ToSet(handlers)
  BY <1>1, EmptyOrder DEF InSequence, AwayEmpty
<1>2. CASE x \in ToSet(handlers)
  <2>1. DOMAIN handlers = 1..Len(handlers)
    BY DEF OutputInv, DataOK
  <2>2. PICK i \in 1..Len(handlers) : handlers[i] = x
    BY <1>2, <2>1 DEF ToSet
  <2> QED BY <2>2 DEF InSequence, BuffersRise, Buf
<1> QED BY <1>1, <1>2

\* OG(active), if it is on the stack, is its top.
LEMMA ActiveOnTop ==
    ASSUME OutputInv, BracketInv, NEW i \in 1..Len(handlers), handlers[i] = active
    PROVE  i = Len(handlers)
<1>1. handlers \in Seq(1..Len(h)) /\ Len(h) \in Nat /\ Distinct(handlers)
  BY Sizes DEF OutputInv, DataOK, BracketInv, StackInv
<1>2. active \in ToSet(handlers) /\ handlers # <<>>
  BY <1>1 DEF ToSet
<1>3. active = handlers[Len(handlers)] /\ Len(handlers) \in 1..Len(handlers)
  <2>1. active = Last(handlers)
    BY <1>2 DEF BracketInv, StackInv
  <2>2. Len(handlers) \in Nat \ {0} /\ Last(handlers) = handlers[Len(handlers)]
    BY <1>1, <1>2, HandlerPopped
  <2> QED BY <2>1, <2>2
<1> QED BY <1>1, <1>3 DEF Distinct

\* php_output_handler_op is called with nothing but by php_output_op.
LEMMA OnlyOpBrings ==
    ASSUME OutputInv, BracketInv, InSequence, Calling, top.do # "op"
    PROVE  /\ top.in = <<>> /\ h[top.x].buffer \o top.in = h[top.x].buffer
           /\ active = top.x /\ top.do \in {"flush", "clean", "pop"}
<1>1. calls # <<>> /\ top.st = "call" /\ FrameInv(top) /\ top.x \in 1..Len(h)
  BY ToBeRun
<1>2. top \in Calls /\ top \in Fr
  BY <1>1, Core DEF BracketInv
<1>3. top.do \in {"flush", "clean", "pop"} /\ active = top.x
  BY <1>1 DEF FrameInv
<1>4. top.in = <<>>
  BY <1>2, <1>3 DEF InSequence, Sorted
<1>5. PICK s \in Seq(1..written) : s = h[top.x].buffer
  BY <1>1, BufferTypes
<1>6. s \o <<>> = s
  OBVIOUS
<1> QED BY <1>3, <1>4, <1>5, <1>6

LEMMA CalledOrder ==
    ASSUME OutputInv, BracketInv, InSequence, HandlerCalled
    PROVE  InSequence'
<1>0. Calling /\ UNCHANGED <<handlers, sent, headers>>
  BY DEF HandlerCalled
<1>1. calls # <<>> /\ CallsInv /\ top.st = "call" /\ FrameInv(top) /\ top.x \in 1..Len(h)
  BY <1>0, ToBeRun
<1>2. PICK x \in 1..Len(h) : x = top.x
  BY <1>1
<1>3. PICK buf : buf = h[top.x].buffer \o top.in
  OBVIOUS
<1>4. PICK op : op = IF h[x].started THEN top.op ELSE top.op \cup {"start"}
  OBVIOUS
<1>5. PICK u : u = [Frame("user", x) EXCEPT !.op = op, !.in = buf, !.life = h[x].life]
  OBVIOUS
<1>6. PICK f : f = [top EXCEPT !.in = <<>>, !.st = "wait"]
  OBVIOUS
<1>7. /\ h' = [h EXCEPT ![x].buffer = buf, ![x].life = Lived(op)]
      /\ calls' = <<u, f>> \o rest
  BY <1>2, <1>3, <1>4, <1>5, <1>6 DEF HandlerCalled
<1>8. top \in Fr /\ top \in Calls /\ rest \in Seq(Fr)
  BY <1>1, Core
<1>9. u.do = "user" /\ u.st = "none" /\ u.x = x /\ u.in = buf
  BY <1>5 DEF Frame
<1>10. f.do = top.do /\ f.st = "wait" /\ f.x = x /\ f.n = top.n /\ f.in = <<>>
  BY <1>2, <1>6, <1>8 DEF Fr, Frames, FrameType
<1>11. /\ Len(h') = Len(h)
       /\ \A y \in 1..Len(h) : y # x => h'[y] = h[y]
       /\ h'[x].buffer = buf /\ h'[x].disabled = h[x].disabled
  <2>1. h \in Seq(HandlerType(written)) /\ DOMAIN h = 1..Len(h)
    BY Sizes DEF OutputInv, DataOK
  <2>2. h[x] \in HandlerType(written)
    BY Sizes
  <2>3. Len(h') = Len(h)
    BY <1>7, <2>1
  <2>4. \A y \in 1..Len(h) : y # x => h'[y] = h[y]
    BY <1>7, <2>1
  <2>5. h'[x] = [h[x] EXCEPT !.buffer = buf, !.life = Lived(op)]
    BY <1>7, <2>1, <2>2 DEF HandlerType
  <2>6. h'[x].buffer = buf /\ h'[x].disabled = h[x].disabled
    BY <2>2, <2>5 DEF HandlerType
  <2> QED BY <2>3, <2>4, <2>6
<1>12. Calls' = {u, f} \cup Below
  <2>1. PICK F : rest \in Seq(F) /\ u \in F /\ f \in F
    <3>1. rest \in Seq(Fr \cup {u, f})
      BY <1>8, SeqMonotonic
    <3> QED BY <3>1
  <2>2. PICK s \in Seq(F) : s = <<f>> \o rest
    BY <2>1, Pushed
  <2>3. calls' = <<u>> \o s
    BY <1>7, <2>1, <2>2, PushedTwo
  <2>4. ToSet(s) = {f} \cup Below
    BY <2>1, <2>2, OnPushed DEF Below
  <2>5. Calls' = {u} \cup ToSet(s)
    BY <2>1, <2>3, OnPushed DEF Calls
  <2> QED BY <2>4, <2>5
<1>13. BuffersRise' /\ AwayEmpty' /\ Rises(buf) /\ Sorted(f)'
  <2>1. CASE top.do = "op"
    <3>1. PICK n \in 1..Len(handlers) : n = top.n /\ x = handlers[n]
      BY <1>0, <1>2, <1>3, <2>1, PassJoins
    <3>2. /\ x \in ToSet(handlers) /\ x \notin Disabled
          /\ \A i \in 1..Len(handlers) : handlers[i] = x => i = n
          /\ Rises(buf) /\ Before(sent, buf)
          /\ \A i \in 1..Len(handlers) : /\ i < n => Before(Buf(i), buf)
                                         /\ i > n => Before(buf, Buf(i))
      BY <1>0, <1>2, <1>3, <2>1, <3>1, PassJoins
    <3>3. BuffersRise'
      <4>1. \A y \in 1..Len(h) : y # handlers[n] => h'[y].buffer = h[y].buffer
        BY <1>11, <3>1
      <4>2. h'[handlers[n]].buffer = buf
        BY <1>11, <3>1
      <4> QED BY <1>0, <3>2, <4>1, <4>2, BufferChanged DEF InSequence
    <3>4. AwayEmpty'
      BY <1>0, <1>11, <3>2, AwayRun DEF InSequence
    <3>5. Sorted(f)'
      BY <1>0, <1>10, <2>1, <3>1, <3>2 DEF Sorted
    <3> QED BY <3>2, <3>3, <3>4, <3>5
  <2>2. CASE top.do # "op"
    <3>1. buf = h[x].buffer /\ top.do \in {"flush", "clean", "pop"}
      BY <1>0, <1>2, <1>3, <2>2, OnlyOpBrings
    <3>2. Rises(buf)
      BY <3>1, OneRises
    <3>3. BuffersRise'
      <4>1. \A i \in 1..Len(handlers) : h'[handlers[i]].buffer = Buf(i)
        BY <1>11, <3>1, BufferTypes DEF Buf
      <4> QED BY <1>0, <4>1, FewerRise DEF InSequence
    <3>4. AwayEmpty'
      BY <1>0, <1>11, <3>1, AwayRun DEF InSequence
    <3>5. Sorted(f)'
      BY <1>10, <3>1 DEF Sorted, Done
    <3> QED BY <3>2, <3>3, <3>4, <3>5
  <2> QED BY <2>1, <2>2
<1>14. Sorted(u)'
  BY <1>9, <1>11, <1>13 DEF Sorted
<1>15. \A g \in Below : Sorted(g)'
  <2>1. ToSet(buf) = ToSet(h[x].buffer) \cup ToSet(top.in)
    BY <1>0, <1>2, <1>3, BufferJoined
  <2>2. \A y \in 1..Len(h) : ToSet(h[y].buffer) \subseteq ToSet(h'[y].buffer)
    BY <1>11, <2>1
  <2> QED BY <1>0, <1>1, <2>2, RunBelow
<1> QED BY <1>12, <1>13, <1>14, <1>15 DEF InSequence

LEMMA NotEmpty ==
    ASSUME NEW S, NEW s \in Seq(S), s # <<>>
    PROVE  ToSet(s) # {}
<1>1. 1 \in DOMAIN s
  OBVIOUS
<1> QED BY <1>1 DEF ToSet

\* The buffer of one handler is emptied.
LEMMA EmptiedOrder ==
    ASSUME OutputInv, InSequence, NEW x \in 1..Len(h), Len(h') = Len(h), h'[x].buffer = <<>>,
           \A y \in 1..Len(h) : y # x => h'[y] = h[y], UNCHANGED <<handlers, sent>>
    PROVE  BuffersRise' /\ AwayEmpty'
<1>1. \A i \in 1..Len(handlers) : h'[handlers[i]].buffer \in {Buf(i), <<>>}
  BY BufferTypes DEF Buf
<1>2. BuffersRise'
  BY <1>1, FewerRise DEF InSequence
<1>3. AwayEmpty'
  BY AwayRun DEF InSequence
<1> QED BY <1>2, <1>3

\* The call that has run the active handler, other than php_output_op: it has what came
\* out of the handler.
LEMMA OwnSorted ==
    ASSUME OutputInv, BracketInv, InSequence, NEW x \in 1..Len(h), x = active,
           NEW b \in Seq(1..written), Rises(b), ToSet(b) \subseteq ToSet(h[x].buffer),
           h'[x].buffer = <<>>, \A y \in 1..Len(h) : y # x => h'[y] = h[y],
           UNCHANGED <<handlers, sent>>,
           NEW f, f.do \in {"flush", "clean", "pop"}, f.in = <<>>, f.x = x, f.out = b
    PROVE  Sorted(f)'
<1>1. PICK n : n = Len(handlers)
  OBVIOUS
<1>2. \A i \in 1..Len(handlers) : handlers[i] = x => i = n
  BY <1>1, ActiveOnTop
<1>3. b # <<>> => ToSet(b) # {}
  BY NotEmpty
<1>4. \A y \in 1..Len(h) : y # x => h'[y].buffer = h[y].buffer
  OBVIOUS
<1>5. Placed(b, n)' /\ (b # <<>> => x \in ToSet(handlers))
  BY <1>2, <1>3, <1>4, OwnPlaced
<1>6. Placed(b, Len(handlers))'
  BY <1>1, <1>5
<1> QED BY <1>5, <1>6 DEF Sorted

LEMMA InternalOrder ==
    ASSUME OutputInv, BracketInv, InSequence, HandlerInternal
    PROVE  InSequence'
<1>0. /\ Calling /\ ~Locked(top.op)
      /\ top.op # {} \/ Full(top.x, top.in, h[top.x].buffer \o top.in)
      /\ UNCHANGED <<handlers, sent, headers>>
  BY DEF HandlerInternal
<1>1. calls # <<>> /\ CallsInv /\ top.st = "call" /\ FrameInv(top) /\ top.x \in 1..Len(h)
  BY <1>0, ToBeRun
<1>2. PICK x \in 1..Len(h) : x = top.x
  BY <1>1
<1>3. PICK buf \in Seq(1..written) : buf = h[top.x].buffer \o top.in
  BY <1>0, BufferType
<1>4. PICK op : op = IF h[x].started THEN top.op ELSE top.op \cup {"start"}
  OBVIOUS
<1>5. PICK status \in {"nodata", "success"} :
         status = IF buf = <<>> THEN "nodata" ELSE "success"
  OBVIOUS
<1>6. PICK e : e = [Result(h[x], status) EXCEPT !.life = Lived(op)]
  OBVIOUS
<1>7. PICK f : f = [top EXCEPT !.in = <<>>, !.out = buf, !.st = status]
  OBVIOUS
<1>8. h' = [h EXCEPT ![x] = e] /\ calls' = <<f>> \o rest
  BY <1>2, <1>3, <1>4, <1>5, <1>6, <1>7 DEF HandlerInternal
<1>9. top \in Fr /\ top \in Calls /\ rest \in Seq(Fr)
  BY <1>1, Core
<1>10. f.do = top.do /\ f.st = status /\ f.x = x /\ f.n = top.n /\ f.in = <<>> /\ f.out = buf
  BY <1>2, <1>7, <1>9 DEF Fr, Frames, FrameType
<1>11. /\ Len(h') = Len(h)
       /\ \A y \in 1..Len(h) : y # x => h'[y] = h[y]
       /\ h'[x].buffer = <<>>
  <2>1. h \in Seq(HandlerType(written)) /\ DOMAIN h = 1..Len(h) /\ h[x] \in HandlerType(written)
    BY Sizes DEF OutputInv, DataOK
  <2>2. Len(h') = Len(h) /\ h'[x] = e
    BY <1>8, <2>1
  <2>3. \A y \in 1..Len(h) : y # x => h'[y] = h[y]
    BY <1>8, <2>1
  <2>4. e.buffer = <<>>
    BY <1>6, <2>1 DEF HandlerType, Result
  <2> QED BY <2>2, <2>3, <2>4
<1>12. Calls' = {f} \cup Below
  <2>1. PICK F : rest \in Seq(F) /\ f \in F
    <3>1. rest \in Seq(Fr \cup {f})
      BY <1>9, SeqMonotonic
    <3> QED BY <3>1
  <2> QED BY <1>8, <2>1, OnPushed DEF Calls, Below
<1>13. BuffersRise' /\ AwayEmpty'
  BY <1>0, <1>11, EmptiedOrder
<1>14. \A g \in Below : Sorted(g)'
  <2>1. \A g \in Below : g.do # "user"
    BY <1>0, <1>3, ReadyToRun
  <2> QED BY <1>0, <1>1, <2>1, RunBelow
<1>15. CASE top.do = "op"
  <2>1. PICK n \in 1..Len(handlers) : n = top.n /\ x = handlers[n]
    BY <1>0, <1>2, <1>3, <1>15, PassJoins
  <2>2. /\ \A i \in 1..Len(handlers) : handlers[i] = x => i = n
        /\ Rises(buf) /\ Before(sent, buf)
        /\ \A i \in 1..Len(handlers) : /\ i < n => Before(Buf(i), buf)
                                       /\ i > n => Before(buf, Buf(i))
    BY <1>0, <1>2, <1>3, <1>15, <2>1, PassJoins
  <2>3. \A y \in 1..Len(h) : y # handlers[n] => h'[y].buffer = h[y].buffer
    BY <1>11, <2>1
  <2>4. h'[handlers[n]].buffer = <<>>
    BY <1>11, <2>1
  <2>5. Placed(buf, n - 1)'
    BY <1>0, <2>2, <2>3, <2>4, GivenPlaced
  <2>6. status = "nodata" => Placed(buf, 0)'
    <3>1. status = "nodata" => buf = <<>>
      BY <1>5
    <3>2. Placed(<<>>, 0)'
      BY EmptyOrder DEF Placed
    <3> QED BY <3>1, <3>2
  <2>7. Sorted(f)'
    BY <1>0, <1>10, <1>15, <2>1, <2>2, <2>5, <2>6 DEF Sorted
  <2> QED BY <1>12, <1>13, <1>14, <2>7 DEF InSequence
<1>16. CASE top.do # "op"
  <2>1. buf = h[x].buffer /\ top.do \in {"flush", "clean", "pop"} /\ x = active
    BY <1>0, <1>2, <1>3, <1>16, OnlyOpBrings
  <2>2. Rises(buf)
    BY <2>1, OneRises
  <2>3. Sorted(f)'
    BY <1>0, <1>10, <1>11, <2>1, <2>2, OwnSorted
  <2> QED BY <1>12, <1>13, <1>14, <2>3 DEF InSequence
<1> QED BY <1>15, <1>16

LEMMA ReturnedOrder ==
    ASSUME OutputInv, BracketInv, InSequence,
           NEW status \in {"success", "nodata", "failure"}, Return(status)
    PROVE  InSequence'
<1>0. /\ InHandler /\ calls # <<>> /\ top.do = "user" /\ CallsInv
      /\ UNCHANGED <<handlers, sent, headers>>
  BY DEF Return, InHandler, BracketInv
<1>1. /\ rest # <<>> /\ Head(rest) \in Fr /\ Head(rest) = calls[2] /\ Head(rest).st = "wait"
      /\ Head(rest).do \in {"op", "flush", "clean", "pop"} /\ Head(rest).x = top.x
      /\ Tail(rest) \in Seq(Fr)
      /\ Calls = {top, Head(rest)} \cup ToSet(Tail(rest))
      /\ \A k \in ToSet(Tail(rest)) : k.do \in {"push", "free", "all"}
  BY <1>0, BelowUser
<1>2. PICK g \in Fr : g = Head(rest)
  BY <1>1
<1>3. PICK t \in Seq(Fr) : t = Tail(rest)
  BY <1>1
<1>4. top.x \in 1..Len(h) /\ top \in Fr /\ g \in Calls /\ FrameInv(g)
  <2>1. g \in Calls /\ top \in Calls
    BY <1>1, <1>2
  <2> QED BY <1>0, <2>1, Core DEF CallsInv, Calls
<1>5. PICK x \in 1..Len(h) : x = top.x
  BY <1>4
<1>6. /\ Rises(top.in) /\ ToSet(top.in) \subseteq ToSet(h[x].buffer)
      /\ g.in = <<>> /\ g.x = x
      /\ g.do = "op" => \A i \in 1..Len(handlers) : handlers[i] = x => i = g.n
  <2>1. Sorted(top) /\ Sorted(g)
    BY <1>1, <1>4 DEF InSequence
  <2>2. g.x = x /\ g.st = "wait" /\ g.do \in {"op", "flush", "clean", "pop"}
    BY <1>1, <1>2, <1>5
  <2> QED BY <1>0, <1>5, <2>1, <2>2 DEF Sorted
<1>7. PICK e : e = Result(h[x], status)
  OBVIOUS
<1>8. PICK o \in Seq(1..written) : o = Out(h[x], status, top.in)
  <2>1. h[x].buffer \in Seq(1..written) /\ top.in \in Seq(1..written) /\ <<>> \in Seq(1..written)
    BY <1>4, BufferTypes
  <2> QED BY <2>1 DEF Out
<1>9. /\ Rises(o) /\ ToSet(o) \subseteq ToSet(h[x].buffer)
      /\ status = "nodata" => o = <<>>
  <2>1. CASE status = "failure"
    BY <1>8, <2>1, OneRises DEF Out
  <2>2. CASE status = "success"
    BY <1>6, <1>8, <2>2 DEF Out
  <2>3. CASE status = "nodata"
    BY <1>8, <2>3, EmptyOrder, OnNone DEF Out
  <2> QED BY <2>1, <2>2, <2>3
<1>10. PICK f : f = [g EXCEPT !.out = o, !.st = status]
  OBVIOUS
<1>11. h' = [h EXCEPT ![x] = e] /\ calls' = <<f>> \o t
  BY <1>1, <1>2, <1>3, <1>5, <1>7, <1>8, <1>10 DEF Return
<1>12. f.do = g.do /\ f.st = status /\ f.x = x /\ f.n = g.n /\ f.in = <<>> /\ f.out = o
  BY <1>6, <1>10 DEF Fr, Frames, FrameType
<1>13. /\ Len(h') = Len(h)
       /\ \A y \in 1..Len(h) : y # x => h'[y] = h[y]
       /\ h'[x].buffer = <<>>
  <2>1. h \in Seq(HandlerType(written)) /\ DOMAIN h = 1..Len(h) /\ h[x] \in HandlerType(written)
    BY Sizes DEF OutputInv, DataOK
  <2>2. Len(h') = Len(h) /\ h'[x] = e
    BY <1>11, <2>1
  <2>3. \A y \in 1..Len(h) : y # x => h'[y] = h[y]
    BY <1>11, <2>1
  <2>4. e.buffer = <<>>
    BY <1>7, <2>1 DEF HandlerType, Result
  <2> QED BY <2>2, <2>3, <2>4
<1>14. Calls' = {f} \cup ToSet(t)
  <2>1. PICK F : t \in Seq(F) /\ f \in F
    <3>1. t \in Seq(Fr \cup {f})
      BY SeqMonotonic
    <3> QED BY <3>1
  <2> QED BY <1>11, <2>1, OnPushed DEF Calls
<1>15. BuffersRise' /\ AwayEmpty'
  BY <1>0, <1>13, EmptiedOrder
<1>16. \A k \in ToSet(t) : Sorted(k)'
  BY <1>1, <1>3 DEF Sorted
<1>17. Sorted(f)'
  <2>1. CASE g.do = "op"
    <3>1. PICK n : n = g.n
      OBVIOUS
    <3>2. \A i \in 1..Len(handlers) : handlers[i] = x => i = n
      BY <1>6, <2>1, <3>1
    <3>3. (o # <<>> => ToSet(o) # {}) /\ \A y \in 1..Len(h) : y # x => h'[y].buffer = h[y].buffer
      BY <1>13, NotEmpty
    <3>4. Placed(o, n - 1)'
      BY <1>0, <1>9, <1>13, <3>2, <3>3, OwnPlaced
    <3>5. Placed(<<>>, 0)'
      BY EmptyOrder DEF Placed
    <3> QED BY <1>0, <1>9, <1>12, <2>1, <3>1, <3>2, <3>4, <3>5 DEF Sorted
  <2>2. CASE g.do # "op"
    <3>1. f.do \in {"flush", "clean", "pop"}
      BY <1>1, <1>2, <1>12, <2>2
    <3>2. x = active
      BY <1>0, <1>4, <1>6, <1>12, <3>1 DEF FrameInv, Innermost
    <3> QED BY <1>0, <1>9, <1>12, <1>13, <3>1, <3>2, OwnSorted
  <2> QED BY <2>1, <2>2
<1> QED BY <1>14, <1>15, <1>16, <1>17 DEF InSequence

-----------------------------------------------------------------------------
(* Handlers are pushed, popped and destroyed *)

\* The top of the stack leaves it, with nothing in its buffer.
LEMMA TopLeaves ==
    ASSUME OutputInv, BracketInv, InSequence, handlers' = DelTop, UNCHANGED <<h, sent>>,
           handlers # <<>> => h[Last(handlers)].buffer = <<>>,
           NEW d, Placed(d, Len(handlers))
    PROVE  /\ BuffersRise' /\ AwayEmpty' /\ Placed(d, Len(handlers))'
           /\ \A i \in 1..Len(handlers') : i \in 1..Len(handlers) /\ handlers'[i] = handlers[i]
           /\ NewActive(handlers') = 0 => handlers' = <<>>
<1>1. handlers \in Seq(1..Len(h)) /\ Len(h) \in Nat /\ Distinct(handlers)
  BY Sizes DEF OutputInv, DataOK, BracketInv, StackInv
<1>2. /\ DelTop \in Seq(1..Len(h))
      /\ handlers = <<>> => DelTop = <<>>
      /\ handlers # <<>> => ToSet(DelTop) = ToSet(handlers) \ {Last(handlers)}
      /\ \A i \in 1..Len(DelTop) : i \in 1..Len(handlers) /\ DelTop[i] = handlers[i]
      /\ NewActive(DelTop) = 0 => DelTop = <<>>
  BY <1>1, HandlerPopped
<1>3. \A i \in 1..Len(handlers') : /\ i \in 1..Len(handlers) /\ handlers'[i] = handlers[i]
                                   /\ h'[handlers'[i]].buffer = Buf(i)
  BY <1>2 DEF Buf
<1>4. BuffersRise'
  BY <1>3, FewerRise DEF InSequence
<1>5. ASSUME NEW y \in 1..Len(h), y \in Disabled' \/ y \notin ToSet(DelTop)
      PROVE  h[y].buffer = <<>>
  <2>1. Disabled' = Disabled
    BY DEF Disabled
  <2>2. CASE y \in Disabled \/ y \notin ToSet(handlers)
    BY <2>2 DEF InSequence, AwayEmpty
  <2>3. CASE y \notin Disabled /\ y \in ToSet(handlers)
    BY <1>2, <1>5, <2>1, <2>3, OnNone
  <2> QED BY <2>2, <2>3
<1>6. AwayEmpty'
  BY <1>5 DEF AwayEmpty
<1>7. Placed(d, Len(handlers))'
  <2>1. PICK n \in Nat, m \in Nat : n = Len(handlers) /\ m = Len(DelTop)
    BY <1>1, <1>2
  <2>2. \A i \in 1..Len(handlers') : i <= n /\ i <= m
    BY <1>3, <2>1
  <2>3. Placed(d, m)'
    BY <1>3, <2>1, <2>2, FewerPlaced
  <2> QED BY <2>1, <2>3
<1> QED BY <1>2, <1>3, <1>4, <1>6, <1>7

\* ... and php_output_op is called with what came out of it.
LEMMA OpFrameSortedNext ==
    ASSUME NEW act, NEW data, NEW f, f = OpFrame(handlers', act, data),
           Placed(data, Len(handlers))', act = 0 => handlers' = <<>>
    PROVE  Sorted(f)'
<1>1. /\ f.do = "op" /\ f.st = "none"
      /\ \/ act # 0 /\ handlers' # <<>> /\ f.in = data /\ f.out = <<>> /\ f.n = Len(handlers')
         \/ (act = 0 \/ handlers' = <<>>) /\ f.in = <<>> /\ f.out = data /\ f.n = 0
  BY OpFrameFields
<1>2. handlers' = <<>> => Len(handlers') = 0
  OBVIOUS
<1>3. \A n : Placed(<<>>, n)'
  BY EmptyOrder DEF Placed
<1>4. Placed(f.in, f.n)' /\ Placed(f.out, 0)'
  <2>1. CASE act # 0 /\ handlers' # <<>>
    <3>1. f.in = data /\ f.n = Len(handlers') /\ f.out = <<>>
      BY <1>1, <2>1
    <3> QED BY <1>3, <3>1
  <2>2. CASE act = 0 \/ handlers' = <<>>
    <3>1. f.in = <<>> /\ f.n = 0 /\ f.out = data /\ Len(handlers') = 0
      BY <1>1, <1>2, <2>2
    <3> QED BY <1>3, <3>1
  <2> QED BY <2>1, <2>2
<1> QED BY <1>1, <1>4 DEF Sorted

LEMMA FlushWritesOrder ==
    ASSUME OutputInv, BracketInv, InSequence, FlushWrites
    PROVE  InSequence'
<1>0. Doing("flush") /\ CallsInv /\ UNCHANGED <<h, active, sent, headers>>
  BY DEF FlushWrites, BracketInv
<1>1. calls # <<>> /\ top.do = "flush" /\ top.st \notin {"call", "wait"}
  BY <1>0, DoingTypes
<1>2. rest = <<>> /\ FrameInv(top) /\ Calls = {top} /\ top.x \in 1..Len(h)
  <2>1. rest = <<>>
    BY <1>0, <1>1, Core DEF Link
  <2> QED BY <1>0, <1>1, <2>1, Core
<1>3. CASE top.out = <<>>
  <2>1. calls' = rest /\ UNCHANGED handlers
    BY <1>3 DEF FlushWrites
  <2> QED BY <1>0, <1>1, <2>1, ReturnOrder
<1>4. CASE top.out # <<>>
  <2>1. /\ handlers' = DelTop
        /\ calls' = <<OpFrame(DelTop, active, top.out), Frame("push", top.x)>> \o rest
    BY <1>4 DEF FlushWrites
  <2>2. PICK x \in 1..Len(h) : x = top.x
    BY <1>2
  <2>3. Placed(top.out, Len(handlers)) /\ h[x].buffer = <<>> /\ x \in ToSet(handlers)
    BY <1>1, <1>2, <1>4, <2>2 DEF InSequence, Sorted, Done
  <2>4. active = x /\ x # 0
    BY <1>1, <1>2, <2>2, Sizes DEF FrameInv, Innermost
  <2>5. Last(handlers) = x
    BY <2>3, <2>4 DEF BracketInv, StackInv
  <2>6. PICK d : d = top.out
    OBVIOUS
  <2>7. BuffersRise' /\ AwayEmpty' /\ Placed(d, Len(handlers))'
    BY <1>0, <2>1, <2>3, <2>5, <2>6, TopLeaves
  <2>8. PICK f : f = OpFrame(DelTop, active, d)
    OBVIOUS
  <2>9. Sorted(f)'
    BY <2>1, <2>4, <2>7, <2>8, OpFrameSortedNext
  <2>10. PICK g : g = Frame("push", x)
    OBVIOUS
  <2>11. g.do = "push"
    BY <2>10 DEF Frame
  <2>12. Sorted(g)'
    BY <2>11 DEF Sorted
  <2>13. Calls' = {f, g}
    <3>1. calls' = <<f, g>> \o <<>>
      BY <1>2, <2>1, <2>2, <2>6, <2>8, <2>10
    <3>2. PICK F : f \in F /\ g \in F
      <4>1. f \in {f, g} /\ g \in {f, g}
        OBVIOUS
      <4> QED BY <4>1
    <3>3. <<>> \in Seq(F)
      OBVIOUS
    <3>4. calls' = <<f>> \o (<<g>> \o <<>>)
      BY <3>1, <3>2, <3>3, PushedTwo
    <3>5. PICK s \in Seq(F) : s = <<g>> \o <<>>
      BY <3>2, <3>3, Pushed
    <3>6. ToSet(s) = {g}
      <4>1. PICK e \in Seq(F) : e = <<>>
        BY <3>3
      <4>2. ToSet(<<g>> \o e) = {g} \cup ToSet(e)
        BY <3>2, OnPushed
      <4> QED BY <3>5, <4>1, <4>2, OnNone
    <3>7. Calls' = {f} \cup ToSet(s)
      BY <3>2, <3>4, <3>5, OnPushed DEF Calls
    <3> QED BY <3>6, <3>7
  <2> QED BY <2>7, <2>9, <2>12, <2>13 DEF InSequence
<1> QED BY <1>3, <1>4

LEMMA FlushReturnsOrder ==
    ASSUME OutputInv, BracketInv, InSequence, FlushReturns
    PROVE  OrderInv'
<1>0. Doing("push") /\ CallsInv
  BY DEF FlushReturns, BracketInv
<1>1. calls # <<>> /\ top.do = "push"
  BY <1>0, DoingTypes
<1>2. rest = <<>> /\ top.x \in 1..Len(h) /\ FrameInv(top)
  <2>1. rest = <<>>
    BY <1>0, <1>1, Core DEF Link
  <2> QED BY <1>0, <1>1, <2>1, Core
<1>3. CASE Undefined
  BY <1>3 DEF Undefined, OrderInv
<1>4. CASE /\ active = top.x /\ handlers' = Append(handlers, active) /\ calls' = rest
           /\ UNCHANGED <<h, sent>>
  <2>1. PICK x \in 1..Len(h) : x = top.x
    BY <1>2
  <2>2. x \notin ToSet(handlers)
    BY <1>1, <1>2, <2>1 DEF FrameInv
  <2>3. h'[x].buffer = <<>>
    BY <1>4, <2>2 DEF InSequence, AwayEmpty
  <2>4. BuffersRise' /\ ToSet(handlers') = ToSet(handlers) \cup {x}
    BY <1>4, <2>1, <2>3, PushedRise DEF InSequence
  <2>5. AwayEmpty'
    BY <1>4, <2>4 DEF InSequence, AwayEmpty, Disabled
  <2>6. Calls' = {}
    BY <1>2, <1>4, OnNone DEF Calls
  <2> QED BY <2>4, <2>5, <2>6 DEF InSequence, OrderInv
<1> QED BY <1>3, <1>4 DEF FlushReturns

LEMMA PopWritesOrder ==
    ASSUME OutputInv, BracketInv, InSequence, PopWrites
    PROVE  OrderInv'
<1> SUFFICES ASSUME ~misplaced' PROVE InSequence'
  BY DEF OrderInv
<1>0. /\ Doing("pop") /\ CallsInv
      /\ handlers' = DelTop /\ active' = NewActive(DelTop)
      /\ UNCHANGED <<h, sent>>
  BY DEF PopWrites, BracketInv
<1>1. calls # <<>> /\ top.do = "pop" /\ Done(top)
  BY <1>0, DoingTypes DEF Done
<1>2. /\ Calls = {top} \cup Below /\ rest \in Seq(Fr)
      /\ \A b \in Below : b.do \in {"op", "flush", "clean", "pop"} => b.st = "wait"
  BY <1>0, <1>1, Core
<1>3. Placed(top.out, Len(handlers)) /\ h[top.x].buffer = <<>>
  BY <1>1, <1>2 DEF InSequence, Sorted
<1>4. handlers # <<>> => Last(handlers) = top.x
  BY DEF PopWrites
<1>5. PICK d : d = top.out
  OBVIOUS
<1>6. /\ BuffersRise' /\ AwayEmpty' /\ Placed(d, Len(handlers))'
      /\ \A i \in 1..Len(handlers') : i \in 1..Len(handlers) /\ handlers'[i] = handlers[i]
      /\ NewActive(handlers') = 0 => handlers' = <<>>
  BY <1>0, <1>3, <1>4, <1>5, TopLeaves
<1>7. PICK a : a = active'
  OBVIOUS
<1>8. PICK f : f = OpFrame(DelTop, a, d)
  OBVIOUS
<1>9. Sorted(f)'
  <2>1. f = OpFrame(handlers', a, d) /\ (a = 0 => handlers' = <<>>)
    BY <1>0, <1>6, <1>7, <1>8
  <2> QED BY <1>6, <2>1, OpFrameSortedNext
<1>10. PICK g : g = Frame("free", top.x)
  OBVIOUS
<1>11. g.do = "free"
  BY <1>10 DEF Frame
<1>12. Sorted(g)'
  BY <1>11 DEF Sorted
<1>13. PICK F : rest \in Seq(F) /\ f \in F /\ g \in F
  <2>1. rest \in Seq(Fr \cup {f, g})
    BY <1>2, SeqMonotonic
  <2> QED BY <2>1
<1>14. PICK s \in Seq(F) : s = <<g>> \o rest
  BY <1>13, Pushed
<1>15. ToSet(s) = {g} \cup Below
  BY <1>13, <1>14, OnPushed DEF Below
<1>16. Calls' \subseteq {f, g} \cup Below
  <2>1. CASE top.out # <<>> /\ ~top.discard
    <3>1. calls' = <<f>> \o <<g>> \o rest
      BY <1>5, <1>7, <1>8, <1>10, <2>1 DEF PopWrites
    <3>2. calls' = <<f>> \o s
      <4>1. <<f>> \in Seq(F) /\ <<g>> \in Seq(F)
        BY <1>13
      <4>2. (<<f>> \o <<g>>) \o rest = <<f>> \o (<<g>> \o rest)
        BY <1>13, <4>1, ConcatAssociative
      <4> QED BY <1>14, <3>1, <4>2
    <3>3. Calls' = {f} \cup ToSet(s)
      BY <1>13, <3>2, OnPushed DEF Calls
    <3> QED BY <1>15, <3>3
  <2>2. CASE ~(top.out # <<>> /\ ~top.discard)
    <3>1. calls' = <<>> \o <<g>> \o rest
      BY <1>10, <2>2 DEF PopWrites
    <3>2. <<>> \o <<g>> = <<g>>
      OBVIOUS
    <3>3. Calls' = {g} \cup Below
      BY <1>14, <1>15, <3>1, <3>2 DEF Calls
    <3> QED BY <3>3
  <2> QED BY <2>1, <2>2
<1>17. ASSUME NEW b \in Below PROVE Sorted(b)'
  <2>1. Sorted(b) /\ (b.do \in {"op", "flush", "clean", "pop"} => b.st = "wait")
    BY <1>2 DEF InSequence
  <2> QED BY <1>0, <1>6, <2>1, BelowSorted
<1> QED BY <1>6, <1>9, <1>12, <1>16, <1>17 DEF InSequence

LEMMA PopFreesOrder ==
    ASSUME OutputInv, BracketInv, InSequence, PopFrees
    PROVE  OrderInv'
<1>0. Doing("free") /\ CallsInv
  BY DEF PopFrees, BracketInv
<1>1. calls # <<>> /\ top.do = "free"
  BY <1>0, DoingTypes
<1>2. top.x \in 1..Len(h) /\ FrameInv(top)
  BY <1>0, <1>1, Core
<1>3. CASE Undefined
  BY <1>3 DEF Undefined, OrderInv
<1>4. CASE h' = Freed({top.x}) /\ calls' = rest /\ UNCHANGED <<handlers, sent>>
  <2>1. PICK x \in 1..Len(h) : x = top.x
    BY <1>2
  <2>2. h[x].buffer = <<>>
    BY <1>1, <1>2, <2>1 DEF FrameInv, InSequence, AwayEmpty
  <2>3. /\ Len(h') = Len(h) /\ h'[x].buffer = <<>>
        /\ \A y \in 1..Len(h) : y # x => h'[y] = h[y]
    <3>1. Len(h') = Len(h)
      BY <1>4, FreedType
    <3>2. DOMAIN h = 1..Len(h) /\ h[x] \in HandlerType(written)
      BY Sizes
    <3>3. \A y \in 1..Len(h) : y # x => h'[y] = h[y]
      BY <1>4, <2>1, <3>2 DEF Freed
    <3>4. h'[x] = [h[x] EXCEPT !.live = FALSE, !.buffer = <<>>]
      BY <1>4, <2>1, <3>2 DEF Freed
    <3>5. h'[x].buffer = <<>>
      BY <3>2, <3>4 DEF HandlerType
    <3> QED BY <3>1, <3>3, <3>5
  <2>4. BuffersRise' /\ AwayEmpty'
    BY <1>4, <2>3, EmptiedOrder
  <2>5. \A g \in Below : Sorted(g)'
    <3>1. \A y \in 1..Len(h) : h'[y].buffer = h[y].buffer
      BY <2>2, <2>3
    <3> QED BY <1>1, <1>4, <3>1, RunBelow
  <2>6. Calls' = Below
    BY <1>4 DEF Calls, Below
  <2> QED BY <2>4, <2>5, <2>6 DEF InSequence, OrderInv
<1> QED BY <1>3, <1>4 DEF PopFrees

LEMMA CleanOrder ==
    ASSUME OutputInv, BracketInv, InSequence, CleanReturns
    PROVE  InSequence'
<1>1. calls # <<>> /\ calls' = rest /\ UNCHANGED <<h, handlers, sent, headers>>
  BY DEF CleanReturns, Doing
<1> QED BY <1>1, ReturnOrder

-----------------------------------------------------------------------------
(* What the client gets is in order *)

\* A handler taken off the stack in place of another is never forgotten.
LEMMA StaysMisplaced ==
    ASSUME misplaced, Next
    PROVE  misplaced'
<1>1. \A l \in BOOLEAN : Bailout(l) => misplaced'
  BY DEF Bailout
<1>2. CASE Echo \/ ObFlush \/ ObClean \/ Exit \/ EndOfPhase
  BY <1>1, <1>2 DEF Echo, ObFlush, ObClean, Call, Exit, EndOfPhase
<1>3. ASSUME NEW k \in Kinds, ObStart(k) PROVE misplaced'
  BY <1>1, <1>3 DEF ObStart, LockError, Undefined
<1>4. ASSUME NEW d \in BOOLEAN, ObEnd(d) PROVE misplaced'
  BY <1>4 DEF ObEnd, Call
<1>5. ASSUME NEW s \in {"success", "nodata", "failure"}, Return(s) PROVE misplaced'
  BY <1>5 DEF Return
<1>6. CASE HandlerLocked \/ HandlerStores \/ HandlerCalled \/ HandlerInternal
  BY <1>1, <1>6 DEF HandlerLocked, LockError, HandlerStores, HandlerCalled, HandlerInternal
<1>7. CASE ApplyHandler \/ ApplyStale \/ ApplyNext \/ SapiWrite \/ ClientGone
  BY <1>1, <1>7 DEF ApplyHandler, ApplyStale, Undefined, ApplyNext, SapiWrite, ClientGone
<1>8. CASE FlushWrites \/ FlushReturns \/ CleanReturns
  BY <1>8 DEF FlushWrites, FlushReturns, Undefined, CleanReturns
<1>9. CASE PopWrites \/ PopFrees \/ EndAll \/ Finished
  BY <1>9 DEF PopWrites, PopFrees, Undefined, EndAll, Call, Finished, vars
<1> QED BY <1>2, <1>3, <1>4, <1>5, <1>6, <1>7, <1>8, <1>9 DEF Next

LEMMA InitOrder == Init => OrderInv
<1> SUFFICES ASSUME Init PROVE InSequence
  BY DEF OrderInv
<1>1. h = <<>> /\ handlers = <<>> /\ calls = <<>> /\ sent = <<>>
  BY DEF Init
<1>2. Len(<<>>) = 0 /\ 1..0 = {} /\ ToSet(<<>>) = {}
  BY OnNone
<1>3. Calls = {}
  BY <1>1, <1>2 DEF Calls
<1>4. BuffersRise /\ AwayEmpty
  BY <1>1, <1>2, EmptyOrder DEF BuffersRise, AwayEmpty
<1> QED BY <1>3, <1>4 DEF InSequence

LEMMA SequenceStep ==
    ASSUME OutputInv, BracketInv, FlowInv, InSequence, Next
    PROVE  OrderInv'
<1>1. CASE Echo
  BY <1>1, EchoOrder DEF OrderInv
<1>2. CASE ObFlush \/ ObClean \/ \E d \in BOOLEAN : ObEnd(d)
  BY <1>2, ScriptOrder DEF OrderInv
<1>3. CASE Exit
  BY <1>3, ExitOrder DEF OrderInv
<1>4. CASE EndOfPhase
  BY <1>4, EndOfPhaseOrder DEF OrderInv
<1>5. ASSUME NEW k \in Kinds, ObStart(k) PROVE OrderInv'
  BY <1>5, StartOrder
<1>6. ASSUME NEW s \in {"success", "nodata", "failure"}, Return(s) PROVE OrderInv'
  BY <1>6, ReturnedOrder DEF OrderInv
<1>7. CASE HandlerLocked
  BY <1>7, LockedOrder DEF OrderInv
<1>8. CASE HandlerStores
  BY <1>8, StoresOrder DEF OrderInv
<1>9. CASE HandlerCalled
  BY <1>9, CalledOrder DEF OrderInv
<1>10. CASE HandlerInternal
  BY <1>10, InternalOrder DEF OrderInv
<1>11. CASE ApplyHandler
  BY <1>11, ApplyOrder DEF OrderInv
<1>12. CASE ApplyStale
  BY <1>12 DEF ApplyStale, Undefined, OrderInv
<1>13. CASE ApplyNext
  BY <1>13, ApplyNextOrder DEF OrderInv
<1>14. CASE SapiWrite
  BY <1>14, SapiWriteOrder DEF OrderInv
<1>15. CASE ClientGone
  BY <1>15, ClientGoneOrder DEF OrderInv
<1>16. CASE FlushWrites
  BY <1>16, FlushWritesOrder DEF OrderInv
<1>17. CASE FlushReturns
  BY <1>17, FlushReturnsOrder
<1>18. CASE CleanReturns
  BY <1>18, CleanOrder DEF OrderInv
<1>19. CASE PopWrites
  BY <1>19, PopWritesOrder
<1>20. CASE PopFrees
  BY <1>20, PopFreesOrder
<1>21. CASE EndAll
  BY <1>21, EndAllOrder DEF OrderInv
<1>22. CASE Finished
  <2>1. UNCHANGED <<h, handlers, sent, headers, calls>>
    BY <1>22 DEF Finished, vars
  <2>2. Calls' = Calls
    BY <2>1 DEF Calls
  <2> QED BY <2>1, <2>2, QuietOrder DEF OrderInv
<1> QED BY <1>1, <1>2, <1>3, <1>4, <1>5, <1>6, <1>7, <1>8, <1>9, <1>10, <1>11, <1>12, <1>13,
           <1>14, <1>15, <1>16, <1>17, <1>18, <1>19, <1>20, <1>21, <1>22 DEF Next

LEMMA NextOrder ==
    OutputInv /\ BracketInv /\ FlowInv /\ OrderInv /\ [Next]_vars => OrderInv'
<1> SUFFICES ASSUME OutputInv, BracketInv, FlowInv, OrderInv, [Next]_vars PROVE OrderInv'
  OBVIOUS
<1>1. CASE UNCHANGED vars
  <2>1. UNCHANGED <<h, handlers, sent, headers, calls, misplaced, phase>>
    BY <1>1 DEF vars
  <2>2. Calls' = Calls
    BY <2>1 DEF Calls
  <2>3. InSequence => InSequence'
    BY <2>1, <2>2, QuietOrder
  <2> QED BY <2>1, <2>3 DEF OrderInv
<1>2. CASE Next /\ misplaced
  BY <1>2, StaysMisplaced DEF OrderInv
<1>3. CASE Next /\ phase = "undefined"
  <2>1. UNCHANGED vars
    BY <1>3, OverStays
  <2>2. phase' = phase
    BY <2>1 DEF vars
  <2> QED BY <1>3, <2>2 DEF OrderInv
<1>4. CASE Next /\ InSequence
  BY <1>4, SequenceStep
<1> QED BY <1>1, <1>2, <1>3, <1>4 DEF OrderInv

LEMMA OrderFlattens ==
    OutputInv /\ OrderInv => InOrder
<1> SUFFICES ASSUME OutputInv, OrderInv, ScriptRuns \/ phase = "off", ~misplaced
             PROVE  Increasing(sent \o FlattenSeq([i \in DOMAIN handlers |->
                                                      h[handlers[i]].buffer]))
  BY DEF InOrder
<1>1. InSequence
  BY DEF OrderInv, ScriptRuns
<1>2. /\ written \in Nat /\ Len(handlers) \in Nat /\ sent \in Seq(1..written)
      /\ \A i \in 1..Len(handlers) : Buf(i) \in Seq(1..written)
      /\ DOMAIN handlers = 1..Len(handlers)
  BY BufferTypes DEF OutputInv, DataOK
<1>3. PICK s : s = [i \in DOMAIN handlers |-> h[handlers[i]].buffer]
  OBVIOUS
<1>4. s \in Seq(Seq(1..written)) /\ Len(s) = Len(handlers)
      /\ \A i \in 1..Len(s) : s[i] = Buf(i)
  <2>1. s \in [1..Len(handlers) -> Seq(1..written)]
    BY <1>2, <1>3 DEF Buf
  <2>2. s \in Seq(Seq(1..written)) /\ Len(s) = Len(handlers)
    BY <1>2, <2>1
  <2> QED BY <1>2, <1>3, <2>2 DEF Buf
<1>5. PICK w \in Nat : w = written
  BY <1>2
<1>6. /\ \A i \in 1..Len(s) : Rises(s[i]) /\ Before(sent, s[i])
      /\ \A i, j \in 1..Len(s) : i < j => Before(s[i], s[j])
  BY <1>1, <1>4 DEF InSequence, BuffersRise
<1>7. /\ FlattenSeq(s) \in Seq(1..w) /\ Rises(FlattenSeq(s))
      /\ \A e \in ToSet(FlattenSeq(s)) : \E i \in 1..Len(s) : e \in ToSet(s[i])
  BY <1>4, <1>5, <1>6, FlattenRises
<1>8. PICK b \in Seq(1..w) : b = FlattenSeq(s)
  BY <1>7
<1>9. PICK a \in Seq(1..w) : a = sent
  BY <1>2, <1>5
<1>10. Rises(a) /\ Rises(b) /\ Before(a, b)
  <2>1. Rises(sent)
    BY <1>1 DEF InSequence, BuffersRise
  <2>2. Before(a, b)
    BY <1>6, <1>7, <1>8, <1>9 DEF Before
  <2> QED BY <1>7, <1>8, <1>9, <2>1, <2>2
<1>11. Rises(a \o b)
  BY <1>10, OrderJoined
<1>12. a \o b \in Seq(1..w)
  OBVIOUS
<1>13. Increasing(a \o b)
  <2>1. PICK c \in Seq(1..w) : c = a \o b
    BY <1>12
  <2>2. Increasing(c)
    BY <1>11, <2>1, RisesIncreasing
  <2> QED BY <2>1, <2>2
<1> QED BY <1>3, <1>8, <1>9, <1>13

LEMMA OrderInvariance == Spec => [](OutputInv /\ BracketInv /\ FlowInv /\ OrderInv)
<1>1. OutputInv /\ BracketInv /\ FlowInv /\ OrderInv /\ [Next]_vars => OrderInv'
  BY NextOrder
<1> QED BY <1>1, FlowInvariance, InitOrder, PTL DEF Spec

\* Where script code runs and at the end of the request, what the client has, followed by
\* the buffers from the bottom of the stack to its top, is in the order of writing and
\* holds nothing twice - whatever handlers write, flush and end from their own code, and
\* also when they fail - as long as no handler was taken off the stack in place of another.
THEOREM OutputInOrder == Spec => []InOrder
BY OrderInvariance, OrderFlattens, PTL

=============================================================================
