------------------------------ MODULE PhpOutput ------------------------------
(* The output layer of a request (main/output.c) and the part of             *)
(* php_request_shutdown (main/main.c) that drives it: a stack of output      *)
(* handlers with a buffer each, through which what a script writes reaches   *)
(* the client.                                                               *)
(*                                                                           *)
(* A user handler is script code: it runs in the middle of the layer's own C *)
(* code and may write, start, flush and end buffers, fail, or leave through  *)
(* a bailout (exit, a fatal error), which drops the whole C stack. `calls`   *)
(* is that stack, the innermost call first; a step is what a C function does *)
(* between two calls.                                                        *)
(*                                                                           *)
(* What is written is a number, given out in the order of writing. A buffer  *)
(* is a sequence of them; a chunk size counts them. A user handler returns   *)
(* what it was given, nothing (true or an empty string), or fails (false, an *)
(* exception).                                                               *)
EXTENDS Integers, Sequences, FiniteSets, SequencesExt

CONSTANTS
    Kinds,        \* what ob_start is called with: records, see KindType
    MaxHandlers,  \* bound: handlers started in the request
    MaxWrites,    \* bound: things written
    MaxOps        \* bound: calls of the layer by script code

Abilities == {"cleanable", "flushable", "removable"}
KindType  == [user : BOOLEAN, size : Nat, can : SUBSET Abilities]

ASSUME KindsAssumption == Kinds \subseteq KindType
ASSUME BoundsAssumption == /\ MaxHandlers \in Nat
                           /\ MaxWrites \in Nat
                           /\ MaxOps \in Nat

VARIABLES
    h,          \* the handlers created so far, in order: their structures
    handlers,   \* OG(handlers): the stack, as indices into h
    active,     \* OG(active), 0 for NULL
    running,    \* OG(running), 0 for NULL
    activated,  \* PHP_OUTPUT_ACTIVATED in OG(flags)
    headers,    \* "none", "sent", or "failed": PHP_OUTPUT_DISABLED is set
    broken,     \* a push would write outside the stack's memory
    calls,      \* the C stack
    phase,      \* where the request is
    sent,       \* what the client got
    written,    \* how many things were written
    ops,        \* calls made by script code
    fatal,      \* history: a bailout left C code of the layer
    misplaced   \* history: a handler was taken off the stack in place of another

vars == <<h, handlers, active, running, activated, headers, broken, calls,
          phase, sent, written, ops, fatal, misplaced>>

-----------------------------------------------------------------------------
(* Frames of the C stack. x: the handler the call is about; op: the          *)
(* operation passed to handlers; in, out: the buffers of the context; st:    *)
(* "call" before php_output_handler_op, "wait" while the user handler runs,  *)
(* then its status; n: position in the stack of handlers; discard: what      *)
(* comes out is dropped; life: of a user handler, what it was when called.   *)
Frame(do, x) == [do |-> do, x |-> x, op |-> {}, in |-> <<>>, out |-> <<>>,
                 st |-> "none", n |-> 0, discard |-> FALSE, life |-> "new"]

top  == Head(calls)
rest == Tail(calls)

(* php_output_op: through the stack from the top, or straight to the client. *)
OpFrame_SkipsLast(hs, act, data) ==
    IF act # 0 /\ Len(hs) > 1
    THEN [Frame("op", 0) EXCEPT !.in = data, !.n = Len(hs)]
    ELSE [Frame("op", 0) EXCEPT !.out = data]

OpFrame(hs, act, data) ==
    IF act # 0 /\ hs # <<>>
    THEN [Frame("op", 0) EXCEPT !.in = data, !.n = Len(hs)]
    ELSE [Frame("op", 0) EXCEPT !.out = data]

(* php_output_stack_pop, up to the call of the handler: a disabled handler   *)
(* is not run.                                                               *)
PopFrame(x, discard) ==
    IF h[x].disabled
    THEN [Frame("pop", x) EXCEPT !.st = "nodata", !.discard = discard]
    ELSE [Frame("pop", x) EXCEPT
             !.st = "call", !.discard = discard,
             !.op = {"final"} \cup (IF h[x].started THEN {} ELSE {"start"})
                              \cup (IF discard THEN {"clean"} ELSE {})]

(* php_output_header: a failure to send the headers disables all output.     *)
php_output_header ==
    headers' \in IF headers = "none" THEN {"sent", "failed"} ELSE {headers}

Freed(xs) == [x \in DOMAIN h |-> IF x \in xs THEN [h[x] EXCEPT !.live = FALSE,
                                                               !.buffer = <<>>]
                                 ELSE h[x]]

(* php_output_deactivate, without the headers: the stack's memory goes too.  *)
php_output_deactivate ==
    /\ activated' = FALSE
    /\ active' = 0
    /\ running' = 0
    /\ h' = Freed(ToSet(handlers))
    /\ handlers' = <<>>
    /\ broken' = TRUE

-----------------------------------------------------------------------------
(* The request: the script, php_call_shutdown_functions, zend_call_destructors, *)
(* the flush of all buffers, each in a zend_try of its own.                  *)
After == [script |-> "functions", functions |-> "destructors",
          destructors |-> "flush", flush |-> "off"]

(* The next part of php_request_shutdown; the C stack is gone. Buffers are   *)
(* discarded for a HEAD request or when memory ran out.                      *)
NextPhase ==
    /\ phase' = After[phase]
    /\ \/ phase' # "flush" /\ calls' = <<>>
       \/ /\ phase' = "flush"
          /\ \E d \in BOOLEAN : calls' = <<[Frame("all", 0) EXCEPT !.discard = d]>>

(* zend_bailout out of C code of the layer. The flush is followed by         *)
(* php_output_deactivate; php_output_lock_error calls it before the error.   *)
Bailout(locked) ==
    /\ IF locked \/ phase = "flush"
       THEN php_output_deactivate
       ELSE UNCHANGED <<h, handlers, active, running, activated, broken>>
    /\ NextPhase
    /\ fatal' = TRUE
    /\ UNCHANGED <<sent, written, misplaced>>

(* php_output_lock_error.                                                    *)
Locked(op) == op # {} /\ active # 0 /\ running # 0

LockError == php_output_header /\ Bailout(TRUE)

-----------------------------------------------------------------------------
(* Script code runs: between calls in the parts of a request that execute    *)
(* scripts, and in a user handler.                                           *)
InHandler  == calls # <<>> /\ top.do = "user"
ScriptRuns == \/ calls = <<>> /\ phase \in {"script", "functions", "destructors"}
              \/ InHandler /\ phase # "undefined"

Op == /\ ScriptRuns
      /\ ops < MaxOps
      /\ ops' = ops + 1

Undefined ==
    /\ phase' = "undefined"
    /\ UNCHANGED <<h, handlers, active, running, activated, headers, broken,
                   calls, sent, written, fatal, misplaced>>

(* php_output_write. When the layer is shut down, the text goes to the       *)
(* standard output.                                                          *)
Echo ==
    /\ Op
    /\ written < MaxWrites
    /\ written' = written + 1
    /\ calls' = IF activated
                THEN <<OpFrame(handlers, active, <<written + 1>>)>> \o calls
                ELSE calls
    /\ UNCHANGED <<h, handlers, active, running, activated, headers, broken,
                   phase, sent, fatal, misplaced>>

(* ob_start: php_output_start_user, php_output_handler_start.                *)
ObStart(k) ==
    /\ Op
    /\ Len(h) < MaxHandlers
    /\ \/ Locked({"start"}) /\ LockError
       \/ ~Locked({"start"}) /\ broken /\ Undefined
       \/ /\ ~Locked({"start"}) /\ ~broken
          /\ h' = Append(h, [user |-> k.user, size |-> k.size, can |-> k.can,
                             started |-> FALSE, disabled |-> FALSE,
                             level |-> Len(handlers), buffer |-> <<>>,
                             live |-> TRUE, life |-> "new"])
          /\ handlers' = Append(handlers, Len(h'))
          /\ active' = Len(h')
          /\ UNCHANGED <<running, activated, headers, broken, calls, phase,
                         sent, written, fatal, misplaced>>

Call(f) ==
    /\ calls' = <<f>> \o calls
    /\ UNCHANGED <<h, handlers, active, running, activated, headers, broken,
                   phase, sent, written, fatal, misplaced>>

(* php_output_flush, php_output_clean: the active handler is run, disabled   *)
(* or not.                                                                   *)
ObFlush ==
    /\ Op
    /\ active # 0 /\ "flushable" \in h[active].can
    /\ Call([Frame("flush", active) EXCEPT !.st = "call", !.op = {"flush"}])

ObClean ==
    /\ Op
    /\ active # 0 /\ "cleanable" \in h[active].can
    /\ Call([Frame("clean", active) EXCEPT !.st = "call", !.op = {"clean"},
                                           !.discard = TRUE])

(* php_output_end and php_output_discard.                                    *)
ObEnd(discard) ==
    /\ Op
    /\ active # 0 /\ "removable" \in h[active].can
    /\ Call(PopFrame(active, discard))

(* exit() or a fatal error in a user handler.                                *)
Exit ==
    /\ Op
    /\ InHandler
    /\ IF phase = "flush" THEN php_output_header ELSE UNCHANGED headers
    /\ Bailout(FALSE)

(* The script, the shutdown functions or the destructors are through.        *)
EndOfPhase ==
    /\ calls = <<>>
    /\ phase \in {"script", "functions", "destructors"}
    /\ NextPhase
    /\ UNCHANGED <<h, handlers, active, running, activated, headers, broken,
                   sent, written, ops, fatal, misplaced>>

-----------------------------------------------------------------------------
(* php_output_handler_op on the handler of the innermost call.               *)
Calling == calls # <<>> /\ top.st = "call" /\ phase # "undefined"

(* php_output_handler_append: a chunk is full, and no handler is running.    *)
Full_WhileRunning(x, in, buf) ==
    in # <<>> /\ h[x].size > 0 /\ Len(buf) >= h[x].size

Full(x, in, buf) ==
    /\ in # <<>> /\ h[x].size > 0 /\ Len(buf) >= h[x].size
    /\ running = 0

HandlerLocked ==
    /\ Calling
    /\ Locked(top.op)
    /\ LockError
    /\ UNCHANGED ops

(* Stored away: the handler does not have to process it yet.                 *)
HandlerStores ==
    LET buf == h[top.x].buffer \o top.in
    IN  /\ Calling
        /\ ~Locked(top.op)
        /\ top.op = {} /\ ~Full(top.x, top.in, buf)
        /\ h' = [h EXCEPT ![top.x].buffer = buf]
        /\ calls' = <<[top EXCEPT !.in = <<>>, !.st = "nodata"]>> \o rest
        /\ UNCHANGED <<handlers, active, running, activated, headers, broken,
                       phase, sent, written, ops, fatal, misplaced>>

Lived(op) == IF "final" \in op THEN "ended" ELSE "begun"

(* A user handler is called: script code runs.                               *)
HandlerCalled ==
    LET x   == top.x
        buf == h[x].buffer \o top.in
        op  == IF h[x].started THEN top.op ELSE top.op \cup {"start"}
    IN  /\ Calling
        /\ ~Locked(top.op)
        /\ top.op # {} \/ Full(x, top.in, buf)
        /\ h[x].user
        /\ running' = x
        /\ h' = [h EXCEPT ![x].buffer = buf, ![x].life = Lived(op)]
        /\ calls' = <<[Frame("user", x) EXCEPT !.op = op, !.in = buf,
                                              !.life = h[x].life],
                      [top EXCEPT !.in = <<>>, !.st = "wait"]>> \o rest
        /\ UNCHANGED <<handlers, active, activated, headers, broken, phase,
                       sent, written, ops, fatal, misplaced>>

(* What php_output_handler_op does with the status of the handler.           *)
Result_StartedIfDone(hx, status) ==
    [hx EXCEPT !.started = @ \/ status # "failure", !.buffer = <<>>,
               !.disabled = @ \/ status = "failure"]

Result(hx, status) ==
    [hx EXCEPT !.started = TRUE, !.buffer = <<>>,
               !.disabled = @ \/ status = "failure"]

Out(hx, status, data) ==
    CASE status = "failure" -> hx.buffer
      [] status = "success" -> data
      [] OTHER              -> <<>>

(* The default handler passes what it has.                                   *)
HandlerInternal ==
    LET x   == top.x
        buf == h[x].buffer \o top.in
        op  == IF h[x].started THEN top.op ELSE top.op \cup {"start"}
        status == IF buf = <<>> THEN "nodata" ELSE "success"
    IN  /\ Calling
        /\ ~Locked(top.op)
        /\ top.op # {} \/ Full(x, top.in, buf)
        /\ ~h[x].user
        /\ running' = 0
        /\ h' = [h EXCEPT ![x] = [Result(@, status) EXCEPT !.life = Lived(op)]]
        /\ calls' = <<[top EXCEPT !.in = <<>>, !.out = buf, !.st = status]>> \o rest
        /\ UNCHANGED <<handlers, active, activated, headers, broken, phase,
                       sent, written, ops, fatal, misplaced>>

(* A user handler returns. What it wrote itself is in its buffer: dropped,   *)
(* unless it fails.                                                          *)
Return(status) ==
    LET x == top.x
        f == calls[2]
    IN  /\ InHandler /\ phase # "undefined"
        /\ status = "success" => top.in # <<>>
        /\ running' = 0
        /\ h' = [h EXCEPT ![x] = Result(@, status)]
        /\ calls' = <<[f EXCEPT !.out = Out(h[x], status, top.in),
                               !.st = status]>> \o Tail(rest)
        /\ UNCHANGED <<handlers, active, activated, headers, broken, phase,
                       sent, written, ops, fatal, misplaced>>

-----------------------------------------------------------------------------
(* The callers of php_output_handler_op go on.                               *)
Doing(do) == /\ calls # <<>> /\ phase # "undefined"
             /\ top.do = do /\ top.st \notin {"call", "wait"}

(* php_output_stack_apply_op on the handler at position n. A disabled one    *)
(* takes no part.                                                            *)
ApplyHandler ==
    LET x == handlers[top.n]
    IN  /\ Doing("op") /\ top.st = "none" /\ top.n \in 1..Len(handlers)
        /\ calls' = <<CASE ~h[x].disabled ->
                               [top EXCEPT !.x = x, !.st = "call"]
                        [] h[x].disabled /\ h[x].level = 0 ->
                               [top EXCEPT !.out = top.in, !.in = <<>>, !.n = @ - 1]
                        [] OTHER -> [top EXCEPT !.n = @ - 1]>> \o rest
        /\ UNCHANGED <<h, handlers, active, running, activated, headers, broken,
                       phase, sent, written, ops, fatal, misplaced>>

(* The loop over the stack does not see that script code of a handler has    *)
(* ended handlers below it: they were given back.                            *)
ApplyStale ==
    /\ Doing("op") /\ top.st = "none" /\ top.n > Len(handlers)
    /\ Undefined
    /\ UNCHANGED ops

(* php_output_stack_apply_op after the handler: what came out goes in below, *)
(* unless the handler is the last one. A handler that ate all ends the loop. *)
Swapped_SuccessOnly(f) ==
    CASE f.st = "nodata" -> [f EXCEPT !.n = 0]
      [] f.st = "success" /\ h[f.x].level # 0 ->
             [f EXCEPT !.n = @ - 1, !.in = f.out, !.out = <<>>]
      [] OTHER -> [f EXCEPT !.n = @ - 1]

Swapped(f) ==
    CASE f.st = "nodata" -> [f EXCEPT !.n = 0]
      [] f.st # "nodata" /\ h[f.x].level # 0 ->
             [f EXCEPT !.n = @ - 1, !.in = f.out, !.out = <<>>]
      [] OTHER -> [f EXCEPT !.n = @ - 1]

ApplyNext ==
    /\ Doing("op") /\ top.st # "none"
    /\ calls' = <<[Swapped(top) EXCEPT !.st = "none"]>> \o rest
    /\ UNCHANGED <<h, handlers, active, running, activated, headers, broken,
                   phase, sent, written, ops, fatal, misplaced>>

(* The end of php_output_op: the headers, then sapi_module.ub_write.         *)
SapiWrite ==
    /\ Doing("op") /\ top.st = "none" /\ top.n = 0
    /\ IF top.out = <<>> THEN UNCHANGED headers ELSE php_output_header
    /\ sent' = IF headers' = "failed" THEN sent ELSE sent \o top.out
    /\ calls' = rest
    /\ UNCHANGED <<h, handlers, active, running, activated, broken, phase,
                   written, ops, fatal, misplaced>>

(* php_handle_aborted_connection from ub_write: output is disabled, and      *)
(* unless ignore_user_abort is set the request is ended by a bailout.        *)
ClientGone ==
    /\ Doing("op") /\ top.st = "none" /\ top.n = 0
    /\ top.out # <<>> /\ headers # "failed"
    /\ headers' = "failed"
    /\ \/ Bailout(FALSE)
       \/ /\ calls' = rest
          /\ UNCHANGED <<h, handlers, active, running, activated, broken, phase,
                         sent, written, fatal, misplaced>>
    /\ UNCHANGED ops

(* zend_stack_del_top does not look whether there is anything on the stack.  *)
DelTop == IF handlers = <<>> THEN <<>> ELSE Front(handlers)

(* php_output_flush writes below the handler, which leaves the stack for it. *)
FlushWrites_InPlace ==
    /\ Doing("flush")
    /\ UNCHANGED <<handlers, broken>>
    /\ calls' = IF top.out = <<>> THEN rest
                ELSE <<OpFrame(DelTop, active, top.out), Frame("push", top.x)>> \o rest
    /\ UNCHANGED <<h, active, running, activated, headers, phase, sent, written,
                   ops, fatal, misplaced>>

FlushWrites ==
    /\ Doing("flush")
    /\ IF top.out = <<>>
       THEN calls' = rest /\ UNCHANGED <<handlers, broken>>
       ELSE /\ handlers' = DelTop
            /\ broken' = (broken \/ handlers = <<>>)
            /\ calls' = <<OpFrame(DelTop, active, top.out),
                          Frame("push", top.x)>> \o rest
    /\ UNCHANGED <<h, active, running, activated, headers, phase, sent, written,
                   ops, fatal, misplaced>>

(* ... and returns to it: whatever OG(active) is now is pushed.              *)
FlushReturns ==
    /\ Doing("push")
    /\ \/ /\ active # top.x \/ broken
          /\ Undefined
       \/ /\ active = top.x /\ ~broken
          /\ handlers' = Append(handlers, active)
          /\ calls' = rest
          /\ UNCHANGED <<h, active, running, activated, headers, broken, phase,
                         sent, written, fatal, misplaced>>
    /\ UNCHANGED ops

CleanReturns ==
    /\ Doing("clean")
    /\ calls' = rest
    /\ UNCHANGED <<h, handlers, active, running, activated, headers, broken,
                   phase, sent, written, ops, fatal, misplaced>>

(* php_output_stack_pop after the handler: off the stack, then the write.    *)
NewActive_Kept(hs) == active
NewActive(hs) == IF hs = <<>> THEN 0 ELSE Last(hs)

PopWrites ==
    /\ Doing("pop")
    /\ handlers' = DelTop
    /\ broken' = (broken \/ handlers = <<>>)
    /\ active' = NewActive(DelTop)
    /\ calls' = (IF top.out # <<>> /\ ~top.discard
                 THEN <<OpFrame(DelTop, active', top.out)>> ELSE <<>>)
                \o <<Frame("free", top.x)>> \o rest
    /\ misplaced' = (misplaced \/ (handlers # <<>> /\ Last(handlers) # top.x))
    /\ UNCHANGED <<h, running, activated, headers, phase, sent, written, ops,
                   fatal>>

(* The handler is destroyed. Its own script code may be running: what        *)
(* follows is then a use of memory that was given back.                      *)
PopFrees ==
    /\ Doing("free")
    /\ \/ /\ \E i \in DOMAIN calls : calls[i].do = "user" /\ calls[i].x = top.x
          /\ Undefined
       \/ /\ \A i \in DOMAIN calls : calls[i].do # "user" \/ calls[i].x # top.x
          /\ h' = Freed({top.x})
          /\ calls' = rest
          /\ UNCHANGED <<handlers, active, running, activated, headers, broken,
                         phase, sent, written, fatal, misplaced>>
    /\ UNCHANGED ops

(* php_output_end_all and php_output_discard_all: handlers are popped, be    *)
(* they removable or not; then php_output_deactivate ends the request.       *)
Popped == active # 0

EndAll ==
    /\ Doing("all")
    /\ \/ /\ Popped
          /\ Call(PopFrame(active, top.discard))
       \/ /\ ~Popped
          /\ IF activated THEN php_output_header ELSE UNCHANGED headers
          /\ php_output_deactivate
          /\ NextPhase
          /\ UNCHANGED <<sent, written, fatal, misplaced>>
    /\ UNCHANGED ops

Finished == phase \in {"off", "undefined"} /\ UNCHANGED vars

-----------------------------------------------------------------------------
(* php_output_activate.                                                      *)
Init ==
    /\ h = <<>> /\ handlers = <<>>
    /\ active = 0 /\ running = 0
    /\ activated = TRUE /\ headers = "none" /\ broken = FALSE
    /\ calls = <<>> /\ phase = "script"
    /\ sent = <<>> /\ written = 0 /\ ops = 0
    /\ fatal = FALSE /\ misplaced = FALSE

Next ==
    \/ Echo \/ ObFlush \/ ObClean \/ Exit \/ EndOfPhase
    \/ \E k \in Kinds : ObStart(k)
    \/ \E d \in BOOLEAN : ObEnd(d)
    \/ \E s \in {"success", "nodata", "failure"} : Return(s)
    \/ HandlerLocked \/ HandlerStores \/ HandlerCalled \/ HandlerInternal
    \/ ApplyHandler \/ ApplyStale \/ ApplyNext \/ SapiWrite \/ ClientGone
    \/ FlushWrites \/ FlushReturns \/ CleanReturns
    \/ PopWrites \/ PopFrees \/ EndAll
    \/ Finished

Spec == Init /\ [][Next]_vars

-----------------------------------------------------------------------------
(* The output layer's state has its type: the stack holds no more handlers   *)
(* than ob_start has started, buffers and client only what was written.      *)
TypeOK ==
    /\ Len(h) <= MaxHandlers
    /\ \A x \in DOMAIN h :
          /\ h[x].can \subseteq Abilities
          /\ h[x].level \in 0..MaxHandlers
          /\ ToSet(h[x].buffer) \subseteq 1..written
          /\ h[x].life \in {"new", "begun", "ended"}
    /\ ToSet(handlers) \subseteq DOMAIN h /\ Len(handlers) <= Len(h)
    /\ {active, running} \subseteq 0..Len(h)
    /\ headers \in {"none", "sent", "failed"}
    /\ phase \in {"script", "functions", "destructors", "flush", "off", "undefined"}
    /\ ToSet(sent) \subseteq 1..written
    /\ written \in 0..MaxWrites /\ ops \in 0..MaxOps
    /\ {activated, broken, fatal, misplaced} \subseteq BOOLEAN

Increasing(s) == \A i \in 1..(Len(s) - 1) : s[i] < s[i + 1]

(* What the client has, followed by the buffers from the bottom of the stack *)
(* to its top, is in the order of writing and holds nothing twice: handlers  *)
(* that write, fail or are flushed and ended out of turn included. Stated    *)
(* where script code runs, when no data is on its way (php_output_op,        *)
(* php_output_flush, php_output_stack_pop). The exception: a failed handler  *)
(* was ended by script code of a handler below while it was being flushed    *)
(* (php_output_lock_error is not asked), and its neighbour was taken off the *)
(* stack in its place.                                                       *)
InOrder ==
    (ScriptRuns \/ phase = "off") /\ ~misplaced =>
        Increasing(sent \o FlattenSeq([i \in DOMAIN handlers |->
                                          h[handlers[i]].buffer]))

Held == UNION ({ToSet(h[x].buffer) : x \in DOMAIN h}
               \cup {ToSet(calls[i].in) \cup ToSet(calls[i].out) : i \in DOMAIN calls})

(* Nothing that was written disappears, unless the handler that was given it *)
(* keeps it or wrote it itself, it is cleaned or discarded, output is        *)
(* disabled, or a bailout or the end of the request clears the layer. In     *)
(* particular what a failing handler was given goes on to the next one       *)
(* ("call failed, pass internal buffer along").                              *)
NothingLost ==
    [][\A t \in Held :
          \/ t \in Held' \cup ToSet(sent')
          \/ /\ InHandler /\ calls' # <<>>
             /\ t \notin ToSet(top.in) \/ Head(calls').st = "nodata"
             /\ Head(calls').st # "failure"
          \/ calls # <<>> /\ top.discard /\ t \in ToSet(top.out)
          \/ phase' # phase
          \/ headers' = "failed"]_vars

(* Script code of one output handler runs at a time: whatever a handler      *)
(* writes or calls, no handler is entered from it                            *)
(* (php_output_lock_error, and OG(running) in php_output_handler_append).    *)
NotReentered ==
    Cardinality({i \in DOMAIN calls : calls[i].do = "user"}) <= 1

(* As long as no bailout has left the layer's C code, the stack is sound     *)
(* wherever script code runs: each handler once, alive, at its level, the    *)
(* top one active - or the one being flushed, which is to return there. And  *)
(* behaviour stays defined as long as, besides, no handler has failed.       *)
StackConsistent ==
    /\ phase = "undefined" => fatal \/ \E x \in DOMAIN h : h[x].disabled
    /\ (ScriptRuns /\ ~fatal) =>
        /\ \A i \in DOMAIN handlers : /\ h[handlers[i]].live
                                      /\ h[handlers[i]].level = i - 1
        /\ Cardinality(ToSet(handlers)) = Len(handlers)
        /\ \/ active = (IF handlers = <<>> THEN 0 ELSE Last(handlers))
           \/ \E i \in DOMAIN calls : calls[i].do = "push" /\ calls[i].x = active
        /\ running = (IF InHandler THEN top.x ELSE 0)

(* A handler's first call, and only that one, has the start flag, and none   *)
(* follows the final one (PHP_OUTPUT_HANDLER_STARTED). Unless a bailout      *)
(* interferes, a handler that is destroyed has had its final call or was     *)
(* disabled, and at the end of the request all are destroyed and no buffer   *)
(* holds anything (php_output_end_all before php_output_deactivate).         *)
WellBracketed ==
    /\ \A i \in DOMAIN calls : calls[i].do = "user" =>
          /\ ("start" \in calls[i].op) <=> (calls[i].life = "new")
          /\ calls[i].life # "ended"
    /\ ~fatal => \A x \in DOMAIN h : h[x].live \/ h[x].disabled
                                     \/ h[x].life = "ended"
    /\ (phase = "off" /\ ~fatal) => /\ \A x \in DOMAIN h : ~h[x].live
                                    /\ Held = {}

=============================================================================
