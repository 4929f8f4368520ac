------------------------------ MODULE Executor -------------------------------
(***************************************************************************)
(* One executor request, from the host's call to its answer: Execute and   *)
(* PrepareStream/Pump of internal/provider/executor.go on top of the turns *)
(* of Session, with the retry loop of retryTransient around them and the   *)
(* goroutine that dispatch.go starts to pump a committed stream.           *)
(*                                                                         *)
(* Turn number k is attempt k of the request.  The dispatch call and the   *)
(* pump are two goroutines once a stream is committed; the readers of      *)
(* earlier attempts may still be on their way out while a later one runs.  *)
(***************************************************************************)
EXTENDS Session

CONSTANTS
    RetryCount,     \* transient_retry_count
    RetryDelayed,   \* transient_retry_delay_ms > 0
    ParentEnds      \* whether the caller's own context may be cancelled

ASSUME ExecutorAssumption ==
    /\ RetryCount \in Nat
    /\ Turns = 0..RetryCount
    /\ RetryDelayed \in BOOLEAN
    /\ ParentEnds \in BOOLEAN

VARIABLES
    mode,       \* none, collect (Execute), chat or responses (ExecuteStream)
    phase,      \* idle, turn, backoff, prepared, over
    attempt,    \* the loop variable of retryTransient
    parentDone, \* the caller's context is done
    pending,    \* PreparedStream.pending, or what collectTurn gathered
    reply,      \* the answer of the plugin call: none, error, payload, headers
    replyErr,   \* its error
    pump,       \* the pump goroutine: none, pumping, closing, closed
    pumpErr,    \* what Pump returned, passed to the host's stream close
    delivered,  \* events whose frames have all been accepted by the host
    emitted     \* some frame has reached the host

executorVars == <<mode, phase, attempt, parentDone, pending, reply, replyErr,
                  pump, pumpErr, delivered, emitted>>
vars == <<sessionVars, executorVars>>

Modes == {"collect", "chat", "responses"}

-----------------------------------------------------------------------------
(* Mutated form: every upstream status is retried. *)
IsTransientAnyStatus(err) ==
    ~parentDone /\ err \in {"net_error", "status_transient", "status_final", "truncated",
                           "cut_payload", "stream_empty"}

(* isTransientCursorError: io.EOF and io.ErrUnexpectedEOF, of the body or  *)
(* of a compressed payload, net.Error values, and StatusErrors that are    *)
(* retryable with a gateway status.                                        *)
IsTransient(err) ==
    /\ ~parentDone
    /\ err \in {"net_error", "status_transient", "truncated", "cut_payload", "stream_empty"}

(* Mutated form: thinking commits in every format. *)
CommitsOnThinking(event) == event.type \in {"text", "thinking", "tool_call", "done"}

(* streamEventCommits: thinking is invisible to Responses clients. *)
StreamEventCommits(event) ==
    \/ event.type \in {"text", "tool_call", "done"}
    \/ event.type = "thinking" /\ mode # "responses"

(* streamState.frames yields nothing for usage, and for a Responses        *)
(* thinking event only the opening frames when it is the first event.      *)
Opened == \E i \in 1..Len(delivered) : delivered[i].type # "usage"

HasFrames(event) ==
    /\ event.type # "usage"
    /\ mode = "responses" /\ event.type = "thinking" => ~Opened

IsFailure(event) == event.type = "done" /\ event.err # NoErr

-----------------------------------------------------------------------------
Init ==
    /\ SessionInit
    /\ mode = "none" /\ phase = "idle" /\ attempt = 0
    /\ parentDone = FALSE
    /\ pending = <<>> /\ delivered = <<>> /\ emitted = FALSE
    /\ reply = "none" /\ replyErr = NoErr
    /\ pump = "none" /\ pumpErr = NoErr

(* decodeAuth, parseExecutorRequest or resolveModel refuses the request. *)
Reject ==
    /\ phase = "idle"
    /\ phase' = "over" /\ reply' = "error" /\ replyErr' = "invalid_request"
    /\ mode' \in Modes
    /\ UNCHANGED <<sessionVars, attempt, parentDone, pending, pump, pumpErr, delivered, emitted>>

Begin(m) ==
    /\ phase = "idle"
    /\ phase' = "turn" /\ mode' = m
    /\ StartTurn(0, parentDone)
    /\ UNCHANGED <<attempt, parentDone, pending, reply, replyErr, pump, pumpErr, delivered, emitted>>

(* The caller gives up; the context of the current turn derives from its.  *)
ParentCancelled ==
    /\ ParentEnds /\ ~parentDone
    /\ phase # "idle"
    /\ parentDone' = TRUE
    /\ cancelled' = [cancelled EXCEPT ![attempt] = @ \/ caller[attempt] # "idle"]
    /\ UNCHANGED <<caller, failure, conn, pipe, reader, outbox, sent, taken, frames,
                   mode, phase, attempt, pending, reply, replyErr, pump, pumpErr, delivered, emitted>>

(* The operation under retryTransient returned err. *)
AttemptFails(err) ==
    /\ IF attempt < RetryCount /\ IsTransient(err)
       THEN /\ phase' = "backoff"
            /\ UNCHANGED <<reply, replyErr>>
       ELSE /\ phase' = "over"
            /\ reply' = "error" /\ replyErr' = err
    /\ pending' = <<>>
    /\ UNCHANGED <<mode, attempt, parentDone, pump, pumpErr, delivered, emitted>>

OpenFailed ==
    /\ phase = "turn" /\ caller[attempt] = "failed"
    /\ AttemptFails(failure[attempt])
    /\ UNCHANGED sessionVars

(* The timer fires, or there is no delay to wait for. *)
Retry ==
    /\ phase = "backoff"
    /\ phase' = "turn" /\ attempt' = attempt + 1
    /\ StartTurn(attempt + 1, parentDone)
    /\ UNCHANGED <<mode, parentDone, pending, reply, replyErr, pump, pumpErr, delivered, emitted>>

BackoffCancelled ==
    /\ phase = "backoff" /\ RetryDelayed /\ parentDone
    /\ phase' = "over" /\ reply' = "error" /\ replyErr' = "canceled"
    /\ UNCHANGED <<sessionVars, mode, attempt, parentDone, pending, pump, pumpErr, delivered, emitted>>

-----------------------------------------------------------------------------
(* Execute: collectTurn gathers the whole turn. *)
NextEvent == sent[attempt][taken[attempt] + 1]

Reading(modes) == phase = "turn" /\ mode \in modes /\ caller[attempt] = "streaming"

CollectEvent ==
    /\ Reading({"collect"}) /\ Receive(attempt)
    /\ IF IsFailure(NextEvent)
       THEN AttemptFails(NextEvent.err)
       ELSE /\ pending' = Append(pending, NextEvent)
            /\ UNCHANGED <<mode, phase, attempt, parentDone, reply, replyErr,
                           pump, pumpErr, delivered, emitted>>

(* The channel is closed: what was gathered is the answer. *)
CollectEnds ==
    /\ Reading({"collect"}) /\ Drained(attempt)
    /\ phase' = "over" /\ reply' = "payload"
    /\ UNCHANGED <<sessionVars, mode, attempt, parentDone, pending, replyErr,
                   pump, pumpErr, delivered, emitted>>

-----------------------------------------------------------------------------
(* PrepareStream: prepareEventStream reads up to the committing event.     *)
(* dispatch then starts the pump and returns the headers.                  *)
PrepareEvent ==
    /\ Reading({"chat", "responses"}) /\ Receive(attempt)
    /\ IF IsFailure(NextEvent)
       THEN AttemptFails(NextEvent.err)
       ELSE /\ pending' = Append(pending, NextEvent)
            /\ IF StreamEventCommits(NextEvent)
               THEN phase' = "prepared" /\ pump' = "pumping"
               ELSE UNCHANGED <<phase, pump>>
            /\ UNCHANGED <<mode, attempt, parentDone, reply, replyErr, pumpErr, delivered, emitted>>

PrepareEmpty ==
    /\ Reading({"chat", "responses"}) /\ Drained(attempt)
    /\ AttemptFails("stream_empty")
    /\ UNCHANGED sessionVars

(* Mutated form: the context is looked at once more before answering. *)
ReturnHeadersUnlessDone ==
    /\ phase = "prepared"
    /\ phase' = "over"
    /\ reply' = IF cancelled[attempt] THEN "error" ELSE "headers"
    /\ UNCHANGED <<sessionVars, mode, attempt, parentDone, pending, replyErr,
                   pump, pumpErr, delivered, emitted>>

ReturnHeaders ==
    /\ phase = "prepared"
    /\ phase' = "over" /\ reply' = "headers"
    /\ UNCHANGED <<sessionVars, mode, attempt, parentDone, pending, replyErr,
                   pump, pumpErr, delivered, emitted>>

-----------------------------------------------------------------------------
(* Mutated form: the buffer is dropped after its first event. *)
PumpTakesFirstOnly(event) ==
    /\ pump = "pumping"
    /\ \/ /\ pending # <<>> /\ event = Head(pending)
          /\ pending' = <<>>
          /\ UNCHANGED sessionVars
       \/ /\ pending = <<>> /\ Available(attempt) /\ event = NextEvent
          /\ Receive(attempt)
          /\ UNCHANGED pending
    /\ UNCHANGED <<mode, phase, attempt, parentDone, reply, replyErr>>

(* Pump: first the pending events, then the channel. *)
PumpTakes(event) ==
    /\ pump = "pumping"
    /\ \/ /\ pending # <<>> /\ event = Head(pending)
          /\ pending' = Tail(pending)
          /\ UNCHANGED sessionVars
       \/ /\ pending = <<>> /\ Available(attempt) /\ event = NextEvent
          /\ Receive(attempt)
          /\ UNCHANGED pending
    /\ UNCHANGED <<mode, phase, attempt, parentDone, reply, replyErr>>

PumpReturns(err) == pump' = "closing" /\ pumpErr' = err

(* consume: an upstream error ends the pump, ... *)
PumpFailure(event) ==
    /\ PumpTakes(event) /\ IsFailure(event)
    /\ PumpReturns(event.err)
    /\ UNCHANGED <<delivered, emitted>>

(* Mutated form: the pump reads on after the terminal event. *)
PumpDeliversAndReadsOn(event) ==
    /\ PumpTakes(event) /\ ~IsFailure(event)
    /\ delivered' = Append(delivered, event)
    /\ emitted' = (emitted \/ HasFrames(event))
    /\ UNCHANGED <<pump, pumpErr>>

(* ... an event whose frames the host accepts goes on unless terminal, ... *)
PumpDelivers(event) ==
    /\ PumpTakes(event) /\ ~IsFailure(event)
    /\ delivered' = Append(delivered, event)
    /\ emitted' = (emitted \/ HasFrames(event))
    /\ IF event.type = "done" THEN PumpReturns(NoErr) ELSE UNCHANGED <<pump, pumpErr>>

(* ... and a frame the host refuses ends the pump, leaving the channel as  *)
(* it is; frames of the same event before it may have been accepted.       *)
PumpEmitFails(event) ==
    /\ PumpTakes(event) /\ ~IsFailure(event) /\ HasFrames(event)
    /\ PumpReturns("emit_failed")
    /\ emitted' \in {emitted, TRUE}
    /\ UNCHANGED delivered

(* Mutated form: a channel closed without a terminal event is a success. *)
PumpAcceptsIncomplete ==
    /\ pump = "pumping" /\ pending = <<>> /\ Drained(attempt)
    /\ PumpReturns(NoErr)
    /\ UNCHANGED <<sessionVars, mode, phase, attempt, parentDone, pending, reply, replyErr,
                   delivered, emitted>>

(* The channel is closed without a terminal event. *)
PumpIncomplete ==
    /\ pump = "pumping" /\ pending = <<>> /\ Drained(attempt)
    /\ PumpReturns("stream_incomplete")
    /\ UNCHANGED <<sessionVars, mode, phase, attempt, parentDone, pending, reply, replyErr,
                   delivered, emitted>>

CloseStream ==
    /\ pump = "closing"
    /\ pump' = "closed"
    /\ UNCHANGED <<sessionVars, mode, phase, attempt, parentDone, pending, reply, replyErr,
                   pumpErr, delivered, emitted>>

-----------------------------------------------------------------------------
PumpEvents == IF pending # <<>> THEN {Head(pending)}
              ELSE IF Available(attempt) THEN {NextEvent} ELSE {}

(* The dispatch call, up to its answer. *)
DispatchStep ==
    \/ OpenFailed \/ Retry \/ BackoffCancelled
    \/ CollectEvent \/ CollectEnds
    \/ PrepareEvent \/ PrepareEmpty \/ ReturnHeaders

(* The pump goroutine, up to the close of the host's stream. *)
PumpStep ==
    \/ \E event \in PumpEvents : PumpFailure(event) \/ PumpDelivers(event) \/ PumpEmitFails(event)
    \/ PumpIncomplete
    \/ CloseStream

Next ==
    \/ Reject
    \/ \E m \in Modes : Begin(m)
    \/ ParentCancelled
    \/ DispatchStep
    \/ PumpStep
    \/ \E t \in Turns : TurnStep(t) /\ UNCHANGED executorVars

(* Goroutines run, the host's callbacks return, the retry timer fires and  *)
(* every turn is subject to Session's fairness; requests need not arrive   *)
(* and the host may refuse any frame.                                      *)
Fairness ==
    /\ WF_vars(DispatchStep)
    /\ WF_vars(PumpStep)
    /\ \A t \in Turns : TurnFairness(t)

Spec == Init /\ [][Next]_vars /\ Fairness

-----------------------------------------------------------------------------
(* Type invariant of the request. *)
TypeOK ==
    /\ SessionTypeOK
    /\ mode \in Modes \cup {"none"}
    /\ phase \in {"idle", "turn", "backoff", "prepared", "over"}
    /\ attempt \in Turns
    /\ parentDone \in BOOLEAN /\ emitted \in BOOLEAN
    /\ pending \in Seq(TurnEvent) /\ delivered \in Seq(TurnEvent)
    /\ reply \in {"none", "error", "payload", "headers"}
    /\ pump \in {"none", "pumping", "closing", "closed"}
    /\ replyErr \in Errors \cup {NoErr} /\ pumpErr \in Errors \cup {NoErr}

Visible(event) ==
    \/ event.type \in {"text", "tool_call"}
    \/ event.type = "thinking" /\ mode # "responses"

PumpOver == pump \in {"closing", "closed"}

(* Failover boundary: as long as the call can still be retried or refused, *)
(* and for ever when it was refused, no frame has reached the host and no  *)
(* pump exists, so the host may hand the request to another account.       *)
FailoverBoundary ==
    phase \in {"turn", "backoff"} \/ reply = "error" =>
        pump = "none" /\ ~emitted /\ delivered = <<>>

(* An upstream failure that reaches the client through the stream, instead *)
(* of being returned by the call, comes after output the client could see: *)
(* a stream is not committed on events the client never gets.              *)
LateErrorsFollowOutput ==
    PumpOver /\ pumpErr \notin {NoErr, "emit_failed"} =>
        emitted /\ \E i \in 1..Len(delivered) : Visible(delivered[i])

(* Between prepareEventStream's buffer and the channel, the pump neither   *)
(* loses, repeats nor reorders an event of the committed attempt.          *)
DeliveredInOrder ==
    /\ pump = "pumping" => delivered \o pending = SubSeq(sent[attempt], 1, taken[attempt])
    /\ PumpOver => delivered = SubSeq(sent[attempt], 1, Len(delivered))

(* A stream closed without an error carried the whole turn, up to and      *)
(* including its successful terminal event.                                *)
SuccessIsComplete ==
    PumpOver /\ pumpErr = NoErr =>
        /\ delivered = sent[attempt]
        /\ delivered[Len(delivered)] = Event("done", delivered[Len(delivered)].frame)

(* A retry never runs beside a live predecessor: the context of every      *)
(* earlier attempt is cancelled, or its reader is about to cancel it.      *)
OneLiveTurn ==
    \A t \in Turns :
        t < attempt \/ (t = attempt /\ phase = "backoff") =>
            cancelled[t] \/ reader[t] = "exiting"

(* What made an attempt be repeated: a transport or gateway failure, a     *)
(* body or a compressed payload that stopped early, or a stream that ended *)
(* without any terminal event; never a refused request, a corrupt or       *)
(* oversized frame, a rejected message, or a completed turn.               *)
RetriesAreJustified ==
    \A t \in Turns : t < attempt =>
        LET Repeatable(err) ==
                err \in {"net_error", "status_transient", "truncated", "cut_payload"}
            last == sent[t][Len(sent[t])]
        IN  \/ caller[t] = "failed" /\ Repeatable(failure[t])
            \/ /\ caller[t] = "streaming"
               /\ \/ sent[t] = <<>> \/ last.type # "done"
                  \/ IsFailure(last) /\ Repeatable(last.err)

(* Every request that begins is answered, whatever the upstream does. *)
Answered == phase = "turn" ~> reply # "none"

(* Every committed stream is closed, whatever the upstream and the host do. *)
StreamCloses == pump = "pumping" ~> pump = "closed"

(* The reader of a turn ends, except when the pump gave up on a host that  *)
(* refused a frame while the reader has more events than the channel holds. *)
ReadersEnd ==
    \A t \in Turns : reader[t] = "reading" ~>
        \/ reader[t] = "gone"
        \/ pumpErr = "emit_failed" /\ reader[t] = "pushing" /\ Buffered(t) = ChanCap

IsDone(event) == event.type = "done"

(* The request as the host sees it; ReturnHeaders is not yet visible then: *)
(* the pump exists as soon as the stream is committed.                     *)
Promise == INSTANCE StreamPromise WITH
    Events   <- TurnEvent,
    Terminal <- IsDone,
    decision <- IF pump # "none" THEN "streaming"
                ELSE IF reply = "error" THEN "refused"
                ELSE IF reply = "payload" THEN "answered" ELSE "open",
    out      <- delivered,
    ending   <- IF pump # "closed" THEN "none"
                ELSE IF pumpErr = NoErr THEN "success" ELSE "failure"

(* Request and turns together implement StreamPromise: one decision, events *)
(* only after it, one end, and that end always comes (Pump and the close    *)
(* dispatch.go makes after it).                                             *)
ImplementsPromise == Promise!Spec

(* The same without the promise that the end comes. *)
KeepsPromise == Promise!Init /\ [][Promise!Next]_(Promise!promiseVars)

(* Whatever the request does with its turns, each of them lives the life   *)
(* Session describes: an attempt is a turn of its own, started once, with  *)
(* one consumer at a time.                                                 *)
TurnsLiveInSession == SessionSpec

(* README: "Transient Cursor gateway and transport failures are retried    *)
(* before the plugin commits a response": a collected turn is answered     *)
(* only when its terminal event arrived.                                   *)
CollectedTurnIsComplete ==
    reply = "payload" => pending # <<>> /\ pending[Len(pending)].type = "done"

(* The same sentence for a transport that fails before any response: the   *)
(* request is not refused while retries are left.                          *)
TransportFailureIsRetried ==
    reply = "error" /\ attempt < RetryCount => conn[attempt] # "net_error"

=============================================================================
