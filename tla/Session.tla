------------------------------- MODULE Session -------------------------------
(***************************************************************************)
(* The life of one Cursor turn: runTurn of internal/provider/session.go,   *)
(* the transport goroutine it starts, the reader goroutine that turns      *)
(* Connect frames into TurnEvents, and the bounded Go channel between that *)
(* reader and whoever consumes the turn.  Several turns exist side by side *)
(* (one per attempt of a request); they share nothing.                     *)
(*                                                                         *)
(* Payloads are abstracted to the kind of frame; an event keeps its type,  *)
(* its error and the number of the frame it was read from, so that loss,   *)
(* duplication and reordering can be told apart.                           *)
(***************************************************************************)
EXTENDS Naturals, Sequences

CONSTANTS
    Turns,      \* identities of the turns
    ChanCap,    \* capacity of the events channel (32 in the code)
    MaxFrames,  \* model bound: frames the upstream sends in one turn
    Upstream    \* the kinds of frame the upstream sends

VARIABLES
    caller,     \* where runTurn is: idle, sending, awaiting, streaming, failed
    failure,    \* the error runTurn returned, or NoErr
    conn,       \* the transport goroutine: none, dialing, connected, or what Do returned
    pipe,       \* the request body pipe: "open" or "closed"
    cancelled,  \* the turn's context is done (deadline or cancel())
    reader,     \* the reader goroutine: none, reading, replying, pushing, exiting, gone
    outbox,     \* events the reader has still to push for the frame it handles
    sent,       \* every event pushed into the channel, in order
    taken,      \* how many of them the consumer has received
    frames      \* frames read so far

sessionVars == <<caller, failure, conn, pipe, cancelled, reader, outbox, sent, taken, frames>>

-----------------------------------------------------------------------------
(* Errors are named by what isTransientCursorError can tell apart. *)
NoErr == "none"

Errors == {"closed_pipe", "net_error", "deadline", "status_transient", "status_final",
           "truncated", "cut_payload", "bad_frame", "rejected_message", "stream_empty",
           "stream_incomplete", "emit_failed", "canceled", "invalid_request"}

EventTypes == {"text", "thinking", "usage", "tool_call", "done"}

TurnEvent == [type : EventTypes, err : Errors \cup {NoErr}, frame : Nat]

Event(type, n)  == [type |-> type, err |-> NoErr, frame |-> n]
Failed(err, n)  == [type |-> "done", err |-> err, frame |-> n]

(* What the upstream may put in one Connect frame.  "request" is a blob,   *)
(* request-context or MCP-state query that is answered on the same stream; *)
(* "ignored" is a message that does not decode or carries nothing handled; *)
(* the end frame carries a Connect error that classifies either way.  A    *)
(* compressed frame may be whole while its gzip payload is empty or stops  *)
(* early ("cut_gzip"), or is corrupt ("bad_gzip").                         *)
FrameKinds == {"text", "thinking", "tokens", "turn_ended", "bad_usage",
               "tool_call", "bad_tool_call", "request", "ignored", "cut_gzip",
               "bad_gzip", "end", "end_transient", "end_final"}

ASSUME SessionAssumption ==
    /\ ChanCap \in Nat \ {0}
    /\ MaxFrames \in Nat
    /\ Upstream \subseteq FrameKinds

(* The events handleServerMessage and the reader loop push for a frame.    *)
(* gunzipPayload returns io.EOF for an empty payload, io.ErrUnexpectedEOF  *)
(* for one that stops early, and errors of its own for a corrupt one.      *)
Produces(kind, n) ==
    CASE kind \in {"text", "thinking"} -> <<Event(kind, n)>>
      [] kind = "tokens"         -> <<Event("usage", n)>>
      [] kind = "turn_ended"     -> <<Event("usage", n), Event("done", n)>>
      [] kind = "tool_call"      -> <<Event("tool_call", n), Event("done", n)>>
      [] kind \in {"bad_usage", "bad_tool_call"} -> <<Failed("rejected_message", n)>>
      [] kind = "cut_gzip"       -> <<Failed("cut_payload", n)>>
      [] kind = "bad_gzip"       -> <<Failed("bad_frame", n)>>
      [] kind = "end"            -> <<Event("done", n)>>
      [] kind = "end_transient"  -> <<Failed("status_transient", n)>>
      [] kind = "end_final"      -> <<Failed("status_final", n)>>
      [] OTHER                   -> <<>>

(* What readConnectFrame may return besides a frame and io.EOF. *)
ReadErrors == {"truncated", "net_error", "bad_frame"}

Buffered(t)  == Len(sent[t]) - taken[t]
Closed(t)    == reader[t] = "gone"
Available(t) == taken[t] < Len(sent[t])
Drained(t)   == Closed(t) /\ ~Available(t)

-----------------------------------------------------------------------------
SessionInit ==
    /\ caller    = [t \in Turns |-> "idle"]
    /\ failure   = [t \in Turns |-> NoErr]
    /\ conn      = [t \in Turns |-> "none"]
    /\ pipe      = [t \in Turns |-> "open"]
    /\ cancelled = [t \in Turns |-> FALSE]
    /\ reader    = [t \in Turns |-> "none"]
    /\ outbox    = [t \in Turns |-> <<>>]
    /\ sent      = [t \in Turns |-> <<>>]
    /\ taken     = [t \in Turns |-> 0]
    /\ frames    = [t \in Turns |-> 0]

(* runTurn builds the request, derives its context from the caller's,      *)
(* which may be over already, and starts the transport goroutine.          *)
StartTurn(t, parentOver) ==
    /\ caller[t] = "idle"
    /\ caller'    = [caller EXCEPT ![t] = "sending"]
    /\ conn'      = [conn EXCEPT ![t] = "dialing"]
    /\ cancelled' = [cancelled EXCEPT ![t] = parentOver]
    /\ UNCHANGED <<failure, pipe, reader, outbox, sent, taken, frames>>

(* Mutated form: a context without a timeout. *)
ContextWithoutTimeout(t) == cancelled[t] /\ UNCHANGED sessionVars

(* The context of the turn ends: its timeout, or its parent. *)
ContextDone(t) ==
    /\ caller[t] # "idle" /\ ~cancelled[t]
    /\ cancelled' = [cancelled EXCEPT ![t] = TRUE]
    /\ UNCHANGED <<caller, failure, conn, pipe, reader, outbox, sent, taken, frames>>

(* The HTTP/2 client (a library).  Do returns an error or a response.      *)
(* Per the RoundTripper contract the request body is closed on an error,   *)
(* and it may be closed once the server has answered or the context ended. *)
Connect(t) ==
    /\ conn[t] = "dialing" /\ ~cancelled[t]
    /\ conn' = [conn EXCEPT ![t] = "connected"]
    /\ UNCHANGED <<caller, failure, pipe, cancelled, reader, outbox, sent, taken, frames>>

DoFails(t, err) ==
    /\ conn[t] \in {"dialing", "connected"}
    /\ err = "deadline" => cancelled[t]
    /\ conn' = [conn EXCEPT ![t] = err]
    /\ pipe' = [pipe EXCEPT ![t] = "closed"]
    /\ UNCHANGED <<caller, failure, cancelled, reader, outbox, sent, taken, frames>>

DoResponds(t, status) ==
    /\ conn[t] = "connected"
    /\ conn' = [conn EXCEPT ![t] = status]
    /\ UNCHANGED <<caller, failure, pipe, cancelled, reader, outbox, sent, taken, frames>>

TransportClosesPipe(t) ==
    /\ conn[t] \in {"ok", "status_transient", "status_final"}
    /\ pipe[t] = "open"
    /\ pipe' = [pipe EXCEPT ![t] = "closed"]
    /\ UNCHANGED <<caller, failure, conn, cancelled, reader, outbox, sent, taken, frames>>

-----------------------------------------------------------------------------
(* runTurn, the caller's side. *)

(* The run request is consumed by the transport, which needs a stream. *)
RunRequestWritten(t) ==
    /\ caller[t] = "sending" /\ pipe[t] = "open" /\ conn[t] # "dialing"
    /\ caller' = [caller EXCEPT ![t] = "awaiting"]
    /\ UNCHANGED <<failure, conn, pipe, cancelled, reader, outbox, sent, taken, frames>>

(* Mutated form: an error return without cancel(). *)
RunTurnFailsUncancelled(t, err) ==
    /\ caller'  = [caller EXCEPT ![t] = "failed"]
    /\ failure' = [failure EXCEPT ![t] = err]
    /\ pipe'    = [pipe EXCEPT ![t] = "closed"]
    /\ UNCHANGED <<conn, cancelled, reader, outbox, sent, taken, frames>>

(* A failing run of runTurn cancels the context and closes the pipe. *)
RunTurnFails(t, err) ==
    /\ caller'    = [caller EXCEPT ![t] = "failed"]
    /\ failure'   = [failure EXCEPT ![t] = err]
    /\ cancelled' = [cancelled EXCEPT ![t] = TRUE]
    /\ pipe'      = [pipe EXCEPT ![t] = "closed"]
    /\ UNCHANGED <<conn, reader, outbox, sent, taken, frames>>

(* send: the write meets a closed pipe; the result of Do is not looked at. *)
RunRequestFails(t) ==
    /\ caller[t] = "sending" /\ pipe[t] = "closed"
    /\ RunTurnFails(t, "closed_pipe")

(* The transport error or the non-200 status decides. *)
OpenFails(t) ==
    /\ caller[t] = "awaiting"
    /\ conn[t] \in {"net_error", "deadline", "status_transient", "status_final"}
    /\ RunTurnFails(t, conn[t])

TurnOpens(t) ==
    /\ caller[t] = "awaiting" /\ conn[t] = "ok"
    /\ caller' = [caller EXCEPT ![t] = "streaming"]
    /\ reader' = [reader EXCEPT ![t] = "reading"]
    /\ UNCHANGED <<failure, conn, pipe, cancelled, outbox, sent, taken, frames>>

-----------------------------------------------------------------------------
(* The reader goroutine. *)

(* Where the reader goes when it has these events to push. *)
AfterFrame(kind) ==
    CASE kind = "request" -> "replying"
      [] kind = "ignored" -> "reading"
      [] OTHER            -> "pushing"

ReadFrame(t, kind) ==
    /\ reader[t] = "reading" /\ frames[t] < MaxFrames
    /\ frames' = [frames EXCEPT ![t] = @ + 1]
    /\ outbox' = [outbox EXCEPT ![t] = Produces(kind, frames[t] + 1)]
    /\ reader' = [reader EXCEPT ![t] = AfterFrame(kind)]
    /\ UNCHANGED <<caller, failure, conn, pipe, cancelled, sent, taken>>

(* io.EOF, which readConnectFrame also returns for a body cut right after  *)
(* a frame header: the reader leaves without a terminal event.             *)
ReadEOF(t) ==
    /\ reader[t] = "reading"
    /\ reader' = [reader EXCEPT ![t] = "exiting"]
    /\ UNCHANGED <<caller, failure, conn, pipe, cancelled, outbox, sent, taken, frames>>

(* Mutated form: a read that fails for a done context is tried again. *)
ReadFailsAndContinues(t, err) ==
    /\ reader[t] = "reading" /\ ~cancelled[t]
    /\ reader' = [reader EXCEPT ![t] = "pushing"]
    /\ outbox' = [outbox EXCEPT ![t] = <<Failed(err, frames[t])>>]
    /\ UNCHANGED <<caller, failure, conn, pipe, cancelled, sent, taken, frames>>

(* Any other read error is reported unless the context is already done. *)
ReadFails(t, err) ==
    /\ reader[t] = "reading"
    /\ IF cancelled[t]
       THEN /\ reader' = [reader EXCEPT ![t] = "exiting"]
            /\ UNCHANGED outbox
       ELSE /\ reader' = [reader EXCEPT ![t] = "pushing"]
            /\ outbox' = [outbox EXCEPT ![t] = <<Failed(err, frames[t])>>]
    /\ UNCHANGED <<caller, failure, conn, pipe, cancelled, sent, taken, frames>>

(* Mutated forms: the loop goes on after an error event; the reader leaves *)
(* after a tool call without its terminal event.                           *)
AfterPushGoesOn(t) ==
    IF Len(outbox[t]) > 1 THEN "pushing"
    ELSE IF Head(outbox[t]).type = "done" /\ Head(outbox[t]).err = NoErr THEN "exiting" ELSE "reading"

AfterPushLeavesEarly(t) ==
    IF Head(outbox[t]).type \in {"done", "tool_call"} THEN "exiting"
    ELSE IF Len(outbox[t]) > 1 THEN "pushing" ELSE "reading"

(* The reader returns after a terminal event, and reads on otherwise. *)
AfterPush(t) ==
    IF Len(outbox[t]) > 1 THEN "pushing"
    ELSE IF Head(outbox[t]).type = "done" THEN "exiting" ELSE "reading"

(* Mutated form: a channel without a bound. *)
PushUnbounded(t) ==
    /\ reader[t] = "pushing"
    /\ sent'   = [sent EXCEPT ![t] = Append(@, Head(outbox[t]))]
    /\ outbox' = [outbox EXCEPT ![t] = Tail(@)]
    /\ reader' = [reader EXCEPT ![t] = AfterPush(t)]
    /\ UNCHANGED <<caller, failure, conn, pipe, cancelled, taken, frames>>

(* events <- event: blocks on a full channel, and on nothing else. *)
Push(t) ==
    /\ reader[t] = "pushing" /\ Buffered(t) < ChanCap
    /\ sent'   = [sent EXCEPT ![t] = Append(@, Head(outbox[t]))]
    /\ outbox' = [outbox EXCEPT ![t] = Tail(@)]
    /\ reader' = [reader EXCEPT ![t] = AfterPush(t)]
    /\ UNCHANGED <<caller, failure, conn, pipe, cancelled, taken, frames>>

ReplyWritten(t) ==
    /\ reader[t] = "replying" /\ pipe[t] = "open"
    /\ reader' = [reader EXCEPT ![t] = "reading"]
    /\ UNCHANGED <<caller, failure, conn, pipe, cancelled, outbox, sent, taken, frames>>

(* A reply that cannot be written ends the turn with the pipe's error,     *)
(* whether or not the context is done.                                     *)
ReplyFails(t) ==
    /\ reader[t] = "replying" /\ pipe[t] = "closed"
    /\ reader' = [reader EXCEPT ![t] = "pushing"]
    /\ outbox' = [outbox EXCEPT ![t] = <<Failed("closed_pipe", frames[t])>>]
    /\ UNCHANGED <<caller, failure, conn, pipe, cancelled, sent, taken, frames>>

(* Mutated form: close(events) is forgotten. *)
ReaderExitsUnclosed(t) ==
    /\ reader[t] = "exiting" /\ ~cancelled[t]
    /\ pipe'      = [pipe EXCEPT ![t] = "closed"]
    /\ cancelled' = [cancelled EXCEPT ![t] = TRUE]
    /\ UNCHANGED <<caller, failure, conn, reader, outbox, sent, taken, frames>>

(* The deferred calls: close the pipe and the body, cancel, close(events). *)
ReaderExits(t) ==
    /\ reader[t] = "exiting"
    /\ reader'    = [reader EXCEPT ![t] = "gone"]
    /\ pipe'      = [pipe EXCEPT ![t] = "closed"]
    /\ cancelled' = [cancelled EXCEPT ![t] = TRUE]
    /\ UNCHANGED <<caller, failure, conn, outbox, sent, taken, frames>>

(* The consumer's receive. *)
Receive(t) ==
    /\ Available(t)
    /\ taken' = [taken EXCEPT ![t] = @ + 1]
    /\ UNCHANGED <<caller, failure, conn, pipe, cancelled, reader, outbox, sent, frames>>

-----------------------------------------------------------------------------
CallerStep(t) ==
    \/ RunRequestWritten(t)
    \/ RunRequestFails(t)
    \/ OpenFails(t)
    \/ TurnOpens(t)

TransportStep(t) ==
    \/ Connect(t)
    \/ \E err \in {"net_error", "deadline"} : DoFails(t, err)
    \/ \E status \in {"ok", "status_transient", "status_final"} : DoResponds(t, status)
    \/ TransportClosesPipe(t)

ReaderStep(t) ==
    \/ \E kind \in Upstream : ReadFrame(t, kind)
    \/ ReadEOF(t)
    \/ \E err \in ReadErrors : ReadFails(t, err)
    \/ Push(t)
    \/ ReplyWritten(t)
    \/ ReplyFails(t)
    \/ ReaderExits(t)

(* Everything a turn does by itself once it has been started. *)
TurnStep(t) ==
    \/ ContextDone(t)
    \/ CallerStep(t)
    \/ TransportStep(t)
    \/ ReaderStep(t)

SessionNext ==
    \E t \in Turns :
        \/ \E parentOver \in BOOLEAN : StartTurn(t, parentOver)
        \/ TurnStep(t)
        \/ Receive(t)

SessionSpec == SessionInit /\ [][SessionNext]_sessionVars

(* Goroutines are scheduled, contexts time out (context.WithTimeout), and  *)
(* once the context is done the library unblocks: Do returns, the body     *)
(* reads fail and the request body is closed.  Nothing is assumed of the   *)
(* upstream: it may stay silent, or never read what is written to it.      *)
TurnFairness(t) ==
    /\ WF_sessionVars(ContextDone(t))
    /\ WF_sessionVars(RunRequestFails(t) \/ OpenFails(t) \/ TurnOpens(t))
    /\ WF_sessionVars(cancelled[t] /\ ReadFails(t, "net_error"))
    /\ WF_sessionVars(DoFails(t, "deadline"))
    /\ WF_sessionVars(cancelled[t] /\ TransportClosesPipe(t))
    /\ WF_sessionVars(Push(t) \/ ReplyFails(t) \/ ReaderExits(t))

SessionFairSpec ==
    /\ SessionSpec
    /\ \A t \in Turns : TurnFairness(t) /\ WF_sessionVars(Receive(t))

-----------------------------------------------------------------------------
(* Type invariant: every goroutine of a turn is at one of its known points *)
(* and the channel never holds more than its capacity.                     *)
SessionTypeOK ==
    /\ caller    \in [Turns -> {"idle", "sending", "awaiting", "streaming", "failed"}]
    /\ failure   \in [Turns -> Errors \cup {NoErr}]
    /\ conn      \in [Turns -> {"none", "dialing", "connected", "ok", "net_error", "deadline",
                               "status_transient", "status_final"}]
    /\ pipe      \in [Turns -> {"open", "closed"}]
    /\ cancelled \in [Turns -> BOOLEAN]
    /\ reader    \in [Turns -> {"none", "reading", "replying", "pushing", "exiting", "gone"}]
    /\ outbox    \in [Turns -> Seq(TurnEvent)]
    /\ sent      \in [Turns -> Seq(TurnEvent)]
    /\ taken     \in [Turns -> Nat]
    /\ frames    \in [Turns -> 0..MaxFrames]
    /\ \A t \in Turns : taken[t] <= Len(sent[t]) /\ Buffered(t) <= ChanCap

(* A terminal event is the last event of its turn: once the reader has     *)
(* pushed "done", with or without an error, it pushes nothing more and is  *)
(* on its way out (the returns after every done in runTurn's reader).      *)
TerminalIsLast ==
    \A t \in Turns : \A i \in 1..Len(sent[t]) :
        sent[t][i].type = "done" => i = Len(sent[t]) /\ reader[t] \in {"exiting", "gone"}

(* A tool call hands control to the caller: the event after it is the      *)
(* successful terminal event, already pushed or next to be pushed.         *)
ToolCallEndsTurn ==
    \A t \in Turns : \A i \in 1..Len(sent[t]) :
        sent[t][i].type = "tool_call" =>
            LET coming == IF reader[t] = "pushing" THEN outbox[t] ELSE <<>>
            IN  SubSeq(sent[t], i + 1, Len(sent[t])) \o coming = <<Event("done", sent[t][i].frame)>>

(* A turn whose events nobody can see any more has released its upstream:  *)
(* runTurn failed or the reader is gone, the context is cancelled and the  *)
(* request body closed; and a turn that failed to open pushed no event.    *)
FinishedTurnIsReleased ==
    \A t \in Turns :
        /\ caller[t] = "failed" \/ reader[t] = "gone" => cancelled[t] /\ pipe[t] = "closed"
        /\ caller[t] = "failed" => sent[t] = <<>> /\ reader[t] = "none"

(* Every turn that is started ends: runTurn returns an error, or the       *)
(* reader leaves and the channel is closed and drained.  The upstream may  *)
(* stay silent or stop reading; the request timeout ends the turn.         *)
TurnEnds ==
    \A t \in Turns : caller[t] = "sending" ~> caller[t] = "failed" \/ Drained(t)

=============================================================================
