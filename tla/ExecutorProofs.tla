---------------------------- MODULE ExecutorProofs ----------------------------
(***************************************************************************)
(* Proofs about turns and about a request, for any number of retries, any  *)
(* channel capacity and any frames.  In five parts: the type invariant of  *)
(* a turn, the order of its events and what it releases; attempts are      *)
(* turns of Session, so that what is proved of turns holds of attempts,    *)
(* and on top of that the failover boundary and the order of attempts;     *)
(* what a request delivers; why an attempt is repeated and when a stream   *)
(* is committed; and that a request keeps what StreamPromise promises the  *)
(* host.                                                                   *)
(***************************************************************************)
EXTENDS Executor, SequenceTheorems, TLAPS

(* What the reader still has to push explains where it is: it has events   *)
(* exactly while it is pushing, and only the last of them is terminal.     *)
OutboxOK ==
    \A t \in Turns :
        /\ outbox[t] = <<>> <=> reader[t] # "pushing"
        /\ \A i \in 1..Len(outbox[t]) : outbox[t][i].type = "done" => i = Len(outbox[t])

(* The reader starts when the turn is open, not before: until then no      *)
(* event exists.  TurnOpens therefore never restarts a reader.             *)
ReaderAfterOpen ==
    \A t \in Turns : caller[t] # "streaming" => reader[t] = "none" /\ sent[t] = <<>>

(* The inductive invariant. *)
EventsInv  == OutboxOK /\ TerminalIsLast
ReleaseInv == ReaderAfterOpen /\ FinishedTurnIsReleased
SessionInv == SessionTypeOK /\ EventsInv /\ ReleaseInv

-----------------------------------------------------------------------------
(* The events of one frame are well formed, there are some exactly when    *)
(* the reader goes on to push, and a terminal event comes last.            *)
LEMMA ProducesWellFormed ==
    ASSUME NEW kind \in FrameKinds, NEW n \in Nat
    PROVE  /\ Produces(kind, n) \in Seq(TurnEvent)
           /\ AfterFrame(kind) \in {"reading", "replying", "pushing"}
           /\ Produces(kind, n) = <<>> <=> AfterFrame(kind) # "pushing"
           /\ \A i \in 1..Len(Produces(kind, n)) :
                  Produces(kind, n)[i].type = "done" => i = Len(Produces(kind, n))
<1>1. CASE kind = "text"
  BY <1>1 DEF Produces, AfterFrame, Event, TurnEvent, EventTypes, NoErr
<1>2. CASE kind = "thinking"
  BY <1>2 DEF Produces, AfterFrame, Event, TurnEvent, EventTypes, NoErr
<1>3. CASE kind = "tokens"
  BY <1>3 DEF Produces, AfterFrame, Event, TurnEvent, EventTypes, NoErr
<1>4. CASE kind = "turn_ended"
  BY <1>4 DEF Produces, AfterFrame, Event, TurnEvent, EventTypes, NoErr
<1>5. CASE kind = "tool_call"
  BY <1>5 DEF Produces, AfterFrame, Event, TurnEvent, EventTypes, NoErr
<1>6. CASE kind = "bad_usage"
  BY <1>6 DEF Produces, AfterFrame, Failed, TurnEvent, EventTypes, Errors
<1>7. CASE kind = "bad_tool_call"
  BY <1>7 DEF Produces, AfterFrame, Failed, TurnEvent, EventTypes, Errors
<1>8. CASE kind = "bad_gzip"
  BY <1>8 DEF Produces, AfterFrame, Failed, TurnEvent, EventTypes, Errors
<1>9. CASE kind = "end"
  BY <1>9 DEF Produces, AfterFrame, Event, TurnEvent, EventTypes, NoErr
<1>10. CASE kind = "end_transient"
  BY <1>10 DEF Produces, AfterFrame, Failed, TurnEvent, EventTypes, Errors
<1>11. CASE kind = "end_final"
  BY <1>11 DEF Produces, AfterFrame, Failed, TurnEvent, EventTypes, Errors
<1>12. CASE kind = "request"
  BY <1>12 DEF Produces, AfterFrame
<1>13. CASE kind = "ignored"
  BY <1>13 DEF Produces, AfterFrame
<1>14. CASE kind = "cut_gzip"
  BY <1>14 DEF Produces, AfterFrame, Failed, TurnEvent, EventTypes, Errors
<1> QED
  BY <1>1, <1>2, <1>3, <1>4, <1>5, <1>6, <1>7, <1>8, <1>9, <1>10, <1>11, <1>12, <1>13, <1>14 DEF FrameKinds

-----------------------------------------------------------------------------
(* Appending to a sequence: what is read back, and how long it is. *)
LEMMA AppendFacts ==
    ASSUME NEW S, NEW s \in Seq(S), NEW e \in S
    PROVE  /\ Append(s, e) \in Seq(S)
           /\ Len(Append(s, e)) = Len(s) + 1
           /\ Append(s, e)[Len(s) + 1] = e
           /\ \A i \in 1..Len(s) : Append(s, e)[i] = s[i]
  OBVIOUS

(* The rest of a non-empty sequence. *)
LEMMA TailFacts ==
    ASSUME NEW S, NEW s \in Seq(S), s # <<>>
    PROVE  /\ Head(s) \in S /\ Head(s) = s[1]
           /\ Tail(s) \in Seq(S)
           /\ Len(s) \in Nat \ {0}
           /\ Len(Tail(s)) = Len(s) - 1
           /\ Tail(s) = <<>> <=> Len(s) = 1
           /\ \A i \in 1..Len(Tail(s)) : Tail(s)[i] = s[i + 1]
<1>1. /\ Head(s) \in S /\ Tail(s) \in Seq(S)
  BY HeadTailProperties
<1>2. Len(s) \in Nat \ {0}
  BY EmptySeq
<1>3. /\ Head(s) = s[1]
      /\ Len(Tail(s)) = Len(s) - 1
      /\ \A i \in 1..Len(Tail(s)) : Tail(s)[i] = s[i + 1]
  BY <1>2
<1>4. Tail(s) = <<>> <=> Len(s) = 1
  <2>1. \A q \in Seq(S) : q # <<>> => Len(q) \in Nat \ {0}
    BY EmptySeq
  <2>2. Len(<<>>) = 0
    BY EmptySeq
  <2>3. CASE Tail(s) = <<>>
    BY <1>2, <1>3, <2>2, <2>3
  <2>4. CASE Tail(s) # <<>>
    BY <1>1, <1>2, <1>3, <2>1, <2>4
  <2> QED
    BY <2>3, <2>4
<1> QED
  BY <1>1, <1>2, <1>3, <1>4

LEMMA InitInv == SessionInit => SessionInv
<1> SUFFICES ASSUME SessionInit PROVE SessionInv
  OBVIOUS
<1>1. SessionTypeOK
  BY SessionAssumption DEF SessionInit, SessionTypeOK, Errors, NoErr, Buffered
<1>2. OutboxOK
  <2> SUFFICES ASSUME NEW t \in Turns
               PROVE  /\ outbox[t] = <<>> <=> reader[t] # "pushing"
                      /\ \A i \in 1..Len(outbox[t]) :
                             outbox[t][i].type = "done" => i = Len(outbox[t])
    BY DEF OutboxOK
  <2>1. outbox[t] = <<>> /\ reader[t] = "none"
    BY DEF SessionInit
  <2>2. Len(outbox[t]) = 0
    BY <2>1
  <2> QED
    BY <2>1, <2>2
<1>3. TerminalIsLast
  BY DEF SessionInit, TerminalIsLast
<1>4. ReleaseInv
  BY DEF SessionInit, ReleaseInv, ReaderAfterOpen, FinishedTurnIsReleased
<1> QED
  BY <1>1, <1>2, <1>3, <1>4 DEF SessionInv, EventsInv

(* The steps that touch neither the outbox nor the channel. *)
LEMMA QuietStep ==
    ASSUME EventsInv, UNCHANGED <<outbox, sent>>,
           \A t \in Turns : /\ reader[t] = "pushing" <=> reader'[t] = "pushing"
                            /\ reader[t] \in {"exiting", "gone"} => reader'[t] \in {"exiting", "gone"}
    PROVE  EventsInv'
  BY DEF EventsInv, OutboxOK, TerminalIsLast

LEMMA PushInv ==
    ASSUME SessionInv, NEW t \in Turns, Push(t)
    PROVE  SessionTypeOK' /\ EventsInv'
<1> DEFINE event == Head(outbox[t])
<1> USE DEF SessionInv, EventsInv
<1>1. /\ outbox[t] \in Seq(TurnEvent) /\ outbox[t] # <<>>
      /\ sent[t] \in Seq(TurnEvent)
  BY DEF Push, OutboxOK, SessionTypeOK
<1>2. /\ event \in TurnEvent /\ event = outbox[t][1]
      /\ Tail(outbox[t]) \in Seq(TurnEvent)
      /\ Len(outbox[t]) \in Nat \ {0}
      /\ Len(Tail(outbox[t])) = Len(outbox[t]) - 1
      /\ Tail(outbox[t]) = <<>> <=> Len(outbox[t]) = 1
      /\ \A i \in 1..Len(Tail(outbox[t])) : Tail(outbox[t])[i] = outbox[t][i + 1]
  BY <1>1, TailFacts
<1>3. /\ Append(sent[t], event) \in Seq(TurnEvent)
      /\ Len(Append(sent[t], event)) = Len(sent[t]) + 1
      /\ Append(sent[t], event)[Len(sent[t]) + 1] = event
      /\ \A i \in 1..Len(sent[t]) : Append(sent[t], event)[i] = sent[t][i]
  BY <1>1, <1>2, AppendFacts
<1>4. /\ sent'   = [sent EXCEPT ![t] = Append(sent[t], event)]
      /\ outbox' = [outbox EXCEPT ![t] = Tail(outbox[t])]
      /\ reader' = [reader EXCEPT ![t] =
                        IF Len(outbox[t]) > 1 THEN "pushing"
                        ELSE IF event.type = "done" THEN "exiting" ELSE "reading"]
      /\ UNCHANGED <<caller, failure, conn, pipe, cancelled, taken, frames>>
      /\ Len(sent[t]) - taken[t] < ChanCap
      /\ reader[t] = "pushing"
  BY DEF Push, AfterPush, Buffered
<1>5. SessionTypeOK'
  <2>1. Len(sent[t]) \in Nat
    BY <1>1
  <2>2. \A u \in Turns : taken'[u] <= Len(sent'[u]) /\ Len(sent'[u]) - taken'[u] <= ChanCap
    BY <1>3, <1>4, <2>1, SessionAssumption DEF SessionTypeOK, Buffered
  <2> QED
    BY <1>2, <1>3, <1>4, <2>2 DEF SessionTypeOK, Buffered
<1>6. OutboxOK'
  <2> SUFFICES ASSUME NEW u \in Turns
               PROVE  /\ outbox'[u] = <<>> <=> reader'[u] # "pushing"
                      /\ \A i \in 1..Len(outbox'[u]) :
                             outbox'[u][i].type = "done" => i = Len(outbox'[u])
    BY DEF OutboxOK
  <2>1. CASE u # t
    BY <1>4, <2>1 DEF OutboxOK, SessionTypeOK
  <2>2. CASE u = t
    <3>1. outbox'[t] = Tail(outbox[t])
      BY <1>4 DEF SessionTypeOK
    <3>2. reader'[t] = "pushing" <=> Len(outbox[t]) > 1
      BY <1>4 DEF SessionTypeOK
    <3>3. \A i \in 1..Len(outbox[t]) : outbox[t][i].type = "done" => i = Len(outbox[t])
      BY DEF OutboxOK
    <3>4. \A i \in 1..Len(Tail(outbox[t])) :
              Tail(outbox[t])[i].type = "done" => i = Len(Tail(outbox[t]))
      BY <1>2, <3>3
    <3>5. Tail(outbox[t]) = <<>> <=> ~(Len(outbox[t]) > 1)
      <4>1. Tail(outbox[t]) = <<>> <=> Len(outbox[t]) = 1
        BY <1>2, Zenon
      <4>2. Len(outbox[t]) \in Nat \ {0}
        BY <1>2, Zenon
      <4>3. \A n \in Nat \ {0} : n = 1 <=> ~(n > 1)
        OBVIOUS
      <4> QED
        BY <4>1, <4>2, <4>3, Zenon
    <3>6. outbox'[t] = <<>> <=> reader'[t] # "pushing"
      BY <3>1, <3>2, <3>5
    <3> QED
      BY <2>2, <3>1, <3>4, <3>6
  <2> QED
    BY <2>1, <2>2
<1>7. TerminalIsLast'
  <2> SUFFICES ASSUME NEW u \in Turns, NEW i \in 1..Len(sent'[u]), sent'[u][i].type = "done"
               PROVE  i = Len(sent'[u]) /\ reader'[u] \in {"exiting", "gone"}
    BY DEF TerminalIsLast
  <2>1. CASE u # t
    BY <1>4, <2>1 DEF TerminalIsLast, SessionTypeOK
  <2>2. CASE u = t
    <3>1. sent'[t] = Append(sent[t], event)
      BY <1>4 DEF SessionTypeOK
    <3>2. \A j \in 1..Len(sent[t]) : sent[t][j].type # "done"
      BY <1>4 DEF TerminalIsLast
    <3>3. i = Len(sent[t]) + 1
      BY <1>1, <1>3, <2>2, <3>1, <3>2
    <3>4. event.type = "done"
      BY <1>3, <2>2, <3>1, <3>3
    <3>5. Len(outbox[t]) = 1
      BY <1>2, <3>4 DEF OutboxOK
    <3>6. reader'[t] = "exiting"
      BY <1>4, <3>4, <3>5 DEF SessionTypeOK
    <3> QED
      BY <1>3, <2>2, <3>1, <3>3, <3>6
  <2> QED
    BY <2>1, <2>2
<1> QED
  BY <1>5, <1>6, <1>7

-----------------------------------------------------------------------------
(* The actions that leave the outbox and the channel alone. *)
LEMMA CallerInv ==
    ASSUME SessionInv, NEW t \in Turns,
           \/ \E parentOver \in BOOLEAN : StartTurn(t, parentOver)
           \/ ContextDone(t) \/ CallerStep(t) \/ TransportStep(t)
    PROVE  SessionTypeOK' /\ EventsInv'
<1> USE DEF SessionInv
<1>1. CASE \E parentOver \in BOOLEAN : StartTurn(t, parentOver)
  <2>1. SessionTypeOK'
    BY <1>1 DEF StartTurn, SessionTypeOK, Buffered
  <2>2. EventsInv'
    BY <1>1, QuietStep DEF StartTurn
  <2> QED
    BY <2>1, <2>2
<1>2. CASE ContextDone(t)
  <2>1. SessionTypeOK'
    BY <1>2 DEF ContextDone, SessionTypeOK, Buffered
  <2>2. EventsInv'
    BY <1>2, QuietStep DEF ContextDone
  <2> QED
    BY <2>1, <2>2
<1>3. CASE RunRequestWritten(t)
  <2>1. SessionTypeOK'
    BY <1>3 DEF RunRequestWritten, SessionTypeOK, Buffered
  <2>2. EventsInv'
    BY <1>3, QuietStep DEF RunRequestWritten
  <2> QED
    BY <2>1, <2>2
<1>4. CASE RunRequestFails(t)
  <2>1. SessionTypeOK'
    BY <1>4 DEF RunRequestFails, RunTurnFails, SessionTypeOK, Buffered, Errors
  <2>2. EventsInv'
    BY <1>4, QuietStep DEF RunRequestFails, RunTurnFails
  <2> QED
    BY <2>1, <2>2
<1>5. CASE OpenFails(t)
  <2>1. SessionTypeOK'
    BY <1>5 DEF OpenFails, RunTurnFails, SessionTypeOK, Buffered, Errors
  <2>2. EventsInv'
    BY <1>5, QuietStep DEF OpenFails, RunTurnFails
  <2> QED
    BY <2>1, <2>2
<1>6. CASE Connect(t)
  <2>1. SessionTypeOK'
    BY <1>6 DEF Connect, SessionTypeOK, Buffered
  <2>2. EventsInv'
    BY <1>6, QuietStep DEF Connect
  <2> QED
    BY <2>1, <2>2
<1>7. CASE \E err \in {"net_error", "deadline"} : DoFails(t, err)
  <2>1. SessionTypeOK'
    BY <1>7 DEF DoFails, SessionTypeOK, Buffered
  <2>2. EventsInv'
    BY <1>7, QuietStep DEF DoFails
  <2> QED
    BY <2>1, <2>2
<1>8. CASE \E status \in {"ok", "status_transient", "status_final"} : DoResponds(t, status)
  <2>1. SessionTypeOK'
    BY <1>8 DEF DoResponds, SessionTypeOK, Buffered
  <2>2. EventsInv'
    BY <1>8, QuietStep DEF DoResponds
  <2> QED
    BY <2>1, <2>2
<1>9. CASE TransportClosesPipe(t)
  <2>1. SessionTypeOK'
    BY <1>9 DEF TransportClosesPipe, SessionTypeOK, Buffered
  <2>2. EventsInv'
    BY <1>9, QuietStep DEF TransportClosesPipe
  <2> QED
    BY <2>1, <2>2
<1>10. CASE TurnOpens(t)
  <2>1. SessionTypeOK'
    BY <1>10 DEF TurnOpens, SessionTypeOK, Buffered
  <2>2. reader[t] = "none"
    BY <1>10 DEF TurnOpens, ReleaseInv, ReaderAfterOpen
  <2>3. \A u \in Turns : /\ reader[u] = "pushing" <=> reader'[u] = "pushing"
                         /\ reader[u] \in {"exiting", "gone"} => reader'[u] \in {"exiting", "gone"}
    BY <1>10, <2>2 DEF TurnOpens, SessionTypeOK
  <2>4. EventsInv'
    BY <1>10, <2>3, QuietStep DEF TurnOpens
  <2> QED
    BY <2>1, <2>4
<1> QED
  BY <1>1, <1>2, <1>3, <1>4, <1>5, <1>6, <1>7, <1>8, <1>9, <1>10
     DEF CallerStep, TransportStep

(* The reader's actions other than Push, and the receive. *)
LEMMA ReaderInv ==
    ASSUME SessionInv, NEW t \in Turns,
           \/ \E kind \in Upstream : ReadFrame(t, kind)
           \/ ReadEOF(t)
           \/ \E err \in ReadErrors : ReadFails(t, err)
           \/ ReplyWritten(t) \/ ReplyFails(t) \/ ReaderExits(t) \/ Receive(t)
    PROVE  SessionTypeOK' /\ EventsInv'
<1> USE DEF SessionInv
<1>1. ASSUME NEW kind \in Upstream, ReadFrame(t, kind)
      PROVE  SessionTypeOK' /\ EventsInv'
  <2>1. kind \in FrameKinds /\ frames[t] + 1 \in Nat
    BY SessionAssumption DEF SessionTypeOK
  <2> DEFINE box == Produces(kind, frames[t] + 1)
  <2>2. /\ box \in Seq(TurnEvent)
        /\ AfterFrame(kind) \in {"reading", "replying", "pushing"}
        /\ box = <<>> <=> AfterFrame(kind) # "pushing"
        /\ \A i \in 1..Len(box) : box[i].type = "done" => i = Len(box)
    BY <2>1, ProducesWellFormed
  <2>3. /\ reader[t] = "reading" /\ frames[t] < MaxFrames
        /\ frames' = [frames EXCEPT ![t] = @ + 1]
        /\ outbox' = [outbox EXCEPT ![t] = box]
        /\ reader' = [reader EXCEPT ![t] = AfterFrame(kind)]
        /\ UNCHANGED <<caller, failure, conn, pipe, cancelled, sent, taken>>
    BY <1>1 DEF ReadFrame
  <2> HIDE DEF box
  <2>4. SessionTypeOK'
    BY <2>2, <2>3, SessionAssumption DEF SessionTypeOK, Buffered
  <2>5. OutboxOK'
    BY <2>2, <2>3 DEF OutboxOK, EventsInv, SessionTypeOK
  <2>6. TerminalIsLast'
    BY <2>3 DEF TerminalIsLast, EventsInv, SessionTypeOK
  <2> QED
    BY <2>4, <2>5, <2>6 DEF EventsInv
<1>2. CASE ReadEOF(t)
  <2>1. SessionTypeOK'
    BY <1>2 DEF ReadEOF, SessionTypeOK, Buffered
  <2>2. EventsInv'
    BY <1>2 DEF ReadEOF, EventsInv, OutboxOK, TerminalIsLast, SessionTypeOK
  <2> QED
    BY <2>1, <2>2
<1>3. ASSUME NEW err \in Errors, reader[t] \in {"reading", "replying"},
             reader' = [reader EXCEPT ![t] = "pushing"],
             outbox' = [outbox EXCEPT ![t] = <<Failed(err, frames[t])>>],
             UNCHANGED <<caller, failure, conn, pipe, cancelled, sent, taken, frames>>
      PROVE  SessionTypeOK' /\ EventsInv'
  <2> DEFINE box == <<Failed(err, frames[t])>>
  <2>1. /\ box \in Seq(TurnEvent) /\ Len(box) = 1 /\ box # <<>>
    BY <1>3, SessionAssumption DEF SessionTypeOK, Failed, TurnEvent, EventTypes
  <2>2. outbox' = [outbox EXCEPT ![t] = box]
    BY <1>3
  <2> HIDE DEF box
  <2>3. SessionTypeOK'
    BY <1>3, <2>1, <2>2 DEF SessionTypeOK, Buffered
  <2>4. OutboxOK'
    BY <1>3, <2>1, <2>2 DEF OutboxOK, EventsInv, SessionTypeOK
  <2>5. TerminalIsLast'
    BY <1>3 DEF TerminalIsLast, EventsInv, SessionTypeOK
  <2> QED
    BY <2>3, <2>4, <2>5 DEF EventsInv
<1>4. ASSUME NEW err \in ReadErrors, ReadFails(t, err)
      PROVE  SessionTypeOK' /\ EventsInv'
  <2>1. CASE cancelled[t]
    <3>1. SessionTypeOK'
      BY <1>4, <2>1 DEF ReadFails, SessionTypeOK, Buffered
    <3>2. EventsInv'
      BY <1>4, <2>1 DEF ReadFails, EventsInv, OutboxOK, TerminalIsLast, SessionTypeOK
    <3> QED
      BY <3>1, <3>2
  <2>2. CASE ~cancelled[t]
    <3>1. err \in Errors
      BY DEF ReadErrors, Errors
    <3> QED
      BY <1>3, <1>4, <2>2, <3>1 DEF ReadFails
  <2> QED
    BY <2>1, <2>2
<1>5. CASE ReplyWritten(t)
  <2>1. SessionTypeOK'
    BY <1>5 DEF ReplyWritten, SessionTypeOK, Buffered
  <2>2. EventsInv'
    BY <1>5 DEF ReplyWritten, EventsInv, OutboxOK, TerminalIsLast, SessionTypeOK
  <2> QED
    BY <2>1, <2>2
<1>6. CASE ReplyFails(t)
  <2>1. "closed_pipe" \in Errors
    BY DEF Errors
  <2> QED
    BY <1>3, <1>6, <2>1 DEF ReplyFails
<1>7. CASE ReaderExits(t)
  <2>1. SessionTypeOK'
    BY <1>7 DEF ReaderExits, SessionTypeOK, Buffered
  <2>2. EventsInv'
    BY <1>7 DEF ReaderExits, EventsInv, OutboxOK, TerminalIsLast, SessionTypeOK
  <2> QED
    BY <2>1, <2>2
<1>8. CASE Receive(t)
  <2>1. SessionTypeOK'
    BY <1>8, SessionAssumption DEF Receive, Available, SessionTypeOK, Buffered
  <2>2. EventsInv'
    BY <1>8, QuietStep DEF Receive
  <2> QED
    BY <2>1, <2>2
<1> QED
  BY <1>1, <1>2, <1>4, <1>5, <1>6, <1>7, <1>8

-----------------------------------------------------------------------------
(* A step of one turn disturbs neither the reader's start nor what the     *)
(* finished turns have released.                                           *)
LEMMA ReleaseStep ==
    ASSUME SessionInv, SessionNext
    PROVE  ReleaseInv'
<1> USE DEF SessionInv, ReleaseInv, ReaderAfterOpen, FinishedTurnIsReleased
<1>1. PICK t \in Turns : \/ \E parentOver \in BOOLEAN : StartTurn(t, parentOver)
                         \/ TurnStep(t) \/ Receive(t)
  BY DEF SessionNext
<1>2. CASE \E parentOver \in BOOLEAN : StartTurn(t, parentOver)
  BY <1>2 DEF StartTurn, SessionTypeOK
<1>3. CASE ContextDone(t)
  BY <1>3 DEF ContextDone, SessionTypeOK
<1>4. CASE RunRequestWritten(t)
  BY <1>4 DEF RunRequestWritten, SessionTypeOK
<1>5. CASE RunRequestFails(t)
  BY <1>5 DEF RunRequestFails, RunTurnFails, SessionTypeOK
<1>6. CASE OpenFails(t)
  BY <1>6 DEF OpenFails, RunTurnFails, SessionTypeOK
<1>7. CASE Connect(t)
  BY <1>7 DEF Connect, SessionTypeOK
<1>8. CASE \E err \in {"net_error", "deadline"} : DoFails(t, err)
  BY <1>8 DEF DoFails, SessionTypeOK
<1>9. CASE \E status \in {"ok", "status_transient", "status_final"} : DoResponds(t, status)
  BY <1>9 DEF DoResponds, SessionTypeOK
<1>10. CASE TransportClosesPipe(t)
  BY <1>10 DEF TransportClosesPipe, SessionTypeOK
<1>11. CASE TurnOpens(t)
  BY <1>11 DEF TurnOpens, SessionTypeOK
<1>12. CASE \E kind \in Upstream : ReadFrame(t, kind)
  BY <1>12 DEF ReadFrame, AfterFrame, SessionTypeOK
<1>13. CASE ReadEOF(t)
  BY <1>13 DEF ReadEOF, SessionTypeOK
<1>14. CASE \E err \in ReadErrors : ReadFails(t, err)
  BY <1>14 DEF ReadFails, SessionTypeOK
<1>15. CASE Push(t)
  BY <1>15 DEF Push, AfterPush, SessionTypeOK
<1>16. CASE ReplyWritten(t)
  BY <1>16 DEF ReplyWritten, SessionTypeOK
<1>17. CASE ReplyFails(t)
  BY <1>17 DEF ReplyFails, SessionTypeOK
<1>18. CASE ReaderExits(t)
  BY <1>18 DEF ReaderExits, SessionTypeOK
<1>19. CASE Receive(t)
  BY <1>19 DEF Receive, SessionTypeOK
<1> QED
  BY <1>1, <1>2, <1>3, <1>4, <1>5, <1>6, <1>7, <1>8, <1>9, <1>10, <1>11, <1>12, <1>13, <1>14, <1>15, <1>16, <1>17, <1>18, <1>19
     DEF TurnStep, CallerStep, TransportStep, ReaderStep

LEMMA NextInv ==
    ASSUME SessionInv, [SessionNext]_sessionVars
    PROVE  SessionInv'
<1>1. CASE SessionNext
  <2>1. PICK t \in Turns : \/ \E parentOver \in BOOLEAN : StartTurn(t, parentOver)
                           \/ TurnStep(t) \/ Receive(t)
    BY <1>1 DEF SessionNext
  <2>2. SessionTypeOK' /\ EventsInv'
    BY <2>1, CallerInv, ReaderInv, PushInv DEF TurnStep, ReaderStep
  <2>3. ReleaseInv'
    BY <1>1, ReleaseStep
  <2> QED
    BY <2>2, <2>3 DEF SessionInv
<1>2. CASE UNCHANGED sessionVars
  BY <1>2 DEF sessionVars, SessionInv, SessionTypeOK, Buffered, EventsInv, OutboxOK, TerminalIsLast,
              ReleaseInv, ReaderAfterOpen, FinishedTurnIsReleased
<1> QED
  BY <1>1, <1>2

LEMMA SessionInvariance == SessionSpec => []SessionInv
  BY InitInv, NextInv, PTL DEF SessionSpec

(* Every goroutine of a turn stays at its known points and the channel     *)
(* within its capacity (runTurn, session.go).                              *)
THEOREM TurnTypeCorrect == SessionSpec => []SessionTypeOK
<1>1. SessionInv => SessionTypeOK
  BY DEF SessionInv
<1> QED
  BY <1>1, SessionInvariance, PTL

(* A terminal event is the last of its turn, for any number of turns, any  *)
(* channel capacity and any frames: the reader's return after each "done". *)
THEOREM TerminalEventIsLast == SessionSpec => []TerminalIsLast
<1>1. SessionInv => TerminalIsLast
  BY DEF SessionInv, EventsInv
<1> QED
  BY <1>1, SessionInvariance, PTL

(* A turn that failed to open or whose reader is gone has cancelled its    *)
(* context and closed its request body, by whichever of the return paths.  *)
THEOREM FinishedTurnsRelease == SessionSpec => []FinishedTurnIsReleased
<1>1. SessionInv => FinishedTurnIsReleased
  BY DEF SessionInv, ReleaseInv
<1> QED
  BY <1>1, SessionInvariance, PTL

-----------------------------------------------------------------------------
(* In a list of events, a tool call is followed by its terminal event, and *)
(* by nothing else.                                                        *)
CallsClosed(s) ==
    \A i \in 1..Len(s) : s[i].type = "tool_call" =>
        /\ Len(s) = i + 1
        /\ s[i + 1] = Event("done", s[i].frame)

(* Either both are in the channel, or the reader holds the second.         *)
CallInv ==
    \A t \in Turns :
        /\ CallsClosed(outbox[t])
        /\ \A i \in 1..Len(sent[t]) : sent[t][i].type = "tool_call" =>
              \/ /\ i = Len(sent[t]) /\ reader[t] = "pushing"
                 /\ Len(outbox[t]) = 1
                 /\ outbox[t][1] = Event("done", sent[t][i].frame)
              \/ /\ i + 1 = Len(sent[t])
                 /\ sent[t][i + 1] = Event("done", sent[t][i].frame)

-----------------------------------------------------------------------------
LEMMA ProducesClosed ==
    ASSUME NEW kind, NEW n
    PROVE  CallsClosed(Produces(kind, n))
<1> USE DEF CallsClosed
<1>1. CASE kind \in {"text", "thinking", "tokens", "turn_ended", "end"}
  BY <1>1 DEF Produces, Event
<1>2. CASE kind = "tool_call"
  BY <1>2 DEF Produces, Event
<1>3. CASE kind \in {"bad_usage", "bad_tool_call", "cut_gzip", "bad_gzip", "end_transient", "end_final"}
  BY <1>3 DEF Produces, Failed
<1>4. CASE kind \notin {"text", "thinking", "tokens", "end", "turn_ended", "tool_call",
                        "bad_usage", "bad_tool_call", "cut_gzip", "bad_gzip", "end_transient", "end_final"}
  BY <1>4 DEF Produces
<1> QED
  BY <1>1, <1>2, <1>3, <1>4

(* The second half of CallInv, for one turn. *)
SentClosed(t) ==
    \A i \in 1..Len(sent[t]) : sent[t][i].type = "tool_call" =>
        \/ /\ i = Len(sent[t]) /\ reader[t] = "pushing"
           /\ Len(outbox[t]) = 1
           /\ outbox[t][1] = Event("done", sent[t][i].frame)
        \/ /\ i + 1 = Len(sent[t])
           /\ sent[t][i + 1] = Event("done", sent[t][i].frame)

(* A reader that is not pushing has told a call and its end, and left.     *)
LEMMA ReaderLeft ==
    ASSUME SessionInv, NEW t \in Turns, SentClosed(t), reader[t] \in {"none", "reading", "replying"}
    PROVE  \A i \in 1..Len(sent[t]) : sent[t][i].type # "tool_call"
<1> SUFFICES ASSUME NEW i \in 1..Len(sent[t]), sent[t][i].type = "tool_call"
             PROVE  FALSE
  OBVIOUS
<1>1. i + 1 = Len(sent[t]) /\ sent[t][i + 1] = Event("done", sent[t][i].frame)
  BY DEF SentClosed
<1>2. i + 1 \in 1..Len(sent[t])
  BY <1>1
<1>3. sent[t][i + 1].type = "done"
  BY <1>1 DEF Event
<1> QED
  BY <1>2, <1>3 DEF SessionInv, EventsInv, TerminalIsLast

LEMMA PushClosed ==
    ASSUME SessionInv, CallInv, NEW t \in Turns, Push(t)
    PROVE  CallInv'
<1> DEFINE event  == Head(outbox[t])
           longer == Append(sent[t], event)
           rest   == Tail(outbox[t])
           n      == Len(sent[t])
<1>1. /\ outbox[t] # <<>> /\ outbox[t] \in Seq(TurnEvent) /\ sent[t] \in Seq(TurnEvent)
      /\ reader[t] = "pushing" /\ n \in Nat
  BY DEF Push, SessionInv, SessionTypeOK, EventsInv, OutboxOK
<1>2. /\ event \in TurnEvent /\ event = outbox[t][1] /\ Len(outbox[t]) \in Nat \ {0}
      /\ Len(rest) = Len(outbox[t]) - 1
      /\ \A i \in 1..Len(rest) : rest[i] = outbox[t][i + 1]
  BY <1>1, TailFacts
<1>3. /\ Len(longer) = n + 1 /\ longer[n + 1] = event
      /\ \A i \in 1..n : longer[i] = sent[t][i]
  BY <1>1, <1>2, AppendFacts
<1>4. /\ sent' = [sent EXCEPT ![t] = longer]
      /\ outbox' = [outbox EXCEPT ![t] = rest]
      /\ \A u \in Turns : u # t => reader'[u] = reader[u]
      /\ reader'[t] = AfterPush(t)
  BY DEF Push, SessionInv, SessionTypeOK
<1>5. \A i \in 1..(n + 1) : i \in 1..n \/ i = n + 1
  BY <1>1
<1>6. CallsClosed(outbox[t])
  BY DEF CallInv
<1> HIDE DEF longer, rest, event
<1>7. CallsClosed(rest)
  <2> SUFFICES ASSUME NEW i \in 1..Len(rest), rest[i].type = "tool_call"
               PROVE  Len(rest) = i + 1 /\ rest[i + 1] = Event("done", rest[i].frame)
    BY DEF CallsClosed
  <2>1. i + 1 \in 1..Len(outbox[t]) /\ outbox[t][i + 1] = rest[i]
    BY <1>2
  <2>2. Len(outbox[t]) = i + 2 /\ outbox[t][i + 2] = Event("done", rest[i].frame)
    BY <1>6, <2>1 DEF CallsClosed
  <2>3. Len(rest) = i + 1 /\ i + 1 \in 1..Len(rest)
    BY <1>2, <2>2
  <2> QED
    BY <1>2, <2>2, <2>3
<1>8. ASSUME NEW i \in 1..n, sent[t][i].type = "tool_call"
      PROVE  /\ i + 1 = Len(longer)
             /\ longer[i + 1] = Event("done", longer[i].frame)
  <2>1. CASE i = n /\ Len(outbox[t]) = 1 /\ outbox[t][1] = Event("done", sent[t][i].frame)
    BY <1>2, <1>3, <2>1
  <2>2. CASE i + 1 = n /\ sent[t][i + 1] = Event("done", sent[t][i].frame)
    <3>1. i + 1 \in 1..n /\ sent[t][i + 1].type = "done"
      BY <1>1, <2>2 DEF Event
    <3> QED
      BY <1>1, <3>1 DEF SessionInv, EventsInv, TerminalIsLast
  <2> QED
    BY <1>8, <2>1, <2>2 DEF CallInv
<1>9. ASSUME event.type = "tool_call"
      PROVE  /\ reader'[t] = "pushing" /\ Len(rest) = 1
             /\ rest[1] = Event("done", event.frame)
  <2>1. 1 \in 1..Len(outbox[t])
    BY <1>2
  <2>2. outbox[t][1].type = "tool_call" /\ outbox[t][1].frame = event.frame
    BY <1>2, <1>9
  <2>3. Len(outbox[t]) = 2 /\ outbox[t][2] = Event("done", event.frame)
    <3>1. Len(outbox[t]) = 1 + 1 /\ outbox[t][1 + 1] = Event("done", outbox[t][1].frame)
      BY <1>6, <2>1, <2>2 DEF CallsClosed
    <3> QED
      BY <2>2, <3>1
  <2>4. Len(rest) = 1 /\ 1 \in 1..Len(rest)
    BY <1>2, <2>3
  <2>5. reader'[t] = "pushing"
    BY <1>4, <2>3 DEF AfterPush
  <2> QED
    BY <1>2, <2>3, <2>4, <2>5
<1>10. SentClosed(t)'
  <2>1. sent'[t] = longer /\ outbox'[t] = rest
    BY <1>4 DEF SessionInv, SessionTypeOK
  <2> SUFFICES ASSUME NEW i \in 1..Len(longer), longer[i].type = "tool_call"
               PROVE  \/ /\ i = Len(longer) /\ reader'[t] = "pushing"
                         /\ Len(rest) = 1 /\ rest[1] = Event("done", longer[i].frame)
                      \/ /\ i + 1 = Len(longer)
                         /\ longer[i + 1] = Event("done", longer[i].frame)
    BY <2>1 DEF SentClosed
  <2>2. CASE i \in 1..n
    BY <1>3, <1>8, <2>2
  <2>3. CASE i = n + 1
    BY <1>3, <1>9, <2>3
  <2> QED
    BY <1>3, <1>5, <2>2, <2>3
<1>11. ASSUME NEW u \in Turns
       PROVE  CallsClosed(outbox'[u]) /\ SentClosed(u)'
  <2>1. CASE u = t
    BY <1>4, <1>7, <1>10, <2>1 DEF SessionInv, SessionTypeOK
  <2>2. CASE u # t
    BY <1>4, <2>2 DEF CallInv, SentClosed
  <2> QED
    BY <2>1, <2>2
<1> QED
  BY <1>11 DEF CallInv, SentClosed

LEMMA CallInvStep ==
    ASSUME SessionInv, CallInv, [SessionNext]_sessionVars
    PROVE  CallInv'
<1> USE DEF SessionInv, SessionTypeOK
<1>1. ASSUME UNCHANGED <<reader, outbox, sent>> PROVE CallInv'
  BY <1>1 DEF CallInv
<1>2. CASE UNCHANGED sessionVars
  BY <1>1, <1>2 DEF sessionVars
<1>3. ASSUME NEW t \in Turns, reader[t] # "pushing", UNCHANGED <<outbox, sent>>,
             \A u \in Turns : u # t => reader'[u] = reader[u]
      PROVE  CallInv'
  BY <1>3 DEF CallInv
<1>4. ASSUME NEW t \in Turns, reader[t] \in {"reading", "replying"}, CallsClosed(outbox'[t]),
             sent' = sent,
             \A u \in Turns : u # t => reader'[u] = reader[u] /\ outbox'[u] = outbox[u]
      PROVE  CallInv'
  <2>1. \A i \in 1..Len(sent[t]) : sent[t][i].type # "tool_call"
    BY <1>4, ReaderLeft DEF CallInv, SentClosed
  <2>2. ASSUME NEW u \in Turns
        PROVE  CallsClosed(outbox'[u]) /\ SentClosed(u)'
    <3>1. CASE u = t
      BY <1>4, <2>1, <3>1 DEF SentClosed
    <3>2. CASE u # t
      BY <1>4, <3>2 DEF CallInv, SentClosed
    <3> QED
      BY <3>1, <3>2
  <2> QED
    BY <2>2 DEF CallInv, SentClosed
<1>5. ASSUME NEW t \in Turns,
             \/ \E parentOver \in BOOLEAN : StartTurn(t, parentOver)
             \/ ContextDone(t) \/ TransportStep(t) \/ Receive(t)
             \/ RunRequestWritten(t) \/ RunRequestFails(t) \/ OpenFails(t)
      PROVE  CallInv'
  BY <1>1, <1>5 DEF StartTurn, ContextDone, TransportStep, Connect, DoFails, DoResponds,
      TransportClosesPipe, Receive, RunRequestWritten, RunRequestFails, OpenFails, RunTurnFails
<1>6. ASSUME NEW t \in Turns, TurnOpens(t)
      PROVE  CallInv'
  <2>1. reader[t] = "none"
    BY <1>6 DEF TurnOpens, ReleaseInv, ReaderAfterOpen
  <2> QED
    BY <1>3, <1>6, <2>1 DEF TurnOpens
<1>7. ASSUME NEW t \in Turns, ReadEOF(t) \/ ReplyWritten(t) \/ ReaderExits(t)
      PROVE  CallInv'
  BY <1>3, <1>7 DEF ReadEOF, ReplyWritten, ReaderExits
<1>8. ASSUME NEW t \in Turns, NEW kind \in Upstream, ReadFrame(t, kind)
      PROVE  CallInv'
  <2>1. CallsClosed(Produces(kind, frames[t] + 1))
    BY ProducesClosed
  <2>2. /\ reader[t] = "reading" /\ outbox'[t] = Produces(kind, frames[t] + 1) /\ sent' = sent
        /\ \A u \in Turns : u # t => reader'[u] = reader[u] /\ outbox'[u] = outbox[u]
    BY <1>8 DEF ReadFrame
  <2> QED
    BY <1>4, <2>1, <2>2
<1>9. ASSUME NEW t \in Turns, ReplyFails(t) \/ \E err \in ReadErrors : ReadFails(t, err)
      PROVE  CallInv'
  <2>1. /\ reader[t] \in {"reading", "replying"} /\ sent' = sent
        /\ \A u \in Turns : u # t => reader'[u] = reader[u] /\ outbox'[u] = outbox[u]
    BY <1>9 DEF ReplyFails, ReadFails
  <2>2. \/ outbox' = outbox
        \/ \E err : outbox' = [outbox EXCEPT ![t] = <<Failed(err, frames[t])>>]
    BY <1>9 DEF ReplyFails, ReadFails
  <2>3. CASE outbox' = outbox
    BY <1>3, <2>1, <2>3
  <2>4. CASE outbox' # outbox
    <3>1. PICK err : outbox' = [outbox EXCEPT ![t] = <<Failed(err, frames[t])>>]
      BY <2>2, <2>4
    <3>2. CallsClosed(<<Failed(err, frames[t])>>)
      BY DEF CallsClosed, Failed
    <3>3. CallsClosed(outbox'[t])
      BY <3>1, <3>2
    <3> QED
      BY <1>4, <2>1, <3>3
  <2> QED
    BY <2>3, <2>4
<1>10. CASE SessionNext
  BY <1>5, <1>6, <1>7, <1>8, <1>9, <1>10, PushClosed DEF SessionNext, TurnStep, CallerStep, ReaderStep
<1> QED
  BY <1>2, <1>10

-----------------------------------------------------------------------------
(* A tool call hands control back to the caller: nothing but the          *)
(* successful terminal event of its frame comes after it (runTurn's        *)
(* reader, handleServerMessage).                                           *)
THEOREM ToolCallsEndTurns == SessionSpec => []ToolCallEndsTurn
<1>1. SessionInit => CallInv
  <2>1. Len(<<>>) = 0
    OBVIOUS
  <2>2. \A i \in 1..0 : FALSE
    OBVIOUS
  <2>3. ASSUME SessionInit, NEW t \in Turns
        PROVE  Len(outbox[t]) = 0 /\ Len(sent[t]) = 0
    BY <2>1, <2>3 DEF SessionInit
  <2> QED
    BY <2>2, <2>3 DEF CallInv, CallsClosed
<1>2. SessionInv /\ CallInv => ToolCallEndsTurn
  <2> SUFFICES ASSUME SessionInv, CallInv, NEW t \in Turns, NEW i \in 1..Len(sent[t]),
                      sent[t][i].type = "tool_call"
               PROVE  LET coming == IF reader[t] = "pushing" THEN outbox[t] ELSE <<>>
                      IN  SubSeq(sent[t], i + 1, Len(sent[t])) \o coming
                              = <<Event("done", sent[t][i].frame)>>
    BY DEF ToolCallEndsTurn
  <2>1. /\ sent[t] \in Seq(TurnEvent) /\ outbox[t] \in Seq(TurnEvent)
        /\ Len(sent[t]) \in Nat
    BY DEF SessionInv, SessionTypeOK
  <2>2. CASE /\ i = Len(sent[t]) /\ reader[t] = "pushing" /\ Len(outbox[t]) = 1
             /\ outbox[t][1] = Event("done", sent[t][i].frame)
    <3>1. SubSeq(sent[t], i + 1, Len(sent[t])) = <<>>
      BY <2>1, <2>2, EmptySeq, SubSeqProperties
    <3>2. outbox[t] = <<Event("done", sent[t][i].frame)>>
      BY <2>1, <2>2
    <3>3. \A x \in Seq(TurnEvent) : <<>> \o x = x
      BY ConcatEmptySeq
    <3> QED
      BY <2>1, <2>2, <3>1, <3>2, <3>3
  <2>3. CASE i + 1 = Len(sent[t]) /\ sent[t][i + 1] = Event("done", sent[t][i].frame)
    <3>1. reader[t] # "pushing"
      <4>1. i + 1 \in 1..Len(sent[t]) /\ sent[t][i + 1].type = "done"
        BY <2>1, <2>3 DEF Event
      <4> QED
        BY <4>1 DEF SessionInv, EventsInv, TerminalIsLast
    <3>2. SubSeq(sent[t], i + 1, Len(sent[t])) = <<sent[t][i + 1]>>
      <4> DEFINE last == SubSeq(sent[t], i + 1, i + 1)
      <4>1. \A j \in (i + 1)..(i + 1) : sent[t][j] \in TurnEvent
        BY <2>1, <2>3
      <4>2. last \in Seq(TurnEvent) /\ Len(last) = 1 /\ last[1] = sent[t][i + 1]
        BY <4>1, SubSeqProperties
      <4> HIDE DEF last
      <4>3. last = <<sent[t][i + 1]>>
        BY <4>2
      <4> QED
        BY <2>3, <4>3 DEF last
    <3>3. <<sent[t][i + 1]>> \o <<>> = <<sent[t][i + 1]>>
      OBVIOUS
    <3> QED
      BY <2>3, <3>1, <3>2, <3>3
  <2> QED
    BY <2>2, <2>3 DEF CallInv
<1> QED
  BY <1>1, <1>2, CallInvStep, SessionInvariance, PTL DEF SessionSpec

-----------------------------------------------------------------------------

(* The loop variable stays in range: a retry is only awaited while there   *)
(* is one left.                                                            *)
RequestInv ==
    /\ attempt \in Turns
    /\ parentDone \in BOOLEAN
    /\ phase = "idle" => attempt = 0
    /\ phase = "backoff" => attempt < RetryCount

-----------------------------------------------------------------------------
LEMMA RequestInit == Init => RequestInv
<1>1. 0 \in Turns
  BY ExecutorAssumption
<1> QED
  BY <1>1 DEF Init, RequestInv

LEMMA RequestStep ==
    ASSUME RequestInv, [Next]_vars
    PROVE  RequestInv'
<1> USE DEF RequestInv
<1>1. CASE Retry
  <2>1. attempt + 1 \in Turns
    BY <1>1, ExecutorAssumption DEF Retry
  <2> QED
    BY <1>1, <2>1 DEF Retry
<1>2. ASSUME NEW err, AttemptFails(err), phase = "turn"
      PROVE  RequestInv'
  BY <1>2 DEF AttemptFails
<1>3. CASE OpenFailed \/ CollectEvent \/ PrepareEvent \/ PrepareEmpty
  <2>1. CASE \E err : AttemptFails(err)
    BY <1>2, <1>3, <2>1 DEF OpenFailed, CollectEvent, PrepareEvent, PrepareEmpty, Reading
  <2>2. CASE ~\E err : AttemptFails(err)
    BY <1>3, <2>2 DEF OpenFailed, CollectEvent, PrepareEvent, PrepareEmpty, Reading
  <2> QED
    BY <2>1, <2>2
<1>4. CASE BackoffCancelled \/ CollectEnds \/ ReturnHeaders
  BY <1>4 DEF BackoffCancelled, CollectEnds, ReturnHeaders
<1>5. CASE PumpStep
  BY <1>5 DEF PumpStep, PumpFailure, PumpDelivers, PumpEmitFails, PumpTakes, PumpIncomplete, CloseStream
<1>6. CASE Reject \/ ParentCancelled \/ \E m \in Modes : Begin(m)
  BY <1>6 DEF Reject, ParentCancelled, Begin
<1>7. CASE \E t \in Turns : TurnStep(t) /\ UNCHANGED executorVars
  BY <1>7 DEF executorVars
<1>8. CASE UNCHANGED vars
  BY <1>8 DEF vars, executorVars
<1> QED
  BY <1>1, <1>3, <1>4, <1>5, <1>6, <1>7, <1>8 DEF Next, DispatchStep

(* A step of the request starts a turn, lets a turn step or time out,      *)
(* receives an event, or leaves the turns alone.                           *)
LEMMA StepOfSession ==
    ASSUME SessionTypeOK, RequestInv, [Next]_vars
    PROVE  [SessionNext]_sessionVars
<1>1. CASE \E m \in Modes : Begin(m)
  <2>1. StartTurn(0, parentDone) /\ 0 \in Turns
    BY <1>1, ExecutorAssumption DEF Begin
  <2> QED
    BY <2>1 DEF SessionNext, RequestInv
<1>2. CASE Retry
  <2>1. StartTurn(attempt + 1, parentDone) /\ attempt + 1 \in Turns
    BY <1>2, ExecutorAssumption DEF Retry, RequestInv
  <2> QED
    BY <2>1 DEF SessionNext, RequestInv
<1>3. CASE ParentCancelled
  <2>1. CASE caller[attempt] # "idle" /\ ~cancelled[attempt]
    <3>1. ContextDone(attempt)
      BY <1>3, <2>1 DEF ParentCancelled, ContextDone
    <3> QED
      BY <3>1 DEF SessionNext, TurnStep, RequestInv
  <2>2. CASE caller[attempt] = "idle" \/ cancelled[attempt]
    <3>1. cancelled' = cancelled
      BY <1>3, <2>2 DEF ParentCancelled, SessionTypeOK, RequestInv
    <3> QED
      BY <1>3, <3>1 DEF ParentCancelled, sessionVars
  <2> QED
    BY <2>1, <2>2
<1>4. CASE Receive(attempt)
  BY <1>4 DEF SessionNext, RequestInv
<1>5. CASE OpenFailed \/ PrepareEmpty \/ BackoffCancelled \/ CollectEnds \/ ReturnHeaders \/ Reject
  BY <1>5 DEF OpenFailed, PrepareEmpty, BackoffCancelled, CollectEnds, ReturnHeaders, Reject
<1>6. CASE CollectEvent \/ PrepareEvent
  BY <1>4, <1>6 DEF CollectEvent, PrepareEvent
<1>7. CASE PumpStep
  <2>1. Receive(attempt) \/ UNCHANGED sessionVars
    BY <1>7 DEF PumpStep, PumpFailure, PumpDelivers, PumpEmitFails, PumpTakes, PumpIncomplete, CloseStream
  <2> QED
    BY <1>4, <2>1
<1>8. CASE \E t \in Turns : TurnStep(t) /\ UNCHANGED executorVars
  BY <1>8 DEF SessionNext
<1>9. CASE UNCHANGED vars
  BY <1>9 DEF vars
<1> QED
  BY <1>1, <1>2, <1>3, <1>5, <1>6, <1>7, <1>8, <1>9 DEF Next, DispatchStep

LEMMA RequestInvariance == Spec => [](SessionInv /\ RequestInv)
<1>1. Init => SessionInv /\ RequestInv
  BY InitInv, RequestInit DEF Init
<1>2. SessionInv /\ RequestInv /\ [Next]_vars => (SessionInv /\ RequestInv)'
  <2> SUFFICES ASSUME SessionInv, RequestInv, [Next]_vars
               PROVE  (SessionInv /\ RequestInv)'
    OBVIOUS
  <2>1. [SessionNext]_sessionVars
    BY StepOfSession DEF SessionInv
  <2>2. SessionInv'
    BY <2>1, NextInv
  <2>3. RequestInv'
    BY RequestStep
  <2> QED
    BY <2>2, <2>3
<1> QED
  BY <1>1, <1>2, PTL DEF Spec

(* Whatever the request does with its turns, each attempt is a turn of its *)
(* own that lives as Session describes (retryTransient, prepareEventStream *)
(* and Pump never do to a turn what runTurn does not provide for).         *)
THEOREM AttemptsAreTurns == Spec => TurnsLiveInSession
<1>1. Init => SessionInit
  BY DEF Init
<1>2. SessionInv /\ RequestInv /\ [Next]_vars => [SessionNext]_sessionVars
  BY StepOfSession DEF SessionInv
<1> QED
  BY <1>1, <1>2, RequestInvariance, PTL DEF Spec, TurnsLiveInSession, SessionSpec

(* A terminal event is the last one of every attempt, however often the    *)
(* request is retried: what Session shows of turns holds of attempts.      *)
THEOREM AttemptsEndInOrder == Spec => []TerminalIsLast
<1>1. SessionInv => TerminalIsLast
  BY DEF SessionInv, EventsInv
<1> QED
  BY <1>1, RequestInvariance, PTL

(* However often a request is retried, an attempt that failed or whose     *)
(* reader is gone has cancelled its context and closed its request body    *)
(* (runTurn's returns, under retryTransient).                              *)
THEOREM AttemptsRelease == Spec => []FinishedTurnIsReleased
<1>1. SessionInv => FinishedTurnIsReleased
  BY DEF SessionInv, ReleaseInv
<1> QED
  BY <1>1, RequestInvariance, PTL

(* A tool call ends its attempt: the successful terminal event of its      *)
(* frame is the only thing pushed after it (runTurn's reader, under        *)
(* retryTransient).                                                        *)
THEOREM ToolCallsEndAttempts == Spec => []ToolCallEndsTurn
  BY AttemptsAreTurns, ToolCallsEndTurns, PTL DEF TurnsLiveInSession

-----------------------------------------------------------------------------
(* The pump exists once a stream is committed and not before, a refusal    *)
(* ends the request, and only a pump delivers.                             *)
BoundaryInv ==
    /\ phase \in {"idle", "turn", "backoff"} \/ reply = "error" => pump = "none"
    /\ reply = "error" => phase = "over"
    /\ pump = "none" => ~emitted /\ delivered = <<>>

LEMMA BoundaryStep ==
    ASSUME BoundaryInv, [Next]_vars
    PROVE  BoundaryInv'
<1> USE DEF BoundaryInv
<1>1. ASSUME NEW err, AttemptFails(err), phase = "turn"
      PROVE  BoundaryInv'
  BY <1>1 DEF AttemptFails
<1>2. CASE OpenFailed \/ PrepareEmpty
  BY <1>1, <1>2 DEF OpenFailed, PrepareEmpty, Reading
<1>3. CASE CollectEvent
  BY <1>1, <1>3 DEF CollectEvent, Reading
<1>4. CASE PrepareEvent
  <2>1. CASE IsFailure(NextEvent)
    BY <1>1, <1>4, <2>1 DEF PrepareEvent, Reading
  <2>2. CASE ~IsFailure(NextEvent)
    BY <1>4, <2>2 DEF PrepareEvent, Reading
  <2> QED
    BY <2>1, <2>2
<1>5. CASE Retry \/ BackoffCancelled \/ CollectEnds \/ ReturnHeaders
  BY <1>5 DEF Retry, BackoffCancelled, CollectEnds, ReturnHeaders, Reading
<1>6. CASE PumpStep
  BY <1>6 DEF PumpStep, PumpFailure, PumpDelivers, PumpEmitFails, PumpTakes, PumpReturns,
              PumpIncomplete, CloseStream
<1>7. CASE Reject \/ ParentCancelled \/ \E m \in Modes : Begin(m)
  BY <1>7 DEF Reject, ParentCancelled, Begin
<1>8. CASE \E t \in Turns : TurnStep(t) /\ UNCHANGED executorVars
  BY <1>8 DEF executorVars
<1>9. CASE UNCHANGED vars
  BY <1>9 DEF vars, executorVars
<1> QED
  BY <1>2, <1>3, <1>4, <1>5, <1>6, <1>7, <1>8, <1>9 DEF Next, DispatchStep

(* As long as the host may still hand the request to another account, and  *)
(* for ever once the call was refused, no frame has reached it: for any    *)
(* number of retries and whatever the turns do (prepareEventStream commits *)
(* before dispatch starts the pump).                                       *)
THEOREM FailoverIsSafe == Spec => []FailoverBoundary
<1>1. Init => BoundaryInv
  BY DEF Init, BoundaryInv
<1>2. BoundaryInv /\ [Next]_vars => BoundaryInv'
  BY BoundaryStep
<1>3. BoundaryInv => FailoverBoundary
  BY DEF BoundaryInv, FailoverBoundary
<1> QED
  BY <1>1, <1>2, <1>3, PTL DEF Spec

-----------------------------------------------------------------------------
(* A turn that lets go of its upstream never takes hold of it again: only  *)
(* starting it would.                                                      *)
LetGo(t) == cancelled[t] \/ reader[t] = "exiting"

LEMMA LetGoForGood ==
    ASSUME SessionInv, NEW t \in Turns, LetGo(t),
           NEW u \in Turns, TurnStep(u) \/ Receive(u)
    PROVE  LetGo(t)'
<1> USE DEF SessionInv, SessionTypeOK, LetGo
<1>1. CASE ContextDone(u) \/ Receive(u)
  BY <1>1 DEF ContextDone, Receive
<1>2. CASE RunRequestWritten(u) \/ RunRequestFails(u) \/ OpenFails(u)
  BY <1>2 DEF RunRequestWritten, RunRequestFails, OpenFails, RunTurnFails
<1>3. CASE TurnOpens(u)
  BY <1>3 DEF TurnOpens, ReleaseInv, ReaderAfterOpen
<1>4. CASE TransportStep(u)
  BY <1>4 DEF TransportStep, Connect, DoFails, DoResponds, TransportClosesPipe
<1>5. CASE ReaderStep(u)
  BY <1>5 DEF ReaderStep, ReadFrame, ReadEOF, ReadFails, Push, ReplyWritten, ReplyFails, ReaderExits
<1> QED
  BY <1>1, <1>2, <1>3, <1>4, <1>5 DEF TurnStep, CallerStep

(* An attempt that failed has let go: it never opened, its stream was      *)
(* drained, or its last event was an error.                                *)
LEMMA FailedAttemptLetGo ==
    ASSUME SessionInv, RequestInv,
           \/ caller[attempt] = "failed"
           \/ Drained(attempt)
           \/ Available(attempt) /\ IsFailure(NextEvent)
    PROVE  LetGo(attempt)
<1> USE DEF SessionInv, ReleaseInv, FinishedTurnIsReleased, RequestInv, LetGo
<1>1. CASE caller[attempt] = "failed"
  BY <1>1
<1>2. CASE Drained(attempt)
  BY <1>2 DEF Drained, Closed
<1>3. CASE Available(attempt) /\ IsFailure(NextEvent)
  <2>1. taken[attempt] + 1 \in 1..Len(sent[attempt])
    BY <1>3 DEF Available, SessionTypeOK
  <2>2. reader[attempt] \in {"exiting", "gone"}
    BY <1>3, <2>1 DEF IsFailure, NextEvent, EventsInv, TerminalIsLast
  <2> QED
    BY <2>2
<1> QED
  BY <1>1, <1>2, <1>3

LEMMA LetGoStep ==
    ASSUME SessionInv, RequestInv, OneLiveTurn, [Next]_vars
    PROVE  OneLiveTurn'
<1> SUFFICES ASSUME NEW t \in Turns, t < attempt' \/ (t = attempt' /\ phase' = "backoff")
             PROVE  LetGo(t)'
  BY DEF OneLiveTurn, LetGo
<1> USE DEF RequestInv
<1>1. t < attempt \/ (t = attempt /\ phase = "backoff") => LetGo(t)
  BY DEF OneLiveTurn, LetGo
<1>2. attempt \in Nat /\ t \in Nat
  BY ExecutorAssumption
<1>3. CASE Retry
  <2>1. LetGo(t) /\ t # attempt + 1
    BY <1>1, <1>2, <1>3 DEF Retry
  <2> QED
    BY <1>3, <2>1 DEF Retry, StartTurn, LetGo
<1>4. CASE \E m \in Modes : Begin(m)
  BY <1>2, <1>4 DEF Begin
<1>5. CASE ParentCancelled
  <2>1. LetGo(t)
    BY <1>1, <1>5 DEF ParentCancelled
  <2> QED
    BY <1>5, <2>1 DEF ParentCancelled, LetGo, SessionInv, SessionTypeOK
<1>6. CASE \/ \E u \in Turns : TurnStep(u) /\ UNCHANGED executorVars
           \/ UNCHANGED vars
  <2>1. LetGo(t)
    BY <1>1, <1>6 DEF vars, executorVars
  <2>2. CASE UNCHANGED vars
    BY <2>1, <2>2 DEF vars, sessionVars, LetGo
  <2> QED
    BY <1>6, <2>1, <2>2, LetGoForGood
<1>7. ASSUME UNCHANGED <<attempt, phase>>, Receive(attempt) \/ UNCHANGED sessionVars
      PROVE  LetGo(t)'
  <2>1. LetGo(t)
    BY <1>1, <1>7
  <2>2. CASE UNCHANGED sessionVars
    BY <2>1, <2>2 DEF sessionVars, LetGo
  <2> QED
    BY <1>7, <2>1, <2>2, LetGoForGood
<1>8. CASE PumpStep
  BY <1>7, <1>8 DEF PumpStep, PumpFailure, PumpDelivers, PumpEmitFails, PumpTakes, PumpIncomplete, CloseStream
<1>9. ASSUME UNCHANGED attempt, Receive(attempt) \/ UNCHANGED sessionVars,
             phase' # "backoff" \/ LetGo(attempt)
      PROVE  LetGo(t)'
  <2>1. LetGo(t)
    BY <1>1, <1>2, <1>9
  <2>2. CASE UNCHANGED sessionVars
    BY <2>1, <2>2 DEF sessionVars, LetGo
  <2> QED
    BY <1>9, <2>1, <2>2, LetGoForGood
<1>10. CASE OpenFailed \/ PrepareEmpty
  BY <1>9, <1>10, FailedAttemptLetGo DEF OpenFailed, PrepareEmpty, AttemptFails, Reading
<1>11. CASE CollectEvent \/ PrepareEvent
  <2>1. Available(attempt)
    BY <1>11 DEF CollectEvent, PrepareEvent, Receive
  <2>2. CASE IsFailure(NextEvent)
    BY <1>9, <1>11, <2>1, <2>2, FailedAttemptLetGo DEF CollectEvent, PrepareEvent, AttemptFails
  <2>3. CASE ~IsFailure(NextEvent)
    BY <1>9, <1>11, <2>3 DEF CollectEvent, PrepareEvent, Reading
  <2> QED
    BY <2>2, <2>3
<1>12. CASE Reject \/ BackoffCancelled \/ CollectEnds \/ ReturnHeaders
  BY <1>9, <1>12 DEF Reject, BackoffCancelled, CollectEnds, ReturnHeaders
<1> QED
  BY <1>3, <1>4, <1>5, <1>6, <1>8, <1>10, <1>11, <1>12 DEF Next, DispatchStep

(* However many retries are allowed, an attempt never runs beside a live   *)
(* predecessor (every failing path through retryTransient's operation has  *)
(* cancelled the turn, or its reader is about to).                         *)
THEOREM OneTurnAtATime == Spec => []OneLiveTurn
<1>1. Init => OneLiveTurn
  BY ExecutorAssumption DEF Init, OneLiveTurn
<1>2. SessionInv /\ RequestInv /\ OneLiveTurn /\ [Next]_vars => OneLiveTurn'
  BY LetGoStep
<1> QED
  BY <1>1, <1>2, RequestInvariance, PTL DEF Spec

-----------------------------------------------------------------------------
(*****************************************************************************)
(* What a request delivers: the events of its attempt, all of them and in  *)
(* their order, across the seam between prepareEventStream's buffer and    *)
(* the channel; and a stream that ends well carried a whole turn.          *)
(*****************************************************************************)

(* s holds the events from + 1, from + 2, ... of the running attempt. *)
Continues(s, from) ==
    /\ from + Len(s) <= Len(sent[attempt])
    /\ \A i \in 1..Len(s) : s[i] = sent[attempt][from + i]

(* Somebody is consuming the attempt: the dispatch call or the pump. *)
Consuming == phase = "turn" \/ pump = "pumping"

(* What was delivered is a prefix of the attempt's events, and what waits  *)
(* in the buffer is what comes between it and the channel.                 *)
DeliveryInv ==
    /\ pending \in Seq(TurnEvent) /\ delivered \in Seq(TurnEvent)
    /\ phase \in {"idle", "backoff"} => pending = <<>>
    /\ Consuming =>
          /\ Len(delivered) + Len(pending) = taken[attempt]
          /\ Continues(pending, Len(delivered))
    /\ Consuming \/ PumpOver => Continues(delivered, 0)

(* A stream that was closed well has delivered a terminal event. *)
SuccessInv ==
    PumpOver /\ pumpErr = NoErr =>
        /\ Len(delivered) \in 1..Len(sent[attempt])
        /\ delivered[Len(delivered)].type = "done"
        /\ delivered[Len(delivered)].err = NoErr

RequestAndTurns == SessionInv /\ RequestInv /\ BoundaryInv

-----------------------------------------------------------------------------
(* A turn only ever adds to the events it pushed, and nothing to a         *)
(* terminal one; only a receive takes.                                     *)
LEMMA SentGrows ==
    ASSUME SessionInv, NEW t \in Turns, NEW u \in Turns, TurnStep(u) \/ Receive(u)
    PROVE  /\ Len(sent[t]) <= Len(sent'[t])
           /\ \A i \in 1..Len(sent[t]) : sent'[t][i] = sent[t][i]
<1> USE DEF SessionInv, SessionTypeOK
<1>1. Len(sent[t]) \in Nat
  OBVIOUS
<1>2. CASE Push(u)
  <2>1. outbox[u] # <<>> /\ outbox[u] \in Seq(TurnEvent)
    BY <1>2 DEF Push, EventsInv, OutboxOK
  <2>2. Head(outbox[u]) \in TurnEvent
    BY <2>1, TailFacts
  <2>3. /\ Len(Append(sent[u], Head(outbox[u]))) = Len(sent[u]) + 1
        /\ \A i \in 1..Len(sent[u]) : Append(sent[u], Head(outbox[u]))[i] = sent[u][i]
    BY <2>2, AppendFacts
  <2>4. sent' = [sent EXCEPT ![u] = Append(sent[u], Head(outbox[u]))]
    BY <1>2 DEF Push
  <2>5. CASE t = u
    BY <1>1, <2>3, <2>4, <2>5
  <2>6. CASE t # u
    BY <1>1, <2>4, <2>6
  <2> QED
    BY <2>5, <2>6
<1>3. CASE UNCHANGED sent
  BY <1>1, <1>3
<1>4. CASE ContextDone(u) \/ Receive(u)
  BY <1>3, <1>4 DEF ContextDone, Receive
<1>5. CASE CallerStep(u)
  BY <1>3, <1>5 DEF CallerStep, RunRequestWritten, RunRequestFails, OpenFails, RunTurnFails, TurnOpens
<1>6. CASE TransportStep(u)
  BY <1>3, <1>6 DEF TransportStep, Connect, DoFails, DoResponds, TransportClosesPipe
<1>7. CASE ReaderStep(u)
  BY <1>2, <1>3, <1>7 DEF ReaderStep, ReadFrame, ReadEOF, ReadFails, ReplyWritten, ReplyFails, ReaderExits
<1> QED
  BY <1>4, <1>5, <1>6, <1>7 DEF TurnStep

LEMMA TurnsDoNotTake ==
    ASSUME NEW u \in Turns, TurnStep(u)
    PROVE  taken' = taken
<1>1. CASE ContextDone(u)
  BY <1>1 DEF ContextDone
<1>2. CASE CallerStep(u)
  BY <1>2 DEF CallerStep, RunRequestWritten, RunRequestFails, OpenFails, RunTurnFails, TurnOpens
<1>3. CASE TransportStep(u)
  BY <1>3 DEF TransportStep, Connect, DoFails, DoResponds, TransportClosesPipe
<1>4. CASE ReaderStep(u)
  BY <1>4 DEF ReaderStep, ReadFrame, ReadEOF, ReadFails, Push, ReplyWritten, ReplyFails, ReaderExits
<1> QED
  BY <1>1, <1>2, <1>3, <1>4 DEF TurnStep

(* What continued the attempt's events still does after a turn's step. *)
LEMMA ContinuesStays ==
    ASSUME RequestAndTurns, NEW u \in Turns, TurnStep(u) \/ Receive(u), attempt' = attempt,
           NEW s \in Seq(TurnEvent), NEW n \in Nat, Continues(s, n)
    PROVE  /\ n + Len(s) <= Len(sent'[attempt])
           /\ \A i \in 1..Len(s) : s[i] = sent'[attempt][n + i]
<1>1. /\ Len(sent[attempt]) <= Len(sent'[attempt])
      /\ \A i \in 1..Len(sent[attempt]) : sent'[attempt][i] = sent[attempt][i]
  BY SentGrows DEF RequestAndTurns, RequestInv
<1>2. Len(sent[attempt]) \in Nat /\ Len(s) \in Nat
  BY DEF RequestAndTurns, RequestInv, SessionInv, SessionTypeOK
<1>3. Len(sent'[attempt]) \in Nat
  <2>1. sent' \in [Turns -> Seq(TurnEvent)]
    BY NextInv DEF RequestAndTurns, SessionInv, SessionTypeOK, SessionNext
  <2> QED
    BY <2>1 DEF RequestAndTurns, RequestInv
<1>4. n + Len(s) <= Len(sent'[attempt])
  BY <1>1, <1>2, <1>3 DEF Continues
<1>5. ASSUME NEW i \in 1..Len(s) PROVE s[i] = sent'[attempt][n + i]
  <2>1. n + i \in 1..Len(sent[attempt])
    BY <1>2 DEF Continues
  <2> QED
    BY <1>1, <2>1 DEF Continues
<1> QED
  BY <1>4, <1>5

-----------------------------------------------------------------------------
(* The dispatch call: an attempt begins with nothing taken, ... *)
LEMMA BeginDelivery ==
    ASSUME RequestAndTurns, DeliveryInv, Retry \/ \E m \in Modes : Begin(m)
    PROVE  DeliveryInv'
<1> USE DEF RequestAndTurns, RequestInv, BoundaryInv, SessionInv, SessionTypeOK
<1>1. /\ pending = <<>> /\ delivered = <<>> /\ pump = "none"
      /\ UNCHANGED <<pending, delivered, pump, sent, taken>>
  BY DEF Retry, Begin, StartTurn, DeliveryInv
<1>2. attempt' \in Turns /\ caller[attempt'] = "idle"
  <2>1. CASE Retry
    BY <2>1, ExecutorAssumption DEF Retry, StartTurn
  <2>2. CASE \E m \in Modes : Begin(m)
    BY <2>2 DEF Begin, StartTurn
  <2> QED
    BY <2>1, <2>2
<1>3. taken[attempt'] = 0 /\ sent[attempt'] = <<>>
  <2>1. sent[attempt'] = <<>>
    BY <1>2 DEF ReleaseInv, ReaderAfterOpen
  <2>2. Len(sent[attempt']) = 0
    BY <2>1
  <2>3. taken[attempt'] \in Nat /\ taken[attempt'] <= Len(sent[attempt'])
    BY <1>2
  <2> QED
    BY <2>1, <2>2, <2>3
<1>4. Len(<<>>) = 0
  OBVIOUS
<1> QED
  BY <1>1, <1>3, <1>4 DEF DeliveryInv, Continues, PumpOver

(* ... a failing one drops its buffer, ... *)
LEMMA FailDelivery ==
    ASSUME RequestAndTurns, DeliveryInv, phase = "turn", NEW err, AttemptFails(err)
    PROVE  DeliveryInv'
<1>1. /\ pending' = <<>> /\ phase' \in {"backoff", "over"}
      /\ pump' = "none" /\ delivered' = delivered
  BY DEF AttemptFails, RequestAndTurns, BoundaryInv
<1>2. <<>> \in Seq(TurnEvent)
  OBVIOUS
<1> QED
  BY <1>1, <1>2 DEF DeliveryInv, Consuming, PumpOver

(* ... and what is received is buffered. *)
LEMMA BufferDelivery ==
    ASSUME RequestAndTurns, DeliveryInv, phase = "turn", Receive(attempt),
           pending' = Append(pending, NextEvent), UNCHANGED <<attempt, delivered>>,
           phase' \in {"turn", "prepared"}, pump' \in {"none", "pumping"}
    PROVE  DeliveryInv'
<1> USE DEF RequestAndTurns, RequestInv, BoundaryInv, SessionInv, SessionTypeOK
<1> DEFINE n == Len(pending)
<1>1. /\ delivered = <<>> /\ Len(delivered) = 0
      /\ n = taken[attempt] /\ n \in Nat
      /\ Continues(pending, 0)
  BY DEF DeliveryInv, Consuming
<1>2. /\ sent' = sent /\ taken'[attempt] = n + 1
      /\ n + 1 <= Len(sent[attempt])
  BY <1>1 DEF Receive, Available
<1>3. NextEvent = sent[attempt][n + 1] /\ NextEvent \in TurnEvent
  BY <1>1, <1>2 DEF NextEvent
<1>4. /\ pending' \in Seq(TurnEvent) /\ Len(pending') = n + 1
      /\ pending'[n + 1] = NextEvent
      /\ \A i \in 1..n : pending'[i] = pending[i]
  BY <1>3, AppendFacts DEF DeliveryInv
<1>5. \A i \in 1..(n + 1) : pending'[i] = sent[attempt][i]
  BY <1>1, <1>3, <1>4 DEF Continues
<1>6. /\ Len(delivered') + Len(pending') = taken'[attempt']
      /\ 0 + Len(pending') <= Len(sent'[attempt'])
      /\ \A i \in 1..Len(pending') : pending'[i] = sent'[attempt'][0 + i]
  BY <1>1, <1>2, <1>4, <1>5
<1>7. Continues(delivered, 0)'
  BY <1>1, <1>2 DEF Continues
<1> QED
  BY <1>1, <1>4, <1>6, <1>7 DEF DeliveryInv, Continues

-----------------------------------------------------------------------------
(* The pump takes the event that comes next, from the buffer or from the   *)
(* channel behind it.                                                      *)
LEMMA PumpTakesNext ==
    ASSUME RequestAndTurns, DeliveryInv, NEW event, PumpTakes(event)
    PROVE  LET n == Len(delivered)
           IN  /\ n \in Nat /\ n + 1 <= Len(sent[attempt])
               /\ event = sent[attempt][n + 1] /\ event \in TurnEvent
               /\ sent' = sent /\ attempt' = attempt /\ phase' = phase
               /\ pending' \in Seq(TurnEvent)
               /\ phase # "idle" /\ phase # "backoff" /\ phase # "turn"
               /\ n + 1 + Len(pending') = taken'[attempt]
               /\ n + 1 + Len(pending') <= Len(sent[attempt])
               /\ \A i \in 1..Len(pending') : pending'[i] = sent[attempt][n + 1 + i]
<1> USE DEF RequestAndTurns, RequestInv, BoundaryInv, SessionInv, SessionTypeOK
<1> DEFINE n == Len(delivered)
<1>1. /\ n \in Nat
      /\ Len(pending) \in Nat /\ n + Len(pending) = taken[attempt]
      /\ n + Len(pending) <= Len(sent[attempt])
      /\ \A i \in 1..Len(pending) : pending[i] = sent[attempt][n + i]
      /\ sent[attempt] \in Seq(TurnEvent)
      /\ pending \in Seq(TurnEvent)
  BY DEF PumpTakes, DeliveryInv, Consuming, Continues
<1>2. /\ phase \notin {"idle", "backoff", "turn"} /\ phase' = phase /\ attempt' = attempt
  BY DEF PumpTakes
<1>3. CASE pending # <<>> /\ event = Head(pending) /\ pending' = Tail(pending) /\ UNCHANGED sessionVars
  <2>1. /\ event = pending[1] /\ Len(pending) \in Nat \ {0}
        /\ pending' \in Seq(TurnEvent) /\ Len(pending') = Len(pending) - 1
        /\ \A i \in 1..Len(pending') : pending'[i] = pending[i + 1]
    BY <1>1, <1>3, TailFacts
  <2>2. event = sent[attempt][n + 1] /\ n + 1 <= Len(sent[attempt])
    BY <1>1, <2>1
  <2>3. event \in TurnEvent
    BY <1>1, <2>2
  <2>4. \A i \in 1..Len(pending') : pending'[i] = sent[attempt][n + 1 + i]
    BY <1>1, <2>1
  <2> QED
    BY <1>1, <1>2, <1>3, <2>1, <2>2, <2>3, <2>4 DEF sessionVars
<1>4. CASE pending = <<>> /\ event = NextEvent /\ Receive(attempt) /\ UNCHANGED pending
  <2>1. Len(pending) = 0 /\ n = taken[attempt]
    BY <1>1, <1>4
  <2>2. sent' = sent /\ taken'[attempt] = n + 1 /\ n + 1 <= Len(sent[attempt])
    BY <1>1, <1>4, <2>1 DEF Receive, Available
  <2>3. event = sent[attempt][n + 1] /\ event \in TurnEvent
    BY <1>1, <1>4, <2>1, <2>2 DEF NextEvent
  <2> QED
    BY <1>1, <1>2, <1>4, <2>1, <2>2, <2>3
<1> QED
  BY <1>3, <1>4 DEF PumpTakes

LEMMA PumpDelivery ==
    ASSUME RequestAndTurns, DeliveryInv, SuccessInv, NEW event,
           PumpFailure(event) \/ PumpDelivers(event) \/ PumpEmitFails(event)
    PROVE  DeliveryInv' /\ SuccessInv'
<1> DEFINE n == Len(delivered)
<1>0. PumpTakes(event)
  BY DEF PumpFailure, PumpDelivers, PumpEmitFails
<1>1. /\ n \in Nat /\ n + 1 <= Len(sent[attempt])
      /\ event = sent[attempt][n + 1] /\ event \in TurnEvent
      /\ sent' = sent /\ attempt' = attempt /\ phase' = phase
      /\ pending' \in Seq(TurnEvent)
      /\ phase # "idle" /\ phase # "backoff" /\ phase # "turn"
      /\ n + 1 + Len(pending') = taken'[attempt]
      /\ n + 1 + Len(pending') <= Len(sent[attempt])
      /\ \A i \in 1..Len(pending') : pending'[i] = sent[attempt][n + 1 + i]
  BY <1>0, PumpTakesNext
<1>2. delivered \in Seq(TurnEvent) /\ Continues(delivered, 0) /\ Len(sent[attempt]) \in Nat
  BY <1>0 DEF PumpTakes, DeliveryInv, Consuming, RequestAndTurns, RequestInv, SessionInv, SessionTypeOK
<1>3. CASE PumpFailure(event) \/ PumpEmitFails(event)
  <2>1. delivered' = delivered /\ pump' = "closing" /\ pumpErr' # NoErr
    BY <1>3 DEF PumpFailure, PumpEmitFails, PumpReturns, IsFailure, NoErr
  <2>2. Continues(delivered, 0)'
    BY <1>1, <1>2, <2>1 DEF Continues
  <2> QED
    BY <1>1, <1>2, <2>1, <2>2 DEF DeliveryInv, SuccessInv, Consuming
<1>4. CASE PumpDelivers(event)
  <2>1. /\ delivered' \in Seq(TurnEvent) /\ Len(delivered') = n + 1
        /\ delivered'[n + 1] = event
        /\ \A i \in 1..n : delivered'[i] = delivered[i]
    BY <1>1, <1>2, <1>4, AppendFacts DEF PumpDelivers
  <2>2. \A i \in 1..(n + 1) : delivered'[i] = sent[attempt][0 + i]
    BY <1>1, <1>2, <2>1 DEF Continues
  <2>3. Continues(delivered, 0)'
    BY <1>1, <2>1, <2>2 DEF Continues
  <2>4. Continues(pending, Len(delivered))'
    BY <1>1, <2>1 DEF Continues
  <2>5. DeliveryInv'
    BY <1>1, <2>1, <2>3, <2>4 DEF DeliveryInv
  <2>6. PumpOver' => event.type = "done" /\ event.err = NoErr
    BY <1>0, <1>4 DEF PumpTakes, PumpDelivers, PumpOver, PumpReturns, IsFailure
  <2>7. SuccessInv'
    BY <1>1, <1>2, <2>1, <2>6 DEF SuccessInv
  <2> QED
    BY <2>5, <2>7
<1> QED
  BY <1>3, <1>4

(* Steps that leave the request's own state alone. *)
LEMMA TurnsKeepDelivery ==
    ASSUME RequestAndTurns, DeliveryInv, SuccessInv, NEW u \in Turns, TurnStep(u),
           UNCHANGED executorVars
    PROVE  DeliveryInv' /\ SuccessInv'
<1> USE DEF executorVars
<1>1. taken' = taken /\ attempt' = attempt
  BY TurnsDoNotTake
<1>2. Len(delivered) \in Nat /\ delivered \in Seq(TurnEvent) /\ pending \in Seq(TurnEvent)
  BY DEF DeliveryInv
<1>3. Continues(pending, Len(delivered)) => Continues(pending, Len(delivered))'
  <2> SUFFICES ASSUME Continues(pending, Len(delivered))
               PROVE  Continues(pending, Len(delivered))'
    OBVIOUS
  <2> HIDE DEF executorVars
  <2>1. /\ Len(delivered) + Len(pending) <= Len(sent'[attempt])
        /\ \A i \in 1..Len(pending) : pending[i] = sent'[attempt][Len(delivered) + i]
    BY <1>1, <1>2, ContinuesStays
  <2> QED
    BY <1>1, <2>1 DEF Continues, executorVars
<1>4. Continues(delivered, 0) => Continues(delivered, 0)'
  <2> SUFFICES ASSUME Continues(delivered, 0)
               PROVE  Continues(delivered, 0)'
    OBVIOUS
  <2> HIDE DEF executorVars
  <2>1. /\ 0 + Len(delivered) <= Len(sent'[attempt])
        /\ \A i \in 1..Len(delivered) : delivered[i] = sent'[attempt][0 + i]
    BY <1>1, <1>2, ContinuesStays
  <2> QED
    BY <1>1, <2>1 DEF Continues, executorVars
<1>5. DeliveryInv'
  BY <1>1, <1>2, <1>3, <1>4 DEF DeliveryInv, Consuming, PumpOver
<1>6. Len(sent[attempt]) <= Len(sent'[attempt])
  BY SentGrows DEF RequestAndTurns, RequestInv
<1>7. Len(sent[attempt]) \in Nat /\ Len(sent'[attempt]) \in Nat
  <2>1. sent \in [Turns -> Seq(TurnEvent)] /\ sent' \in [Turns -> Seq(TurnEvent)]
    BY NextInv DEF RequestAndTurns, SessionInv, SessionTypeOK, SessionNext
  <2> QED
    BY <2>1 DEF RequestAndTurns, RequestInv
<1>8. SuccessInv'
  BY <1>1, <1>2, <1>6, <1>7 DEF SuccessInv, PumpOver
<1> QED
  BY <1>5, <1>8

LEMMA DeliveryStep ==
    ASSUME RequestAndTurns, DeliveryInv, SuccessInv, [Next]_vars
    PROVE  DeliveryInv' /\ SuccessInv'
<1>1. ASSUME pump' = "none" PROVE SuccessInv'
  BY <1>1 DEF SuccessInv, PumpOver
<1>2. ASSUME NEW err, AttemptFails(err), phase = "turn"
      PROVE  DeliveryInv' /\ SuccessInv'
  <2>1. pump' = "none"
    BY <1>2 DEF AttemptFails, RequestAndTurns, BoundaryInv
  <2> QED
    BY <1>1, <1>2, <2>1, FailDelivery
<1>3. CASE Retry \/ \E m \in Modes : Begin(m)
  <2>1. pump' = "none"
    BY <1>3 DEF Retry, Begin, RequestAndTurns, BoundaryInv
  <2> QED
    BY <1>1, <1>3, <2>1, BeginDelivery
<1>4. CASE OpenFailed \/ PrepareEmpty
  BY <1>2, <1>4 DEF OpenFailed, PrepareEmpty, Reading
<1>5. CASE CollectEvent \/ PrepareEvent
  <2>1. phase = "turn" /\ Receive(attempt) /\ pump = "none"
    BY <1>5 DEF CollectEvent, PrepareEvent, Reading, RequestAndTurns, BoundaryInv
  <2>2. CASE IsFailure(NextEvent)
    BY <1>2, <1>5, <2>1, <2>2 DEF CollectEvent, PrepareEvent
  <2>3. CASE ~IsFailure(NextEvent)
    <3>1. /\ pending' = Append(pending, NextEvent) /\ UNCHANGED <<attempt, delivered, pumpErr>>
          /\ phase' \in {"turn", "prepared"} /\ pump' \in {"none", "pumping"}
      BY <1>5, <2>1, <2>3 DEF CollectEvent, PrepareEvent
    <3>2. SuccessInv'
      BY <3>1 DEF SuccessInv, PumpOver
    <3> QED
      BY <2>1, <3>1, <3>2, BufferDelivery
  <2> QED
    BY <2>2, <2>3
<1>6. ASSUME UNCHANGED <<attempt, sent, taken, pending, delivered, pump, pumpErr>>,
             phase' \notin {"turn", "idle", "backoff"} \/ phase' = phase
      PROVE  DeliveryInv' /\ SuccessInv'
  BY <1>6 DEF DeliveryInv, SuccessInv, Consuming, PumpOver, Continues
<1>7. CASE BackoffCancelled \/ CollectEnds \/ ReturnHeaders \/ Reject
  BY <1>6, <1>7 DEF BackoffCancelled, CollectEnds, ReturnHeaders, Reject, sessionVars
<1>8. CASE ParentCancelled
  BY <1>6, <1>8 DEF ParentCancelled
<1>9. CASE \E event \in PumpEvents : PumpFailure(event) \/ PumpDelivers(event) \/ PumpEmitFails(event)
  BY <1>9, PumpDelivery
<1>10. CASE PumpIncomplete
  <2>1. /\ UNCHANGED <<attempt, sent, taken, pending, delivered, phase>>
        /\ pump = "pumping" /\ pump' = "closing" /\ pumpErr' # NoErr
    BY <1>10 DEF PumpIncomplete, PumpReturns, sessionVars, NoErr
  <2> QED
    BY <2>1 DEF DeliveryInv, SuccessInv, Consuming, PumpOver, Continues
<1>11. CASE CloseStream
  <2>1. /\ UNCHANGED <<attempt, sent, taken, pending, delivered, phase, pumpErr>>
        /\ pump = "closing" /\ pump' = "closed"
    BY <1>11 DEF CloseStream, sessionVars
  <2> QED
    BY <2>1 DEF DeliveryInv, SuccessInv, Consuming, PumpOver, Continues
<1>12. CASE \E u \in Turns : TurnStep(u) /\ UNCHANGED executorVars
  BY <1>12, TurnsKeepDelivery
<1>13. CASE UNCHANGED vars
  BY <1>6, <1>13 DEF vars, sessionVars, executorVars
<1> QED
  BY <1>3, <1>4, <1>5, <1>7, <1>8, <1>9, <1>10, <1>11, <1>12, <1>13 DEF Next, DispatchStep, PumpStep

LEMMA DeliveryInvariance == Spec => [](RequestAndTurns /\ DeliveryInv /\ SuccessInv)
<1>1. Init => BoundaryInv /\ DeliveryInv /\ SuccessInv
  <2>1. <<>> \in Seq(TurnEvent)
    OBVIOUS
  <2> QED
    BY <2>1 DEF Init, BoundaryInv, DeliveryInv, SuccessInv, Consuming, PumpOver
<1>2. BoundaryInv /\ [Next]_vars => BoundaryInv'
  BY BoundaryStep
<1>3. SessionInv /\ RequestInv /\ BoundaryInv /\ DeliveryInv /\ SuccessInv /\ [Next]_vars
      => DeliveryInv' /\ SuccessInv'
  BY DeliveryStep DEF RequestAndTurns
<1> QED
  BY <1>1, <1>2, <1>3, RequestInvariance, PTL DEF Spec, RequestAndTurns

-----------------------------------------------------------------------------
(* Between prepareEventStream's buffer and the channel, the pump neither   *)
(* loses, repeats nor reorders an event: for any capacity of the channel,  *)
(* any number of events before the commit and any number of retries.       *)
THEOREM EventsArriveInOrder == Spec => []DeliveredInOrder
<1>1. ASSUME RequestAndTurns, DeliveryInv PROVE DeliveredInOrder
  <2>1. /\ sent[attempt] \in Seq(TurnEvent) /\ Len(sent[attempt]) \in Nat
        /\ delivered \in Seq(TurnEvent) /\ pending \in Seq(TurnEvent)
    BY <1>1 DEF RequestAndTurns, RequestInv, SessionInv, SessionTypeOK, DeliveryInv
  <2>2. ASSUME NEW n \in 0..Len(sent[attempt])
        PROVE  /\ SubSeq(sent[attempt], 1, n) \in Seq(TurnEvent)
               /\ Len(SubSeq(sent[attempt], 1, n)) = n
               /\ \A i \in 1..n : SubSeq(sent[attempt], 1, n)[i] = sent[attempt][i]
    BY <2>1, <2>2
  <2>3. ASSUME pump = "pumping"
        PROVE  delivered \o pending = SubSeq(sent[attempt], 1, taken[attempt])
    <3> DEFINE n == Len(delivered)
               m == Len(pending)
    <3>1. /\ n \in Nat /\ m \in Nat /\ n + m = taken[attempt] /\ n + m <= Len(sent[attempt])
          /\ \A i \in 1..n : delivered[i] = sent[attempt][i]
          /\ \A i \in 1..m : pending[i] = sent[attempt][n + i]
      BY <1>1, <2>1, <2>3 DEF DeliveryInv, Consuming, Continues
    <3>2. /\ delivered \o pending \in Seq(TurnEvent)
          /\ Len(delivered \o pending) = n + m
          /\ \A i \in 1..(n + m) : (delivered \o pending)[i] =
                 IF i <= n THEN delivered[i] ELSE pending[i - n]
      BY <2>1, ConcatProperties
    <3>3. ASSUME NEW i \in 1..(n + m) PROVE (delivered \o pending)[i] = sent[attempt][i]
      <4>1. CASE i <= n
        BY <3>1, <3>2, <4>1
      <4>2. CASE i > n
        <5>1. i - n \in 1..m
          BY <3>1, <4>2
        <5> QED
          BY <3>1, <3>2, <4>2, <5>1
      <4> QED
        BY <3>1, <4>1, <4>2
    <3>4. taken[attempt] \in 0..Len(sent[attempt])
      BY <2>1, <3>1
    <3> QED
      BY <2>2, <3>1, <3>2, <3>3, <3>4, SeqEqual
  <2>4. ASSUME PumpOver
        PROVE  delivered = SubSeq(sent[attempt], 1, Len(delivered))
    <3>1. /\ Len(delivered) \in 0..Len(sent[attempt])
          /\ \A i \in 1..Len(delivered) : delivered[i] = sent[attempt][i]
      BY <1>1, <2>1, <2>4 DEF DeliveryInv, Continues
    <3> QED
      BY <2>1, <2>2, <3>1, SeqEqual
  <2> QED
    BY <2>3, <2>4 DEF DeliveredInOrder
<1> QED
  BY <1>1, DeliveryInvariance, PTL

(* A stream that was closed without an error carried the whole turn, up to *)
(* and including its successful terminal event (Pump's two loops).         *)
THEOREM SuccessfulStreamsAreWhole == Spec => []SuccessIsComplete
<1>1. ASSUME RequestAndTurns, DeliveryInv, SuccessInv PROVE SuccessIsComplete
  <2> SUFFICES ASSUME PumpOver, pumpErr = NoErr
               PROVE  /\ delivered = sent[attempt]
                      /\ delivered[Len(delivered)] = Event("done", delivered[Len(delivered)].frame)
    BY DEF SuccessIsComplete
  <2> DEFINE n == Len(delivered)
  <2>1. /\ sent[attempt] \in Seq(TurnEvent) /\ Len(sent[attempt]) \in Nat
        /\ delivered \in Seq(TurnEvent)
    BY <1>1 DEF RequestAndTurns, RequestInv, SessionInv, SessionTypeOK, DeliveryInv
  <2>2. /\ n \in 1..Len(sent[attempt])
        /\ delivered[n].type = "done" /\ delivered[n].err = NoErr
        /\ \A i \in 1..n : delivered[i] = sent[attempt][i]
    BY <1>1, <2>1 DEF SuccessInv, DeliveryInv, Continues
  <2>3. n = Len(sent[attempt])
    BY <1>1, <2>2 DEF RequestAndTurns, RequestInv, SessionInv, EventsInv, TerminalIsLast
  <2>4. delivered = sent[attempt]
    BY <2>1, <2>2, <2>3, SeqEqual
  <2>5. delivered[n] \in TurnEvent
    BY <2>1, <2>2, <2>3
  <2>6. delivered[n] = Event("done", delivered[n].frame)
    BY <2>2, <2>5 DEF TurnEvent, Event
  <2> QED
    BY <2>4, <2>6
<1> QED
  BY <1>1, DeliveryInvariance, PTL

-----------------------------------------------------------------------------
(* The request's own variables keep their types; those that hold errors    *)
(* take them from the events and from what runTurn returned.               *)
AnswerOK ==
    /\ mode \in Modes \cup {"none"}
    /\ phase \in {"idle", "turn", "backoff", "prepared", "over"}
    /\ emitted \in BOOLEAN
    /\ reply \in {"none", "error", "payload", "headers"}
    /\ pump \in {"none", "pumping", "closing", "closed"}
    /\ replyErr \in Errors \cup {NoErr} /\ pumpErr \in Errors \cup {NoErr}

LEMMA AnswerStep ==
    ASSUME RequestAndTurns, DeliveryInv, AnswerOK, [Next]_vars
    PROVE  AnswerOK'
<1> USE DEF AnswerOK, RequestAndTurns
<1>1. ASSUME NEW err \in Errors \cup {NoErr}, AttemptFails(err)
      PROVE  AnswerOK'
  BY <1>1 DEF AttemptFails
<1>2. CASE OpenFailed \/ PrepareEmpty
  <2>1. failure[attempt] \in Errors \cup {NoErr}
    BY DEF RequestInv, SessionInv, SessionTypeOK
  <2>2. "stream_empty" \in Errors \cup {NoErr}
    BY DEF Errors
  <2> QED
    BY <1>1, <1>2, <2>1, <2>2 DEF OpenFailed, PrepareEmpty
<1>3. CASE CollectEvent \/ PrepareEvent
  <2>1. NextEvent.err \in Errors \cup {NoErr}
    <3>1. NextEvent \in TurnEvent
      BY <1>3 DEF CollectEvent, PrepareEvent, Receive, Available, NextEvent, RequestInv,
                  SessionInv, SessionTypeOK
    <3> QED
      BY <3>1 DEF TurnEvent
  <2> QED
    BY <1>1, <1>3, <2>1 DEF CollectEvent, PrepareEvent
<1>4. CASE Reject \/ BackoffCancelled \/ CollectEnds \/ ReturnHeaders \/ Retry
  BY <1>4 DEF Reject, BackoffCancelled, CollectEnds, ReturnHeaders, Retry, Errors
<1>5. CASE ParentCancelled \/ CloseStream \/ PumpIncomplete \/ \E m \in Modes : Begin(m)
  BY <1>5 DEF ParentCancelled, CloseStream, PumpIncomplete, PumpReturns, Begin, Errors
<1>6. ASSUME NEW event, PumpFailure(event) \/ PumpDelivers(event) \/ PumpEmitFails(event)
      PROVE  AnswerOK'
  <2>1. event \in TurnEvent
    BY <1>6, PumpTakesNext DEF PumpFailure, PumpDelivers, PumpEmitFails
  <2>2. event.err \in Errors
        \/ event.err = NoErr
    BY <2>1 DEF TurnEvent
  <2>3. HasFrames(event) \in BOOLEAN
    BY DEF HasFrames
  <2> QED
    BY <1>6, <2>2, <2>3 DEF PumpFailure, PumpDelivers, PumpEmitFails, PumpTakes, PumpReturns, Errors
<1>7. CASE (\E u \in Turns : TurnStep(u) /\ UNCHANGED executorVars) \/ UNCHANGED vars
  BY <1>7 DEF vars, executorVars
<1> QED
  BY <1>2, <1>3, <1>4, <1>5, <1>6, <1>7 DEF Next, DispatchStep, PumpStep

(* Every variable of a request keeps its type, and the channel of every    *)
(* attempt its capacity (Execute, PrepareStream, Pump and runTurn).        *)
THEOREM RequestTypeCorrect == Spec => []TypeOK
<1>1. Init => AnswerOK
  BY DEF Init, AnswerOK
<1>2. RequestAndTurns /\ DeliveryInv /\ SuccessInv /\ AnswerOK /\ [Next]_vars => AnswerOK'
  BY AnswerStep
<1>3. RequestAndTurns /\ DeliveryInv /\ SuccessInv /\ AnswerOK => TypeOK
  BY DEF RequestAndTurns, RequestInv, SessionInv, DeliveryInv, AnswerOK, TypeOK
<1> QED
  BY <1>1, <1>2, <1>3, DeliveryInvariance, PTL DEF Spec

-----------------------------------------------------------------------------
(*****************************************************************************)
(* Why an attempt is repeated and when a stream is committed.              *)
(*****************************************************************************)

(* The errors of a turn are never the one PrepareStream makes of a stream  *)
(* without events.                                                         *)
TurnErrors ==
    \A t \in Turns :
        /\ failure[t] # "stream_empty"
        /\ \A i \in 1..Len(outbox[t]) : outbox[t][i].err # "stream_empty"
        /\ \A i \in 1..Len(sent[t]) : sent[t][i].err # "stream_empty"

Repeatable == {"net_error", "status_transient", "truncated", "cut_payload"}

(* The attempt failed for good, and for a reason to repeat it. *)
Justified(t) ==
    \/ caller[t] = "failed" /\ failure[t] \in Repeatable
    \/ /\ caller[t] = "streaming" /\ reader[t] = "gone"
       /\ sent[t] = <<>> \/ sent[t][Len(sent[t])].type # "done"
    \/ /\ caller[t] = "streaming" /\ sent[t] # <<>>
       /\ sent[t][Len(sent[t])].type = "done"
       /\ sent[t][Len(sent[t])].err \in Repeatable

JustifiedInv == \A t \in Turns : t < attempt \/ (t = attempt /\ phase = "backoff") => Justified(t)

(* What prepareEventStream has read so far does not commit, ... *)
Holding == phase = "turn" /\ mode # "collect" =>
               \A i \in 1..Len(pending) : ~StreamEventCommits(pending[i])

(* Visible, in a request of the given mode. *)
VisibleIn(m, event) ==
    \/ event.type \in {"text", "tool_call"}
    \/ event.type = "thinking" /\ m # "responses"

ShownAlready == emitted /\ \E i \in 1..Len(delivered) : Visible(delivered[i])

(* ... so that a committed stream has shown something, or is about to, or  *)
(* is about to end well; and its buffer holds no failure.                  *)
CommitInv ==
    pump = "pumping" =>
        /\ \A i \in 1..Len(pending) : ~IsFailure(pending[i])
        /\ \/ ShownAlready
           \/ \E i \in 1..Len(pending) : Visible(pending[i])
           \/ pending # <<>> /\ pending[Len(pending)].type = "done"

(* In prepareEventStream and collectTurn too. *)
BufferedWell == phase \in {"turn", "prepared"} => \A i \in 1..Len(pending) : ~IsFailure(pending[i])

-----------------------------------------------------------------------------
LEMMA ProducedErrors ==
    ASSUME NEW kind, NEW n
    PROVE  \A i \in 1..Len(Produces(kind, n)) : Produces(kind, n)[i].err # "stream_empty"
<1>1. CASE kind \in {"text", "thinking", "tokens", "end"}
  BY <1>1 DEF Produces, Event, NoErr
<1>2. CASE kind \in {"turn_ended", "tool_call"}
  BY <1>2 DEF Produces, Event, NoErr
<1>3. CASE kind \in {"bad_usage", "bad_tool_call", "cut_gzip", "bad_gzip", "end_transient", "end_final"}
  BY <1>3 DEF Produces, Failed
<1>4. CASE kind \notin {"text", "thinking", "tokens", "end", "turn_ended", "tool_call",
                        "bad_usage", "bad_tool_call", "cut_gzip", "bad_gzip", "end_transient", "end_final"}
  BY <1>4 DEF Produces
<1> QED
  BY <1>1, <1>2, <1>3, <1>4

LEMMA TurnErrorsStep ==
    ASSUME SessionInv, TurnErrors, [SessionNext]_sessionVars
    PROVE  TurnErrors'
<1> USE DEF SessionInv, SessionTypeOK
<1>1. ASSUME UNCHANGED <<failure, outbox, sent>> PROVE TurnErrors'
  BY <1>1 DEF TurnErrors
<1>2. ASSUME NEW t \in Turns, NEW err, err # "stream_empty", RunTurnFails(t, err)
      PROVE  TurnErrors'
  BY <1>2 DEF RunTurnFails, TurnErrors
<1>3. ASSUME NEW t \in Turns, NEW box, outbox' = [outbox EXCEPT ![t] = box],
             \A i \in 1..Len(box) : box[i].err # "stream_empty",
             UNCHANGED <<failure, sent>>
      PROVE  TurnErrors'
  BY <1>3 DEF TurnErrors
<1>4. CASE UNCHANGED sessionVars
  BY <1>1, <1>4 DEF sessionVars
<1>5. ASSUME NEW t \in Turns,
             \/ \E parentOver \in BOOLEAN : StartTurn(t, parentOver)
             \/ ContextDone(t) \/ TransportStep(t) \/ Receive(t)
             \/ RunRequestWritten(t) \/ TurnOpens(t)
             \/ ReadEOF(t) \/ ReplyWritten(t) \/ ReaderExits(t)
      PROVE  TurnErrors'
  BY <1>1, <1>5 DEF StartTurn, ContextDone, TransportStep, Connect, DoFails, DoResponds,
      TransportClosesPipe, Receive, RunRequestWritten, TurnOpens, ReadEOF, ReplyWritten, ReaderExits
<1>6. ASSUME NEW t \in Turns, RunRequestFails(t) \/ OpenFails(t)
      PROVE  TurnErrors'
  BY <1>2, <1>6 DEF RunRequestFails, OpenFails
<1>7. ASSUME NEW t \in Turns, NEW kind \in Upstream, ReadFrame(t, kind)
      PROVE  TurnErrors'
  BY <1>3, <1>7, ProducedErrors DEF ReadFrame
<1>8. ASSUME NEW t \in Turns, ReplyFails(t) \/ \E err \in ReadErrors : ReadFails(t, err)
      PROVE  TurnErrors'
  <2>1. CASE UNCHANGED <<failure, outbox, sent>>
    BY <1>1, <2>1
  <2>2. CASE ~UNCHANGED <<failure, outbox, sent>>
    <3>1. PICK err \in {"closed_pipe"} \cup ReadErrors :
              outbox' = [outbox EXCEPT ![t] = <<Failed(err, frames[t])>>] /\ UNCHANGED <<failure, sent>>
      BY <1>8, <2>2 DEF ReplyFails, ReadFails
    <3>2. \A i \in 1..Len(<<Failed(err, frames[t])>>) : <<Failed(err, frames[t])>>[i].err # "stream_empty"
      BY DEF Failed, ReadErrors
    <3> QED
      BY <1>3, <3>1, <3>2
  <2> QED
    BY <2>1, <2>2
<1>9. ASSUME NEW t \in Turns, Push(t)
      PROVE  TurnErrors'
  <2> DEFINE event  == Head(outbox[t])
             longer == Append(sent[t], event)
             rest   == Tail(outbox[t])
  <2>1. outbox[t] # <<>> /\ outbox[t] \in Seq(TurnEvent) /\ sent[t] \in Seq(TurnEvent)
    BY <1>9 DEF Push, EventsInv, OutboxOK
  <2>2. /\ event \in TurnEvent /\ event = outbox[t][1] /\ Len(outbox[t]) \in Nat \ {0}
        /\ Len(Tail(outbox[t])) = Len(outbox[t]) - 1
        /\ \A i \in 1..Len(Tail(outbox[t])) : Tail(outbox[t])[i] = outbox[t][i + 1]
    BY <2>1, TailFacts
  <2>3. /\ Len(Append(sent[t], event)) = Len(sent[t]) + 1
        /\ Append(sent[t], event)[Len(sent[t]) + 1] = event
        /\ \A i \in 1..Len(sent[t]) : Append(sent[t], event)[i] = sent[t][i]
    BY <2>1, <2>2, AppendFacts
  <2>4. /\ sent' = [sent EXCEPT ![t] = longer]
        /\ outbox' = [outbox EXCEPT ![t] = rest]
        /\ UNCHANGED failure
    BY <1>9 DEF Push
  <2>5. event.err # "stream_empty"
    BY <2>2 DEF TurnErrors
  <2>6. \A i \in 1..Len(rest) : rest[i].err # "stream_empty"
    BY <2>2 DEF TurnErrors
  <2>7. \A i \in 1..Len(longer) : longer[i].err # "stream_empty"
    <3>1. Len(sent[t]) \in Nat
      BY <2>1
    <3>2. \A i \in 1..Len(sent[t]) : longer[i].err # "stream_empty"
      BY <2>3 DEF TurnErrors
    <3> HIDE DEF longer
    <3>3. \A i \in 1..(Len(sent[t]) + 1) : i \in 1..Len(sent[t]) \/ i = Len(sent[t]) + 1
      BY <3>1
    <3> QED
      BY <2>3, <2>5, <3>2, <3>3 DEF longer
  <2> HIDE DEF longer, rest
  <2>8. ASSUME NEW u \in Turns
        PROVE  /\ failure'[u] # "stream_empty"
               /\ \A i \in 1..Len(outbox'[u]) : outbox'[u][i].err # "stream_empty"
               /\ \A i \in 1..Len(sent'[u]) : sent'[u][i].err # "stream_empty"
    <3>1. CASE u = t
      <4>1. sent'[t] = longer /\ outbox'[t] = rest
        BY <2>4
      <4> QED
        BY <2>4, <2>6, <2>7, <3>1, <4>1 DEF TurnErrors
    <3>2. CASE u # t
      BY <2>4, <3>2 DEF TurnErrors
    <3> QED
      BY <3>1, <3>2
  <2> QED
    BY <2>8 DEF TurnErrors
<1>10. CASE SessionNext
  BY <1>5, <1>6, <1>7, <1>8, <1>9, <1>10 DEF SessionNext, TurnStep, CallerStep, ReaderStep
<1> QED
  BY <1>4, <1>10

-----------------------------------------------------------------------------
(* A failed attempt stays as it is. *)
LEMMA JustifiedForGood ==
    ASSUME SessionInv, NEW t \in Turns, Justified(t),
           NEW u \in Turns, TurnStep(u) \/ Receive(u)
    PROVE  Justified(t)'
<1> USE DEF SessionInv, SessionTypeOK, Justified
<1>1. CASE ContextDone(u) \/ Receive(u)
  BY <1>1 DEF ContextDone, Receive
<1>2. CASE RunRequestWritten(u) \/ RunRequestFails(u) \/ OpenFails(u)
  BY <1>2 DEF RunRequestWritten, RunRequestFails, OpenFails, RunTurnFails
<1>3. CASE TurnOpens(u)
  BY <1>3 DEF TurnOpens
<1>4. CASE TransportStep(u)
  BY <1>4 DEF TransportStep, Connect, DoFails, DoResponds, TransportClosesPipe
<1>5. CASE Push(u)
  <2>1. CASE u # t
    BY <1>5, <2>1 DEF Push
  <2>2. CASE u = t /\ caller[t] = "failed"
    BY <1>5, <2>2 DEF Push
  <2>3. CASE u = t /\ caller[t] # "failed"
    <3>1. reader[t] = "pushing"
      BY <1>5, <2>3 DEF Push
    <3>2. sent[t] \in Seq(TurnEvent) /\ (sent[t] # <<>> => Len(sent[t]) \in 1..Len(sent[t]))
      BY EmptySeq
    <3>3. FALSE
      BY <2>3, <3>1, <3>2 DEF EventsInv, TerminalIsLast
    <3> QED
      BY <3>3
  <2> QED
    BY <2>1, <2>2, <2>3
<1>6. CASE \/ \E kind \in Upstream : ReadFrame(u, kind)
           \/ ReadEOF(u) \/ ReplyWritten(u) \/ ReplyFails(u) \/ ReaderExits(u)
           \/ \E err \in ReadErrors : ReadFails(u, err)
  BY <1>6 DEF ReadFrame, ReadEOF, ReadFails, ReplyWritten, ReplyFails, ReaderExits
<1> QED
  BY <1>1, <1>2, <1>3, <1>4, <1>5, <1>6 DEF TurnStep, CallerStep, ReaderStep

-----------------------------------------------------------------------------
(* The buffer of prepareEventStream and the pump's. *)
BufferInv == Holding /\ CommitInv /\ BufferedWell

Delivering == RequestAndTurns /\ DeliveryInv /\ SuccessInv

LEMMA BufferStep ==
    ASSUME Delivering, BufferInv, [Next]_vars
    PROVE  BufferInv'
<1> USE DEF Delivering, RequestAndTurns, BufferInv
<1>1. ASSUME pending' = <<>>, pump' = "none"
      PROVE  BufferInv'
  <2>1. Len(pending') = 0
    BY <1>1
  <2> QED
    BY <1>1, <2>1 DEF Holding, CommitInv, BufferedWell
<1>2. ASSUME NEW err, AttemptFails(err), phase = "turn"
      PROVE  BufferInv'
  BY <1>1, <1>2 DEF AttemptFails, BoundaryInv
<1>3. CASE Retry \/ (\E m \in Modes : Begin(m)) \/ OpenFailed \/ PrepareEmpty
  <2>1. CASE OpenFailed \/ PrepareEmpty
    BY <1>2, <2>1 DEF OpenFailed, PrepareEmpty, Reading
  <2>2. CASE Retry \/ \E m \in Modes : Begin(m)
    BY <1>1, <2>2 DEF Retry, Begin, BoundaryInv, DeliveryInv
  <2> QED
    BY <1>3, <2>1, <2>2
<1>4. CASE CollectEvent \/ PrepareEvent
  <2>1. phase = "turn" /\ pump = "none" /\ mode' = mode
    BY <1>4 DEF CollectEvent, PrepareEvent, AttemptFails, Reading, BoundaryInv
  <2>2. CASE IsFailure(NextEvent)
    BY <1>2, <1>4, <2>1, <2>2 DEF CollectEvent, PrepareEvent
  <2>3. CASE ~IsFailure(NextEvent)
    <3> DEFINE n == Len(pending)
               longer == Append(pending, NextEvent)
    <3>1. NextEvent \in TurnEvent
      BY <1>4 DEF CollectEvent, PrepareEvent, Receive, Available, NextEvent, RequestInv,
                  SessionInv, SessionTypeOK
    <3>2. /\ n \in Nat /\ Len(longer) = n + 1 /\ longer[n + 1] = NextEvent
          /\ \A i \in 1..n : longer[i] = pending[i]
          /\ longer # <<>>
      BY <3>1, AppendFacts DEF DeliveryInv
    <3>3. \A i \in 1..(n + 1) : i \in 1..n \/ i = n + 1
      BY <3>2
    <3>4. pending' = longer
      BY <1>4, <2>3 DEF CollectEvent, PrepareEvent
    <3> HIDE DEF n, longer
    <3>5. \A i \in 1..Len(longer) : ~IsFailure(longer[i])
      BY <2>1, <2>3, <3>2, <3>3 DEF BufferedWell, n
    <3>6. BufferedWell'
      BY <3>4, <3>5 DEF BufferedWell, IsFailure
    <3>7. Holding'
      <4>1. CASE phase' # "turn" \/ mode = "collect"
        BY <2>1, <4>1 DEF Holding
      <4>2. CASE phase' = "turn" /\ mode # "collect"
        <5>1. ~StreamEventCommits(NextEvent)
          BY <1>4, <2>3, <4>2 DEF CollectEvent, PrepareEvent, Reading
        <5>2. \A i \in 1..Len(longer) : ~StreamEventCommits(longer[i])
          BY <2>1, <3>2, <3>3, <4>2, <5>1 DEF Holding, n
        <5> QED
          BY <2>1, <3>4, <5>2 DEF Holding, StreamEventCommits
      <4> QED
        BY <4>1, <4>2
    <3>8. CommitInv'
      <4>1. CASE pump' = "none"
        BY <4>1 DEF CommitInv
      <4>2. CASE pump' # "none"
        <5>1. StreamEventCommits(NextEvent)
          BY <1>4, <2>1, <2>3, <4>2 DEF CollectEvent, PrepareEvent
        <5>2. Visible(NextEvent) \/ NextEvent.type = "done"
          BY <5>1 DEF StreamEventCommits, Visible
        <5>3. n + 1 \in 1..Len(longer)
          BY <3>2
        <5> QED
          BY <2>1, <3>2, <3>4, <3>5, <5>2, <5>3 DEF CommitInv, Visible, IsFailure
      <4> QED
        BY <4>1, <4>2
    <3> QED
      BY <3>6, <3>7, <3>8
  <2> QED
    BY <2>2, <2>3
<1>5. ASSUME UNCHANGED <<mode, pending, delivered, emitted>>, pump' # "pumping" \/ pump' = pump,
             phase' = phase \/ (phase' \in {"over"})
      PROVE  BufferInv'
  BY <1>5 DEF Holding, CommitInv, BufferedWell, ShownAlready, Visible, IsFailure, StreamEventCommits
<1>6. CASE BackoffCancelled \/ CollectEnds \/ ReturnHeaders
  BY <1>5, <1>6 DEF BackoffCancelled, CollectEnds, ReturnHeaders
<1>7. CASE Reject
  BY <1>1, <1>7 DEF Reject, BoundaryInv, DeliveryInv
<1>8. CASE ParentCancelled \/ CloseStream \/ PumpIncomplete
  BY <1>5, <1>8 DEF ParentCancelled, CloseStream, PumpIncomplete, PumpReturns
<1>9. CASE (\E u \in Turns : TurnStep(u) /\ UNCHANGED executorVars) \/ UNCHANGED vars
  BY <1>5, <1>9 DEF vars, executorVars
<1>10. ASSUME NEW event, PumpFailure(event) \/ PumpDelivers(event) \/ PumpEmitFails(event)
       PROVE  BufferInv'
  <2>1. /\ pump = "pumping" /\ mode' = mode /\ phase' = phase /\ phase # "turn"
        /\ PumpTakes(event)
    BY <1>10 DEF PumpFailure, PumpDelivers, PumpEmitFails, PumpTakes, BoundaryInv
  <2>2. \A i \in 1..Len(pending) : ~IsFailure(pending[i])
    BY <2>1 DEF CommitInv
  <2>3. /\ Len(pending) \in Nat
        /\ pending # <<>> =>
              /\ Len(pending) \in Nat \ {0} /\ event = pending[1] /\ pending' = Tail(pending)
              /\ Len(pending') = Len(pending) - 1
              /\ pending' = <<>> <=> Len(pending) = 1
              /\ \A i \in 1..Len(pending') : pending'[i] = pending[i + 1]
        /\ pending = <<>> => pending' = <<>>
    BY <2>1, TailFacts DEF PumpTakes, DeliveryInv
  <2>4. Len(<<>>) = 0
    OBVIOUS
  <2>5. \A i \in 1..Len(pending') : ~IsFailure(pending'[i])
    BY <2>2, <2>3, <2>4
  <2>6. Holding' /\ BufferedWell'
    BY <2>1, <2>5 DEF Holding, BufferedWell, IsFailure
  <2>7. CASE pump' # "pumping"
    BY <2>6, <2>7 DEF CommitInv
  <2>8. CASE pump' = "pumping"
    <3>1. PumpDelivers(event) /\ event.type # "done"
      BY <1>10, <2>8 DEF PumpFailure, PumpDelivers, PumpEmitFails, PumpReturns
    <3>2. /\ delivered' = Append(delivered, event)
          /\ emitted' = (emitted \/ HasFrames(event))
      BY <3>1 DEF PumpDelivers
    <3>3. /\ delivered \in Seq(TurnEvent) /\ Len(delivered) \in Nat
          /\ event \in TurnEvent
      BY <2>1, PumpTakesNext DEF DeliveryInv
    <3>4. /\ Len(delivered') = Len(delivered) + 1
          /\ delivered'[Len(delivered) + 1] = event
          /\ \A i \in 1..Len(delivered) : delivered'[i] = delivered[i]
      BY <3>2, <3>3, AppendFacts
    <3>5. Visible(event) => ShownAlready'
      <4>1. Visible(event) => HasFrames(event)
        BY DEF Visible, HasFrames
      <4>2. Len(delivered) + 1 \in 1..Len(delivered')
        BY <3>3, <3>4
      <4> QED
        BY <2>1, <3>2, <3>4, <4>1, <4>2 DEF ShownAlready, Visible
    <3>6. ShownAlready => ShownAlready'
      <4>1. \A i \in 1..Len(delivered) : i \in 1..Len(delivered')
        BY <3>3, <3>4
      <4> QED
        BY <2>1, <3>2, <3>4, <4>1 DEF ShownAlready, Visible
    <3>7. ASSUME NEW i \in 1..Len(pending), Visible(pending[i])
          PROVE  ShownAlready' \/ \E j \in 1..Len(pending') : VisibleIn(mode, pending'[j])
      <4>1. pending # <<>>
        BY <2>4
      <4>2. CASE i = 1
        BY <2>3, <3>5, <3>7, <4>1, <4>2
      <4>3. CASE i # 1
        <5>1. i - 1 \in 1..Len(pending') /\ pending'[i - 1] = pending[i]
          BY <2>3, <4>1, <4>3
        <5>2. VisibleIn(mode, pending[i])
          BY <3>7 DEF Visible, VisibleIn
        <5> QED
          BY <5>1, <5>2
      <4> QED
        BY <4>2, <4>3
    <3>8. ASSUME pending # <<>>, pending[Len(pending)].type = "done"
          PROVE  pending' # <<>> /\ pending'[Len(pending')].type = "done"
      <4>1. Len(pending) # 1
        BY <2>3, <3>1, <3>8
      <4>2. Len(pending') \in 1..Len(pending') /\ Len(pending') + 1 = Len(pending)
        BY <2>3, <3>8, <4>1
      <4> QED
        BY <2>3, <3>8, <4>1, <4>2
    <3>9. \/ ShownAlready'
          \/ \E j \in 1..Len(pending') : VisibleIn(mode, pending'[j])
          \/ pending' # <<>> /\ pending'[Len(pending')].type = "done"
      <4>1. \/ ShownAlready
            \/ \E i \in 1..Len(pending) : Visible(pending[i])
            \/ pending # <<>> /\ pending[Len(pending)].type = "done"
        BY <2>1 DEF CommitInv
      <4> QED
        BY <3>6, <3>7, <3>8, <4>1
    <3>10. (\E j \in 1..Len(pending') : VisibleIn(mode, pending'[j]))
              => (\E j \in 1..Len(pending) : Visible(pending[j]))'
      BY <2>1 DEF Visible, VisibleIn
    <3>11. CommitInv'
      BY <2>5, <3>9, <3>10 DEF CommitInv, IsFailure
    <3> QED
      BY <2>6, <3>11
  <2> QED
    BY <2>7, <2>8
<1> QED
  BY <1>3, <1>4, <1>6, <1>7, <1>8, <1>9, <1>10 DEF Next, DispatchStep, PumpStep

-----------------------------------------------------------------------------
(* A failure of the stream is delivered after output. *)
LateInv == PumpOver /\ pumpErr \notin {NoErr, "emit_failed"} => ShownAlready

LEMMA LateStep ==
    ASSUME Delivering, BufferInv, LateInv, [Next]_vars
    PROVE  LateInv'
<1> USE DEF Delivering, RequestAndTurns
<1>1. ASSUME ~PumpOver' PROVE LateInv'
  BY <1>1 DEF LateInv
<1>2. ASSUME PumpOver' => PumpOver, UNCHANGED <<mode, pumpErr, delivered, emitted>> PROVE LateInv'
  BY <1>2 DEF LateInv, ShownAlready, Visible
<1>3. CASE Reject \/ \E m \in Modes : Begin(m)
  BY <1>1, <1>3 DEF Reject, Begin, BoundaryInv, PumpOver
<1>4. CASE DispatchStep
  BY <1>1, <1>2, <1>4 DEF DispatchStep, OpenFailed, Retry, BackoffCancelled, CollectEvent, CollectEnds,
      PrepareEvent, PrepareEmpty, ReturnHeaders, AttemptFails, Reading, PumpOver
<1>5. CASE \/ ParentCancelled \/ CloseStream \/ UNCHANGED vars
           \/ \E u \in Turns : TurnStep(u) /\ UNCHANGED executorVars
  BY <1>2, <1>5 DEF ParentCancelled, CloseStream, vars, executorVars, PumpOver
<1>6. ASSUME pump = "pumping", pending = <<>>, UNCHANGED <<mode, delivered, emitted>>
      PROVE  LateInv'
  <2>1. Len(pending) = 0
    BY <1>6
  <2>2. ShownAlready
    BY <1>6, <2>1 DEF BufferInv, CommitInv
  <2> QED
    BY <1>6, <2>2 DEF LateInv, ShownAlready, Visible
<1>7. CASE PumpIncomplete
  BY <1>6, <1>7 DEF PumpIncomplete
<1>8. ASSUME NEW event, PumpFailure(event)
      PROVE  LateInv'
  <2>1. CASE pending = <<>>
    BY <1>6, <1>8, <2>1 DEF PumpFailure, PumpTakes
  <2>2. CASE pending # <<>>
    <3>1. Len(pending) \in Nat \ {0} /\ Head(pending) = pending[1]
      BY <2>2, TailFacts DEF DeliveryInv
    <3>2. 1 \in 1..Len(pending)
      BY <3>1
    <3> QED
      BY <1>8, <2>2, <3>1, <3>2 DEF PumpFailure, PumpTakes, BufferInv, CommitInv
  <2> QED
    BY <2>1, <2>2
<1>9. ASSUME NEW event, PumpDelivers(event) \/ PumpEmitFails(event)
      PROVE  LateInv'
  BY <1>9 DEF PumpDelivers, PumpEmitFails, PumpReturns, PumpTakes, LateInv, PumpOver
<1> QED
  BY <1>3, <1>4, <1>5, <1>7, <1>8, <1>9 DEF Next, PumpStep

-----------------------------------------------------------------------------
LEMMA JustifiedStep ==
    ASSUME Delivering, BufferInv, TurnErrors, JustifiedInv, [Next]_vars
    PROVE  JustifiedInv'
<1> USE DEF Delivering, RequestAndTurns
<1>1. ASSUME NEW t \in Turns, Justified(t), UNCHANGED <<caller, failure, reader, sent>>
      PROVE  Justified(t)'
  BY <1>1 DEF Justified
<1>2. ASSUME attempt' = attempt, phase' = "backoff" => phase = "backoff",
             \/ UNCHANGED <<caller, failure, reader, sent>>
             \/ \E u \in Turns : TurnStep(u) \/ Receive(u)
      PROVE  JustifiedInv'
  BY <1>1, <1>2, JustifiedForGood DEF JustifiedInv
<1>3. ASSUME NEW err, AttemptFails(err), IsTransient(err) => Justified(attempt)',
             UNCHANGED <<caller, failure, reader, sent>>
      PROVE  JustifiedInv'
  <2>1. CASE phase' = "backoff"
    BY <1>1, <1>3, <2>1 DEF AttemptFails, JustifiedInv
  <2>2. CASE phase' # "backoff"
    BY <1>1, <1>3, <2>2 DEF AttemptFails, JustifiedInv
  <2> QED
    BY <2>1, <2>2
<1>4. CASE OpenFailed
  <2>1. IsTransient(failure[attempt]) => failure[attempt] \in Repeatable
    BY DEF IsTransient, Repeatable, TurnErrors, RequestInv
  <2>2. Justified(attempt) \/ ~IsTransient(failure[attempt])
    BY <1>4, <2>1 DEF OpenFailed, Justified
  <2>3. UNCHANGED <<caller, failure, reader, sent>>
    BY <1>4 DEF OpenFailed, sessionVars
  <2>4. Justified(attempt) => Justified(attempt)'
    BY <1>4, <2>3 DEF OpenFailed, AttemptFails, Justified
  <2> QED
    BY <1>3, <1>4, <2>2, <2>3, <2>4 DEF OpenFailed
<1>5. CASE CollectEvent \/ PrepareEvent
  <2> DEFINE n == Len(sent[attempt])
  <2>1. /\ phase = "turn" /\ caller[attempt] = "streaming" /\ attempt \in Turns
        /\ Receive(attempt) /\ attempt' = attempt
        /\ UNCHANGED <<caller, failure, reader, sent>>
    BY <1>5 DEF CollectEvent, PrepareEvent, Reading, Receive, AttemptFails, RequestInv
  <2>2. CASE ~IsFailure(NextEvent)
    BY <1>2, <1>5, <2>1, <2>2 DEF CollectEvent, PrepareEvent
  <2>3. CASE IsFailure(NextEvent)
    <3>1. /\ taken[attempt] \in Nat /\ n \in Nat /\ taken[attempt] < n
          /\ sent[attempt] \in Seq(TurnEvent)
      BY <2>1 DEF Receive, Available, SessionInv, SessionTypeOK
    <3>2. taken[attempt] + 1 \in 1..n
      BY <3>1
    <3>3. NextEvent.type = "done"
      BY <2>3 DEF IsFailure
    <3>4. taken[attempt] + 1 = n
      BY <2>1, <3>2, <3>3 DEF NextEvent, SessionInv, EventsInv, TerminalIsLast
    <3>5. NextEvent = sent[attempt][n] /\ sent[attempt] # <<>>
      <4>1. Len(<<>>) = 0
        OBVIOUS
      <4> QED
        BY <3>1, <3>4, <4>1 DEF NextEvent
    <3>6. NextEvent.err # "stream_empty"
      BY <2>1, <3>2, <3>4, <3>5 DEF TurnErrors
    <3>7. IsTransient(NextEvent.err) => Justified(attempt)
      BY <2>1, <3>3, <3>5, <3>6 DEF IsTransient, Justified, Repeatable
    <3>8. Justified(attempt) => Justified(attempt)'
      BY <2>1 DEF Justified
    <3>9. AttemptFails(NextEvent.err)
      BY <1>5, <2>3 DEF CollectEvent, PrepareEvent
    <3> QED
      BY <1>3, <2>1, <3>7, <3>8, <3>9
  <2> QED
    BY <2>2, <2>3
<1>6. CASE PrepareEmpty
  <2> DEFINE n == Len(sent[attempt])
  <2>1. /\ phase = "turn" /\ mode # "collect" /\ caller[attempt] = "streaming"
        /\ reader[attempt] = "gone" /\ ~(taken[attempt] < n)
        /\ AttemptFails("stream_empty") /\ UNCHANGED <<caller, failure, reader, sent>>
        /\ attempt \in Turns
    BY <1>6 DEF PrepareEmpty, Reading, Drained, Closed, Available, sessionVars, RequestInv
  <2>2. /\ taken[attempt] \in Nat /\ taken[attempt] <= n /\ n \in Nat
        /\ sent[attempt] \in Seq(TurnEvent)
    BY <2>1 DEF SessionInv, SessionTypeOK
  <2>3. delivered = <<>> /\ Len(delivered) = 0 /\ Len(pending) \in Nat
    BY <2>1 DEF BoundaryInv, DeliveryInv
  <2>4. Len(pending) = n
    BY <2>1, <2>2, <2>3 DEF DeliveryInv, Consuming
  <2>5. \A i \in 1..n : pending[i] = sent[attempt][i]
    <3>1. Continues(pending, 0)
      BY <2>1, <2>3 DEF DeliveryInv, Consuming
    <3>2. \A i \in 1..n : 0 + i = i
      BY <2>2
    <3> QED
      BY <2>4, <3>1, <3>2 DEF Continues
  <2>6. CASE sent[attempt] = <<>>
    BY <1>3, <2>1, <2>6 DEF Justified, AttemptFails
  <2>7. CASE sent[attempt] # <<>>
    <3>1. n \in 1..n
      BY <2>2, <2>7, EmptySeq
    <3>2. ~StreamEventCommits(pending[n])
      BY <2>1, <2>4, <3>1 DEF BufferInv, Holding
    <3>3. sent[attempt][n].type # "done"
      BY <2>5, <3>1, <3>2 DEF StreamEventCommits
    <3>4. Justified(attempt)'
      BY <2>1, <3>3 DEF Justified, AttemptFails
    <3> QED
      BY <1>3, <2>1, <3>4
  <2> QED
    BY <2>6, <2>7
<1>7. ASSUME NEW u \in Turns, \E over \in BOOLEAN : StartTurn(u, over),
             NEW t \in Turns, Justified(t)
      PROVE  Justified(t)'
  BY <1>7 DEF StartTurn, Justified
<1>8. CASE Retry
  <2>1. attempt + 1 \in Turns /\ StartTurn(attempt + 1, parentDone) /\ parentDone \in BOOLEAN
    BY <1>8, ExecutorAssumption DEF Retry, RequestInv
  <2>2. \A t \in Turns : t < attempt + 1 => t < attempt \/ t = attempt
    BY ExecutorAssumption DEF RequestInv
  <2>3. \A t \in Turns : t < attempt + 1 => Justified(t)
    BY <1>8, <2>2 DEF Retry, JustifiedInv
  <2> QED
    BY <1>7, <1>8, <2>1, <2>3 DEF Retry, JustifiedInv
<1>9. CASE \E m \in Modes : Begin(m)
  <2>1. 0 \in Turns /\ StartTurn(0, parentDone) /\ parentDone \in BOOLEAN
    BY <1>9, ExecutorAssumption DEF Begin, RequestInv
  <2> QED
    BY <1>7, <1>9, <2>1 DEF Begin, JustifiedInv
<1>10. CASE Reject \/ ParentCancelled \/ BackoffCancelled \/ CollectEnds \/ ReturnHeaders
  BY <1>2, <1>10 DEF Reject, ParentCancelled, BackoffCancelled, CollectEnds, ReturnHeaders, sessionVars
<1>11. CASE PumpStep
  <2>1. attempt \in Turns /\ attempt' = attempt /\ phase' = phase
    BY <1>11 DEF PumpStep, PumpFailure, PumpDelivers, PumpEmitFails, PumpTakes, PumpIncomplete,
        CloseStream, RequestInv
  <2>2. Receive(attempt) \/ UNCHANGED sessionVars
    BY <1>11 DEF PumpStep, PumpFailure, PumpDelivers, PumpEmitFails, PumpTakes, PumpIncomplete, CloseStream
  <2> QED
    BY <1>2, <2>1, <2>2 DEF sessionVars
<1>12. CASE \E u \in Turns : TurnStep(u) /\ UNCHANGED executorVars
  BY <1>2, <1>12 DEF executorVars
<1>13. CASE UNCHANGED vars
  BY <1>2, <1>13 DEF vars, executorVars, sessionVars
<1> QED
  BY <1>4, <1>5, <1>6, <1>8, <1>9, <1>10, <1>11, <1>12, <1>13 DEF Next, DispatchStep

-----------------------------------------------------------------------------
RetryInv == BufferInv /\ LateInv /\ TurnErrors /\ JustifiedInv

LEMMA RetryInit == Init => RetryInv
<1> SUFFICES ASSUME Init PROVE RetryInv
  OBVIOUS
<1>1. BufferInv /\ LateInv
  BY DEF Init, BufferInv, Holding, CommitInv, BufferedWell, LateInv, PumpOver
<1>2. TurnErrors
  <2>1. \A t \in Turns : failure[t] = NoErr /\ outbox[t] = <<>> /\ sent[t] = <<>>
    BY DEF Init, SessionInit
  <2>2. Len(<<>>) = 0
    OBVIOUS
  <2>3. \A t \in Turns : Len(outbox[t]) = 0 /\ Len(sent[t]) = 0
    BY <2>1, <2>2
  <2>4. ASSUME NEW t \in Turns PROVE failure[t] # "stream_empty"
    BY <2>1 DEF NoErr
  <2>5. ASSUME NEW t \in Turns
        PROVE  /\ \A i \in 1..Len(outbox[t]) : outbox[t][i].err # "stream_empty"
               /\ \A i \in 1..Len(sent[t]) : sent[t][i].err # "stream_empty"
    <3>1. \A i \in 1..0 : FALSE
      OBVIOUS
    <3> QED
      BY <2>3, <3>1
  <2> QED
    BY <2>4, <2>5 DEF TurnErrors
<1>3. JustifiedInv
  BY ExecutorAssumption DEF Init, JustifiedInv
<1> QED
  BY <1>1, <1>2, <1>3 DEF RetryInv

LEMMA RetryInvariance == Spec => [](Delivering /\ RetryInv)
<1>1. Delivering /\ RetryInv /\ [Next]_vars => RetryInv'
  <2> SUFFICES ASSUME Delivering, RetryInv, [Next]_vars PROVE RetryInv'
    OBVIOUS
  <2>1. [SessionNext]_sessionVars
    BY StepOfSession DEF Delivering, RequestAndTurns, SessionInv
  <2>2. TurnErrors'
    BY <2>1, TurnErrorsStep DEF Delivering, RequestAndTurns, RetryInv
  <2> QED
    BY <2>2, BufferStep, LateStep, JustifiedStep DEF RetryInv
<1>2. Spec => []Delivering
  BY DeliveryInvariance DEF Delivering
<1> QED
  BY <1>1, <1>2, RetryInit, PTL DEF Spec

(* An upstream failure that reaches the client through the stream comes    *)
(* after output the client could see (streamEventCommits and Pump).        *)
THEOREM LateErrorsAreLate == Spec => []LateErrorsFollowOutput
<1>1. RetryInv => LateErrorsFollowOutput
  BY DEF RetryInv, LateInv, ShownAlready, LateErrorsFollowOutput
<1> QED
  BY <1>1, RetryInvariance, PTL

(* Only a transport or gateway failure, a body or compressed payload that  *)
(* stopped early, or a stream that ended without a terminal event, makes   *)
(* retryTransient repeat an attempt.                                       *)
THEOREM RetriesHaveAReason == Spec => []RetriesAreJustified
<1>1. JustifiedInv => RetriesAreJustified
  BY DEF JustifiedInv, Justified, RetriesAreJustified, Repeatable, IsFailure, NoErr
<1> QED
  BY <1>1, RetryInvariance, PTL DEF RetryInv

-----------------------------------------------------------------------------
(*****************************************************************************)
(* A request and its turns keep what StreamPromise promises the host.      *)
(* (That the end comes is liveness, and left to TLC.)                      *)
(*****************************************************************************)

(* The call is answered once; a payload never has a pump beside it. *)
AnsweredOnce ==
    /\ reply # "none" => phase = "over"
    /\ reply = "payload" => pump = "none"

(* A stream that goes on, or ends badly, has delivered no terminal event.  *)
Unfinished ==
    pump = "pumping" \/ (PumpOver /\ pumpErr # NoErr) =>
        \A i \in 1..Len(delivered) : delivered[i].type # "done"

HostInv == AnsweredOnce /\ Unfinished

-----------------------------------------------------------------------------
LEMMA HostStep ==
    ASSUME Delivering, HostInv, [Next]_vars
    PROVE  HostInv'
<1> USE DEF Delivering, RequestAndTurns, HostInv
<1>1. ASSUME NEW err, AttemptFails(err), phase = "turn"
      PROVE  HostInv'
  BY <1>1 DEF AttemptFails, AnsweredOnce, Unfinished, BoundaryInv, PumpOver
<1>2. CASE OpenFailed \/ PrepareEmpty
  BY <1>1, <1>2 DEF OpenFailed, PrepareEmpty, Reading
<1>3. CASE CollectEvent \/ PrepareEvent
  <2>1. phase = "turn" /\ pump = "none" /\ reply = "none"
    BY <1>3 DEF CollectEvent, PrepareEvent, Reading, BoundaryInv, AnsweredOnce
  <2>2. Len(delivered) = 0
    <3>1. Len(<<>>) = 0
      OBVIOUS
    <3> QED
      BY <2>1, <3>1 DEF BoundaryInv
  <2>3. CASE IsFailure(NextEvent)
    BY <1>1, <1>3, <2>1, <2>3 DEF CollectEvent, PrepareEvent
  <2>4. CASE ~IsFailure(NextEvent)
    BY <1>3, <2>1, <2>2, <2>4 DEF CollectEvent, PrepareEvent, AnsweredOnce, Unfinished, PumpOver
  <2> QED
    BY <2>3, <2>4
<1>4. CASE \/ Reject \/ BackoffCancelled \/ CollectEnds \/ ReturnHeaders \/ Retry
           \/ \E m \in Modes : Begin(m)
  BY <1>4 DEF Reject, BackoffCancelled, CollectEnds, ReturnHeaders, Retry, Begin, Reading,
              AnsweredOnce, Unfinished, BoundaryInv, PumpOver
<1>5. CASE ParentCancelled \/ CloseStream \/ UNCHANGED vars
           \/ \E u \in Turns : TurnStep(u) /\ UNCHANGED executorVars
  BY <1>5 DEF ParentCancelled, CloseStream, vars, executorVars, AnsweredOnce, Unfinished, PumpOver
<1>6. CASE PumpIncomplete
  BY <1>6 DEF PumpIncomplete, PumpReturns, AnsweredOnce, Unfinished, PumpOver
<1>7. ASSUME NEW event, PumpFailure(event) \/ PumpEmitFails(event)
      PROVE  HostInv'
  BY <1>7 DEF PumpFailure, PumpEmitFails, PumpTakes, PumpReturns, AnsweredOnce, Unfinished, PumpOver
<1>8. ASSUME NEW event, PumpDelivers(event)
      PROVE  HostInv'
  <2>1. /\ pump = "pumping" /\ delivered' = Append(delivered, event) /\ PumpTakes(event)
        /\ reply' = reply /\ phase' = phase
    BY <1>8 DEF PumpDelivers, PumpTakes
  <2>2. AnsweredOnce'
    BY <2>1 DEF AnsweredOnce
  <2>3. CASE event.type = "done"
    BY <1>8, <2>2, <2>3 DEF PumpDelivers, PumpReturns, Unfinished, PumpOver
  <2>4. CASE event.type # "done"
    <3>1. event \in TurnEvent /\ delivered \in Seq(TurnEvent) /\ Len(delivered) \in Nat
      BY <2>1, PumpTakesNext DEF DeliveryInv
    <3>2. /\ Len(delivered') = Len(delivered) + 1
          /\ delivered'[Len(delivered) + 1] = event
          /\ \A i \in 1..Len(delivered) : delivered'[i] = delivered[i]
      BY <2>1, <3>1, AppendFacts
    <3>3. \A i \in 1..(Len(delivered) + 1) : i \in 1..Len(delivered) \/ i = Len(delivered) + 1
      BY <3>1
    <3>4. \A i \in 1..Len(delivered') : delivered'[i].type # "done"
      BY <2>1, <2>4, <3>2, <3>3 DEF Unfinished
    <3> QED
      BY <2>2, <3>4 DEF Unfinished
  <2> QED
    BY <2>3, <2>4
<1> QED
  BY <1>2, <1>3, <1>4, <1>5, <1>6, <1>7, <1>8 DEF Next, DispatchStep, PumpStep

-----------------------------------------------------------------------------
(* What the host sees. *)
Decision == IF pump # "none" THEN "streaming"
            ELSE IF reply = "error" THEN "refused"
            ELSE IF reply = "payload" THEN "answered" ELSE "open"
Ending   == IF pump # "closed" THEN "none"
            ELSE IF pumpErr = NoErr THEN "success" ELSE "failure"

LEMMA PromiseStep ==
    ASSUME Delivering, HostInv, [Next]_vars
    PROVE  [Promise!Next]_(Promise!promiseVars)
<1> USE DEF Delivering, RequestAndTurns, HostInv
<1>1. ASSUME Decision' = Decision, Ending' = Ending, delivered' = delivered
      PROVE  UNCHANGED Promise!promiseVars
  BY <1>1 DEF Promise!promiseVars, Decision, Ending
<1>2. ASSUME Decision = "open", Decision' \in {"refused", "answered", "streaming"},
             Ending' = Ending, delivered' = delivered
      PROVE  Promise!Next
  BY <1>2 DEF Promise!Next, Promise!Decide, Decision, Ending
<1>3. ASSUME pump' = pump, pumpErr' = pumpErr, reply' = reply, delivered' = delivered
      PROVE  UNCHANGED Promise!promiseVars
  BY <1>1, <1>3 DEF Decision, Ending
<1>4. ASSUME pump = "none", reply = "none", delivered' = delivered,
             \/ pump' \in {"none", "pumping"} /\ reply' = reply
             \/ pump' = "none" /\ reply' \in {"error", "payload"}
      PROVE  [Promise!Next]_(Promise!promiseVars)
  <2>1. Decision = "open" /\ Ending' = Ending
    BY <1>4 DEF Decision, Ending
  <2>2. Decision' = "open" \/ Decision' \in {"refused", "answered", "streaming"}
    BY <1>4 DEF Decision
  <2> QED
    BY <1>1, <1>2, <1>4, <2>1, <2>2
<1>5. ASSUME NEW err, AttemptFails(err), phase = "turn"
      PROVE  [Promise!Next]_(Promise!promiseVars)
  BY <1>4, <1>5 DEF AttemptFails, AnsweredOnce, BoundaryInv
<1>6. CASE OpenFailed \/ PrepareEmpty
  BY <1>5, <1>6 DEF OpenFailed, PrepareEmpty, Reading
<1>7. CASE CollectEvent \/ PrepareEvent
  <2>1. phase = "turn" /\ pump = "none" /\ reply = "none"
    BY <1>7 DEF CollectEvent, PrepareEvent, Reading, BoundaryInv, AnsweredOnce
  <2>2. CASE IsFailure(NextEvent)
    BY <1>5, <1>7, <2>1, <2>2 DEF CollectEvent, PrepareEvent
  <2>3. CASE ~IsFailure(NextEvent)
    BY <1>4, <1>7, <2>1, <2>3 DEF CollectEvent, PrepareEvent
  <2> QED
    BY <2>2, <2>3
<1>8. CASE Reject \/ BackoffCancelled \/ CollectEnds
  BY <1>4, <1>8 DEF Reject, BackoffCancelled, CollectEnds, Reading, AnsweredOnce, BoundaryInv
<1>9. CASE ReturnHeaders
  <2>1. reply = "none" /\ reply' = "headers" /\ pump' = pump /\ pumpErr' = pumpErr /\ delivered' = delivered
    BY <1>9 DEF ReturnHeaders, AnsweredOnce
  <2>2. Decision' = Decision /\ Ending' = Ending
    BY <2>1 DEF Decision, Ending
  <2> QED
    BY <1>1, <2>1, <2>2
<1>10. CASE \/ Retry \/ ParentCancelled \/ UNCHANGED vars
            \/ (\E m \in Modes : Begin(m))
            \/ \E u \in Turns : TurnStep(u) /\ UNCHANGED executorVars
  BY <1>3, <1>10 DEF Retry, ParentCancelled, Begin, vars, executorVars
<1>11. ASSUME pump = "pumping", pump' = "closing", delivered' = delivered
       PROVE  UNCHANGED Promise!promiseVars
  <2>1. Decision' = Decision /\ Ending' = Ending
    BY <1>11 DEF Decision, Ending
  <2> QED
    BY <1>1, <1>11, <2>1
<1>12. CASE PumpIncomplete \/ \E event : PumpFailure(event) \/ PumpEmitFails(event)
  BY <1>11, <1>12 DEF PumpIncomplete, PumpFailure, PumpEmitFails, PumpTakes, PumpReturns
<1>13. CASE CloseStream
  <2>1. /\ pump = "closing" /\ pump' = "closed" /\ pumpErr' = pumpErr
        /\ delivered' = delivered /\ reply' = reply
    BY <1>13 DEF CloseStream
  <2>2. CASE pumpErr = NoErr
    <3>1. Len(delivered) \in 1..Len(sent[attempt]) /\ delivered[Len(delivered)].type = "done"
      BY <2>1, <2>2 DEF SuccessInv, PumpOver
    <3>2. Len(delivered) > 0
      BY <3>1 DEF RequestInv, SessionInv, SessionTypeOK
    <3> QED
      BY <2>1, <2>2, <3>1, <3>2 DEF Promise!Next, Promise!End, IsDone
  <2>3. CASE pumpErr # NoErr
    <3>1. Len(delivered) \in Nat
      BY DEF DeliveryInv
    <3>2. Len(delivered) > 0 => Len(delivered) \in 1..Len(delivered)
      BY <3>1
    <3>3. ~(Len(delivered) > 0 /\ delivered[Len(delivered)].type = "done")
      BY <2>1, <2>3, <3>2 DEF Unfinished, PumpOver
    <3> QED
      BY <2>1, <2>3, <3>3 DEF Promise!Next, Promise!End, IsDone
  <2> QED
    BY <2>2, <2>3
<1>14. ASSUME NEW event, PumpDelivers(event)
       PROVE  Promise!Next
  <2>1. /\ pump = "pumping" /\ pump' \in {"pumping", "closing"} /\ PumpTakes(event)
        /\ delivered' = Append(delivered, event) /\ reply' = reply
    BY <1>14 DEF PumpDelivers, PumpTakes, PumpReturns
  <2>2. event \in TurnEvent /\ delivered \in Seq(TurnEvent) /\ Len(delivered) \in Nat
    BY <2>1, PumpTakesNext DEF DeliveryInv
  <2>3. /\ Len(delivered') = Len(delivered) + 1
        /\ delivered'[Len(delivered) + 1] = event
        /\ delivered' \in Seq(TurnEvent)
        /\ \A i \in 1..Len(delivered) : delivered'[i] = delivered[i]
    BY <2>1, <2>2, AppendFacts
  <2>4. SubSeq(delivered', 1, Len(delivered)) = delivered
    <3> DEFINE front == SubSeq(delivered', 1, Len(delivered))
    <3>1. Len(delivered) \in 0..Len(delivered')
      BY <2>2, <2>3
    <3>2. /\ front \in Seq(TurnEvent) /\ Len(front) = Len(delivered)
          /\ \A i \in 1..Len(delivered) : front[i] = delivered'[i]
      BY <2>2, <2>3, <3>1
    <3> HIDE DEF front
    <3>3. front = delivered
      BY <2>2, <2>3, <3>2, SeqEqual
    <3> QED
      BY <3>3 DEF front
  <2>5. \A i \in 1..Len(delivered) : delivered[i].type # "done"
    BY <2>1 DEF Unfinished
  <2>6. /\ \A i \in 1..Len(delivered) : ~IsDone(delivered[i])
        /\ delivered'[Len(delivered')] \in TurnEvent
    BY <2>2, <2>3, <2>5 DEF IsDone
  <2>7. Decision = "streaming" /\ Decision' = "streaming" /\ Ending = "none" /\ Ending' = "none"
    BY <2>1 DEF Decision, Ending
  <2> QED
    BY <2>3, <2>4, <2>6, <2>7 DEF Promise!Next, Promise!Deliver, Decision, Ending
<1> QED
  BY <1>3, <1>6, <1>7, <1>8, <1>9, <1>10, <1>12, <1>13, <1>14 DEF Next, DispatchStep, PumpStep

(* The host sees one decision per call, events only after a commitment and *)
(* in one sequence that ends with the terminal event, one end, and a good  *)
(* end only after a terminal event (PreparedStream, Pump and dispatch.go). *)
THEOREM PromiseIsKept == Spec => KeepsPromise
<1>1. Init => Promise!Init /\ HostInv
  <2> SUFFICES ASSUME Init PROVE Promise!Init /\ HostInv
    OBVIOUS
  <2>1. HostInv
    BY DEF Init, HostInv, AnsweredOnce, Unfinished, PumpOver
  <2>2. Promise!Init
    BY DEF Init, Promise!Init
  <2> QED
    BY <2>1, <2>2
<1>2. Delivering /\ HostInv /\ [Next]_vars => HostInv' /\ [Promise!Next]_(Promise!promiseVars)
  BY HostStep, PromiseStep
<1>3. Spec => []Delivering
  BY DeliveryInvariance DEF Delivering
<1> QED
  BY <1>1, <1>2, <1>3, PTL DEF Spec, KeepsPromise

===============================================================================
