---------------------------- MODULE StreamPromise -----------------------------
(***************************************************************************)
(* What the plugin promises the host about one streaming request, without  *)
(* any of the machinery: the call is decided once, either by an error the  *)
(* host may fail over on, with nothing delivered, or by committing to a    *)
(* stream; a committed stream is delivered event by event, is closed       *)
(* exactly once, and is closed without an error only after a terminal      *)
(* event.  A call that is answered with a whole payload is a decision of   *)
(* its own and delivers nothing through the stream.                        *)
(* (PreparedStream's comment and dispatch.go's use of Pump.)               *)
(***************************************************************************)
EXTENDS Naturals, Sequences

CONSTANT Events, Terminal(_)

VARIABLES
    decision,   \* open, refused, answered, streaming
    out,        \* the events delivered to the host's stream
    ending      \* none, success, failure

promiseVars == <<decision, out, ending>>

Init == decision = "open" /\ out = <<>> /\ ending = "none"

Decide ==
    /\ decision = "open"
    /\ decision' \in {"refused", "answered", "streaming"}
    /\ UNCHANGED <<out, ending>>

Deliver ==
    /\ decision = "streaming" /\ ending = "none"
    /\ \A i \in 1..Len(out) : ~Terminal(out[i])
    /\ Len(out') = Len(out) + 1
    /\ SubSeq(out', 1, Len(out)) = out
    /\ out'[Len(out')] \in Events
    /\ UNCHANGED <<decision, ending>>

End ==
    /\ decision = "streaming" /\ ending = "none"
    /\ ending' = IF Len(out) > 0 /\ Terminal(out[Len(out)]) THEN "success" ELSE "failure"
    /\ UNCHANGED <<decision, out>>

Next == Decide \/ Deliver \/ End

(* Once decided for a stream, its end follows. *)
Spec == Init /\ [][Next]_promiseVars /\ WF_promiseVars(End)

=============================================================================
