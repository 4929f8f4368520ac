----------------------------- MODULE StreamFrames -----------------------------
(***************************************************************************)
(* The frames Pump makes of a turn's events, in the three formats          *)
(* (streamState of internal/provider/executor.go), and the usage they      *)
(* report (usage.go); beside them the answer Execute makes of the same     *)
(* events.  A frame is its name, the output index it is about and its      *)
(* content; a piece of text, thinking or a tool call is the number of the  *)
(* event that brought it.  Wording and layout are left out.                *)
(*                                                                         *)
(* The events are those of Session and more: as in the tests of the        *)
(* executor, usage and further calls may follow a tool call or a report.   *)
(***************************************************************************)
EXTENDS Integers, SequencesExt

CONSTANTS
    TokenDeltas,    \* token counts of the usage events, signed
    TurnEndings,    \* the fields of a turn's final usage: sequences of Field
    MaxEvents       \* model bound

Formats == {"openai-chat", "openai-response", "claude"}

(* A field on the wire: its number, whether it is a varint, its value, the *)
(* ones above the int64 range as negative.                                 *)
Field == [number : Nat, varint : BOOLEAN, value : Int]

ASSUME StreamFramesAssumption ==
    /\ TokenDeltas \subseteq Int /\ MaxEvents \in Nat
    /\ TurnEndings \subseteq Seq(Field)

VARIABLES
    format, phase,          \* phase: "open", "done", or how the stream broke
    events,                 \* the events consumed
    out,                    \* the frames the host accepted
    opened, toolIdx, seq, text, reasoning, toolCalls, usage     \* streamState

stateVars  == <<opened, toolIdx, seq, text, reasoning, toolCalls, usage>>
framesVars == <<format, phase, events, out, stateVars>>

-----------------------------------------------------------------------------
NoUsage == [count |-> [n \in 1 .. 5 |-> 0], reported |-> FALSE]

(* Counts by field number: input, output, cache read, cache write,         *)
(* reasoning.                                                              *)
Input      == 1
Output     == 2
CacheRead  == 3
CacheWrite == 4

Malformed(field) == field.number \in 1 .. 5 /\ (~ field.varint \/ field.value < 0)

(* usageFromTurnEnded: unknown fields are skipped, a known one that occurs *)
(* again replaces its value.                                               *)
UsageFromTurnEnded(fields) ==
    LET read[n \in 0 .. Len(fields)] ==
            IF n = 0 THEN NoUsage
            ELSE IF fields[n].number \notin 1 .. 5 THEN read[n - 1]
            ELSE [count |-> [read[n - 1].count EXCEPT ![fields[n].number] = fields[n].value],
                  reported |-> TRUE]
    IN read[Len(fields)]

(* Mutated form: deltas are added to what was reported. *)
ObserveAddsAlways(u, e) ==
    IF e.usage.reported THEN e.usage ELSE [u EXCEPT !.count[Output] = @ + e.tokens]

(* tokenUsage.observe *)
Observe(u, e) ==
    IF e.usage.reported THEN e.usage
    ELSE IF u.reported THEN u
    ELSE [u EXCEPT !.count[Output] = @ + e.tokens]

AtLeastZero(n) == IF n < 0 THEN 0 ELSE n

(* usageBlock and responseUsageBlock; claudeUsageBlock, whose input is     *)
(* without the cache.                                                      *)
UsageBlock(f, u) ==
    LET c == u.count
        output == AtLeastZero(c[Output])
    IN IF f = "claude"
       THEN [input |-> AtLeastZero(c[Input] - c[CacheRead] - c[CacheWrite]), output |-> output,
             cached |-> c[CacheRead] + c[CacheWrite]]
       ELSE [input |-> c[Input], output |-> output, cached |-> c[CacheRead] + c[CacheWrite],
             total |-> c[Input] + output]

Init ==
    /\ format \in Formats /\ phase = "open"
    /\ events = <<>> /\ out = <<>>
    /\ opened = FALSE /\ toolIdx = 0 /\ seq = 0
    /\ text = <<>> /\ reasoning = <<>> /\ toolCalls = <<>>
    /\ usage = NoUsage

-----------------------------------------------------------------------------
(* A frame before responseEvent has numbered it. *)
Frame(name, index, content) == [name |-> name, index |-> index, content |-> content, seq |-> 0]

Opening ==
    IF opened THEN <<>>
    ELSE IF format = "openai-response"
         THEN <<Frame("response.created", 0, <<>>), Frame("item.added", 0, "message"),
                Frame("part.added", 0, <<>>)>>
         ELSE <<Frame("start", 0, <<>>)>>

(* responseEvent numbers the events of the Responses format. *)
Numbered(fs) == IF format # "openai-response" THEN fs
                ELSE [i \in DOMAIN fs |-> [fs[i] EXCEPT !.seq = seq + i - 1]]

(* Pump emits the frames of an event until the host refuses one. *)
Emit(fs, next) ==
    LET all == Numbered(Opening \o fs)
    IN /\ opened' = TRUE
       /\ seq' = IF format = "openai-response" THEN seq + Len(all) ELSE seq
       /\ \E k \in 0 .. Len(all) :
             /\ out' = out \o SubSeq(all, 1, k)
             /\ phase' = IF k = Len(all) THEN next ELSE "refused"

Consume(e) ==
    /\ phase = "open" /\ Len(events) < MaxEvents
    /\ events' = Append(events, e)
    /\ UNCHANGED format

This == Len(events) + 1

(* A token delta, and the report of a turn that has ended: a malformed one *)
(* is an error of the turn (TurnBreaks).                                   *)
TokenDelta(n)     == [type |-> "usage", tokens |-> n, usage |-> NoUsage, fields |-> <<>>]
TurnEnded(fields) == [type |-> "usage", tokens |-> 0, usage |-> UsageFromTurnEnded(fields),
                      fields |-> fields]

WellFormed  == {fields \in TurnEndings : \A field \in ToSet(fields) : ~ Malformed(field)}
UsageEvents == {TokenDelta(n) : n \in TokenDeltas} \cup {TurnEnded(fields) : fields \in WellFormed}

(* Usage is only noted. *)
Usage(e) ==
    /\ Consume(e)
    /\ usage' = Observe(usage, e)
    /\ UNCHANGED <<phase, out, opened, toolIdx, seq, text, reasoning, toolCalls>>

TextDelta ==
    /\ Consume([type |-> "text"])
    /\ Emit(<<Frame("text", 0, This)>>, "open")
    /\ text' = IF format = "openai-response" THEN Append(text, This) ELSE text
    /\ UNCHANGED <<toolIdx, reasoning, toolCalls, usage>>

(* Thinking is kept, not sent, in the Responses format. *)
ThinkingDelta ==
    /\ Consume([type |-> "thinking"])
    /\ Emit(IF format = "openai-response" THEN <<>> ELSE <<Frame("thinking", 0, This)>>, "open")
    /\ reasoning' = IF format = "openai-response" THEN Append(reasoning, This) ELSE reasoning
    /\ UNCHANGED <<toolIdx, text, toolCalls, usage>>

(* Mutated form: the index is not advanced. *)
ToolCallSameIndex ==
    /\ format # "openai-response"
    /\ Consume([type |-> "tool_call"])
    /\ Emit(<<Frame("tool", IF format = "claude" THEN toolIdx + 1 ELSE toolIdx, This)>>, "open")
    /\ UNCHANGED <<toolIdx, text, reasoning, toolCalls, usage>>

(* Chat and Claude: the call in one frame; Claude leaves 0 to the text. *)
ToolCall ==
    /\ format # "openai-response"
    /\ Consume([type |-> "tool_call"])
    /\ Emit(<<Frame("tool", IF format = "claude" THEN toolIdx + 1 ELSE toolIdx, This)>>, "open")
    /\ toolIdx' = toolIdx + 1
    /\ UNCHANGED <<text, reasoning, toolCalls, usage>>

(* Mutated forms: the index is taken before the call is kept, or one too   *)
(* far.                                                                    *)
ToolItemBefore(index, call) == LET at == index - 1 IN
    <<Frame("item.added", at, "call"), Frame("input.delta", at, call),
      Frame("input.done", at, call), Frame("item.done", at, <<call>>)>>
ToolItemBeyond(index, call) == LET at == index + 1 IN
    <<Frame("item.added", at, "call"), Frame("input.delta", at, call),
      Frame("input.done", at, call), Frame("item.done", at, <<call>>)>>

ToolItem(index, call) ==
    <<Frame("item.added", index, "call"), Frame("input.delta", index, call),
      Frame("input.done", index, call), Frame("item.done", index, <<call>>)>>

(* Responses: the call is an output item after the message. *)
ResponseToolCall ==
    /\ format = "openai-response"
    /\ Consume([type |-> "tool_call"])
    /\ toolCalls' = Append(toolCalls, This)
    /\ Emit(ToolItem(Len(toolCalls'), This), "open")
    /\ UNCHANGED <<toolIdx, text, reasoning, usage>>

Has(type) == \E i \in DOMAIN events : events[i].type = type

(* The reason the terminal event names: the reader sends "tool_calls" with *)
(* the call it hands over, and "stop" for a turn or a stream that ended.   *)
StopReason == IF Has("tool_call") THEN "tool_calls" ELSE "stop"

(* responseToolItem, for each call. *)
CallItems(calls) == [i \in DOMAIN calls |-> <<calls[i]>>]

(* A Responses stream ends with its message, empty or not, and the calls. *)
Done ==
    /\ Consume([type |-> "done", reason |-> StopReason])
    /\ Emit(CASE format = "openai-response" ->
                   <<Frame("text.done", 0, text), Frame("part.done", 0, text),
                     Frame("item.done", 0, text),
                     Frame("completed", 0, [outputs |-> <<text>> \o CallItems(toolCalls),
                                            usage |-> UsageBlock(format, usage)])>>
            [] OTHER -> <<Frame("final", 0, [tools |-> StopReason = "tool_calls",
                                             usage |-> UsageBlock(format, usage)])>>,
            "done")
    /\ UNCHANGED <<toolIdx, text, reasoning, toolCalls, usage>>

(* An error, a malformed usage among them, or the end of the channel       *)
(* without a terminal event: Pump returns and emits nothing.               *)
TurnBreaks ==
    /\ phase = "open" /\ phase' = "broken"
    /\ UNCHANGED <<format, events, out, stateVars>>

Next ==
    \/ \E e \in UsageEvents : Usage(e)
    \/ TextDelta \/ ThinkingDelta
    \/ ToolCall \/ ResponseToolCall
    \/ Done \/ TurnBreaks

Spec == Init /\ [][Next]_framesVars

-----------------------------------------------------------------------------
(* The elements of a sequence at some positions, in their order.           *)
At(s, positions) ==
    LET at[n \in 0 .. Len(s)] ==
            IF n = 0 THEN <<>>
            ELSE IF n \in positions THEN Append(at[n - 1], s[n]) ELSE at[n - 1]
    IN at[Len(s)]

(* collectTurn and nonStreamingPayload: the answer made of the same events *)
(* in one piece.                                                           *)
Numbers(type) == At([i \in DOMAIN events |-> i], {i \in DOMAIN events : events[i].type = type})

UsageOf(es) ==
    LET used[n \in 0 .. Len(es)] ==
            IF n = 0 THEN NoUsage
            ELSE IF es[n].type = "usage" THEN Observe(used[n - 1], es[n]) ELSE used[n - 1]
    IN used[Len(es)]

StoppedForCalls == \E i \in DOMAIN events : events[i].type = "done" /\ events[i].reason = "tool_calls"

(* A Responses answer has a message only when there is text or thinking to *)
(* tell of, although it tells the text alone; chat stops for calls also    *)
(* when the terminal event says so (finishReason), Claude for calls only.  *)
Payload ==
    LET calls == Numbers("tool_call")
        used  == UsageBlock(format, UsageOf(events))
    IN IF format = "openai-response"
       THEN [outputs |-> IF Numbers("text") # <<>> \/ Numbers("thinking") # <<>>
                         THEN <<Numbers("text")>> \o CallItems(calls) ELSE CallItems(calls),
             usage |-> used]
       ELSE [text |-> Numbers("text"), thinking |-> Numbers("thinking"), calls |-> calls,
             tools |-> calls # <<>> \/ (format = "openai-chat" /\ StoppedForCalls), usage |-> used]

-----------------------------------------------------------------------------
Positions(name) == {i \in DOMAIN out : out[i].name = name}
Contents(name)  == At([i \in DOMAIN out |-> out[i].content], Positions(name))
Said(name)      == {<<out[i].index, out[i].content>> : i \in Positions(name)}

(* Type invariant. *)
TypeOK ==
    /\ format \in Formats /\ phase \in {"open", "done", "broken", "refused"}
    /\ Len(events) <= MaxEvents /\ opened \in BOOLEAN
    /\ \A i \in DOMAIN out : out[i].index \in 0 .. Len(events) /\ out[i].seq \in Nat
    /\ toolIdx \in Nat /\ seq \in Nat
    /\ UNION {ToSet(text), ToSet(reasoning), ToSet(toolCalls)} \subseteq DOMAIN events
    /\ usage \in [count : [1 .. 5 -> Int], reported : BOOLEAN]

ItemFrames == {i \in DOMAIN out : out[i].name \notin {"response.created", "completed"}}

(* The lifecycle a Responses client relies on, also when the host stops    *)
(* accepting in between: the events are numbered without a gap; an item is *)
(* added once and before anything is said about it, and nothing is after   *)
(* it is done; the final output holds, at each index, the item that was    *)
(* announced there, and the text of the message is all its deltas, in the  *)
(* order of the events that brought them.                                  *)
ResponsesLifecycle == format = "openai-response" =>
    /\ \A i \in DOMAIN out : out[i].seq = i - 1
    /\ \A i, j \in ItemFrames : i < j /\ out[i].index = out[j].index =>
          out[i].name # "item.done" /\ out[j].name # "item.added"
    /\ \A j \in ItemFrames : \E i \in ItemFrames :
          i <= j /\ out[i].name = "item.added" /\ out[i].index = out[j].index
    /\ \A k \in DOMAIN out : out[k].name = "completed" =>
          LET outputs == out[k].content.outputs
          IN /\ Said("item.done") = {<<i - 1, outputs[i]>> : i \in DOMAIN outputs}
             /\ {out[i].index : i \in Positions("item.added")} = {i - 1 : i \in DOMAIN outputs}
             /\ {out[i].content : i \in Positions("text")} = {outputs[1][i] : i \in DOMAIN outputs[1]}
             /\ \A i, j \in DOMAIN outputs[1] : i < j => outputs[1][i] < outputs[1][j]
    /\ \A i, j \in Positions("text") : i < j => out[i].content < out[j].content

(* What the client puts together from a stream is the answer it would have *)
(* got in one piece: the text, the thinking in chat and Claude, the calls  *)
(* in their order, each at its own index, whether it stopped for them, and *)
(* the usage.  One difference is left: a Responses stream has announced a  *)
(* message before it knows of one, so of a turn without text and thinking  *)
(* it tells an empty message first, which the answer in one piece leaves   *)
(* out, and its calls are one index higher.                                *)
StreamAndPayloadAgree == phase = "done" =>
    LET ended == Last(out).content
        whole == IF Has("text") \/ Has("thinking") THEN Payload.outputs ELSE << <<>> >> \o Payload.outputs
    IN /\ ended.usage = Payload.usage
       /\ IF format = "openai-response"
          THEN /\ ended.outputs = whole /\ Contents("text") = whole[1]
               /\ Said("item.done") = {<<i - 1, whole[i]>> : i \in DOMAIN whole}
          ELSE /\ Contents("text") = Payload.text /\ Contents("thinking") = Payload.thinking
               /\ ended.tools = Payload.tools
               /\ Said("tool") = {<<IF format = "claude" THEN i ELSE i - 1, Payload.calls[i]>> :
                                     i \in DOMAIN Payload.calls}

(* The value a report gives a field: its last occurrence.                  *)
ReportedValue(fields, n) ==
    LET at == {i \in DOMAIN fields : fields[i].number = n}
    IN IF at = {} THEN 0 ELSE fields[CHOOSE i \in at : \A j \in at : j <= i].value

Reports == {i \in DOMAIN events : /\ events[i].type = "usage"
                                  /\ \E field \in ToSet(events[i].fields) : field.number \in 1 .. 5}

DeltaSum(es) ==
    LET sum[n \in 0 .. Len(es)] ==
            IF n = 0 THEN 0
            ELSE IF es[n].type = "usage" THEN sum[n - 1] + es[n].tokens ELSE sum[n - 1]
    IN sum[Len(es)]

(* The usage a stream ends with is the last report of Cursor, an explicit  *)
(* zero included, and only without any report the sum of the deltas, never *)
(* below zero; Claude's input and cache figures add up to the reported     *)
(* input unless the report contradicts itself.                             *)
UsageIsFinal == phase = "done" =>
    LET block == Last(out).content.usage
        last     == CHOOSE i \in Reports : \A j \in Reports : j <= i
        value(n) == ReportedValue(events[last].fields, n)
    IN IF Reports = {} THEN block.input = 0 /\ block.output = AtLeastZero(DeltaSum(events))
       ELSE /\ block.output = value(Output)
            /\ block.cached = value(CacheRead) + value(CacheWrite)
            /\ format = "claude" /\ block.cached <= value(Input) => block.input + block.cached = value(Input)
            /\ format # "claude" => block.input = value(Input)

(* executor.go:409-410: thinking deltas are kept "for the terminal         *)
(* response metadata", so the terminal event of a Responses stream carries *)
(* them.                                                                   *)
ThinkingIsInTheTerminalEvent ==
    phase = "done" /\ format = "openai-response" =>
        ToSet(Numbers("thinking")) \subseteq
            UNION {ToSet(output) : output \in ToSet(Last(out).content.outputs)}

=============================================================================
