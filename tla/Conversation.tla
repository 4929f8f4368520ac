---------------------------- MODULE Conversation -----------------------------
(***************************************************************************)
(* A conversation carried through the plugin.  Nothing is kept between two *)
(* requests: the caller sends its whole transcript, in the format of its   *)
(* API, each time, and turnInput of internal/provider/translate.go makes   *)
(* the history and the prompt of a Cursor turn of it.  What Cursor then    *)
(* says becomes part of the transcript in the form executor.go gives it.   *)
(* So the question is whether Cursor is told what was really said, after   *)
(* any number of such round trips.                                         *)
(*                                                                         *)
(* A text is the sequence of its pieces (contentText joins them by line    *)
(* breaks); a piece is a number that stands for its wording, apart from    *)
(* the white space around it.  The arguments of a call are a number too,   *)
(* with a form that says what there is for a conversion to lose.           *)
(***************************************************************************)
EXTENDS CallerTools, SequencesExt

CONSTANTS
    Formats,         \* formats callers use: "openai-chat", "openai-response", "claude"
    ToolLists,       \* the tools a caller may declare, as leaves (see CallerTools)
    CallIDs,         \* the IDs Cursor gives its calls
    ForeignCalls,    \* lists of calls an assistant made before the plugin came in
    MaxItems,        \* model bound: items in a transcript
    MaxSpeeches,     \* model bound: utterances in a conversation
    MaxRequestItems, \* MaxRequestBytes, in items of the request
    MaxMessageParts  \* MaxHistoryMessageBytes, in parts of a message

ASSUME ConversationAssumption ==
    /\ Formats \subseteq {"openai-chat", "openai-response", "claude"}
    /\ {MaxItems, MaxSpeeches, MaxRequestItems, MaxMessageParts} \subseteq Nat
    /\ \A leaves \in ToolLists :
          /\ leaves \in Seq(ToSet(leaves))
          /\ \A i \in 1..Len(leaves) : leaves[i].name \in Seq(ToSet(leaves[i].name))
    /\ \A foreign \in ForeignCalls :   \* a caller's API accepts safe IDs only
          /\ foreign \in Seq(ToSet(foreign))
          /\ \A i \in 1..Len(foreign) : Safe(foreign[i].id) /\ HeldFor(foreign[i].id, foreign[i].cursorID)

VARIABLES
    format,     \* the caller's format
    declared,   \* the tools it declares with every request
    system,     \* Claude's top-level system prompt, or <<>>
    transcript, \* the items it keeps
    waiting,    \* calls it has still to answer: its ID, Cursor's ID, custom or not
    spoken,     \* what was said, by whom and in which order (a history variable)
    input,      \* the TurnInput of the running turn
    phase,      \* whose turn it is: "caller" or "cursor"
    error       \* why the last request or turn failed

vars == <<format, declared, system, transcript, waiting, spoken, input, phase, error>>

-----------------------------------------------------------------------------
(* Wording. *)
White              == 0   \* white space only
SystemLeadIn       == 1
SystemAck          == 2
ContinuationPrompt == 3
Sealed             == 4   \* an encrypted task
NewWording         == 10 + Len(spoken)

(* Content is a list of parts; a "string" part is content given as a plain *)
(* string, the only kind whose text is not trimmed.                        *)
Str(piece)   == <<[type |-> "string", text |-> piece]>>
Text(piece)  == <<[type |-> "text", text |-> piece]>>
Task(piece)  == <<[type |-> "encrypted_content", text |-> piece]>>

(* contentText: parts without a text or content field say nothing. *)
Says(part) ==
    \/ part.type = "string"
    \/ part.type \in {"text", "tool_result"} /\ part.text # White

(* The members of a sequence at some positions, in their order. *)
Kept(s, positions) ==
    LET kept[n \in 0..Len(s)] ==
            IF n = 0 THEN <<>>
            ELSE IF n \in positions THEN Append(kept[n - 1], s[n]) ELSE kept[n - 1]
    IN  kept[Len(s)]

ContentText(content) ==
    LET saying == Kept(content, {i \in 1..Len(content) : Says(content[i])})
    IN  [i \in 1..Len(saying) |-> saying[i].text]

IsBlank(text) == \A i \in 1..Len(text) : text[i] = White

(* agentMessageText: a payload that does not look like plain text is       *)
(* opaque (mutated form: whatever it looks like, it is left out).          *)
OpaqueIgnored(content) == FALSE
IsOpaque(content) == \E i \in 1..Len(content) : content[i].text = Sealed
AgentMessageText(content) ==
    LET plain == Kept(content, {i \in 1..Len(content) : content[i].text \notin {Sealed, White}})
    IN  [i \in 1..Len(plain) |-> plain[i].text]

(* Items of a transcript; a message has a role, other items have none. *)
Message(role, content) == [type |-> "message", role |-> role, content |-> content, calls |-> <<>>]
AgentMessage(content)  == [type |-> "agent_message", role |-> "", content |-> content]

-----------------------------------------------------------------------------
(* Messages of Cursor's history, and their parts. *)
Part(text)         == [type |-> "text", text |-> text]
CallPart(id, t, a) == [type |-> "tool-call", id |-> id, tool |-> t, args |-> a]
ResultPart(id, r)  == [type |-> "tool-result", id |-> id, result |-> r]
Record(role, parts) == [role |-> role, parts |-> parts]

Texts(text) == IF text = <<>> THEN <<>> ELSE <<Part(text)>>

(* Arguments.  A function has JSON, which may hold an integer that a       *)
(* float64 cannot ("wide") or may not parse ("broken"); a custom tool has  *)
(* an input, which may have white space around it ("padded") or, from      *)
(* Cursor, fields beside it ("extra").                                     *)
Args(n, form) == [of |-> n, form |-> form]
Forms(custom) == IF custom THEN {"plain", "padded"} ELSE {"plain", "wide", "broken"}

(* parseArgumentValue: JSON text becomes a value, its numbers float64, and *)
(* text that is no JSON a field "_raw".                                    *)
ParseArgumentValue(args) ==
    CASE args.form = "wide"   -> [args EXCEPT !.form = "rounded"]
      [] args.form = "broken" -> [args EXCEPT !.form = "raw"]
      [] OTHER                -> args

(* stringValue trims the input of a custom call. *)
StringValue(args) == IF args.form = "padded" THEN [args EXCEPT !.form = "plain"] ELSE args

(* The calls of a chat message carry only the function's name. *)
ChatCalls(item) ==
    [i \in 1..Len(item.calls) |->
        CallPart(RestoreToolCallID(item.calls[i].id), item.calls[i].name,
                 ParseArgumentValue(item.calls[i].args))]

CallArguments(item) ==
    IF item.type = "custom_tool_call" THEN StringValue(item.args) ELSE ParseArgumentValue(item.args)

(* normalizeHistoryMessages, for one item.  The names it finds for results *)
(* are overwritten by cursorToolHistory and left out.                      *)
Records(item) ==
    CASE item.type = "agent_message" ->
            LET text == AgentMessageText(item.content)
            IN  IF text # <<>> /\ ~IsOpaque(item.content)
                THEN <<Record("user", <<Part(text)>>)>> ELSE <<>>
      [] item.type \in {"function_call", "custom_tool_call"} ->
            <<Record("assistant", <<CallPart(RestoreToolCallID(item.call_id),
                                             CallerToolName(item.namespace, item.name), CallArguments(item))>>)>>
      [] item.type \in {"function_call_output", "custom_tool_call_output"} ->
            <<Record("tool", <<ResultPart(RestoreToolCallID(item.call_id), ContentText(item.content))>>)>>
      [] item.role \in {"system", "developer"} ->
            LET text == ContentText(item.content)
            IN  IF text = <<>> THEN <<>>
                ELSE <<Record("user", <<Part(<<SystemLeadIn>> \o text)>>),
                       Record("assistant", <<Part(<<SystemAck>>)>>)>>
      [] item.role = "user" ->
            LET text == ContentText(item.content)
            IN  IF text = <<>> THEN <<>> ELSE <<Record("user", <<Part(text)>>)>>
      [] item.role = "assistant" ->
            LET parts == Texts(ContentText(item.content)) \o ChatCalls(item)
            IN  IF parts = <<>> THEN <<>> ELSE <<Record("assistant", parts)>>
      [] item.role = "tool" ->
            <<Record("tool", <<ResultPart(RestoreToolCallID(item.call_id), ContentText(item.content))>>)>>

(* A record joins the message before it, or begins one. *)
Joins(merged, record) == merged # <<>> /\ Last(merged).role = record.role
Added(merged, record, joining) ==
    IF joining THEN [merged EXCEPT ![Len(merged)].parts = @ \o record.parts]
    ELSE Append(merged, record)

(* Mutated form: each result stays a message of its own. *)
MergedResultsApart(records) ==
    LET merged[k \in 0..Len(records)] ==
            IF k = 0 THEN <<>>
            ELSE LET before == merged[k - 1]
                 IN  Added(before, records[k], records[k].role = "assistant" /\ Joins(before, records[k]))
    IN  merged[Len(records)]

(* mergeHistoryMessages: neighbours of the assistant, and neighbouring     *)
(* results, become one message.                                            *)
MergedHistory(records) ==
    LET merged[k \in 0..Len(records)] ==
            IF k = 0 THEN <<>>
            ELSE LET before == merged[k - 1]
                 IN  Added(before, records[k],
                           records[k].role \in {"assistant", "tool"} /\ Joins(before, records[k]))
    IN  merged[Len(records)]

(* cursorToolHistory: calls are replayed through Cursor's own wrapper. *)
Wrapped(part) ==
    IF part.type = "tool-call"
    THEN [type |-> "tool-call", id |-> part.id, tool |-> "CallDynamicTool",
          args |-> [toolName |-> part.tool, arguments |-> part.args]]
    ELSE part

CursorToolHistory(records) ==
    [i \in 1..Len(records) |->
        [records[i] EXCEPT !.parts = [j \in 1..Len(@) |-> Wrapped(@[j])]]]

History(items) ==
    CursorToolHistory(MergedHistory(FlattenSeq([i \in 1..Len(items) |-> Records(items[i])])))

(* The last message of a user or an agent, which may be what to answer. *)
ActiveIndex(items) ==
    SelectLastInSeq(items, LAMBDA m : m.type = "agent_message" \/ m.role = "user")

ActiveText(item) ==
    IF item.type = "agent_message" THEN AgentMessageText(item.content) ELSE ContentText(item.content)

(* It is the prompt if it is the last item and says something. *)
HasPrompt(items) ==
    LET i == ActiveIndex(items)
    IN  i > 0 /\ i = Len(items) /\ ~IsBlank(ActiveText(items[i]))

(* Everything the request says, Claude's system prompt first. *)
Items == (IF system = <<>> THEN <<>> ELSE <<Message("system", system)>>) \o transcript

(* parseTools, of each list of tools. *)
Parsed == [leaves \in ToolLists |->
              [error |-> ToolError(leaves), identities |-> ToolIdentities(leaves)]]

(* turnInput: the history and the prompt, if no reason to refuse is met. *)
TurnInput(items) ==
    LET active == ActiveIndex(items)
    IN  IF HasPrompt(items)
        THEN [history |-> History(SubSeq(items, 1, active - 1)), userText |-> ActiveText(items[active])]
        ELSE [history |-> History(items), userText |-> <<ContinuationPrompt>>]

RequestError(items, turn) ==
    LET active == ActiveIndex(items)
    IN  IF Len(items) > MaxRequestItems THEN "invalid_request"
        ELSE IF Parsed[declared].error # "none" THEN Parsed[declared].error
        ELSE IF active > 0 /\ items[active].type = "agent_message" /\ IsOpaque(items[active].content)
             THEN "unsupported_encrypted_agent_message"
        ELSE IF \E i \in 1..Len(turn.history) : Len(turn.history[i].parts) > MaxMessageParts
             THEN "message_too_large"
        ELSE "none"

NoInput == [history |-> <<>>, userText |-> <<>>]

-----------------------------------------------------------------------------
(* What is said, in Cursor's terms. *)
Speech(role, part) == [role |-> role, part |-> part]

Init ==
    /\ format \in Formats
    /\ declared \in ToolLists
    /\ format # "openai-response" => \A i \in 1..Len(declared) : declared[i].path = <<>>
    /\ system = <<>> /\ transcript = <<>> /\ waiting = {} /\ spoken = <<>>
    /\ input = NoInput /\ phase = "caller" /\ error = "none"

(* The caller adds items to its transcript. *)
Adds(items, speeches) ==
    /\ phase = "caller"
    /\ Len(transcript) + Len(items) <= MaxItems /\ Len(spoken) + Len(speeches) <= MaxSpeeches
    /\ transcript' = transcript \o items
    /\ spoken' = spoken \o speeches
    /\ UNCHANGED <<format, declared, input, phase, error>>

SystemSpeeches ==
    <<Speech("user", Part(<<SystemLeadIn, NewWording>>)), Speech("assistant", Part(<<SystemAck>>))>>

SystemSays(role) ==
    /\ transcript = <<>> /\ system = <<>>
    /\ IF format = "claude"
       THEN system' = Text(NewWording) /\ Adds(<<>>, SystemSpeeches)
       ELSE UNCHANGED system /\ Adds(<<Message(role, Str(NewWording))>>, SystemSpeeches)
    /\ UNCHANGED waiting

UserSays(content) ==
    /\ waiting = {}
    /\ Adds(<<Message("user", content)>>,
            IF IsBlank(ContentText(content)) THEN <<>> ELSE <<Speech("user", Part(ContentText(content)))>>)
    /\ UNCHANGED <<system, waiting>>

(* A Codex task; an encrypted one says nothing anybody here could read. *)
AgentSays(sealed) ==
    /\ format = "openai-response" /\ waiting = {}
    /\ LET heading == Text(NewWording)
       IN  IF sealed
           THEN Adds(<<AgentMessage(heading \o Task(Sealed))>>, <<>>)
           ELSE Adds(<<AgentMessage(heading \o Task(NewWording))>>,
                     <<Speech("user", Part(<<NewWording, NewWording>>))>>)
    /\ UNCHANGED <<system, waiting>>

-----------------------------------------------------------------------------
(* The assistant's turn in the caller's format.  A call has the ID the     *)
(* caller sees, the tool's identity and the arguments.                     *)
ChatItems(text, calls) ==
    <<[Message("assistant", text) EXCEPT !.calls =
        [i \in 1..Len(calls) |-> [id |-> calls[i].id, name |-> calls[i].tool.name, args |-> calls[i].args]]]>>

ClaudeItems(text, calls) ==
    <<Message("assistant", text \o
        [i \in 1..Len(calls) |-> [type |-> "tool_use", id |-> calls[i].id,
                                  name |-> calls[i].tool.name, args |-> calls[i].args]])>>

(* responseToolItem: of a custom call only the input. *)
ItemArguments(call) ==
    IF call.tool.custom /\ call.args.form = "extra" THEN [call.args EXCEPT !.form = "plain"] ELSE call.args

ResponseToolItem(call) ==
    [type |-> IF call.tool.custom THEN "custom_tool_call" ELSE "function_call", role |-> "",
     call_id |-> call.id, namespace |-> call.tool.namespace, name |-> call.tool.name,
     args |-> ItemArguments(call)]

(* In a stream the items of calls are complete before the message is, so a *)
(* caller that keeps items as they complete has them in that order.        *)
ResponseItems(text, calls, callsFirst) ==
    LET items   == [i \in 1..Len(calls) |-> ResponseToolItem(calls[i])]
        message == <<Message("assistant", text)>>
    IN  IF callsFirst THEN items \o message
        ELSE IF text = <<>> THEN items ELSE message \o items

AssistantItems(text, calls, callsFirst) ==
    CASE format = "openai-chat"     -> ChatItems(text, calls)
      [] format = "openai-response" -> ResponseItems(text, calls, callsFirst)
      [] format = "claude"          -> ClaudeItems(text, calls)

Waiting(call, cursorID) == [id |-> call.id, cursorID |-> cursorID, custom |-> call.tool.custom]

(* A turn that another provider, or an earlier version of the plugin, took *)
(* part in: several calls at once, with the IDs the caller was given then. *)
ForeignTurn(foreign, wire, form) ==
    LET tool  == Parsed[declared].identities[wire]
        calls == [i \in 1..Len(foreign) |->
                    [id |-> foreign[i].id, tool |-> tool, args |-> Args(NewWording + i, form)]]
    IN  /\ phase = "caller" /\ waiting = {}
        /\ form \in Forms(tool.custom)
        /\ \A i \in 1..Len(spoken) : spoken[i].role = "user" \/ spoken[i].part = Part(<<SystemAck>>)
        /\ Parsed[declared].error = "none"
        /\ Adds(AssistantItems(Text(NewWording), calls, FALSE),
                <<Speech("assistant", Part(<<NewWording>>))>> \o
                [i \in 1..Len(calls) |-> Speech("assistant", CallPart(foreign[i].cursorID, wire, calls[i].args))])
        /\ waiting' = {Waiting(calls[i], foreign[i].cursorID) : i \in 1..Len(calls)}
        /\ UNCHANGED system

(* The caller has run a tool and adds its result.  A Claude result may be  *)
(* given as text or as blocks.                                             *)
ResultItem(call, piece, blocks) ==
    CASE format = "openai-chat" ->
            [type |-> "message", role |-> "tool", call_id |-> call.id, content |-> Str(piece)]
      [] format = "openai-response" ->
            [type |-> IF call.custom THEN "custom_tool_call_output" ELSE "function_call_output",
             role |-> "", call_id |-> call.id, content |-> Str(piece)]
      [] format = "claude" ->
            Message("user", <<[type |-> IF blocks THEN "tool_result_blocks" ELSE "tool_result",
                               id |-> call.id, text |-> piece]>>)

ReturnResult(call, blocks) ==
    /\ blocks => format = "claude"
    /\ Adds(<<ResultItem(call, NewWording, blocks)>>,
            <<Speech("tool", ResultPart(call.cursorID, <<NewWording>>))>>)
    /\ waiting' = waiting \ {call}
    /\ UNCHANGED system

-----------------------------------------------------------------------------
(* parseExecutorRequest: the transcript is accepted, or refused as it is. *)
Request ==
    /\ phase = "caller" /\ waiting = {} /\ Items # <<>>
    /\ LET turn == TurnInput(Items)
           err  == RequestError(Items, turn)
       IN  /\ error' = err
           /\ IF err = "none" THEN phase' = "cursor" /\ input' = turn
                              ELSE UNCHANGED <<phase, input>>
    /\ UNCHANGED <<format, declared, system, transcript, waiting, spoken>>

(* The turn's outcome as the caller keeps it: text, one call, or both. *)
Answered(text, calls, cursorIDs, callsFirst, speeches) ==
    LET items == AssistantItems(text, calls, callsFirst)
    IN  /\ phase = "cursor"
        /\ Len(transcript) + Len(items) <= MaxItems /\ Len(spoken) + Len(speeches) <= MaxSpeeches
        /\ transcript' = transcript \o items
        /\ spoken' = spoken \o speeches
        /\ waiting' = {Waiting(calls[i], cursorIDs[i]) : i \in 1..Len(calls)}
        /\ phase' = "caller" /\ input' = NoInput
        /\ UNCHANGED <<format, declared, system, error>>

CursorSpeaks ==
    Answered(Text(NewWording), <<>>, <<>>, FALSE, <<Speech("assistant", Part(<<NewWording>>))>>)

(* handleServerMessage for a call of a declared tool, with or without text *)
(* before it; an ID that is empty is replaced for both sides.  Cursor's    *)
(* numbers are float64 already; a custom call has an input and maybe more. *)
CursorCalls(toolName, name, id, form, says, callsFirst) ==
    LET identities == Parsed[declared].identities
        wire     == ResolvedWire(toolName, name, identities)
        fresh    == Plain(NewWording + 1)
        cursorID == IF id.form = "blank" THEN fresh ELSE id
        call     == [id |-> NormalizeToolCallID(id, fresh), tool |-> identities[wire],
                     args |-> Args(NewWording + 1, form)]
    IN  /\ phase = "cursor" /\ wire # <<>>
        /\ form \in IF identities[wire].custom THEN {"plain", "padded", "extra"} ELSE {"plain"}
        /\ callsFirst => format = "openai-response"
        /\ Answered(IF says THEN Text(NewWording) ELSE <<>>, <<call>>, <<cursorID>>, callsFirst,
                    (IF says THEN <<Speech("assistant", Part(<<NewWording>>))>> ELSE <<>>)
                    \o <<Speech("assistant", CallPart(cursorID, wire, call.args))>>)

(* A call of an undeclared tool, or of a custom one without a string, ends *)
(* the turn with an error; the caller keeps its transcript.                *)
CallFails(toolName, name, stringInput) ==
    LET identities == Parsed[declared].identities
        wire == ResolvedWire(toolName, name, identities)
    IN  /\ phase = "cursor"
        /\ wire # <<>> => identities[wire].custom /\ ~stringInput
        /\ error' = IF wire = <<>> THEN "unknown_tool" ELSE "invalid_tool_input"
        /\ phase' = "caller" /\ input' = NoInput
        /\ UNCHANGED <<format, declared, system, transcript, waiting, spoken>>

-----------------------------------------------------------------------------
(* Cursor names a tool in tool_name, or in name with an undeclared one in  *)
(* tool_name, or it names none that was declared.                          *)
Wires       == DOMAIN Parsed[declared].identities
Undeclared  == <<"undeclared">>
CalledNames == (Wires \X {<<>>}) \cup ({<<>>, Undeclared} \X Wires) \cup {<<Undeclared, Undeclared>>}

UserContents == {Str(NewWording), Text(NewWording), Str(White), Text(White)}

CallerStep ==
    \/ \E role \in {"system", "developer"} : SystemSays(role)
    \/ \E content \in UserContents : UserSays(content)
    \/ \E sealed \in BOOLEAN : AgentSays(sealed)
    \/ \E foreign \in ForeignCalls, wire \in Wires, form \in Forms(TRUE) \cup Forms(FALSE) :
            ForeignTurn(foreign, wire, form)
    \/ \E call \in waiting, blocks \in BOOLEAN : ReturnResult(call, blocks)
    \/ Request

CursorStep ==
    \/ CursorSpeaks
    \/ /\ phase = "cursor"
       /\ \E names \in CalledNames :
            \/ \E id \in CallIDs, form \in {"plain", "padded", "extra"}, says, callsFirst \in BOOLEAN :
                    CursorCalls(names[1], names[2], id, form, says, callsFirst)
            \/ \E stringInput \in BOOLEAN : CallFails(names[1], names[2], stringInput)

Next == CallerStep \/ CursorStep

Spec == Init /\ [][Next]_vars

-----------------------------------------------------------------------------
(* Type invariant. *)
TypeOK ==
    /\ format \in Formats /\ declared \in ToolLists
    /\ phase \in {"caller", "cursor"}
    /\ error \in {"none", "invalid_request", "invalid_tool", "duplicate_tool", "message_too_large",
                  "unsupported_encrypted_agent_message", "unknown_tool", "invalid_tool_input"}
    /\ \A call \in waiting : Safe(call.id) /\ call.custom \in BOOLEAN
    /\ \A i \in 1..Len(spoken) : spoken[i].role \in {"user", "assistant", "tool"}
    /\ \A i \in 1..Len(input.history) : input.history[i].parts # <<>>
    /\ phase = "caller" => input = NoInput

(* What Cursor is told by the running turn, as speeches. *)
Unwrapped(part) ==
    IF part.type = "tool-call" THEN CallPart(part.id, part.args.toolName, part.args.arguments) ELSE part

Told ==
    LET Speeches(record) == [j \in 1..Len(record.parts) |-> Speech(record.role, Unwrapped(record.parts[j]))]
    IN  FlattenSeq([i \in 1..Len(input.history) |-> Speeches(input.history[i])])
        \o (IF input.userText = <<ContinuationPrompt>> THEN <<>> ELSE <<Speech("user", Part(input.userText))>>)

SaysSomething(speech) == speech.part.type = "text" => ~IsBlank(speech.part.text)
OfATool(speech)       == speech.part.type \in {"tool-call", "tool-result"}
IsCall(speech)        == speech.part.type = "tool-call"
IsRemark(speech)      == speech.part.type = "text" /\ speech.role = "assistant"

Audible(speeches)      == Kept(speeches, {i \in 1..Len(speeches) : SaysSomething(speeches[i])})
ButCalls(speeches)     == Kept(speeches, {i \in 1..Len(speeches) : ~IsCall(speeches[i])})
ButRemarks(speeches)   == Kept(speeches, {i \in 1..Len(speeches) : ~IsRemark(speeches[i])})
Instructions(speeches) ==
    Kept(speeches, {i \in 1..Len(speeches) : speeches[i].role = "user" /\ SaysSomething(speeches[i])})

NoToolsInClaude == format = "claude" => \A i \in 1..Len(spoken) : ~IsCall(spoken[i])

(* What the formats cannot carry of the arguments of a call: in JSON the   *)
(* digits beyond a float64, and, when it does not parse, its being the     *)
(* arguments rather than a "_raw" field of them; in a Responses item the   *)
(* white space around a custom tool's input and the fields beside it.      *)
Carried(args) ==
    CASE args.form = "wide"   -> [args EXCEPT !.form = "rounded"]
      [] args.form = "broken" -> [args EXCEPT !.form = "raw"]
      [] args.form \in {"padded", "extra"} /\ format = "openai-response" -> [args EXCEPT !.form = "plain"]
      [] OTHER -> args

Legible(speech) ==
    IF IsCall(speech) THEN [speech EXCEPT !.part.args = Carried(@)] ELSE speech
Legibly(speeches) == [i \in 1..Len(speeches) |-> Legible(speeches[i])]

(* Cursor is told what was said, all of it, once and in order: texts, the  *)
(* calls with its own IDs and tool names and, but for the four losses that *)
(* Carried names, its arguments, and their results.  Only remarks and      *)
(* calls of one assistant message may change places.  (turnInput,          *)
(* restoreToolCallID, historyToolName; Claude's tool calls are another     *)
(* matter, see ClaudeToolsAreRemembered.)                                  *)
HistoryIsFaithful ==
    phase = "cursor" /\ NoToolsInClaude =>
        /\ ButCalls(Audible(Told)) = ButCalls(Legibly(spoken))
        /\ ButRemarks(Audible(Told)) = ButRemarks(Legibly(spoken))

(* The results of calls follow the message that made the calls, all in one *)
(* message, as mergeHistoryMessages promises models that insist on it.     *)
ResultsFollowCalls ==
    LET history == input.history
        IDs(record, type) == {record.parts[j].id : j \in {k \in 1..Len(record.parts) : record.parts[k].type = type}}
    IN  \A i \in 1..Len(history) :
            /\ history[i].role = "tool" =>
                  /\ i > 1
                  /\ IDs(history[i], "tool-result") = IDs(history[i - 1], "tool-call")
            /\ IDs(history[i], "tool-call") # {} =>
                  i < Len(history) /\ history[i + 1].role = "tool"

(* Cursor is never set to continue some older task: the newest instruction *)
(* of the caller, a user message or an agent's task, sealed or not, is the *)
(* newest it is told, unless it is white space (turnInput's refusal of     *)
(* encrypted tasks).                                                       *)
NewestInstructionIsTold ==
    phase = "cursor" /\ NoToolsInClaude =>
        LET asking == {i \in 1..Len(transcript) :
                          transcript[i].type = "agent_message" \/ transcript[i].role = "user"}
            told   == Instructions(Told)
        IN  \A i \in asking :
                LET content == transcript[i].content
                    newest  == [j \in 1..Len(content) |-> content[j].text]
                IN  (\A k \in asking : k <= i) /\ ~IsBlank(newest) =>
                        told # <<>> /\ Last(told).part.text = newest

(* A call the caller receives names one of its tools, and no other tool it *)
(* declared could have been meant: flattening namespaces is unambiguous    *)
(* for every request that was accepted (parseTools, resolveToolIdentity).  *)
CallsNameOneTool ==
    \A i \in 1..Len(transcript) :
        LET item  == transcript[i]
            uses  == {k \in 1..Len(item.content) : item.content[k].type = "tool_use"}
            named == CASE item.type \in {"function_call", "custom_tool_call"} ->
                            {[name |-> item.name, namespace |-> item.namespace]}
                       [] format = "openai-chat" /\ item.role = "assistant" ->
                            {[name |-> item.calls[k].name, namespace |-> <<>>] : k \in 1..Len(item.calls)}
                       [] format = "claude" /\ item.role = "assistant" ->
                            {[name |-> item.content[k].name, namespace |-> <<>>] : k \in uses}
                       [] OTHER -> {}
            meant(call) == {j \in 1..Len(declared) : Forwarded(declared[j])
                                /\ WireName(declared[j]) = CallerToolName(call.namespace, call.name)}
        IN  \A call \in named : \E j \in 1..Len(declared) :
                /\ meant(call) = {j}
                /\ declared[j].name = call.name /\ Namespace(declared[j]) = call.namespace

(* README: "OpenAI Responses, Chat Completions and Anthropic Messages      *)
(* inputs; caller-owned tool calls": in a Claude conversation too, Cursor  *)
(* is told of the calls it made and of their results.                      *)
ClaudeToolsAreRemembered ==
    phase = "cursor" /\ format = "claude" => SelectSeq(Told, OfATool) = SelectSeq(spoken, OfATool)

(* TestResponsesToolHistoryKeepsNamespaceAndRawInput (tools_test.go:173):  *)
(* the input of a custom call reaches Cursor as the transcript holds it.   *)
RawInputIsKept ==
    phase = "cursor" => \A i \in 1..Len(transcript) :
        transcript[i].type = "custom_tool_call" =>
            \E speech \in ToSet(Told) : IsCall(speech) /\ speech.part.args = transcript[i].args

(* agentMessageText: "Opaque values are rejected instead of silently       *)
(* dropping the task": no accepted transcript holds an encrypted task.     *)
OpaqueTasksAreRejected ==
    phase = "cursor" => \A i \in 1..Len(transcript) :
        transcript[i].type = "agent_message" => ~IsOpaque(transcript[i].content)

=============================================================================
