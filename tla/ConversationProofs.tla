-------------------------- MODULE ConversationProofs ---------------------------
(***************************************************************************)
(* What is promised for every list of tools, every ID of a call and every  *)
(* conversation: the names of the caller's tools on the wire can be told   *)
(* apart, the tool found under a name is the one declared, an ID comes     *)
(* back as it was, and so each call the caller is given is a call of one   *)
(* of its tools; results follow their calls; and Cursor is told all that   *)
(* was said, in order, and last the newest instruction.                    *)
(***************************************************************************)
EXTENDS Conversation, TLAPS, WellFoundedInduction

(* An accepted list of tools has no leaf parseTools refuses. *)
LEMMA AcceptedTools ==
    ASSUME NEW leaves, ToolError(leaves) = "none"
    PROVE  \A i \in 1..Len(leaves) : ~NamespaceUnnamed(leaves[i]) /\ ~Collides(leaves, i)
  BY DEF ToolError

(* Two tools of an accepted request never share a name on the wire, over   *)
(* any nesting of namespaces and any names that hold "__" (parseTools).    *)
THEOREM WireNamesAreUnique ==
    ASSUME NEW leaves, Len(leaves) \in Nat, ToolError(leaves) = "none",
           NEW i \in 1..Len(leaves), NEW j \in 1..Len(leaves),
           Forwarded(leaves[i]), Forwarded(leaves[j]), WireName(leaves[i]) = WireName(leaves[j])
    PROVE  i = j
<1>1. ASSUME NEW k \in 1..Len(leaves), NEW l \in 1..Len(leaves), k < l,
             Forwarded(leaves[k]), Forwarded(leaves[l]), WireName(leaves[k]) = WireName(leaves[l])
      PROVE  FALSE
  <2>1. k \in 1..(l - 1)
    BY <1>1
  <2>2. Collides(leaves, l)
    BY <1>1, <2>1 DEF Collides
  <2> QED
    BY <2>2, AcceptedTools
<1>2. i < j \/ j < i \/ i = j
  OBVIOUS
<1> QED
  BY <1>1, <1>2

(* Under the wire name of a forwarded tool, the identity that is found is  *)
(* that tool's: its own name, its own namespace, and whether it is custom  *)
(* (parseTools' identities, looked up by resolveToolIdentity).             *)
THEOREM IdentityIsTheTools ==
    ASSUME NEW leaves, Len(leaves) \in Nat, ToolError(leaves) = "none",
           NEW i \in 1..Len(leaves), Forwarded(leaves[i])
    PROVE  /\ WireName(leaves[i]) \in DOMAIN ToolIdentities(leaves)
           /\ ToolIdentities(leaves)[WireName(leaves[i])] = ToolIdentity(leaves[i])
<1> DEFINE forwarded == {k \in 1..Len(leaves) : Forwarded(leaves[k])}
           wire      == WireName(leaves[i])
           Holds(k)  == /\ WireName(leaves[k]) = wire
                        /\ \A j \in forwarded : WireName(leaves[j]) = wire => j <= k
<1>1. \A k \in forwarded : WireName(leaves[k]) = wire => k = i
  BY WireNamesAreUnique
<1>2. i \in forwarded /\ Holds(i)
  BY <1>1
<1>3. (CHOOSE k \in forwarded : Holds(k)) = i
  BY <1>1, <1>2
<1>4. wire \in {WireName(leaves[k]) : k \in forwarded}
  BY <1>2
<1> QED
  BY <1>3, <1>4 DEF ToolIdentities

-----------------------------------------------------------------------------
(* Whatever ID Cursor gave a call, unless it gave none, the ID the caller  *)
(* sends back is turned into it again (normalizeToolCallID followed by     *)
(* restoreToolCallID).                                                     *)
THEOREM CallIDsComeBack ==
    ASSUME NEW id, NEW fresh, id.form # "blank"
    PROVE  RestoreToolCallID(NormalizeToolCallID(id, fresh)) = id
<1>1. CASE Safe(id) /\ id.form \notin {"prefixed", "legacy"}
  BY <1>1 DEF NormalizeToolCallID, RestoreToolCallID
<1>2. CASE ~(Safe(id) /\ id.form \notin {"prefixed", "legacy"})
  <2>1. NormalizeToolCallID(id, fresh) = Encoded(id)
    BY <1>2 DEF NormalizeToolCallID
  <2>2. Encoded(id).form = "prefixed" /\ Encoded(id).of # <<>> /\ Encoded(id).of[1] = id
    BY DEF Encoded
  <2> QED
    BY <2>1, <2>2 DEF RestoreToolCallID
<1> QED
  BY <1>1, <1>2

(* And the caller is only shown IDs its API accepts.                       *)
THEOREM CallIDsAreSafe ==
    ASSUME NEW id, NEW fresh, Safe(fresh)
    PROVE  Safe(NormalizeToolCallID(id, fresh))
  BY DEF NormalizeToolCallID, Safe, Encoded

-----------------------------------------------------------------------------
(* Sequences of items, whatever the items are.                             *)
IsSeq(s) == \E S : s \in Seq(S)

LEMMA Joined ==
    ASSUME NEW s, NEW t, IsSeq(s), IsSeq(t)
    PROVE  /\ IsSeq(s \o t) /\ Len(s \o t) = Len(s) + Len(t)
           /\ Len(s) \in Nat /\ Len(t) \in Nat
           /\ \A i \in 1..Len(s) : (s \o t)[i] = s[i]
           /\ \A i \in 1..Len(t) : (s \o t)[Len(s) + i] = t[i]
           /\ \A i \in 1..Len(s \o t) : i \in 1..Len(s) \/ \E k \in 1..Len(t) : i = Len(s) + k
<1>1. PICK S : s \in Seq(S)
  BY DEF IsSeq
<1>2. PICK T : t \in Seq(T)
  BY DEF IsSeq
<1>3. s \in Seq(S \cup T) /\ t \in Seq(S \cup T)
  BY <1>1, <1>2
<1>4. s \o t \in Seq(S \cup T) /\ Len(s \o t) = Len(s) + Len(t) /\ Len(s) \in Nat /\ Len(t) \in Nat
  BY <1>3
<1>5. \A i \in 1..Len(s) : (s \o t)[i] = s[i]
  BY <1>3
<1>6. \A i \in 1..Len(t) : (s \o t)[Len(s) + i] = t[i]
  BY <1>3
<1>7. ASSUME NEW i \in 1..Len(s \o t), i \notin 1..Len(s)
      PROVE  \E k \in 1..Len(t) : i = Len(s) + k
  <2>1. i - Len(s) \in 1..Len(t) /\ i = Len(s) + (i - Len(s))
    BY <1>4, <1>7
  <2> QED
    BY <2>1
<1> QED
  BY <1>4, <1>5, <1>6, <1>7 DEF IsSeq

LEMMA Single ==
    ASSUME NEW x
    PROVE  IsSeq(<<x>>) /\ Len(<<x>>) = 1 /\ <<x>>[1] = x
<1>1. <<x>> \in Seq({x})
  OBVIOUS
<1> QED
  BY <1>1 DEF IsSeq

LEMMA Nothing == IsSeq(<<>>) /\ Len(<<>>) = 0
<1>1. <<>> \in Seq({})
  OBVIOUS
<1> QED
  BY <1>1 DEF IsSeq

-----------------------------------------------------------------------------
(* The calls an item holds, by the names the caller sees.                  *)
Uses(item) == {k \in 1..Len(item.content) : item.content[k].type = "tool_use"}

Named(item) ==
    CASE item.type \in {"function_call", "custom_tool_call"} ->
            {[name |-> item.name, namespace |-> item.namespace]}
      [] format = "openai-chat" /\ item.role = "assistant" ->
            {[name |-> item.calls[k].name, namespace |-> <<>>] : k \in 1..Len(item.calls)}
      [] format = "claude" /\ item.role = "assistant" ->
            {[name |-> item.content[k].name, namespace |-> <<>>] : k \in Uses(item)}
      [] OTHER -> {}

(* A tool of the request that runs the turn: parseTools has accepted the   *)
(* list, and the tool was forwarded.                                       *)
IsDeclared(name, namespace) ==
    /\ ToolError(declared) = "none"
    /\ \E j \in 1..Len(declared) :
          Forwarded(declared[j]) /\ declared[j].name = name /\ Namespace(declared[j]) = namespace

ItemShape(item) ==
    \/ /\ item.type = "message"
       /\ item.role \in {"system", "developer", "user", "assistant", "tool"}
       /\ item.role = "assistant" => IsSeq(item.calls)
    \/ /\ item.type \in {"agent_message", "function_call", "custom_tool_call",
                         "function_call_output", "custom_tool_call_output"}
       /\ item.role = ""

ProperItem(item) ==
    /\ ItemShape(item)
    /\ \A call \in Named(item) : IsDeclared(call.name, call.namespace)

ProperItems(items) == \A i \in 1..Len(items) : ProperItem(items[i])

CallsInv ==
    /\ format \in Formats /\ declared \in ToolLists
    /\ format # "openai-response" => \A j \in 1..Len(declared) : declared[j].path = <<>>
    /\ phase = "cursor" => ToolError(declared) = "none"
    /\ IsSeq(transcript) /\ ProperItems(transcript)

LEMMA ToolListsAreLists ==
    ASSUME CallsInv
    PROVE  declared \in Seq(ToSet(declared)) /\ Len(declared) \in Nat
  BY ConversationAssumption DEF CallsInv

(* A tool that is in no namespace has an empty one. *)
LEMMA NoNamespace ==
    ASSUME NEW leaf, leaf.path = <<>>
    PROVE  Namespace(leaf) = <<>>
<1> DEFINE Body(join) == [k \in 0..Len(leaf.path) |->
                            IF k = 0 THEN <<>> ELSE CallerToolName(join[k - 1], leaf.path[k])]
           c == CHOOSE join : join = Body(join)
<1>1. Len(leaf.path) = 0 /\ 0..0 = {0}
  OBVIOUS
<1>2. [k \in 0..0 |-> <<>>] = Body([k \in 0..0 |-> <<>>])
  BY <1>1
<1>3. c = Body(c)
  BY <1>2
<1>4. c[0] = <<>>
  BY <1>1, <1>3
<1> QED
  BY <1>1, <1>4 DEF Namespace

(* The identity behind a wire name is that of a declared tool.             *)
LEMMA IdentityIsDeclared ==
    ASSUME CallsInv, ToolError(declared) = "none", NEW wire \in DOMAIN Parsed[declared].identities
    PROVE  LET tool == Parsed[declared].identities[wire]
           IN  /\ IsDeclared(tool.name, tool.namespace) /\ tool.custom \in BOOLEAN
               /\ format # "openai-response" => tool.namespace = <<>>
<1>1. Parsed[declared].identities = ToolIdentities(declared)
  BY DEF CallsInv, Parsed
<1>2. PICK j \in 1..Len(declared) : Forwarded(declared[j]) /\ wire = WireName(declared[j])
  BY <1>1 DEF ToolIdentities
<1>3. ToolIdentities(declared)[wire] = ToolIdentity(declared[j])
  BY <1>2, ToolListsAreLists, IdentityIsTheTools
<1> DEFINE tool == ToolIdentity(declared[j])
<1>4. tool.name = declared[j].name /\ tool.namespace = Namespace(declared[j]) /\ tool.custom \in BOOLEAN
  BY DEF ToolIdentity
<1>5. format # "openai-response" => Namespace(declared[j]) = <<>>
  BY NoNamespace DEF CallsInv
<1> HIDE DEF tool
<1>6. IsDeclared(tool.name, tool.namespace)
  BY <1>2, <1>4 DEF IsDeclared
<1> QED
  BY <1>1, <1>3, <1>4, <1>5, <1>6 DEF tool

LEMMA JoinedNames ==
    ASSUME NEW s, NEW t, IsSeq(s), IsSeq(t), ProperItems(s), ProperItems(t)
    PROVE  IsSeq(s \o t) /\ ProperItems(s \o t)
<1>1. IsSeq(s \o t)
  BY Joined
<1>2. ASSUME NEW i \in 1..Len(s \o t)
      PROVE  ProperItem((s \o t)[i])
  <2>1. CASE i \in 1..Len(s)
    <3>1. (s \o t)[i] = s[i]
      BY <2>1, Joined
    <3> QED
      BY <2>1, <3>1 DEF ProperItems
  <2>2. CASE i \notin 1..Len(s)
    <3>1. PICK k \in 1..Len(t) : i = Len(s) + k
      BY <2>2, Joined
    <3>2. (s \o t)[i] = t[k]
      BY <3>1, Joined
    <3> QED
      BY <3>2 DEF ProperItems
  <2> QED
    BY <2>1, <2>2
<1> QED
  BY <1>1, <1>2 DEF ProperItems

LEMMA SingleNames ==
    ASSUME NEW item, ProperItem(item)
    PROVE  IsSeq(<<item>>) /\ ProperItems(<<item>>)
<1>1. \A i \in 1..Len(<<item>>) : <<item>>[i] = item
  OBVIOUS
<1> QED
  BY <1>1, Single DEF ProperItems

LEMMA NoNames == IsSeq(<<>>) /\ ProperItems(<<>>)
  BY Nothing DEF ProperItems

(* What the caller adds of its own names no tool.                          *)
LEMMA MessageNames ==
    ASSUME NEW role \in {"system", "developer", "user", "tool"}, NEW content
    PROVE  IsSeq(<<Message(role, content)>>) /\ ProperItems(<<Message(role, content)>>)
<1>1. Message(role, content).type = "message" /\ Message(role, content).role = role
  BY DEF Message
<1> DEFINE item == Message(role, content)
<1> HIDE DEF item
<1>2. Named(item) = {}
  BY <1>1 DEF Named, item
<1>3. ProperItem(item)
  BY <1>1, <1>2 DEF ProperItem, ItemShape, item
<1> QED
  BY <1>3, SingleNames DEF item

LEMMA AgentMessageNames ==
    ASSUME NEW content
    PROVE  IsSeq(<<AgentMessage(content)>>) /\ ProperItems(<<AgentMessage(content)>>)
<1>1. AgentMessage(content).type = "agent_message" /\ AgentMessage(content).role = ""
  BY DEF AgentMessage
<1>2. Named(AgentMessage(content)) = {}
  BY <1>1 DEF Named
<1>3. ProperItem(AgentMessage(content))
  BY <1>1, <1>2 DEF ProperItem, ItemShape
<1> QED
  BY <1>3, SingleNames

LEMMA ResultNames ==
    ASSUME format \in Formats, NEW call, NEW piece, NEW blocks
    PROVE  IsSeq(<<ResultItem(call, piece, blocks)>>) /\ ProperItems(<<ResultItem(call, piece, blocks)>>)
<1> DEFINE item == ResultItem(call, piece, blocks)
<1>1. \/ item.type = "message" /\ item.role \in {"tool", "user"}
      \/ item.type \in {"custom_tool_call_output", "function_call_output"} /\ item.role = ""
  <2>1. format \in {"openai-chat", "openai-response", "claude"}
    BY ConversationAssumption
  <2> QED
    BY <2>1 DEF ResultItem, Message
<1> HIDE DEF item
<1>2. Named(item) = {}
  BY <1>1 DEF Named
<1>3. ProperItem(item)
  BY <1>1, <1>2 DEF ProperItem, ItemShape
<1> QED
  BY <1>3, SingleNames DEF item

(* What an assistant's turn adds names the tools it calls.                 *)
IsCalled(tool) ==
    IsDeclared(tool.name, tool.namespace) /\ (format # "openai-response" => tool.namespace = <<>>)

(* A text calls nothing. *)
Callless(text) == IsSeq(text) /\ \A i \in 1..Len(text) : text[i].type # "tool_use"

LEMMA TextsCallNothing == Callless(<<>>) /\ \A piece : Callless(Text(piece))
<1>1. Callless(<<>>)
  BY Nothing DEF Callless
<1>2. ASSUME NEW piece
      PROVE  Callless(Text(piece))
  <2> DEFINE part == [type |-> "text", text |-> piece]
  <2>1. part.type = "text" /\ Text(piece) = <<part>>
    BY DEF Text
  <2> HIDE DEF part
  <2>2. \A i \in 1..Len(<<part>>) : <<part>>[i] = part
    OBVIOUS
  <2> QED
    BY <2>1, <2>2, Single DEF Callless
<1> QED
  BY <1>1, <1>2

LEMMA AssistantNames ==
    ASSUME format \in Formats, NEW text, Callless(text), NEW calls, IsSeq(calls), NEW callsFirst \in BOOLEAN,
           \A i \in 1..Len(calls) : IsCalled(calls[i].tool)
    PROVE  /\ IsSeq(AssistantItems(text, calls, callsFirst))
           /\ ProperItems(AssistantItems(text, calls, callsFirst))
<1>0. format \in {"openai-chat", "openai-response", "claude"}
  BY ConversationAssumption
<1>1. CASE format = "openai-chat"
  <2> DEFINE said == [i \in 1..Len(calls) |-> [id |-> calls[i].id, name |-> calls[i].tool.name, args |-> calls[i].args]]
             item == [Message("assistant", text) EXCEPT !.calls = said]
  <2>1. item.type = "message" /\ item.role = "assistant" /\ item.calls = said
    BY DEF Message
  <2>2. Len(said) = Len(calls) /\ Len(calls) \in Nat /\ IsSeq(said)
    <3>1. Len(calls) \in Nat
      BY DEF IsSeq
    <3>2. Len(said) = Len(calls) /\ said \in Seq({said[i] : i \in 1..Len(calls)})
      BY <3>1
    <3> HIDE DEF said
    <3>3. IsSeq(said)
      BY <3>2 DEF IsSeq
    <3> QED
      BY <3>1, <3>2, <3>3
  <2>3. \A i \in 1..Len(calls) : said[i].name = calls[i].tool.name
    OBVIOUS
  <2> HIDE DEF item, said
  <2>4. \A call \in Named(item) : IsDeclared(call.name, call.namespace)
    <3>1. ASSUME NEW call \in Named(item)
          PROVE  IsDeclared(call.name, call.namespace)
      <4>1. PICK k \in 1..Len(calls) : call = [name |-> said[k].name, namespace |-> <<>>]
        BY <1>1, <2>1, <2>2, <3>1 DEF Named
      <4>2. call.name = calls[k].tool.name /\ call.namespace = calls[k].tool.namespace
        BY <1>1, <2>3, <4>1 DEF IsCalled
      <4> QED
        BY <4>2 DEF IsCalled
    <3> QED
      BY <3>1
  <2>5. AssistantItems(text, calls, callsFirst) = <<item>>
    BY <1>1 DEF AssistantItems, ChatItems, item, said
  <2>6. ProperItem(item)
    BY <2>1, <2>2, <2>4 DEF ProperItem, ItemShape
  <2> QED
    BY <2>5, <2>6, SingleNames
<1>2. CASE format = "claude"
  <2> DEFINE used    == [i \in 1..Len(calls) |-> [type |-> "tool_use", id |-> calls[i].id,
                                                  name |-> calls[i].tool.name, args |-> calls[i].args]]
             content == text \o used
             item    == Message("assistant", content)
  <2>1. AssistantItems(text, calls, callsFirst) = <<item>>
    BY <1>2 DEF AssistantItems, ClaudeItems
  <2>2. IsSeq(used) /\ Len(used) = Len(calls) /\ \A k \in 1..Len(calls) : used[k].name = calls[k].tool.name
    <3>1. Len(calls) \in Nat
      BY DEF IsSeq
    <3>2. Len(used) = Len(calls) /\ used \in Seq({used[i] : i \in 1..Len(calls)})
          /\ \A k \in 1..Len(calls) : used[k].name = calls[k].tool.name
      BY <3>1
    <3> HIDE DEF used
    <3> QED
      BY <3>2 DEF IsSeq
  <2> HIDE DEF used
  <2>3. ASSUME NEW i \in 1..Len(content), content[i].type = "tool_use"
        PROVE  \E k \in 1..Len(calls) : content[i].name = calls[k].tool.name
    <3>1. i \notin 1..Len(text)
      <4>1. i \in 1..Len(text) => content[i] = text[i]
        BY <2>2, Joined DEF Callless
      <4> HIDE DEF content
      <4> QED
        BY <2>3, <4>1 DEF Callless
    <3>2. PICK k \in 1..Len(used) : i = Len(text) + k
      BY <2>2, <3>1, Joined DEF Callless
    <3>3. content[i] = used[k]
      BY <2>2, <3>2, Joined DEF Callless
    <3> HIDE DEF content
    <3> QED
      BY <2>2, <3>2, <3>3
  <2>4. item.type = "message" /\ item.role = "assistant" /\ item.calls = <<>> /\ item.content = content
    BY DEF Message
  <2> HIDE DEF item, content
  <2>5. ASSUME NEW call \in Named(item)
        PROVE  IsDeclared(call.name, call.namespace)
    <3>1. PICK i \in Uses(item) : call = [name |-> item.content[i].name, namespace |-> <<>>]
      BY <1>2, <2>4, <2>5 DEF Named
    <3>2. PICK k \in 1..Len(calls) : content[i].name = calls[k].tool.name
      BY <2>3, <2>4, <3>1 DEF Uses
    <3>3. call.name = calls[k].tool.name /\ call.namespace = calls[k].tool.namespace
      BY <1>2, <2>4, <3>1, <3>2 DEF IsCalled
    <3> QED
      BY <3>3 DEF IsCalled
  <2>6. ProperItem(item)
    BY <2>4, <2>5, Nothing DEF ProperItem, ItemShape
  <2> QED
    BY <2>1, <2>6, SingleNames
<1>3. CASE format = "openai-response"
  <2> DEFINE items == [i \in 1..Len(calls) |-> ResponseToolItem(calls[i])]
             message == Message("assistant", text)
  <2>1. Len(items) = Len(calls) /\ Len(calls) \in Nat /\ IsSeq(items)
    <3>1. Len(calls) \in Nat
      BY DEF IsSeq
    <3>2. items \in Seq({ResponseToolItem(calls[i]) : i \in 1..Len(calls)})
      BY <3>1
    <3>3. Len(items) = Len(calls)
      BY <3>1
    <3> HIDE DEF items
    <3>4. IsSeq(items)
      BY <3>2 DEF IsSeq
    <3> QED
      BY <3>1, <3>3, <3>4
  <2>2. ProperItems(items)
    <3>1. ASSUME NEW i \in 1..Len(calls)
          PROVE  ProperItem(ResponseToolItem(calls[i]))
      <4> DEFINE item == ResponseToolItem(calls[i])
      <4>1. /\ item.type \in {"custom_tool_call", "function_call"} /\ item.role = ""
            /\ item.name = calls[i].tool.name /\ item.namespace = calls[i].tool.namespace
        BY DEF ResponseToolItem
      <4> HIDE DEF item
      <4>2. Named(item) = {[name |-> item.name, namespace |-> item.namespace]}
        BY <4>1 DEF Named
      <4>3. IsDeclared(item.name, item.namespace)
        BY <4>1 DEF IsCalled
      <4>4. \A call \in Named(item) : IsDeclared(call.name, call.namespace)
        BY <4>2, <4>3
      <4>5. ItemShape(item)
        BY <4>1 DEF ItemShape
      <4>6. ProperItem(item)
        BY <4>4, <4>5 DEF ProperItem
      <4> QED
        BY <4>6 DEF item
    <3>2. \A i \in 1..Len(calls) : items[i] = ResponseToolItem(calls[i])
      OBVIOUS
    <3> QED
      BY <2>1, <3>1, <3>2 DEF ProperItems
  <2>3. IsSeq(<<message>>) /\ ProperItems(<<message>>)
    <3>1. message.type = "message" /\ message.role = "assistant" /\ message.calls = <<>>
      BY DEF Message
    <3> HIDE DEF message
    <3>2. Named(message) = {}
      BY <1>3, <3>1 DEF Named
    <3>3. ProperItem(message)
      BY <3>1, <3>2, Nothing DEF ProperItem, ItemShape
    <3> QED
      BY <3>3, SingleNames
  <2> HIDE DEF items, message
  <2>4. \/ AssistantItems(text, calls, callsFirst) = items \o <<message>>
        \/ AssistantItems(text, calls, callsFirst) = items
        \/ AssistantItems(text, calls, callsFirst) = <<message>> \o items
    BY <1>3 DEF AssistantItems, ResponseItems, items, message
  <2> QED
    BY <2>1, <2>2, <2>3, <2>4, JoinedNames
<1> QED
  BY <1>0, <1>1, <1>2, <1>3

-----------------------------------------------------------------------------
LEMMA CallsInit == Init => CallsInv
<1> SUFFICES ASSUME Init PROVE CallsInv
  OBVIOUS
<1>1. transcript = <<>> /\ phase = "caller"
  BY DEF Init
<1> QED
  BY <1>1, NoNames DEF Init, CallsInv

(* What a step adds to the transcript is all there is to see to.           *)
LEMMA CallsKept ==
    ASSUME CallsInv, format' = format, declared' = declared,
           phase' = "cursor" => ToolError(declared) = "none",
           NEW items, IsSeq(items), ProperItems(items), transcript' = transcript \o items
    PROVE  CallsInv'
<1>1. IsSeq(transcript \o items) /\ ProperItems(transcript \o items)
  BY JoinedNames DEF CallsInv
<1>2. ProperItems(transcript)'
  BY <1>1 DEF ProperItems, ProperItem, IsDeclared, Named
<1> QED
  BY <1>1, <1>2 DEF CallsInv

LEMMA NothingAdded ==
    ASSUME CallsInv, format' = format, declared' = declared, transcript' = transcript,
           phase' = "cursor" => ToolError(declared) = "none"
    PROVE  CallsInv'
  BY DEF CallsInv, ProperItems, ProperItem, IsDeclared, Named

LEMMA CallsAdds ==
    ASSUME CallsInv, NEW items, NEW speeches, Adds(items, speeches), IsSeq(items), ProperItems(items)
    PROVE  CallsInv'
<1>1. format' = format /\ declared' = declared /\ phase' = "caller" /\ transcript' = transcript \o items
  BY DEF Adds
<1> QED
  BY <1>1, CallsKept

LEMMA CallerStepKeepsCalls == CallsInv /\ CallerStep => CallsInv'
<1> SUFFICES ASSUME CallsInv, CallerStep PROVE CallsInv'
  OBVIOUS
<1>1. ASSUME NEW role \in {"system", "developer"}, SystemSays(role)
      PROVE  CallsInv'
  <2>1. Adds(<<>>, SystemSpeeches) \/ Adds(<<Message(role, Str(NewWording))>>, SystemSpeeches)
    BY <1>1 DEF SystemSays
  <2>2. IsSeq(<<Message(role, Str(NewWording))>>) /\ ProperItems(<<Message(role, Str(NewWording))>>)
    BY MessageNames
  <2> QED
    BY <2>1, <2>2, NoNames, CallsAdds
<1>2. ASSUME NEW content, UserSays(content)
      PROVE  CallsInv'
  <2>1. IsSeq(<<Message("user", content)>>) /\ ProperItems(<<Message("user", content)>>)
    BY MessageNames
  <2> QED
    BY <1>2, <2>1, CallsAdds DEF UserSays
<1>3. ASSUME NEW sealed \in BOOLEAN, AgentSays(sealed)
      PROVE  CallsInv'
  <2>1. PICK content, speeches : Adds(<<AgentMessage(content)>>, speeches)
    BY <1>3 DEF AgentSays
  <2> QED
    BY <2>1, AgentMessageNames, CallsAdds
<1>4. ASSUME NEW foreign \in ForeignCalls, NEW wire \in Wires, NEW form, ForeignTurn(foreign, wire, form)
      PROVE  CallsInv'
  <2> DEFINE tool  == Parsed[declared].identities[wire]
             calls == [i \in 1..Len(foreign) |-> [id |-> foreign[i].id, tool |-> tool, args |-> Args(NewWording + i, form)]]
  <2>1. ToolError(declared) = "none"
    BY <1>4 DEF ForeignTurn, Parsed, CallsInv
  <2>2. IsCalled(tool)
    BY <2>1, IdentityIsDeclared DEF IsCalled, Wires
  <2>3. Len(foreign) \in Nat
    BY ConversationAssumption
  <2>4. calls \in Seq({calls[i] : i \in 1..Len(foreign)}) /\ Len(calls) = Len(foreign)
    BY <2>3
  <2>5. \A i \in 1..Len(foreign) : calls[i].tool = tool
    OBVIOUS
  <2>6. PICK speeches : Adds(AssistantItems(Text(NewWording), calls, FALSE), speeches)
    BY <1>4 DEF ForeignTurn
  <2> HIDE DEF calls, tool
  <2>7. IsSeq(calls) /\ \A i \in 1..Len(calls) : IsCalled(calls[i].tool)
    BY <2>2, <2>4, <2>5 DEF IsSeq
  <2>8. /\ IsSeq(AssistantItems(Text(NewWording), calls, FALSE))
        /\ ProperItems(AssistantItems(Text(NewWording), calls, FALSE))
    BY <2>7, AssistantNames, TextsCallNothing DEF CallsInv
  <2> QED
    BY <2>6, <2>8, CallsAdds
<1>5. ASSUME NEW call \in waiting, NEW blocks \in BOOLEAN, ReturnResult(call, blocks)
      PROVE  CallsInv'
  <2>1. PICK speeches : Adds(<<ResultItem(call, NewWording, blocks)>>, speeches)
    BY <1>5 DEF ReturnResult
  <2> QED
    BY <2>1, ResultNames, CallsAdds DEF CallsInv
<1>6. CASE Request
  <2>1. format' = format /\ declared' = declared /\ transcript' = transcript /\ phase = "caller"
    BY <1>6 DEF Request
  <2>2. ASSUME phase' = "cursor"
        PROVE  ToolError(declared) = "none"
    <3>1. RequestError(Items, TurnInput(Items)) = "none"
      BY <1>6, <2>1, <2>2 DEF Request
    <3>2. Parsed[declared].error = "none"
      BY <3>1 DEF RequestError
    <3> QED
      BY <3>2 DEF Parsed, CallsInv
  <2> QED
    BY <2>1, <2>2, NothingAdded
<1> QED
  BY <1>1, <1>2, <1>3, <1>4, <1>5, <1>6 DEF CallerStep

LEMMA CursorStepKeepsCalls == CallsInv /\ CursorStep => CallsInv'
<1> SUFFICES ASSUME CallsInv, CursorStep PROVE CallsInv'
  OBVIOUS
<1>1. ASSUME NEW text, NEW calls, NEW cursorIDs, NEW callsFirst \in BOOLEAN, NEW speeches,
             Answered(text, calls, cursorIDs, callsFirst, speeches), Callless(text),
             IsSeq(calls), \A i \in 1..Len(calls) : IsCalled(calls[i].tool)
      PROVE  CallsInv'
  <2> DEFINE items == AssistantItems(text, calls, callsFirst)
  <2>1. /\ format' = format /\ declared' = declared /\ phase' = "caller"
        /\ transcript' = transcript \o items
    BY <1>1 DEF Answered
  <2>2. IsSeq(items) /\ ProperItems(items)
    BY <1>1, AssistantNames DEF CallsInv
  <2> HIDE DEF items
  <2> QED
    BY <2>1, <2>2, CallsKept
<1>2. CASE CursorSpeaks
  <2>1. IsSeq(<<>>) /\ \A i \in 1..Len(<<>>) : IsCalled(<<>>[i].tool)
    BY Nothing
  <2>2. PICK speeches : Answered(Text(NewWording), <<>>, <<>>, FALSE, speeches)
    BY <1>2 DEF CursorSpeaks
  <2> QED
    BY <1>1, <2>1, <2>2, TextsCallNothing
<1>3. ASSUME phase = "cursor", NEW toolName, NEW name, NEW id, NEW form, NEW says \in BOOLEAN, NEW callsFirst \in BOOLEAN,
             CursorCalls(toolName, name, id, form, says, callsFirst)
      PROVE  CallsInv'
  <2> DEFINE identities == Parsed[declared].identities
             wire       == ResolvedWire(toolName, name, identities)
             tool       == identities[wire]
             call       == [id |-> NormalizeToolCallID(id, Plain(NewWording + 1)), tool |-> tool,
                            args |-> Args(NewWording + 1, form)]
  <2>1. ToolError(declared) = "none"
    BY <1>3 DEF CallsInv
  <2>2. wire \in DOMAIN identities
    BY <1>3 DEF CursorCalls, ResolvedWire
  <2>3. IsCalled(tool)
    BY <2>1, <2>2, IdentityIsDeclared DEF IsCalled
  <2>4. call.tool = tool
    OBVIOUS
  <2>5. PICK text, cursorIDs, speeches : /\ Answered(text, <<call>>, cursorIDs, callsFirst, speeches)
                                         /\ text = <<>> \/ text = Text(NewWording)
    BY <1>3 DEF CursorCalls
  <2>7. Callless(text)
    BY <2>5, TextsCallNothing
  <2> HIDE DEF call, tool
  <2>6. IsSeq(<<call>>) /\ \A i \in 1..Len(<<call>>) : IsCalled(<<call>>[i].tool)
    <3>1. \A i \in 1..Len(<<call>>) : <<call>>[i] = call
      OBVIOUS
    <3> QED
      BY <2>3, <2>4, <3>1, Single
  <2> QED
    BY <1>1, <2>5, <2>6, <2>7
<1>4. ASSUME phase = "cursor", NEW toolName, NEW name, NEW stringInput, CallFails(toolName, name, stringInput)
      PROVE  CallsInv'
  <2>1. format' = format /\ declared' = declared /\ transcript' = transcript /\ phase' = "caller"
    BY <1>4 DEF CallFails
  <2> QED
    BY <2>1, NothingAdded
<1> QED
  BY <1>2, <1>3, <1>4 DEF CursorStep

LEMMA CallsInvariance == Spec => []CallsInv
<1>1. CallsInv /\ UNCHANGED vars => CallsInv'
  BY NothingAdded DEF vars, CallsInv
<1>2. CallsInv /\ [Next]_vars => CallsInv'
  BY <1>1, CallerStepKeepsCalls, CursorStepKeepsCalls DEF Next
<1> QED
  BY <1>2, CallsInit, PTL DEF Spec

(* parseTools and resolveToolIdentity: over any nesting of namespaces, any *)
(* names that hold "__" and any number of turns, a call in the caller's    *)
(* transcript names one of its tools, and no other tool it declared could  *)
(* have been meant.                                                        *)
THEOREM CallsAlwaysNameOneTool == Spec => []CallsNameOneTool
<1>1. CallsInv => CallsNameOneTool
  <2> SUFFICES ASSUME CallsInv, NEW i \in 1..Len(transcript), NEW call \in Named(transcript[i])
               PROVE  \E j \in 1..Len(declared) :
                         /\ {k \in 1..Len(declared) : Forwarded(declared[k])
                               /\ WireName(declared[k]) = CallerToolName(call.namespace, call.name)} = {j}
                         /\ declared[j].name = call.name /\ Namespace(declared[j]) = call.namespace
    BY DEF CallsNameOneTool, Named, Uses
  <2>1. IsDeclared(call.name, call.namespace)
    BY DEF CallsInv, ProperItems, ProperItem
  <2>2. PICK j \in 1..Len(declared) :
            Forwarded(declared[j]) /\ declared[j].name = call.name /\ Namespace(declared[j]) = call.namespace
    BY <2>1 DEF IsDeclared
  <2>3. WireName(declared[j]) = CallerToolName(call.namespace, call.name)
    BY <2>2 DEF WireName
  <2>4. ASSUME NEW k \in 1..Len(declared), Forwarded(declared[k]), WireName(declared[k]) = WireName(declared[j])
        PROVE  k = j
    BY <2>1, <2>2, <2>4, ToolListsAreLists, WireNamesAreUnique DEF IsDeclared
  <2> QED
    BY <2>2, <2>3, <2>4
<1> QED
  BY <1>1, CallsInvariance, PTL

-----------------------------------------------------------------------------
(* Induction over the positions of a sequence, by the least one that is    *)
(* missing from a set.                                                     *)
LEMMA LeastNumber ==
    ASSUME NEW T \in SUBSET Nat, T # {}
    PROVE  \E m \in T : \A n \in T : m <= n
<1> DEFINE R == OpToRel(<, Nat)
<1>1. IsWellFoundedOn(R, Nat)
  BY NatLessThanWellFounded
<1>2. \A x, y \in Nat : x < y => <<x, y>> \in R
  BY DEF OpToRel
<1> HIDE DEF R
<1>3. PICK m \in T : \A n \in T : ~ (<<n, m>> \in R)
  BY <1>1, WFMin
<1>4. ASSUME NEW n \in T
      PROVE  m <= n
  <2>1. m \in Nat /\ n \in Nat
    OBVIOUS
  <2>2. ~ (n < m)
    BY <1>2, <1>3, <2>1
  <2> QED
    BY <2>1, <2>2
<1> QED
  BY <1>4

LEMMA Positions ==
    ASSUME NEW n \in Nat, NEW T, 0 \in T, \A k \in 1..n : k - 1 \in T => k \in T
    PROVE  \A k \in 0..n : k \in T
<1> DEFINE U == {k \in 0..n : k \notin T}
<1> SUFFICES ASSUME U # {} PROVE FALSE
  OBVIOUS
<1>0. U \in SUBSET Nat
  OBVIOUS
<1> HIDE DEF U
<1>1. PICK m \in U : \A k \in U : m <= k
  BY <1>0, LeastNumber
<1>2. m \in 0..n /\ m \notin T
  BY DEF U
<1>3. m \in 1..n /\ m - 1 \in 0..n
  BY <1>2
<1>4. m - 1 \notin U
  BY <1>1, <1>3
<1> QED
  BY <1>2, <1>3, <1>4 DEF U

(* Records of Cursor's history that hold something.                        *)
GoodRecord(r) ==
    /\ r = [role |-> r.role, parts |-> r.parts]
    /\ IsSeq(r.parts) /\ r.parts # <<>>

GoodRecords(records) == IsSeq(records) /\ \A i \in 1..Len(records) : GoodRecord(records[i])

LEMMA JoinedRecords ==
    ASSUME NEW s, NEW t, GoodRecords(s), GoodRecords(t)
    PROVE  GoodRecords(s \o t)
<1>1. IsSeq(s) /\ IsSeq(t)
  BY DEF GoodRecords
<1>2. IsSeq(s \o t)
  BY <1>1, Joined
<1>3. ASSUME NEW i \in 1..Len(s \o t)
      PROVE  GoodRecord((s \o t)[i])
  <2>1. CASE i \in 1..Len(s)
    BY <1>1, <2>1, Joined DEF GoodRecords
  <2>2. CASE i \notin 1..Len(s)
    <3>1. PICK k \in 1..Len(t) : i = Len(s) + k
      BY <1>1, <2>2, Joined
    <3>2. (s \o t)[i] = t[k]
      BY <1>1, <3>1, Joined
    <3> QED
      BY <3>2 DEF GoodRecords
  <2> QED
    BY <2>1, <2>2
<1> QED
  BY <1>2, <1>3 DEF GoodRecords

LEMMA AddedRecord ==
    ASSUME NEW merged, NEW record, GoodRecords(merged), GoodRecord(record), NEW joining \in BOOLEAN,
           joining => merged # <<>>
    PROVE  GoodRecords(Added(merged, record, joining))
<1>1. PICK S : merged \in Seq(S)
  BY DEF GoodRecords, IsSeq
<1>2. CASE ~ joining
  <2>1. merged \in Seq(S \cup {record})
    BY <1>1
  <2>2. Append(merged, record) \in Seq(S \cup {record}) /\ Len(Append(merged, record)) = Len(merged) + 1
        /\ Len(merged) \in Nat
    BY <2>1
  <2>3. \A i \in 1..Len(merged) : Append(merged, record)[i] = merged[i]
    BY <2>1
  <2>4. Append(merged, record)[Len(merged) + 1] = record
    BY <2>1
  <2>5. \A i \in 1..Len(merged) + 1 : GoodRecord(Append(merged, record)[i])
    BY <2>2, <2>3, <2>4 DEF GoodRecords
  <2> QED
    BY <1>2, <2>2, <2>5 DEF Added, GoodRecords, IsSeq
<1>3. CASE joining
  <2> DEFINE n     == Len(merged)
             parts == merged[n].parts \o record.parts
             last  == [merged[n] EXCEPT !.parts = parts]
             after == [merged EXCEPT ![n] = last]
  <2>1. n \in Nat /\ n > 0 /\ DOMAIN merged = 1..n
    BY <1>1, <1>3
  <2>2. GoodRecord(merged[n])
    BY <2>1 DEF GoodRecords
  <2>3. IsSeq(parts) /\ parts # <<>>
    <3> DEFINE p == merged[n].parts
               q == record.parts
    <3>1. IsSeq(p) /\ IsSeq(q) /\ p # <<>>
      BY <2>2 DEF GoodRecord
    <3>0. parts = p \o q
      OBVIOUS
    <3> HIDE DEF p, q, parts
    <3>2. IsSeq(parts) /\ Len(parts) = Len(p) + Len(q) /\ Len(p) \in Nat /\ Len(q) \in Nat
      BY <3>0, <3>1, Joined
    <3>3. Len(p) # 0
      BY <3>1 DEF IsSeq
    <3>4. Len(parts) # 0
      BY <3>2, <3>3
    <3> QED
      BY <3>2, <3>4, Nothing
  <2> HIDE DEF parts
  <2>4. last = [role |-> merged[n].role, parts |-> parts]
    BY <2>2 DEF GoodRecord
  <2> HIDE DEF last
  <2>5. GoodRecord(last)
    BY <2>3, <2>4 DEF GoodRecord
  <2>6. \A i \in 1..n : after[i] = IF i = n THEN last ELSE merged[i]
    BY <2>1
  <2>7. after \in Seq(S \cup {last}) /\ Len(after) = n
    <3>1. after \in [1..n -> S \cup {last}]
      BY <1>1, <2>1
    <3>2. DOMAIN after = 1..n
      BY <2>1
    <3> HIDE DEF after, n, last
    <3>3. after \in Seq(S \cup {last})
      BY <2>1, <3>1
    <3> QED
      BY <2>1, <3>2, <3>3
  <2>8. Added(merged, record, joining) = after
    BY <1>3 DEF Added, last, parts
  <2> HIDE DEF after
  <2>9. \A i \in 1..Len(after) : GoodRecord(after[i])
    BY <2>5, <2>6, <2>7 DEF GoodRecords
  <2>10. IsSeq(after)
    BY <2>7 DEF IsSeq
  <2> QED
    BY <2>8, <2>9, <2>10 DEF GoodRecords
<1> QED
  BY <1>2, <1>3

(* mergeHistoryMessages takes one record after the other.                  *)
Plus(merged, record) ==
    Added(merged, record, record.role \in {"assistant", "tool"} /\ Joins(merged, record))

MergeSteps(c, records) ==
    c[0] = <<>> /\ \A k \in 1..Len(records) : c[k] = Plus(c[k - 1], records[k])

LEMMA MergeFold ==
    ASSUME NEW records, Len(records) \in Nat
    PROVE  \E c : MergeSteps(c, records) /\ MergedHistory(records) = c[Len(records)]
<1> DEFINE n == Len(records)
           Step(before, k) == Plus(before, records[k])
           Follows(g, m) == g = [k \in 0..m |-> IF k = 0 THEN <<>> ELSE Step(g[k - 1], k)]
           Reached == {m \in 0..n : \E g : Follows(g, m)}
           c == CHOOSE g : Follows(g, n)
<1>1. n \in Nat
  OBVIOUS
<1> HIDE DEF Step, n
<1>2. 0 \in Reached
  <2>1. 0..0 = {0}
    OBVIOUS
  <2>2. Follows([k \in 0..0 |-> <<>>], 0)
    BY <2>1
  <2> HIDE DEF Follows
  <2>3. \E g : Follows(g, 0)
    BY <2>2
  <2> QED
    BY <1>1, <2>3
<1>3. ASSUME NEW m \in 1..n, m - 1 \in Reached
      PROVE  m \in Reached
  <2>1. PICK g : Follows(g, m - 1)
    <3> HIDE DEF Follows
    <3> QED
      BY <1>3
  <2> DEFINE h == [k \in 0..m |-> IF k = m THEN Step(g[m - 1], m) ELSE g[k]]
  <2>2. ASSUME NEW k \in 0..m
        PROVE  h[k] = IF k = 0 THEN <<>> ELSE Step(h[k - 1], k)
    <3>1. CASE k = m
      <4>1. h[m] = Step(g[m - 1], m) /\ h[m - 1] = g[m - 1]
        BY <1>1
      <4> QED
        BY <3>1, <4>1
    <3>2. CASE k # m
      <4>1. k \in 0..(m - 1) /\ h[k] = g[k] /\ (k # 0 => h[k - 1] = g[k - 1])
        BY <1>1, <3>2
      <4>2. g[k] = IF k = 0 THEN <<>> ELSE Step(g[k - 1], k)
        BY <2>1, <4>1
      <4> QED
        BY <4>1, <4>2
    <3> QED
      BY <3>1, <3>2
  <2>3. h = [k \in 0..m |-> h[k]]
    OBVIOUS
  <2> HIDE DEF h
  <2>4. Follows(h, m)
    BY <2>2, <2>3
  <2> QED
    BY <2>4
<1>4. n \in Reached
  <2> HIDE DEF Reached
  <2> QED
    BY <1>1, <1>2, <1>3, Positions
<1>5. Follows(c, n)
  BY <1>4
<1>6. MergedHistory(records) = c[n]
  BY DEF MergedHistory, Plus, Step, n
<1> HIDE DEF c
<1>7. c[0] = <<>> /\ \A k \in 1..n : c[k] = Step(c[k - 1], k)
  <2>1. \A k \in 0..n : c[k] = IF k = 0 THEN <<>> ELSE Step(c[k - 1], k)
    BY <1>5
  <2>2. 0 \in 0..n /\ \A k \in 1..n : k \in 0..n /\ k # 0
    BY <1>1
  <2> QED
    BY <2>1, <2>2
<1>8. MergeSteps(c, records)
  BY <1>7 DEF MergeSteps, Step, n
<1> QED
  BY <1>6, <1>8 DEF n

(* What is merged of a list does not depend on what comes after it.        *)
LEMMA MergeAgrees ==
    ASSUME NEW shorter, NEW longer, NEW c, NEW d, Len(shorter) \in Nat,
           \A k \in 1..Len(shorter) : k \in 1..Len(longer) /\ longer[k] = shorter[k],
           MergeSteps(c, shorter), MergeSteps(d, longer)
    PROVE  c[Len(shorter)] = d[Len(shorter)]
<1> DEFINE n    == Len(shorter)
           Same == {k \in 0..n : c[k] = d[k]}
<1>1. n \in Nat /\ 0 \in Same
  BY DEF MergeSteps
<1>2. ASSUME NEW k \in 1..n, k - 1 \in Same
      PROVE  k \in Same
  <2>1. c[k - 1] = d[k - 1]
    BY <1>2
  <2>2. c[k] = Plus(c[k - 1], shorter[k]) /\ d[k] = Plus(d[k - 1], longer[k])
    BY DEF MergeSteps
  <2>3. longer[k] = shorter[k] /\ k \in 0..n
    BY <1>1
  <2> QED
    BY <2>1, <2>2, <2>3
<1> HIDE DEF n, Same
<1>3. n \in Same
  <2>1. \A k \in 0..n : k \in Same
    BY <1>1, <1>2, Positions
  <2> QED
    BY <1>1, <2>1
<1> QED
  BY <1>3 DEF Same, n

(* What is merged of records that hold something holds something.          *)
LEMMA MergedRecords ==
    ASSUME NEW records, GoodRecords(records)
    PROVE  GoodRecords(MergedHistory(records))
<1>1. Len(records) \in Nat
  BY DEF GoodRecords, IsSeq
<1>2. PICK c : MergeSteps(c, records) /\ MergedHistory(records) = c[Len(records)]
  BY <1>1, MergeFold
<1> DEFINE n    == Len(records)
           Good == {k \in 0..n : GoodRecords(c[k])}
<1>3. n \in Nat /\ 0 \in Good
  <2>1. GoodRecords(<<>>)
    BY Nothing DEF GoodRecords
  <2> QED
    BY <1>1, <1>2, <2>1 DEF MergeSteps
<1>4. ASSUME NEW k \in 1..n, k - 1 \in Good
      PROVE  k \in Good
  <2>1. GoodRecords(c[k - 1]) /\ GoodRecord(records[k])
    BY <1>4 DEF GoodRecords
  <2> DEFINE joining == records[k].role \in {"assistant", "tool"} /\ Joins(c[k - 1], records[k])
  <2>2. joining \in BOOLEAN /\ (joining => c[k - 1] # <<>>)
    BY DEF Joins
  <2>3. c[k] = Added(c[k - 1], records[k], joining)
    BY <1>2 DEF MergeSteps, Plus
  <2> HIDE DEF joining
  <2>4. GoodRecords(c[k])
    BY <2>1, <2>2, <2>3, AddedRecord
  <2> QED
    BY <1>3, <2>4
<1> HIDE DEF n, Good
<1>5. n \in Good
  BY <1>3, <1>4, Positions
<1> QED
  BY <1>2, <1>5 DEF Good, n

(* FlattenSeq puts one list after the other.                               *)
FlattenSteps(c, seqs) ==
    \A k \in 1..Len(seqs) : c[k] = IF k = 1 THEN seqs[k] ELSE c[k - 1] \o seqs[k]

LEMMA FlattenFold ==
    ASSUME NEW seqs, Len(seqs) \in Nat, Len(seqs) # 0
    PROVE  \E c : FlattenSteps(c, seqs) /\ FlattenSeq(seqs) = c[Len(seqs)]
<1> DEFINE n == Len(seqs)
           Follows(g, m) == g = [k \in 1..m |-> IF k = 1 THEN seqs[k] ELSE g[k - 1] \o seqs[k]]
           Reached == {m \in 0..n : m = 0 \/ \E g : Follows(g, m)}
           c == CHOOSE g : Follows(g, n)
<1>0. n \in Nat /\ n # 0
  OBVIOUS
<1> HIDE DEF n
<1>1. ASSUME NEW m \in 1..n, m - 1 \in Reached
      PROVE  m \in Reached
  <2>1. CASE m = 1
    <3>1. 1..1 = {1}
      OBVIOUS
    <3>2. Follows([k \in 1..1 |-> seqs[1]], 1)
      BY <3>1
    <3> HIDE DEF Follows
    <3>3. \E g : Follows(g, 1)
      BY <3>2
    <3> QED
      BY <1>0, <2>1, <3>3
  <2>2. CASE m # 1
    <3>1. PICK g : Follows(g, m - 1)
      <4> HIDE DEF Follows
      <4> QED
        BY <1>0, <1>1, <2>2
    <3> DEFINE h == [k \in 1..m |-> IF k = m THEN g[m - 1] \o seqs[m] ELSE g[k]]
    <3>2. ASSUME NEW k \in 1..m
          PROVE  h[k] = IF k = 1 THEN seqs[k] ELSE h[k - 1] \o seqs[k]
      <4>1. CASE k = m
        <5>0. m \in 1..m /\ m - 1 \in 1..m /\ m - 1 # m
          BY <1>0, <2>2
        <5>1. h[m] = g[m - 1] \o seqs[m] /\ h[m - 1] = g[m - 1]
          BY <5>0
        <5> QED
          BY <2>2, <4>1, <5>1
      <4>2. CASE k # m
        <5>1. k \in 1..(m - 1) /\ h[k] = g[k] /\ (k # 1 => h[k - 1] = g[k - 1])
          BY <1>0, <4>2
        <5>2. g[k] = IF k = 1 THEN seqs[k] ELSE g[k - 1] \o seqs[k]
          BY <3>1, <5>1
        <5> QED
          BY <5>1, <5>2
      <4> QED
        BY <4>1, <4>2
    <3>3. h = [k \in 1..m |-> h[k]]
      OBVIOUS
    <3> HIDE DEF h
    <3>4. Follows(h, m)
      BY <3>2, <3>3
    <3> HIDE DEF Follows
    <3>5. \E f : Follows(f, m)
      BY <3>4
    <3> QED
      BY <1>0, <3>5
  <2> QED
    BY <2>1, <2>2
<1>2. 0 \in Reached
  BY <1>0
<1>3. n \in Reached
  <2>1. n \in 0..n
    BY <1>0
  <2> HIDE DEF Reached, Follows, n
  <2>2. \A k \in 0..n : k \in Reached
    BY <1>0, <1>1, <1>2, Positions, Zenon
  <2> QED
    BY <2>1, <2>2
<1>4. Follows(c, n)
  BY <1>0, <1>3, Zenon
<1> HIDE DEF c
<1>5. \A k \in 1..n : c[k] = IF k = 1 THEN seqs[k] ELSE c[k - 1] \o seqs[k]
  BY <1>4
<1>6. FlattenSeq(seqs) = c[n]
  BY <1>0 DEF FlattenSeq, c, n
<1>7. FlattenSteps(c, seqs)
  BY <1>5 DEF FlattenSteps, n
<1> QED
  BY <1>6, <1>7 DEF n

LEMMA FlattenAgrees ==
    ASSUME NEW shorter, NEW longer, NEW c, NEW d, Len(shorter) \in Nat, Len(shorter) # 0,
           \A k \in 1..Len(shorter) : k \in 1..Len(longer) /\ longer[k] = shorter[k],
           FlattenSteps(c, shorter), FlattenSteps(d, longer)
    PROVE  c[Len(shorter)] = d[Len(shorter)]
<1> DEFINE n    == Len(shorter)
           Same == {k \in 0..n : k = 0 \/ c[k] = d[k]}
<1>1. n \in Nat /\ n # 0 /\ 0 \in Same
  OBVIOUS
<1>2. ASSUME NEW k \in 1..n, k - 1 \in Same
      PROVE  k \in Same
  <2>1. longer[k] = shorter[k] /\ k \in 0..n
    BY <1>1
  <2>2. /\ c[k] = IF k = 1 THEN shorter[k] ELSE c[k - 1] \o shorter[k]
        /\ d[k] = IF k = 1 THEN longer[k] ELSE d[k - 1] \o longer[k]
    BY DEF FlattenSteps
  <2>3. k # 1 => c[k - 1] = d[k - 1]
    BY <1>1, <1>2
  <2> QED
    BY <2>1, <2>2, <2>3
<1> HIDE DEF n, Same
<1>3. n \in Same
  <2>1. \A k \in 0..n : k \in Same
    BY <1>1, <1>2, Positions
  <2> QED
    BY <1>1, <2>1
<1> QED
  BY <1>1, <1>3 DEF Same, n

(* The records of all items, one after the other.                          *)
LEMMA FlattenedRecords ==
    ASSUME NEW seqs, IsSeq(seqs), \A i \in 1..Len(seqs) : GoodRecords(seqs[i])
    PROVE  GoodRecords(FlattenSeq(seqs))
<1> DEFINE n == Len(seqs)
<1>1. n \in Nat
  BY DEF IsSeq
<1>2. CASE n = 0
  <2>1. FlattenSeq(seqs) = seqs
    BY <1>2 DEF FlattenSeq
  <2> QED
    BY <1>2, <2>1 DEF GoodRecords
<1>3. CASE n # 0
  <2>1. PICK c : FlattenSteps(c, seqs) /\ FlattenSeq(seqs) = c[n]
    BY <1>1, <1>3, FlattenFold
  <2> DEFINE Good == {k \in 0..n : k = 0 \/ GoodRecords(c[k])}
  <2>2. ASSUME NEW k \in 1..n, k - 1 \in Good
        PROVE  k \in Good
    <3>0. c[k] = IF k = 1 THEN seqs[k] ELSE c[k - 1] \o seqs[k]
      BY <2>1 DEF FlattenSteps
    <3>1. GoodRecords(c[k])
      <4>1. CASE k = 1
        BY <3>0, <4>1
      <4>2. CASE k # 1
        <5>0. k - 1 # 0
          BY <1>1, <4>2
        <5>1. GoodRecords(c[k - 1]) /\ GoodRecords(seqs[k])
          BY <2>2, <5>0
        <5>2. c[k] = c[k - 1] \o seqs[k]
          BY <3>0, <4>2
        <5> QED
          BY <5>1, <5>2, JoinedRecords
      <4> QED
        BY <4>1, <4>2
    <3> QED
      BY <1>1, <3>1
  <2>3. 0 \in Good
    BY <1>1
  <2>4. n \in Good
    <3> HIDE DEF Good, n
    <3> QED
      BY <1>1, <2>2, <2>3, Positions
  <2> QED
    BY <1>3, <2>1, <2>4
<1> QED
  BY <1>2, <1>3

(* cursorToolHistory rewrites parts, one by one.                           *)
LEMMA ToolRecords ==
    ASSUME NEW records, GoodRecords(records)
    PROVE  /\ Len(CursorToolHistory(records)) = Len(records) /\ Len(records) \in Nat
           /\ \A i \in 1..Len(records) : CursorToolHistory(records)[i].parts # <<>>
<1>1. Len(records) \in Nat
  BY DEF GoodRecords, IsSeq
<1>2. ASSUME NEW i \in 1..Len(records)
      PROVE  CursorToolHistory(records)[i].parts # <<>>
  <2> DEFINE r     == records[i]
             parts == [j \in 1..Len(r.parts) |-> Wrapped(r.parts[j])]
  <2>1. GoodRecord(r)
    BY DEF GoodRecords
  <2> HIDE DEF r
  <2>2. Len(r.parts) \in Nat /\ Len(r.parts) # 0
    BY <2>1 DEF GoodRecord, IsSeq
  <2>3. 1 \in DOMAIN parts
    BY <2>2
  <2>4. parts # <<>>
    BY <2>3
  <2> HIDE DEF parts
  <2>5. [r EXCEPT !.parts = parts].parts = parts
    BY <2>1 DEF GoodRecord
  <2>6. CursorToolHistory(records)[i] = [r EXCEPT !.parts = parts]
    BY <1>1 DEF CursorToolHistory, r, parts
  <2> QED
    BY <2>4, <2>5, <2>6
<1>3. Len(CursorToolHistory(records)) = Len(records)
  BY <1>1 DEF CursorToolHistory
<1> QED
  BY <1>1, <1>2, <1>3

LEMMA OneRecord ==
    ASSUME NEW role, NEW parts, IsSeq(parts), parts # <<>>
    PROVE  GoodRecords(<<Record(role, parts)>>)
<1> DEFINE r == Record(role, parts)
<1>1. r.role = role /\ r.parts = parts /\ r = [role |-> r.role, parts |-> r.parts]
  BY DEF Record
<1> HIDE DEF r
<1>2. GoodRecord(r)
  BY <1>1 DEF GoodRecord
<1>3. IsSeq(<<r>>) /\ \A i \in 1..Len(<<r>>) : <<r>>[i] = r
  BY Single
<1> QED
  BY <1>2, <1>3 DEF GoodRecords, r

LEMMA OnePart ==
    ASSUME NEW x
    PROVE  IsSeq(<<x>>) /\ <<x>> # <<>>
  BY Single, Nothing

(* normalizeHistoryMessages: an item becomes records that hold something,  *)
(* or none.                                                                *)
LEMMA ItemRecords ==
    ASSUME NEW item, ItemShape(item)
    PROVE  GoodRecords(Records(item))
<1>0. GoodRecords(<<>>)
  BY Nothing DEF GoodRecords
<1>1. CASE item.type = "agent_message"
  <2>1. \/ Records(item) = <<>>
        \/ Records(item) = <<Record("user", <<Part(AgentMessageText(item.content))>>)>>
    BY <1>1 DEF Records, ItemShape
  <2> QED
    BY <1>0, <2>1, OneRecord, OnePart
<1>2. CASE item.type \in {"function_call", "custom_tool_call"}
  <2>1. \E part : Records(item) = <<Record("assistant", <<part>>)>>
    BY <1>2 DEF Records, ItemShape
  <2> QED
    BY <2>1, OneRecord, OnePart
<1>3. CASE item.type \in {"function_call_output", "custom_tool_call_output"}
  <2>1. \E part : Records(item) = <<Record("tool", <<part>>)>>
    BY <1>3 DEF Records, ItemShape
  <2> QED
    BY <2>1, OneRecord, OnePart
<1>4. CASE item.type = "message" /\ item.role \in {"system", "developer"}
  <2> DEFINE a == <<Record("user", <<Part(<<SystemLeadIn>> \o ContentText(item.content))>>)>>
             b == <<Record("assistant", <<Part(<<SystemAck>>)>>)>>
  <2>1. GoodRecords(a) /\ GoodRecords(b)
    BY OneRecord, OnePart
  <2>2. Records(item) = <<>> \/ Records(item) = a \o b
    BY <1>4 DEF Records
  <2> HIDE DEF a, b
  <2> QED
    BY <1>0, <2>1, <2>2, JoinedRecords
<1>5. CASE item.type = "message" /\ item.role = "user"
  <2>1. Records(item) = <<>> \/ \E part : Records(item) = <<Record("user", <<part>>)>>
    BY <1>5 DEF Records
  <2> QED
    BY <1>0, <2>1, OneRecord, OnePart
<1>6. CASE item.type = "message" /\ item.role = "assistant"
  <2> DEFINE texts == Texts(ContentText(item.content))
             calls == ChatCalls(item)
  <2>1. IsSeq(texts)
    BY Nothing, Single DEF Texts
  <2>2. IsSeq(calls)
    <3>1. Len(item.calls) \in Nat
      BY <1>6 DEF ItemShape, IsSeq
    <3>2. calls \in Seq({calls[i] : i \in 1..Len(item.calls)})
      BY <3>1 DEF ChatCalls
    <3> HIDE DEF calls
    <3> QED
      BY <3>2 DEF IsSeq
  <2>3. Records(item) = IF texts \o calls = <<>> THEN <<>> ELSE <<Record("assistant", texts \o calls)>>
    BY <1>6 DEF Records
  <2> HIDE DEF texts, calls
  <2>4. IsSeq(texts \o calls)
    BY <2>1, <2>2, Joined
  <2> QED
    BY <1>0, <2>3, <2>4, OneRecord
<1>7. CASE item.type = "message" /\ item.role = "tool"
  <2>1. \E part : Records(item) = <<Record("tool", <<part>>)>>
    BY <1>7 DEF Records
  <2> QED
    BY <2>1, OneRecord, OnePart
<1> QED
  BY <1>1, <1>2, <1>3, <1>4, <1>5, <1>6, <1>7 DEF ItemShape

(* The history of the items, before the calls in it are wrapped.           *)
MergedItems(items) == MergedHistory(FlattenSeq([i \in 1..Len(items) |-> Records(items[i])]))

Shaped(items) == IsSeq(items) /\ \A i \in 1..Len(items) : ItemShape(items[i])

LEMMA FlatItems ==
    ASSUME NEW items, Shaped(items)
    PROVE  /\ IsSeq([i \in 1..Len(items) |-> Records(items[i])])
           /\ GoodRecords(FlattenSeq([i \in 1..Len(items) |-> Records(items[i])]))
           /\ GoodRecords(MergedItems(items))
<1> DEFINE seqs == [i \in 1..Len(items) |-> Records(items[i])]
<1>1. Len(items) \in Nat
  BY DEF Shaped, IsSeq
<1>2. seqs \in Seq({seqs[i] : i \in 1..Len(items)}) /\ Len(seqs) = Len(items)
  BY <1>1
<1>3. \A i \in 1..Len(items) : seqs[i] = Records(items[i])
  OBVIOUS
<1> HIDE DEF seqs
<1>4. IsSeq(seqs) /\ \A i \in 1..Len(seqs) : GoodRecords(seqs[i])
  BY <1>2, <1>3, ItemRecords DEF IsSeq, Shaped
<1>5. GoodRecords(FlattenSeq(seqs))
  BY <1>4, FlattenedRecords
<1> QED
  BY <1>4, <1>5, MergedRecords DEF MergedItems, seqs

LEMMA ShapedItems ==
    ASSUME CallsInv
    PROVE  Shaped(Items)
<1>1. ProperItems(transcript) /\ IsSeq(transcript)
  BY DEF CallsInv
<1>2. IsSeq(<<Message("system", system)>>) /\ ProperItems(<<Message("system", system)>>)
  BY MessageNames
<1>3. IsSeq(Items) /\ ProperItems(Items)
  BY <1>1, <1>2, NoNames, JoinedNames DEF Items
<1> QED
  BY <1>3 DEF ProperItems, ProperItem, Shaped

LEMMA HistoryHoldsSomething ==
    ASSUME NEW items, Shaped(items)
    PROVE  \A i \in 1..Len(History(items)) : History(items)[i].parts # <<>>
<1>1. GoodRecords(MergedItems(items))
  BY FlatItems
<1>2. History(items) = CursorToolHistory(MergedItems(items))
  BY DEF History, MergedItems
<1> QED
  BY <1>1, <1>2, ToolRecords

(* turnInput hands Cursor no message that says nothing.                    *)
LEMMA InputHoldsSomething ==
    ASSUME CallsInv
    PROVE  \A i \in 1..Len(TurnInput(Items).history) : TurnInput(Items).history[i].parts # <<>>
<1> DEFINE items == Items
<1>1. Shaped(items)
  BY ShapedItems
<1> HIDE DEF items
<1>2. CASE HasPrompt(items)
  <2> DEFINE before == SubSeq(items, 1, Len(items) - 1)
  <2>1. ActiveIndex(items) = Len(items) /\ Len(items) > 0 /\ Len(items) \in Nat
    BY <1>1, <1>2 DEF HasPrompt, Shaped, IsSeq
  <2>2. PICK S : items \in Seq(S)
    BY <1>1 DEF Shaped, IsSeq
  <2>3. before \in Seq(S) /\ Len(before) = Len(items) - 1
    BY <2>1, <2>2
  <2>4. \A i \in 1..Len(before) : i \in 1..Len(items) /\ before[i] = items[i]
    BY <2>1, <2>2, <2>3
  <2>5. TurnInput(items).history = History(before)
    BY <1>2, <2>1 DEF TurnInput
  <2> HIDE DEF before
  <2>6. Shaped(before)
    BY <1>1, <2>3, <2>4 DEF Shaped, IsSeq
  <2> QED
    BY <2>5, <2>6, HistoryHoldsSomething DEF items
<1>3. CASE ~ HasPrompt(items)
  <2>1. TurnInput(items).history = History(items)
    BY <1>3 DEF TurnInput
  <2> QED
    BY <1>1, <2>1, HistoryHoldsSomething DEF items
<1> QED
  BY <1>2, <1>3

-----------------------------------------------------------------------------
(* What is said, and what is waited for.                                   *)
Speeches(s) == IsSeq(s) /\ \A i \in 1..Len(s) : s[i].role \in {"user", "assistant", "tool"}

CanWait(calls) == \A call \in calls : Safe(call.id) /\ call.custom \in BOOLEAN

TalkInv ==
    /\ CanWait(waiting) /\ Speeches(spoken)
    /\ phase \in {"caller", "cursor"}
    /\ error \in {"none", "invalid_request", "invalid_tool", "duplicate_tool", "message_too_large",
                  "unsupported_encrypted_agent_message", "unknown_tool", "invalid_tool_input"}
    /\ \A i \in 1..Len(input.history) : input.history[i].parts # <<>>
    /\ phase = "caller" => input = NoInput

LEMMA JoinedSpeeches ==
    ASSUME NEW s, NEW t, Speeches(s), Speeches(t)
    PROVE  Speeches(s \o t)
<1>1. IsSeq(s) /\ IsSeq(t) /\ IsSeq(s \o t)
  BY Joined DEF Speeches
<1>2. ASSUME NEW i \in 1..Len(s \o t)
      PROVE  (s \o t)[i].role \in {"user", "assistant", "tool"}
  <2>1. CASE i \in 1..Len(s)
    BY <1>1, <2>1, Joined DEF Speeches
  <2>2. CASE i \notin 1..Len(s)
    <3>1. PICK k \in 1..Len(t) : i = Len(s) + k
      BY <1>1, <2>2, Joined
    <3>2. (s \o t)[i] = t[k]
      BY <1>1, <3>1, Joined
    <3> QED
      BY <3>2 DEF Speeches
  <2> QED
    BY <2>1, <2>2
<1> QED
  BY <1>1, <1>2 DEF Speeches

LEMMA OneSpeech ==
    ASSUME NEW role \in {"user", "assistant", "tool"}, NEW part
    PROVE  Speeches(<<Speech(role, part)>>)
<1> DEFINE x == Speech(role, part)
<1>1. x.role = role
  BY DEF Speech
<1> HIDE DEF x
<1>2. IsSeq(<<x>>) /\ Len(<<x>>) = 1 /\ <<x>>[1] = x
  BY Single
<1>3. \A i \in 1..1 : i = 1
  OBVIOUS
<1> QED
  BY <1>1, <1>2, <1>3 DEF Speeches, x

LEMMA NoSpeech == Speeches(<<>>)
  BY Nothing DEF Speeches

LEMMA SaidSystem == Speeches(SystemSpeeches)
<1> DEFINE a == Speech("user", Part(<<SystemLeadIn, NewWording>>))
           b == Speech("assistant", Part(<<SystemAck>>))
<1>1. a.role = "user" /\ b.role = "assistant"
  BY DEF Speech
<1> HIDE DEF a, b
<1>2. <<a, b>> \in Seq({a, b}) /\ Len(<<a, b>>) = 2 /\ <<a, b>>[1] = a /\ <<a, b>>[2] = b
  OBVIOUS
<1>3. \A i \in 1..2 : i = 1 \/ i = 2
  OBVIOUS
<1>4. Speeches(<<a, b>>)
  BY <1>1, <1>2, <1>3 DEF Speeches, IsSeq
<1> QED
  BY <1>4 DEF SystemSpeeches, a, b

LEMMA TalkInit == Init => TalkInv
  BY NoSpeech, Nothing DEF Init, TalkInv, CanWait, NoInput

LEMMA TalkAdds ==
    ASSUME TalkInv, NEW items, NEW speeches, Adds(items, speeches), Speeches(speeches), CanWait(waiting')
    PROVE  TalkInv'
<1>1. phase' = phase /\ input' = input /\ error' = error /\ spoken' = spoken \o speeches
  BY DEF Adds
<1>2. Speeches(spoken \o speeches)
  BY JoinedSpeeches DEF TalkInv
<1> QED
  BY <1>1, <1>2 DEF TalkInv

LEMMA ToolErrors ==
    ASSUME NEW leaves
    PROVE  ToolError(leaves) \in {"none", "invalid_tool", "duplicate_tool"}
  BY DEF ToolError

LEMMA CallerStepTalks == CallsInv /\ TalkInv /\ CallerStep => TalkInv'
<1> SUFFICES ASSUME CallsInv, TalkInv, CallerStep PROVE TalkInv'
  OBVIOUS
<1>0. CanWait(waiting)
  BY DEF TalkInv
<1>1. ASSUME NEW role \in {"system", "developer"}, SystemSays(role)
      PROVE  TalkInv'
  <2>1. PICK items : Adds(items, SystemSpeeches)
    BY <1>1 DEF SystemSays
  <2>2. waiting' = waiting
    BY <1>1 DEF SystemSays
  <2> QED
    BY <1>0, <2>1, <2>2, SaidSystem, TalkAdds
<1>2. ASSUME NEW content, UserSays(content)
      PROVE  TalkInv'
  <2>1. PICK items, speeches : /\ Adds(items, speeches)
                               /\ speeches = <<>> \/ speeches = <<Speech("user", Part(ContentText(content)))>>
    BY <1>2 DEF UserSays
  <2>2. waiting' = waiting /\ Speeches(speeches)
    BY <1>2, <2>1, NoSpeech, OneSpeech DEF UserSays
  <2> QED
    BY <1>0, <2>1, <2>2, TalkAdds
<1>3. ASSUME NEW sealed \in BOOLEAN, AgentSays(sealed)
      PROVE  TalkInv'
  <2>1. PICK items, speeches : /\ Adds(items, speeches)
                               /\ \/ speeches = <<>>
                                  \/ speeches = <<Speech("user", Part(<<NewWording, NewWording>>))>>
    BY <1>3 DEF AgentSays
  <2>2. waiting' = waiting /\ Speeches(speeches)
    BY <1>3, <2>1, NoSpeech, OneSpeech DEF AgentSays
  <2> QED
    BY <1>0, <2>1, <2>2, TalkAdds
<1>4. ASSUME NEW foreign \in ForeignCalls, NEW wire \in Wires, NEW form, ForeignTurn(foreign, wire, form)
      PROVE  TalkInv'
  <2> DEFINE tool  == Parsed[declared].identities[wire]
             calls == [i \in 1..Len(foreign) |-> [id |-> foreign[i].id, tool |-> tool, args |-> Args(NewWording + i, form)]]
             said  == [i \in 1..Len(calls) |-> Speech("assistant", CallPart(foreign[i].cursorID, wire, calls[i].args))]
  <2>1. ToolError(declared) = "none"
    BY <1>4 DEF ForeignTurn, Parsed, CallsInv
  <2>2. tool.custom \in BOOLEAN
    BY <2>1, IdentityIsDeclared DEF Wires
  <2>3. Len(foreign) \in Nat /\ \A i \in 1..Len(foreign) : Safe(foreign[i].id)
    BY ConversationAssumption
  <2>4. Len(calls) = Len(foreign)
        /\ \A i \in 1..Len(foreign) : calls[i].id = foreign[i].id /\ calls[i].tool = tool
    BY <2>3
  <2>5. PICK items : /\ Adds(items, <<Speech("assistant", Part(<<NewWording>>))>> \o said)
                     /\ waiting' = {Waiting(calls[i], foreign[i].cursorID) : i \in 1..Len(calls)}
    BY <1>4 DEF ForeignTurn
  <2> HIDE DEF calls, tool
  <2>6. CanWait(waiting')
    <3>1. ASSUME NEW i \in 1..Len(calls)
          PROVE  /\ Safe(Waiting(calls[i], foreign[i].cursorID).id)
                 /\ Waiting(calls[i], foreign[i].cursorID).custom \in BOOLEAN
      BY <2>2, <2>3, <2>4 DEF Waiting
    <3> QED
      BY <2>5, <3>1 DEF CanWait
  <2>7. Speeches(said)
    <3>1. said \in Seq({said[i] : i \in 1..Len(calls)}) /\ Len(said) = Len(calls)
      BY <2>3, <2>4
    <3>2. \A i \in 1..Len(calls) : said[i].role = "assistant"
      BY DEF Speech
    <3> HIDE DEF said
    <3> QED
      BY <3>1, <3>2 DEF Speeches, IsSeq
  <2>8. Speeches(<<Speech("assistant", Part(<<NewWording>>))>> \o said)
    BY <2>7, OneSpeech, JoinedSpeeches
  <2> HIDE DEF said
  <2> QED
    BY <2>5, <2>6, <2>8, TalkAdds
<1>5. ASSUME NEW call \in waiting, NEW blocks \in BOOLEAN, ReturnResult(call, blocks)
      PROVE  TalkInv'
  <2>1. PICK items, part : Adds(items, <<Speech("tool", part)>>)
    BY <1>5 DEF ReturnResult
  <2>2. CanWait(waiting')
    BY <1>0, <1>5 DEF ReturnResult, CanWait
  <2>3. Speeches(<<Speech("tool", part)>>)
    BY OneSpeech
  <2> QED
    BY <2>1, <2>2, <2>3, TalkAdds
<1>6. CASE Request
  <2> DEFINE turn == TurnInput(Items)
             err  == RequestError(Items, turn)
  <2>1. /\ error' = err /\ waiting' = waiting /\ spoken' = spoken /\ phase = "caller"
        /\ IF err = "none" THEN phase' = "cursor" /\ input' = turn ELSE phase' = phase /\ input' = input
    BY <1>6 DEF Request
  <2>2. Parsed[declared].error \in {"none", "invalid_tool", "duplicate_tool"}
    BY ToolErrors DEF Parsed, CallsInv
  <2>3. err \in {"none", "invalid_request", "invalid_tool", "duplicate_tool", "message_too_large",
                 "unsupported_encrypted_agent_message"}
    BY <2>2 DEF RequestError
  <2>4. \A i \in 1..Len(turn.history) : turn.history[i].parts # <<>>
    BY InputHoldsSomething
  <2> HIDE DEF turn, err
  <2>5. \A i \in 1..Len(input'.history) : input'.history[i].parts # <<>>
    BY <2>1, <2>4 DEF TalkInv
  <2> QED
    BY <2>1, <2>3, <2>5 DEF TalkInv
<1> QED
  BY <1>1, <1>2, <1>3, <1>4, <1>5, <1>6 DEF CallerStep

LEMMA CursorStepTalks == CallsInv /\ TalkInv /\ CursorStep => TalkInv'
<1> SUFFICES ASSUME CallsInv, TalkInv, CursorStep PROVE TalkInv'
  OBVIOUS
<1>0. \A i \in 1..Len(NoInput.history) : NoInput.history[i].parts # <<>>
  BY Nothing DEF NoInput
<1>1. ASSUME NEW text, NEW calls, NEW cursorIDs, NEW callsFirst \in BOOLEAN, NEW speeches,
             Answered(text, calls, cursorIDs, callsFirst, speeches), Speeches(speeches),
             \A i \in 1..Len(calls) : Safe(calls[i].id) /\ calls[i].tool.custom \in BOOLEAN
      PROVE  TalkInv'
  <2>1. /\ error' = error /\ phase' = "caller" /\ input' = NoInput /\ spoken' = spoken \o speeches
        /\ waiting' = {Waiting(calls[i], cursorIDs[i]) : i \in 1..Len(calls)}
    BY <1>1 DEF Answered
  <2>2. CanWait(waiting')
    <3>1. ASSUME NEW i \in 1..Len(calls)
          PROVE  /\ Safe(Waiting(calls[i], cursorIDs[i]).id)
                 /\ Waiting(calls[i], cursorIDs[i]).custom \in BOOLEAN
      BY <1>1 DEF Waiting
    <3> QED
      BY <2>1, <3>1 DEF CanWait
  <2>3. Speeches(spoken \o speeches)
    BY <1>1, JoinedSpeeches DEF TalkInv
  <2> QED
    BY <1>0, <2>1, <2>2, <2>3 DEF TalkInv
<1>2. CASE CursorSpeaks
  <2>1. \A i \in 1..Len(<<>>) : Safe(<<>>[i].id) /\ <<>>[i].tool.custom \in BOOLEAN
    BY Nothing
  <2>2. Answered(Text(NewWording), <<>>, <<>>, FALSE, <<Speech("assistant", Part(<<NewWording>>))>>)
    BY <1>2 DEF CursorSpeaks
  <2> QED
    BY <1>1, <2>1, <2>2, OneSpeech
<1>3. ASSUME phase = "cursor", NEW toolName, NEW name, NEW id, NEW form, NEW says \in BOOLEAN, NEW callsFirst \in BOOLEAN,
             CursorCalls(toolName, name, id, form, says, callsFirst)
      PROVE  TalkInv'
  <2> DEFINE identities == Parsed[declared].identities
             wire       == ResolvedWire(toolName, name, identities)
             tool       == identities[wire]
             fresh      == Plain(NewWording + 1)
             cursorID   == IF id.form = "blank" THEN fresh ELSE id
             call       == [id |-> NormalizeToolCallID(id, fresh), tool |-> tool, args |-> Args(NewWording + 1, form)]
             remark     == IF says THEN <<Speech("assistant", Part(<<NewWording>>))>> ELSE <<>>
             said       == <<Speech("assistant", CallPart(cursorID, wire, call.args))>>
  <2>1. ToolError(declared) = "none"
    BY <1>3 DEF CallsInv
  <2>2. wire \in DOMAIN identities
    BY <1>3 DEF CursorCalls, ResolvedWire
  <2>3. tool.custom \in BOOLEAN
    BY <2>1, <2>2, IdentityIsDeclared
  <2>4. Safe(NormalizeToolCallID(id, fresh))
    <3>1. Safe(fresh)
      BY DEF Safe, Plain
    <3> HIDE DEF fresh
    <3> QED
      BY <3>1, CallIDsAreSafe
  <2>5. call.tool = tool /\ call.id = NormalizeToolCallID(id, fresh)
    OBVIOUS
  <2>6. PICK text, cursorIDs : Answered(text, <<call>>, cursorIDs, callsFirst, remark \o said)
    BY <1>3 DEF CursorCalls
  <2>7. Speeches(remark \o said)
    BY OneSpeech, NoSpeech, JoinedSpeeches
  <2> HIDE DEF call, tool, remark, said
  <2>8. \A i \in 1..Len(<<call>>) : Safe(<<call>>[i].id) /\ <<call>>[i].tool.custom \in BOOLEAN
    <3>1. \A i \in 1..Len(<<call>>) : <<call>>[i] = call
      OBVIOUS
    <3> QED
      BY <2>3, <2>4, <2>5, <3>1
  <2> QED
    BY <1>1, <2>6, <2>7, <2>8
<1>4. ASSUME NEW toolName, NEW name, NEW stringInput, CallFails(toolName, name, stringInput)
      PROVE  TalkInv'
  <2>1. /\ error' \in {"unknown_tool", "invalid_tool_input"} /\ phase' = "caller" /\ input' = NoInput
        /\ waiting' = waiting /\ spoken' = spoken
    BY <1>4 DEF CallFails
  <2> QED
    BY <1>0, <2>1 DEF TalkInv
<1> QED
  BY <1>2, <1>3, <1>4 DEF CursorStep

LEMMA TalkInvariance == Spec => []TalkInv
<1>1. CallsInv /\ TalkInv /\ [Next]_vars => TalkInv'
  <2> SUFFICES ASSUME CallsInv, TalkInv, [Next]_vars PROVE TalkInv'
    OBVIOUS
  <2>1. CASE UNCHANGED vars
    BY <2>1 DEF vars, TalkInv
  <2> QED
    BY <2>1, CallerStepTalks, CursorStepTalks DEF Next
<1> QED
  BY <1>1, TalkInit, CallsInvariance, PTL DEF Spec

(* Conversation.TypeOK: whatever is said, each ID a caller has to answer   *)
(* is one its API accepts, a request is refused with one of the errors of  *)
(* turnInput and parseTools, and no message of the history Cursor is given *)
(* is empty, however the items were merged.                                *)
THEOREM ConversationTypeCorrect == Spec => []TypeOK
<1>1. CallsInv /\ TalkInv => TypeOK
  BY DEF CallsInv, TalkInv, TypeOK, CanWait, Speeches
<1> QED
  BY <1>1, CallsInvariance, TalkInvariance, PTL

-----------------------------------------------------------------------------
(* The history grows with the transcript: an item's records are merged     *)
(* into what was merged of the items before it.                            *)
LEMMA Appended ==
    ASSUME NEW s, NEW x, IsSeq(s)
    PROVE  /\ IsSeq(Append(s, x)) /\ Len(s) \in Nat /\ Len(Append(s, x)) = Len(s) + 1
           /\ \A i \in 1..Len(s) : Append(s, x)[i] = s[i]
           /\ Append(s, x)[Len(s) + 1] = x
           /\ s \o <<x>> = Append(s, x)
<1>1. PICK S : s \in Seq(S)
  BY DEF IsSeq
<1>2. s \in Seq(S \cup {x}) /\ x \in S \cup {x}
  BY <1>1
<1>3. Append(s, x) \in Seq(S \cup {x}) /\ Len(Append(s, x)) = Len(s) + 1 /\ Len(s) \in Nat
  BY <1>2
<1>4. \A i \in 1..Len(s) : Append(s, x)[i] = s[i]
  BY <1>2
<1>5. Append(s, x)[Len(s) + 1] = x
  BY <1>2
<1>6. s \o <<x>> = Append(s, x)
  BY <1>2
<1> QED
  BY <1>3, <1>4, <1>5, <1>6 DEF IsSeq

LEMMA MergedAppend ==
    ASSUME NEW records, NEW record, IsSeq(records)
    PROVE  MergedHistory(Append(records, record)) = Plus(MergedHistory(records), record)
<1> DEFINE longer == Append(records, record)
           n      == Len(records)
<1>1. /\ n \in Nat /\ Len(longer) = n + 1 /\ longer[n + 1] = record
      /\ \A i \in 1..n : longer[i] = records[i]
  BY Appended
<1> HIDE DEF longer
<1>2. PICK c : MergeSteps(c, records) /\ MergedHistory(records) = c[n]
  BY <1>1, MergeFold
<1>3. PICK d : MergeSteps(d, longer) /\ MergedHistory(longer) = d[n + 1]
  <2>1. Len(longer) \in Nat
    BY <1>1
  <2> QED
    BY <1>1, <2>1, MergeFold
<1>4. \A k \in 1..n : k \in 1..Len(longer)
  BY <1>1
<1>5. c[n] = d[n]
  BY <1>1, <1>2, <1>3, <1>4, MergeAgrees
<1>6. d[n + 1] = Plus(d[n], record)
  <2>1. n + 1 \in 1..Len(longer) /\ (n + 1) - 1 = n
    BY <1>1
  <2>2. d[n + 1] = Plus(d[(n + 1) - 1], longer[n + 1])
    BY <1>3, <2>1 DEF MergeSteps
  <2> QED
    BY <1>1, <2>1, <2>2
<1> QED
  BY <1>2, <1>3, <1>5, <1>6 DEF longer

LEMMA FlattenAppend ==
    ASSUME NEW seqs, NEW s, IsSeq(seqs), IsSeq(s)
    PROVE  FlattenSeq(Append(seqs, s)) = FlattenSeq(seqs) \o s
<1> DEFINE longer == Append(seqs, s)
           n      == Len(seqs)
<1>1. /\ n \in Nat /\ Len(longer) = n + 1 /\ longer[n + 1] = s
      /\ \A i \in 1..n : longer[i] = seqs[i]
  BY Appended
<1> HIDE DEF longer
<1>2. PICK d : FlattenSteps(d, longer) /\ FlattenSeq(longer) = d[n + 1]
  <2>1. Len(longer) \in Nat /\ Len(longer) # 0
    BY <1>1
  <2> QED
    BY <1>1, <2>1, FlattenFold
<1>3. d[n + 1] = IF n + 1 = 1 THEN s ELSE d[n] \o s
  <2>1. n + 1 \in 1..Len(longer) /\ (n + 1) - 1 = n
    BY <1>1
  <2>2. d[n + 1] = IF n + 1 = 1 THEN longer[n + 1] ELSE d[(n + 1) - 1] \o longer[n + 1]
    BY <1>2, <2>1 DEF FlattenSteps
  <2> QED
    BY <1>1, <2>1, <2>2
<1>4. CASE n = 0
  <2>1. FlattenSeq(seqs) = <<>>
    BY <1>4 DEF FlattenSeq, IsSeq
  <2>2. <<>> \o s = s
    BY DEF IsSeq
  <2> QED
    BY <1>2, <1>3, <1>4, <2>1, <2>2 DEF longer
<1>5. CASE n # 0
  <2>1. PICK c : FlattenSteps(c, seqs) /\ FlattenSeq(seqs) = c[n]
    BY <1>1, <1>5, FlattenFold
  <2>2. \A k \in 1..n : k \in 1..Len(longer)
    BY <1>1
  <2>3. c[n] = d[n]
    BY <1>1, <1>2, <1>5, <2>1, <2>2, FlattenAgrees
  <2>4. n + 1 # 1
    BY <1>1, <1>5
  <2> QED
    BY <1>2, <1>3, <2>1, <2>3, <2>4 DEF longer
<1> QED
  BY <1>4, <1>5

LEMMA ItemMerged ==
    ASSUME NEW items, NEW item, Shaped(items), ItemShape(item)
    PROVE  /\ Records(item) = <<>> => MergedItems(Append(items, item)) = MergedItems(items)
           /\ \A r : Records(item) = <<r>> =>
                        MergedItems(Append(items, item)) = Plus(MergedItems(items), r)
           /\ \A q, r : Records(item) = <<q, r>> =>
                        MergedItems(Append(items, item)) = Plus(Plus(MergedItems(items), q), r)
<1> DEFINE longer == Append(items, item)
           before == [i \in 1..Len(items) |-> Records(items[i])]
           after  == [i \in 1..Len(longer) |-> Records(longer[i])]
           flat   == FlattenSeq(before)
<1>1. /\ Len(items) \in Nat /\ Len(longer) = Len(items) + 1 /\ longer[Len(items) + 1] = item
      /\ \A i \in 1..Len(items) : longer[i] = items[i]
  BY Appended DEF Shaped
<1>2. IsSeq(before) /\ IsSeq(flat) /\ IsSeq(Records(item))
  BY FlatItems, ItemRecords DEF GoodRecords
<1> HIDE DEF longer
<1>3. after = Append(before, Records(item))
  <2> DEFINE n == Len(items)
             more == Append(before, Records(item))
  <2>1. Len(before) = n /\ \A i \in 1..n : before[i] = Records(items[i])
    BY <1>1
  <2>2. /\ IsSeq(more) /\ Len(more) = n + 1 /\ more[n + 1] = Records(item)
        /\ \A i \in 1..n : more[i] = before[i]
    BY <1>2, <2>1, Appended
  <2> HIDE DEF more, before, n
  <2>3. \A i \in 1..(n + 1) : more[i] = Records(longer[i])
    <3>1. ASSUME NEW i \in 1..(n + 1)
          PROVE  more[i] = Records(longer[i])
      <4>1. CASE i = n + 1
        BY <1>1, <2>2, <4>1 DEF n
      <4>2. CASE i # n + 1
        <5>1. i \in 1..n
          BY <1>1, <4>2 DEF n
        <5> QED
          BY <1>1, <2>1, <2>2, <5>1 DEF n
      <4> QED
        BY <4>1, <4>2
    <3> QED
      BY <3>1
  <2>4. more = [i \in 1..(n + 1) |-> more[i]]
    BY <2>2 DEF IsSeq
  <2>5. Len(longer) = n + 1
    BY <1>1 DEF n
  <2> QED
    BY <2>3, <2>4, <2>5 DEF more
<1> HIDE DEF before, after
<1>4. FlattenSeq(after) = flat \o Records(item)
  BY <1>2, <1>3, FlattenAppend
<1>5. MergedItems(longer) = MergedHistory(flat \o Records(item)) /\ MergedItems(items) = MergedHistory(flat)
  BY <1>4 DEF MergedItems, before, after
<1> HIDE DEF flat
<1>6. flat \o <<>> = flat
  BY <1>2 DEF IsSeq
<1>7. ASSUME NEW r
      PROVE  MergedHistory(flat \o <<r>>) = Plus(MergedHistory(flat), r)
  BY <1>2, Appended, MergedAppend
<1>8. ASSUME NEW q, NEW r
      PROVE  MergedHistory(flat \o <<q, r>>) = Plus(Plus(MergedHistory(flat), q), r)
  <2>1. flat \o <<q, r>> = Append(Append(flat, q), r)
    <3>1. PICK S : flat \in Seq(S)
      BY <1>2 DEF IsSeq
    <3>2. flat \in Seq(S \cup {q, r}) /\ q \in S \cup {q, r} /\ r \in S \cup {q, r}
      BY <3>1
    <3> QED
      BY <3>2
  <2>2. IsSeq(Append(flat, q))
    BY <1>2, Appended
  <2> QED
    BY <1>2, <2>1, <2>2, MergedAppend
<1> QED
  BY <1>5, <1>6, <1>7, <1>8 DEF longer

-----------------------------------------------------------------------------
(* The calls and the results of a message, by their IDs.                   *)
PartIDs(parts, kind) == {parts[j].id : j \in {k \in 1..Len(parts) : parts[k].type = kind}}

CallsOf(record)   == PartIDs(record.parts, "tool-call")
ResultsOf(record) == PartIDs(record.parts, "tool-result")

(* A history in which every message of results answers the message before  *)
(* it, and every message with calls is followed by its results, but for    *)
(* the calls of the newest that are still owed.                            *)
Owing(history, owed) ==
    /\ GoodRecords(history)
    /\ \A i \in 1..Len(history) :
          /\ CallsOf(history[i]) # {} =>
                /\ history[i].role = "assistant"
                /\ i < Len(history) => history[i + 1].role = "tool"
                /\ i = Len(history) => CallsOf(history[i]) = owed
          /\ history[i].role = "tool" =>
                /\ i > 1
                /\ CallsOf(history[i - 1]) =
                      ResultsOf(history[i]) \cup (IF i = Len(history) THEN owed ELSE {})
    /\ owed # {} => /\ Len(history) > 0
                    /\ \/ history[Len(history)].role = "tool"
                       \/ CallsOf(history[Len(history)]) # {}

LEMMA JoinedParts ==
    ASSUME NEW p, NEW q, NEW kind, IsSeq(p), IsSeq(q)
    PROVE  PartIDs(p \o q, kind) = PartIDs(p, kind) \cup PartIDs(q, kind)
<1> DEFINE c == p \o q
<1>1. /\ Len(c) = Len(p) + Len(q) /\ Len(p) \in Nat /\ Len(q) \in Nat
      /\ \A i \in 1..Len(p) : c[i] = p[i]
      /\ \A i \in 1..Len(q) : c[Len(p) + i] = q[i]
      /\ \A i \in 1..Len(c) : i \in 1..Len(p) \/ \E k \in 1..Len(q) : i = Len(p) + k
  <2>1. /\ Len(c) = Len(p) + Len(q) /\ Len(p) \in Nat /\ Len(q) \in Nat
    BY Joined
  <2>2. \A i \in 1..Len(p) : c[i] = p[i]
    BY Joined
  <2>3. \A i \in 1..Len(q) : c[Len(p) + i] = q[i]
    BY Joined
  <2>4. \A i \in 1..Len(c) : i \in 1..Len(p) \/ \E k \in 1..Len(q) : i = Len(p) + k
    BY Joined
  <2> QED
    BY <2>1, <2>2, <2>3, <2>4
<1> HIDE DEF c
<1>2. ASSUME NEW i \in 1..Len(p), p[i].type = kind
      PROVE  \E j \in 1..Len(c) : c[j].type = kind /\ c[j].id = p[i].id
  <2>1. i \in 1..Len(c) /\ c[i] = p[i]
    BY <1>1
  <2> QED
    BY <1>2, <2>1
<1>3. ASSUME NEW i \in 1..Len(q), q[i].type = kind
      PROVE  \E j \in 1..Len(c) : c[j].type = kind /\ c[j].id = q[i].id
  <2>1. Len(p) + i \in 1..Len(c) /\ c[Len(p) + i] = q[i]
    BY <1>1
  <2> QED
    BY <1>3, <2>1
<1>4. ASSUME NEW j \in 1..Len(c), c[j].type = kind
      PROVE  \/ \E i \in 1..Len(p) : p[i].type = kind /\ p[i].id = c[j].id
             \/ \E i \in 1..Len(q) : q[i].type = kind /\ q[i].id = c[j].id
  <2>1. CASE j \in 1..Len(p)
    BY <1>1, <1>4, <2>1
  <2>2. CASE \E k \in 1..Len(q) : j = Len(p) + k
    BY <1>1, <1>4, <2>2
  <2> QED
    BY <1>1, <2>1, <2>2
<1> DEFINE P == PartIDs(p, kind)
           Q == PartIDs(q, kind)
           C == PartIDs(c, kind)
<1>5. /\ P = {p[j].id : j \in {k \in 1..Len(p) : p[k].type = kind}}
      /\ Q = {q[j].id : j \in {k \in 1..Len(q) : q[k].type = kind}}
      /\ C = {c[j].id : j \in {k \in 1..Len(c) : c[k].type = kind}}
  BY DEF PartIDs
<1> HIDE DEF P, Q, C
<1>6. \A id \in P : id \in C
  BY <1>2, <1>5
<1>7. \A id \in Q : id \in C
  BY <1>3, <1>5
<1>8. \A id \in C : id \in P \/ id \in Q
  BY <1>4, <1>5
<1>9. C = P \cup Q
  BY <1>6, <1>7, <1>8
<1> QED
  BY <1>9 DEF P, Q, C, c

(* A record that begins a message of its own: with nothing owed, or as the *)
(* first result of the calls before it.                                    *)
LEMMA OwingAppends ==
    ASSUME NEW history, NEW owed, NEW record, NEW left, Owing(history, owed), GoodRecord(record),
           CallsOf(record) # {} => record.role = "assistant",
           \/ owed = {} /\ record.role # "tool" /\ left = CallsOf(record)
           \/ /\ record.role = "tool" /\ ResultsOf(record) # {} /\ owed = ResultsOf(record) \cup left
              /\ history # <<>> => history[Len(history)].role # "tool"
    PROVE  Owing(Append(history, record), left)
<1> DEFINE longer == Append(history, record)
           n      == Len(history)
<1>1. /\ IsSeq(longer) /\ n \in Nat /\ Len(longer) = n + 1 /\ longer[n + 1] = record
      /\ \A i \in 1..n : longer[i] = history[i]
  BY Appended DEF Owing, GoodRecords
<1>0. history # <<>> <=> n > 0
  <2>1. n = 0 => history = <<>>
    BY DEF Owing, GoodRecords, IsSeq
  <2> QED
    BY <1>1, <2>1, Nothing
<1> HIDE DEF longer, n
<1>2. GoodRecords(longer)
  <2>1. \A i \in 1..n : GoodRecord(history[i])
    BY DEF Owing, GoodRecords, n
  <2>2. \A i \in 1..(n + 1) : i \in 1..n \/ i = n + 1
    BY <1>1
  <2> QED
    BY <1>1, <2>1, <2>2 DEF GoodRecords
<1>3. /\ owed # {} => n > 0 /\ (history[n].role = "tool" \/ CallsOf(history[n]) # {})
      /\ n > 0 /\ CallsOf(history[n]) # {} => CallsOf(history[n]) = owed
  <2>1. n > 0 => n \in 1..n
    BY <1>1
  <2> QED
    BY <2>1 DEF Owing, n
<1>4. record.role = "tool" => /\ n > 0 /\ CallsOf(history[n]) = owed /\ left \subseteq owed
                              /\ CallsOf(record) = {}
  BY <1>0, <1>3 DEF n
<1>5. ASSUME NEW i \in 1..(n + 1), CallsOf(longer[i]) # {}
      PROVE  /\ longer[i].role = "assistant"
             /\ i < n + 1 => longer[i + 1].role = "tool"
             /\ i = n + 1 => CallsOf(longer[i]) = left
  <2>1. CASE i = n + 1
    BY <1>1, <1>4, <1>5, <2>1
  <2>2. CASE i # n + 1
    <3>1. i \in 1..n /\ longer[i] = history[i]
      BY <1>1, <2>2
    <3>2. CASE i = n
      <4>1. n > 0 /\ CallsOf(history[n]) = owed /\ owed # {}
        BY <1>1, <1>3, <1>5, <3>1, <3>2
      <4>2. longer[i + 1] = record /\ record.role = "tool"
        BY <1>1, <3>2, <4>1
      <4> QED
        BY <1>1, <1>5, <3>1, <3>2, <4>2 DEF Owing, n
    <3>3. CASE i # n
      <4>1. i < n /\ i + 1 \in 1..n
        BY <1>1, <3>1, <3>3
      <4>2. history[i].role = "assistant" /\ history[i + 1].role = "tool"
        BY <1>5, <3>1, <4>1 DEF Owing, n
      <4> QED
        BY <1>1, <2>2, <3>1, <4>1, <4>2
    <3> QED
      BY <3>2, <3>3
  <2> QED
    BY <2>1, <2>2
<1>6. ASSUME NEW i \in 1..(n + 1), longer[i].role = "tool"
      PROVE  /\ i > 1
             /\ CallsOf(longer[i - 1]) = ResultsOf(longer[i]) \cup (IF i = n + 1 THEN left ELSE {})
  <2>1. CASE i = n + 1
    <3>1. i - 1 = n /\ record.role = "tool"
      BY <1>1, <1>6, <2>1
    <3>2. n \in 1..n
      BY <1>1, <1>4, <3>1
    <3> QED
      BY <1>1, <1>4, <2>1, <3>1, <3>2
  <2>2. CASE i # n + 1
    <3>1. i \in 1..n /\ longer[i] = history[i]
      BY <1>1, <2>2
    <3>2. i > 1 /\ CallsOf(history[i - 1]) = ResultsOf(history[i]) \cup (IF i = n THEN owed ELSE {})
      BY <1>6, <3>1 DEF Owing, n
    <3>3. i - 1 \in 1..n
      BY <1>1, <3>1, <3>2
    <3>4. i = n => owed = {}
      BY <1>0, <1>4, <1>6, <3>1 DEF n
    <3> QED
      BY <1>1, <2>2, <3>1, <3>2, <3>3, <3>4
  <2> QED
    BY <2>1, <2>2
<1>7. left # {} => longer[n + 1].role = "tool" \/ CallsOf(longer[n + 1]) # {}
  BY <1>1
<1>8. Owing(longer, left)
  <2>1. Len(longer) = n + 1 /\ Len(longer) > 0
    BY <1>1
  <2>2. \A i \in 1..Len(longer) :
           /\ CallsOf(longer[i]) # {} =>
                 /\ longer[i].role = "assistant"
                 /\ i < Len(longer) => longer[i + 1].role = "tool"
                 /\ i = Len(longer) => CallsOf(longer[i]) = left
           /\ longer[i].role = "tool" =>
                 /\ i > 1
                 /\ CallsOf(longer[i - 1]) =
                       ResultsOf(longer[i]) \cup (IF i = Len(longer) THEN left ELSE {})
    BY <1>5, <1>6, <2>1, SMTT(40)
  <2>3. left # {} => longer[Len(longer)].role = "tool" \/ CallsOf(longer[Len(longer)]) # {}
    BY <1>7, <2>1, Zenon
  <2> QED
    BY <1>2, <2>1, <2>2, <2>3 DEF Owing
<1> QED
  BY <1>8 DEF longer

LEMMA JoinedLast ==
    ASSUME NEW history, NEW record, GoodRecords(history), GoodRecord(record), history # <<>>
    PROVE  LET longer == Added(history, record, TRUE)
               n      == Len(history)
           IN  /\ GoodRecords(longer) /\ n \in Nat /\ n > 0 /\ Len(longer) = n
               /\ \A i \in 1..n : i # n => longer[i] = history[i]
               /\ longer[n].role = history[n].role
               /\ CallsOf(longer[n]) = CallsOf(history[n]) \cup CallsOf(record)
               /\ ResultsOf(longer[n]) = ResultsOf(history[n]) \cup ResultsOf(record)
<1> DEFINE longer == Added(history, record, TRUE)
           n      == Len(history)
           parts  == history[n].parts \o record.parts
           last   == [history[n] EXCEPT !.parts = parts]
<1>1. PICK S : history \in Seq(S)
  BY DEF GoodRecords, IsSeq
<1>2. n \in Nat /\ n > 0 /\ DOMAIN history = 1..n
  BY <1>1
<1>3. GoodRecord(history[n])
  BY <1>2 DEF GoodRecords
<1>4. longer = [history EXCEPT ![n] = last]
  BY DEF Added
<1>5. GoodRecords(longer)
  BY AddedRecord
<1> HIDE DEF longer, last
<1>6. DOMAIN longer = 1..n /\ \A i \in 1..n : longer[i] = IF i = n THEN last ELSE history[i]
  BY <1>2, <1>4
<1>7. Len(longer) = n
  <2>1. DOMAIN longer = 1..Len(longer) /\ Len(longer) \in Nat
    BY <1>5 DEF GoodRecords, IsSeq
  <2> HIDE DEF n
  <2> QED
    BY <1>2, <1>6, <2>1
<1>8. last.role = history[n].role /\ last.parts = parts
  <2> DEFINE r == history[n]
  <2>1. r = [role |-> r.role, parts |-> r.parts]
    BY <1>3 DEF GoodRecord
  <2>2. last = [r EXCEPT !.parts = parts]
    BY DEF last
  <2> HIDE DEF r, parts
  <2>3. last.role = r.role /\ last.parts = parts
    BY <2>1, <2>2
  <2> QED
    BY <2>3 DEF r
<1>9. /\ CallsOf(last) = CallsOf(history[n]) \cup CallsOf(record)
      /\ ResultsOf(last) = ResultsOf(history[n]) \cup ResultsOf(record)
  <2>1. IsSeq(history[n].parts) /\ IsSeq(record.parts)
    BY <1>3 DEF GoodRecord
  <2> HIDE DEF n
  <2> QED
    BY <1>8, <2>1, JoinedParts DEF CallsOf, ResultsOf
<1> HIDE DEF n
<1>10. n \in 1..n
  BY <1>2
<1> QED
  BY <1>2, <1>5, <1>6, <1>7, <1>8, <1>9, <1>10 DEF longer, n

(* A record that joins the newest message.                                 *)
LEMMA OwingJoins ==
    ASSUME NEW history, NEW owed, NEW record, NEW left, Owing(history, owed), GoodRecord(record),
           history # <<>>, history[Len(history)].role = record.role,
           \/ record.role = "assistant" /\ left = owed \cup CallsOf(record)
           \/ record.role = "tool" /\ CallsOf(record) = {} /\ owed = ResultsOf(record) \cup left
    PROVE  Owing(Added(history, record, TRUE), left)
<1> DEFINE longer == Added(history, record, TRUE)
           n      == Len(history)
<1>1. /\ GoodRecords(longer) /\ n \in Nat /\ n > 0 /\ Len(longer) = n
      /\ \A i \in 1..n : i # n => longer[i] = history[i]
      /\ longer[n].role = record.role /\ history[n].role = record.role
      /\ CallsOf(longer[n]) = CallsOf(history[n]) \cup CallsOf(record)
      /\ ResultsOf(longer[n]) = ResultsOf(history[n]) \cup ResultsOf(record)
  <2>1. GoodRecords(history)
    BY DEF Owing
  <2> QED
    BY <2>1, JoinedLast
<1> HIDE DEF longer, n
<1>2. n \in 1..n
  BY <1>1
<1>3. record.role = "assistant" => CallsOf(history[n]) = owed
  <2>1. CallsOf(history[n]) # {} => CallsOf(history[n]) = owed
    BY <1>2 DEF Owing, n
  <2>2. owed # {} => history[n].role = "tool" \/ CallsOf(history[n]) # {}
    BY DEF Owing, n
  <2>3. "tool" # "assistant"
    OBVIOUS
  <2> QED
    BY <1>1, <2>1, <2>2, <2>3
<1>4. record.role = "tool" => CallsOf(history[n]) = {}
  BY <1>1, <1>2 DEF Owing, n
<1>5. ASSUME NEW i \in 1..n, CallsOf(longer[i]) # {}
      PROVE  /\ longer[i].role = "assistant"
             /\ i < n => longer[i + 1].role = "tool"
             /\ i = n => CallsOf(longer[i]) = left
  <2>1. CASE i = n
    <3>1. record.role = "assistant"
      BY <1>1, <1>4, <1>5, <2>1
    <3>2. CallsOf(longer[n]) = left
      BY <1>1, <1>3, <3>1
    <3> QED
      BY <1>1, <2>1, <3>1, <3>2
  <2>2. CASE i # n
    <3>1. longer[i] = history[i] /\ i < n /\ i + 1 \in 1..n
      BY <1>1, <2>2
    <3>2. history[i].role = "assistant" /\ history[i + 1].role = "tool"
      BY <1>5, <3>1 DEF Owing, n
    <3>3. longer[i + 1].role = history[i + 1].role
      BY <1>1, <3>1
    <3> QED
      BY <2>2, <3>1, <3>2, <3>3
  <2> QED
    BY <2>1, <2>2
<1>6. ASSUME NEW i \in 1..n, longer[i].role = "tool"
      PROVE  /\ i > 1
             /\ CallsOf(longer[i - 1]) = ResultsOf(longer[i]) \cup (IF i = n THEN left ELSE {})
  <2>1. history[i].role = "tool"
    BY <1>1, <1>6
  <2>2. i > 1 /\ CallsOf(history[i - 1]) = ResultsOf(history[i]) \cup (IF i = n THEN owed ELSE {})
    BY <2>1 DEF Owing, n
  <2>3. longer[i - 1] = history[i - 1]
    BY <1>1, <2>2
  <2>4. CASE i = n
    <3>1. owed = ResultsOf(record) \cup left
      BY <1>1, <1>6, <2>4
    <3>2. CallsOf(history[i - 1]) = ResultsOf(history[n]) \cup (ResultsOf(record) \cup left)
      BY <2>2, <2>4, <3>1
    <3> QED
      BY <1>1, <2>2, <2>3, <2>4, <3>2
  <2>5. CASE i # n
    BY <1>1, <2>2, <2>3, <2>5
  <2> QED
    BY <2>4, <2>5
<1>7. left # {} => longer[n].role = "tool" \/ CallsOf(longer[n]) # {}
  BY <1>1, <1>3
<1>8. Owing(longer, left)
  <2>1. \A i \in 1..Len(longer) :
           /\ CallsOf(longer[i]) # {} =>
                 /\ longer[i].role = "assistant"
                 /\ i < Len(longer) => longer[i + 1].role = "tool"
                 /\ i = Len(longer) => CallsOf(longer[i]) = left
           /\ longer[i].role = "tool" =>
                 /\ i > 1
                 /\ CallsOf(longer[i - 1]) =
                       ResultsOf(longer[i]) \cup (IF i = Len(longer) THEN left ELSE {})
    BY <1>1, <1>5, <1>6
  <2>2. Len(longer) > 0 /\ (left # {} => longer[Len(longer)].role = "tool" \/ CallsOf(longer[Len(longer)]) # {})
    BY <1>1, <1>7
  <2> QED
    BY <1>1, <2>1, <2>2 DEF Owing
<1> QED
  BY <1>8 DEF longer

(* What each kind of record does to what is owed, wherever mergeHistory-   *)
(* Messages puts it.                                                       *)
LEMMA PlusUser ==
    ASSUME NEW history, NEW record, Owing(history, {}), GoodRecord(record),
           record.role = "user", CallsOf(record) = {}
    PROVE  Owing(Plus(history, record), {}) /\ Plus(history, record) = Append(history, record)
<1>1. Plus(history, record) = Append(history, record)
  BY DEF Plus, Added
<1> QED
  BY <1>1, OwingAppends

LEMMA PlusAssistant ==
    ASSUME NEW history, NEW owed, NEW record, Owing(history, owed), GoodRecord(record),
           record.role = "assistant",
           owed = {} \/ (history # <<>> /\ history[Len(history)].role = "assistant")
    PROVE  LET longer == Plus(history, record)
           IN  /\ Owing(longer, owed \cup CallsOf(record))
               /\ longer # <<>> /\ longer[Len(longer)].role = "assistant"
<1>1. CASE Joins(history, record)
  <2>1. history # <<>> /\ history[Len(history)].role = record.role
    BY <1>1 DEF Joins, Last
  <2>2. Plus(history, record) = Added(history, record, TRUE)
    BY <1>1 DEF Plus
  <2>3. Owing(Added(history, record, TRUE), owed \cup CallsOf(record))
    BY <2>1, OwingJoins
  <2> DEFINE longer == Added(history, record, TRUE)
  <2>4. Len(longer) = Len(history) /\ Len(history) > 0 /\ longer[Len(history)].role = "assistant"
    BY <2>1, JoinedLast DEF Owing
  <2> HIDE DEF longer
  <2>5. longer # <<>>
    BY <2>4, Nothing
  <2> QED
    BY <2>2, <2>3, <2>4, <2>5 DEF longer
<1>2. CASE ~ Joins(history, record)
  <2>1. owed = {}
    BY <1>2 DEF Joins, Last
  <2>2. Plus(history, record) = Append(history, record)
    BY <1>2 DEF Plus, Added
  <2>3. Owing(Append(history, record), CallsOf(record))
    BY <2>1, OwingAppends
  <2> DEFINE longer == Append(history, record)
  <2>4. Len(longer) = Len(history) + 1 /\ longer[Len(history) + 1] = record /\ Len(history) \in Nat
    BY Appended DEF Owing, GoodRecords
  <2>5. owed \cup CallsOf(record) = CallsOf(record)
    BY <2>1
  <2> HIDE DEF longer
  <2>6. longer # <<>>
    BY <2>4, Nothing
  <2> QED
    BY <2>2, <2>3, <2>4, <2>5, <2>6 DEF longer
<1> QED
  BY <1>1, <1>2

LEMMA PlusResult ==
    ASSUME NEW history, NEW owed, NEW left, NEW record, Owing(history, owed), GoodRecord(record),
           record.role = "tool", CallsOf(record) = {}, ResultsOf(record) # {},
           owed = ResultsOf(record) \cup left
    PROVE  Owing(Plus(history, record), left)
<1>1. CASE Joins(history, record)
  <2>1. history # <<>> /\ history[Len(history)].role = record.role
    BY <1>1 DEF Joins, Last
  <2>2. Plus(history, record) = Added(history, record, TRUE)
    BY <1>1 DEF Plus
  <2> QED
    BY <2>1, <2>2, OwingJoins
<1>2. CASE ~ Joins(history, record)
  <2>1. history # <<>> => history[Len(history)].role # "tool"
    BY <1>2 DEF Joins, Last
  <2>2. Plus(history, record) = Append(history, record)
    BY <1>2 DEF Plus, Added
  <2> QED
    BY <2>1, <2>2, OwingAppends
<1> QED
  BY <1>1, <1>2

-----------------------------------------------------------------------------
(* What each kind of item of the transcript does to what is owed.          *)
LEMMA OnePartIDs ==
    ASSUME NEW x, NEW kind
    PROVE  PartIDs(<<x>>, kind) = IF x.type = kind THEN {x.id} ELSE {}
<1> DEFINE s == <<x>>
<1>1. Len(s) = 1 /\ s[1] = x
  BY Single
<1> HIDE DEF s
<1>2. \A j \in 1..Len(s) : j = 1
  BY <1>1
<1>3. 1 \in 1..Len(s)
  BY <1>1
<1>4. PartIDs(s, kind) = IF x.type = kind THEN {x.id} ELSE {}
  BY <1>1, <1>2, <1>3 DEF PartIDs
<1> QED
  BY <1>4 DEF s

LEMMA TextRecord ==
    ASSUME NEW role, NEW text
    PROVE  LET r == Record(role, <<Part(text)>>)
           IN  GoodRecord(r) /\ r.role = role /\ CallsOf(r) = {}
<1> DEFINE p == Part(text)
           r == Record(role, <<p>>)
<1>1. p.type = "text"
  BY DEF Part
<1> HIDE DEF p
<1>2. r = [role |-> r.role, parts |-> r.parts] /\ r.role = role /\ r.parts = <<p>>
  BY DEF Record
<1> HIDE DEF r
<1>3. GoodRecord(r)
  BY <1>2, OnePart DEF GoodRecord
<1>4. "text" # "tool-call"
  OBVIOUS
<1>5. CallsOf(r) = {}
  BY <1>1, <1>2, <1>4, OnePartIDs DEF CallsOf
<1> QED
  BY <1>2, <1>3, <1>5 DEF r, p

(* Messages of a user and of an agent, which may be the prompt.            *)
IsActive(item) == ItemShape(item) /\ (item.type = "agent_message" \/ item.role = "user")

LEMMA ActiveRecords ==
    ASSUME NEW item, IsActive(item)
    PROVE  \/ Records(item) = <<>>
           \/ \E r : Records(item) = <<r>> /\ GoodRecord(r) /\ r.role = "user" /\ CallsOf(r) = {}
<1>1. \/ Records(item) = <<>>
      \/ \E text : Records(item) = <<Record("user", <<Part(text)>>)>>
  <2>1. CASE item.type = "agent_message"
    BY <2>1 DEF Records, IsActive, ItemShape
  <2>2. CASE item.type = "message" /\ item.role = "user"
    BY <2>2 DEF Records
  <2> QED
    BY <2>1, <2>2 DEF IsActive, ItemShape
<1> QED
  BY <1>1, TextRecord

LEMMA ActiveOwesNothing ==
    ASSUME NEW items, NEW item, Shaped(items), IsActive(item)
    PROVE  Owing(MergedItems(items), {}) <=> Owing(MergedItems(Append(items, item)), {})
<1> DEFINE h == MergedItems(items)
           longer == MergedItems(Append(items, item))
<1>0. ItemShape(item) /\ GoodRecords(h)
  BY FlatItems DEF IsActive
<1>1. CASE Records(item) = <<>>
  BY <1>0, <1>1, ItemMerged
<1>2. CASE Records(item) # <<>>
  <2>1. PICK r : Records(item) = <<r>> /\ GoodRecord(r) /\ r.role = "user" /\ CallsOf(r) = {}
    BY <1>2, ActiveRecords
  <2>2. longer = Plus(h, r)
    BY <1>0, <2>1, ItemMerged
  <2>3. Plus(h, r) = Append(h, r)
    BY <2>1 DEF Plus, Added
  <2> HIDE DEF h, longer
  <2>4. Owing(h, {}) => Owing(longer, {})
    BY <2>1, <2>2, PlusUser
  <2>5. ASSUME Owing(longer, {})
        PROVE  Owing(h, {})
    <3> DEFINE n == Len(h)
    <3>1. /\ n \in Nat /\ Len(longer) = n + 1 /\ longer[n + 1] = r
          /\ \A i \in 1..n : longer[i] = h[i]
      BY <1>0, <2>2, <2>3, Appended DEF GoodRecords
    <3> HIDE DEF n
    <3>2. ASSUME NEW i \in 1..n
          PROVE  /\ CallsOf(h[i]) # {} =>
                       /\ h[i].role = "assistant"
                       /\ i < n => h[i + 1].role = "tool"
                       /\ i = n => CallsOf(h[i]) = {}
                 /\ h[i].role = "tool" =>
                       /\ i > 1
                       /\ CallsOf(h[i - 1]) = ResultsOf(h[i]) \cup (IF i = n THEN {} ELSE {})
      <4>1. i \in 1..Len(longer) /\ i < Len(longer) /\ longer[i] = h[i] /\ i + 1 \in 1..(n + 1)
        BY <3>1
      <4>2. CallsOf(h[i]) # {} => h[i].role = "assistant" /\ longer[i + 1].role = "tool"
        BY <2>5, <4>1 DEF Owing
      <4>3. i < n => longer[i + 1] = h[i + 1]
        BY <3>1
      <4>4. i = n => longer[i + 1].role = "user"
        BY <2>1, <3>1
      <4>5. h[i].role = "tool" => i > 1 /\ CallsOf(longer[i - 1]) = ResultsOf(h[i]) \cup {}
        BY <2>5, <4>1 DEF Owing
      <4>6. i > 1 => longer[i - 1] = h[i - 1]
        BY <3>1
      <4> QED
        BY <4>2, <4>3, <4>4, <4>5, <4>6
    <3> QED
      BY <1>0, <3>2 DEF Owing, n
  <2> QED
    BY <2>4, <2>5 DEF h, longer
<1> QED
  BY <1>1, <1>2

LEMMA SystemOwesNothing ==
    ASSUME NEW items, NEW item, Shaped(items), Owing(MergedItems(items), {}),
           item.type = "message", item.role \in {"system", "developer"}
    PROVE  Owing(MergedItems(Append(items, item)), {})
<1> DEFINE h == MergedItems(items)
           text == ContentText(item.content)
           q == Record("user", <<Part(<<SystemLeadIn>> \o text)>>)
           r == Record("assistant", <<Part(<<SystemAck>>)>>)
<1>1. ItemShape(item)
  BY DEF ItemShape
<1>2. Records(item) = <<>> \/ Records(item) = <<q, r>>
  BY DEF Records
<1>3. /\ GoodRecord(q) /\ q.role = "user" /\ CallsOf(q) = {}
      /\ GoodRecord(r) /\ r.role = "assistant" /\ CallsOf(r) = {}
  BY TextRecord
<1> HIDE DEF q, r, h
<1>4. Owing(Plus(h, q), {})
  BY <1>3, PlusUser DEF h
<1>5. Owing(Plus(Plus(h, q), r), {} \cup CallsOf(r))
  BY <1>3, <1>4, PlusAssistant
<1>6. {} \cup CallsOf(r) = {}
  BY <1>3
<1> DEFINE longer == MergedItems(Append(items, item))
<1>7. longer = h \/ longer = Plus(Plus(h, q), r)
  <2>1. CASE Records(item) = <<>>
    BY <1>1, <2>1, ItemMerged DEF h
  <2>2. CASE Records(item) = <<q, r>>
    BY <1>1, <2>2, ItemMerged DEF h
  <2> QED
    BY <1>2, <2>1, <2>2
<1> HIDE DEF longer
<1>8. Owing(longer, {})
  BY <1>5, <1>6, <1>7 DEF h
<1> QED
  BY <1>8 DEF longer

(* The result of a call, which is the message's only part.                 *)
LEMMA ResultIsOwed ==
    ASSUME NEW items, NEW item, NEW left, Shaped(items), ItemShape(item),
           \/ item.type \in {"function_call_output", "custom_tool_call_output"}
           \/ item.type = "message" /\ item.role = "tool",
           Owing(MergedItems(items), {RestoreToolCallID(item.call_id)} \cup left)
    PROVE  Owing(MergedItems(Append(items, item)), left)
<1> DEFINE h == MergedItems(items)
           x == ResultPart(RestoreToolCallID(item.call_id), ContentText(item.content))
           r == Record("tool", <<x>>)
<1>1. Records(item) = <<r>>
  BY DEF Records, ItemShape
<1>2. x.type = "tool-result" /\ x.id = RestoreToolCallID(item.call_id)
  BY DEF ResultPart
<1> HIDE DEF x
<1>3. r = [role |-> r.role, parts |-> r.parts] /\ r.role = "tool" /\ r.parts = <<x>>
  BY DEF Record
<1> HIDE DEF r
<1>4. GoodRecord(r)
  BY <1>3, OnePart DEF GoodRecord
<1>5. ResultsOf(r) = {RestoreToolCallID(item.call_id)} /\ CallsOf(r) = {}
  <2>1. "tool-result" # "tool-call"
    OBVIOUS
  <2> QED
    BY <1>2, <1>3, <2>1, OnePartIDs DEF ResultsOf, CallsOf
<1>6. MergedItems(Append(items, item)) = Plus(h, r)
  BY <1>1, ItemMerged
<1> HIDE DEF h
<1>7. Owing(Plus(h, r), left)
  <2> DEFINE owed == {RestoreToolCallID(item.call_id)} \cup left
  <2>1. owed = ResultsOf(r) \cup left /\ Owing(h, owed) /\ ResultsOf(r) # {}
    BY <1>5 DEF h
  <2> HIDE DEF owed
  <2> QED
    BY <1>3, <1>4, <1>5, <2>1, PlusResult
<1> QED
  BY <1>6, <1>7

(* What the assistant says and calls.                                      *)
IsAnswer(item) ==
    /\ ItemShape(item)
    /\ \/ item.type \in {"function_call", "custom_tool_call"}
       \/ item.type = "message" /\ item.role = "assistant"

CalledBy(item) ==
    IF item.type \in {"function_call", "custom_tool_call"} THEN {RestoreToolCallID(item.call_id)}
    ELSE {RestoreToolCallID(item.calls[i].id) : i \in 1..Len(item.calls)}

LEMMA AnswerRecords ==
    ASSUME NEW item, IsAnswer(item)
    PROVE  \/ Records(item) = <<>> /\ CalledBy(item) = {}
           \/ \E r : /\ Records(item) = <<r>> /\ GoodRecord(r)
                     /\ r.role = "assistant" /\ CallsOf(r) = CalledBy(item)
<1>1. CASE item.type \in {"function_call", "custom_tool_call"}
  <2> DEFINE x == CallPart(RestoreToolCallID(item.call_id), CallerToolName(item.namespace, item.name), CallArguments(item))
             r == Record("assistant", <<x>>)
  <2>1. Records(item) = <<r>>
    BY <1>1 DEF Records, IsAnswer, ItemShape
  <2>2. x.type = "tool-call" /\ x.id = RestoreToolCallID(item.call_id)
    BY DEF CallPart
  <2> HIDE DEF x
  <2>3. r = [role |-> r.role, parts |-> r.parts] /\ r.role = "assistant" /\ r.parts = <<x>>
    BY DEF Record
  <2> HIDE DEF r
  <2>4. GoodRecord(r)
    BY <2>3, OnePart DEF GoodRecord
  <2>5. CallsOf(r) = CalledBy(item)
    BY <1>1, <2>2, <2>3, OnePartIDs DEF CallsOf, CalledBy
  <2> QED
    BY <2>1, <2>3, <2>4, <2>5
<1>2. CASE item.type = "message" /\ item.role = "assistant"
  <2> DEFINE n     == Len(item.calls)
             texts == Texts(ContentText(item.content))
             calls == ChatCalls(item)
             parts == texts \o calls
             r     == Record("assistant", parts)
  <2>1. n \in Nat
    BY <1>2 DEF IsAnswer, ItemShape, IsSeq
  <2>2. IsSeq(texts) /\ PartIDs(texts, "tool-call") = {}
    <3>1. CASE texts = <<>>
      <4>1. IsSeq(<<>>) /\ PartIDs(<<>>, "tool-call") = {}
        BY Nothing DEF PartIDs
      <4> QED
        BY <3>1, <4>1
    <3>2. CASE texts # <<>>
      <4>1. texts = <<Part(ContentText(item.content))>>
        BY <3>2 DEF Texts
      <4> DEFINE x == Part(ContentText(item.content))
      <4>2. x.type = "text" /\ "text" # "tool-call"
        BY DEF Part
      <4> HIDE DEF x
      <4>3. IsSeq(<<x>>) /\ PartIDs(<<x>>, "tool-call") = {}
        BY <4>2, Single, OnePartIDs
      <4> QED
        BY <4>1, <4>3 DEF x
    <3> QED
      BY <3>1, <3>2
  <2>3. calls = [i \in 1..n |-> CallPart(RestoreToolCallID(item.calls[i].id), item.calls[i].name,
                                       ParseArgumentValue(item.calls[i].args))]
    BY DEF ChatCalls
  <2>4. IsSeq(calls) /\ Len(calls) = n
    <3>1. calls \in Seq({calls[i] : i \in 1..n}) /\ Len(calls) = n
      BY <2>1, <2>3
    <3> HIDE DEF calls
    <3> QED
      BY <3>1 DEF IsSeq
  <2>5. \A i \in 1..n : calls[i].type = "tool-call" /\ calls[i].id = RestoreToolCallID(item.calls[i].id)
    BY <2>3 DEF CallPart
  <2>6. Records(item) = IF parts = <<>> THEN <<>> ELSE <<r>>
    BY <1>2 DEF Records
  <2> HIDE DEF texts, calls, n
  <2>7. PartIDs(calls, "tool-call") = CalledBy(item)
    <3>1. CalledBy(item) = {RestoreToolCallID(item.calls[i].id) : i \in 1..n}
      BY <1>2 DEF CalledBy, n
    <3>2. {k \in 1..Len(calls) : calls[k].type = "tool-call"} = 1..n
      BY <2>4, <2>5
    <3>3. PartIDs(calls, "tool-call") = {calls[j].id : j \in 1..n}
      BY <3>2 DEF PartIDs
    <3> QED
      BY <2>5, <3>1, <3>3
  <2>8. IsSeq(parts) /\ PartIDs(parts, "tool-call") = CalledBy(item)
    <3>1. IsSeq(texts \o calls)
      BY <2>2, <2>4, Joined
    <3>2. PartIDs(texts \o calls, "tool-call") = PartIDs(texts, "tool-call") \cup PartIDs(calls, "tool-call")
      BY <2>2, <2>4, JoinedParts
    <3>3. PartIDs(texts \o calls, "tool-call") = CalledBy(item)
      BY <2>2, <2>7, <3>2
    <3> QED
      BY <3>1, <3>3
  <2> HIDE DEF parts
  <2>9. CASE parts = <<>>
    <3>1. PartIDs(<<>>, "tool-call") = {}
      BY Nothing DEF PartIDs
    <3> QED
      BY <2>6, <2>8, <2>9, <3>1
  <2>10. CASE parts # <<>>
    <3>1. r = [role |-> r.role, parts |-> r.parts] /\ r.role = "assistant" /\ r.parts = parts
      BY DEF Record
    <3> HIDE DEF r
    <3>2. GoodRecord(r) /\ CallsOf(r) = CalledBy(item)
      BY <2>8, <2>10, <3>1 DEF GoodRecord, CallsOf
    <3> QED
      BY <2>6, <2>10, <3>1, <3>2
  <2> QED
    BY <2>9, <2>10
<1> QED
  BY <1>1, <1>2 DEF IsAnswer

(* An answer goes on from a history that owes nothing, or that the         *)
(* assistant was the last to speak in.                                     *)
Answering(history, owed) ==
    /\ Owing(history, owed)
    /\ owed = {} \/ (history # <<>> /\ history[Len(history)].role = "assistant")

LEMMA AnswerIsOwed ==
    ASSUME NEW items, NEW item, NEW owed, Shaped(items), IsAnswer(item), Answering(MergedItems(items), owed)
    PROVE  Answering(MergedItems(Append(items, item)), owed \cup CalledBy(item))
<1> DEFINE h == MergedItems(items)
           longer == MergedItems(Append(items, item))
<1>0. ItemShape(item)
  BY DEF IsAnswer
<1>1. CASE Records(item) = <<>> /\ CalledBy(item) = {}
  <2>1. longer = h /\ owed \cup CalledBy(item) = owed
    BY <1>0, <1>1, ItemMerged
  <2> QED
    BY <2>1
<1>2. CASE ~ (Records(item) = <<>> /\ CalledBy(item) = {})
  <2>1. PICK r : Records(item) = <<r>> /\ GoodRecord(r) /\ r.role = "assistant" /\ CallsOf(r) = CalledBy(item)
    BY <1>2, AnswerRecords
  <2>2. longer = Plus(h, r)
    BY <1>0, <2>1, ItemMerged
  <2> HIDE DEF h
  <2>3. /\ Owing(Plus(h, r), owed \cup CallsOf(r))
        /\ Plus(h, r) # <<>> /\ Plus(h, r)[Len(Plus(h, r))].role = "assistant"
    BY <2>1, PlusAssistant DEF Answering, h
  <2> QED
    BY <2>1, <2>2, <2>3 DEF Answering
<1> QED
  BY <1>1, <1>2

(* One item after the other. *)
UpTo(s, t, k) == s \o SubSeq(t, 1, k)

LEMMA UpToNone ==
    ASSUME NEW s, NEW t, IsSeq(s), IsSeq(t)
    PROVE  UpTo(s, t, 0) = s
<1>1. PICK S : s \in Seq(S)
  BY DEF IsSeq
<1>2. PICK T : t \in Seq(T)
  BY DEF IsSeq
<1>3. SubSeq(t, 1, 0) = <<>> /\ s \o <<>> = s
  BY <1>1, <1>2
<1> QED
  BY <1>3 DEF UpTo

LEMMA UpToAll ==
    ASSUME NEW s, NEW t, IsSeq(t)
    PROVE  UpTo(s, t, Len(t)) = s \o t
<1>1. SubSeq(t, 1, Len(t)) = t
  BY DEF IsSeq
<1> QED
  BY <1>1 DEF UpTo

LEMMA UpToNext ==
    ASSUME NEW s, NEW t, IsSeq(s), IsSeq(t), NEW k \in 1..Len(t)
    PROVE  UpTo(s, t, k) = Append(UpTo(s, t, k - 1), t[k])
<1>1. PICK S : s \in Seq(S)
  BY DEF IsSeq
<1>2. PICK T : t \in Seq(T)
  BY DEF IsSeq
<1>3. s \in Seq(S \cup T) /\ t \in Seq(S \cup T)
  BY <1>1, <1>2
<1> DEFINE before == SubSeq(t, 1, k - 1)
<1>4. before \in Seq(S \cup T) /\ t[k] \in S \cup T
  BY <1>3
<1>5. SubSeq(t, 1, k) = Append(before, t[k])
  BY <1>3
<1> HIDE DEF before
<1>6. s \o Append(before, t[k]) = Append(s \o before, t[k])
  BY <1>3, <1>4
<1> QED
  BY <1>5, <1>6 DEF before, UpTo

LEMMA Lengthened ==
    ASSUME NEW items, NEW item, Shaped(items), ItemShape(item)
    PROVE  Shaped(Append(items, item))
<1> DEFINE longer == Append(items, item)
           n      == Len(items)
<1>1. /\ IsSeq(longer) /\ n \in Nat /\ Len(longer) = n + 1 /\ longer[n + 1] = item
      /\ \A i \in 1..n : longer[i] = items[i]
  BY Appended DEF Shaped
<1>2. \A i \in 1..n : ItemShape(items[i])
  BY DEF Shaped
<1> HIDE DEF longer, n
<1>3. \A i \in 1..(n + 1) : i \in 1..n \/ i = n + 1
  BY <1>1
<1>4. \A i \in 1..Len(longer) : ItemShape(longer[i])
  BY <1>1, <1>2, <1>3
<1> QED
  BY <1>1, <1>4 DEF Shaped, longer

Answers(items) == IsSeq(items) /\ \A i \in 1..Len(items) : IsAnswer(items[i])

CalledByAll(items, k) == UNION {CalledBy(items[i]) : i \in 1..k}

LEMMA AnswersAreOwed ==
    ASSUME NEW items, NEW added, Shaped(items), Answers(added), Owing(MergedItems(items), {})
    PROVE  Owing(MergedItems(items \o added), CalledByAll(added, Len(added)))
<1> DEFINE n    == Len(added)
           P(k) == UpTo(items, added, k)
           Done == {k \in 0..n : Shaped(P(k)) /\ Answering(MergedItems(P(k)), CalledByAll(added, k))}
<1>1. n \in Nat
  BY DEF Answers, IsSeq
<1>0. IsSeq(items) /\ IsSeq(added)
  BY DEF Shaped, Answers
<1>2. P(0) = items
  BY <1>0, UpToNone
<1>7. P(n) = items \o added
  BY <1>0, UpToAll
<1>8. ASSUME NEW k \in 1..n
      PROVE  P(k) = Append(P(k - 1), added[k])
  BY <1>0, UpToNext
<1>3. CalledByAll(added, 0) = {}
  <2>1. 1..0 = {}
    OBVIOUS
  <2> QED
    BY <2>1 DEF CalledByAll
<1> HIDE DEF P
<1>4. 0 \in Done
  <2>1. Shaped(P(0)) /\ Answering(MergedItems(P(0)), {})
    BY <1>2 DEF Answering
  <2> QED
    BY <1>1, <1>3, <2>1
<1>5. ASSUME NEW k \in 1..n, k - 1 \in Done
      PROVE  k \in Done
  <2>1. Shaped(P(k - 1)) /\ Answering(MergedItems(P(k - 1)), CalledByAll(added, k - 1))
    BY <1>5
  <2>2. IsAnswer(added[k]) /\ ItemShape(added[k])
    BY DEF Answers, IsAnswer
  <2>3. P(k) = Append(P(k - 1), added[k])
    BY <1>8
  <2>4. CalledByAll(added, k) = CalledByAll(added, k - 1) \cup CalledBy(added[k])
    <3>1. k \in Nat /\ \A i \in 1..k : i \in 1..(k - 1) \/ i = k
      BY <1>1
    <3>2. \A i \in 1..(k - 1) : i \in 1..k
      BY <3>1
    <3>3. k \in 1..k
      BY <1>1
    <3> QED
      BY <3>1, <3>2, <3>3 DEF CalledByAll
  <2>5. Shaped(P(k))
    BY <2>1, <2>2, <2>3, Lengthened
  <2>6. Answering(MergedItems(P(k)), CalledByAll(added, k))
    BY <2>1, <2>2, <2>3, <2>4, AnswerIsOwed
  <2> QED
    BY <1>1, <2>5, <2>6
<1>6. n \in Done
  <2>1. \A k \in 0..n : k \in Done
    <3> HIDE DEF Done, n
    <3> QED
      BY <1>1, <1>4, <1>5, Positions
  <2> HIDE DEF Done
  <2> QED
    BY <1>1, <2>1
<1> QED
  BY <1>6, <1>7 DEF Answering

(* In every format but Claude's the transcript keeps the IDs of the calls. *)
LEMMA AssistantCalls ==
    ASSUME format \in Formats, NEW text, NEW calls, IsSeq(calls), NEW callsFirst \in BOOLEAN
    PROVE  LET items == AssistantItems(text, calls, callsFirst)
           IN  /\ Answers(items)
               /\ CalledByAll(items, Len(items)) =
                     IF format = "claude" THEN {}
                     ELSE {RestoreToolCallID(calls[i].id) : i \in 1..Len(calls)}
<1> DEFINE called == {RestoreToolCallID(calls[i].id) : i \in 1..Len(calls)}
<1>0. format \in {"openai-chat", "openai-response", "claude"} /\ Len(calls) \in Nat
  BY ConversationAssumption DEF IsSeq
<1>1. ASSUME NEW item, IsAnswer(item)
      PROVE  Answers(<<item>>) /\ CalledByAll(<<item>>, Len(<<item>>)) = CalledBy(item)
  <2> DEFINE s == <<item>>
  <2>1. IsSeq(s) /\ Len(s) = 1 /\ s[1] = item
    BY Single
  <2> HIDE DEF s
  <2>2. \A i \in 1..Len(s) : i = 1
    BY <2>1
  <2>3. 1 \in 1..Len(s)
    BY <2>1
  <2>4. Answers(s) /\ CalledByAll(s, Len(s)) = CalledBy(item)
    BY <1>1, <2>1, <2>2, <2>3 DEF Answers, CalledByAll
  <2> QED
    BY <2>4 DEF s
<1>2. ASSUME NEW content
      PROVE  IsAnswer(Message("assistant", content)) /\ CalledBy(Message("assistant", content)) = {}
  <2> DEFINE item == Message("assistant", content)
  <2>1. item.type = "message" /\ item.role = "assistant" /\ item.calls = <<>>
    BY DEF Message
  <2> HIDE DEF item
  <2>2. IsAnswer(item)
    BY <2>1, Nothing DEF IsAnswer, ItemShape
  <2>3. CalledBy(item) = {}
    BY <2>1, Nothing DEF CalledBy
  <2> QED
    BY <2>2, <2>3 DEF item
<1>3. CASE format = "openai-chat"
  <2> DEFINE said == [i \in 1..Len(calls) |-> [id |-> calls[i].id, name |-> calls[i].tool.name, args |-> calls[i].args]]
             item == [Message("assistant", text) EXCEPT !.calls = said]
  <2>1. item.type = "message" /\ item.role = "assistant" /\ item.calls = said
    BY DEF Message
  <2>2. Len(said) = Len(calls) /\ IsSeq(said)
    <3>1. Len(said) = Len(calls) /\ said \in Seq({said[i] : i \in 1..Len(calls)})
      BY <1>0
    <3> HIDE DEF said
    <3> QED
      BY <3>1 DEF IsSeq
  <2>3. \A i \in 1..Len(calls) : said[i].id = calls[i].id
    OBVIOUS
  <2>4. AssistantItems(text, calls, callsFirst) = <<item>>
    BY <1>3 DEF AssistantItems, ChatItems
  <2> HIDE DEF item, said
  <2>5. IsAnswer(item)
    BY <2>1, <2>2 DEF IsAnswer, ItemShape
  <2>6. CalledBy(item) = called
    BY <2>1, <2>2, <2>3 DEF CalledBy
  <2> QED
    BY <1>1, <1>3, <2>4, <2>5, <2>6
<1>4. CASE format = "claude"
  <2>1. PICK content : AssistantItems(text, calls, callsFirst) = <<Message("assistant", content)>>
    BY <1>4 DEF AssistantItems, ClaudeItems
  <2> QED
    BY <1>1, <1>2, <1>4, <2>1
<1>5. CASE format = "openai-response"
  <2> DEFINE items == [i \in 1..Len(calls) |-> ResponseToolItem(calls[i])]
             message == <<Message("assistant", text)>>
             all == AssistantItems(text, calls, callsFirst)
  <2>1. IsSeq(items) /\ Len(items) = Len(calls)
    <3>1. Len(items) = Len(calls) /\ items \in Seq({ResponseToolItem(calls[i]) : i \in 1..Len(calls)})
      BY <1>0
    <3> HIDE DEF items
    <3> QED
      BY <3>1 DEF IsSeq
  <2>2. ASSUME NEW i \in 1..Len(calls)
        PROVE  IsAnswer(items[i]) /\ CalledBy(items[i]) = {RestoreToolCallID(calls[i].id)}
    <3> DEFINE item == ResponseToolItem(calls[i])
    <3>1. item.type \in {"custom_tool_call", "function_call"} /\ item.role = "" /\ item.call_id = calls[i].id
      BY DEF ResponseToolItem
    <3>2. items[i] = item
      OBVIOUS
    <3> HIDE DEF item, items
    <3> QED
      BY <3>1, <3>2 DEF IsAnswer, ItemShape, CalledBy
  <2>3. IsSeq(message) /\ Len(message) = 1 /\ IsAnswer(message[1]) /\ CalledBy(message[1]) = {}
    BY <1>2, Single
  <2>4. all = items \o message \/ all = items \/ all = message \o items
    BY <1>5 DEF AssistantItems, ResponseItems
  <2> DEFINE ahead  == items \o message
             behind == message \o items
  <2> HIDE DEF items, message, all
  <2>5. \A i \in 1..1 : i = 1
    OBVIOUS
  <2>6. /\ IsSeq(all)
        /\ \A k \in 1..Len(all) : \/ \E i \in 1..Len(calls) : all[k] = items[i]
                                  \/ all[k] = message[1]
        /\ \A i \in 1..Len(calls) : \E k \in 1..Len(all) : all[k] = items[i]
    <3>1. CASE all = items
      BY <2>1, <3>1
    <3>2. CASE all = ahead
      <4>1. /\ IsSeq(ahead) /\ Len(ahead) = Len(items) + 1
            /\ \A i \in 1..Len(items) : ahead[i] = items[i]
        <5>1. IsSeq(ahead) /\ Len(ahead) = Len(items) + Len(message)
          BY <2>1, <2>3, Joined
        <5>2. \A i \in 1..Len(items) : ahead[i] = items[i]
          BY <2>1, <2>3, Joined
        <5> HIDE DEF ahead
        <5> QED
          BY <2>3, <5>1, <5>2
      <4>2. \A k \in 1..Len(message) : ahead[Len(items) + k] = message[k]
        BY <2>1, <2>3, Joined
      <4>3. \A i \in 1..Len(ahead) : i \in 1..Len(items) \/ \E k \in 1..Len(message) : i = Len(items) + k
        BY <2>1, <2>3, Joined
      <4> HIDE DEF ahead
      <4>4. \A i \in 1..Len(calls) : i \in 1..Len(ahead)
        BY <1>0, <2>1, <4>1
      <4> QED
        BY <2>1, <2>3, <2>5, <3>2, <4>1, <4>2, <4>3, <4>4
    <3>3. CASE all = behind
      <4>1. /\ IsSeq(behind) /\ Len(behind) = 1 + Len(items)
            /\ \A i \in 1..Len(message) : behind[i] = message[i]
        <5>1. IsSeq(behind) /\ Len(behind) = Len(message) + Len(items)
          BY <2>1, <2>3, Joined
        <5>2. \A i \in 1..Len(message) : behind[i] = message[i]
          BY <2>1, <2>3, Joined
        <5> HIDE DEF behind
        <5> QED
          BY <2>3, <5>1, <5>2
      <4>2. \A k \in 1..Len(items) : behind[Len(message) + k] = items[k]
        <5> DEFINE s == message
                   t == items
        <5>1. \A i \in 1..Len(t) : (s \o t)[Len(s) + i] = t[i]
          <6>1. IsSeq(s) /\ IsSeq(t)
            BY <2>1, <2>3
          <6> HIDE DEF s, t
          <6> QED
            BY <6>1, Joined
        <5> QED
          BY <5>1
      <4>3. \A i \in 1..Len(behind) : i \in 1..Len(message) \/ \E k \in 1..Len(items) : i = Len(message) + k
        BY <2>1, <2>3, Joined
      <4> HIDE DEF behind
      <4>4. \A i \in 1..Len(calls) : Len(message) + i \in 1..Len(behind)
        BY <1>0, <2>1, <2>3, <4>1
      <4>5. \A k \in 1..Len(behind) : (\E i \in 1..Len(calls) : behind[k] = items[i]) \/ behind[k] = message[1]
        BY <2>1, <2>3, <2>5, <4>1, <4>2, <4>3
      <4>6. \A i \in 1..Len(calls) : \E k \in 1..Len(behind) : behind[k] = items[i]
        BY <2>1, <4>2, <4>4
      <4> QED
        BY <3>3, <4>1, <4>5, <4>6
    <3> QED
      BY <2>4, <3>1, <3>2, <3>3
  <2>7. Answers(all)
    BY <2>2, <2>3, <2>6 DEF Answers
  <2>8. CalledByAll(all, Len(all)) = called
    <3> DEFINE U == CalledByAll(all, Len(all))
    <3>1. U = UNION {CalledBy(all[k]) : k \in 1..Len(all)}
      BY DEF CalledByAll
    <3> HIDE DEF U
    <3>2. ASSUME NEW id \in U
          PROVE  id \in called
      <4>1. PICK k \in 1..Len(all) : id \in CalledBy(all[k])
        BY <3>1
      <4>2. PICK i \in 1..Len(calls) : all[k] = items[i]
        BY <2>3, <2>6, <4>1
      <4>3. id = RestoreToolCallID(calls[i].id)
        BY <2>2, <4>1, <4>2
      <4> QED
        BY <4>3
    <3>3. ASSUME NEW i \in 1..Len(calls)
          PROVE  RestoreToolCallID(calls[i].id) \in U
      <4>1. PICK k \in 1..Len(all) : all[k] = items[i]
        BY <2>6
      <4>2. CalledBy(all[k]) = {RestoreToolCallID(calls[i].id)}
        BY <2>2, <4>1
      <4> QED
        BY <3>1, <4>2
    <3>4. \A id \in called : id \in U
      BY <3>3
    <3> HIDE DEF called
    <3>5. U = called
      BY <3>2, <3>4
    <3> QED
      BY <3>5 DEF U
  <2> QED
    BY <1>5, <2>7, <2>8 DEF all
<1> QED
  BY <1>0, <1>3, <1>4, <1>5

-----------------------------------------------------------------------------
(* The prompt is the newest item, which is a user's or an agent's.         *)
LEMMA LastPosition ==
    ASSUME NEW n \in Nat, NEW I \in SUBSET (1..n), I # {}
    PROVE  \E m \in I : \A i \in I : m >= i
<1> DEFINE T == {n - i : i \in I}
<1>1. T \in SUBSET Nat /\ T # {}
  <2>1. \A i \in I : n - i \in Nat
    OBVIOUS
  <2>2. \A k \in T : k \in Nat
    BY <2>1
  <2>3. PICK i : i \in I
    OBVIOUS
  <2>4. n - i \in T
    BY <2>3
  <2> QED
    BY <2>2, <2>4
<1> HIDE DEF T
<1>2. PICK least \in T : \A k \in T : least <= k
  BY <1>1, LeastNumber
<1>3. PICK m \in I : least = n - m
  BY DEF T
<1>4. ASSUME NEW i \in I
      PROVE  m >= i
  <2>1. n - i \in T /\ i \in Nat /\ m \in Nat
    BY DEF T
  <2> QED
    BY <1>2, <1>3, <2>1
<1> QED
  BY <1>4

LEMMA PromptIsLast ==
    ASSUME NEW items, Shaped(items), HasPrompt(items)
    PROVE  /\ ActiveIndex(items) = Len(items) /\ Len(items) \in Nat /\ Len(items) > 0
           /\ IsActive(items[Len(items)])
<1> DEFINE n == Len(items)
           I == {i \in 1..n : items[i].type = "agent_message" \/ items[i].role = "user"}
<1>1. n \in Nat
  BY DEF Shaped, IsSeq
<1>2. ActiveIndex(items) = n /\ n > 0
  BY <1>1 DEF HasPrompt
<1>3. ActiveIndex(items) = IF I # {} THEN Max(I) ELSE 0
  BY DEF ActiveIndex, SelectLastInSeq
<1>4. I \in SUBSET (1..n)
  OBVIOUS
<1>5. ASSUME I # {}
      PROVE  Max(I) \in I
  <2> HIDE DEF I, n
  <2>1. \E m \in I : \A i \in I : m >= i
    BY <1>1, <1>4, <1>5, LastPosition
  <2> QED
    BY <2>1 DEF Max
<1>6. n \in I
  <2> HIDE DEF I, n
  <2> QED
    BY <1>1, <1>2, <1>3, <1>5
<1> QED
  BY <1>1, <1>2, <1>6 DEF Shaped, IsActive

(* The wrapper of a call keeps its ID.                                     *)
LEMMA WrappedIDs ==
    ASSUME NEW records, GoodRecords(records), NEW i \in 1..Len(records)
    PROVE  LET r == CursorToolHistory(records)[i]
           IN  /\ r.role = records[i].role
               /\ CallsOf(r) = CallsOf(records[i]) /\ ResultsOf(r) = ResultsOf(records[i])
<1> DEFINE q     == records[i]
           p     == q.parts
           parts == [j \in 1..Len(p) |-> Wrapped(p[j])]
           r     == CursorToolHistory(records)[i]
<1>1. q = [role |-> q.role, parts |-> q.parts] /\ IsSeq(p) /\ Len(p) \in Nat
  BY DEF GoodRecords, GoodRecord, IsSeq
<1>2. r = [q EXCEPT !.parts = parts]
  BY DEF CursorToolHistory
<1>3. \A j \in 1..Len(p) : parts[j].type = p[j].type /\ parts[j].id = p[j].id
  <2>1. ASSUME NEW part
        PROVE  Wrapped(part).type = part.type /\ Wrapped(part).id = part.id
    BY DEF Wrapped
  <2> QED
    BY <2>1
<1>4. Len(parts) = Len(p)
  BY <1>1
<1> HIDE DEF q, parts, r
<1>5. r.role = q.role /\ r.parts = parts
  BY <1>1, <1>2
<1> HIDE DEF p
<1>6. ASSUME NEW kind
      PROVE  PartIDs(parts, kind) = PartIDs(p, kind)
  <2>1. {k \in 1..Len(parts) : parts[k].type = kind} = {k \in 1..Len(p) : p[k].type = kind}
    BY <1>3, <1>4
  <2> DEFINE K == {k \in 1..Len(p) : p[k].type = kind}
  <2>2. \A k \in K : parts[k].id = p[k].id
    BY <1>3
  <2>3. PartIDs(parts, kind) = {parts[k].id : k \in K} /\ PartIDs(p, kind) = {p[k].id : k \in K}
    BY <2>1 DEF PartIDs
  <2> HIDE DEF K
  <2> QED
    BY <2>2, <2>3
<1>7. CallsOf(r) = PartIDs(parts, "tool-call") /\ ResultsOf(r) = PartIDs(parts, "tool-result")
  BY <1>5 DEF CallsOf, ResultsOf
<1>8. CallsOf(q) = PartIDs(p, "tool-call") /\ ResultsOf(q) = PartIDs(p, "tool-result")
  BY DEF CallsOf, ResultsOf, p
<1> QED
  BY <1>5, <1>6, <1>7, <1>8 DEF q, r

ResultsFollow(history) ==
    \A i \in 1..Len(history) :
        /\ history[i].role = "tool" => i > 1 /\ ResultsOf(history[i]) = CallsOf(history[i - 1])
        /\ CallsOf(history[i]) # {} => i < Len(history) /\ history[i + 1].role = "tool"

LEMMA NothingOwed ==
    ASSUME NEW history, Owing(history, {})
    PROVE  ResultsFollow(CursorToolHistory(history))
<1> DEFINE told == CursorToolHistory(history)
           n    == Len(history)
<1>1. GoodRecords(history) /\ n \in Nat /\ Len(told) = n
  BY ToolRecords DEF Owing
<1> HIDE DEF told, n
<1>2. ASSUME NEW i \in 1..n
      PROVE  /\ told[i].role = history[i].role
             /\ CallsOf(told[i]) = CallsOf(history[i]) /\ ResultsOf(told[i]) = ResultsOf(history[i])
  BY <1>1, WrappedIDs DEF told, n
<1>3. ASSUME NEW i \in 1..n, told[i].role = "tool"
      PROVE  i > 1 /\ ResultsOf(told[i]) = CallsOf(told[i - 1])
  <2>1. i > 1 /\ CallsOf(history[i - 1]) = ResultsOf(history[i]) \cup (IF i = n THEN {} ELSE {})
    BY <1>2, <1>3 DEF Owing, n
  <2>2. i - 1 \in 1..n
    BY <1>1, <2>1
  <2> QED
    BY <1>2, <2>1, <2>2
<1>4. ASSUME NEW i \in 1..n, CallsOf(told[i]) # {}
      PROVE  i < n /\ told[i + 1].role = "tool"
  <2>1. i = n => CallsOf(history[i]) = {}
    BY <1>2, <1>4 DEF Owing, n
  <2>2. i < n /\ i + 1 \in 1..n
    BY <1>1, <1>2, <1>4, <2>1
  <2>3. history[i + 1].role = "tool"
    BY <1>2, <1>4, <2>2 DEF Owing, n
  <2> QED
    BY <1>2, <2>2, <2>3
<1>5. ResultsFollow(told)
  BY <1>1, <1>3, <1>4 DEF ResultsFollow
<1> QED
  BY <1>5 DEF told

(* turnInput: whatever of the items is history, and whatever the prompt.   *)
LEMMA TurnFollows ==
    ASSUME NEW items, Shaped(items), Owing(MergedItems(items), {})
    PROVE  ResultsFollow(TurnInput(items).history)
<1>1. CASE HasPrompt(items)
  <2> DEFINE n      == Len(items)
             before == SubSeq(items, 1, n - 1)
  <2>1. ActiveIndex(items) = n /\ n \in Nat /\ n > 0 /\ IsActive(items[n])
    BY <1>1, PromptIsLast
  <2>2. PICK S : items \in Seq(S)
    BY DEF Shaped, IsSeq
  <2>3. before \in Seq(S) /\ Len(before) = n - 1
    BY <2>1, <2>2
  <2>4. \A i \in 1..Len(before) : i \in 1..n /\ before[i] = items[i]
    BY <2>1, <2>2, <2>3
  <2>5. items = Append(before, items[n])
    BY <2>1, <2>2
  <2>6. TurnInput(items).history = History(before)
    BY <1>1, <2>1 DEF TurnInput
  <2> HIDE DEF before, n
  <2>7. Shaped(before)
    BY <2>3, <2>4 DEF Shaped, IsSeq, n
  <2>8. Owing(MergedItems(Append(before, items[n])), {})
    BY <2>5
  <2>9. Owing(MergedItems(before), {})
    BY <2>1, <2>7, <2>8, ActiveOwesNothing
  <2>10. History(before) = CursorToolHistory(MergedItems(before))
    BY DEF History, MergedItems
  <2> QED
    BY <2>6, <2>9, <2>10, NothingOwed
<1>2. CASE ~ HasPrompt(items)
  <2>1. TurnInput(items).history = CursorToolHistory(MergedItems(items))
    BY <1>2 DEF TurnInput, History, MergedItems
  <2> QED
    BY <2>1, NothingOwed
<1> QED
  BY <1>1, <1>2

-----------------------------------------------------------------------------
(* The results the caller has still to give, by the IDs Cursor knows; a    *)
(* Claude conversation owes none, because its calls are not told.          *)
Owed == IF format = "claude" THEN {} ELSE {RestoreToolCallID(call.id) : call \in waiting}

OwedInv ==
    /\ Owing(MergedItems(Items), Owed)
    /\ phase = "cursor" => waiting = {}
    /\ ResultsFollow(input.history)

LEMMA ItemsGrow ==
    ASSUME CallsInv, NEW added, IsSeq(added), system' = system, transcript' = transcript \o added
    PROVE  Items' = Items \o added
<1> DEFINE first == IF system = <<>> THEN <<>> ELSE <<Message("system", system)>>
<1>1. IsSeq(first) /\ IsSeq(transcript)
  BY Nothing, Single DEF CallsInv
<1>2. Items = first \o transcript /\ Items' = first \o (transcript \o added)
  BY DEF Items
<1> HIDE DEF first
<1>3. PICK S, T, U : first \in Seq(S) /\ transcript \in Seq(T) /\ added \in Seq(U)
  BY <1>1 DEF IsSeq
<1>4. LET V == S \cup T \cup U IN first \in Seq(V) /\ transcript \in Seq(V) /\ added \in Seq(V)
  BY <1>3
<1>5. first \o (transcript \o added) = (first \o transcript) \o added
  BY <1>4
<1> QED
  BY <1>2, <1>5

LEMMA NoHistory == ResultsFollow(NoInput.history)
  BY Nothing DEF NoInput, ResultsFollow

LEMMA NoItems == MergedItems(<<>>) = <<>> /\ Owing(<<>>, {})
<1> DEFINE seqs == [i \in 1..Len(<<>>) |-> Records(<<>>[i])]
<1>1. Len(seqs) = 0
  BY Nothing
<1>2. FlattenSeq(seqs) = seqs
  BY <1>1 DEF FlattenSeq
<1> HIDE DEF seqs
<1>3. PICK c : MergeSteps(c, seqs) /\ MergedHistory(seqs) = c[Len(seqs)]
  BY <1>1, MergeFold
<1>4. MergedHistory(seqs) = <<>>
  BY <1>1, <1>3 DEF MergeSteps
<1>5. MergedItems(<<>>) = MergedHistory(FlattenSeq(seqs))
  BY DEF MergedItems, seqs
<1>6. Owing(<<>>, {})
  BY Nothing DEF Owing, GoodRecords
<1> QED
  BY <1>2, <1>4, <1>5, <1>6

LEMMA OwedInit == Init => OwedInv
<1> SUFFICES ASSUME Init PROVE OwedInv
  OBVIOUS
<1>1. Items = <<>>
  BY DEF Init, Items
<1>2. Owed = {}
  BY DEF Init, Owed
<1>3. ResultsFollow(input.history) /\ phase = "caller"
  BY NoHistory DEF Init
<1> QED
  BY <1>1, <1>2, <1>3, NoItems DEF OwedInv

(* A step adds its items, and leaves the right results to be given.        *)
LEMMA OwedAdds ==
    ASSUME OwedInv, NEW items, NEW speeches, Adds(items, speeches), Owing(MergedItems(Items'), Owed')
    PROVE  OwedInv'
<1>1. phase' = "caller" /\ input' = input
  BY DEF Adds
<1>2. MergedItems(Items)' = MergedItems(Items')
  OBVIOUS
<1> QED
  BY <1>1, <1>2 DEF OwedInv

LEMMA CallerStepOwes == CallsInv /\ OwedInv /\ CallerStep => OwedInv'
<1> SUFFICES ASSUME CallsInv, OwedInv, CallerStep PROVE OwedInv'
  OBVIOUS
<1>0. Shaped(Items) /\ Owing(MergedItems(Items), Owed)
  BY ShapedItems DEF OwedInv
<1>1. ASSUME NEW role \in {"system", "developer"}, SystemSays(role)
      PROVE  OwedInv'
  <2>1. /\ transcript = <<>> /\ system = <<>> /\ waiting' = waiting
        /\ \/ system' = Text(NewWording) /\ Adds(<<>>, SystemSpeeches)
           \/ system' = system /\ Adds(<<Message(role, Str(NewWording))>>, SystemSpeeches)
    BY <1>1 DEF SystemSays
  <2>2. Items = <<>> /\ format' = format
    BY <2>1 DEF Items, Adds
  <2>3. Owed = {} /\ Owed' = {}
    <3>1. Owing(<<>>, Owed)
      BY <1>0, <2>2, NoItems
    <3>2. Owed = {}
      BY <3>1, Nothing DEF Owing
    <3>3. Owed' = Owed
      BY <2>1, <2>2 DEF Owed
    <3> QED
      BY <3>2, <3>3
  <2>4. PICK m : /\ m.type = "message" /\ m.role \in {"system", "developer"}
                 /\ Items' = Append(Items, m)
    <3>1. CASE system' = Text(NewWording) /\ Adds(<<>>, SystemSpeeches)
      <4>1. transcript' = <<>>
        BY <2>1, <3>1 DEF Adds
      <4>2. system' # <<>>
        BY <3>1, Single, Nothing DEF Text
      <4> DEFINE m == Message("system", system')
      <4>3. Items' = <<m>> \o <<>>
        BY <4>1, <4>2 DEF Items
      <4>4. m.type = "message" /\ m.role = "system"
        BY DEF Message
      <4> HIDE DEF m
      <4>5. Items' = Append(Items, m)
        BY <2>2, <4>3
      <4> QED
        BY <4>4, <4>5
    <3>2. CASE system' = system /\ Adds(<<Message(role, Str(NewWording))>>, SystemSpeeches)
      <4> DEFINE m == Message(role, Str(NewWording))
      <4>1. m.type = "message" /\ m.role = role
        BY DEF Message
      <4>2. transcript' = transcript \o <<m>>
        BY <3>2 DEF Adds
      <4> HIDE DEF m
      <4>3. Items' = Items \o <<m>>
        BY <3>2, <4>2, Single, ItemsGrow
      <4>4. Items \o <<m>> = Append(Items, m)
        BY <1>0, Appended DEF Shaped
      <4> QED
        BY <4>1, <4>3, <4>4
    <3> QED
      BY <2>1, <3>1, <3>2
  <2>5. Owing(MergedItems(Items'), Owed')
    BY <1>0, <2>3, <2>4, SystemOwesNothing
  <2> QED
    BY <2>1, <2>5, OwedAdds
<1>2. ASSUME NEW m, NEW speeches, IsActive(m), Adds(<<m>>, speeches), Owed = {}, Owed' = {}, system' = system
      PROVE  OwedInv'
  <2>1. transcript' = transcript \o <<m>>
    BY <1>2 DEF Adds
  <2>2. Items' = Items \o <<m>>
    BY <1>2, <2>1, Single, ItemsGrow
  <2>3. Items \o <<m>> = Append(Items, m)
    BY <1>0, Appended DEF Shaped
  <2>4. Owing(MergedItems(Append(Items, m)), {})
    BY <1>0, <1>2, ActiveOwesNothing
  <2>5. Owing(MergedItems(Items'), Owed')
    BY <1>2, <2>2, <2>3, <2>4
  <2> QED
    BY <1>2, <2>5, OwedAdds
<1>3. ASSUME NEW content, UserSays(content)
      PROVE  OwedInv'
  <2> DEFINE m == Message("user", content)
  <2>1. m.type = "message" /\ m.role = "user"
    BY DEF Message
  <2>2. PICK speeches : Adds(<<m>>, speeches)
    BY <1>3 DEF UserSays
  <2> HIDE DEF m
  <2>3. IsActive(m)
    BY <2>1 DEF IsActive, ItemShape
  <2>4. waiting = {} /\ waiting' = {} /\ system' = system
    BY <1>3 DEF UserSays
  <2>5. Owed = {} /\ Owed' = {}
    BY <2>4 DEF Owed
  <2> QED
    BY <1>2, <2>2, <2>3, <2>4, <2>5
<1>4. ASSUME NEW sealed \in BOOLEAN, AgentSays(sealed)
      PROVE  OwedInv'
  <2>1. PICK content, speeches : Adds(<<AgentMessage(content)>>, speeches)
    BY <1>4 DEF AgentSays
  <2> DEFINE m == AgentMessage(content)
  <2>2. m.type = "agent_message" /\ m.role = ""
    BY DEF AgentMessage
  <2> HIDE DEF m
  <2>3. IsActive(m)
    BY <2>2 DEF IsActive, ItemShape
  <2>4. waiting = {} /\ waiting' = {} /\ system' = system
    BY <1>4 DEF AgentSays
  <2>5. Owed = {} /\ Owed' = {}
    BY <2>4 DEF Owed
  <2> QED
    BY <1>2, <2>1, <2>3, <2>4, <2>5 DEF m
<1>5. ASSUME NEW foreign \in ForeignCalls, NEW wire \in Wires, NEW form, ForeignTurn(foreign, wire, form)
      PROVE  OwedInv'
  <2> DEFINE tool  == Parsed[declared].identities[wire]
             calls == [i \in 1..Len(foreign) |-> [id |-> foreign[i].id, tool |-> tool, args |-> Args(NewWording + i, form)]]
             items == AssistantItems(Text(NewWording), calls, FALSE)
  <2>1. PICK speeches : Adds(items, speeches)
    BY <1>5 DEF ForeignTurn
  <2>2. /\ waiting = {} /\ system' = system /\ format' = format
        /\ waiting' = {Waiting(calls[i], foreign[i].cursorID) : i \in 1..Len(calls)}
    BY <1>5 DEF ForeignTurn, Adds
  <2>3. IsSeq(calls)
    <3>1. Len(foreign) \in Nat
      BY ConversationAssumption
    <3>2. calls \in Seq({calls[i] : i \in 1..Len(foreign)})
      BY <3>1
    <3> HIDE DEF calls
    <3> QED
      BY <3>2 DEF IsSeq
  <2> HIDE DEF calls
  <2>4. format \in Formats
    BY DEF CallsInv
  <2>5. /\ Answers(items)
        /\ CalledByAll(items, Len(items)) =
              IF format = "claude" THEN {} ELSE {RestoreToolCallID(calls[i].id) : i \in 1..Len(calls)}
    BY <2>3, <2>4, AssistantCalls
  <2> HIDE DEF items
  <2>6. Owed = {} /\ Owed' = CalledByAll(items, Len(items))
    <3>1. \A i \in 1..Len(calls) : Waiting(calls[i], foreign[i].cursorID).id = calls[i].id
      BY DEF Waiting
    <3>2. {RestoreToolCallID(call.id) : call \in waiting'} = {RestoreToolCallID(calls[i].id) : i \in 1..Len(calls)}
      BY <2>2, <3>1
    <3>3. Owed = {}
      BY <2>2 DEF Owed
    <3> QED
      BY <2>2, <2>5, <3>2, <3>3 DEF Owed
  <2>7. Items' = Items \o items
    BY <2>1, <2>2, <2>5, ItemsGrow DEF Adds, Answers
  <2>8. Owing(MergedItems(Items \o items), CalledByAll(items, Len(items)))
    BY <1>0, <2>5, <2>6, AnswersAreOwed
  <2>9. Owing(MergedItems(Items'), Owed')
    BY <2>6, <2>7, <2>8
  <2> QED
    BY <2>1, <2>9, OwedAdds
<1>6. ASSUME NEW call \in waiting, NEW blocks \in BOOLEAN, ReturnResult(call, blocks)
      PROVE  OwedInv'
  <2> DEFINE m == ResultItem(call, NewWording, blocks)
  <2>1. PICK speeches : Adds(<<m>>, speeches)
    BY <1>6 DEF ReturnResult
  <2>2. waiting' = waiting \ {call} /\ system' = system /\ format' = format
    BY <1>6 DEF ReturnResult, Adds
  <2>3. CASE format = "claude"
    <3>1. m.type = "message" /\ m.role = "user"
      BY <2>3 DEF ResultItem, Message
    <3> HIDE DEF m
    <3>2. IsActive(m)
      BY <3>1 DEF IsActive, ItemShape
    <3>3. Owed = {} /\ Owed' = {}
      BY <2>2, <2>3 DEF Owed
    <3> QED
      BY <1>2, <2>1, <2>2, <3>2, <3>3
  <2>4. CASE format # "claude"
    <3>0. format \in {"openai-chat", "openai-response"}
      BY <2>4, ConversationAssumption DEF CallsInv
    <3>1. /\ \/ m.type \in {"function_call_output", "custom_tool_call_output"} /\ m.role = ""
             \/ m.type = "message" /\ m.role = "tool"
          /\ m.call_id = call.id
      BY <3>0 DEF ResultItem
    <3> HIDE DEF m
    <3>2. ItemShape(m)
      BY <3>1 DEF ItemShape
    <3>3. Owed = {RestoreToolCallID(m.call_id)} \cup Owed'
      BY <2>2, <2>4, <3>1 DEF Owed
    <3>4. Items' = Items \o <<m>>
      BY <2>1, <2>2, Single, ItemsGrow DEF Adds
    <3>5. Items \o <<m>> = Append(Items, m)
      BY <1>0, Appended DEF Shaped
    <3> DEFINE left == Owed'
    <3>6. Owing(MergedItems(Items), {RestoreToolCallID(m.call_id)} \cup left)
      BY <1>0, <3>3
    <3> HIDE DEF left
    <3>7. Owing(MergedItems(Append(Items, m)), left)
      BY <1>0, <3>1, <3>2, <3>6, ResultIsOwed
    <3>8. Owing(MergedItems(Items'), Owed')
      BY <3>4, <3>5, <3>7 DEF left
    <3> QED
      BY <2>1, <3>8, OwedAdds
  <2> QED
    BY <2>3, <2>4
<1>7. CASE Request
  <2> DEFINE turn == TurnInput(Items)
  <2>1. /\ waiting = {} /\ waiting' = {} /\ format' = format /\ system' = system /\ transcript' = transcript
        /\ input' = turn \/ input' = input
    BY <1>7 DEF Request
  <2>2. Owed = {} /\ Owed' = {} /\ Items' = Items
    BY <2>1 DEF Owed, Items
  <2>3. ResultsFollow(turn.history)
    BY <1>0, <2>2, TurnFollows
  <2> HIDE DEF turn
  <2>4. ResultsFollow(input'.history)
    BY <2>1, <2>3 DEF OwedInv
  <2>5. Owing(MergedItems(Items'), Owed')
    BY <1>0, <2>2
  <2>6. /\ Owing(MergedItems(Items), Owed)'
        /\ ResultsFollow(input.history)'
    BY <2>4, <2>5
  <2> QED
    BY <2>1, <2>6 DEF OwedInv
<1> QED
  BY <1>1, <1>3, <1>4, <1>5, <1>6, <1>7 DEF CallerStep

LEMMA CursorStepOwes == CallsInv /\ OwedInv /\ CursorStep => OwedInv'
<1> SUFFICES ASSUME CallsInv, OwedInv, CursorStep PROVE OwedInv'
  OBVIOUS
<1>0. Shaped(Items) /\ Owing(MergedItems(Items), Owed) /\ format \in Formats
  BY ShapedItems DEF OwedInv, CallsInv
<1>1. ASSUME NEW text, NEW calls, NEW cursorIDs, NEW callsFirst \in BOOLEAN, NEW speeches,
             Answered(text, calls, cursorIDs, callsFirst, speeches), IsSeq(calls)
      PROVE  OwedInv'
  <2> DEFINE items == AssistantItems(text, calls, callsFirst)
  <2>1. /\ phase = "cursor" /\ transcript' = transcript \o items /\ phase' = "caller" /\ input' = NoInput
        /\ waiting' = {Waiting(calls[i], cursorIDs[i]) : i \in 1..Len(calls)}
        /\ format' = format /\ system' = system
    BY <1>1 DEF Answered
  <2>2. /\ Answers(items)
        /\ CalledByAll(items, Len(items)) =
              IF format = "claude" THEN {} ELSE {RestoreToolCallID(calls[i].id) : i \in 1..Len(calls)}
    BY <1>0, <1>1, AssistantCalls
  <2> HIDE DEF items
  <2>3. Owed = {} /\ Owed' = CalledByAll(items, Len(items))
    <3>1. \A i \in 1..Len(calls) : Waiting(calls[i], cursorIDs[i]).id = calls[i].id
      BY DEF Waiting
    <3>2. {RestoreToolCallID(call.id) : call \in waiting'} = {RestoreToolCallID(calls[i].id) : i \in 1..Len(calls)}
      BY <2>1, <3>1
    <3>3. Owed = {}
      BY <2>1 DEF Owed, OwedInv
    <3> QED
      BY <2>1, <2>2, <3>2, <3>3 DEF Owed
  <2>4. Items' = Items \o items
    BY <2>1, <2>2, ItemsGrow DEF Answers
  <2>5. Owing(MergedItems(Items \o items), CalledByAll(items, Len(items)))
    BY <1>0, <2>2, <2>3, AnswersAreOwed
  <2>6. Owing(MergedItems(Items'), Owed')
    BY <2>3, <2>4, <2>5
  <2>7. ResultsFollow(input'.history)
    BY <2>1, NoHistory
  <2>8. /\ Owing(MergedItems(Items), Owed)'
        /\ ResultsFollow(input.history)'
    BY <2>6, <2>7
  <2> QED
    BY <2>1, <2>8 DEF OwedInv
<1>2. CASE CursorSpeaks
  BY <1>1, <1>2, Nothing DEF CursorSpeaks
<1>3. ASSUME NEW toolName, NEW name, NEW id, NEW form, NEW says \in BOOLEAN, NEW callsFirst \in BOOLEAN,
             CursorCalls(toolName, name, id, form, says, callsFirst)
      PROVE  OwedInv'
  <2>1. PICK text, call, cursorIDs, speeches : Answered(text, <<call>>, cursorIDs, callsFirst, speeches)
    BY <1>3 DEF CursorCalls
  <2> QED
    BY <1>1, <2>1, Single
<1>4. ASSUME NEW toolName, NEW name, NEW stringInput, CallFails(toolName, name, stringInput)
      PROVE  OwedInv'
  <2>1. /\ phase' = "caller" /\ input' = NoInput
        /\ waiting' = waiting /\ format' = format /\ system' = system /\ transcript' = transcript
    BY <1>4 DEF CallFails
  <2>2. Owed' = Owed /\ Items' = Items
    BY <2>1 DEF Owed, Items
  <2>3. Owing(MergedItems(Items'), Owed') /\ ResultsFollow(input'.history)
    BY <1>0, <2>1, <2>2, NoHistory
  <2>4. /\ Owing(MergedItems(Items), Owed)'
        /\ ResultsFollow(input.history)'
    BY <2>3
  <2> QED
    BY <2>1, <2>4 DEF OwedInv
<1> QED
  BY <1>2, <1>3, <1>4 DEF CursorStep

(* Conversation.ResultsFollowCalls, of mergeHistoryMessages and            *)
(* cursorToolHistory: however many calls an assistant made at once, in     *)
(* whatever order their results came, in however many items the caller     *)
(* keeps them and with whatever IDs, the results Cursor is given follow    *)
(* the message with the calls, all of them in one message.                 *)
THEOREM ResultsAlwaysFollowCalls == Spec => []ResultsFollowCalls
<1>1. OwedInv => ResultsFollowCalls
  <2> SUFFICES ASSUME ResultsFollow(input.history) PROVE ResultsFollowCalls
    BY DEF OwedInv
  <2> QED
    BY DEF ResultsFollow, ResultsFollowCalls, CallsOf, ResultsOf, PartIDs
<1>2. CallsInv /\ OwedInv /\ [Next]_vars => OwedInv'
  <2> SUFFICES ASSUME CallsInv, OwedInv, [Next]_vars PROVE OwedInv'
    OBVIOUS
  <2>1. CASE UNCHANGED vars
    <3>1. /\ input' = input /\ phase' = phase /\ waiting' = waiting
          /\ Owed' = Owed /\ Items' = Items
      BY <2>1 DEF vars, Owed, Items
    <3>2. Owing(MergedItems(Items'), Owed')
      BY <3>1 DEF OwedInv
    <3>3. Owing(MergedItems(Items), Owed)'
      BY <3>2
    <3> QED
      BY <3>1, <3>3 DEF OwedInv
  <2> QED
    BY <2>1, CallerStepOwes, CursorStepOwes DEF Next
<1> QED
  BY <1>1, <1>2, OwedInit, CallsInvariance, PTL DEF Spec

-----------------------------------------------------------------------------
(* What is kept of a sequence is built up from its beginning.              *)
KeptSteps(c, s, positions) ==
    /\ c[0] = <<>>
    /\ \A k \in 1..Len(s) : c[k] = IF k \in positions THEN Append(c[k - 1], s[k]) ELSE c[k - 1]

LEMMA KeptFold ==
    ASSUME NEW s, NEW positions, Len(s) \in Nat
    PROVE  \E c : KeptSteps(c, s, positions) /\ Kept(s, positions) = c[Len(s)]
<1> DEFINE n == Len(s)
           Step(before, k) == IF k \in positions THEN Append(before, s[k]) ELSE before
           Follows(g, m) == g = [k \in 0..m |-> IF k = 0 THEN <<>> ELSE Step(g[k - 1], k)]
           Reached == {m \in 0..n : \E g : Follows(g, m)}
           c == CHOOSE g : Follows(g, n)
<1>1. n \in Nat
  OBVIOUS
<1> HIDE DEF Step, n
<1>2. 0 \in Reached
  <2>1. 0..0 = {0}
    OBVIOUS
  <2>2. Follows([k \in 0..0 |-> <<>>], 0)
    BY <2>1
  <2> HIDE DEF Follows
  <2>3. \E g : Follows(g, 0)
    BY <2>2
  <2> QED
    BY <1>1, <2>3
<1>3. ASSUME NEW m \in 1..n, m - 1 \in Reached
      PROVE  m \in Reached
  <2>1. PICK g : Follows(g, m - 1)
    <3> HIDE DEF Follows
    <3> QED
      BY <1>3
  <2> DEFINE h == [k \in 0..m |-> IF k = m THEN Step(g[m - 1], m) ELSE g[k]]
  <2>2. ASSUME NEW k \in 0..m
        PROVE  h[k] = IF k = 0 THEN <<>> ELSE Step(h[k - 1], k)
    <3>1. CASE k = m
      <4>1. h[m] = Step(g[m - 1], m) /\ h[m - 1] = g[m - 1]
        BY <1>1
      <4> QED
        BY <3>1, <4>1
    <3>2. CASE k # m
      <4>1. k \in 0..(m - 1) /\ h[k] = g[k] /\ (k # 0 => h[k - 1] = g[k - 1])
        BY <1>1, <3>2
      <4>2. g[k] = IF k = 0 THEN <<>> ELSE Step(g[k - 1], k)
        BY <2>1, <4>1
      <4> QED
        BY <4>1, <4>2
    <3> QED
      BY <3>1, <3>2
  <2>3. h = [k \in 0..m |-> h[k]]
    OBVIOUS
  <2> HIDE DEF h
  <2>4. Follows(h, m)
    BY <2>2, <2>3
  <2> QED
    BY <2>4
<1>4. n \in Reached
  <2> HIDE DEF Reached
  <2> QED
    BY <1>1, <1>2, <1>3, Positions
<1>5. Follows(c, n)
  BY <1>4
<1>6. Kept(s, positions) = c[n]
  BY DEF Kept, Step, n
<1> HIDE DEF c
<1>7. c[0] = <<>> /\ \A k \in 1..n : c[k] = Step(c[k - 1], k)
  <2>1. \A k \in 0..n : c[k] = IF k = 0 THEN <<>> ELSE Step(c[k - 1], k)
    BY <1>5
  <2>2. 0 \in 0..n /\ \A k \in 1..n : k \in 0..n /\ k # 0
    BY <1>1
  <2> QED
    BY <2>1, <2>2
<1>8. KeptSteps(c, s, positions)
  BY <1>7 DEF KeptSteps, Step, n
<1> QED
  BY <1>6, <1>8 DEF n

(* What is kept, by name.                                                  *)
Keeps(x, what) ==
    CASE what = "audible"      -> SaysSomething(x)
      [] what = "talk"         -> ~IsCall(x)
      [] what = "work"         -> ~IsRemark(x)
      [] what = "instructions" -> x.role = "user" /\ SaysSomething(x)
      [] what = "saying"       -> Says(x)
      [] what = "plain"        -> x.text \notin {Sealed, White}

Filtered(s, what) == Kept(s, {i \in 1..Len(s) : Keeps(s[i], what)})

FilterSteps(c, s, what) ==
    /\ c[0] = <<>>
    /\ \A k \in 1..Len(s) : c[k] = IF Keeps(s[k], what) THEN Append(c[k - 1], s[k]) ELSE c[k - 1]

(* Filtering goes one member at a time.                                    *)
LEMMA FilteredFold ==
    ASSUME NEW s, NEW what, Len(s) \in Nat
    PROVE  \E c : FilterSteps(c, s, what) /\ Filtered(s, what) = c[Len(s)]
<1> DEFINE positions == {i \in 1..Len(s) : Keeps(s[i], what)}
<1>1. PICK c : KeptSteps(c, s, positions) /\ Kept(s, positions) = c[Len(s)]
  <2> HIDE DEF positions
  <2> QED
    BY KeptFold
<1>2. \A k \in 1..Len(s) : k \in positions <=> Keeps(s[k], what)
  OBVIOUS
<1>3. FilterSteps(c, s, what)
  <2> HIDE DEF positions
  <2> QED
    BY <1>1, <1>2 DEF FilterSteps, KeptSteps
<1> QED
  BY <1>1, <1>3 DEF Filtered

(* What is kept of a beginning depends on that beginning only.             *)
LEMMA FilterAgrees ==
    ASSUME NEW shorter, NEW longer, NEW what, NEW c, NEW d, Len(shorter) \in Nat,
           \A k \in 1..Len(shorter) : k \in 1..Len(longer) /\ longer[k] = shorter[k],
           FilterSteps(c, shorter, what), FilterSteps(d, longer, what)
    PROVE  c[Len(shorter)] = d[Len(shorter)]
<1> DEFINE n    == Len(shorter)
           Same == {k \in 0..n : c[k] = d[k]}
<1>1. n \in Nat /\ 0 \in Same
  BY DEF FilterSteps
<1>2. ASSUME NEW k \in 1..n, k - 1 \in Same
      PROVE  k \in Same
  <2>1. c[k - 1] = d[k - 1]
    BY <1>2
  <2>2. /\ c[k] = IF Keeps(shorter[k], what) THEN Append(c[k - 1], shorter[k]) ELSE c[k - 1]
        /\ d[k] = IF Keeps(longer[k], what) THEN Append(d[k - 1], longer[k]) ELSE d[k - 1]
    BY DEF FilterSteps
  <2>3. longer[k] = shorter[k] /\ k \in 0..n
    BY <1>1
  <2> QED
    BY <2>1, <2>2, <2>3
<1> HIDE DEF n, Same
<1>3. n \in Same
  <2>1. \A k \in 0..n : k \in Same
    BY <1>1, <1>2, Positions
  <2> QED
    BY <1>1, <2>1
<1> QED
  BY <1>3 DEF Same, n

(* Nothing is kept of nothing.                                             *)
LEMMA FilteredNothing ==
    ASSUME NEW what
    PROVE  Filtered(<<>>, what) = <<>>
<1>1. Len(<<>>) = 0
  BY Nothing
<1>2. PICK c : FilterSteps(c, <<>>, what) /\ Filtered(<<>>, what) = c[Len(<<>>)]
  BY <1>1, FilteredFold
<1> QED
  BY <1>1, <1>2 DEF FilterSteps

(* One more member is kept at the end, or not at all.                      *)
LEMMA FilteredAppend ==
    ASSUME NEW s, NEW x, NEW what, IsSeq(s)
    PROVE  Filtered(Append(s, x), what) =
              IF Keeps(x, what) THEN Append(Filtered(s, what), x) ELSE Filtered(s, what)
<1> DEFINE longer == Append(s, x)
           n      == Len(s)
<1>1. /\ n \in Nat /\ Len(longer) = n + 1 /\ longer[n + 1] = x
      /\ \A i \in 1..n : longer[i] = s[i]
  BY Appended
<1> HIDE DEF longer
<1>2. PICK c : FilterSteps(c, s, what) /\ Filtered(s, what) = c[n]
  BY <1>1, FilteredFold
<1>3. PICK d : FilterSteps(d, longer, what) /\ Filtered(longer, what) = d[n + 1]
  <2>1. Len(longer) \in Nat
    BY <1>1
  <2> QED
    BY <1>1, <2>1, FilteredFold
<1>4. \A k \in 1..n : k \in 1..Len(longer)
  BY <1>1
<1>5. c[n] = d[n]
  BY <1>1, <1>2, <1>3, <1>4, FilterAgrees
<1>6. d[n + 1] = IF Keeps(x, what) THEN Append(d[n], x) ELSE d[n]
  <2>1. n + 1 \in 1..Len(longer) /\ (n + 1) - 1 = n
    BY <1>1
  <2>2. d[n + 1] = IF Keeps(longer[n + 1], what) THEN Append(d[(n + 1) - 1], longer[n + 1]) ELSE d[(n + 1) - 1]
    BY <1>3, <2>1 DEF FilterSteps
  <2> QED
    BY <1>1, <2>1, <2>2
<1> QED
  BY <1>2, <1>3, <1>5, <1>6 DEF longer

(* What is kept is a sequence.                                             *)
LEMMA FilteredSeq ==
    ASSUME NEW s, NEW what, IsSeq(s)
    PROVE  IsSeq(Filtered(s, what))
<1> DEFINE n == Len(s)
<1>1. n \in Nat
  BY DEF IsSeq
<1>2. PICK c : FilterSteps(c, s, what) /\ Filtered(s, what) = c[n]
  BY <1>1, FilteredFold
<1> DEFINE Good == {k \in 0..n : IsSeq(c[k])}
<1>3. 0 \in Good
  BY <1>1, <1>2, Nothing DEF FilterSteps
<1>4. ASSUME NEW k \in 1..n, k - 1 \in Good
      PROVE  k \in Good
  <2>1. IsSeq(c[k - 1])
    BY <1>4
  <2>2. c[k] = Append(c[k - 1], s[k]) \/ c[k] = c[k - 1]
    BY <1>2 DEF FilterSteps
  <2>3. IsSeq(Append(c[k - 1], s[k]))
    BY <2>1, Appended
  <2>4. IsSeq(c[k])
    BY <2>1, <2>2, <2>3
  <2> QED
    BY <1>1, <2>4
<1>5. n \in Good
  <2> HIDE DEF Good, n
  <2> QED
    BY <1>1, <1>3, <1>4, Positions
<1> QED
  BY <1>2, <1>5

(* The first so many members of a sequence.                                *)
Prefix(s, k) == UpTo(<<>>, s, k)

(* A sequence with a beginning of another is a sequence.                   *)
LEMMA UpToSeq ==
    ASSUME NEW s, NEW t, IsSeq(s), IsSeq(t), NEW k \in 0..Len(t)
    PROVE  IsSeq(UpTo(s, t, k))
<1>1. PICK S : s \in Seq(S)
  BY DEF IsSeq
<1>2. PICK T : t \in Seq(T)
  BY DEF IsSeq
<1>3. s \in Seq(S \cup T) /\ t \in Seq(S \cup T)
  BY <1>1, <1>2
<1>4. SubSeq(t, 1, k) \in Seq(S \cup T)
  BY <1>3
<1>5. s \o SubSeq(t, 1, k) \in Seq(S \cup T)
  BY <1>3, <1>4
<1> QED
  BY <1>5 DEF IsSeq, UpTo

(* The beginning without members is empty.                                 *)
LEMMA PrefixNone ==
    ASSUME NEW s, IsSeq(s)
    PROVE  Prefix(s, 0) = <<>>
  BY UpToNone, Nothing DEF Prefix

(* The longest beginning is the sequence itself.                           *)
LEMMA PrefixAll ==
    ASSUME NEW s, IsSeq(s)
    PROVE  Prefix(s, Len(s)) = s
<1>1. <<>> \o s = s
  BY DEF IsSeq
<1> QED
  BY <1>1, UpToAll DEF Prefix

(* Each beginning is the one before it with one more member.               *)
LEMMA PrefixNext ==
    ASSUME NEW s, IsSeq(s), NEW k \in 1..Len(s)
    PROVE  Prefix(s, k) = Append(Prefix(s, k - 1), s[k]) /\ IsSeq(Prefix(s, k - 1))
<1>1. k - 1 \in 0..Len(s)
  BY DEF IsSeq
<1> QED
  BY <1>1, UpToNext, UpToSeq, Nothing DEF Prefix

(* Joining and appending can be done in either order.                      *)
LEMMA JoinedAppend ==
    ASSUME NEW s, NEW t, NEW x, IsSeq(s), IsSeq(t)
    PROVE  s \o Append(t, x) = Append(s \o t, x)
<1>1. PICK S : s \in Seq(S)
  BY DEF IsSeq
<1>2. PICK T : t \in Seq(T)
  BY DEF IsSeq
<1>3. s \in Seq(S \cup T \cup {x}) /\ t \in Seq(S \cup T \cup {x}) /\ x \in S \cup T \cup {x}
  BY <1>1, <1>2
<1> QED
  BY <1>3

(* Joining is associative.                                                 *)
LEMMA JoinedThrice ==
    ASSUME NEW s, NEW t, NEW u, IsSeq(s), IsSeq(t), IsSeq(u)
    PROVE  (s \o t) \o u = s \o (t \o u)
<1>1. PICK S, T, U : s \in Seq(S) /\ t \in Seq(T) /\ u \in Seq(U)
  BY DEF IsSeq
<1>2. LET V == S \cup T \cup U IN s \in Seq(V) /\ t \in Seq(V) /\ u \in Seq(V)
  BY <1>1
<1> QED
  BY <1>2

(* Joining with nothing changes nothing.                                   *)
LEMMA JoinedToNothing ==
    ASSUME NEW s, IsSeq(s)
    PROVE  s \o <<>> = s /\ <<>> \o s = s
  BY DEF IsSeq

(* Two sequences are filtered one after the other.                         *)
LEMMA FilteredJoined ==
    ASSUME NEW s, NEW t, NEW what, IsSeq(s), IsSeq(t)
    PROVE  Filtered(s \o t, what) = Filtered(s, what) \o Filtered(t, what)
<1> DEFINE n    == Len(t)
           P(k) == UpTo(s, t, k)
           F(u) == Filtered(u, what)
           Done == {k \in 0..n : F(P(k)) = F(s) \o F(Prefix(t, k))}
<1>1. n \in Nat
  BY DEF IsSeq
<1>2. P(0) = s /\ P(n) = s \o t
  BY UpToNone, UpToAll
<1>3. ASSUME NEW k \in 1..n
      PROVE  P(k) = Append(P(k - 1), t[k]) /\ IsSeq(P(k - 1))
  <2>1. k - 1 \in 0..Len(t)
    BY <1>1
  <2> QED
    BY <2>1, UpToNext, UpToSeq
<1> HIDE DEF P
<1>4. 0 \in Done
  <2>1. F(Prefix(t, 0)) = <<>>
    BY PrefixNone, FilteredNothing
  <2>2. IsSeq(F(s))
    BY FilteredSeq
  <2> HIDE DEF F
  <2>3. F(s) \o <<>> = F(s)
    BY <2>2, JoinedToNothing
  <2>4. F(P(0)) = F(s) \o F(Prefix(t, 0))
    BY <1>2, <2>1, <2>3
  <2> QED
    BY <1>1, <2>4
<1>5. ASSUME NEW k \in 1..n, k - 1 \in Done
      PROVE  k \in Done
  <2> DEFINE x == t[k]
             p == P(k - 1)
             q == Prefix(t, k - 1)
  <2>1. P(k) = Append(p, x) /\ IsSeq(p)
    BY <1>3
  <2>2. Prefix(t, k) = Append(q, x) /\ IsSeq(q)
    BY PrefixNext
  <2>3. F(p) = F(s) \o F(q)
    BY <1>5
  <2>4. IsSeq(F(s)) /\ IsSeq(F(q))
    BY <2>2, FilteredSeq
  <2> HIDE DEF x, p, q
  <2>5. F(Append(p, x)) = IF Keeps(x, what) THEN Append(F(p), x) ELSE F(p)
    BY <2>1, FilteredAppend
  <2>6. F(Append(q, x)) = IF Keeps(x, what) THEN Append(F(q), x) ELSE F(q)
    BY <2>2, FilteredAppend
  <2> HIDE DEF F
  <2>7. F(s) \o Append(F(q), x) = Append(F(s) \o F(q), x)
    BY <2>4, JoinedAppend
  <2>8. F(P(k)) = F(s) \o F(Prefix(t, k))
    BY <2>1, <2>2, <2>3, <2>5, <2>6, <2>7
  <2> QED
    BY <1>1, <2>8
<1>6. n \in Done
  <2> HIDE DEF Done, n
  <2> QED
    BY <1>1, <1>4, <1>5, Positions
<1>7. Prefix(t, n) = t
  BY PrefixAll
<1> QED
  BY <1>2, <1>6, <1>7

(* What is kept of a single member.                                        *)
LEMMA FilteredOne ==
    ASSUME NEW x, NEW what
    PROVE  Filtered(<<x>>, what) = IF Keeps(x, what) THEN <<x>> ELSE <<>>
<1>1. Append(<<>>, x) = <<x>>
  OBVIOUS
<1> DEFINE e == <<>>
<1>2. IsSeq(e) /\ Filtered(e, what) = e
  BY Nothing, FilteredNothing
<1>3. Append(e, x) = <<x>>
  BY <1>1
<1> HIDE DEF e
<1>4. Filtered(Append(e, x), what) = IF Keeps(x, what) THEN Append(e, x) ELSE e
  BY <1>2, FilteredAppend
<1> QED
  BY <1>3, <1>4 DEF e

(* A sequence whose members are all kept stays as it is.                   *)
LEMMA FilteredAll ==
    ASSUME NEW s, NEW what, IsSeq(s), \A i \in 1..Len(s) : Keeps(s[i], what)
    PROVE  Filtered(s, what) = s
<1> DEFINE n    == Len(s)
           Done == {k \in 0..n : Filtered(Prefix(s, k), what) = Prefix(s, k)}
<1>1. n \in Nat
  BY DEF IsSeq
<1>2. 0 \in Done
  BY <1>1, PrefixNone, FilteredNothing
<1>3. ASSUME NEW k \in 1..n, k - 1 \in Done
      PROVE  k \in Done
  <2>1. Prefix(s, k) = Append(Prefix(s, k - 1), s[k]) /\ IsSeq(Prefix(s, k - 1))
    BY PrefixNext
  <2>2. Filtered(Prefix(s, k - 1), what) = Prefix(s, k - 1) /\ Keeps(s[k], what)
    BY <1>3
  <2>3. Filtered(Prefix(s, k), what) = Prefix(s, k)
    BY <2>1, <2>2, FilteredAppend
  <2> QED
    BY <1>1, <2>3
<1>4. n \in Done
  <2> HIDE DEF Done, n
  <2> QED
    BY <1>1, <1>2, <1>3, Positions
<1> QED
  BY <1>4, PrefixAll

(* A filter that lets through what another keeps changes nothing for it.   *)
LEMMA FilteredTwice ==
    ASSUME NEW s, NEW v, NEW w, IsSeq(s), \A x : Keeps(x, v) => Keeps(x, w)
    PROVE  Filtered(Filtered(s, w), v) = Filtered(s, v)
<1> DEFINE n    == Len(s)
           Done == {k \in 0..n : Filtered(Filtered(Prefix(s, k), w), v) = Filtered(Prefix(s, k), v)}
<1>1. n \in Nat
  BY DEF IsSeq
<1>2. 0 \in Done
  BY <1>1, PrefixNone, FilteredNothing
<1>3. ASSUME NEW k \in 1..n, k - 1 \in Done
      PROVE  k \in Done
  <2> DEFINE p == Prefix(s, k - 1)
             x == s[k]
  <2>1. Prefix(s, k) = Append(p, x) /\ IsSeq(p)
    BY PrefixNext
  <2>2. Filtered(Filtered(p, w), v) = Filtered(p, v)
    BY <1>3
  <2> HIDE DEF p, x
  <2>3. IsSeq(Filtered(p, w))
    BY <2>1, FilteredSeq
  <2>4. Filtered(Append(p, x), w) = IF Keeps(x, w) THEN Append(Filtered(p, w), x) ELSE Filtered(p, w)
    BY <2>1, FilteredAppend
  <2>5. Filtered(Append(p, x), v) = IF Keeps(x, v) THEN Append(Filtered(p, v), x) ELSE Filtered(p, v)
    BY <2>1, FilteredAppend
  <2>6. Filtered(Append(Filtered(p, w), x), v) =
           IF Keeps(x, v) THEN Append(Filtered(Filtered(p, w), v), x) ELSE Filtered(Filtered(p, w), v)
    BY <2>3, FilteredAppend
  <2>7. Keeps(x, v) => Keeps(x, w)
    OBVIOUS
  <2>8. Filtered(Filtered(Prefix(s, k), w), v) = Filtered(Prefix(s, k), v)
    BY <2>1, <2>2, <2>4, <2>5, <2>6, <2>7
  <2> QED
    BY <1>1, <2>8
<1>4. n \in Done
  <2> HIDE DEF Done, n
  <2> QED
    BY <1>1, <1>2, <1>3, Positions
<1> QED
  BY <1>4, PrefixAll

-----------------------------------------------------------------------------
(* What a history says, read as Cursor reads it: the calls out of their    *)
(* wrapper, one part after the other.                                      *)
Uttered(record) ==
    [j \in 1..Len(record.parts) |-> Speech(record.role, Unwrapped(Wrapped(record.parts[j])))]

(* What records of a history say, one after another.                       *)
Voice(records) == FlattenSeq([i \in 1..Len(records) |-> Uttered(records[i])])

(* Sequences with the same members at the same places are equal.           *)
LEMMA SameSequence ==
    ASSUME NEW s, NEW t, IsSeq(s), IsSeq(t), Len(s) = Len(t), \A i \in 1..Len(s) : s[i] = t[i]
    PROVE  s = t
<1>1. s = [i \in 1..Len(s) |-> s[i]] /\ t = [i \in 1..Len(t) |-> t[i]]
  BY DEF IsSeq
<1> QED
  BY <1>1

(* A record is told as one speech for each of its parts, read back from    *)
(* Cursor's wrapper (cursorToolHistory).                                   *)
LEMMA UtteredParts ==
    ASSUME NEW record, IsSeq(record.parts)
    PROVE  /\ IsSeq(Uttered(record)) /\ Len(Uttered(record)) = Len(record.parts) /\ Len(record.parts) \in Nat
           /\ \A j \in 1..Len(record.parts) :
                 Uttered(record)[j] = Speech(record.role, Unwrapped(Wrapped(record.parts[j])))
<1> DEFINE u == Uttered(record)
           n == Len(record.parts)
<1>1. n \in Nat
  BY DEF IsSeq
<1>2. u \in Seq({u[j] : j \in 1..n}) /\ Len(u) = n
  BY <1>1 DEF Uttered
<1>3. \A j \in 1..n : u[j] = Speech(record.role, Unwrapped(Wrapped(record.parts[j])))
  BY DEF Uttered
<1> HIDE DEF u
<1>4. IsSeq(u)
  BY <1>2 DEF IsSeq
<1> QED
  BY <1>1, <1>2, <1>3, <1>4 DEF u

(* A record of one part.                                                   *)
LEMMA UtteredOne ==
    ASSUME NEW role, NEW part
    PROVE  Uttered(Record(role, <<part>>)) = <<Speech(role, Unwrapped(Wrapped(part)))>>
<1> DEFINE r == Record(role, <<part>>)
           x == Speech(role, Unwrapped(Wrapped(part)))
<1>1. r.role = role /\ r.parts = <<part>>
  BY DEF Record
<1>2. IsSeq(r.parts) /\ Len(r.parts) = 1 /\ r.parts[1] = part
  BY <1>1, Single
<1> HIDE DEF r
<1>3. IsSeq(Uttered(r)) /\ Len(Uttered(r)) = 1 /\ Uttered(r)[1] = x
  BY <1>1, <1>2, UtteredParts
<1>4. IsSeq(<<x>>) /\ Len(<<x>>) = 1 /\ <<x>>[1] = x
  BY Single
<1> DEFINE one == <<x>>
<1>5. IsSeq(one) /\ Len(one) = 1 /\ one[1] = x
  BY <1>4
<1> HIDE DEF one, x
<1>6. \A i \in 1..1 : i = 1
  OBVIOUS
<1>7. Uttered(r) = one
  BY <1>3, <1>5, <1>6, SameSequence
<1> QED
  BY <1>7 DEF one, r, x

(* A history without records says nothing.                                 *)
LEMMA VoiceOfNothing == Voice(<<>>) = <<>>
<1> DEFINE e    == <<>>
           seqs == [i \in 1..Len(e) |-> Uttered(e[i])]
<1>1. Len(seqs) = 0 /\ seqs = <<>>
  BY Nothing
<1>2. FlattenSeq(seqs) = seqs
  BY <1>1 DEF FlattenSeq
<1> QED
  BY <1>1, <1>2 DEF Voice

(* What each record says, in the order of the records.                     *)
LEMMA MappedSeq ==
    ASSUME NEW records, IsSeq(records)
    PROVE  LET said == [i \in 1..Len(records) |-> Uttered(records[i])]
           IN  /\ IsSeq(said) /\ Len(said) = Len(records)
               /\ \A i \in 1..Len(records) : said[i] = Uttered(records[i])
<1> DEFINE said == [i \in 1..Len(records) |-> Uttered(records[i])]
<1>1. Len(records) \in Nat
  BY DEF IsSeq
<1>2. said \in Seq({said[i] : i \in 1..Len(records)}) /\ Len(said) = Len(records)
  BY <1>1
<1>3. \A i \in 1..Len(records) : said[i] = Uttered(records[i])
  OBVIOUS
<1> HIDE DEF said
<1>4. IsSeq(said)
  BY <1>2 DEF IsSeq
<1> QED
  BY <1>2, <1>3, <1>4 DEF said

(* One more record adds what it says.                                      *)
LEMMA VoiceAppend ==
    ASSUME NEW records, NEW record, IsSeq(records), IsSeq(record.parts)
    PROVE  Voice(Append(records, record)) = Voice(records) \o Uttered(record)
<1> DEFINE longer == Append(records, record)
           n      == Len(records)
           before == [i \in 1..Len(records) |-> Uttered(records[i])]
           after  == [i \in 1..Len(longer) |-> Uttered(longer[i])]
           u      == Uttered(record)
           more   == Append(before, u)
<1>1. /\ IsSeq(longer) /\ n \in Nat /\ Len(longer) = n + 1 /\ longer[n + 1] = record
      /\ \A i \in 1..n : longer[i] = records[i]
  BY Appended
<1>2. IsSeq(before) /\ Len(before) = n /\ \A i \in 1..n : before[i] = Uttered(records[i])
  BY MappedSeq
<1> HIDE DEF longer
<1>3. IsSeq(after) /\ Len(after) = Len(longer) /\ \A i \in 1..Len(longer) : after[i] = Uttered(longer[i])
  BY <1>1, MappedSeq
<1> HIDE DEF before, after
<1>4. /\ IsSeq(more) /\ Len(more) = n + 1 /\ more[n + 1] = u
      /\ \A i \in 1..n : more[i] = before[i]
  BY <1>2, Appended
<1> HIDE DEF more
<1>5. ASSUME NEW i \in 1..(n + 1)
      PROVE  after[i] = more[i]
  <2>1. CASE i = n + 1
    BY <1>1, <1>3, <1>4, <2>1
  <2>2. CASE i # n + 1
    <3>1. i \in 1..n
      BY <1>1, <2>2
    <3> QED
      BY <1>1, <1>2, <1>3, <1>4, <3>1
  <2> QED
    BY <2>1, <2>2
<1>6. after = more
  <2>1. Len(after) = n + 1 /\ \A i \in 1..Len(after) : after[i] = more[i]
    BY <1>1, <1>3, <1>5
  <2> HIDE DEF n
  <2> QED
    BY <1>3, <1>4, <2>1, SameSequence
<1>7. IsSeq(u)
  BY UtteredParts
<1> HIDE DEF u
<1>8. FlattenSeq(Append(before, u)) = FlattenSeq(before) \o u
  BY <1>2, <1>7, FlattenAppend
<1>9. Voice(longer) = FlattenSeq(after) /\ Voice(records) = FlattenSeq(before)
  BY DEF Voice, before, after
<1> QED
  BY <1>6, <1>8, <1>9 DEF longer, more, u

(* What a history says is a sequence of speeches.                          *)
LEMMA VoiceSeq ==
    ASSUME NEW records, GoodRecords(records)
    PROVE  IsSeq(Voice(records))
<1> DEFINE n    == Len(records)
           Done == {k \in 0..n : IsSeq(Voice(Prefix(records, k)))}
<1>0. IsSeq(records)
  BY DEF GoodRecords
<1>1. n \in Nat
  BY <1>0 DEF IsSeq
<1>2. 0 \in Done
  BY <1>0, <1>1, PrefixNone, VoiceOfNothing, Nothing
<1>3. ASSUME NEW k \in 1..n, k - 1 \in Done
      PROVE  k \in Done
  <2> DEFINE p == Prefix(records, k - 1)
             r == records[k]
  <2>1. Prefix(records, k) = Append(p, r) /\ IsSeq(p)
    BY <1>0, PrefixNext
  <2>2. IsSeq(Voice(p)) /\ IsSeq(r.parts)
    BY <1>3 DEF GoodRecords, GoodRecord
  <2> HIDE DEF p, r
  <2>3. Voice(Append(p, r)) = Voice(p) \o Uttered(r) /\ IsSeq(Uttered(r))
    BY <2>1, <2>2, VoiceAppend, UtteredParts
  <2>4. IsSeq(Voice(Prefix(records, k)))
    BY <2>1, <2>2, <2>3, Joined
  <2> QED
    BY <1>1, <2>4
<1>4. n \in Done
  <2> HIDE DEF Done, n
  <2> QED
    BY <1>1, <1>2, <1>3, Positions
<1> QED
  BY <1>0, <1>4, PrefixAll

(* The parts of a record that joins a message are said after the others.   *)
LEMMA UtteredJoined ==
    ASSUME NEW last, NEW record, NEW joined, IsSeq(last.parts), IsSeq(record.parts), last.role = record.role,
           joined.role = last.role, joined.parts = last.parts \o record.parts
    PROVE  Uttered(joined) = Uttered(last) \o Uttered(record) /\ IsSeq(joined.parts)
<1> DEFINE p == last.parts
           q == record.parts
           c == joined.parts
           u == Uttered(last)
           v == Uttered(record)
           w == Uttered(joined)
           b == u \o v
           role == last.role
           Said(part) == Speech(role, Unwrapped(Wrapped(part)))
<1>1. IsSeq(p) /\ IsSeq(q)
  OBVIOUS
<1>2. c = p \o q
  OBVIOUS
<1>3. IsSeq(u) /\ Len(u) = Len(p) /\ \A j \in 1..Len(p) : u[j] = Said(p[j])
  BY <1>1, UtteredParts
<1>4. IsSeq(v) /\ Len(v) = Len(q) /\ \A j \in 1..Len(q) : v[j] = Said(q[j])
  BY <1>1, UtteredParts
<1>5. IsSeq(c)
  BY <1>1, <1>2, Joined
<1>6. IsSeq(w) /\ Len(w) = Len(c) /\ \A j \in 1..Len(c) : w[j] = Said(c[j])
  BY <1>5, UtteredParts
<1> HIDE DEF p, q, c, u, v, w, Said
<1>7. /\ Len(c) = Len(p) + Len(q) /\ Len(p) \in Nat /\ Len(q) \in Nat
      /\ \A i \in 1..Len(p) : c[i] = p[i]
      /\ \A i \in 1..Len(q) : c[Len(p) + i] = q[i]
      /\ \A i \in 1..Len(c) : i \in 1..Len(p) \/ \E k \in 1..Len(q) : i = Len(p) + k
  <2> DEFINE j == p \o q
  <2>1. Len(j) = Len(p) + Len(q) /\ Len(p) \in Nat /\ Len(q) \in Nat
    BY <1>1, Joined
  <2>2. \A i \in 1..Len(p) : j[i] = p[i]
    BY <1>1, Joined
  <2>3. \A i \in 1..Len(q) : j[Len(p) + i] = q[i]
    BY <1>1, Joined
  <2>4. \A i \in 1..Len(j) : i \in 1..Len(p) \/ \E k \in 1..Len(q) : i = Len(p) + k
    BY <1>1, Joined
  <2> HIDE DEF j
  <2>5. c = j
    BY <1>2 DEF j
  <2> QED
    BY <2>1, <2>2, <2>3, <2>4, <2>5
<1>8. /\ IsSeq(b) /\ Len(b) = Len(u) + Len(v)
      /\ \A i \in 1..Len(u) : b[i] = u[i]
      /\ \A i \in 1..Len(v) : b[Len(u) + i] = v[i]
  <2>1. IsSeq(b) /\ Len(b) = Len(u) + Len(v)
    BY <1>3, <1>4, Joined
  <2>2. \A i \in 1..Len(u) : b[i] = u[i]
    BY <1>3, <1>4, Joined
  <2>3. \A i \in 1..Len(v) : b[Len(u) + i] = v[i]
    BY <1>3, <1>4, Joined
  <2> QED
    BY <2>1, <2>2, <2>3
<1> HIDE DEF b
<1>9. ASSUME NEW i \in 1..Len(c)
      PROVE  w[i] = b[i]
  <2>1. CASE i \in 1..Len(p)
    BY <1>3, <1>6, <1>7, <1>8, <2>1
  <2>2. CASE \E k \in 1..Len(q) : i = Len(p) + k
    <3>1. PICK k \in 1..Len(q) : i = Len(p) + k
      BY <2>2
    <3>2. b[Len(p) + k] = v[k] /\ v[k] = Said(q[k])
      BY <1>3, <1>4, <1>8
    <3>3. c[Len(p) + k] = q[k]
      BY <1>7
    <3>4. w[i] = Said(c[i])
      BY <1>6
    <3> QED
      BY <3>1, <3>2, <3>3, <3>4
  <2> QED
    BY <1>7, <2>1, <2>2
<1>10. Len(w) = Len(b)
  BY <1>3, <1>4, <1>6, <1>7, <1>8
<1>11. \A i \in 1..Len(w) : w[i] = b[i]
  BY <1>6, <1>9
<1>12. w = b
  BY <1>6, <1>8, <1>10, <1>11, SameSequence
<1> QED
  BY <1>5, <1>12 DEF c, b, u, v, w

(* mergeHistoryMessages changes nothing of what is said.                   *)
LEMMA VoicePlus ==
    ASSUME NEW merged, NEW record, GoodRecords(merged), GoodRecord(record)
    PROVE  Voice(Plus(merged, record)) = Voice(merged) \o Uttered(record)
<1>0. IsSeq(merged) /\ IsSeq(record.parts)
  BY DEF GoodRecords, GoodRecord
<1>1. CASE Plus(merged, record) = Append(merged, record)
  BY <1>0, <1>1, VoiceAppend
<1>2. CASE Plus(merged, record) # Append(merged, record)
  <2> DEFINE n      == Len(merged)
             last   == merged[n]
             front  == Prefix(merged, n - 1)
             parts  == last.parts \o record.parts
             joined == [last EXCEPT !.parts = parts]
             after  == Plus(merged, record)
             more   == Append(front, joined)
  <2>1. Joins(merged, record)
    BY <1>2 DEF Plus, Added
  <2>2. n \in Nat /\ n > 0 /\ last.role = record.role
    <3>1. n \in Nat /\ n # 0
      BY <1>0, <2>1 DEF Joins, IsSeq
    <3>2. Last(merged) = merged[n]
      BY DEF Last
    <3> QED
      BY <2>1, <3>1, <3>2 DEF Joins
  <2>3. after = [merged EXCEPT ![n] = joined]
    BY <1>2 DEF Plus, Added
  <2>4. GoodRecord(last)
    BY <2>2 DEF GoodRecords
  <2>5. merged = Append(front, last) /\ IsSeq(front)
    <3>1. n \in 1..n
      BY <2>2
    <3>2. Prefix(merged, n) = Append(front, last) /\ IsSeq(front)
      BY <1>0, <3>1, PrefixNext
    <3> QED
      BY <1>0, <3>2, PrefixAll
  <2>6. GoodRecords(after)
    <3> DEFINE joining == record.role \in {"assistant", "tool"} /\ Joins(merged, record)
    <3>1. joining \in BOOLEAN /\ (joining => merged # <<>>)
      BY DEF Joins
    <3>2. after = Added(merged, record, joining)
      BY DEF Plus
    <3> HIDE DEF joining
    <3> QED
      BY <3>1, <3>2, AddedRecord
  <2> HIDE DEF after, joined, front, last
  <2>7. DOMAIN after = 1..n /\ \A i \in 1..n : after[i] = IF i = n THEN joined ELSE merged[i]
    <3>1. DOMAIN merged = 1..n
      BY <1>0 DEF IsSeq
    <3> HIDE DEF n
    <3> QED
      BY <2>3, <3>1
  <2>8. Len(after) = n /\ IsSeq(after)
    <3>1. IsSeq(after)
      BY <2>6 DEF GoodRecords
    <3>2. DOMAIN after = 1..Len(after) /\ Len(after) \in Nat
      BY <3>1 DEF IsSeq
    <3> HIDE DEF n
    <3> QED
      BY <2>2, <2>7, <3>1, <3>2
  <2>9. Len(front) = n - 1 /\ \A i \in 1..(n - 1) : merged[i] = front[i]
    <3>1. Len(front) \in Nat /\ Len(Append(front, last)) = Len(front) + 1
          /\ \A i \in 1..Len(front) : Append(front, last)[i] = front[i]
      BY <2>5, Appended
    <3>2. n = Len(front) + 1
      BY <2>5, <3>1
    <3> QED
      BY <2>5, <3>1, <3>2
  <2>10. /\ IsSeq(more) /\ Len(more) = n /\ more[n] = joined
         /\ \A i \in 1..(n - 1) : more[i] = front[i]
    <3>1. /\ IsSeq(more) /\ Len(more) = Len(front) + 1 /\ more[Len(front) + 1] = joined
          /\ \A i \in 1..Len(front) : more[i] = front[i]
      BY <2>5, Appended
    <3> HIDE DEF more, n
    <3>2. Len(front) + 1 = n
      BY <2>2, <2>9
    <3> QED
      BY <2>9, <3>1, <3>2
  <2> HIDE DEF more, n
  <2>11. ASSUME NEW i \in 1..n
         PROVE  after[i] = more[i]
    <3>1. CASE i = n
      BY <2>7, <2>10, <3>1
    <3>2. CASE i # n
      <4>1. i \in 1..(n - 1)
        BY <2>2, <3>2
      <4> QED
        BY <2>7, <2>9, <2>10, <3>2, <4>1
    <3> QED
      BY <3>1, <3>2
  <2>12. after = more
    BY <2>8, <2>10, <2>11, SameSequence
  <2>13. joined.role = last.role /\ joined.parts = parts
    <3>1. last = [role |-> last.role, parts |-> last.parts]
      BY <2>4 DEF GoodRecord
    <3> HIDE DEF parts
    <3> QED
      BY <3>1 DEF joined
  <2>14. Uttered(joined) = Uttered(last) \o Uttered(record) /\ IsSeq(joined.parts)
    BY <1>0, <2>2, <2>4, <2>13, UtteredJoined DEF GoodRecord
  <2>15. Voice(more) = Voice(front) \o Uttered(joined)
    BY <2>5, <2>14, VoiceAppend DEF more
  <2>16. Voice(merged) = Voice(front) \o Uttered(last)
    BY <2>4, <2>5, VoiceAppend DEF GoodRecord
  <2>17. (Voice(front) \o Uttered(last)) \o Uttered(record) = Voice(front) \o (Uttered(last) \o Uttered(record))
    <3>1. GoodRecords(front)
      BY <2>2, <2>5, <2>9 DEF GoodRecords, n
    <3>2. IsSeq(Voice(front))
      BY <3>1, VoiceSeq
    <3>3. IsSeq(Uttered(last)) /\ IsSeq(Uttered(record))
      BY <1>0, <2>4, UtteredParts DEF GoodRecord
    <3> QED
      BY <3>2, <3>3, JoinedThrice
  <2> QED
    BY <2>12, <2>14, <2>15, <2>16, <2>17 DEF after
<1> QED
  BY <1>1, <1>2

(* cursorToolHistory and its reader undo one another.                      *)
Heard(history) ==
    FlattenSeq([i \in 1..Len(history) |->
        [j \in 1..Len(history[i].parts) |-> Speech(history[i].role, Unwrapped(history[i].parts[j]))]])

(* Wrapping the calls and results of a history (cursorToolHistory) loses   *)
(* nothing of what it says.                                                *)
LEMMA HeardIsVoice ==
    ASSUME NEW records, GoodRecords(records)
    PROVE  Heard(CursorToolHistory(records)) = Voice(records)
<1> DEFINE told == CursorToolHistory(records)
           Read(i) == [j \in 1..Len(told[i].parts) |-> Speech(told[i].role, Unwrapped(told[i].parts[j]))]
<1>1. Len(told) = Len(records) /\ Len(records) \in Nat
  BY ToolRecords
<1>2. ASSUME NEW i \in 1..Len(records)
      PROVE  Read(i) = Uttered(records[i])
  <2> DEFINE q     == records[i]
             p     == q.parts
             parts == [j \in 1..Len(p) |-> Wrapped(p[j])]
             r     == told[i]
  <2>1. q = [role |-> q.role, parts |-> q.parts] /\ Len(p) \in Nat
    BY DEF GoodRecords, GoodRecord, IsSeq
  <2>2. r = [q EXCEPT !.parts = parts]
    BY DEF CursorToolHistory
  <2>3. Len(parts) = Len(p) /\ \A j \in 1..Len(p) : parts[j] = Wrapped(p[j])
    BY <2>1
  <2>4. Read(i) = [j \in 1..Len(r.parts) |-> Speech(r.role, Unwrapped(r.parts[j]))]
    OBVIOUS
  <2> HIDE DEF q, parts, r, Read
  <2>5. r.role = q.role /\ r.parts = parts
    BY <2>1, <2>2
  <2> HIDE DEF p
  <2>6. Read(i) = [j \in 1..Len(p) |-> Speech(q.role, Unwrapped(Wrapped(p[j])))]
    BY <2>3, <2>4, <2>5
  <2> QED
    BY <2>6 DEF Uttered, p, q
<1>3. Heard(told) = FlattenSeq([i \in 1..Len(told) |-> Read(i)])
  BY DEF Heard
<1> HIDE DEF told, Read
<1>4. [i \in 1..Len(told) |-> Read(i)] = [i \in 1..Len(records) |-> Uttered(records[i])]
  BY <1>1, <1>2
<1> QED
  BY <1>3, <1>4 DEF Voice, told

(* What Cursor is told by a turn, and what the items of a request say.     *)
ToldBy(turn) ==
    Heard(turn.history)
    \o (IF turn.userText = <<ContinuationPrompt>> THEN <<>> ELSE <<Speech("user", Part(turn.userText))>>)

Saying(items) == Voice(MergedItems(items))

(* What the items of a request say is a sequence of speeches.              *)
LEMMA SayingSeq ==
    ASSUME NEW items, Shaped(items)
    PROVE  IsSeq(Saying(items))
  BY FlatItems, VoiceSeq DEF Saying

(* Each kind of part reads as it was before it was wrapped.                *)
LEMMA PartsAreRead ==
    /\ \A text : Unwrapped(Wrapped(Part(text))) = Part(text)
    /\ \A id, t, a : Unwrapped(Wrapped(CallPart(id, t, a))) = CallPart(id, t, a)
    /\ \A id, r : Unwrapped(Wrapped(ResultPart(id, r))) = ResultPart(id, r)
<1>1. ASSUME NEW text
      PROVE  Unwrapped(Wrapped(Part(text))) = Part(text)
  BY DEF Unwrapped, Wrapped, Part
<1>2. ASSUME NEW id, NEW t, NEW a
      PROVE  Unwrapped(Wrapped(CallPart(id, t, a))) = CallPart(id, t, a)
  BY DEF Unwrapped, Wrapped, CallPart
<1>3. ASSUME NEW id, NEW r
      PROVE  Unwrapped(Wrapped(ResultPart(id, r))) = ResultPart(id, r)
  BY DEF Unwrapped, Wrapped, ResultPart
<1> QED
  BY <1>1, <1>2, <1>3

(* An item that becomes no record says nothing; the others say what their  *)
(* records say, whatever message the records end up in.                    *)
LEMMA SayingNone ==
    ASSUME NEW items, NEW item, Shaped(items), ItemShape(item), Records(item) = <<>>
    PROVE  Saying(Append(items, item)) = Saying(items)
  BY ItemMerged DEF Saying

(* An item with one record adds what that record says, whether it is       *)
(* merged into the last one or not.                                        *)
LEMMA SayingRecord ==
    ASSUME NEW items, NEW item, NEW r, Shaped(items), ItemShape(item), Records(item) = <<r>>
    PROVE  Saying(Append(items, item)) = Saying(items) \o Uttered(r)
<1>1. MergedItems(Append(items, item)) = Plus(MergedItems(items), r)
  BY ItemMerged
<1>2. GoodRecords(<<r>>)
  BY ItemRecords
<1>3. GoodRecord(r)
  BY <1>2, Single DEF GoodRecords
<1>4. GoodRecords(MergedItems(items))
  BY FlatItems
<1> QED
  BY <1>1, <1>3, <1>4, VoicePlus DEF Saying

(* An item with one part adds one speech.                                  *)
LEMMA SayingPart ==
    ASSUME NEW items, NEW item, NEW role, NEW part, Shaped(items), ItemShape(item),
           Records(item) = <<Record(role, <<part>>)>>, Unwrapped(Wrapped(part)) = part
    PROVE  Saying(Append(items, item)) = Saying(items) \o <<Speech(role, part)>>
<1> DEFINE r == Record(role, <<part>>)
<1>1. Uttered(r) = <<Speech(role, part)>>
  BY UtteredOne
<1>2. Records(item) = <<r>>
  OBVIOUS
<1> HIDE DEF r
<1>3. Saying(Append(items, item)) = Saying(items) \o Uttered(r)
  BY <1>2, SayingRecord
<1> QED
  BY <1>1, <1>3

(* A system message adds the lead-in with its text and the                 *)
(* acknowledgement.                                                        *)
LEMMA SayingTwo ==
    ASSUME NEW items, NEW item, NEW p, NEW q, Shaped(items), ItemShape(item),
           Records(item) = <<Record("user", <<p>>), Record("assistant", <<q>>)>>,
           Unwrapped(Wrapped(p)) = p, Unwrapped(Wrapped(q)) = q
    PROVE  Saying(Append(items, item)) = (Saying(items) \o <<Speech("user", p)>>) \o <<Speech("assistant", q)>>
<1> DEFINE m == MergedItems(items)
           a == Record("user", <<p>>)
           b == Record("assistant", <<q>>)
<1>1. MergedItems(Append(items, item)) = Plus(Plus(m, a), b)
  BY ItemMerged
<1>2. GoodRecords(<<a>>) /\ GoodRecords(<<b>>)
  BY OneRecord, OnePart
<1>3. GoodRecord(a) /\ GoodRecord(b)
  BY <1>2, Single DEF GoodRecords
<1>4. GoodRecords(m)
  BY FlatItems
<1>5. Uttered(a) = <<Speech("user", p)>> /\ Uttered(b) = <<Speech("assistant", q)>>
  BY UtteredOne
<1> HIDE DEF a, b, m
<1>6. GoodRecords(Plus(m, a))
  <2> DEFINE joining == a.role \in {"assistant", "tool"} /\ Joins(m, a)
  <2>1. joining \in BOOLEAN /\ (joining => m # <<>>)
    BY DEF Joins
  <2>2. Plus(m, a) = Added(m, a, joining)
    BY DEF Plus
  <2> HIDE DEF joining
  <2> QED
    BY <1>3, <1>4, <2>1, <2>2, AddedRecord
<1>7. Voice(Plus(Plus(m, a), b)) = (Voice(m) \o Uttered(a)) \o Uttered(b)
  BY <1>3, <1>4, <1>6, VoicePlus
<1> QED
  BY <1>1, <1>5, <1>7 DEF Saying, m

(* No items say nothing.                                                   *)
LEMMA SayingNothing == Saying(<<>>) = <<>>
  BY NoItems, VoiceOfNothing DEF Saying

(* turnInput: history and prompt together tell what the items say.         *)
LEMMA BlankNothing == IsBlank(<<>>)
  BY Nothing DEF IsBlank

(* An accepted turn tells all its items say: taking the newest instruction *)
(* off the history as the prompt, or asking to continue, loses and adds    *)
(* nothing (turnInput).                                                    *)
LEMMA TurnTellsAll ==
    ASSUME NEW items, Shaped(items), RequestError(items, TurnInput(items)) = "none",
           \A i \in 1..Len(items) : IsActive(items[i]) => ActiveText(items[i]) # <<ContinuationPrompt>>
    PROVE  ToldBy(TurnInput(items)) = Saying(items)
<1>1. CASE HasPrompt(items)
  <2> DEFINE n      == Len(items)
             before == SubSeq(items, 1, n - 1)
             m      == items[n]
             text   == ActiveText(m)
  <2>1. ActiveIndex(items) = n /\ n \in Nat /\ n > 0 /\ IsActive(m)
    BY <1>1, PromptIsLast
  <2>2. PICK S : items \in Seq(S)
    BY DEF Shaped, IsSeq
  <2>3. before \in Seq(S) /\ Len(before) = n - 1
    BY <2>1, <2>2
  <2>4. \A i \in 1..Len(before) : i \in 1..n /\ before[i] = items[i]
    BY <2>1, <2>2, <2>3
  <2>5. items = Append(before, m)
    BY <2>1, <2>2
  <2>6. TurnInput(items) = [history |-> History(before), userText |-> text]
    BY <1>1, <2>1 DEF TurnInput
  <2>7. text # <<ContinuationPrompt>>
    BY <2>1
  <2>8. ~IsBlank(text)
    BY <1>1, <2>1 DEF HasPrompt
  <2>9. ~(m.type = "agent_message" /\ IsOpaque(m.content))
    BY <2>1 DEF RequestError
  <2> HIDE DEF before, n
  <2>10. Shaped(before)
    BY <2>3, <2>4 DEF Shaped, IsSeq, n
  <2>11. text # <<>>
    BY <2>8, BlankNothing
  <2> HIDE DEF m
  <2>12. ItemShape(m) /\ Records(m) = <<Record("user", <<Part(text)>>)>>
    <3>1. CASE m.type = "agent_message"
      <4>1. ItemShape(m) /\ text = AgentMessageText(m.content)
        BY <2>1, <3>1 DEF IsActive, ActiveText
      <4> HIDE DEF text
      <4> QED
        BY <2>9, <2>11, <3>1, <4>1 DEF Records, ItemShape
    <3>2. CASE m.type # "agent_message"
      <4>1. m.type = "message" /\ m.role = "user" /\ ItemShape(m)
        BY <2>1, <3>2 DEF IsActive, ItemShape
      <4>2. text = ContentText(m.content)
        BY <3>2 DEF ActiveText
      <4> HIDE DEF text
      <4> QED
        BY <2>11, <4>1, <4>2 DEF Records
    <3> QED
      BY <3>1, <3>2
  <2> HIDE DEF text
  <2>13. Saying(items) = Saying(before) \o <<Speech("user", Part(text))>>
    BY <2>5, <2>10, <2>12, PartsAreRead, SayingPart
  <2>14. Heard(History(before)) = Saying(before)
    <3>1. History(before) = CursorToolHistory(MergedItems(before))
      BY DEF History, MergedItems
    <3> QED
      BY <2>10, <3>1, FlatItems, HeardIsVoice DEF Saying
  <2> QED
    BY <2>6, <2>7, <2>13, <2>14 DEF ToldBy
<1>2. CASE ~ HasPrompt(items)
  <2>1. TurnInput(items) = [history |-> CursorToolHistory(MergedItems(items)), userText |-> <<ContinuationPrompt>>]
    BY <1>2 DEF TurnInput, History, MergedItems
  <2>2. Heard(CursorToolHistory(MergedItems(items))) = Saying(items)
    BY FlatItems, HeardIsVoice DEF Saying
  <2>3. Saying(items) \o <<>> = Saying(items)
    BY SayingSeq, JoinedToNothing
  <2> DEFINE turn == TurnInput(items)
             h    == CursorToolHistory(MergedItems(items))
  <2>4. turn.history = h /\ turn.userText = <<ContinuationPrompt>>
    BY <2>1
  <2> HIDE DEF turn, h
  <2>5. ToldBy(turn) = Heard(h) \o <<>>
    BY <2>4 DEF ToldBy
  <2> QED
    BY <2>2, <2>3, <2>5 DEF turn, h
<1> QED
  BY <1>1, <1>2

-----------------------------------------------------------------------------
(* What Cursor is told agrees with what was said: texts and results are    *)
(* the same in the same order, and so are calls and results, white space   *)
(* apart.                                                                  *)
Agrees(told, said) ==
    \A w \in {"talk", "work"} : Filtered(Filtered(told, "audible"), w) = Filtered(said, w)

(* What agrees piece by piece agrees as a whole.                           *)
LEMMA AgreesJoined ==
    ASSUME NEW s, NEW t, NEW u, NEW v, IsSeq(s), IsSeq(t), IsSeq(u), IsSeq(v), Agrees(s, t), Agrees(u, v)
    PROVE  Agrees(s \o u, t \o v)
<1>1. Filtered(s \o u, "audible") = Filtered(s, "audible") \o Filtered(u, "audible")
  BY FilteredJoined
<1>2. IsSeq(Filtered(s, "audible")) /\ IsSeq(Filtered(u, "audible"))
  BY FilteredSeq
<1>3. ASSUME NEW w \in {"talk", "work"}
      PROVE  Filtered(Filtered(s \o u, "audible"), w) = Filtered(t \o v, w)
  <2> DEFINE a == Filtered(s, "audible")
             b == Filtered(u, "audible")
  <2>1. Filtered(a, w) = Filtered(t, w) /\ Filtered(b, w) = Filtered(v, w)
    BY DEF Agrees
  <2>2. IsSeq(a) /\ IsSeq(b)
    BY <1>2
  <2>3. Filtered(s \o u, "audible") = a \o b
    BY <1>1
  <2> HIDE DEF a, b
  <2>4. Filtered(a \o b, w) = Filtered(a, w) \o Filtered(b, w)
    BY <2>2, FilteredJoined
  <2>5. Filtered(t \o v, w) = Filtered(t, w) \o Filtered(v, w)
    BY FilteredJoined
  <2> QED
    BY <2>1, <2>3, <2>4, <2>5
<1> QED
  BY <1>3 DEF Agrees

(* Nothing agrees with nothing.                                            *)
LEMMA AgreesNothing == Agrees(<<>>, <<>>)
  BY FilteredNothing DEF Agrees

(* Speeches that say something agree with themselves.                      *)
LEMMA AgreesSame ==
    ASSUME NEW s, IsSeq(s), \A i \in 1..Len(s) : SaysSomething(s[i])
    PROVE  Agrees(s, s)
<1>1. \A i \in 1..Len(s) : Keeps(s[i], "audible")
  BY DEF Keeps
<1>2. Filtered(s, "audible") = s
  BY <1>1, FilteredAll
<1> QED
  BY <1>2 DEF Agrees

(* So does one of them.                                                    *)
LEMMA AgreesOne ==
    ASSUME NEW x, SaysSomething(x)
    PROVE  Agrees(<<x>>, <<x>>)
<1> DEFINE s == <<x>>
<1>1. IsSeq(s) /\ Len(s) = 1 /\ s[1] = x
  BY Single
<1>2. \A i \in 1..1 : i = 1
  OBVIOUS
<1> HIDE DEF s
<1>3. Agrees(s, s)
  BY <1>1, <1>2, AgreesSame
<1> QED
  BY <1>3 DEF s

(* White space need not be told, and may be.                               *)
LEMMA AgreesSilent ==
    ASSUME NEW x, ~SaysSomething(x)
    PROVE  Agrees(<<x>>, <<>>)
<1>1. ~Keeps(x, "audible")
  BY DEF Keeps
<1>2. Filtered(<<x>>, "audible") = <<>>
  BY <1>1, FilteredOne
<1> QED
  BY <1>2, FilteredNothing DEF Agrees

(* A call and a remark of one message may change places.                   *)
LEMMA AgreesSwapped ==
    ASSUME NEW x, NEW y, IsCall(x), SaysSomething(y), IsRemark(y)
    PROVE  Agrees(<<x>> \o <<y>>, <<y>> \o <<x>>)
<1> DEFINE a == <<x>>
           b == <<y>>
           e == <<>>
<1>1. SaysSomething(x) /\ ~IsRemark(x) /\ ~IsCall(y)
  BY DEF IsCall, IsRemark, SaysSomething
<1>2. IsSeq(a) /\ IsSeq(b) /\ IsSeq(e)
  BY Single, Nothing
<1>3. /\ Filtered(a, "audible") = a /\ Filtered(b, "audible") = b
      /\ Filtered(a, "talk") = e /\ Filtered(b, "talk") = b
      /\ Filtered(a, "work") = a /\ Filtered(b, "work") = e
  BY <1>1, FilteredOne DEF Keeps
<1>4. a \o e = a /\ e \o a = a /\ b \o e = b /\ e \o b = b
  BY <1>2, JoinedToNothing
<1> HIDE DEF a, b, e
<1>5. ASSUME NEW w
      PROVE  /\ Filtered(a \o b, w) = Filtered(a, w) \o Filtered(b, w)
             /\ Filtered(b \o a, w) = Filtered(b, w) \o Filtered(a, w)
  BY <1>2, FilteredJoined
<1>6. Filtered(a \o b, "audible") = a \o b
  BY <1>3, <1>5
<1>7. Filtered(Filtered(a \o b, "audible"), "talk") = Filtered(b \o a, "talk")
  BY <1>3, <1>4, <1>5, <1>6
<1>8. Filtered(Filtered(a \o b, "audible"), "work") = Filtered(b \o a, "work")
  BY <1>3, <1>4, <1>5, <1>6
<1>9. Agrees(a \o b, b \o a)
  BY <1>7, <1>8 DEF Agrees
<1> QED
  BY <1>9 DEF a, b

-----------------------------------------------------------------------------
(* What the contents callers give say.                                     *)
LEMMA TextsOf ==
    ASSUME NEW s, NEW n \in Nat, IsSeq(s), Len(s) = n
    PROVE  ContentText(s) = [i \in 1..Len(Filtered(s, "saying")) |-> Filtered(s, "saying")[i].text]
<1> DEFINE P == {i \in 1..Len(s) : Says(s[i])}
           Q == {i \in 1..Len(s) : Keeps(s[i], "saying")}
<1>1. P = Q
  BY DEF Keeps
<1>2. Kept(s, P) = Filtered(s, "saying")
  BY <1>1 DEF Filtered
<1>3. ContentText(s) = [i \in 1..Len(Kept(s, P)) |-> Kept(s, P)[i].text]
  BY DEF ContentText
<1> HIDE DEF P
<1> QED
  BY <1>2, <1>3

(* contentText of a single part.                                           *)
LEMMA OnePiece ==
    ASSUME NEW part
    PROVE  ContentText(<<part>>) = IF Says(part) THEN <<part.text>> ELSE <<>>
<1> DEFINE s == <<part>>
<1>1. IsSeq(s) /\ Len(s) = 1
  BY Single
<1>2. Filtered(s, "saying") = IF Says(part) THEN <<part>> ELSE <<>>
  BY FilteredOne DEF Keeps
<1> HIDE DEF s
<1>3. ContentText(s) = [i \in 1..Len(Filtered(s, "saying")) |-> Filtered(s, "saying")[i].text]
  BY <1>1, TextsOf
<1>4. CASE Says(part)
  <2>1. [i \in 1..Len(<<part>>) |-> <<part>>[i].text] = <<part.text>>
    OBVIOUS
  <2>2. Filtered(s, "saying") = <<part>>
    BY <1>2, <1>4
  <2>3. ContentText(s) = <<part.text>>
    BY <1>3, <2>1, <2>2
  <2> QED
    BY <1>4, <2>3 DEF s
<1>5. CASE ~Says(part)
  <2>1. Filtered(s, "saying") = <<>>
    BY <1>2, <1>5
  <2>2. [i \in 1..Len(<<>>) |-> <<>>[i].text] = <<>>
    OBVIOUS
  <2>3. ContentText(s) = <<>>
    BY <1>3, <2>1, <2>2
  <2> QED
    BY <1>5, <2>3 DEF s
<1> QED
  BY <1>4, <1>5

(* contentText of no part, of a string and of a text.                      *)
LEMMA ContentTexts ==
    /\ ContentText(<<>>) = <<>>
    /\ \A piece : ContentText(Str(piece)) = <<piece>>
    /\ \A piece : ContentText(Text(piece)) = IF piece # White THEN <<piece>> ELSE <<>>
<1>1. ContentText(<<>>) = <<>>
  <2>1. Filtered(<<>>, "saying") = <<>>
    BY FilteredNothing
  <2> DEFINE e == <<>>
  <2>2. IsSeq(e) /\ Len(e) = 0 /\ Filtered(e, "saying") = e
    BY <2>1, Nothing
  <2>3. [i \in 1..Len(e) |-> e[i].text] = e
    OBVIOUS
  <2> HIDE DEF e
  <2>4. ContentText(e) = [i \in 1..Len(Filtered(e, "saying")) |-> Filtered(e, "saying")[i].text]
    BY <2>2, TextsOf
  <2>5. ContentText(e) = e
    BY <2>2, <2>3, <2>4
  <2> QED
    BY <2>5 DEF e
<1>2. ASSUME NEW piece
      PROVE  ContentText(Str(piece)) = <<piece>>
  <2> DEFINE part == [type |-> "string", text |-> piece]
  <2>1. Says(part) /\ part.text = piece
    BY DEF Says
  <2>2. Str(piece) = <<part>>
    BY DEF Str
  <2> HIDE DEF part
  <2>3. ContentText(<<part>>) = <<part.text>>
    BY <2>1, OnePiece
  <2> QED
    BY <2>1, <2>2, <2>3
<1>3. ASSUME NEW piece
      PROVE  ContentText(Text(piece)) = IF piece # White THEN <<piece>> ELSE <<>>
  <2> DEFINE part == [type |-> "text", text |-> piece]
  <2>1. (Says(part) <=> piece # White) /\ part.text = piece
    BY DEF Says
  <2>2. Text(piece) = <<part>>
    BY DEF Text
  <2> HIDE DEF part
  <2>3. ContentText(<<part>>) = IF Says(part) THEN <<part.text>> ELSE <<>>
    BY OnePiece
  <2> QED
    BY <2>1, <2>2, <2>3
<1> QED
  BY <1>1, <1>2, <1>3

(* Two single members joined are a pair.                                   *)
LEMMA JoinedPair ==
    ASSUME NEW a, NEW b
    PROVE  <<a>> \o <<b>> = <<a, b>>
<1> DEFINE x == <<a>>
           y == <<a, b>>
           z == Append(x, b)
<1>1. IsSeq(x) /\ Len(x) = 1 /\ x[1] = a
  BY Single
<1>2. y \in Seq({a, b}) /\ Len(y) = 2 /\ y[1] = a /\ y[2] = b
  OBVIOUS
<1> HIDE DEF x, y
<1>3. x \o <<b>> = z
  BY <1>1, Appended
<1>4. IsSeq(z) /\ Len(z) = Len(x) + 1
  BY <1>1, Appended
<1>5. z[Len(x) + 1] = b
  BY <1>1, Appended
<1>6. \A i \in 1..Len(x) : z[i] = x[i]
  BY <1>1, Appended
<1> HIDE DEF z
<1>7. Len(z) = 2 /\ z[1] = a /\ z[2] = b
  BY <1>1, <1>4, <1>5, <1>6
<1>8. IsSeq(y)
  BY <1>2 DEF IsSeq
<1>9. \A i \in 1..2 : i = 1 \/ i = 2
  OBVIOUS
<1>10. z = y
  BY <1>2, <1>4, <1>7, <1>8, <1>9, SameSequence
<1> QED
  BY <1>3, <1>10 DEF x, y

(* agentMessageText: an agent's heading and its task.                      *)
LEMMA TaskTexts ==
    ASSUME NEW piece \in Nat, piece # White, piece # Sealed
    PROVE  /\ AgentMessageText(Text(piece) \o Task(piece)) = <<piece, piece>>
           /\ ~IsOpaque(Text(piece) \o Task(piece))
           /\ IsOpaque(Text(piece) \o Task(Sealed))
<1> DEFINE p == [type |-> "text", text |-> piece]
           q == [type |-> "encrypted_content", text |-> piece]
           r == [type |-> "encrypted_content", text |-> Sealed]
           s == <<p, q>>
           t == <<p, r>>
<1>1. Text(piece) \o Task(piece) = s /\ Text(piece) \o Task(Sealed) = t
  <2>1. Text(piece) = <<p>> /\ Task(piece) = <<q>> /\ Task(Sealed) = <<r>>
    BY DEF Text, Task
  <2> HIDE DEF p, q, r
  <2> QED
    BY <2>1, JoinedPair
<1>2. p.text = piece /\ q.text = piece /\ r.text = Sealed
  OBVIOUS
<1> HIDE DEF p, q, r
<1>3. Len(s) = 2 /\ s[1] = p /\ s[2] = q /\ IsSeq(s)
  <2>1. s \in Seq({p, q}) /\ Len(s) = 2 /\ s[1] = p /\ s[2] = q
    OBVIOUS
  <2> HIDE DEF s
  <2> QED
    BY <2>1 DEF IsSeq
<1>4. Len(t) = 2 /\ t[2] = r
  OBVIOUS
<1>5. [i \in 1..Len(s) |-> s[i].text] = <<piece, piece>>
  BY <1>2
<1> DEFINE u == <<piece, piece>>
<1> HIDE DEF s, t, u
<1>6. \A i \in 1..2 : i = 1 \/ i = 2
  OBVIOUS
<1>7. \A i \in 1..Len(s) : s[i].text = piece
  BY <1>2, <1>3, <1>6
<1>8. ~IsOpaque(s) /\ IsOpaque(t)
  BY <1>2, <1>4, <1>7 DEF IsOpaque
<1>9. \A i \in 1..Len(s) : Keeps(s[i], "plain")
  BY <1>7 DEF Keeps
<1>10. Filtered(s, "plain") = s
  BY <1>3, <1>9, FilteredAll
<1>11. AgentMessageText(s) = [i \in 1..Len(s) |-> s[i].text]
  <2> DEFINE P == {i \in 1..Len(s) : s[i].text \notin {Sealed, White}}
             Q == {i \in 1..Len(s) : Keeps(s[i], "plain")}
  <2>1. P = Q
    BY DEF Keeps
  <2>2. Kept(s, P) = s
    BY <1>10, <2>1 DEF Filtered
  <2>3. AgentMessageText(s) = [i \in 1..Len(Kept(s, P)) |-> Kept(s, P)[i].text]
    BY DEF AgentMessageText
  <2> HIDE DEF P
  <2> QED
    BY <2>2, <2>3
<1>12. AgentMessageText(s) = u
  BY <1>5, <1>11 DEF u
<1> QED
  BY <1>1, <1>8, <1>12 DEF u

-----------------------------------------------------------------------------
(* Items that say something of their own, whatever stands before them.     *)
Tells(added, said) ==
    /\ Shaped(added) /\ IsSeq(said)
    /\ \A before : Shaped(before) => Saying(before \o added) = Saying(before) \o said

(* Items joined are items.                                                 *)
LEMMA JoinedShapes ==
    ASSUME NEW s, NEW t, Shaped(s), Shaped(t)
    PROVE  Shaped(s \o t)
<1>1. IsSeq(s) /\ IsSeq(t) /\ IsSeq(s \o t)
  BY Joined DEF Shaped
<1>2. ASSUME NEW i \in 1..Len(s \o t)
      PROVE  ItemShape((s \o t)[i])
  <2>1. CASE i \in 1..Len(s)
    BY <1>1, <2>1, Joined DEF Shaped
  <2>2. CASE i \notin 1..Len(s)
    <3>1. PICK k \in 1..Len(t) : i = Len(s) + k
      BY <1>1, <2>2, Joined
    <3>2. (s \o t)[i] = t[k]
      BY <1>1, <3>1, Joined
    <3> QED
      BY <3>2 DEF Shaped
  <2> QED
    BY <2>1, <2>2
<1> QED
  BY <1>1, <1>2 DEF Shaped

(* One item is a list of items.                                            *)
LEMMA OneShape ==
    ASSUME NEW item, ItemShape(item)
    PROVE  Shaped(<<item>>)
<1> DEFINE s == <<item>>
<1>1. IsSeq(s) /\ Len(s) = 1 /\ s[1] = item
  BY Single
<1>2. \A i \in 1..1 : i = 1
  OBVIOUS
<1> HIDE DEF s
<1>3. Shaped(s)
  BY <1>1, <1>2 DEF Shaped
<1> QED
  BY <1>3 DEF s

(* No items tell nothing.                                                  *)
LEMMA TellsNothing == Tells(<<>>, <<>>)
<1>1. Shaped(<<>>)
  BY Nothing DEF Shaped
<1>2. ASSUME NEW before, Shaped(before)
      PROVE  Saying(before \o <<>>) = Saying(before) \o <<>>
  <2>1. before \o <<>> = before
    BY <1>2, JoinedToNothing DEF Shaped
  <2>2. Saying(before) \o <<>> = Saying(before)
    BY <1>2, SayingSeq, JoinedToNothing
  <2> QED
    BY <2>1, <2>2
<1> QED
  BY <1>1, <1>2, Nothing DEF Tells

(* An item tells what it adds to any items before it.                      *)
LEMMA TellsItem ==
    ASSUME NEW item, NEW said, ItemShape(item), IsSeq(said),
           \A before : Shaped(before) => Saying(Append(before, item)) = Saying(before) \o said
    PROVE  Tells(<<item>>, said)
<1>1. ASSUME NEW before, Shaped(before)
      PROVE  Saying(before \o <<item>>) = Saying(before) \o said
  <2>1. before \o <<item>> = Append(before, item)
    BY <1>1, Appended DEF Shaped
  <2> QED
    BY <1>1, <2>1
<1>2. Shaped(<<item>>)
  BY OneShape
<1> QED
  BY <1>1, <1>2 DEF Tells

(* An item without records tells nothing.                                  *)
LEMMA TellsNone ==
    ASSUME NEW item, ItemShape(item), Records(item) = <<>>
    PROVE  Tells(<<item>>, <<>>)
<1> DEFINE e == <<>>
<1>1. IsSeq(e) /\ Records(item) = e
  BY Nothing
<1>2. ASSUME NEW before, Shaped(before)
      PROVE  Saying(Append(before, item)) = Saying(before) \o e
  <2>1. Saying(before) \o <<>> = Saying(before)
    BY <1>2, SayingSeq, JoinedToNothing
  <2> QED
    BY <1>2, <2>1, SayingNone
<1> HIDE DEF e
<1>3. Tells(<<item>>, e)
  BY <1>1, <1>2, TellsItem
<1> QED
  BY <1>3 DEF e

(* An item with one record tells what the record says.                     *)
LEMMA TellsRecord ==
    ASSUME NEW item, NEW r, ItemShape(item), Records(item) = <<r>>
    PROVE  Tells(<<item>>, Uttered(r))
<1>1. GoodRecords(<<r>>)
  BY ItemRecords
<1>2. GoodRecord(r)
  BY <1>1, Single DEF GoodRecords
<1>3. IsSeq(Uttered(r))
  BY <1>2, UtteredParts DEF GoodRecord
<1>4. \A before : Shaped(before) => Saying(Append(before, item)) = Saying(before) \o Uttered(r)
  BY SayingRecord
<1> QED
  BY <1>3, <1>4, TellsItem

(* An item with one part tells that part.                                  *)
LEMMA TellsPart ==
    ASSUME NEW item, NEW role, NEW part, ItemShape(item), Records(item) = <<Record(role, <<part>>)>>,
           Unwrapped(Wrapped(part)) = part
    PROVE  Tells(<<item>>, <<Speech(role, part)>>)
<1> DEFINE r == Record(role, <<part>>)
           u == <<Speech(role, part)>>
<1>1. Uttered(r) = u
  BY UtteredOne
<1>2. Records(item) = <<r>>
  OBVIOUS
<1> HIDE DEF r, u
<1>3. Tells(<<item>>, Uttered(r))
  BY <1>2, TellsRecord
<1> QED
  BY <1>1, <1>3 DEF u

(* A system message tells its text and the acknowledgement.                *)
LEMMA TellsTwo ==
    ASSUME NEW item, NEW p, NEW q, ItemShape(item),
           Records(item) = <<Record("user", <<p>>), Record("assistant", <<q>>)>>,
           Unwrapped(Wrapped(p)) = p, Unwrapped(Wrapped(q)) = q
    PROVE  Tells(<<item>>, <<Speech("user", p)>> \o <<Speech("assistant", q)>>)
<1> DEFINE x == <<Speech("user", p)>>
           y == <<Speech("assistant", q)>>
<1>1. IsSeq(x) /\ IsSeq(y)
  BY Single
<1>2. \A before : Shaped(before) => Saying(Append(before, item)) = (Saying(before) \o x) \o y
  BY SayingTwo
<1> HIDE DEF x, y
<1>3. ASSUME NEW before, Shaped(before)
      PROVE  Saying(Append(before, item)) = Saying(before) \o (x \o y)
  <2> DEFINE w == Saying(before)
  <2>1. IsSeq(w)
    BY <1>3, SayingSeq
  <2>2. Saying(Append(before, item)) = (w \o x) \o y
    BY <1>2, <1>3
  <2> HIDE DEF w
  <2>3. (w \o x) \o y = w \o (x \o y)
    BY <1>1, <2>1, JoinedThrice
  <2> QED
    BY <2>2, <2>3 DEF w
<1>4. IsSeq(x \o y)
  BY <1>1, Joined
<1>5. Tells(<<item>>, x \o y)
  BY <1>3, <1>4, TellsItem
<1> QED
  BY <1>5 DEF x, y

(* Items joined tell what the first and then the others tell.              *)
LEMMA TellsJoined ==
    ASSUME NEW a, NEW b, NEW x, NEW y, Tells(a, x), Tells(b, y)
    PROVE  Tells(a \o b, x \o y)
<1>1. Shaped(a) /\ Shaped(b) /\ IsSeq(x) /\ IsSeq(y)
  BY DEF Tells
<1>2. Shaped(a \o b) /\ IsSeq(x \o y)
  BY <1>1, JoinedShapes, Joined
<1>3. ASSUME NEW before, Shaped(before)
      PROVE  Saying(before \o (a \o b)) = Saying(before) \o (x \o y)
  <2>0. IsSeq(before) /\ IsSeq(a) /\ IsSeq(b) /\ IsSeq(Saying(before))
    BY <1>1, <1>3, SayingSeq DEF Shaped
  <2>1. before \o (a \o b) = (before \o a) \o b
    BY <2>0, JoinedThrice, SMTT(30)
  <2>2. Shaped(before \o a)
    BY <1>1, <1>3, JoinedShapes
  <2>3. Saying((before \o a) \o b) = Saying(before \o a) \o y
    BY <2>2 DEF Tells
  <2>4. Saying(before \o a) = Saying(before) \o x
    BY <1>3 DEF Tells
  <2>5. (Saying(before) \o x) \o y = Saying(before) \o (x \o y)
    <3> DEFINE w == Saying(before)
    <3>1. IsSeq(w)
      BY <2>0
    <3> HIDE DEF w
    <3>2. (w \o x) \o y = w \o (x \o y)
      BY <1>1, <3>1, JoinedThrice
    <3> QED
      BY <3>2 DEF w
  <2> QED
    BY <2>1, <2>3, <2>4, <2>5
<1> QED
  BY <1>2, <1>3 DEF Tells

(* Items that tell one speech each tell them in order.                     *)
LEMMA TellsEach ==
    ASSUME NEW added, NEW said, IsSeq(added), IsSeq(said), Len(added) = Len(said),
           \A i \in 1..Len(added) : Tells(<<added[i]>>, <<said[i]>>)
    PROVE  Tells(added, said)
<1> DEFINE n    == Len(added)
           Done == {k \in 0..n : Tells(Prefix(added, k), Prefix(said, k))}
<1>1. n \in Nat
  BY DEF IsSeq
<1>2. 0 \in Done
  BY <1>1, PrefixNone, TellsNothing
<1>3. ASSUME NEW k \in 1..n, k - 1 \in Done
      PROVE  k \in Done
  <2> DEFINE p == Prefix(added, k - 1)
             q == Prefix(said, k - 1)
  <2>1. Prefix(added, k) = Append(p, added[k]) /\ IsSeq(p)
    BY PrefixNext
  <2>2. Prefix(said, k) = Append(q, said[k]) /\ IsSeq(q)
    BY PrefixNext
  <2>3. Tells(p, q) /\ Tells(<<added[k]>>, <<said[k]>>)
    BY <1>3
  <2> HIDE DEF p, q
  <2>4. Append(p, added[k]) = p \o <<added[k]>> /\ Append(q, said[k]) = q \o <<said[k]>>
    BY <2>1, <2>2, Appended
  <2>5. Tells(Prefix(added, k), Prefix(said, k))
    BY <2>1, <2>2, <2>3, <2>4, TellsJoined
  <2> QED
    BY <1>1, <2>5
<1>4. n \in Done
  <2>1. \A k \in 1..n : k - 1 \in Done => k \in Done
    BY <1>3
  <2> HIDE DEF Done, n
  <2>2. \A k \in 0..n : k \in Done
    BY <1>1, <1>2, <2>1, Positions
  <2> QED
    BY <1>1, <2>2
<1>5. Prefix(added, n) = added /\ Prefix(said, n) = said
  BY PrefixAll
<1> QED
  BY <1>4, <1>5

(* What an assistant says in a turn: its remark, and its calls by the IDs  *)
(* and names Cursor knows.                                                 *)
Remark(text, piece) == IF text = <<>> THEN <<>> ELSE <<Speech("assistant", Part(<<piece>>))>>

(* What a caller's call is to Cursor: its own ID and tool name, and what   *)
(* the format carries of its arguments.                                    *)
CallSpeech(call) ==
    Speech("assistant", CallPart(RestoreToolCallID(call.id),
                                 CallerToolName(call.tool.namespace, call.tool.name), Carried(call.args)))

(* The arguments are such as the tool takes.                               *)
Fitting(call) ==
    \E n, form : /\ call.args = Args(n, form)
                 /\ form \in IF call.tool.custom THEN {"plain", "padded", "extra"}
                                                ELSE {"plain", "wide", "broken"}

(* parseArgumentValue loses of a chat call's arguments what Carried says.  *)
LEMMA ParsedIsCarried ==
    ASSUME format # "openai-response", NEW args
    PROVE  ParseArgumentValue(args) = Carried(args)
  BY DEF ParseArgumentValue, Carried

(* So do responseToolItem and then stringValue or parseArgumentValue of    *)
(* the arguments of an item.                                               *)
LEMMA ItemIsCarried ==
    ASSUME format = "openai-response", NEW call, Fitting(call)
    PROVE  CallArguments(ResponseToolItem(call)) = Carried(call.args)
<1> DEFINE item == ResponseToolItem(call)
<1>1. PICK n, form : /\ call.args = Args(n, form)
                     /\ form \in IF call.tool.custom THEN {"plain", "padded", "extra"}
                                                    ELSE {"plain", "wide", "broken"}
  BY DEF Fitting
<1>2. /\ item.type = (IF call.tool.custom THEN "custom_tool_call" ELSE "function_call")
      /\ item.args = ItemArguments(call)
  BY DEF ResponseToolItem
<1> HIDE DEF item
<1>3. CASE call.tool.custom
  <2>1. form \in {"plain", "padded", "extra"} /\ CallArguments(item) = StringValue(ItemArguments(call))
    BY <1>1, <1>2, <1>3 DEF CallArguments
  <2>2. StringValue(ItemArguments(call)) = Args(n, "plain") /\ Carried(call.args) = Args(n, "plain")
    BY <1>1, <1>3, <2>1 DEF ItemArguments, StringValue, Carried, Args
  <2> QED
    BY <2>1, <2>2 DEF item
<1>4. CASE ~call.tool.custom
  <2>1. form \in {"plain", "wide", "broken"} /\ CallArguments(item) = ParseArgumentValue(call.args)
    BY <1>1, <1>2, <1>4 DEF CallArguments, ItemArguments
  <2>2. ParseArgumentValue(call.args) = Carried(call.args)
    BY <1>1, <2>1 DEF ParseArgumentValue, Carried, Args
  <2> QED
    BY <2>1, <2>2 DEF item
<1> QED
  BY <1>3, <1>4

(* A record of two lists of parts says the one and then the other.         *)
LEMMA UtteredBoth ==
    ASSUME NEW role, NEW p, NEW q, IsSeq(p), IsSeq(q)
    PROVE  Uttered(Record(role, p \o q)) = Uttered(Record(role, p)) \o Uttered(Record(role, q))
<1> DEFINE a == Record(role, p)
           b == Record(role, q)
           c == Record(role, p \o q)
<1>1. /\ a.role = role /\ a.parts = p /\ b.role = role /\ b.parts = q
      /\ c.role = role /\ c.parts = p \o q
  BY DEF Record
<1> HIDE DEF a, b, c
<1>2. IsSeq(a.parts) /\ IsSeq(b.parts) /\ a.role = b.role /\ c.role = a.role /\ c.parts = a.parts \o b.parts
  BY <1>1
<1>3. Uttered(c) = Uttered(a) \o Uttered(b)
  BY <1>2, UtteredJoined
<1> QED
  BY <1>3 DEF a, b, c

(* A record without parts says nothing.                                    *)
LEMMA UtteredNothing ==
    ASSUME NEW role
    PROVE  Uttered(Record(role, <<>>)) = <<>>
<1> DEFINE e == <<>>
           r == Record(role, e)
<1>1. r.parts = e /\ IsSeq(e) /\ Len(e) = 0
  BY Nothing DEF Record
<1> HIDE DEF r
<1>2. IsSeq(Uttered(r)) /\ Len(Uttered(r)) = 0
  BY <1>1, UtteredParts
<1>3. Uttered(r) = <<>>
  BY <1>2 DEF IsSeq
<1> QED
  BY <1>3 DEF r

(* The remark beside a call is one text, or nothing when there is none.    *)
LEMMA RemarkTexts ==
    ASSUME NEW piece, piece # White, NEW text, text = <<>> \/ text = Text(piece)
    PROVE  /\ IsSeq(Texts(ContentText(text))) /\ IsSeq(Remark(text, piece))
           /\ Uttered(Record("assistant", Texts(ContentText(text)))) = Remark(text, piece)
           /\ text = <<>> => Texts(ContentText(text)) = <<>>
           /\ text # <<>> => Texts(ContentText(text)) = <<Part(<<piece>>)>>
<1>1. CASE text = <<>>
  <2>1. ContentText(text) = <<>>
    BY <1>1, ContentTexts
  <2>2. Texts(ContentText(text)) = <<>> /\ Remark(text, piece) = <<>>
    BY <1>1, <2>1 DEF Texts, Remark
  <2> QED
    BY <1>1, <2>2, UtteredNothing, Nothing
<1>2. CASE text = Text(piece) /\ text # <<>>
  <2>1. ContentText(text) = <<piece>>
    BY <1>2, ContentTexts
  <2>2. <<piece>> # <<>>
    BY OnePart
  <2>3. Texts(ContentText(text)) = <<Part(<<piece>>)>>
    BY <2>1, <2>2 DEF Texts
  <2>4. Remark(text, piece) = <<Speech("assistant", Part(<<piece>>))>>
    BY <1>2 DEF Remark
  <2>5. Uttered(Record("assistant", <<Part(<<piece>>)>>)) = <<Speech("assistant", Part(<<piece>>))>>
    BY UtteredOne, PartsAreRead
  <2> QED
    BY <1>2, <2>3, <2>4, <2>5, Single
<1> QED
  BY <1>1, <1>2

(* An assistant message without calls tells its remark.                    *)
LEMMA MessageTells ==
    ASSUME NEW piece, piece # White, NEW text, text = <<>> \/ text = Text(piece)
    PROVE  Tells(<<Message("assistant", text)>>, Remark(text, piece))
<1> DEFINE item  == Message("assistant", text)
           texts == Texts(ContentText(text))
<1>1. item.type = "message" /\ item.role = "assistant" /\ item.calls = <<>> /\ item.content = text
  BY DEF Message
<1>2. ChatCalls(item) = <<>>
  BY <1>1, Nothing DEF ChatCalls
<1>3. texts \o <<>> = texts
  BY RemarkTexts, JoinedToNothing
<1> HIDE DEF item
<1>4. ItemShape(item)
  BY <1>1, Nothing DEF ItemShape
<1>5. Records(item) = IF texts = <<>> THEN <<>> ELSE <<Record("assistant", texts)>>
  BY <1>1, <1>2, <1>3 DEF Records
<1> HIDE DEF texts
<1>6. CASE text = <<>>
  <2>1. Records(item) = <<>> /\ Remark(text, piece) = <<>>
    BY <1>5, <1>6, RemarkTexts DEF texts, Remark
  <2> QED
    BY <1>4, <2>1, TellsNone DEF item
<1>7. CASE text # <<>>
  <2> DEFINE r == Record("assistant", texts)
  <2>1. texts = <<Part(<<piece>>)>> /\ Uttered(r) = Remark(text, piece)
    BY <1>7, RemarkTexts DEF texts
  <2>2. Records(item) = <<r>>
    BY <1>5, <2>1, OnePart
  <2> HIDE DEF r
  <2>3. Tells(<<item>>, Uttered(r))
    BY <1>4, <2>2, TellsRecord
  <2> QED
    BY <2>1, <2>3 DEF item
<1> QED
  BY <1>6, <1>7

(* A chat message with tool_calls tells its remark and then its calls,     *)
(* under the names and IDs Cursor gave them.                               *)
LEMMA ChatTells ==
    ASSUME format # "openai-response", NEW piece, piece # White, NEW text, text = <<>> \/ text = Text(piece),
           NEW calls, IsSeq(calls), NEW said, IsSeq(said), Len(said) = Len(calls),
           \A i \in 1..Len(calls) : /\ CallerToolName(calls[i].tool.namespace, calls[i].tool.name) = calls[i].tool.name
                                    /\ said[i] = CallSpeech(calls[i])
    PROVE  Tells(ChatItems(text, calls), Remark(text, piece) \o said)
<1> DEFINE kept  == [i \in 1..Len(calls) |-> [id |-> calls[i].id, name |-> calls[i].tool.name, args |-> calls[i].args]]
           item  == [Message("assistant", text) EXCEPT !.calls = kept]
           texts == Texts(ContentText(text))
           parts == ChatCalls(item)
<1>0. Len(calls) \in Nat
  BY DEF IsSeq
<1>1. item.type = "message" /\ item.role = "assistant" /\ item.calls = kept /\ item.content = text
  BY DEF Message
<1>2. /\ IsSeq(kept) /\ Len(kept) = Len(calls)
      /\ \A i \in 1..Len(calls) : /\ kept[i].id = calls[i].id /\ kept[i].name = calls[i].tool.name
                                  /\ kept[i].args = calls[i].args
  <2>1. Len(kept) = Len(calls) /\ kept \in Seq({kept[i] : i \in 1..Len(calls)})
    BY <1>0
  <2>2. \A i \in 1..Len(calls) : /\ kept[i].id = calls[i].id /\ kept[i].name = calls[i].tool.name
                                 /\ kept[i].args = calls[i].args
    OBVIOUS
  <2> HIDE DEF kept
  <2> QED
    BY <2>1, <2>2 DEF IsSeq
<1>3. ChatItems(text, calls) = <<item>>
  BY DEF ChatItems
<1> HIDE DEF item, kept
<1>4. ItemShape(item)
  BY <1>1, <1>2 DEF ItemShape
<1>5. Records(item) = IF texts \o parts = <<>> THEN <<>> ELSE <<Record("assistant", texts \o parts)>>
  BY <1>1 DEF Records
<1>6. /\ IsSeq(parts) /\ Len(parts) = Len(calls)
      /\ \A i \in 1..Len(calls) :
            parts[i] = CallPart(RestoreToolCallID(calls[i].id), calls[i].tool.name, Carried(calls[i].args))
  <2>1. parts = [i \in 1..Len(kept) |->
                    CallPart(RestoreToolCallID(kept[i].id), kept[i].name, ParseArgumentValue(kept[i].args))]
    BY <1>1 DEF ChatCalls
  <2>2. Len(parts) = Len(calls) /\ parts \in Seq({parts[i] : i \in 1..Len(calls)})
    BY <1>0, <1>2, <2>1
  <2> HIDE DEF parts
  <2>3. IsSeq(parts)
    BY <2>2 DEF IsSeq
  <2>4. \A i \in 1..Len(calls) :
            parts[i] = CallPart(RestoreToolCallID(calls[i].id), calls[i].tool.name, Carried(calls[i].args))
    BY <1>2, <2>1, ParsedIsCarried
  <2> QED
    BY <2>2, <2>3, <2>4
<1> HIDE DEF texts, parts
<1>7. Uttered(Record("assistant", parts)) = said
  <2> DEFINE r == Record("assistant", parts)
             u == Uttered(r)
  <2>1. r.role = "assistant" /\ r.parts = parts
    BY DEF Record
  <2> HIDE DEF r
  <2>2. /\ IsSeq(u) /\ Len(u) = Len(parts)
        /\ \A j \in 1..Len(parts) : u[j] = Speech("assistant", Unwrapped(Wrapped(parts[j])))
    BY <1>6, <2>1, UtteredParts
  <2> HIDE DEF u
  <2>3. ASSUME NEW i \in 1..Len(calls)
        PROVE  u[i] = said[i]
    <3>1. u[i] = Speech("assistant", Unwrapped(Wrapped(parts[i])))
      BY <1>6, <2>2
    <3>2. Unwrapped(Wrapped(parts[i])) = parts[i]
      BY <1>6, PartsAreRead
    <3>3. said[i] = Speech("assistant", parts[i])
      BY <1>6 DEF CallSpeech
    <3> QED
      BY <3>1, <3>2, <3>3
  <2>4. u = said
    BY <1>6, <2>2, <2>3, SameSequence
  <2> QED
    BY <2>4 DEF u, r
<1>8. IsSeq(texts) /\ Uttered(Record("assistant", texts)) = Remark(text, piece)
  BY RemarkTexts DEF texts
<1>9. Uttered(Record("assistant", texts \o parts)) = Remark(text, piece) \o said
  <2>1. Uttered(Record("assistant", texts \o parts)) =
           Uttered(Record("assistant", texts)) \o Uttered(Record("assistant", parts))
    BY <1>6, <1>8, UtteredBoth
  <2> QED
    BY <1>7, <1>8, <2>1
<1>10. CASE texts \o parts = <<>>
  <2>1. Remark(text, piece) \o said = <<>>
    BY <1>9, <1>10, UtteredNothing
  <2>2. Tells(<<item>>, <<>>)
    BY <1>4, <1>5, <1>10, TellsNone
  <2> QED
    BY <1>3, <2>1, <2>2
<1>11. CASE texts \o parts # <<>>
  <2> DEFINE r == Record("assistant", texts \o parts)
  <2>1. Records(item) = <<r>>
    BY <1>5, <1>11
  <2>2. Uttered(r) = Remark(text, piece) \o said
    BY <1>9
  <2> HIDE DEF r
  <2>3. Tells(<<item>>, Uttered(r))
    BY <1>4, <2>1, TellsRecord
  <2> QED
    BY <1>3, <2>2, <2>3
<1> QED
  BY <1>10, <1>11

(* A function_call or custom_tool_call item tells its call, under Cursor's *)
(* name and ID (responseToolItem, historyToolName).                        *)
LEMMA ToolItemTells ==
    ASSUME format = "openai-response", NEW call, Fitting(call)
    PROVE  Tells(<<ResponseToolItem(call)>>, <<CallSpeech(call)>>)
<1> DEFINE item == ResponseToolItem(call)
           part == CallPart(RestoreToolCallID(call.id), CallerToolName(call.tool.namespace, call.tool.name),
                            Carried(call.args))
<1>1. /\ item.type \in {"custom_tool_call", "function_call"} /\ item.role = "" /\ item.call_id = call.id
      /\ item.namespace = call.tool.namespace /\ item.name = call.tool.name
      /\ CallArguments(item) = Carried(call.args)
  BY ItemIsCarried DEF ResponseToolItem
<1> HIDE DEF item
<1>2. ItemShape(item)
  BY <1>1 DEF ItemShape
<1>3. Records(item) = <<Record("assistant", <<part>>)>>
  BY <1>1 DEF Records
<1>4. Unwrapped(Wrapped(part)) = part
  BY PartsAreRead
<1>5. CallSpeech(call) = Speech("assistant", part)
  BY DEF CallSpeech
<1> HIDE DEF part
<1>6. Tells(<<item>>, <<Speech("assistant", part)>>)
  BY <1>2, <1>3, <1>4, TellsPart
<1> QED
  BY <1>5, <1>6 DEF item

(* Responses items tell the remark and the calls in the order in which     *)
(* they stand.                                                             *)
LEMMA ResponseTells ==
    ASSUME format = "openai-response", NEW piece, piece # White, NEW text, text = <<>> \/ text = Text(piece),
           NEW calls, IsSeq(calls), NEW said, IsSeq(said), Len(said) = Len(calls),
           \A i \in 1..Len(calls) : said[i] = CallSpeech(calls[i]) /\ Fitting(calls[i]), NEW callsFirst \in BOOLEAN
    PROVE  Tells(ResponseItems(text, calls, callsFirst),
                 IF callsFirst THEN said \o Remark(text, piece) ELSE Remark(text, piece) \o said)
<1> DEFINE items   == [i \in 1..Len(calls) |-> ResponseToolItem(calls[i])]
           message == <<Message("assistant", text)>>
           remark  == Remark(text, piece)
<1>0. Len(calls) \in Nat
  BY DEF IsSeq
<1>1. IsSeq(items) /\ Len(items) = Len(calls) /\ \A i \in 1..Len(calls) : items[i] = ResponseToolItem(calls[i])
  <2>1. Len(items) = Len(calls) /\ items \in Seq({items[i] : i \in 1..Len(calls)})
    BY <1>0
  <2>2. \A i \in 1..Len(calls) : items[i] = ResponseToolItem(calls[i])
    OBVIOUS
  <2> HIDE DEF items
  <2> QED
    BY <2>1, <2>2 DEF IsSeq
<1>2. ResponseItems(text, calls, callsFirst) =
         IF callsFirst THEN items \o message ELSE IF text = <<>> THEN items ELSE message \o items
  BY DEF ResponseItems
<1> HIDE DEF items
<1>3. Tells(items, said)
  <2>1. \A i \in 1..Len(items) : Tells(<<items[i]>>, <<said[i]>>)
    BY <1>1, ToolItemTells
  <2>2. Len(items) = Len(said)
    BY <1>1
  <2> QED
    BY <1>1, <2>1, <2>2, TellsEach
<1>4. Tells(message, remark)
  BY MessageTells
<1>5. text = <<>> => remark \o said = said
  BY JoinedToNothing DEF Remark
<1> HIDE DEF message, remark
<1>6. Tells(items \o message, said \o remark) /\ Tells(message \o items, remark \o said)
  BY <1>3, <1>4, TellsJoined
<1>7. Tells(ResponseItems(text, calls, callsFirst), IF callsFirst THEN said \o remark ELSE remark \o said)
  BY <1>2, <1>3, <1>5, <1>6
<1> QED
  BY <1>7 DEF remark

(* A Claude assistant message without calls tells its remark.              *)
LEMMA ClaudeTells ==
    ASSUME NEW piece, piece # White, NEW text, text = <<>> \/ text = Text(piece)
    PROVE  Tells(ClaudeItems(text, <<>>), Remark(text, piece))
<1>1. IsSeq(text)
  BY Nothing, Single DEF Text
<1>2. ClaudeItems(text, <<>>) = <<Message("assistant", text \o <<>>)>>
  BY Nothing DEF ClaudeItems
<1>3. text \o <<>> = text
  BY <1>1, JoinedToNothing
<1> QED
  BY <1>2, <1>3, MessageTells

-----------------------------------------------------------------------------
(* Items that carry what was said to Cursor.                               *)
Asks(item) == item.type = "agent_message" \/ item.role = "user"

(* No instruction reads like the request to continue, which turnInput puts *)
(* in when there is none.                                                  *)
Worded(items) == \A i \in 1..Len(items) : Asks(items[i]) => ActiveText(items[i]) # <<ContinuationPrompt>>

(* Items that tell what was said, up to what Agrees leaves open.           *)
Carries(items, speeches) ==
    /\ IsSeq(speeches) /\ Worded(items)
    /\ \E said : Tells(items, said) /\ Agrees(said, speeches)

(* Answers to calls are no instructions.                                   *)
LEMMA AnswersDoNotAsk ==
    ASSUME NEW items, Answers(items)
    PROVE  IsSeq(items) /\ Worded(items) /\ \A i \in 1..Len(items) : ~Asks(items[i])
  BY DEF Answers, IsAnswer, ItemShape, Asks, Worded

(* Texts that are not white and calls say something; a text of the         *)
(* assistant is a remark.                                                  *)
LEMMA SpeechesSay ==
    /\ \A role, piece : piece # White => SaysSomething(Speech(role, Part(<<piece>>)))
    /\ \A call : IsCall(CallSpeech(call)) /\ SaysSomething(CallSpeech(call))
    /\ \A piece : IsRemark(Speech("assistant", Part(<<piece>>)))
<1>1. ASSUME NEW role, NEW piece, piece # White
      PROVE  SaysSomething(Speech(role, Part(<<piece>>)))
  <2>1. ~IsBlank(<<piece>>)
    BY <1>1, Single DEF IsBlank
  <2> QED
    BY <2>1 DEF SaysSomething, Speech, Part
<1>2. ASSUME NEW call
      PROVE  IsCall(CallSpeech(call)) /\ SaysSomething(CallSpeech(call))
  BY DEF IsCall, SaysSomething, CallSpeech, Speech, CallPart
<1>3. ASSUME NEW piece
      PROVE  IsRemark(Speech("assistant", Part(<<piece>>)))
  BY DEF IsRemark, Speech, Part
<1> QED
  BY <1>1, <1>2, <1>3

(* The remark and the calls of one message agree with themselves in their  *)
(* order, and a single call may stand before the remark.                   *)
LEMMA RemarkAgrees ==
    ASSUME NEW piece, piece # White, NEW text,
           NEW calls, IsSeq(calls), NEW said, IsSeq(said), Len(said) = Len(calls),
           \A i \in 1..Len(calls) : said[i] = CallSpeech(calls[i])
    PROVE  /\ IsSeq(Remark(text, piece)) /\ IsSeq(Remark(text, piece) \o said)
           /\ Agrees(Remark(text, piece) \o said, Remark(text, piece) \o said)
           /\ Len(calls) = 1 => Agrees(said \o Remark(text, piece), Remark(text, piece) \o said)
<1> DEFINE remark == Remark(text, piece)
           y      == Speech("assistant", Part(<<piece>>))
<1>1. remark = <<>> \/ remark = <<y>>
  BY DEF Remark
<1>2. SaysSomething(y) /\ IsRemark(y)
  BY SpeechesSay
<1> HIDE DEF remark, y
<1>3. IsSeq(remark) /\ IsSeq(remark \o said) /\ Agrees(remark, remark)
  BY <1>1, <1>2, Nothing, Single, Joined, AgreesNothing, AgreesOne
<1>4. Agrees(said, said)
  <2>1. \A i \in 1..Len(said) : SaysSomething(said[i])
    BY SpeechesSay
  <2> QED
    BY <2>1, AgreesSame
<1>5. Agrees(remark \o said, remark \o said)
  BY <1>3, <1>4, AgreesJoined
<1>6. ASSUME Len(calls) = 1
      PROVE  Agrees(said \o remark, remark \o said)
  <2>1. CASE remark = <<>>
    <3>1. remark \o said = said /\ said \o remark = said
      BY <2>1, JoinedToNothing
    <3> QED
      BY <1>4, <3>1
  <2>2. CASE remark = <<y>>
    <3> DEFINE x == CallSpeech(calls[1])
               s == <<x>>
    <3>1. IsSeq(s) /\ Len(s) = 1 /\ s[1] = x
      BY Single
    <3>2. said[1] = x /\ Len(said) = 1
      BY <1>6
    <3>3. \A i \in 1..1 : i = 1
      OBVIOUS
    <3>4. IsCall(x)
      BY SpeechesSay
    <3> HIDE DEF s, x
    <3>5. said = s
      BY <3>1, <3>2, <3>3, SameSequence
    <3>6. Agrees(<<x>> \o <<y>>, <<y>> \o <<x>>)
      BY <1>2, <3>4, AgreesSwapped
    <3> QED
      BY <2>2, <3>5, <3>6 DEF s
  <2> QED
    BY <1>1, <2>1, <2>2
<1> QED
  BY <1>3, <1>5, <1>6 DEF remark

(* openAIResponse, claudeResponse and the items of a Responses stream: the *)
(* assistant's turn in each format says what was said, up to the order of  *)
(* a remark and a call.                                                    *)
LEMMA AssistantCarries ==
    ASSUME format \in Formats, NEW piece, piece # White, NEW text, text = <<>> \/ text = Text(piece),
           NEW calls, IsSeq(calls), NEW said, IsSeq(said), Len(said) = Len(calls),
           \A i \in 1..Len(calls) : said[i] = CallSpeech(calls[i]) /\ Fitting(calls[i]), NEW callsFirst \in BOOLEAN,
           format # "openai-response" => \A i \in 1..Len(calls) :
                CallerToolName(calls[i].tool.namespace, calls[i].tool.name) = calls[i].tool.name,
           format = "claude" => calls = <<>>, callsFirst => Len(calls) = 1
    PROVE  Carries(AssistantItems(text, calls, callsFirst), Remark(text, piece) \o said)
<1> DEFINE items  == AssistantItems(text, calls, callsFirst)
           remark == Remark(text, piece)
<1>0. format \in {"openai-chat", "openai-response", "claude"}
  BY ConversationAssumption
<1>1. IsSeq(items) /\ Worded(items)
  BY AssistantCalls, AnswersDoNotAsk
<1>2. /\ IsSeq(remark) /\ IsSeq(remark \o said) /\ Agrees(remark \o said, remark \o said)
      /\ Len(calls) = 1 => Agrees(said \o remark, remark \o said)
  BY RemarkAgrees
<1>3. CASE format = "openai-chat"
  <2>1. Tells(ChatItems(text, calls), remark \o said)
    BY <1>3, ChatTells
  <2>2. items = ChatItems(text, calls)
    BY <1>3 DEF AssistantItems
  <2> HIDE DEF items, remark
  <2>3. Tells(items, remark \o said)
    BY <2>1, <2>2
  <2>4. Carries(items, remark \o said)
    BY <1>1, <1>2, <2>3 DEF Carries
  <2> QED
    BY <2>4 DEF items, remark
<1>4. CASE format = "openai-response"
  <2>1. Tells(ResponseItems(text, calls, callsFirst), IF callsFirst THEN said \o remark ELSE remark \o said)
    BY <1>4, ResponseTells
  <2>2. items = ResponseItems(text, calls, callsFirst)
    BY <1>4 DEF AssistantItems
  <2> HIDE DEF items, remark
  <2> DEFINE told == IF callsFirst THEN said \o remark ELSE remark \o said
  <2>3. (told = remark \o said) \/ (callsFirst /\ told = said \o remark)
    OBVIOUS
  <2>4. Tells(items, told)
    BY <2>1, <2>2
  <2> HIDE DEF told
  <2>5. Agrees(told, remark \o said)
    BY <1>2, <2>3
  <2>6. Carries(items, remark \o said)
    BY <1>1, <1>2, <2>4, <2>5 DEF Carries
  <2> QED
    BY <2>6 DEF items, remark
<1>5. CASE format = "claude"
  <2>1. calls = <<>>
    BY <1>5
  <2>2. said = <<>>
    BY <2>1, Nothing DEF IsSeq
  <2>3. items = ClaudeItems(text, <<>>)
    BY <1>5, <2>1 DEF AssistantItems
  <2>4. Tells(ClaudeItems(text, <<>>), remark)
    BY ClaudeTells
  <2> HIDE DEF items, remark
  <2>5. remark \o said = remark
    BY <1>2, <2>2, JoinedToNothing
  <2>6. Tells(items, remark \o said)
    BY <2>3, <2>4, <2>5
  <2>7. Carries(items, remark \o said)
    BY <1>1, <1>2, <2>6 DEF Carries
  <2> QED
    BY <2>7 DEF items, remark
<1> QED
  BY <1>0, <1>3, <1>4, <1>5

-----------------------------------------------------------------------------
(* What a user or an agent asks, and what is said of it.                   *)
Pieces(item)  == [j \in 1..Len(item.content) |-> item.content[j].text]
Sealing(item) == item.type = "agent_message" /\ IsOpaque(item.content)

(* An instruction that can be read is told, in its own words.              *)
Renews(item, speeches) ==
    ~IsBlank(Pieces(item)) /\ ~Sealing(item) =>
        \E x : speeches = <<x>> /\ x.role = "user" /\ SaysSomething(x) /\ x.part.text = Pieces(item)

(* One item whose text is not the request to continue.                     *)
LEMMA OneWorded ==
    ASSUME NEW item, ActiveText(item) # <<ContinuationPrompt>>
    PROVE  Worded(<<item>>)
<1> DEFINE s == <<item>>
<1>1. Len(s) = 1 /\ s[1] = item
  OBVIOUS
<1>2. \A i \in 1..1 : i = 1
  OBVIOUS
<1> HIDE DEF s
<1>3. Worded(s)
  BY <1>1, <1>2 DEF Worded
<1> QED
  BY <1>3 DEF s

(* One piece is blank when it is white.                                    *)
LEMMA BlankOne ==
    ASSUME NEW piece
    PROVE  IsBlank(<<piece>>) <=> piece = White
<1> DEFINE s == <<piece>>
<1>1. Len(s) = 1 /\ s[1] = piece
  OBVIOUS
<1>2. 1 \in 1..1 /\ \A i \in 1..1 : i = 1
  OBVIOUS
<1> HIDE DEF s
<1>3. IsBlank(s) <=> piece = White
  BY <1>1, <1>2 DEF IsBlank
<1> QED
  BY <1>3 DEF s

(* contentText of a user's message: white space is told or left out, and   *)
(* nobody hears it.                                                        *)
LEMMA UserCarries ==
    ASSUME NEW part, part.text # ContinuationPrompt, part.text # White => Says(part)
    PROVE  LET item     == Message("user", <<part>>)
               text     == ContentText(<<part>>)
               speeches == IF IsBlank(text) THEN <<>> ELSE <<Speech("user", Part(text))>>
           IN  Carries(<<item>>, speeches) /\ Asks(item) /\ Renews(item, speeches)
<1> DEFINE item     == Message("user", <<part>>)
           text     == ContentText(<<part>>)
           heard    == Speech("user", Part(text))
           speeches == IF IsBlank(text) THEN <<>> ELSE <<heard>>
<1>1. item.type = "message" /\ item.role = "user" /\ item.content = <<part>>
  BY DEF Message
<1>2. text = IF Says(part) THEN <<part.text>> ELSE <<>>
  BY OnePiece
<1>3. ActiveText(item) = text
  BY <1>1 DEF ActiveText
<1> HIDE DEF item
<1>4. ItemShape(item) /\ Asks(item) /\ ~Sealing(item)
  BY <1>1 DEF ItemShape, Asks, Sealing
<1>5. Records(item) = IF text = <<>> THEN <<>> ELSE <<Record("user", <<Part(text)>>)>>
  BY <1>1 DEF Records
<1>6. Pieces(item) = <<part.text>>
  <2> DEFINE s == <<part>>
  <2>1. Len(s) = 1 /\ s[1] = part /\ Pieces(item) = [j \in 1..Len(s) |-> s[j].text]
    BY <1>1 DEF Pieces
  <2> HIDE DEF s
  <2>2. Pieces(item) = [j \in 1..1 |-> s[j].text]
    BY <2>1
  <2>3. [j \in 1..1 |-> s[j].text] = <<part.text>>
    BY <2>1
  <2> QED
    BY <2>2, <2>3
<1>7. heard.role = "user" /\ heard.part.type = "text" /\ heard.part.text = text
  BY DEF Speech, Part
<1> HIDE DEF text
<1>8. text # <<ContinuationPrompt>>
  <2>1. <<>> # <<ContinuationPrompt>>
    BY OnePart
  <2>2. <<part.text>> # <<ContinuationPrompt>>
    OBVIOUS
  <2> QED
    BY <1>2, <2>1, <2>2
<1>9. Worded(<<item>>)
  BY <1>3, <1>8, OneWorded
<1>10. IsBlank(text) <=> ~(Says(part) /\ part.text # White)
  BY <1>2, BlankOne, BlankNothing
<1>11. text = <<>> => IsBlank(text)
  BY BlankNothing
<1>12. SaysSomething(heard) <=> ~IsBlank(text)
  BY <1>7 DEF SaysSomething
<1>13. text # <<>> => Tells(<<item>>, <<heard>>)
  BY <1>4, <1>5, PartsAreRead, TellsPart
<1>14. text = <<>> => Tells(<<item>>, <<>>)
  BY <1>4, <1>5, TellsNone
<1>15. Renews(item, speeches)
  <2>1. CASE part.text = White
    BY <1>6, <2>1, BlankOne DEF Renews
  <2>2. CASE part.text # White
    <3>1. speeches = <<heard>> /\ SaysSomething(heard) /\ text = <<part.text>>
      BY <1>2, <1>10, <1>12, <2>2
    <3> HIDE DEF heard, speeches
    <3> QED
      BY <1>6, <1>7, <3>1 DEF Renews
  <2> QED
    BY <2>1, <2>2
<1>16. Carries(<<item>>, speeches)
  <2>1. CASE IsBlank(text)
    <3>1. speeches = <<>>
      BY <2>1
    <3>2. \E said : Tells(<<item>>, said) /\ Agrees(said, <<>>)
      <4> HIDE DEF heard
      <4> QED
        BY <1>12, <1>13, <1>14, <2>1, AgreesNothing, AgreesSilent
    <3> HIDE DEF speeches
    <3> QED
      BY <1>9, <3>1, <3>2, Nothing DEF Carries
  <2>2. CASE ~IsBlank(text)
    <3>1. speeches = <<heard>>
      BY <2>2
    <3> HIDE DEF speeches, heard
    <3>2. Tells(<<item>>, <<heard>>) /\ Agrees(<<heard>>, <<heard>>)
      BY <1>11, <1>12, <1>13, <2>2, AgreesOne
    <3> QED
      BY <1>9, <3>1, <3>2, Single DEF Carries
  <2> QED
    BY <2>1, <2>2
<1> QED
  BY <1>4, <1>15, <1>16 DEF item, text

(* agentMessageText: a task is told with its heading; nobody could read an *)
(* encrypted one.                                                          *)
LEMMA TaskCarries ==
    ASSUME NEW piece \in Nat, piece \notin {White, Sealed}
    PROVE  LET item  == AgentMessage(Text(piece) \o Task(piece))
               heard == <<Speech("user", Part(<<piece, piece>>))>>
           IN  Carries(<<item>>, heard) /\ Asks(item) /\ Renews(item, heard)
<1> DEFINE content == Text(piece) \o Task(piece)
           item    == AgentMessage(content)
           text    == <<piece, piece>>
           heard   == Speech("user", Part(text))
<1>1. AgentMessageText(content) = text /\ ~IsOpaque(content)
  BY TaskTexts
<1>2. content = <<[type |-> "text", text |-> piece], [type |-> "encrypted_content", text |-> piece]>>
  BY JoinedPair DEF Text, Task
<1>3. [j \in 1..Len(content) |-> content[j].text] = text
  <2>1. Len(content) = 2 /\ content[1].text = piece /\ content[2].text = piece
    BY <1>2
  <2>2. \A j \in 1..2 : j = 1 \/ j = 2
    OBVIOUS
  <2> HIDE DEF content
  <2> DEFINE p == [j \in 1..Len(content) |-> content[j].text]
  <2>3. p \in Seq(Nat) /\ Len(p) = 2 /\ p[1] = piece /\ p[2] = piece
    BY <2>1, <2>2
  <2>4. text \in Seq(Nat) /\ Len(text) = 2 /\ text[1] = piece /\ text[2] = piece
    OBVIOUS
  <2> HIDE DEF p, text
  <2>5. p = text
    BY <2>2, <2>3, <2>4, SameSequence DEF IsSeq
  <2> QED
    BY <2>5 DEF p
<1>4. ~IsBlank(text)
  <2>1. Len(text) = 2 /\ text[1] = piece
    OBVIOUS
  <2>2. 1 \in 1..2
    OBVIOUS
  <2> HIDE DEF text
  <2> QED
    BY <2>1, <2>2 DEF IsBlank
<1>5. text # <<>> /\ text # <<ContinuationPrompt>>
  <2>1. Len(text) = 2
    OBVIOUS
  <2>2. Len(<<>>) = 0 /\ Len(<<ContinuationPrompt>>) = 1
    OBVIOUS
  <2> HIDE DEF text
  <2> QED
    BY <2>1, <2>2
<1>6. heard.role = "user" /\ heard.part.type = "text" /\ heard.part.text = text
  BY DEF Speech, Part
<1> HIDE DEF content
<1>7. item.type = "agent_message" /\ item.role = "" /\ item.content = content
  BY DEF AgentMessage
<1> HIDE DEF item, text
<1>8. Pieces(item) = text /\ ActiveText(item) = text
  BY <1>1, <1>3, <1>7 DEF Pieces, ActiveText
<1>9. ItemShape(item) /\ Asks(item)
  BY <1>7 DEF ItemShape, Asks
<1>10. Records(item) = <<Record("user", <<Part(text)>>)>>
  BY <1>1, <1>5, <1>7 DEF Records
<1>11. Tells(<<item>>, <<heard>>)
  BY <1>9, <1>10, PartsAreRead, TellsPart
<1> HIDE DEF heard
<1>12. SaysSomething(heard)
  BY <1>4, <1>6 DEF SaysSomething
<1>13. Agrees(<<heard>>, <<heard>>)
  BY <1>12, AgreesOne
<1>14. Carries(<<item>>, <<heard>>)
  BY <1>5, <1>8, <1>11, <1>13, OneWorded, Single DEF Carries
<1>15. Renews(item, <<heard>>)
  BY <1>6, <1>8, <1>12 DEF Renews
<1> QED
  BY <1>9, <1>14, <1>15 DEF item, heard, text, content

(* A sealed task tells nothing: it is refused when it is the newest        *)
(* instruction, and left out otherwise (agentMessageText).                 *)
LEMMA SealedCarries ==
    ASSUME NEW piece \in Nat, piece \notin {White, Sealed, ContinuationPrompt}
    PROVE  LET item == AgentMessage(Text(piece) \o Task(Sealed))
           IN  Carries(<<item>>, <<>>) /\ Asks(item) /\ Renews(item, <<>>)
<1> DEFINE content == Text(piece) \o Task(Sealed)
           item    == AgentMessage(content)
<1>1. IsOpaque(content)
  BY TaskTexts
<1>2. AgentMessageText(content) # <<ContinuationPrompt>>
  <2> DEFINE s == Text(piece)
             t == Task(Sealed)
             kept == Filtered(content, "plain")
             P == {i \in 1..Len(content) : content[i].text \notin {Sealed, White}}
             Q == {i \in 1..Len(content) : Keeps(content[i], "plain")}
  <2>1. Keeps(s[1], "plain") /\ ~Keeps(t[1], "plain") /\ s[1].text = piece
    BY DEF Keeps, Text, Task
  <2>2. IsSeq(s) /\ IsSeq(t) /\ s = <<s[1]>> /\ t = <<t[1]>>
    BY Single DEF Text, Task
  <2>3. content = s \o t
    OBVIOUS
  <2>4. P = Q
    BY DEF Keeps
  <2>5. AgentMessageText(content) = [i \in 1..Len(Kept(content, P)) |-> Kept(content, P)[i].text]
    BY DEF AgentMessageText
  <2> HIDE DEF s, t, content
  <2>6. Filtered(s, "plain") = s /\ Filtered(t, "plain") = <<>>
    BY <2>1, <2>2, FilteredOne
  <2>7. kept = Filtered(s, "plain") \o Filtered(t, "plain")
    BY <2>2, <2>3, FilteredJoined
  <2>8. s \o <<>> = s
    BY <2>2, JoinedToNothing
  <2>9. Kept(content, P) = kept
    BY <2>4 DEF Filtered
  <2>10. kept = s
    BY <2>6, <2>7, <2>8
  <2> HIDE DEF kept, P
  <2>11. AgentMessageText(content) = [i \in 1..Len(s) |-> s[i].text]
    BY <2>5, <2>9, <2>10
  <2>12. Len(s) = 1 /\ [i \in 1..Len(s) |-> s[i].text][1] = piece
    <3>1. Len(s) = 1
      BY <2>2
    <3> QED
      BY <2>1, <3>1
  <2>13. AgentMessageText(content)[1] # ContinuationPrompt
    BY <2>11, <2>12
  <2>14. <<ContinuationPrompt>>[1] = ContinuationPrompt
    OBVIOUS
  <2> QED
    BY <2>13, <2>14
<1> HIDE DEF content
<1>7. item.type = "agent_message" /\ item.role = "" /\ item.content = content
  BY DEF AgentMessage
<1> HIDE DEF item
<1>8. ActiveText(item) = AgentMessageText(content)
  BY <1>7 DEF ActiveText
<1>9. ItemShape(item) /\ Asks(item) /\ Sealing(item)
  BY <1>1, <1>7 DEF ItemShape, Asks, Sealing
<1>10. Records(item) = <<>>
  BY <1>1, <1>7 DEF Records
<1>11. Tells(<<item>>, <<>>)
  BY <1>9, <1>10, TellsNone
<1>14. Carries(<<item>>, <<>>)
  BY <1>2, <1>8, <1>11, AgreesNothing, OneWorded, Nothing DEF Carries
<1>15. Renews(item, <<>>)
  BY <1>9 DEF Renews
<1> QED
  BY <1>9, <1>14, <1>15 DEF item, content

(* An instruction of the system is told with its lead-in, and answered.    *)
LEMMA SystemCarries ==
    ASSUME NEW item, item.type = "message", item.role \in {"system", "developer"},
           NewWording \notin {White, ContinuationPrompt},
           item.content = Str(NewWording) \/ item.content = Text(NewWording)
    PROVE  Carries(<<item>>, SystemSpeeches) /\ ~Asks(item)
<1> DEFINE piece == NewWording
           lead  == <<SystemLeadIn, piece>>
           p     == Part(lead)
           q     == Part(<<SystemAck>>)
           x     == Speech("user", p)
           y     == Speech("assistant", q)
<1>1. ContentText(item.content) = <<piece>>
  BY ContentTexts
<1>2. <<SystemLeadIn>> \o <<piece>> = lead
  BY JoinedPair
<1>3. <<piece>> # <<>>
  BY OnePart
<1> HIDE DEF piece, lead
<1>4. Records(item) = <<Record("user", <<p>>), Record("assistant", <<q>>)>>
  BY <1>1, <1>2, <1>3 DEF Records
<1>5. ItemShape(item) /\ ~Asks(item)
  BY DEF ItemShape, Asks
<1>6. ~IsBlank(lead) /\ ~IsBlank(<<SystemAck>>)
  <2>1. Len(lead) = 2 /\ lead[1] = SystemLeadIn
    BY DEF lead
  <2>2. 1 \in 1..2 /\ SystemLeadIn # White /\ SystemAck # White
    BY DEF SystemLeadIn, White, SystemAck
  <2>3. ~IsBlank(lead)
    BY <2>1, <2>2 DEF IsBlank
  <2> QED
    BY <2>2, <2>3, BlankOne
<1>7. SaysSomething(x) /\ SaysSomething(y)
  BY <1>6 DEF SaysSomething, Speech, Part
<1>8. Unwrapped(Wrapped(p)) = p /\ Unwrapped(Wrapped(q)) = q
  BY PartsAreRead
<1>9. SystemSpeeches = <<x, y>>
  BY DEF SystemSpeeches, lead, piece
<1> HIDE DEF p, q
<1>10. Tells(<<item>>, <<x>> \o <<y>>)
  BY <1>4, <1>5, <1>8, TellsTwo
<1> HIDE DEF x, y
<1>11. IsSeq(<<x>>) /\ IsSeq(<<y>>) /\ Agrees(<<x>>, <<x>>) /\ Agrees(<<y>>, <<y>>)
  BY <1>7, Single, AgreesOne
<1> DEFINE a == <<x>>
           b == <<y>>
           s == a \o b
<1> HIDE DEF a, b
<1>12. IsSeq(s) /\ Agrees(s, s)
  BY <1>11, Joined, AgreesJoined DEF a, b
<1>13. s = SystemSpeeches
  BY <1>9, JoinedPair DEF a, b
<1>14. ActiveText(item) # <<ContinuationPrompt>>
  <2>1. ActiveText(item) = <<piece>>
    BY <1>1 DEF ActiveText
  <2> QED
    BY <2>1 DEF piece
<1>15. Tells(<<item>>, s)
  BY <1>10 DEF a, b
<1> HIDE DEF s
<1>16. Carries(<<item>>, s)
  BY <1>12, <1>14, <1>15, OneWorded DEF Carries
<1> QED
  BY <1>5, <1>13, <1>16

(* A result goes to Cursor under the ID Cursor gave the call.              *)
LEMMA ResultCarries ==
    ASSUME format \in {"openai-chat", "openai-response"}, NEW call, NEW piece, NEW blocks,
           RestoreToolCallID(call.id) = call.cursorID
    PROVE  LET item == ResultItem(call, piece, blocks)
           IN  Carries(<<item>>, <<Speech("tool", ResultPart(call.cursorID, <<piece>>))>>) /\ ~Asks(item)
<1> DEFINE item == ResultItem(call, piece, blocks)
           part == ResultPart(call.cursorID, <<piece>>)
           x    == Speech("tool", part)
<1>1. /\ item.call_id = call.id /\ item.content = Str(piece)
      /\ \/ item.type = "message" /\ item.role = "tool"
         \/ item.type \in {"function_call_output", "custom_tool_call_output"} /\ item.role = ""
  BY DEF ResultItem
<1> HIDE DEF item
<1>2. ItemShape(item) /\ ~Asks(item)
  BY <1>1 DEF ItemShape, Asks
<1>3. ContentText(item.content) = <<piece>>
  BY <1>1, ContentTexts
<1>4. Records(item) = <<Record("tool", <<part>>)>>
  <2>1. CASE item.type = "message" /\ item.role = "tool"
    BY <1>1, <1>3, <2>1 DEF Records
  <2>2. CASE item.type \in {"function_call_output", "custom_tool_call_output"}
    BY <1>1, <1>3, <2>2 DEF Records
  <2> QED
    BY <1>1, <2>1, <2>2
<1>5. Unwrapped(Wrapped(part)) = part
  BY PartsAreRead
<1>6. SaysSomething(x)
  BY DEF SaysSomething, Speech, ResultPart
<1>7. Tells(<<item>>, <<x>>)
  BY <1>2, <1>4, <1>5, TellsPart
<1> HIDE DEF x
<1>8. Agrees(<<x>>, <<x>>)
  BY <1>6, AgreesOne
<1>9. Worded(<<item>>)
  <2> DEFINE s == <<item>>
  <2>1. Len(s) = 1 /\ s[1] = item
    OBVIOUS
  <2>2. \A i \in 1..1 : i = 1
    OBVIOUS
  <2> HIDE DEF s
  <2>3. Worded(s)
    BY <1>2, <2>1, <2>2 DEF Worded
  <2> QED
    BY <2>3 DEF s
<1>10. Carries(<<item>>, <<x>>)
  BY <1>7, <1>8, <1>9, Single DEF Carries
<1> QED
  BY <1>2, <1>10 DEF item, x

-----------------------------------------------------------------------------
(* The newest instruction, and whether what is told ends with it.          *)
Newest(items, i) ==
    /\ i \in 1..Len(items) /\ Asks(items[i])
    /\ \A k \in 1..Len(items) : Asks(items[k]) => k <= i

(* The newest instruction, if it can be read, is the last that was told.   *)
Heeded(items, told) ==
    \A i \in 1..Len(items) :
        Newest(items, i) /\ ~IsBlank(Pieces(items[i])) /\ ~Sealing(items[i]) =>
            told # <<>> /\ Last(told).part.text = Pieces(items[i])

(* Items that ask nothing leave the newest instruction where it was.       *)
LEMMA NewestStays ==
    ASSUME NEW items, NEW added, IsSeq(items), IsSeq(added), \A i \in 1..Len(added) : ~Asks(added[i]),
           NEW i \in 1..Len(items \o added), Newest(items \o added, i)
    PROVE  Newest(items, i) /\ (items \o added)[i] = items[i]
<1> DEFINE all == items \o added
<1>1. /\ Len(items) \in Nat /\ Len(added) \in Nat /\ Len(all) = Len(items) + Len(added)
      /\ \A k \in 1..Len(items) : all[k] = items[k]
  BY Joined
<1>2. i \in 1..Len(items)
  <2>1. CASE i \notin 1..Len(items)
    <3>1. PICK k \in 1..Len(added) : i = Len(items) + k
      BY <2>1, Joined
    <3>2. all[i] = added[k]
      BY <3>1, Joined
    <3> QED
      BY <3>2 DEF Newest
  <2> QED
    BY <2>1
<1>3. \A k \in 1..Len(items) : k \in 1..Len(all)
  BY <1>1
<1>4. Asks(all[i]) /\ \A k \in 1..Len(all) : Asks(all[k]) => k <= i
  BY DEF Newest
<1> HIDE DEF all
<1>5. Newest(items, i)
  BY <1>1, <1>2, <1>3, <1>4 DEF Newest
<1>6. all[i] = items[i]
  BY <1>1, <1>2
<1> QED
  BY <1>5, <1>6 DEF all

(* So they leave it heeded.                                                *)
LEMMA HeededQuietly ==
    ASSUME NEW items, NEW added, NEW told, IsSeq(items), IsSeq(added), Heeded(items, told),
           \A i \in 1..Len(added) : ~Asks(added[i])
    PROVE  Heeded(items \o added, told)
<1> DEFINE all == items \o added
<1>1. ASSUME NEW i \in 1..Len(all), Newest(all, i)
      PROVE  Newest(items, i) /\ all[i] = items[i]
  BY <1>1, NewestStays
<1> HIDE DEF all
<1>2. ASSUME NEW i \in 1..Len(all), Newest(all, i), ~IsBlank(Pieces(all[i])), ~Sealing(all[i])
      PROVE  told # <<>> /\ Last(told).part.text = Pieces(all[i])
  <2>1. Newest(items, i) /\ all[i] = items[i]
    BY <1>1, <1>2
  <2>2. i \in 1..Len(items)
    BY <2>1 DEF Newest
  <2> QED
    BY <1>2, <2>1, <2>2 DEF Heeded
<1>3. Heeded(all, told)
  BY <1>2 DEF Heeded
<1> QED
  BY <1>3 DEF all

(* An instruction that is added is heeded when what is said of it renews   *)
(* it.                                                                     *)
LEMMA HeededAnew ==
    ASSUME NEW items, NEW item, NEW told, NEW speeches, IsSeq(items), IsSeq(told),
           Asks(item), Renews(item, speeches)
    PROVE  Heeded(items \o <<item>>, told \o Filtered(speeches, "instructions"))
<1> DEFINE all == items \o <<item>>
           n   == Len(items)
           now == told \o Filtered(speeches, "instructions")
<1>1. /\ n \in Nat /\ all = Append(items, item)
      /\ Len(Append(items, item)) = n + 1 /\ Append(items, item)[n + 1] = item
  BY Appended
<1>2. Len(all) = n + 1 /\ all[n + 1] = item
  BY <1>1
<1> HIDE DEF all, n
<1>3. ASSUME NEW i \in 1..Len(all), Newest(all, i)
      PROVE  all[i] = item
  <2>1. n + 1 \in 1..Len(all) /\ Asks(all[n + 1])
    BY <1>1, <1>2
  <2>2. n + 1 <= i
    BY <1>3, <2>1 DEF Newest
  <2>3. i = n + 1
    BY <1>1, <1>2, <2>2
  <2> QED
    BY <1>2, <2>3
<1>4. ASSUME ~IsBlank(Pieces(item)), ~Sealing(item)
      PROVE  now # <<>> /\ Last(now).part.text = Pieces(item)
  <2>1. PICK x : speeches = <<x>> /\ x.role = "user" /\ SaysSomething(x) /\ x.part.text = Pieces(item)
    BY <1>4 DEF Renews
  <2>2. Keeps(x, "instructions")
    BY <2>1 DEF Keeps
  <2>3. Filtered(<<x>>, "instructions") = <<x>>
    BY <2>2, FilteredOne
  <2>4. now = Append(told, x)
    <3>1. told \o <<x>> = Append(told, x)
      BY Appended
    <3> QED
      BY <2>1, <2>3, <3>1
  <2>5. Len(Append(told, x)) = Len(told) + 1 /\ Len(told) \in Nat /\ Append(told, x)[Len(told) + 1] = x
    BY Appended
  <2> HIDE DEF now
  <2>6. Last(now) = x
    BY <2>4, <2>5 DEF Last
  <2>7. now # <<>>
    <3>1. Len(now) # 0
      BY <2>4, <2>5
    <3> QED
      BY <3>1, Nothing
  <2> QED
    BY <2>1, <2>6, <2>7
<1> HIDE DEF now
<1>5. Heeded(all, now)
  BY <1>3, <1>4 DEF Heeded
<1> QED
  BY <1>5 DEF all, now

(* Items joined are worded when both are.                                  *)
LEMMA JoinedWording ==
    ASSUME NEW s, NEW t, IsSeq(s), IsSeq(t), Worded(s), Worded(t)
    PROVE  Worded(s \o t)
<1> DEFINE all == s \o t
<1>1. ASSUME NEW i \in 1..Len(all), Asks(all[i])
      PROVE  ActiveText(all[i]) # <<ContinuationPrompt>>
  <2>1. CASE i \in 1..Len(s)
    <3>1. all[i] = s[i]
      BY <2>1, Joined
    <3> HIDE DEF all
    <3> QED
      BY <1>1, <2>1, <3>1 DEF Worded
  <2>2. CASE i \notin 1..Len(s)
    <3>1. PICK k \in 1..Len(t) : i = Len(s) + k
      BY <2>2, Joined
    <3>2. all[i] = t[k]
      BY <3>1, Joined
    <3> HIDE DEF all
    <3> QED
      BY <1>1, <3>2 DEF Worded
  <2> QED
    BY <2>1, <2>2
<1> HIDE DEF all
<1>2. Worded(all)
  BY <1>1 DEF Worded
<1> QED
  BY <1>2 DEF all

-----------------------------------------------------------------------------
(* The transcript says what was said, the turn tells it, and its newest    *)
(* instruction can be read; the calls a caller has to answer are known to  *)
(* Cursor by the IDs restoreToolCallID gives back.                         *)
Commands == Filtered(Legibly(spoken), "instructions")

Faithful ==
    /\ Worded(Items)
    /\ format = "claude" => waiting = {}
    /\ Agrees(Saying(Items), Legibly(spoken))
    /\ Heeded(transcript, Commands)
    /\ phase = "cursor" =>
          /\ IsSeq(Told) /\ Agrees(Told, Legibly(spoken))
          /\ \A i \in 1..Len(transcript) : Newest(transcript, i) => ~Sealing(transcript[i])

(* The calls a caller has to answer hold IDs that give Cursor's back.      *)
Restored(calls) == \A call \in calls : RestoreToolCallID(call.id) = call.cursorID

(* Once a Claude conversation holds a call, only the IDs are promised (see *)
(* ClaudeToolsAreRemembered).                                              *)
FaithInv ==
    /\ Restored(waiting)
    /\ NoToolsInClaude => Faithful

(* What the format carries of each speech.                                 *)
LEMMA LegiblyEach ==
    ASSUME NEW s, IsSeq(s)
    PROVE  /\ IsSeq(Legibly(s)) /\ Len(Legibly(s)) = Len(s)
           /\ \A i \in 1..Len(s) : Legibly(s)[i] = Legible(s[i])
<1> DEFINE t == [i \in 1..Len(s) |-> Legible(s[i])]
<1>1. Len(s) \in Nat /\ Legibly(s) = t
  BY DEF IsSeq, Legibly
<1>2. t \in Seq({t[i] : i \in 1..Len(s)}) /\ Len(t) = Len(s) /\ \A i \in 1..Len(s) : t[i] = Legible(s[i])
  BY <1>1
<1> HIDE DEF t
<1> QED
  BY <1>1, <1>2 DEF IsSeq

(* All of a speech is carried but the arguments of a call.                 *)
LEMMA LegibleSpeech ==
    /\ \A speech : ~IsCall(speech) => Legible(speech) = speech
    /\ \A role, part : Legible(Speech(role, part)).role = role
    /\ \A role, id, tool, args :
          Legible(Speech(role, CallPart(id, tool, args))) = Speech(role, CallPart(id, tool, Carried(args)))
<1>1. ASSUME NEW speech, ~IsCall(speech)
      PROVE  Legible(speech) = speech
  BY <1>1 DEF Legible
<1>2. ASSUME NEW role, NEW part
      PROVE  Legible(Speech(role, part)).role = role
  BY DEF Legible, Speech
<1>3. ASSUME NEW role, NEW id, NEW tool, NEW args
      PROVE  Legible(Speech(role, CallPart(id, tool, args))) = Speech(role, CallPart(id, tool, Carried(args)))
  <2> DEFINE carried == Carried(args)
             speech  == Speech(role, CallPart(id, tool, args))
  <2>1. speech = [role |-> role, part |-> [type |-> "tool-call", id |-> id, tool |-> tool, args |-> args]]
    BY DEF Speech, CallPart
  <2>2. IsCall(speech)
    BY <2>1 DEF IsCall
  <2>3. speech.part.args = args
    BY <2>1
  <2>4. Legible(speech) = [speech EXCEPT !.part.args = carried]
    BY <2>2, <2>3 DEF Legible
  <2> HIDE DEF carried
  <2>5. [speech EXCEPT !.part.args = carried]
           = [role |-> role, part |-> [type |-> "tool-call", id |-> id, tool |-> tool, args |-> carried]]
    BY <2>1
  <2> QED
    BY <2>4, <2>5 DEF carried, Speech, CallPart
<1> QED
  BY <1>1, <1>2, <1>3

(* Speeches without calls are carried as they are.                         *)
LEMMA LegiblyQuiet ==
    ASSUME NEW s, IsSeq(s), \A i \in 1..Len(s) : ~IsCall(s[i])
    PROVE  Legibly(s) = s
<1> DEFINE t == Legibly(s)
<1>1. IsSeq(t) /\ Len(t) = Len(s) /\ \A i \in 1..Len(s) : t[i] = Legible(s[i])
  BY LegiblyEach
<1> HIDE DEF t
<1>2. \A i \in 1..Len(s) : t[i] = s[i]
  BY <1>1, LegibleSpeech
<1>3. t = s
  BY <1>1, <1>2, SameSequence
<1> QED
  BY <1>3 DEF t

LEMMA LegiblyJoined ==
    ASSUME NEW s, NEW t, IsSeq(s), IsSeq(t)
    PROVE  Legibly(s \o t) = Legibly(s) \o Legibly(t)
<1> DEFINE all == s \o t
           a   == Legibly(s)
           b   == Legibly(t)
           c   == Legibly(all)
           d   == a \o b
<1>1. /\ IsSeq(all) /\ Len(all) = Len(s) + Len(t) /\ Len(s) \in Nat /\ Len(t) \in Nat
      /\ \A i \in 1..Len(s) : all[i] = s[i]
      /\ \A k \in 1..Len(t) : all[Len(s) + k] = t[k]
  BY Joined
<1> HIDE DEF all
<1>2. /\ IsSeq(a) /\ Len(a) = Len(s) /\ \A i \in 1..Len(s) : a[i] = Legible(s[i])
      /\ IsSeq(b) /\ Len(b) = Len(t) /\ \A i \in 1..Len(t) : b[i] = Legible(t[i])
      /\ IsSeq(c) /\ Len(c) = Len(all) /\ \A i \in 1..Len(all) : c[i] = Legible(all[i])
  BY <1>1, LegiblyEach
<1> HIDE DEF a, b, c
<1>3. /\ IsSeq(d) /\ Len(d) = Len(a) + Len(b)
      /\ \A i \in 1..Len(a) : d[i] = a[i]
      /\ \A k \in 1..Len(b) : d[Len(a) + k] = b[k]
  BY <1>2, Joined
<1> HIDE DEF d
<1>4. ASSUME NEW i \in 1..Len(c)
      PROVE  c[i] = d[i]
  <2>1. CASE i \in 1..Len(s)
    BY <1>1, <1>2, <1>3, <2>1
  <2>2. CASE i \notin 1..Len(s)
    <3>1. i - Len(s) \in 1..Len(t) /\ i = Len(s) + (i - Len(s))
      BY <1>1, <1>2, <2>2
    <3>2. all[i] = t[i - Len(s)] /\ d[i] = b[i - Len(s)]
      BY <1>1, <1>2, <1>3, <3>1
    <3> QED
      BY <1>1, <1>2, <3>1, <3>2
  <2> QED
    BY <2>1, <2>2
<1>5. c = d
  BY <1>1, <1>2, <1>3, <1>4, SameSequence
<1> QED
  BY <1>5 DEF a, b, c, d, all

(* What is carried grows by what the format carries of new speeches.       *)
LEMMA LegiblyGrows ==
    ASSUME TalkInv, NEW speeches, IsSeq(speeches), format' = format, spoken' = spoken \o speeches
    PROVE  /\ IsSeq(Legibly(spoken)) /\ IsSeq(Legibly(speeches))
           /\ Legibly(spoken)' = Legibly(spoken) \o Legibly(speeches)
<1>1. IsSeq(spoken)
  BY DEF TalkInv, Speeches
<1>2. Legibly(spoken)' = Legibly(spoken \o speeches)
  BY DEF Legibly, Legible, Carried, IsCall
<1> QED
  BY <1>1, <1>2, LegiblyEach, LegiblyJoined

LEMMA LegiblyStays ==
    ASSUME format' = format, spoken' = spoken
    PROVE  Legibly(spoken)' = Legibly(spoken) /\ Commands' = Commands
<1>1. Legibly(spoken)' = Legibly(spoken)
  BY DEF Legibly, Legible, Carried, IsCall
<1> QED
  BY <1>1 DEF Commands

(* What was said stays said. *)
LEMMA SaidBefore ==
    ASSUME TalkInv, NEW speeches, IsSeq(speeches), format' = format, spoken' = spoken \o speeches
    PROVE  NoToolsInClaude' =>
              NoToolsInClaude /\ (format = "claude" => \A i \in 1..Len(speeches) : ~IsCall(speeches[i]))
<1>1. IsSeq(spoken)
  BY DEF TalkInv, Speeches
<1> DEFINE all == spoken \o speeches
<1>2. Len(all) = Len(spoken) + Len(speeches) /\ Len(spoken) \in Nat /\ Len(speeches) \in Nat
  BY <1>1, Joined
<1>3. \A i \in 1..Len(spoken) : all[i] = spoken[i]
  BY <1>1, Joined
<1>4. \A i \in 1..Len(speeches) : all[Len(spoken) + i] = speeches[i]
  BY <1>1, Joined
<1>5. spoken' = all
  OBVIOUS
<1> HIDE DEF all
<1> SUFFICES ASSUME NoToolsInClaude', format = "claude"
             PROVE  /\ \A i \in 1..Len(spoken) : ~IsCall(spoken[i])
                    /\ \A i \in 1..Len(speeches) : ~IsCall(speeches[i])
  BY DEF NoToolsInClaude
<1>6. \A i \in 1..Len(all) : ~IsCall(all[i])
  BY <1>5 DEF NoToolsInClaude, IsCall
<1>7. ASSUME NEW i \in 1..Len(spoken)
      PROVE  ~IsCall(spoken[i])
  <2>1. i \in 1..Len(all)
    BY <1>2
  <2> QED
    BY <1>3, <1>6, <2>1
<1>8. ASSUME NEW i \in 1..Len(speeches)
      PROVE  ~IsCall(speeches[i])
  <2>1. Len(spoken) + i \in 1..Len(all)
    BY <1>2
  <2> QED
    BY <1>4, <1>6, <2>1
<1> QED
  BY <1>7, <1>8

(* A step that adds items which carry what it says keeps the history       *)
(* faithful.                                                               *)
LEMMA FaithGrows ==
    ASSUME CallsInv, TalkInv, FaithInv, NEW added, NEW speeches, IsSeq(speeches), Restored(waiting'),
           format' = format, Items' = Items \o added, spoken' = spoken \o speeches, phase' = "caller",
           NoToolsInClaude' /\ NoToolsInClaude =>
              /\ Carries(added, Legibly(speeches)) /\ Heeded(transcript', Commands')
              /\ format = "claude" => waiting' = {}
    PROVE  FaithInv'
<1>1. Restored(waiting)'
  BY DEF Restored
<1>2. ASSUME NoToolsInClaude'
      PROVE  Faithful'
  <2>1. Faithful /\ NoToolsInClaude
    BY <1>2, SaidBefore DEF FaithInv
  <2>2. Carries(added, Legibly(speeches)) /\ Heeded(transcript', Commands') /\ (format = "claude" => waiting' = {})
    BY <1>2, <2>1
  <2>3. PICK said : Tells(added, said) /\ Agrees(said, Legibly(speeches))
    BY <2>2 DEF Carries
  <2>4. Shaped(Items) /\ IsSeq(Items) /\ IsSeq(added) /\ IsSeq(said)
    BY <2>3, ShapedItems DEF Shaped, Tells
  <2>5. Saying(Items \o added) = Saying(Items) \o said
    BY <2>3, <2>4 DEF Tells
  <2>6. IsSeq(Saying(Items)) /\ Agrees(Saying(Items), Legibly(spoken))
    BY <2>1, <2>4, SayingSeq DEF Faithful
  <2>7. Agrees(Saying(Items) \o said, Legibly(spoken) \o Legibly(speeches))
    BY <2>3, <2>4, <2>6, LegiblyGrows, AgreesJoined
  <2>8. Agrees(Saying(Items'), Legibly(spoken)')
    BY <2>5, <2>7, LegiblyGrows
  <2>9. Worded(Items')
    BY <2>1, <2>2, <2>4, JoinedWording DEF Carries, Faithful
  <2>10. Worded(Items)' /\ Agrees(Saying(Items), Legibly(spoken))' /\ Heeded(transcript, Commands)'
    BY <2>2, <2>8, <2>9
  <2> QED
    BY <2>2, <2>10 DEF Faithful
<1> QED
  BY <1>1, <1>2 DEF FaithInv

(* Nothing is kept when no member is.                                      *)
LEMMA FilteredNone ==
    ASSUME NEW s, NEW what, IsSeq(s), \A i \in 1..Len(s) : ~Keeps(s[i], what)
    PROVE  Filtered(s, what) = <<>>
<1>1. Len(s) \in Nat
  BY DEF IsSeq
<1>2. PICK c : FilterSteps(c, s, what) /\ Filtered(s, what) = c[Len(s)]
  BY <1>1, FilteredFold
<1> DEFINE n     == Len(s)
           Empty == {k \in 0..n : c[k] = <<>>}
<1>3. 0 \in Empty
  BY <1>1, <1>2 DEF FilterSteps
<1>4. ASSUME NEW k \in 1..n, k - 1 \in Empty
      PROVE  k \in Empty
  <2>1. c[k] = c[k - 1] /\ c[k - 1] = <<>>
    BY <1>2, <1>4 DEF FilterSteps
  <2>2. k \in 0..n
    BY <1>1
  <2> QED
    BY <2>1, <2>2
<1> HIDE DEF Empty, n
<1>5. \A k \in 0..n : k \in Empty
  BY <1>1, <1>3, <1>4, Positions DEF n
<1>6. n \in Empty
  BY <1>1, <1>5 DEF n
<1> QED
  BY <1>2, <1>6 DEF Empty, n

(* A single member is the only one.                                        *)
LEMMA OnlyOne ==
    ASSUME NEW x
    PROVE  \A i \in 1..Len(<<x>>) : <<x>>[i] = x
  OBVIOUS

(* The instructions grow by those of the new speeches.                     *)
LEMMA CommandsGrow ==
    ASSUME TalkInv, NEW speeches, IsSeq(speeches), format' = format, spoken' = spoken \o speeches
    PROVE  Commands' = Commands \o Filtered(Legibly(speeches), "instructions") /\ IsSeq(Commands)
<1> DEFINE a == Legibly(spoken)
           b == Legibly(speeches)
<1>1. IsSeq(a) /\ IsSeq(b) /\ a' = a \o b
  BY LegiblyGrows
<1>2. Commands' = Filtered(a', "instructions") /\ Commands = Filtered(a, "instructions")
  BY DEF Commands
<1> HIDE DEF a, b
<1>3. Filtered(a \o b, "instructions") = Filtered(a, "instructions") \o Filtered(b, "instructions")
  BY <1>1, FilteredJoined
<1>4. IsSeq(Filtered(a, "instructions"))
  BY <1>1, FilteredSeq
<1> QED
  BY <1>1, <1>2, <1>3, <1>4 DEF b

(* Nobody but a user instructs. *)
LEMMA CommandsStay ==
    ASSUME TalkInv, NEW speeches, IsSeq(speeches), format' = format, spoken' = spoken \o speeches,
           \A i \in 1..Len(speeches) : Legible(speeches[i]).role # "user"
    PROVE  Commands' = Commands
<1>0. IsSeq(Legibly(speeches)) /\ Len(Legibly(speeches)) = Len(speeches)
      /\ \A i \in 1..Len(speeches) : Legibly(speeches)[i] = Legible(speeches[i])
  BY LegiblyEach
<1>1. \A i \in 1..Len(Legibly(speeches)) : ~Keeps(Legibly(speeches)[i], "instructions")
  BY <1>0 DEF Keeps
<1>2. Filtered(Legibly(speeches), "instructions") = <<>>
  BY <1>0, <1>1, FilteredNone
<1>3. Commands' = Commands \o <<>> /\ IsSeq(Commands)
  BY <1>2, CommandsGrow
<1> QED
  BY <1>3, JoinedToNothing

(* The wording of the next speech is none of the fixed texts.              *)
LEMMA WordingIsNew ==
    ASSUME TalkInv
    PROVE  /\ NewWording \in Nat /\ NewWording \notin {White, Sealed, ContinuationPrompt}
           /\ NewWording + 1 \in Nat
<1>1. Len(spoken) \in Nat
  BY DEF TalkInv, Speeches, IsSeq
<1> QED
  BY <1>1 DEF NewWording, White, Sealed, ContinuationPrompt

(* parseTools: the name a tool is called by is the wire name it was found  *)
(* under, and outside Responses, its own.                                  *)
LEMMA CalledByWireName ==
    ASSUME CallsInv, ToolError(declared) = "none", NEW wire \in DOMAIN Parsed[declared].identities
    PROVE  LET tool == Parsed[declared].identities[wire]
           IN  /\ CallerToolName(tool.namespace, tool.name) = wire
               /\ format # "openai-response" => CallerToolName(tool.namespace, tool.name) = tool.name
<1>1. Parsed[declared].identities = ToolIdentities(declared)
  BY DEF CallsInv, Parsed
<1>2. PICK j \in 1..Len(declared) : Forwarded(declared[j]) /\ wire = WireName(declared[j])
  BY <1>1 DEF ToolIdentities
<1>3. ToolIdentities(declared)[wire] = ToolIdentity(declared[j])
  BY <1>2, ToolListsAreLists, IdentityIsTheTools
<1> DEFINE tool == ToolIdentity(declared[j])
           name == declared[j].name
<1>4. tool.name = name /\ tool.namespace = Namespace(declared[j])
  BY DEF ToolIdentity
<1>5. format # "openai-response" => Namespace(declared[j]) = <<>>
  BY NoNamespace DEF CallsInv
<1>6. IsSeq(name)
  <2>1. declared \in ToolLists
    BY DEF CallsInv
  <2>2. name \in Seq(ToSet(name))
    BY <2>1, ConversationAssumption
  <2> HIDE DEF name
  <2> QED
    BY <2>2 DEF IsSeq
<1>7. CallerToolName(Namespace(declared[j]), name) = wire
  BY <1>2 DEF WireName
<1> HIDE DEF tool, name
<1>8. CallerToolName(<<>>, name) = name
  BY <1>6, JoinedToNothing DEF CallerToolName
<1> QED
  BY <1>1, <1>3, <1>4, <1>5, <1>7, <1>8 DEF tool

(* A turn of the assistant, whoever it was, is told as it was.             *)
LEMMA TurnIsFaithful ==
    ASSUME CallsInv, TalkInv, FaithInv, NEW text, text = <<>> \/ text = Text(NewWording),
           NEW calls, IsSeq(calls), NEW said, IsSeq(said), Len(said) = Len(calls),
           \A i \in 1..Len(calls) :
                IsCall(said[i]) /\ Legible(said[i]) = CallSpeech(calls[i]) /\ Fitting(calls[i]),
           format # "openai-response" => \A i \in 1..Len(calls) :
                CallerToolName(calls[i].tool.namespace, calls[i].tool.name) = calls[i].tool.name,
           NEW callsFirst \in BOOLEAN, callsFirst => Len(calls) = 1,
           format' = format, system' = system, phase' = "caller",
           transcript' = transcript \o AssistantItems(text, calls, callsFirst),
           spoken' = spoken \o (Remark(text, NewWording) \o said),
           Restored(waiting'), calls = <<>> => waiting' = {}
    PROVE  FaithInv'
<1> DEFINE items    == AssistantItems(text, calls, callsFirst)
           remark   == Remark(text, NewWording)
           speeches == remark \o said
           heard    == Legibly(said)
<1>1. NewWording # White /\ format \in Formats
  BY WordingIsNew DEF CallsInv
<1>2. IsSeq(remark) /\ IsSeq(speeches)
  BY <1>1, RemarkTexts, Joined
<1>0. IsSeq(heard) /\ Len(heard) = Len(calls) /\ \A i \in 1..Len(calls) : heard[i] = CallSpeech(calls[i])
  BY LegiblyEach
<1> HIDE DEF heard
<1>3. IsSeq(items) /\ \A i \in 1..Len(items) : ~Asks(items[i])
  BY <1>1, AssistantCalls, AnswersDoNotAsk
<1>4. Items' = Items \o items
  BY <1>3, ItemsGrow
<1>5. \A i \in 1..Len(remark) : Legible(remark[i]).role = "assistant" /\ ~IsCall(remark[i])
  <2> DEFINE y == Speech("assistant", Part(<<NewWording>>))
  <2>1. remark = <<>> \/ remark = <<y>>
    BY DEF Remark
  <2>2. Legible(y).role = "assistant" /\ ~IsCall(y)
    BY LegibleSpeech DEF IsCall, Speech, Part
  <2> HIDE DEF remark, y
  <2> QED
    BY <2>1, <2>2, Nothing, OnlyOne
<1>6. \A i \in 1..Len(said) : Legible(said[i]).role = "assistant" /\ IsCall(said[i])
  <2>1. \A call : CallSpeech(call).role = "assistant"
    BY DEF CallSpeech, Speech
  <2> QED
    BY <2>1
<1> HIDE DEF items, remark
<1>7. \A i \in 1..Len(speeches) : Legible(speeches[i]).role # "user"
  <2>1. ASSUME NEW i \in 1..Len(speeches)
        PROVE  Legible(speeches[i]).role # "user"
    <3>1. CASE i \in 1..Len(remark)
      <4>1. speeches[i] = remark[i]
        BY <1>2, <3>1, Joined
      <4> HIDE DEF speeches
      <4> QED
        BY <1>5, <3>1, <4>1
    <3>2. CASE i \notin 1..Len(remark)
      <4>1. PICK k \in 1..Len(said) : i = Len(remark) + k
        BY <1>2, <3>2, Joined
      <4>2. speeches[i] = said[k]
        BY <1>2, <4>1, Joined
      <4> HIDE DEF speeches
      <4> QED
        BY <1>6, <4>2
    <3> QED
      BY <3>1, <3>2
  <2> QED
    BY <2>1
<1>8. spoken' = spoken \o speeches
  BY DEF remark
<1>9. \A k \in 1..Len(said) : Len(remark) + k \in 1..Len(speeches) /\ speeches[Len(remark) + k] = said[k]
  <2>1. Len(speeches) = Len(remark) + Len(said) /\ Len(remark) \in Nat /\ Len(said) \in Nat
    BY <1>2, Joined
  <2>2. \A k \in 1..Len(said) : speeches[Len(remark) + k] = said[k]
    BY <1>2, Joined
  <2> HIDE DEF speeches
  <2> QED
    BY <2>1, <2>2
<1>20. Legibly(speeches) = remark \o heard
  <2>1. Legibly(remark) = remark
    BY <1>2, <1>5, LegiblyQuiet
  <2> QED
    BY <1>2, <2>1, LegiblyJoined DEF heard
<1>10. ASSUME NoToolsInClaude', NoToolsInClaude
       PROVE  /\ Carries(items, Legibly(speeches)) /\ Heeded(transcript', Commands')
              /\ format = "claude" => waiting' = {}
  <2>1. format = "claude" => calls = <<>>
    <3> SUFFICES ASSUME format = "claude" PROVE calls = <<>>
      OBVIOUS
    <3> HIDE DEF speeches
    <3>1. \A i \in 1..Len(speeches) : ~IsCall(speeches[i])
      BY <1>2, <1>8, <1>10, SaidBefore
    <3>2. ~ \E k \in 1..Len(said) : TRUE
      BY <1>6, <1>9, <3>1
    <3>3. Len(calls) = 0
      BY <3>2 DEF IsSeq
    <3> QED
      BY <3>3 DEF IsSeq
  <2>2. Carries(items, Legibly(speeches))
    <3>1. Carries(items, remark \o heard)
      BY <1>0, <1>1, <2>1, AssistantCarries DEF items, remark
    <3> QED
      BY <1>20, <3>1
  <2> HIDE DEF speeches
  <2>3. Commands' = Commands
    BY <1>2, <1>7, <1>8, CommandsStay
  <2>4. Heeded(transcript, Commands) /\ IsSeq(transcript)
    BY <1>10 DEF FaithInv, Faithful, CallsInv
  <2>5. Heeded(transcript \o items, Commands)
    BY <1>3, <2>4, HeededQuietly
  <2>6. Heeded(transcript', Commands')
    BY <2>3, <2>5 DEF items
  <2> QED
    BY <2>1, <2>2, <2>6
<1> HIDE DEF speeches
<1> QED
  BY <1>2, <1>4, <1>8, <1>10, FaithGrows

(* So is what a user or an agent asks. *)
LEMMA AskIsFaithful ==
    ASSUME CallsInv, TalkInv, FaithInv, NEW item, NEW speeches, Adds(<<item>>, speeches), waiting' = {},
           system' = system, Carries(<<item>>, speeches), Asks(item), Renews(item, speeches),
           \A i \in 1..Len(speeches) : ~IsCall(speeches[i])
    PROVE  FaithInv'
<1>1. /\ format' = format /\ phase' = "caller" /\ transcript' = transcript \o <<item>>
      /\ spoken' = spoken \o speeches
  BY DEF Adds
<1>2. IsSeq(speeches) /\ IsSeq(<<item>>) /\ IsSeq(transcript)
  BY Single DEF Carries, CallsInv
<1>3. Items' = Items \o <<item>>
  BY <1>1, <1>2, ItemsGrow
<1>4. Legibly(speeches) = speeches
  BY <1>2, LegiblyQuiet
<1>5. Commands' = Commands \o Filtered(speeches, "instructions") /\ IsSeq(Commands)
  BY <1>1, <1>2, <1>4, CommandsGrow
<1>6. Heeded(transcript', Commands')
  BY <1>1, <1>2, <1>5, HeededAnew
<1>7. Restored(waiting')
  BY DEF Restored
<1> QED
  BY <1>1, <1>2, <1>3, <1>4, <1>6, <1>7, FaithGrows

(* A system message is told.                                               *)
LEMMA SystemIsFaithful ==
    ASSUME CallsInv, TalkInv, FaithInv, NEW role \in {"system", "developer"}, SystemSays(role)
    PROVE  FaithInv'
<1>1. /\ transcript = <<>> /\ system = <<>> /\ waiting' = waiting /\ Items = <<>>
      /\ \/ system' = Text(NewWording) /\ Adds(<<>>, SystemSpeeches)
         \/ system' = system /\ Adds(<<Message(role, Str(NewWording))>>, SystemSpeeches)
  BY DEF SystemSays, Items
<1>2. format' = format /\ phase' = "caller" /\ spoken' = spoken \o SystemSpeeches
  BY <1>1 DEF Adds
<1>3. PICK m : /\ m.type = "message" /\ m.role \in {"system", "developer"} /\ Items' = Items \o <<m>>
               /\ m.content = Str(NewWording) \/ m.content = Text(NewWording)
               /\ transcript' = <<>> \/ transcript' = <<m>>
  <2>1. CASE system' = Text(NewWording) /\ Adds(<<>>, SystemSpeeches)
    <3>1. transcript' = <<>>
      BY <1>1, <2>1 DEF Adds
    <3>2. system' # <<>>
      BY <2>1, Single, Nothing DEF Text
    <3> DEFINE m == Message("system", system')
    <3>3. Items' = <<m>> \o <<>>
      BY <3>1, <3>2 DEF Items
    <3>4. m.type = "message" /\ m.role = "system" /\ m.content = Text(NewWording)
      BY <2>1 DEF Message
    <3> HIDE DEF m
    <3>5. Items' = Items \o <<m>>
      BY <1>1, <3>3
    <3> QED
      BY <3>1, <3>4, <3>5
  <2>2. CASE system' = system /\ Adds(<<Message(role, Str(NewWording))>>, SystemSpeeches)
    <3> DEFINE m == Message(role, Str(NewWording))
    <3>1. m.type = "message" /\ m.role = role /\ m.content = Str(NewWording)
      BY DEF Message
    <3>2. transcript' = transcript \o <<m>>
      BY <2>2 DEF Adds
    <3> HIDE DEF m
    <3>3. Items' = Items \o <<m>> /\ transcript' = <<m>>
      <4>1. Items' = Items \o <<m>>
        BY <2>2, <3>2, Single, ItemsGrow
      <4>2. <<>> \o <<m>> = <<m>>
        BY Single, JoinedToNothing
      <4> QED
        BY <1>1, <3>2, <4>1, <4>2
    <3> QED
      BY <3>1, <3>3
  <2> QED
    BY <1>1, <2>1, <2>2
<1>4. Carries(<<m>>, SystemSpeeches) /\ ~Asks(m)
  BY <1>3, SystemCarries, WordingIsNew
<1>5. Heeded(transcript', Commands')
  <2>1. \A i \in 1..Len(transcript') : transcript'[i] = m
    BY <1>3, Nothing, OnlyOne
  <2>2. \A i \in 1..Len(transcript') : ~Newest(transcript', i)
    BY <1>4, <2>1 DEF Newest
  <2> QED
    BY <2>2 DEF Heeded
<1>6. IsSeq(SystemSpeeches)
  BY <1>4 DEF Carries
<1>7. Restored(waiting') /\ (NoToolsInClaude => (format = "claude" => waiting' = {}))
  BY <1>1 DEF FaithInv, Faithful, Restored
<1>8. Legibly(SystemSpeeches) = SystemSpeeches
  <2> DEFINE x == Speech("user", Part(<<SystemLeadIn, NewWording>>))
             y == Speech("assistant", Part(<<SystemAck>>))
  <2>1. ~IsCall(x) /\ ~IsCall(y)
    BY DEF IsCall, Speech, Part
  <2>2. SystemSpeeches = <<x, y>>
    BY DEF SystemSpeeches
  <2> HIDE DEF x, y
  <2>3. \A i \in 1..Len(<<x, y>>) : <<x, y>>[i] = x \/ <<x, y>>[i] = y
    OBVIOUS
  <2> QED
    BY <1>6, <2>1, <2>2, <2>3, LegiblyQuiet
<1> QED
  BY <1>2, <1>3, <1>4, <1>5, <1>6, <1>7, <1>8, FaithGrows

(* A text is no call.                                                      *)
LEMMA QuietText ==
    ASSUME NEW role, NEW text
    PROVE  \A i \in 1..Len(<<Speech(role, Part(text))>>) : ~IsCall(<<Speech(role, Part(text))>>[i])
<1> DEFINE x == Speech(role, Part(text))
<1>1. ~IsCall(x)
  BY DEF IsCall, Speech, Part
<1> HIDE DEF x
<1>2. \A i \in 1..Len(<<x>>) : ~IsCall(<<x>>[i])
  BY <1>1, OnlyOne
<1> QED
  BY <1>2 DEF x

(* A user's message is told, in any of its forms.                          *)
LEMMA UserIsFaithful ==
    ASSUME CallsInv, TalkInv, FaithInv, NEW content \in UserContents, UserSays(content)
    PROVE  FaithInv'
<1>1. PICK part : content = <<part>> /\ part.text # ContinuationPrompt /\ (part.text # White => Says(part))
  <2>1. NewWording \notin {White, ContinuationPrompt} /\ White # ContinuationPrompt
    BY WordingIsNew DEF White, ContinuationPrompt
  <2>2. \A piece : /\ Str(piece) = <<[type |-> "string", text |-> piece]>>
                   /\ Text(piece) = <<[type |-> "text", text |-> piece]>>
    BY DEF Str, Text
  <2>3. \A piece : piece # White => Says([type |-> "text", text |-> piece])
    BY DEF Says
  <2>4. \A piece : Says([type |-> "string", text |-> piece])
    BY DEF Says
  <2>5. PICK piece \in {NewWording, White} : content = Str(piece) \/ content = Text(piece)
    BY DEF UserContents
  <2>6. piece # ContinuationPrompt
    BY <2>1, <2>5
  <2>7. CASE content = Str(piece)
    BY <2>2, <2>4, <2>6, <2>7
  <2>8. CASE content = Text(piece)
    BY <2>2, <2>3, <2>6, <2>8
  <2> QED
    BY <2>5, <2>7, <2>8
<1> DEFINE item     == Message("user", <<part>>)
           text     == ContentText(<<part>>)
           speeches == IF IsBlank(text) THEN <<>> ELSE <<Speech("user", Part(text))>>
<1>2. Carries(<<item>>, speeches) /\ Asks(item) /\ Renews(item, speeches)
  BY <1>1, UserCarries
<1>3. waiting' = {} /\ system' = system /\ Adds(<<item>>, speeches)
  BY <1>1 DEF UserSays
<1>4. \A i \in 1..Len(speeches) : ~IsCall(speeches[i])
  BY QuietText, Nothing
<1> HIDE DEF item, speeches
<1> QED
  BY <1>2, <1>3, <1>4, AskIsFaithful

(* An agent's task is told, and a sealed one is not.                       *)
LEMMA AgentIsFaithful ==
    ASSUME CallsInv, TalkInv, FaithInv, NEW sealed \in BOOLEAN, AgentSays(sealed)
    PROVE  FaithInv'
<1> DEFINE piece  == NewWording
           plain  == AgentMessage(Text(piece) \o Task(piece))
           opaque == AgentMessage(Text(piece) \o Task(Sealed))
           heard  == <<Speech("user", Part(<<piece, piece>>))>>
<1>1. waiting' = {} /\ system' = system /\ (Adds(<<opaque>>, <<>>) \/ Adds(<<plain>>, heard))
  BY DEF AgentSays
<1>2. piece \in Nat /\ piece \notin {White, Sealed, ContinuationPrompt}
  BY WordingIsNew
<1>3. Carries(<<plain>>, heard) /\ Asks(plain) /\ Renews(plain, heard)
  BY <1>2, TaskCarries
<1>4. Carries(<<opaque>>, <<>>) /\ Asks(opaque) /\ Renews(opaque, <<>>)
  BY <1>2, SealedCarries
<1>5. \A i \in 1..Len(heard) : ~IsCall(heard[i])
  BY QuietText
<1>6. \A i \in 1..Len(<<>>) : ~IsCall(<<>>[i])
  BY Nothing
<1> HIDE DEF plain, opaque, heard
<1> QED
  BY <1>1, <1>3, <1>4, <1>5, <1>6, AskIsFaithful

(* A result is told with the ID Cursor gave the call, which the caller's   *)
(* ID gives back (restoreToolCallID).                                      *)
LEMMA ResultIsFaithful ==
    ASSUME CallsInv, TalkInv, FaithInv, NEW call \in waiting, NEW blocks \in BOOLEAN, ReturnResult(call, blocks)
    PROVE  FaithInv'
<1> DEFINE item     == ResultItem(call, NewWording, blocks)
           speeches == <<Speech("tool", ResultPart(call.cursorID, <<NewWording>>))>>
<1>1. /\ waiting' = waiting \ {call} /\ system' = system /\ Adds(<<item>>, speeches)
  BY DEF ReturnResult
<1>2. RestoreToolCallID(call.id) = call.cursorID /\ Restored(waiting')
  BY <1>1 DEF FaithInv, Restored
<1>3. /\ IsSeq(speeches) /\ Legibly(speeches) = speeches
      /\ \A i \in 1..Len(speeches) : Legible(speeches[i]).role # "user"
  <2> DEFINE x == Speech("tool", ResultPart(call.cursorID, <<NewWording>>))
  <2>1. Legible(x).role = "tool" /\ ~IsCall(x)
    BY LegibleSpeech DEF IsCall, Speech, ResultPart
  <2>2. speeches = <<x>>
    OBVIOUS
  <2> HIDE DEF x, speeches
  <2>3. IsSeq(speeches) /\ \A i \in 1..Len(speeches) : speeches[i] = x
    BY <2>2, Single, OnlyOne
  <2>4. Legibly(speeches) = speeches
    BY <2>1, <2>3, LegiblyQuiet
  <2> QED
    BY <2>1, <2>3, <2>4
<1>4. format # "claude" => Carries(<<item>>, speeches) /\ ~Asks(item)
  <2> SUFFICES ASSUME format # "claude" PROVE Carries(<<item>>, speeches) /\ ~Asks(item)
    OBVIOUS
  <2>1. format \in {"openai-chat", "openai-response"}
    BY ConversationAssumption DEF CallsInv
  <2> QED
    BY <1>2, <2>1, ResultCarries
<1> HIDE DEF item, speeches
<1>5. /\ format' = format /\ phase' = "caller" /\ transcript' = transcript \o <<item>>
      /\ spoken' = spoken \o speeches
  BY <1>1 DEF Adds
<1>6. Items' = Items \o <<item>>
  BY <1>1, <1>5, Single, ItemsGrow
<1>7. ASSUME NoToolsInClaude
      PROVE  /\ Carries(<<item>>, speeches) /\ Heeded(transcript', Commands')
             /\ format = "claude" => waiting' = {}
  <2>1. Faithful
    BY <1>7 DEF FaithInv
  <2>2. format # "claude"
    BY <2>1 DEF Faithful
  <2>3. Commands' = Commands
    BY <1>3, <1>5, CommandsStay
  <2>4. \A i \in 1..Len(<<item>>) : ~Asks(<<item>>[i])
    BY <1>4, <2>2, OnlyOne
  <2>5. IsSeq(transcript) /\ IsSeq(<<item>>) /\ Heeded(transcript, Commands)
    BY <2>1, Single DEF CallsInv, Faithful
  <2>6. Heeded(transcript \o <<item>>, Commands)
    BY <2>4, <2>5, HeededQuietly
  <2> QED
    BY <1>4, <1>5, <2>2, <2>3, <2>6
<1> QED
  BY <1>2, <1>3, <1>5, <1>6, <1>7, FaithGrows

(* restoreToolCallID undoes whatever a caller was given for an ID of       *)
(* Cursor's, by this version or an earlier one.                            *)
LEMMA HeldIDsComeBack ==
    ASSUME NEW id, NEW cursorID, HeldFor(id, cursorID)
    PROVE  RestoreToolCallID(id) = cursorID
<1>1. CASE id = cursorID /\ (id.form = "plain" \/ (id.form = "legacy" /\ id.n # id.m))
  BY <1>1 DEF RestoreToolCallID
<1>2. CASE id = Encoded(cursorID)
  <2>1. id.form = "prefixed" /\ id.of # <<>> /\ id.of[1] = cursorID
    BY <1>2 DEF Encoded
  <2> QED
    BY <2>1 DEF RestoreToolCallID
<1>3. CASE id.form = "legacy" /\ id.n = id.m /\ cursorID = Pair(id.n)
  BY <1>3 DEF RestoreToolCallID
<1> QED
  BY <1>1, <1>2, <1>3 DEF HeldFor

(* A turn another provider made is told, with the IDs Cursor would know.   *)
LEMMA ForeignIsFaithful ==
    ASSUME CallsInv, TalkInv, FaithInv, NEW foreign \in ForeignCalls, NEW wire \in Wires, NEW form, ForeignTurn(foreign, wire, form)
    PROVE  FaithInv'
<1> DEFINE tool   == Parsed[declared].identities[wire]
           calls  == [i \in 1..Len(foreign) |-> [id |-> foreign[i].id, tool |-> tool, args |-> Args(NewWording + i, form)]]
           said   == [i \in 1..Len(calls) |-> Speech("assistant", CallPart(foreign[i].cursorID, wire, calls[i].args))]
           remark == <<Speech("assistant", Part(<<NewWording>>))>>
           items  == AssistantItems(Text(NewWording), calls, FALSE)
<1>1. /\ format' = format /\ system' = system /\ phase' = "caller" /\ transcript' = transcript \o items
      /\ spoken' = spoken \o (remark \o said)
      /\ waiting' = {Waiting(calls[i], foreign[i].cursorID) : i \in 1..Len(calls)}
  BY DEF ForeignTurn, Adds
<1>2. ToolError(declared) = "none"
  BY DEF ForeignTurn, Parsed, CallsInv
<1>3. CallerToolName(tool.namespace, tool.name) = wire
      /\ (format # "openai-response" => CallerToolName(tool.namespace, tool.name) = tool.name)
  BY <1>2, CalledByWireName DEF Wires
<1>4. Len(foreign) \in Nat /\ \A i \in 1..Len(foreign) : HeldFor(foreign[i].id, foreign[i].cursorID)
  BY ConversationAssumption
<1>16. form \in IF tool.custom THEN {"plain", "padded", "extra"} ELSE {"plain", "wide", "broken"}
  BY DEF ForeignTurn, Forms
<1>5. Text(NewWording) # <<>>
  BY OnePart DEF Text
<1>6. Remark(Text(NewWording), NewWording) = remark
  BY <1>5 DEF Remark
<1> HIDE DEF tool, remark
<1>7. /\ calls \in Seq({calls[i] : i \in 1..Len(foreign)}) /\ Len(calls) = Len(foreign)
      /\ \A i \in 1..Len(foreign) : /\ calls[i].id = foreign[i].id /\ calls[i].tool = tool
                                     /\ calls[i].args = Args(NewWording + i, form)
  BY <1>4
<1> HIDE DEF calls
<1>8. /\ said \in Seq({said[i] : i \in 1..Len(calls)}) /\ Len(said) = Len(calls)
      /\ \A i \in 1..Len(calls) : said[i] = Speech("assistant", CallPart(foreign[i].cursorID, wire, calls[i].args))
  BY <1>4, <1>7
<1> HIDE DEF said
<1>9. IsSeq(calls) /\ IsSeq(said)
  BY <1>7, <1>8 DEF IsSeq
<1>10. \A i \in 1..Len(calls) : RestoreToolCallID(calls[i].id) = foreign[i].cursorID
  BY <1>4, <1>7, HeldIDsComeBack
<1>11. \A i \in 1..Len(calls) :
          IsCall(said[i]) /\ Legible(said[i]) = CallSpeech(calls[i]) /\ Fitting(calls[i])
  <2> SUFFICES ASSUME NEW i \in 1..Len(calls)
               PROVE  IsCall(said[i]) /\ Legible(said[i]) = CallSpeech(calls[i]) /\ Fitting(calls[i])
    OBVIOUS
  <2>1. IsCall(said[i])
    <3>1. \A id, args : IsCall(Speech("assistant", CallPart(id, wire, args)))
      BY DEF IsCall, Speech, CallPart
    <3> QED
      BY <1>8, <3>1
  <2>2. Legible(said[i]) = Speech("assistant", CallPart(foreign[i].cursorID, wire, Carried(calls[i].args)))
    BY <1>8, LegibleSpeech
  <2>3. Legible(said[i]) = CallSpeech(calls[i])
    BY <1>3, <1>7, <1>10, <2>2 DEF CallSpeech
  <2>4. Fitting(calls[i])
    BY <1>7, <1>16 DEF Fitting
  <2> QED
    BY <2>1, <2>3, <2>4
<1>12. format # "openai-response" => \A i \in 1..Len(calls) :
          CallerToolName(calls[i].tool.namespace, calls[i].tool.name) = calls[i].tool.name
  BY <1>3, <1>7
<1>13. Restored(waiting')
  <2>1. \A i \in 1..Len(calls) : /\ Waiting(calls[i], foreign[i].cursorID).id = calls[i].id
                                 /\ Waiting(calls[i], foreign[i].cursorID).cursorID = foreign[i].cursorID
    BY DEF Waiting
  <2> QED
    BY <1>1, <1>10, <2>1 DEF Restored
<1>14. calls = <<>> => waiting' = {}
  BY <1>1, Nothing
<1>15. spoken' = spoken \o (Remark(Text(NewWording), NewWording) \o said)
  BY <1>1, <1>6
<1> QED
  BY <1>1, <1>8, <1>9, <1>11, <1>12, <1>13, <1>14, <1>15, TurnIsFaithful

-----------------------------------------------------------------------------
(* The request: the prompt is the newest instruction of all.               *)
LEMMA NewestIsActive ==
    ASSUME NEW items, IsSeq(items), NEW i, Newest(items, i)
    PROVE  ActiveIndex(items) = i /\ i > 0
<1> DEFINE I == {k \in 1..Len(items) : items[k].type = "agent_message" \/ items[k].role = "user"}
<1>1. Len(items) \in Nat
  BY DEF IsSeq
<1>2. ActiveIndex(items) = IF I # {} THEN Max(I) ELSE 0
  BY DEF ActiveIndex, SelectLastInSeq
<1>3. i \in I /\ (\A k \in I : k <= i) /\ I \in SUBSET Nat
  BY <1>1 DEF Newest, Asks
<1> HIDE DEF I
<1>4. Max(I) = i
  <2>1. \A m \in I : (\A k \in I : m >= k) => m = i
    BY <1>3
  <2>2. \A k \in I : i >= k
    BY <1>3
  <2> QED
    BY <1>3, <2>1, <2>2 DEF Max
<1>5. i > 0
  BY <1>1 DEF Newest
<1> QED
  BY <1>2, <1>3, <1>4, <1>5

(* The newest instruction of the transcript is the newest of the request:  *)
(* the instructions field holds system text only.                          *)
LEMMA NewestOfAll ==
    ASSUME CallsInv, NEW i, Newest(transcript, i)
    PROVE  \E j : Newest(Items, j) /\ Items[j] = transcript[i]
<1>1. IsSeq(transcript) /\ Len(transcript) \in Nat
  BY DEF CallsInv, IsSeq
<1>2. CASE system = <<>>
  <2>1. Items = transcript
    BY <1>1, <1>2, JoinedToNothing DEF Items
  <2> QED
    BY <2>1
<1>3. CASE system # <<>>
  <2> DEFINE m     == Message("system", system)
             first == <<m>>
             all   == first \o transcript
  <2>1. Items = all
    BY <1>3 DEF Items
  <2>2. m.type = "message" /\ m.role = "system"
    BY DEF Message
  <2>3. IsSeq(first) /\ Len(first) = 1 /\ first[1] = m
    BY Single
  <2>4. ~Asks(m)
    BY <2>2 DEF Asks
  <2> HIDE DEF m, first
  <2>5. Len(all) = 1 + Len(transcript) /\ all[1] = m
    <3>1. Len(all) = Len(first) + Len(transcript)
      BY <1>1, <2>3, Joined
    <3>2. 1 \in 1..Len(first)
      BY <2>3
    <3>3. all[1] = first[1]
      BY <1>1, <2>3, <3>2, Joined, SMTT(30)
    <3> QED
      BY <2>3, <3>1, <3>3
  <2>6. \A k \in 1..Len(transcript) : all[1 + k] = transcript[k]
    <3> DEFINE t == transcript
    <3>1. IsSeq(first) /\ IsSeq(t)
      BY <1>1, <2>3
    <3> HIDE DEF t
    <3>2. \A k \in 1..Len(t) : (first \o t)[Len(first) + k] = t[k]
      BY <3>1, Joined
    <3>3. \A k \in 1..Len(transcript) : all[Len(first) + k] = transcript[k]
      BY <3>2 DEF t
    <3> QED
      BY <2>3, <3>3
  <2> HIDE DEF all
  <2>7. i \in 1..Len(transcript) /\ Asks(transcript[i]) /\ \A k \in 1..Len(transcript) : Asks(transcript[k]) => k <= i
    BY DEF Newest
  <2>8. 1 + i \in 1..Len(all) /\ all[1 + i] = transcript[i]
    BY <1>1, <2>5, <2>6, <2>7
  <2>9. ASSUME NEW k \in 1..Len(all), Asks(all[k])
        PROVE  k <= 1 + i
    <3>1. k # 1
      BY <2>4, <2>5, <2>9
    <3>2. k - 1 \in 1..Len(transcript) /\ k = 1 + (k - 1)
      BY <1>1, <2>5, <3>1
    <3>3. all[k] = transcript[k - 1]
      BY <2>6, <3>2
    <3>4. k - 1 <= i
      BY <2>7, <2>9, <3>2, <3>3
    <3> QED
      BY <1>1, <2>7, <3>2, <3>4
  <2>10. Newest(all, 1 + i)
    BY <2>7, <2>8, <2>9 DEF Newest
  <2> QED
    BY <2>1, <2>8, <2>10
<1> QED
  BY <1>2, <1>3

(* The turn that is sent tells all its items say, and is refused when its  *)
(* newest instruction is sealed.                                           *)
LEMMA RequestIsFaithful ==
    ASSUME CallsInv, TalkInv, FaithInv, Request
    PROVE  FaithInv'
<1> DEFINE turn == TurnInput(Items)
<1>1. /\ format' = format /\ system' = system /\ transcript' = transcript /\ waiting' = waiting /\ spoken' = spoken
      /\ phase = "caller"
      /\ \/ RequestError(Items, turn) = "none" /\ phase' = "cursor" /\ input' = turn
         \/ phase' = phase /\ input' = input
  BY DEF Request
<1>2. /\ Items' = Items /\ Legibly(spoken)' = Legibly(spoken) /\ Commands' = Commands
      /\ NoToolsInClaude' => NoToolsInClaude
  BY <1>1, LegiblyStays DEF Items, NoToolsInClaude, IsCall
<1>3. Restored(waiting)'
  BY <1>1 DEF FaithInv, Restored
<1>4. ASSUME NoToolsInClaude'
      PROVE  Faithful'
  <2>1. Faithful
    BY <1>2, <1>4 DEF FaithInv
  <2>2. /\ Worded(Items)' /\ (format = "claude" => waiting = {})' /\ Agrees(Saying(Items), Legibly(spoken))'
        /\ Heeded(transcript, Commands)'
    <3>1. Worded(Items') /\ Agrees(Saying(Items'), Legibly(spoken)') /\ Heeded(transcript', Commands')
      BY <1>1, <1>2, <2>1 DEF Faithful
    <3>2. (format = "claude" => waiting = {})'
      BY <1>1, <2>1 DEF Faithful
    <3> QED
      BY <3>1, <3>2
  <2>3. ASSUME phase' = "cursor"
        PROVE  /\ IsSeq(Told)' /\ Agrees(Told, Legibly(spoken))'
               /\ \A i \in 1..Len(transcript') : Newest(transcript', i) => ~Sealing(transcript'[i])
    <3>1. RequestError(Items, turn) = "none" /\ input' = turn
      BY <1>1, <2>3
    <3>2. Shaped(Items) /\ IsSeq(Items)
      BY ShapedItems DEF Shaped
    <3>3. \A i \in 1..Len(Items) : IsActive(Items[i]) => ActiveText(Items[i]) # <<ContinuationPrompt>>
      BY <2>1 DEF Faithful, Worded, IsActive, Asks
    <3>4. ToldBy(turn) = Saying(Items)
      BY <3>1, <3>2, <3>3, TurnTellsAll
    <3>5. Told' = ToldBy(input')
      BY DEF Told, ToldBy, Heard
    <3>6. IsSeq(Told') /\ Agrees(Told', Legibly(spoken)')
      BY <1>1, <1>2, <2>1, <3>1, <3>2, <3>4, <3>5, SayingSeq DEF Faithful
    <3>7. ASSUME NEW i \in 1..Len(transcript), Newest(transcript, i)
          PROVE  ~Sealing(transcript[i])
      <4>1. PICK j : Newest(Items, j) /\ Items[j] = transcript[i]
        BY <3>7, NewestOfAll
      <4>2. ActiveIndex(Items) = j /\ j > 0
        BY <3>2, <4>1, NewestIsActive
      <4>3. ~Sealing(Items[j])
        BY <3>1, <4>2 DEF RequestError, Sealing
      <4> QED
        BY <4>1, <4>3
    <3> QED
      BY <1>1, <3>6, <3>7
  <2> QED
    BY <2>2, <2>3 DEF Faithful
<1> QED
  BY <1>3, <1>4 DEF FaithInv

(* Whatever the caller does keeps the history faithful.                    *)
LEMMA CallerStepFaithful == CallsInv /\ TalkInv /\ FaithInv /\ CallerStep => FaithInv'
  BY SystemIsFaithful, UserIsFaithful, AgentIsFaithful, ForeignIsFaithful, ResultIsFaithful, RequestIsFaithful
     DEF CallerStep

-----------------------------------------------------------------------------
(* An answer of Cursor is told when it comes back.                         *)
LEMMA SpeakingIsFaithful ==
    ASSUME CallsInv, TalkInv, FaithInv, CursorSpeaks
    PROVE  FaithInv'
<1> DEFINE text  == Text(NewWording)
           calls == <<>>
           heard == <<Speech("assistant", Part(<<NewWording>>))>>
<1>1. /\ format' = format /\ system' = system /\ phase' = "caller" /\ spoken' = spoken \o heard
      /\ transcript' = transcript \o AssistantItems(text, calls, FALSE)
  BY DEF CursorSpeaks, Answered
<1>2. waiting' = {}
  <2>1. waiting' = {Waiting(<<>>[i], <<>>[i]) : i \in 1..Len(<<>>)}
    BY DEF CursorSpeaks, Answered
  <2> QED
    BY <2>1, Nothing
<1>3. text # <<>>
  BY OnePart DEF Text
<1>4. Remark(text, NewWording) = heard
  BY <1>3 DEF Remark
<1>5. IsSeq(heard)
  BY Single
<1>6. IsSeq(calls) /\ Len(calls) = 0
  BY Nothing
<1> HIDE DEF heard, text
<1>7. heard \o calls = heard
  BY <1>5, JoinedToNothing
<1>8. spoken' = spoken \o (Remark(text, NewWording) \o calls)
  BY <1>1, <1>4, <1>7
<1>9. Restored(waiting')
  BY <1>2 DEF Restored
<1> HIDE DEF calls
<1>10. \A i \in 1..Len(calls) :
          IsCall(calls[i]) /\ Legible(calls[i]) = CallSpeech(calls[i]) /\ Fitting(calls[i])
  BY <1>6
<1>11. \A i \in 1..Len(calls) : CallerToolName(calls[i].tool.namespace, calls[i].tool.name) = calls[i].tool.name
  BY <1>6
<1>12. text = Text(NewWording)
  BY DEF text
<1> QED
  BY <1>1, <1>2, <1>6, <1>8, <1>9, <1>10, <1>11, <1>12, TurnIsFaithful

(* A call of Cursor is told when it comes back, under its own ID and name. *)
LEMMA CallIsFaithful ==
    ASSUME CallsInv, TalkInv, FaithInv, phase = "cursor", NEW toolName, NEW name, NEW id, NEW form,
           NEW says \in BOOLEAN, NEW callsFirst \in BOOLEAN, CursorCalls(toolName, name, id, form, says, callsFirst)
    PROVE  FaithInv'
<1> DEFINE identities == Parsed[declared].identities
           wire       == ResolvedWire(toolName, name, identities)
           tool       == identities[wire]
           fresh      == Plain(NewWording + 1)
           cursorID   == IF id.form = "blank" THEN fresh ELSE id
           args       == Args(NewWording + 1, form)
           call       == [id |-> NormalizeToolCallID(id, fresh), tool |-> tool, args |-> args]
           text       == IF says THEN Text(NewWording) ELSE <<>>
           remark     == IF says THEN <<Speech("assistant", Part(<<NewWording>>))>> ELSE <<>>
           x          == Speech("assistant", CallPart(cursorID, wire, call.args))
           said       == <<x>>
           calls      == <<call>>
           cursorIDs  == <<cursorID>>
<1>1. /\ format' = format /\ system' = system /\ phase' = "caller" /\ spoken' = spoken \o (remark \o said)
      /\ transcript' = transcript \o AssistantItems(text, calls, callsFirst)
      /\ waiting' = {Waiting(calls[i], cursorIDs[i]) : i \in 1..Len(calls)}
  BY DEF CursorCalls, Answered
<1>2. ToolError(declared) = "none"
  BY DEF CallsInv
<1>3. wire \in DOMAIN identities
  BY DEF CursorCalls, ResolvedWire
<1>4. /\ CallerToolName(tool.namespace, tool.name) = wire
      /\ format # "openai-response" => CallerToolName(tool.namespace, tool.name) = tool.name
  BY <1>2, <1>3, CalledByWireName
<1>5. RestoreToolCallID(NormalizeToolCallID(id, fresh)) = cursorID
  <2>1. CASE id.form = "blank"
    <3>1. NormalizeToolCallID(id, fresh) = fresh
      BY <2>1 DEF NormalizeToolCallID
    <3>2. RestoreToolCallID(fresh) = fresh
      BY DEF RestoreToolCallID, Plain
    <3> QED
      BY <2>1, <3>1, <3>2
  <2>2. CASE id.form # "blank"
    <3> HIDE DEF fresh
    <3>1. RestoreToolCallID(NormalizeToolCallID(id, fresh)) = id
      BY <2>2, CallIDsComeBack
    <3> QED
      BY <2>2, <3>1
  <2> QED
    BY <2>1, <2>2
<1>6. call.id = NormalizeToolCallID(id, fresh) /\ call.tool = tool /\ call.args = args
  OBVIOUS
<1>20. Fitting(call)
  <2>1. form \in IF tool.custom THEN {"plain", "padded", "extra"} ELSE {"plain"}
    BY DEF CursorCalls
  <2> HIDE DEF tool, call
  <2> QED
    BY <1>6, <2>1 DEF Fitting
<1>7. Text(NewWording) # <<>>
  BY OnePart DEF Text
<1>8. Remark(text, NewWording) = remark
  BY <1>7 DEF Remark
<1>9. text = <<>> \/ text = Text(NewWording)
  OBVIOUS
<1> HIDE DEF identities, wire, tool, fresh, cursorID, args, text, remark
<1>10. IsCall(x) /\ Legible(x) = CallSpeech(call)
  <2>1. IsCall(x)
    BY DEF IsCall, Speech, CallPart
  <2>2. Legible(x) = Speech("assistant", CallPart(cursorID, wire, Carried(call.args)))
    BY LegibleSpeech
  <2>3. Legible(x) = CallSpeech(call)
    BY <1>4, <1>5, <1>6, <2>2 DEF CallSpeech
  <2> QED
    BY <2>1, <2>3
<1> HIDE DEF call, x
<1>11. /\ IsSeq(calls) /\ Len(calls) = 1 /\ calls[1] = call
       /\ IsSeq(said) /\ Len(said) = 1 /\ said[1] = x
       /\ cursorIDs[1] = cursorID
  BY Single
<1> HIDE DEF calls, said, cursorIDs
<1>12. \A i \in 1..Len(calls) : i = 1
  BY <1>11
<1>13. \A i \in 1..Len(calls) :
          IsCall(said[i]) /\ Legible(said[i]) = CallSpeech(calls[i]) /\ Fitting(calls[i])
  BY <1>10, <1>11, <1>12, <1>20
<1>14. format # "openai-response" => \A i \in 1..Len(calls) :
          CallerToolName(calls[i].tool.namespace, calls[i].tool.name) = calls[i].tool.name
  BY <1>4, <1>6, <1>11, <1>12
<1>15. Restored(waiting')
  <2>1. Waiting(call, cursorID).id = call.id /\ Waiting(call, cursorID).cursorID = cursorID
    BY DEF Waiting
  <2>2. \A w \in waiting' : w = Waiting(call, cursorID)
    BY <1>1, <1>11, <1>12
  <2>3. RestoreToolCallID(call.id) = cursorID
    BY <1>5, <1>6
  <2> QED
    BY <2>1, <2>2, <2>3 DEF Restored
<1>16. calls # <<>>
  BY <1>11, Nothing
<1>17. spoken' = spoken \o (Remark(text, NewWording) \o said)
  BY <1>1, <1>8
<1>18. Len(said) = Len(calls) /\ (callsFirst => Len(calls) = 1) /\ (calls = <<>> => waiting' = {})
  BY <1>11, <1>16
<1>19. /\ format' = format /\ system' = system /\ phase' = "caller"
       /\ transcript' = transcript \o AssistantItems(text, calls, callsFirst)
       /\ IsSeq(calls) /\ IsSeq(said)
  BY <1>1, <1>11
<1> QED
  BY <1>9, <1>13, <1>14, <1>15, <1>17, <1>18, <1>19, TurnIsFaithful

(* A turn that fails adds nothing.                                         *)
LEMMA FailingIsFaithful ==
    ASSUME CallsInv, TalkInv, FaithInv, phase' = "caller", format' = format, system' = system,
           transcript' = transcript, waiting' = waiting, spoken' = spoken
    PROVE  FaithInv'
<1>1. /\ Items' = Items /\ Legibly(spoken)' = Legibly(spoken) /\ Commands' = Commands
      /\ NoToolsInClaude' => NoToolsInClaude
  BY LegiblyStays DEF Items, NoToolsInClaude, IsCall
<1>2. Restored(waiting)'
  BY DEF FaithInv, Restored
<1>3. ASSUME NoToolsInClaude'
      PROVE  Faithful'
  <2>1. Faithful
    BY <1>1, <1>3 DEF FaithInv
  <2>2. Worded(Items') /\ Agrees(Saying(Items'), Legibly(spoken)') /\ Heeded(transcript', Commands')
    BY <1>1, <2>1 DEF Faithful
  <2>3. Worded(Items)' /\ Agrees(Saying(Items), Legibly(spoken))' /\ Heeded(transcript, Commands)'
    BY <2>2
  <2>4. (format = "claude" => waiting = {})'
    BY <2>1 DEF Faithful
  <2> QED
    BY <2>3, <2>4 DEF Faithful
<1> QED
  BY <1>2, <1>3 DEF FaithInv

(* Whatever Cursor does keeps the history faithful.                        *)
LEMMA CursorStepFaithful == CallsInv /\ TalkInv /\ FaithInv /\ CursorStep => FaithInv'
<1> SUFFICES ASSUME CallsInv, TalkInv, FaithInv, CursorStep PROVE FaithInv'
  OBVIOUS
<1>1. ASSUME NEW toolName, NEW name, NEW stringInput, CallFails(toolName, name, stringInput)
      PROVE  FaithInv'
  BY <1>1, FailingIsFaithful DEF CallFails
<1>2. ASSUME phase = "cursor", NEW toolName, NEW name, NEW id, NEW form, NEW says \in BOOLEAN, NEW callsFirst \in BOOLEAN,
             CursorCalls(toolName, name, id, form, says, callsFirst)
      PROVE  FaithInv'
  BY <1>2, CallIsFaithful
<1> QED
  BY <1>1, <1>2, SpeakingIsFaithful DEF CursorStep

(* An empty conversation is faithful.                                      *)
LEMMA FaithInit == Init => FaithInv
<1> SUFFICES ASSUME Init PROVE FaithInv
  OBVIOUS
<1>1. /\ system = <<>> /\ transcript = <<>> /\ waiting = {} /\ spoken = <<>> /\ phase = "caller"
      /\ Items = <<>>
  BY DEF Init, Items
<1>2. Worded(Items) /\ Heeded(transcript, Commands)
  BY <1>1, Nothing DEF Worded, Heeded
<1>3. Agrees(Saying(Items), Legibly(spoken))
  <2>1. Legibly(<<>>) = <<>>
    BY LegiblyQuiet, Nothing
  <2> QED
    BY <1>1, <2>1, SayingNothing, AgreesNothing
<1> QED
  BY <1>1, <1>2, <1>3 DEF FaithInv, Faithful, Restored

(* FaithInv is inductive beside CallsInv and TalkInv, so it holds          *)
(* throughout.                                                             *)
LEMMA FaithInvariance == Spec => []FaithInv
<1>1. CallsInv /\ TalkInv /\ FaithInv /\ [Next]_vars => FaithInv'
  <2> SUFFICES ASSUME CallsInv, TalkInv, FaithInv, [Next]_vars PROVE FaithInv'
    OBVIOUS
  <2>1. CASE UNCHANGED vars
    <3>1. /\ phase' = phase /\ format' = format /\ system' = system /\ input' = input
          /\ transcript' = transcript /\ waiting' = waiting /\ spoken' = spoken
      BY <2>1 DEF vars
    <3>2. /\ Items' = Items /\ Legibly(spoken)' = Legibly(spoken) /\ Commands' = Commands /\ Told' = Told
          /\ NoToolsInClaude' => NoToolsInClaude
      BY <3>1, LegiblyStays DEF Items, NoToolsInClaude, IsCall, Told
    <3>3. Faithful => Faithful'
      <4> SUFFICES ASSUME Faithful PROVE Faithful'
        OBVIOUS
      <4>1. /\ Worded(Items') /\ Agrees(Saying(Items'), Legibly(spoken)') /\ Heeded(transcript', Commands')
            /\ phase' = "cursor" => IsSeq(Told') /\ Agrees(Told', Legibly(spoken)')
        BY <3>1, <3>2 DEF Faithful
      <4>2. /\ Worded(Items)' /\ Agrees(Saying(Items), Legibly(spoken))' /\ Heeded(transcript, Commands)'
            /\ (phase = "cursor" => IsSeq(Told) /\ Agrees(Told, Legibly(spoken)))'
        BY <4>1
      <4>3. (format = "claude" => waiting = {})'
        BY <3>1 DEF Faithful
      <4>4. phase' = "cursor" => \A i \in 1..Len(transcript') : Newest(transcript', i) => ~Sealing(transcript'[i])
        BY <3>1 DEF Faithful
      <4> QED
        BY <4>2, <4>3, <4>4 DEF Faithful
    <3>4. Restored(waiting)'
      BY <3>1 DEF FaithInv, Restored
    <3> QED
      BY <3>2, <3>3, <3>4 DEF FaithInv
  <2> QED
    BY <2>1, CallerStepFaithful, CursorStepFaithful DEF Next
<1> QED
  BY <1>1, FaithInit, CallsInvariance, TalkInvariance, PTL DEF Spec

(* The filters of the properties, as filters by name.                      *)
LEMMA FiltersByName ==
    ASSUME NEW s
    PROVE  /\ Audible(s) = Filtered(s, "audible") /\ ButCalls(s) = Filtered(s, "talk")
           /\ ButRemarks(s) = Filtered(s, "work") /\ Instructions(s) = Filtered(s, "instructions")
<1>1. Audible(s) = Filtered(s, "audible")
  <2>1. {i \in 1..Len(s) : SaysSomething(s[i])} = {i \in 1..Len(s) : Keeps(s[i], "audible")}
    BY DEF Keeps
  <2> QED
    BY <2>1 DEF Audible, Filtered
<1>2. ButCalls(s) = Filtered(s, "talk")
  <2>1. {i \in 1..Len(s) : ~IsCall(s[i])} = {i \in 1..Len(s) : Keeps(s[i], "talk")}
    BY DEF Keeps
  <2> QED
    BY <2>1 DEF ButCalls, Filtered
<1>3. ButRemarks(s) = Filtered(s, "work")
  <2>1. {i \in 1..Len(s) : ~IsRemark(s[i])} = {i \in 1..Len(s) : Keeps(s[i], "work")}
    BY DEF Keeps
  <2> QED
    BY <2>1 DEF ButRemarks, Filtered
<1>4. Instructions(s) = Filtered(s, "instructions")
  <2>1. {i \in 1..Len(s) : s[i].role = "user" /\ SaysSomething(s[i])} = {i \in 1..Len(s) : Keeps(s[i], "instructions")}
    BY DEF Keeps
  <2> QED
    BY <2>1 DEF Instructions, Filtered
<1> QED
  BY <1>1, <1>2, <1>3, <1>4

(* Conversation.HistoryIsFaithful, of turnInput, restoreToolCallID and     *)
(* historyToolName: over any number of turns, formats, tools and IDs of    *)
(* calls, Cursor is told all that was said, once, in order, its calls by   *)
(* its own IDs and names and with all of their arguments that the          *)
(* conversions carry (Carried names the four losses); only a remark and    *)
(* the calls of one message may change places.                             *)
THEOREM HistoryAlwaysFaithful == Spec => []HistoryIsFaithful
<1>1. FaithInv => HistoryIsFaithful
  <2> SUFFICES ASSUME FaithInv, phase = "cursor", NoToolsInClaude
               PROVE  /\ ButCalls(Audible(Told)) = ButCalls(Legibly(spoken))
                      /\ ButRemarks(Audible(Told)) = ButRemarks(Legibly(spoken))
    BY DEF HistoryIsFaithful
  <2>1. Agrees(Told, Legibly(spoken))
    BY DEF FaithInv, Faithful
  <2> DEFINE told == Told
             said == Legibly(spoken)
  <2>2. /\ Filtered(Filtered(told, "audible"), "talk") = Filtered(said, "talk")
        /\ Filtered(Filtered(told, "audible"), "work") = Filtered(said, "work")
    BY <2>1 DEF Agrees
  <2> HIDE DEF told, said
  <2>3. ButCalls(Audible(told)) = ButCalls(said) /\ ButRemarks(Audible(told)) = ButRemarks(said)
    BY <2>2, FiltersByName
  <2> QED
    BY <2>3 DEF told, said
<1> QED
  BY <1>1, FaithInvariance, PTL

(* Conversation.NewestInstructionIsTold, of turnInput and of its refusal   *)
(* of encrypted tasks: whatever was said before, whoever made the turns,   *)
(* the newest instruction of the caller is the newest Cursor is told.      *)
THEOREM NewestInstructionAlwaysTold == Spec => []NewestInstructionIsTold
<1>1. TalkInv /\ FaithInv => NewestInstructionIsTold
  <2> SUFFICES ASSUME TalkInv, FaithInv, phase = "cursor", NoToolsInClaude, NEW i \in 1..Len(transcript),
                      Asks(transcript[i]), ~IsBlank(Pieces(transcript[i])),
                      \A k \in 1..Len(transcript) : Asks(transcript[k]) => k <= i
               PROVE  /\ Instructions(Told) # <<>>
                      /\ Last(Instructions(Told)).part.text = Pieces(transcript[i])
    BY DEF NewestInstructionIsTold, Asks, Pieces
  <2>1. /\ IsSeq(Told) /\ Agrees(Told, Legibly(spoken)) /\ Heeded(transcript, Commands)
        /\ \A k \in 1..Len(transcript) : Newest(transcript, k) => ~Sealing(transcript[k])
    BY DEF FaithInv, Faithful
  <2>2. Newest(transcript, i)
    BY DEF Newest
  <2>3. Commands # <<>> /\ Last(Commands).part.text = Pieces(transcript[i])
    BY <2>1, <2>2 DEF Heeded
  <2>4. Instructions(Told) = Commands
    <3> DEFINE told == Told
               said == Legibly(spoken)
    <3>1. Filtered(Filtered(told, "audible"), "work") = Filtered(said, "work")
      BY <2>1 DEF Agrees
    <3>2. IsSeq(told) /\ IsSeq(said)
      BY <2>1, LegiblyEach DEF TalkInv, Speeches
    <3> HIDE DEF told, said
    <3>3. \A x : Keeps(x, "instructions") => Keeps(x, "audible")
      BY DEF Keeps
    <3>4. \A x : Keeps(x, "instructions") => Keeps(x, "work")
      BY DEF Keeps, IsRemark
    <3> DEFINE heard == Filtered(told, "audible")
    <3>5. IsSeq(heard)
      BY <3>2, FilteredSeq
    <3>6. Filtered(heard, "instructions") = Filtered(told, "instructions")
      BY <3>2, <3>3, FilteredTwice
    <3> HIDE DEF heard
    <3>7. Filtered(Filtered(heard, "work"), "instructions") = Filtered(heard, "instructions")
      BY <3>4, <3>5, FilteredTwice
    <3>8. Filtered(Filtered(said, "work"), "instructions") = Filtered(said, "instructions")
      BY <3>2, <3>4, FilteredTwice
    <3>9. Filtered(told, "instructions") = Filtered(said, "instructions")
      BY <3>1, <3>6, <3>7, <3>8 DEF heard
    <3>10. Instructions(told) = Filtered(said, "instructions")
      BY <3>9, FiltersByName
    <3> QED
      BY <3>10 DEF told, said, Commands
  <2> QED
    BY <2>3, <2>4
<1> QED
  BY <1>1, FaithInvariance, TalkInvariance, PTL

=============================================================================
