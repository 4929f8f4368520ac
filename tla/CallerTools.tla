----------------------------- MODULE CallerTools -----------------------------
(***************************************************************************)
(* How the caller's tools and tool calls are named on their way to Cursor  *)
(* and back: internal/provider/tools.go flattens namespaced tools into one *)
(* list of wire names and finds the tool again when Cursor calls it, and   *)
(* tool_call_id.go makes the IDs of those calls safe for callers.          *)
(*                                                                         *)
(* A name is the sequence of its parts between "__": joining two names     *)
(* with "__" is concatenation, so "a__b" in no namespace and "b" in "a"    *)
(* have the same wire name.  The empty name is <<>>.                       *)
(***************************************************************************)
EXTENDS Naturals, Sequences

-----------------------------------------------------------------------------
(* Tools.  The declared tools are a tree of namespaces, given by its leaves *)
(* in the order parseTools visits them: each leaf has the names of the      *)
(* namespaces around it, outermost first.                                   *)

CallerToolName(namespace, name) == namespace \o name

(* The namespace of a leaf: the names of the namespaces around it, joined. *)
Namespace(leaf) ==
    LET join[k \in 0..Len(leaf.path)] ==
            IF k = 0 THEN <<>> ELSE CallerToolName(join[k - 1], leaf.path[k])
    IN  join[Len(leaf.path)]

WireName(leaf) == CallerToolName(Namespace(leaf), leaf.name)

(* Only functions and custom tools are the caller's to run; built-in tools *)
(* and tools without a name are skipped.                                   *)
Forwarded(leaf) == leaf.kind \in {"", "function", "custom"} /\ leaf.name # <<>>

(* A custom tool without a schema takes one raw string. *)
ToolIdentity(leaf) ==
    [name      |-> leaf.name,
     namespace |-> Namespace(leaf),
     custom    |-> leaf.kind = "custom" /\ ~leaf.schema]

NamespaceUnnamed(leaf) == \E k \in 1..Len(leaf.path) : leaf.path[k] = <<>>

(* Mutated form: a later tool replaces an earlier one of the same name. *)
CollisionsIgnored(leaves, i) == FALSE

Collides(leaves, i) ==
    /\ Forwarded(leaves[i])
    /\ \E j \in 1..(i - 1) : Forwarded(leaves[j]) /\ WireName(leaves[j]) = WireName(leaves[i])

(* parseTools stops at the first leaf it cannot accept. *)
ToolError(leaves) ==
    LET bad == {i \in 1..Len(leaves) : NamespaceUnnamed(leaves[i]) \/ Collides(leaves, i)}
    IN  IF bad = {} THEN "none"
        ELSE LET first == CHOOSE i \in bad : \A j \in bad : i <= j
             IN  IF NamespaceUnnamed(leaves[first]) THEN "invalid_tool" ELSE "duplicate_tool"

(* The map from wire names to identities; the last leaf of a name stays. *)
ToolIdentities(leaves) ==
    LET forwarded == {i \in 1..Len(leaves) : Forwarded(leaves[i])}
    IN  [wire \in {WireName(leaves[i]) : i \in forwarded} |->
            ToolIdentity(leaves[CHOOSE i \in forwarded :
                /\ WireName(leaves[i]) = wire
                /\ \A j \in forwarded : WireName(leaves[j]) = wire => j <= i])]

(* resolveToolIdentity: the wire name by which the called tool is found in  *)
(* the caller's tools, or <<>>: tool_name first, then name.                 *)
ResolvedWire(toolName, name, identities) ==
    IF toolName \in DOMAIN identities THEN toolName
    ELSE IF name \in DOMAIN identities THEN name ELSE <<>>

-----------------------------------------------------------------------------
(* IDs of tool calls, by the shapes the code tells apart.                  *)
Blank        == [form |-> "blank"]              \* empty or white space
Plain(n)     == [form |-> "plain", n |-> n]     \* safe characters only
Pair(n)      == [form |-> "pair", n |-> n]      \* call_<n>, a newline, fc_<n>
Legacy(n, m) == [form |-> "legacy", n |-> n, m |-> m]  \* call_<n>_fc_<m>
Encoded(id)  == [form |-> "prefixed", of |-> <<id>>]   \* cursor_tc_ and id in base64

(* safeToolCallID: the shapes a caller accepts as an ID. *)
Safe(id) == id.form \in {"plain", "legacy", "prefixed"}

(* Mutated form: an ID that looks encoded or legacy is passed as it is. *)
NormalizeUnlessUnsafe(id, fresh) ==
    IF id.form = "blank" THEN fresh ELSE IF Safe(id) THEN id ELSE Encoded(id)

(* Mutated form: only what looks encoded or legacy is encoded. *)
NormalizeLookalikes(id, fresh) ==
    IF id.form = "blank" THEN fresh
    ELSE IF id.form \in {"prefixed", "legacy"} THEN Encoded(id) ELSE id

(* normalizeToolCallID: an empty ID is replaced by a fresh one; anything   *)
(* that is unsafe, or that restoreToolCallID would change, is encoded.     *)
NormalizeToolCallID(id, fresh) ==
    IF id.form = "blank" THEN fresh
    ELSE IF Safe(id) /\ id.form \notin {"prefixed", "legacy"} THEN id
    ELSE Encoded(id)

(* restoreToolCallID: decodes, or recovers the pair of IDs that versions    *)
(* through 0.1.12 joined by an underscore.                                 *)
RestoreToolCallID(id) ==
    IF id.form = "prefixed" /\ id.of # <<>> THEN id.of[1]
    ELSE IF id.form = "legacy" /\ id.n = id.m THEN Pair(id.n)
    ELSE id

(* The ID a caller holds for Cursor's: as it was, encoded, or, for a pair, *)
(* as versions through 0.1.12 joined it.                                   *)
HeldFor(id, cursorID) ==
    \/ id = cursorID /\ (id.form = "plain" \/ (id.form = "legacy" /\ id.n # id.m))
    \/ id = Encoded(cursorID)
    \/ id.form = "legacy" /\ id.n = id.m /\ cursorID = Pair(id.n)

=============================================================================
