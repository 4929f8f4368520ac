--------------------------- MODULE MCConversation ---------------------------
(* The instance of Conversation that TLC checks. *)
EXTENDS Conversation

Leaf(path, kind, name) == [path |-> path, kind |-> kind, name |-> name, schema |-> FALSE]

(* A flat tool and a custom one; a tool in two namespaces, one of them     *)
(* nested; two tools that collide; a built-in tool beside a namespace      *)
(* without a name.                                                         *)
MCToolLists ==
    {<<Leaf(<<>>, "function", <<"a">>), Leaf(<<>>, "custom", <<"b">>)>>,
     <<Leaf(<<<<"n">>>>, "function", <<"a">>), Leaf(<<<<"n">>, <<"m">>>>, "custom", <<"a">>)>>,
     <<Leaf(<<<<"n">>>>, "function", <<"a", "b">>), Leaf(<<<<"n">>, <<"a">>>>, "function", <<"b">>)>>,
     <<Leaf(<<>>, "web_search", <<>>), Leaf(<<<<>>>>, "function", <<"a">>)>>}

MCCallIDs == {Blank, Pair(1), Encoded(Plain(1))}

(* Parallel calls with IDs that versions up to 0.1.12 gave, and others. *)
MCForeignCalls ==
    {<<[id |-> Legacy(2, 2), cursorID |-> Pair(2)], [id |-> Plain(3), cursorID |-> Plain(3)]>>,
     <<[id |-> Legacy(2, 3), cursorID |-> Legacy(2, 3)]>>}
=============================================================================
