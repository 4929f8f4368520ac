------------------------------- MODULE MCLogin -------------------------------
(* Accounts with JWTs that name them, and accounts with opaque API keys. *)
EXTENDS Login, TLC

CONSTANTS a1, a2

MCAccounts == {a1, a2}
MCNames    == a1 :> "sub1" @@ a2 :> "sub2"
MCEmails   == a1 :> "a1@mail" @@ a2 :> NoClaim
MCOpaque   == [a \in {a1, a2} |-> NoClaim]

=============================================================================
