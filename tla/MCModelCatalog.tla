--------------------------- MODULE MCModelCatalog ---------------------------
(* Slugs with an effort before and behind "fast", a base that is a slug    *)
(* itself, a level inside a base, and a slug in two cases.                 *)
EXTENDS ModelCatalog

MCIDs == {<<"gpt">>, <<"GPT">>, <<"gpt", "high">>, <<"gpt", "max">>, <<"gpt", "max", "low">>,
          <<"gpt", "High", "fast">>, <<"gpt", "fast", "high">>}
MCRequested == MCIDs \cup {<<"gpt", "fast">>, <<"gpt", "low">>}

MCWords == {"GPT", "High", "fast", "gpt", "high", "low", "max"}
MCLower == [w \in MCWords |-> IF w = "GPT" THEN "gpt" ELSE IF w = "High" THEN "high" ELSE w]
MCRank  == [w \in {"fast", "gpt", "high", "low", "max"} |->
               CHOOSE i \in 1 .. 5 : <<"fast", "gpt", "high", "low", "max">>[i] = w]

=============================================================================
