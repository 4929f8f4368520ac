--------------------------- MODULE MCStreamFrames ---------------------------
(* Reports with an explicit zero, a repeated field, caches within and      *)
(* beyond the input, an unknown field alone, and two that are malformed.   *)
EXTENDS StreamFrames

F(number, value) == [number |-> number, varint |-> TRUE, value |-> value]

MCTokenDeltas == {-2, 3}
MCTurnEndings ==
    {<<>>, <<F(9, 5)>>, <<F(Input, 0), F(Output, 0)>>, <<F(Output, 4), F(9, 5), F(Output, 2)>>,
     <<F(Input, 5), F(CacheRead, 2), F(CacheWrite, 1)>>, <<F(Input, 1), F(CacheRead, 3)>>,
     <<F(Output, -1)>>, <<[number |-> 5, varint |-> FALSE, value |-> 1]>>}

=============================================================================
