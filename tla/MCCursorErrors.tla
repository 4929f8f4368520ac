--------------------------- MODULE MCCursorErrors ----------------------------
(* Every combination of hint, kind and provider status that the            *)
(* classification tells apart, on both sides of its boundaries.            *)
EXTENDS CursorErrors

MCDetails ==
    [hint : {"none", "yes", "no"}, kind : {"provider", "other"}, code : {0, 429, 503}, reset : {NoReset}]
    \cup [hint : {"none", "no"}, kind : {"network"}, code : {399, 400, 499, 500, 501, 600}, reset : {-1, 2}]

=============================================================================
