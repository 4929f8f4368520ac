---------------------------- MODULE MCModelCache -----------------------------
(* Two models, one of which an account may deny or not allow. *)
EXTENDS ModelCache

CONSTANTS m1, m2

MCModels   == {m1, m2}
MCCatalogs == {{m1, m2}, {m2}}
MCPolicies == {[allowed |-> {}, denied |-> {}], [allowed |-> {m1}, denied |-> {}]}
MCDenies   == {[allowed |-> {}, denied |-> {}], [allowed |-> {}, denied |-> {m1}]}

=============================================================================
