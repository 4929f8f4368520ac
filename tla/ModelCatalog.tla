----------------------------- MODULE ModelCatalog -----------------------------
(***************************************************************************)
(* From Cursor's catalog to the model a request runs on: the variants are  *)
(* read one by one (parameterizedModels), sorted (discoverModels), listed  *)
(* for the host (modelInfos) and one is chosen for a request               *)
(* (resolveModel).  internal/provider/model_catalog.go and models.go.      *)
(*                                                                         *)
(* An ID is a sequence of words, the parts between its hyphens.  Lower and *)
(* Rank stand for the lower case of a word and the order of lower-case     *)
(* words.  The account's rules only take variants away and belong to       *)
(* ModelCache; the configured prefix is the same for every ID.             *)
(***************************************************************************)
EXTENDS Naturals, SequencesExt

CONSTANTS
    IDs,            \* slugs Cursor may list
    Requested,      \* IDs a request may name
    Efforts,        \* efforts a request may ask for, lower case
    Preferred,      \* values of default_reasoning_effort
    NoEffort,       \* a request that asks for none
    Lower, Rank,
    MaxVariants     \* model bound on the length of the catalog

ASSUME ModelCatalogAssumption ==
    /\ IDs \cup Requested \subseteq Seq(DOMAIN Lower) \ {<<>>}
    /\ DOMAIN Rank = {Lower[w] : w \in DOMAIN Lower}
    /\ MaxVariants \in Nat

VARIABLES
    catalog,    \* the variants Cursor sent, as far as they are read
    models,     \* the models made of them
    stage,      \* "reading", "ready", "answered"
    answer      \* what a request got

catalogVars == <<catalog, models, stage, answer>>

-----------------------------------------------------------------------------
reasoningLevels == {"none", "minimal", "low", "medium", "high", "xhigh", "max"}
DefaultOrder == <<"high", "medium", "low", "xhigh", "max", "minimal", "none">>
ModelModes   == {"raw", "normalized", "both"}

(* A variant that is hidden, not for agents or in max mode is skipped; a   *)
(* default one is the non-max default of its model.                        *)
VariantKinds == {"skipped", "plain", "default"}

Fold(id) == [i \in DOMAIN id |-> Lower[id[i]]]

(* splitEffort: the last word that is a level, with only "thinking" and    *)
(* "fast" behind it.                                                       *)
EffortAt(id) ==
    {i \in DOMAIN id : /\ Fold(id)[i] \in reasoningLevels
                       /\ \A j \in i + 1 .. Len(id) : Fold(id)[j] \in {"thinking", "fast"}}
Suffixed(id) == EffortAt(id) # {}
Effort(id)   == Fold(id)[CHOOSE i \in EffortAt(id) : TRUE]
Base(id)     == IF Suffixed(id) THEN RemoveAt(id, CHOOSE i \in EffortAt(id) : TRUE) ELSE id

(* normalizedFamilies: the models by base and effort; of two models with   *)
(* the same base and effort the later one stands.                          *)
Members(family) == {i \in DOMAIN models : Suffixed(models[i].id) /\ Base(models[i].id) = family}
Levels(family)  == {Effort(models[i].id) : i \in Members(family)}
Variant(family, level) ==
    models[CHOOSE i \in Members(family) :
              /\ Effort(models[i].id) = level
              /\ \A j \in Members(family) : Effort(models[j].id) = level => j <= i]

(* Mutated form: the configured effort is always the default. *)
DefaultIsPreferred(family, preferred) == preferred

DefaultEffort(family, preferred) ==
    IF preferred \in Levels(family) THEN preferred
    ELSE DefaultOrder[CHOOSE i \in DOMAIN DefaultOrder :
             /\ DefaultOrder[i] \in Levels(family)
             /\ \A j \in 1 .. i - 1 : DefaultOrder[j] \notin Levels(family)]

(* modelInfos: what the host is told there is, with the levels of each.    *)
Listed(mode) ==
    [model : IF mode \in {"raw", "both"} THEN {m.id : m \in ToSet(models)} ELSE {},
     levels : {{}}]
    \cup
    {[model |-> family, levels |-> Levels(family)] :
        family \in IF mode \in {"normalized", "both"}
                   THEN {Base(m.id) : m \in ToSet(models)} ELSE {}}

NoAnswer == [status |-> "none"]

Init ==
    /\ catalog = <<>> /\ models = <<>>
    /\ stage = "reading"
    /\ answer = NoAnswer

-----------------------------------------------------------------------------
(* parameterizedModels: slugs are told apart without case; only a default  *)
(* variant replaces the one that has the slug already.                     *)
Known(id) == {i \in DOMAIN models : Fold(models[i].id) = Fold(id)}

(* Mutated form: the parameters of the variant before. *)
ItemBefore(id) == [id |-> id, selection |-> Len(catalog)]

Item(id) == [id |-> id, selection |-> Len(catalog) + 1]

Read(id, kind) ==
    /\ Len(catalog) < MaxVariants
    /\ catalog' = Append(catalog, [id |-> id, kind |-> kind])
    /\ UNCHANGED <<stage, answer>>

SkipVariant(id) == Read(id, "skipped") /\ UNCHANGED models

AddVariant(id, kind) ==
    /\ kind # "skipped" /\ Known(id) = {}
    /\ Read(id, kind)
    /\ models' = Append(models, Item(id))

ReplaceVariant(id) ==
    /\ Known(id) # {}
    /\ Read(id, "default")
    /\ models' = [i \in DOMAIN models |-> IF i \in Known(id) THEN Item(id) ELSE models[i]]

(* Mutated form: the last variant of a slug stays. *)
RepeatReplaces(id) ==
    /\ Known(id) # {}
    /\ Read(id, "plain")
    /\ models' = [i \in DOMAIN models |-> IF i \in Known(id) THEN Item(id) ELSE models[i]]

RepeatVariant(id) ==
    /\ Known(id) # {}
    /\ Read(id, "plain")
    /\ UNCHANGED models

ReadVariant(id) ==
    \/ SkipVariant(id)
    \/ \E kind \in VariantKinds : AddVariant(id, kind)
    \/ ReplaceVariant(id)
    \/ RepeatVariant(id)

(* discoverModels sorts by the lower-case ID; Cursor's answer is dropped.  *)
Precedes(a, b) ==
    LET x == Fold(a.id)
        y == Fold(b.id)
    IN \/ IsStrictPrefix(x, y)
       \/ \E i \in DOMAIN x \cap DOMAIN y :
              /\ \A j \in 1 .. i - 1 : x[j] = y[j]
              /\ Rank[x[i]] < Rank[y[i]]

Sort ==
    /\ stage = "reading" /\ models # <<>>
    /\ \E order \in Bijection(DOMAIN models, DOMAIN models) :
          models' = [i \in DOMAIN models |-> models[order[i]]]
    /\ \A i, j \in DOMAIN models : i < j => ~ Precedes(models'[j], models'[i])
    /\ stage' = "ready" /\ catalog' = <<>>
    /\ UNCHANGED answer

-----------------------------------------------------------------------------
Requests == [id : Requested, effort : Efforts \cup {NoEffort}, mode : ModelModes, preferred : Preferred]

Answer(r, status, m) ==
    /\ stage' = "answered"
    /\ answer' = [request |-> r, status |-> status, served |-> m]
    /\ UNCHANGED <<catalog, models>>

NoModel == [id |-> <<>>, selection |-> 0]

(* resolveModel: a model of that name, whatever effort is asked for, but   *)
(* not a suffixed one in normalized mode.                                  *)
ResolveExact(r) == \E i \in Known(r.id) :
    /\ ~ (r.mode = "normalized" /\ Suffixed(models[i].id))
    /\ Answer(r, "served", models[i])

RefuseRaw(r) == \E i \in Known(r.id) :
    /\ r.mode = "normalized" /\ Suffixed(models[i].id)
    /\ Answer(r, "raw_effort_model_disabled", NoModel)

(* Otherwise the family's variant with the effort asked for, or with the   *)
(* default one.                                                            *)
EffortOf(r) == IF r.effort = NoEffort THEN DefaultEffort(r.id, r.preferred) ELSE r.effort

(* Mutated form: any variant of the family will do. *)
ResolveAnyVariant(r) ==
    /\ Known(r.id) = {} /\ Levels(r.id) # {}
    /\ \E level \in Levels(r.id) : Answer(r, "served", Variant(r.id, level))

ResolveFamily(r) ==
    /\ Known(r.id) = {} /\ Levels(r.id) # {}
    /\ EffortOf(r) \in Levels(r.id)
    /\ Answer(r, "served", Variant(r.id, EffortOf(r)))

RefuseEffort(r) ==
    /\ Known(r.id) = {} /\ Levels(r.id) # {}
    /\ EffortOf(r) \notin Levels(r.id)
    /\ Answer(r, "unsupported_reasoning_effort", NoModel)

RefuseUnknown(r) ==
    /\ Known(r.id) = {} /\ Levels(r.id) = {}
    /\ Answer(r, "model_not_found", NoModel)

Resolve(r) ==
    \/ ResolveExact(r) \/ RefuseRaw(r)
    \/ ResolveFamily(r) \/ RefuseEffort(r) \/ RefuseUnknown(r)

Next ==
    \/ stage = "reading" /\ \E id \in IDs : ReadVariant(id)
    \/ Sort
    \/ stage = "ready" /\ \E r \in Requests : Resolve(r)

Spec == Init /\ [][Next]_catalogVars

-----------------------------------------------------------------------------
(* Type invariant. *)
TypeOK ==
    /\ Len(catalog) <= MaxVariants
    /\ \A v \in ToSet(catalog) : v.id \in IDs /\ v.kind \in VariantKinds
    /\ \A m \in ToSet(models) : m.id \in IDs /\ m.selection \in 1 .. MaxVariants
    /\ stage \in {"reading", "ready", "answered"}
    /\ stage = "answered" <=> answer # NoAnswer

Offered(m) == {k \in DOMAIN catalog : catalog[k].kind # "skipped" /\ Fold(catalog[k].id) = Fold(m.id)}

(* README lines 41-42: a slug that several variants share gets the non-max *)
(* default parameter set, when the catalog marks one, whatever the order   *)
(* of the variants; it is one model, and every slug that is offered is one. *)
SlugsKeepTheDefault == stage = "reading" =>
    /\ \A k \in DOMAIN catalog : catalog[k].kind # "skipped" =>
          \E i \in DOMAIN models : Known(catalog[k].id) = {i}
    /\ \A m \in ToSet(models) :
          /\ m.selection \in Offered(m)
          /\ (\E k \in Offered(m) : catalog[k].kind = "default") => catalog[m.selection].kind = "default"

(* A family with levels that has the name of a model of the catalog: the   *)
(* model is found first.                                                   *)
Shadowed(family) == Levels(family) # {} /\ Known(family) # {}

(* What modelInfos lists can be had: a listed model with no effort or with *)
(* one of its levels resolves, unless it is a shadowed family.             *)
ListedModelsAreServed ==
    stage = "answered" =>
        LET r == answer.request
        IN (\E item \in Listed(r.mode) :
               /\ item.model = r.id /\ r.effort \in {NoEffort} \cup item.levels
               /\ ~ (r.mode = "normalized" /\ Shadowed(r.id)))
           => answer.status = "served"

HasEffort(m, family, effort) == Suffixed(m.id) /\ Base(m.id) = family /\ Effort(m.id) = effort

(* What a served request runs on.  A request whose name is a model of the  *)
(* catalog, a family that such a model shadows included, runs on that      *)
(* model, and the effort beside the name is not looked at.  Any other runs *)
(* on the variant of its family with the effort asked for and no other;    *)
(* with none asked for, with the configured one, or with the first of the  *)
(* default order that the family has when the configured one is not among  *)
(* its levels.  In normalized mode no effort is chosen by a model's name.  *)
EffortIsHonoured ==
    stage = "answered" /\ answer.status = "served" =>
        LET r == answer.request
            Has(level) == \E m \in ToSet(models) : HasEffort(m, r.id, level)
            wanted == IF r.effort = NoEffort THEN r.preferred ELSE r.effort
        IN \/ /\ Known(r.id) # {} /\ Fold(answer.served.id) = Fold(r.id)
              /\ r.mode = "normalized" => ~ Suffixed(answer.served.id)
           \/ /\ Known(r.id) = {}
              /\ \/ HasEffort(answer.served, r.id, wanted)
                 \/ /\ r.effort = NoEffort /\ ~ Has(wanted)
                    /\ \E k \in DOMAIN DefaultOrder :
                          /\ HasEffort(answer.served, r.id, DefaultOrder[k])
                          /\ \A j \in 1 .. k - 1 : ~ Has(DefaultOrder[j])

(* README line 40: "Normalized families select the configured reasoning    *)
(* effort": in normalized mode, a listed family asked for with no effort   *)
(* runs on its variant with the configured one.                            *)
NormalizedFamiliesSelectTheEffort ==
    stage = "answered" =>
        LET r == answer.request
        IN r.mode = "normalized" /\ r.effort = NoEffort /\ r.preferred \in Levels(r.id)
           => answer.status = "served" /\ HasEffort(answer.served, r.id, r.preferred)

=============================================================================
