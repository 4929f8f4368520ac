-------------------------- MODULE ModelCatalogProofs ---------------------------
(***************************************************************************)
(* Model families and their resolution, for any slugs, order of words,     *)
(* efforts and length of the catalog: what is made of Cursor's variants,   *)
(* and what a request gets of it.                                          *)
(***************************************************************************)
EXTENDS ModelCatalog, TLAPS, WellFoundedInduction

ModelType   == [id : IDs, selection : 1 .. MaxVariants]
VariantType == [id : IDs, kind : VariantKinds]

(* Every slug that was offered is one model, ... *)
SlugsUnique == \A i, j \in 1 .. Len(models) : Fold(models[i].id) = Fold(models[j].id) => i = j

SlugsKept ==
    \A k \in 1 .. Len(catalog) : catalog[k].kind # "skipped" =>
        \E i \in 1 .. Len(models) : Fold(models[i].id) = Fold(catalog[k].id)

(* ... with the parameters of a variant of that slug, a default one if     *)
(* there is one.                                                           *)
Offers(cat, fold) == {k \in 1 .. Len(cat) : cat[k].kind # "skipped" /\ Fold(cat[k].id) = fold}

KeepsDefault(cat, m) ==
    /\ m.selection \in Offers(cat, Fold(m.id))
    /\ \A k \in Offers(cat, Fold(m.id)) :
          cat[k].kind = "default" => cat[m.selection].kind = "default"

SelectionKept == \A i \in 1 .. Len(models) : KeepsDefault(catalog, models[i])

CatalogInv ==
    /\ models \in Seq(ModelType) /\ catalog \in Seq(VariantType) /\ Len(catalog) <= MaxVariants
    /\ stage \in {"reading", "ready", "answered"}
    /\ stage = "answered" <=> answer # NoAnswer
    /\ stage = "reading" => SlugsUnique /\ SlugsKept /\ SelectionKept

-----------------------------------------------------------------------------
(* The largest element of a set of positions. *)
LEMMA LeastNumber ==
    ASSUME NEW T \in SUBSET Nat, T # {}
    PROVE  \E m \in T : \A n \in T : m <= n
<1> DEFINE R == OpToRel(<, Nat)
<1>1. IsWellFoundedOn(R, Nat)
  BY NatLessThanWellFounded
<1>2. \A x, y \in Nat : x < y => <<x, y>> \in R
  BY DEF OpToRel
<1> HIDE DEF R
<1>3. PICK m \in T : \A n \in T : ~ (<<n, m>> \in R)
  BY <1>1, WFMin
<1>4. ASSUME NEW n \in T
      PROVE  m <= n
  <2>1. m \in Nat /\ n \in Nat
    OBVIOUS
  <2>2. ~ (n < m)
    BY <1>2, <1>3, <2>1
  <2> QED
    BY <2>1, <2>2
<1> QED
  BY <1>4

LEMMA LastPosition ==
    ASSUME NEW n \in Nat, NEW T \in SUBSET (1 .. n), T # {}
    PROVE  \E m \in T : \A i \in T : i <= m
<1> DEFINE U == {n - i : i \in T}
<1>1. U \in SUBSET Nat /\ U # {}
  <2>1. \A i \in T : i \in Int /\ n - i \in Nat
    OBVIOUS
  <2> QED
    BY <2>1
<1>2. PICK u \in U : \A v \in U : u <= v
  BY <1>1, LeastNumber
<1>3. PICK m \in T : u = n - m
  BY <1>2
<1>4. \A i \in T : n - m <= n - i
  BY <1>2, <1>3
<1> QED
  BY <1>3, <1>4

(* splitEffort looks at the lower-case words only. *)
LEMMA SameFold ==
    ASSUME NEW x \in IDs \cup Requested, NEW y \in IDs \cup Requested, Fold(x) = Fold(y)
    PROVE  Suffixed(x) <=> Suffixed(y)
<1>1. x \in Seq(DOMAIN Lower) /\ y \in Seq(DOMAIN Lower)
  BY ModelCatalogAssumption
<1>2. DOMAIN x = DOMAIN Fold(x) /\ DOMAIN y = DOMAIN Fold(y)
  BY DEF Fold
<1>3. DOMAIN x = DOMAIN y /\ Len(x) = Len(y)
  BY <1>1, <1>2
<1> QED
  BY <1>3 DEF Suffixed, EffortAt

LEMMA CatalogInit == Init => CatalogInv
<1> SUFFICES ASSUME Init PROVE CatalogInv
  OBVIOUS
<1>1. models = <<>> /\ catalog = <<>> /\ Len(<<>>) = 0 /\ stage = "reading" /\ answer = NoAnswer
  BY DEF Init
<1>2. SlugsUnique /\ SlugsKept /\ SelectionKept
  BY <1>1 DEF SlugsUnique, SlugsKept, SelectionKept
<1> QED
  BY <1>1, <1>2, ModelCatalogAssumption DEF CatalogInv

(* One more variant is read. *)
LEMMA CatalogGrows ==
    ASSUME CatalogInv, stage = "reading", NEW id \in IDs, NEW kind \in VariantKinds, Read(id, kind)
    PROVE  /\ catalog' \in Seq(VariantType) /\ Len(catalog') = Len(catalog) + 1
           /\ Len(catalog') <= MaxVariants
           /\ \A k \in 1 .. Len(catalog) : catalog'[k] = catalog[k]
           /\ catalog'[Len(catalog) + 1].id = id /\ catalog'[Len(catalog) + 1].kind = kind
           /\ Len(catalog) \in Nat
           /\ stage' = "reading" /\ answer' = answer
           /\ Item(id) \in ModelType /\ Item(id).id = id /\ Item(id).selection = Len(catalog) + 1
           /\ \A k \in 1 .. Len(catalog') : k \in 1 .. Len(catalog) \/ k = Len(catalog) + 1
<1>1. [id |-> id, kind |-> kind] \in VariantType
  BY DEF VariantType
<1>2. Len(catalog) < MaxVariants /\ catalog' = Append(catalog, [id |-> id, kind |-> kind])
      /\ stage' = "reading" /\ answer' = answer
  BY DEF Read
<1>3. catalog \in Seq(VariantType) /\ Len(catalog) \in Nat /\ MaxVariants \in Nat
  BY ModelCatalogAssumption DEF CatalogInv
<1>4. Item(id) \in ModelType /\ Item(id).id = id /\ Item(id).selection = Len(catalog) + 1
  BY <1>2, <1>3 DEF Item, ModelType
<1> QED
  BY <1>1, <1>2, <1>3, <1>4

(* A model keeps the parameters it has when another variant is read, but   *)
(* for a default variant of its own slug.                                  *)
LEMMA OtherVariant ==
    ASSUME CatalogInv, stage = "reading", NEW id \in IDs, NEW kind \in VariantKinds, Read(id, kind),
           NEW m, KeepsDefault(catalog, m), kind # "default" \/ Fold(id) # Fold(m.id)
    PROVE  KeepsDefault(catalog', m)
<1>1. /\ catalog' \in Seq(VariantType) /\ Len(catalog') = Len(catalog) + 1 /\ Len(catalog) \in Nat
      /\ \A j \in 1 .. Len(catalog) : catalog'[j] = catalog[j]
      /\ catalog'[Len(catalog) + 1].id = id /\ catalog'[Len(catalog) + 1].kind = kind
      /\ \A j \in 1 .. Len(catalog') : j \in 1 .. Len(catalog) \/ j = Len(catalog) + 1
  BY CatalogGrows
<1>2. m.selection \in 1 .. Len(catalog) /\ m.selection \in Offers(catalog', Fold(m.id))
  BY <1>1 DEF KeepsDefault, Offers
<1>3. ASSUME NEW k \in Offers(catalog', Fold(m.id)), catalog'[k].kind = "default"
      PROVE  catalog'[m.selection].kind = "default"
  <2>1. k \in 1 .. Len(catalog)
    BY <1>1, <1>3 DEF Offers
  <2>2. k \in Offers(catalog, Fold(m.id)) /\ catalog[k].kind = "default"
    BY <1>1, <1>3, <2>1 DEF Offers
  <2> QED
    BY <1>1, <1>2, <2>2 DEF KeepsDefault
<1> QED
  BY <1>2, <1>3 DEF KeepsDefault

(* The model made of the variant just read has its parameters.             *)
LEMMA OwnVariant ==
    ASSUME CatalogInv, stage = "reading", NEW id \in IDs, NEW kind \in VariantKinds, Read(id, kind),
           kind = "default" \/ (kind # "skipped" /\ Offers(catalog, Fold(id)) = {})
    PROVE  KeepsDefault(catalog', Item(id))
<1>1. /\ catalog' \in Seq(VariantType) /\ Len(catalog') = Len(catalog) + 1 /\ Len(catalog) \in Nat
      /\ \A j \in 1 .. Len(catalog) : catalog'[j] = catalog[j]
      /\ catalog'[Len(catalog) + 1].id = id /\ catalog'[Len(catalog) + 1].kind = kind
      /\ Item(id).id = id /\ Item(id).selection = Len(catalog) + 1
      /\ \A j \in 1 .. Len(catalog') : j \in 1 .. Len(catalog) \/ j = Len(catalog) + 1
  BY CatalogGrows
<1> DEFINE it == Item(id)
           n  == Len(catalog)
<1>2. it.id = id /\ it.selection = n + 1
  BY <1>1
<1> HIDE DEF it
<1>3. it.selection \in Offers(catalog', Fold(it.id))
  BY <1>1, <1>2 DEF Offers
<1>4. ASSUME NEW k \in Offers(catalog', Fold(it.id)), catalog'[k].kind = "default"
      PROVE  catalog'[it.selection].kind = "default"
  <2>1. CASE kind = "default"
    BY <1>1, <1>2, <2>1
  <2>2. CASE Offers(catalog, Fold(id)) = {}
    <3>1. k \notin 1 .. Len(catalog)
      BY <1>1, <1>2, <1>4, <2>2 DEF Offers
    <3>2. k = n + 1
      BY <1>1, <1>4, <3>1 DEF Offers
    <3> QED
      BY <1>2, <1>4, <3>2
  <2> QED
    BY <2>1, <2>2
<1>5. KeepsDefault(catalog', it)
  BY <1>3, <1>4 DEF KeepsDefault
<1> QED
  BY <1>5 DEF it

LEMMA SkipVariantStep ==
    ASSUME CatalogInv, stage = "reading", NEW id \in IDs, SkipVariant(id)
    PROVE  CatalogInv'
<1>1. Read(id, "skipped") /\ models' = models /\ "skipped" \in VariantKinds
  BY DEF SkipVariant, VariantKinds
<1>2. /\ catalog' \in Seq(VariantType) /\ Len(catalog') <= MaxVariants
      /\ \A k \in 1 .. Len(catalog) : catalog'[k] = catalog[k]
      /\ catalog'[Len(catalog) + 1].kind = "skipped"
      /\ stage' = "reading" /\ answer' = answer
      /\ \A k \in 1 .. Len(catalog') : k \in 1 .. Len(catalog) \/ k = Len(catalog) + 1
  BY <1>1, CatalogGrows
<1>3. SlugsUnique' /\ SlugsKept'
  BY <1>1, <1>2 DEF CatalogInv, SlugsUnique, SlugsKept
<1>4. ASSUME NEW i \in 1 .. Len(models)
      PROVE  KeepsDefault(catalog', models[i])
  BY <1>1, OtherVariant DEF CatalogInv, SelectionKept
<1>5. SelectionKept'
  BY <1>1, <1>4 DEF SelectionKept
<1> QED
  BY <1>1, <1>2, <1>3, <1>5 DEF CatalogInv

LEMMA RepeatVariantStep ==
    ASSUME CatalogInv, stage = "reading", NEW id \in IDs, RepeatVariant(id)
    PROVE  CatalogInv'
<1>1. Read(id, "plain") /\ models' = models /\ Known(id) # {} /\ "plain" \in VariantKinds
  BY DEF RepeatVariant, VariantKinds
<1>2. /\ catalog' \in Seq(VariantType) /\ Len(catalog') <= MaxVariants
      /\ \A k \in 1 .. Len(catalog) : catalog'[k] = catalog[k]
      /\ catalog'[Len(catalog) + 1].id = id
      /\ stage' = "reading" /\ answer' = answer
      /\ \A k \in 1 .. Len(catalog') : k \in 1 .. Len(catalog) \/ k = Len(catalog) + 1
  BY <1>1, CatalogGrows
<1>3. SlugsUnique'
  BY <1>1 DEF CatalogInv, SlugsUnique
<1>4. SlugsKept'
  <2>1. \E i \in 1 .. Len(models) : Fold(models[i].id) = Fold(id)
    BY <1>1 DEF Known, CatalogInv
  <2> QED
    BY <1>1, <1>2, <2>1 DEF CatalogInv, SlugsKept
<1>5. ASSUME NEW i \in 1 .. Len(models)
      PROVE  KeepsDefault(catalog', models[i])
  BY <1>1, OtherVariant DEF CatalogInv, SelectionKept
<1>6. SelectionKept'
  BY <1>1, <1>5 DEF SelectionKept
<1> QED
  BY <1>1, <1>2, <1>3, <1>4, <1>6 DEF CatalogInv

LEMMA AddVariantStep ==
    ASSUME CatalogInv, stage = "reading", NEW id \in IDs, NEW kind \in VariantKinds, AddVariant(id, kind)
    PROVE  CatalogInv'
<1>1. /\ Read(id, kind) /\ kind # "skipped" /\ Known(id) = {}
      /\ models' = Append(models, Item(id))
  BY DEF AddVariant
<1>2. /\ catalog' \in Seq(VariantType) /\ Len(catalog') <= MaxVariants
      /\ \A k \in 1 .. Len(catalog) : catalog'[k] = catalog[k]
      /\ catalog'[Len(catalog) + 1].id = id
      /\ stage' = "reading" /\ answer' = answer
      /\ Item(id) \in ModelType /\ Item(id).id = id
      /\ \A k \in 1 .. Len(catalog') : k \in 1 .. Len(catalog) \/ k = Len(catalog) + 1
  BY <1>1, CatalogGrows
<1> DEFINE n == Len(models)
<1>3. /\ n \in Nat /\ models' \in Seq(ModelType) /\ Len(models') = n + 1
      /\ \A i \in 1 .. n : models'[i] = models[i]
      /\ models'[n + 1] = Item(id)
      /\ \A i \in 1 .. Len(models') : i \in 1 .. n \/ i = n + 1
  BY <1>1, <1>2 DEF CatalogInv
<1>4. \A i \in 1 .. n : Fold(models[i].id) # Fold(id)
  BY <1>1 DEF Known, CatalogInv
<1> HIDE DEF n
<1>5. SlugsUnique'
  BY <1>2, <1>3, <1>4 DEF CatalogInv, SlugsUnique, n
<1>6. SlugsKept'
  <2>1. ASSUME NEW k \in 1 .. Len(catalog), catalog[k].kind # "skipped"
        PROVE  \E i \in 1 .. Len(models') : Fold(models'[i].id) = Fold(catalog[k].id)
    <3>1. PICK i \in 1 .. n : Fold(models[i].id) = Fold(catalog[k].id)
      BY <2>1 DEF CatalogInv, SlugsKept, n
    <3>2. i \in 1 .. Len(models') /\ models'[i] = models[i]
      BY <1>3
    <3> QED
      BY <3>1, <3>2
  <2>2. n + 1 \in 1 .. Len(models') /\ Fold(models'[n + 1].id) = Fold(id)
    BY <1>2, <1>3
  <2> QED
    BY <1>2, <2>1, <2>2 DEF SlugsKept
<1>7. SelectionKept'
  <2>1. ASSUME NEW i \in 1 .. n
        PROVE  KeepsDefault(catalog', models[i])
    <3>1. KeepsDefault(catalog, models[i]) /\ Fold(id) # Fold(models[i].id)
      BY <1>4 DEF CatalogInv, SelectionKept, n
    <3> QED
      BY <1>1, <3>1, OtherVariant
  <2>2. Offers(catalog, Fold(id)) = {}
    BY <1>4 DEF CatalogInv, SlugsKept, Offers, n
  <2>3. KeepsDefault(catalog', Item(id))
    BY <1>1, <2>2, OwnVariant
  <2> QED
    BY <1>3, <2>1, <2>3 DEF SelectionKept
<1> QED
  BY <1>2, <1>3, <1>5, <1>6, <1>7 DEF CatalogInv

LEMMA ReplaceVariantStep ==
    ASSUME CatalogInv, stage = "reading", NEW id \in IDs, ReplaceVariant(id)
    PROVE  CatalogInv'
<1>1. /\ Read(id, "default") /\ Known(id) # {} /\ "default" \in VariantKinds
      /\ models' = [i \in DOMAIN models |-> IF i \in Known(id) THEN Item(id) ELSE models[i]]
  BY DEF ReplaceVariant, VariantKinds
<1>2. /\ catalog' \in Seq(VariantType) /\ Len(catalog') <= MaxVariants
      /\ \A k \in 1 .. Len(catalog) : catalog'[k] = catalog[k]
      /\ catalog'[Len(catalog) + 1].id = id
      /\ stage' = "reading" /\ answer' = answer
      /\ Item(id) \in ModelType /\ Item(id).id = id
      /\ \A k \in 1 .. Len(catalog') : k \in 1 .. Len(catalog) \/ k = Len(catalog) + 1
  BY <1>1, CatalogGrows
<1>3. DOMAIN models = 1 .. Len(models) /\ Len(models) \in Nat /\ \A i \in 1 .. Len(models) : models[i] \in ModelType
  BY DEF CatalogInv
<1>4. \A i \in 1 .. Len(models) : i \in Known(id) <=> Fold(models[i].id) = Fold(id)
  BY <1>3 DEF Known
<1>5. \A i \in 1 .. Len(models) :
         models'[i] = IF Fold(models[i].id) = Fold(id) THEN Item(id) ELSE models[i]
  BY <1>1, <1>3, <1>4
<1>6. models' \in Seq(ModelType) /\ Len(models') = Len(models)
  <2>1. DOMAIN models' = 1 .. Len(models)
    BY <1>1, <1>3
  <2>2. models' = [i \in 1 .. Len(models) |-> models'[i]]
    BY <1>1, <1>3
  <2>3. \A i \in 1 .. Len(models) : models'[i] \in ModelType
    BY <1>2, <1>3, <1>5
  <2>4. models' \in [1 .. Len(models) -> ModelType]
    BY <2>2, <2>3
  <2> QED
    BY <1>3, <2>4
<1>7. \A i \in 1 .. Len(models) : Fold(models'[i].id) = Fold(models[i].id)
  BY <1>2, <1>5
<1>8. SlugsUnique'
  BY <1>6, <1>7 DEF CatalogInv, SlugsUnique
<1>9. SlugsKept'
  <2>1. \E i \in 1 .. Len(models) : Fold(models[i].id) = Fold(id)
    BY <1>1, <1>3 DEF Known
  <2> QED
    BY <1>2, <1>6, <1>7, <2>1 DEF CatalogInv, SlugsKept
<1>10. SelectionKept'
  <2>1. ASSUME NEW i \in 1 .. Len(models)
        PROVE  KeepsDefault(catalog', models'[i])
    <3>1. CASE Fold(models[i].id) = Fold(id)
      <4>1. KeepsDefault(catalog', Item(id))
        BY <1>1, OwnVariant
      <4> QED
        BY <1>5, <3>1, <4>1
    <3>2. CASE Fold(models[i].id) # Fold(id)
      <4>1. KeepsDefault(catalog, models[i])
        BY DEF CatalogInv, SelectionKept
      <4>2. KeepsDefault(catalog', models[i])
        BY <1>1, <3>2, <4>1, OtherVariant
      <4> QED
        BY <1>5, <3>2, <4>2
    <3> QED
      BY <3>1, <3>2
  <2> QED
    BY <1>6, <2>1 DEF SelectionKept
<1> QED
  BY <1>2, <1>6, <1>8, <1>9, <1>10 DEF CatalogInv

(* The read variants are sorted, and Cursor's answer is let go.            *)
LEMMA SortStep ==
    ASSUME CatalogInv, Sort
    PROVE  CatalogInv' /\ stage' = "ready"
<1>1. PICK order \in Bijection(DOMAIN models, DOMAIN models) : models' = [i \in DOMAIN models |-> models[order[i]]]
  BY DEF Sort
<1>2. DOMAIN models = 1 .. Len(models) /\ Len(models) \in Nat /\ \A i \in 1 .. Len(models) : models[i] \in ModelType
  BY DEF CatalogInv
<1>3. \A i \in 1 .. Len(models) : order[i] \in 1 .. Len(models)
  BY <1>2 DEF Bijection, Injection
<1>4. models' \in [1 .. Len(models) -> ModelType]
  BY <1>1, <1>2, <1>3
<1>5. models' \in Seq(ModelType)
  BY <1>2, <1>4
<1>6. stage = "reading" /\ stage' = "ready" /\ catalog' = <<>> /\ answer' = answer
  BY DEF Sort
<1>7. catalog' \in Seq(VariantType) /\ Len(catalog') = 0 /\ Len(catalog') <= MaxVariants
  BY <1>6, ModelCatalogAssumption
<1> QED
  BY <1>5, <1>6, <1>7 DEF CatalogInv

-----------------------------------------------------------------------------
(* What a request gets.                                                    *)
LEMMA ResolveAnswers ==
    ASSUME NEW r, Resolve(r)
    PROVE  /\ catalog' = catalog /\ models' = models /\ stage' = "answered"
           /\ answer'.request = r /\ answer' # NoAnswer
           /\ \E status, m : answer' = [request |-> r, status |-> status, served |-> m]
<1>1. PICK status, m : Answer(r, status, m)
  BY DEF Resolve, ResolveExact, RefuseRaw, ResolveFamily, RefuseEffort, RefuseUnknown
<1>2. answer' = [request |-> r, status |-> status, served |-> m]
  BY <1>1 DEF Answer
<1>3. "request" \in DOMAIN answer' /\ "request" \notin DOMAIN NoAnswer
  BY <1>2 DEF NoAnswer
<1>4. catalog' = catalog /\ models' = models /\ stage' = "answered"
  BY <1>1 DEF Answer
<1>5. answer' # NoAnswer
  BY <1>3
<1> QED
  BY <1>2, <1>4, <1>5

LEMMA CatalogStep == CatalogInv /\ [Next]_catalogVars => CatalogInv'
<1> SUFFICES ASSUME CatalogInv, [Next]_catalogVars PROVE CatalogInv'
  OBVIOUS
<1>1. ASSUME stage = "reading", NEW id \in IDs, ReadVariant(id)
      PROVE  CatalogInv'
  BY <1>1, SkipVariantStep, AddVariantStep, ReplaceVariantStep, RepeatVariantStep DEF ReadVariant
<1>2. CASE Sort
  BY <1>2, SortStep
<1>3. ASSUME NEW r \in Requests, Resolve(r)
      PROVE  CatalogInv'
  <2>1. catalog' = catalog /\ models' = models /\ stage' = "answered" /\ answer' # NoAnswer
    BY <1>3, ResolveAnswers
  <2> QED
    BY <2>1 DEF CatalogInv
<1>4. CASE UNCHANGED catalogVars
  <2>1. catalog' = catalog /\ models' = models /\ stage' = stage /\ answer' = answer
    BY <1>4 DEF catalogVars
  <2> QED
    BY <2>1 DEF CatalogInv, SlugsUnique, SlugsKept, SelectionKept
<1> QED
  BY <1>1, <1>2, <1>3, <1>4 DEF Next

LEMMA CatalogInvariance == Spec => []CatalogInv
<1> QED
  BY CatalogInit, CatalogStep, PTL DEF Spec

(* A family has the levels of its members, and one variant for each.       *)
LEMMA LevelsAreReasoningLevels ==
    ASSUME NEW family, NEW level \in Levels(family)
    PROVE  level \in reasoningLevels
<1>1. PICK i \in Members(family) : level = Effort(models[i].id)
  BY DEF Levels
<1>2. EffortAt(models[i].id) # {}
  BY <1>1 DEF Members, Suffixed
<1> QED
  BY <1>1, <1>2 DEF Effort, EffortAt

LEMMA VariantHasEffort ==
    ASSUME CatalogInv, NEW family, NEW level \in Levels(family)
    PROVE  Variant(family, level) \in ModelType /\ HasEffort(Variant(family, level), family, level)
<1> DEFINE T == {i \in Members(family) : Effort(models[i].id) = level}
           Latest(i) == /\ Effort(models[i].id) = level
                      /\ \A j \in Members(family) : Effort(models[j].id) = level => j <= i
<1>1. T \in SUBSET (1 .. Len(models)) /\ T # {} /\ Len(models) \in Nat
  BY DEF Levels, Members, CatalogInv
<1>2. PICK m \in T : \A i \in T : i <= m
  BY <1>1, LastPosition
<1>3. m \in Members(family) /\ Latest(m)
  BY <1>2
<1> DEFINE c == CHOOSE i \in Members(family) : Latest(i)
<1>4. c \in Members(family) /\ Latest(c)
  BY <1>3
<1>5. Variant(family, level) = models[c]
  BY DEF Variant
<1>6. c \in 1 .. Len(models) /\ Suffixed(models[c].id) /\ Base(models[c].id) = family
  BY <1>4 DEF Members, CatalogInv
<1> QED
  BY <1>4, <1>5, <1>6 DEF HasEffort, CatalogInv

LEMMA DefaultEffortIsALevel ==
    ASSUME NEW family, Levels(family) # {}, NEW preferred
    PROVE  /\ DefaultEffort(family, preferred) \in Levels(family)
           /\ preferred \notin Levels(family) =>
                 \E k \in DOMAIN DefaultOrder :
                     /\ DefaultEffort(family, preferred) = DefaultOrder[k]
                     /\ \A j \in 1 .. k - 1 : DefaultOrder[j] \notin Levels(family)
<1> DEFINE T == {i \in 1 .. 7 : DefaultOrder[i] \in Levels(family)}
           Earliest(i) == /\ DefaultOrder[i] \in Levels(family)
                       /\ \A j \in 1 .. i - 1 : DefaultOrder[j] \notin Levels(family)
<1>1. DOMAIN DefaultOrder = 1 .. 7
  BY DEF DefaultOrder
<1>2. \A level \in reasoningLevels : \E i \in 1 .. 7 : DefaultOrder[i] = level
  <2>1. /\ DefaultOrder[1] = "high" /\ DefaultOrder[2] = "medium" /\ DefaultOrder[3] = "low"
        /\ DefaultOrder[4] = "xhigh" /\ DefaultOrder[5] = "max" /\ DefaultOrder[6] = "minimal"
        /\ DefaultOrder[7] = "none"
    BY DEF DefaultOrder
  <2> QED
    BY <2>1 DEF reasoningLevels
<1>3. T \in SUBSET Nat /\ T # {}
  BY <1>2, LevelsAreReasoningLevels
<1>4. PICK m \in T : \A i \in T : m <= i
  BY <1>3, LeastNumber
<1>5. m \in DOMAIN DefaultOrder /\ Earliest(m)
  BY <1>1, <1>4
<1> DEFINE c == CHOOSE i \in DOMAIN DefaultOrder : Earliest(i)
<1>6. c \in DOMAIN DefaultOrder /\ Earliest(c)
  BY <1>5
<1> QED
  BY <1>6 DEF DefaultEffort

-----------------------------------------------------------------------------
(* The answer to a request is settled by the step that resolves it: the    *)
(* models it is judged by do not move any more.                            *)
LEMMA HonouredStep ==
    ASSUME CatalogInv, EffortIsHonoured, [Next]_catalogVars
    PROVE  EffortIsHonoured'
<1>1. ASSUME NEW r \in Requests, Resolve(r)
      PROVE  EffortIsHonoured'
  <2>1. models' = models /\ answer'.request = r
    BY <1>1, ResolveAnswers
  <2>2. CASE ResolveExact(r)
    <3>1. PICK i \in Known(r.id) : /\ ~ (r.mode = "normalized" /\ Suffixed(models[i].id))
                                  /\ Answer(r, "served", models[i])
      BY <2>2 DEF ResolveExact
    <3>2. Fold(answer'.served.id) = Fold(r.id) /\ Known(r.id)' # {}
      BY <2>1, <3>1 DEF Answer, Known
    <3>3. r.mode = "normalized" => ~ Suffixed(answer'.served.id)
      BY <3>1 DEF Answer
    <3> QED
      BY <2>1, <3>2, <3>3 DEF EffortIsHonoured
  <2>3. CASE ResolveFamily(r)
    <3> DEFINE wanted == IF r.effort = NoEffort THEN r.preferred ELSE r.effort
    <3>1. /\ EffortOf(r) \in Levels(r.id) /\ answer'.served = Variant(r.id, EffortOf(r))
          /\ Known(r.id)' = {} /\ Levels(r.id) # {}
      BY <2>1, <2>3 DEF ResolveFamily, Answer, Known
    <3>2. HasEffort(answer'.served, r.id, EffortOf(r))
      BY <3>1, VariantHasEffort
    <3>3. ASSUME NEW level, level \notin Levels(r.id)
          PROVE  \A m \in ToSet(models) : ~ HasEffort(m, r.id, level)
      BY <3>3 DEF HasEffort, Levels, Members, ToSet
    <3>4. CASE wanted \in Levels(r.id)
      <4>1. EffortOf(r) = wanted
        BY <3>4 DEF EffortOf, DefaultEffort
      <4> QED
        BY <2>1, <3>1, <3>2, <4>1 DEF EffortIsHonoured
    <3>5. CASE wanted \notin Levels(r.id)
      <4>1. r.effort = NoEffort /\ EffortOf(r) = DefaultEffort(r.id, r.preferred)
        BY <3>1, <3>5 DEF EffortOf
      <4>2. PICK k \in DOMAIN DefaultOrder :
                /\ EffortOf(r) = DefaultOrder[k]
                /\ \A j \in 1 .. k - 1 : DefaultOrder[j] \notin Levels(r.id)
        BY <3>1, <3>5, <4>1, DefaultEffortIsALevel
      <4>3. \A m \in ToSet(models) : ~ HasEffort(m, r.id, wanted)
        BY <3>3, <3>5
      <4>4. \A j \in 1 .. k - 1 : \A m \in ToSet(models) : ~ HasEffort(m, r.id, DefaultOrder[j])
        BY <3>3, <4>2
      <4> QED
        BY <2>1, <3>1, <3>2, <4>1, <4>2, <4>3, <4>4 DEF EffortIsHonoured, HasEffort
    <3> QED
      BY <3>4, <3>5
  <2>4. CASE RefuseRaw(r) \/ RefuseEffort(r) \/ RefuseUnknown(r)
    <3>1. answer'.status # "served"
      BY <2>4 DEF RefuseRaw, RefuseEffort, RefuseUnknown, Answer
    <3> QED
      BY <3>1 DEF EffortIsHonoured
  <2> QED
    BY <1>1, <2>2, <2>3, <2>4 DEF Resolve
<1>2. ASSUME stage' # "answered"
      PROVE  EffortIsHonoured'
  BY <1>2 DEF EffortIsHonoured
<1>3. CASE UNCHANGED catalogVars
  <2>1. models' = models /\ stage' = stage /\ answer' = answer
    BY <1>3 DEF catalogVars
  <2> QED
    BY <2>1 DEF EffortIsHonoured, HasEffort, Known
<1>4. ASSUME stage = "reading", NEW id \in IDs, ReadVariant(id)
      PROVE  stage' # "answered"
  BY <1>4 DEF ReadVariant, SkipVariant, AddVariant, ReplaceVariant, RepeatVariant, Read
<1>5. CASE Sort
  BY <1>2, <1>5, SortStep
<1> QED
  BY <1>1, <1>2, <1>3, <1>4, <1>5 DEF Next

(* A listed model is a model by its own name, or a family with the levels  *)
(* of its members.                                                         *)
LEMMA ListedModel ==
    ASSUME CatalogInv, NEW mode \in ModelModes, NEW item \in Listed(mode)
    PROVE  \E i \in 1 .. Len(models) :
              \/ mode # "normalized" /\ item.model = models[i].id /\ item.levels = {}
              \/ item.model = Base(models[i].id) /\ item.levels = Levels(item.model)
<1>1. CASE mode # "normalized" /\ item \in [model : {m.id : m \in ToSet(models)}, levels : {{}}]
  BY <1>1 DEF ToSet, CatalogInv
<1>2. CASE item \in {[model |-> family, levels |-> Levels(family)] : family \in {Base(m.id) : m \in ToSet(models)}}
  BY <1>2 DEF ToSet, CatalogInv
<1> QED
  BY <1>1, <1>2 DEF Listed, ModelModes

LEMMA ServedStep ==
    ASSUME CatalogInv, ListedModelsAreServed, [Next]_catalogVars
    PROVE  ListedModelsAreServed'
<1>1. ASSUME NEW r \in Requests, Resolve(r), answer'.status # "served",
             NEW item \in Listed(r.mode), item.model = r.id, r.effort \in {NoEffort} \cup item.levels,
             ~ (r.mode = "normalized" /\ Shadowed(r.id))
      PROVE  FALSE
  <2>1. r.mode \in ModelModes /\ r.id \in Requested
    BY DEF Requests
  <2>2. PICK i \in 1 .. Len(models) :
              \/ r.mode # "normalized" /\ r.id = models[i].id /\ item.levels = {}
              \/ r.id = Base(models[i].id) /\ item.levels = Levels(r.id)
    BY <1>1, <2>1, ListedModel
  <2>3. models[i] \in ModelType /\ DOMAIN models = 1 .. Len(models)
    BY DEF CatalogInv
  <2>4. r.id = models[i].id => i \in Known(r.id)
    BY <2>3 DEF Known
  <2>5. r.id = Base(models[i].id) /\ Suffixed(models[i].id) => Levels(r.id) # {}
    BY <2>3 DEF Levels, Members
  <2>6. r.id = Base(models[i].id) /\ ~ Suffixed(models[i].id) => r.id = models[i].id
    BY DEF Base
  <2>7. CASE RefuseRaw(r)
    <3>1. PICK k \in Known(r.id) : r.mode = "normalized" /\ Suffixed(models[k].id)
      BY <2>7 DEF RefuseRaw
    <3>2. models[k] \in ModelType /\ Fold(models[k].id) = Fold(r.id)
      BY <3>1 DEF Known, CatalogInv
    <3>3. Levels(r.id) = {}
      BY <1>1, <3>1 DEF Shadowed
    <3>4. r.id = models[i].id /\ ~ Suffixed(models[i].id)
      BY <2>2, <2>5, <2>6, <3>1, <3>3
    <3>5. Suffixed(r.id)
      BY <2>1, <3>1, <3>2, SameFold DEF ModelType
    <3> QED
      BY <3>4, <3>5
  <2>8. CASE RefuseEffort(r)
    <3>1. Levels(r.id) # {} /\ EffortOf(r) \notin Levels(r.id) /\ Known(r.id) = {}
      BY <2>8 DEF RefuseEffort
    <3>2. r.effort # NoEffort
      BY <3>1, DefaultEffortIsALevel DEF EffortOf
    <3> QED
      BY <1>1, <2>2, <2>4, <3>1, <3>2 DEF EffortOf
  <2>9. CASE RefuseUnknown(r)
    BY <2>2, <2>4, <2>5, <2>6, <2>9 DEF RefuseUnknown
  <2>10. CASE ResolveExact(r) \/ ResolveFamily(r)
    BY <1>1, <2>10 DEF ResolveExact, ResolveFamily, Answer
  <2> QED
    BY <1>1, <2>7, <2>8, <2>9, <2>10 DEF Resolve
<1>2. ASSUME NEW r \in Requests, Resolve(r)
      PROVE  ListedModelsAreServed'
  <2>1. models' = models /\ answer'.request = r
    BY <1>2, ResolveAnswers
  <2>2. Listed(r.mode)' = Listed(r.mode) /\ Shadowed(r.id)' = Shadowed(r.id)
    BY <2>1 DEF Listed, Shadowed, Levels, Members, Known
  <2> QED
    BY <1>1, <1>2, <2>1, <2>2 DEF ListedModelsAreServed
<1>3. ASSUME stage' # "answered"
      PROVE  ListedModelsAreServed'
  BY <1>3 DEF ListedModelsAreServed
<1>4. CASE UNCHANGED catalogVars
  <2>1. models' = models /\ stage' = stage /\ answer' = answer
    BY <1>4 DEF catalogVars
  <2> QED
    BY <2>1 DEF ListedModelsAreServed, Listed, Shadowed, Levels, Members, Known
<1>5. ASSUME stage = "reading", NEW id \in IDs, ReadVariant(id)
      PROVE  stage' # "answered"
  BY <1>5 DEF ReadVariant, SkipVariant, AddVariant, ReplaceVariant, RepeatVariant, Read
<1>6. CASE Sort
  BY <1>3, <1>6, SortStep
<1> QED
  BY <1>2, <1>3, <1>4, <1>5, <1>6 DEF Next

-----------------------------------------------------------------------------
(* ModelCatalog.TypeOK: a model is always one of Cursor's slugs with the   *)
(* parameters of a variant that was sent, and nothing is answered twice.   *)
THEOREM CatalogTypeCorrect == Spec => []TypeOK
<1>1. CatalogInv => TypeOK
  <2> SUFFICES ASSUME CatalogInv PROVE TypeOK
    OBVIOUS
  <2>1. ASSUME NEW v \in ToSet(catalog)
        PROVE  v.id \in IDs /\ v.kind \in VariantKinds
    <3>1. v \in VariantType
      BY DEF CatalogInv, ToSet
    <3> QED
      BY <3>1 DEF VariantType
  <2>2. ASSUME NEW m \in ToSet(models)
        PROVE  m.id \in IDs /\ m.selection \in 1 .. MaxVariants
    <3>1. m \in ModelType
      BY DEF CatalogInv, ToSet
    <3> QED
      BY <3>1 DEF ModelType
  <2> QED
    BY <2>1, <2>2 DEF CatalogInv, TypeOK
<1> QED
  BY <1>1, CatalogInvariance, PTL

(* parameterizedModels: however many variants share a slug and in whatever *)
(* order and case they come, the slug is one model with the parameters of  *)
(* one of its variants, the non-max default one's when there is one.       *)
THEOREM SlugsKeepTheirDefault == Spec => []SlugsKeepTheDefault
<1>1. CatalogInv => SlugsKeepTheDefault
  <2> SUFFICES ASSUME CatalogInv, stage = "reading" PROVE SlugsKeepTheDefault
    BY DEF SlugsKeepTheDefault
  <2>1. SlugsUnique /\ SlugsKept /\ SelectionKept /\ DOMAIN models = 1 .. Len(models)
        /\ DOMAIN catalog = 1 .. Len(catalog)
    BY DEF CatalogInv
  <2>2. ASSUME NEW k \in DOMAIN catalog, catalog[k].kind # "skipped"
        PROVE  \E i \in DOMAIN models : Known(catalog[k].id) = {i}
    <3>1. PICK i \in 1 .. Len(models) : Fold(models[i].id) = Fold(catalog[k].id)
      BY <2>1, <2>2 DEF SlugsKept
    <3>2. \A j \in DOMAIN models : Fold(models[j].id) = Fold(catalog[k].id) => j = i
      BY <2>1, <3>1 DEF SlugsUnique
    <3>3. Known(catalog[k].id) = {i}
      BY <2>1, <3>1, <3>2 DEF Known
    <3> QED
      BY <2>1, <3>3
  <2>3. ASSUME NEW m \in ToSet(models)
        PROVE  /\ m.selection \in Offered(m)
               /\ (\E k \in Offered(m) : catalog[k].kind = "default") => catalog[m.selection].kind = "default"
    <3>1. KeepsDefault(catalog, m)
      BY <2>1 DEF SelectionKept, ToSet
    <3>2. Offered(m) = Offers(catalog, Fold(m.id))
      BY <2>1 DEF Offered, Offers
    <3> QED
      BY <3>1, <3>2 DEF KeepsDefault
  <2> QED
    BY <2>2, <2>3 DEF SlugsKeepTheDefault
<1> QED
  BY <1>1, CatalogInvariance, PTL

(* resolveModel: whatever the catalog, a request whose name is a model     *)
(* runs on it, and one that names a family no model hides runs on that     *)
(* family at the effort asked for, or at the default one when none was.    *)
THEOREM EffortAlwaysHonoured == Spec => []EffortIsHonoured
<1>1. Init => EffortIsHonoured
  BY DEF Init, EffortIsHonoured
<1> QED
  BY <1>1, CatalogInvariance, HonouredStep, PTL DEF Spec

(* modelInfos and resolveModel agree: what the host is told there is, a    *)
(* request can have, but for a family shadowed by a model of its name.     *)
THEOREM ListedAlwaysServed == Spec => []ListedModelsAreServed
<1>1. Init => ListedModelsAreServed
  BY DEF Init, ListedModelsAreServed
<1> QED
  BY <1>1, CatalogInvariance, ServedStep, PTL DEF Spec

=============================================================================
