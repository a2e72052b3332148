-------------------------- MODULE ProductStructure --------------------------
(***************************************************************************)
(* Products made of products: compositions, their fixed components and     *)
(* choice groups (catalog/structure.py, routes/product_compositions.py),   *)
(* and the line of a draft that is ordered from them (orders/service.py,   *)
(* commercial/service.py, orders/acceptance.py).                           *)
(*                                                                         *)
(* A structural change locks every Product of the organization and the     *)
(* rows it decides on, so those are current.  activate_composition counts  *)
(* options, and everything a diner's request decides, with plain selects:  *)
(* they answer from the snapshot the request began with.  One diner edits  *)
(* the draft, one request at a time; names, descriptions and display       *)
(* orders are left out.                                                    *)
(***************************************************************************)
EXTENDS Naturals, Sequences, FiniteSets

CONSTANTS Products,
          Groups,            \* identities of choice groups
          Catalogues,        \* what the catalogue may hold at first
          Activations,       \* requests to activate a composition, in flight
          MaxCatalogEdits, MaxSold

VARIABLES catalog,      \* [sale, listed, composition, component, group, option]
          activating,   \* Activation -> its product and snapshot, NoActivation
          line,         \* the item of the diner's draft, NoLine
          browsing,     \* snapshot of the diner's request under way, NoSight
          proposed,     \* the composition part of the preview last shown, NoProposal
          sold,         \* sequence of accepted lines
          catalogEdits

structureVars == <<catalog, activating, line, browsing, proposed, sold, catalogEdits>>
dinerVars == <<line, browsing, proposed, sold>>

NoActivation == [on |-> FALSE]
NoSight == [sale |-> {"none"}]
NoLine == [product |-> "none"]
NoProposal == [product |-> "none"]

\* The rows behind the state; a product's composition has the product's name.
Lifecycle == {"ACTIVE", "INACTIVE"}
ProductComposition == Lifecycle \cup {"NONE"}
ProductComponent == [status : Lifecycle, quantity : 1 .. 2]
ProductChoiceGroup == [owner : Products, min : Nat, max : Nat \ {0}, status : Lifecycle]
ProductChoiceOption == [status : Lifecycle, quantity : 1 .. 2]

\* Children hang on <<owner, product>> and <<group, product>>: the unique keys.
Catalogue(c) ==
    /\ c = [sale |-> c.sale, listed |-> c.listed, composition |-> c.composition,
            component |-> c.component, group |-> c.group, option |-> c.option]
    /\ c.composition \in [Products -> ProductComposition]
    /\ DOMAIN c.component \subseteq Products \X Products
    /\ \A k \in DOMAIN c.component : c.component[k] \in ProductComponent
    /\ DOMAIN c.group \subseteq Groups /\ \A g \in DOMAIN c.group : c.group[g] \in ProductChoiceGroup
    /\ DOMAIN c.option \subseteq Groups \X Products
    /\ \A k \in DOMAIN c.option : c.option[k] \in ProductChoiceOption

EmptyCatalogue == [sale |-> Products, listed |-> Products, composition |-> [p \in Products |-> "NONE"],
                   component |-> <<>>, group |-> <<>>, option |-> <<>>]

StructureInit ==
    /\ catalog \in Catalogues
    /\ activating = [r \in Activations |-> NoActivation]
    /\ line = NoLine /\ browsing = NoSight /\ proposed = NoProposal /\ sold = <<>>
    /\ catalogEdits = 0

(***************************************************************************)
(* Reading a catalogue c.                                                  *)
(***************************************************************************)
IsReferencedChild(c, p) ==
    (\E k \in DOMAIN c.component : k[2] = p) \/ (\E k \in DOMAIN c.option : k[2] = p)

OwnGroups(c, p) == {g \in DOMAIN c.group : c.group[g].owner = p}
ActiveGroups(c, p) == {g \in OwnGroups(c, p) : c.group[g].status = "ACTIVE"}
ActiveComponents(c, p) == {k \in DOMAIN c.component : k[1] = p /\ c.component[k].status = "ACTIVE"}
ActiveOptions(c, g) == {k \in DOMAIN c.option : k[1] = g /\ c.option[k].status = "ACTIVE"}

\* load_composition_graph with active_only: what of p can be served, with the quantities.
CompositionGraph(c, p) ==
    [fixed  |-> {<<k, c.component[k].quantity>> : k \in {x \in ActiveComponents(c, p) : x[2] \in c.sale}},
     groups |-> {<<g, c.group[g].min, c.group[g].max>> : g \in ActiveGroups(c, p)},
     options |-> {<<k, c.option[k].quantity>> :
                    k \in {x \in UNION {ActiveOptions(c, g) : g \in ActiveGroups(c, p)} : x[2] \in c.sale}}]

\* Products nest one level deep.
Flat(c) == \A p \in Products : c.composition[p] # "NONE" => ~IsReferencedChild(c, p)

ASSUME StructureAssumption ==
    /\ IsFiniteSet(Products) /\ IsFiniteSet(Groups) /\ Products \cap Groups = {}
    /\ \A c \in Catalogues : Catalogue(c) /\ Flat(c)

(***************************************************************************)
(* validate_selection: the violations of choosing the options S of p.      *)
(***************************************************************************)
IncompleteCodes == {"REQUIRED_GROUP_MISSING", "TOO_FEW_SELECTIONS"}

ComponentViolations(c, p) ==
    IF \E k \in ActiveComponents(c, p) : k[2] \notin c.sale THEN {"INACTIVE_PRODUCT"} ELSE {}

OptionViolation(c, p, k) ==
    IF k[1] \notin OwnGroups(c, p) THEN "INVALID_GROUP"
    ELSE IF c.group[k[1]].status # "ACTIVE" THEN "INACTIVE_GROUP"
    ELSE IF k \notin DOMAIN c.option THEN "INVALID_OPTION"
    ELSE IF c.option[k].status # "ACTIVE" THEN "INACTIVE_OPTION"
    ELSE IF k[2] \notin c.sale THEN "INACTIVE_PRODUCT"
    ELSE "NONE"

ValidCount(c, p, S, g) == Cardinality({k \in S : k[1] = g /\ OptionViolation(c, p, k) = "NONE"})

CountViolations(c, p, S, g) ==
    LET n == ValidCount(c, p, S, g) IN
    (IF n < c.group[g].min THEN {"TOO_FEW_SELECTIONS"} ELSE {}) \cup
    (IF n > c.group[g].max THEN {"TOO_MANY_SELECTIONS"} ELSE {})

ValidateSelection(c, p, S) ==
    IF c.composition[p] = "NONE" THEN {"COMPOSITION_NOT_FOUND"}
    ELSE IF c.composition[p] # "ACTIVE" THEN {"COMPOSITION_NOT_ACTIVE"}
    ELSE LET picked == {k[1] : k \in S} IN
         ComponentViolations(c, p)
         \cup ({OptionViolation(c, p, k) : k \in S} \ {"NONE"})
         \cup (UNION {CountViolations(c, p, S, g) : g \in picked \cap ActiveGroups(c, p)})
         \cup {"REQUIRED_GROUP_MISSING" : g \in {x \in ActiveGroups(c, p) \ picked : c.group[x].min > 0}}

(***************************************************************************)
(* The manager's commands.                                                 *)
(***************************************************************************)
Edited == catalogEdits < MaxCatalogEdits /\ catalogEdits' = catalogEdits + 1 /\ UNCHANGED <<activating, dinerVars>>

\* A table with one row more.
Inserted(table, k, r) == [x \in DOMAIN table \cup {k} |-> IF x = k THEN r ELSE table[x]]

CreateComposition(p) ==
    /\ Edited
    /\ ~IsReferencedChild(catalog, p) /\ catalog.composition[p] = "NONE"
    /\ catalog' = [catalog EXCEPT !.composition[p] = "INACTIVE"]

ValidateChildProduct(p, child) ==
    /\ p # child
    /\ catalog.composition[child] = "NONE"
    /\ ~IsReferencedChild(catalog, p)

PostComponent(p, child, n) ==
    /\ Edited
    /\ catalog.composition[p] # "NONE" /\ ValidateChildProduct(p, child)
    /\ <<p, child>> \notin DOMAIN catalog.component
    /\ catalog' = [catalog EXCEPT !.component = Inserted(@, <<p, child>>, [status |-> "ACTIVE", quantity |-> n])]

PatchComponent(k, row) ==
    /\ Edited
    /\ k \in DOMAIN catalog.component /\ row # catalog.component[k]
    /\ catalog' = [catalog EXCEPT !.component[k] = row]

PostChoiceGroup(p, g, min, max) ==
    /\ Edited
    /\ catalog.composition[p] # "NONE" /\ g \notin DOMAIN catalog.group /\ min <= max
    /\ catalog' = [catalog EXCEPT !.group =
                     Inserted(@, g, [owner |-> p, min |-> min, max |-> max, status |-> "ACTIVE"])]

PatchChoiceGroup(g, min, max, status) ==
    /\ Edited
    /\ g \in DOMAIN catalog.group /\ min <= max
    /\ catalog' = [catalog EXCEPT !.group[g] = [@ EXCEPT !.min = min, !.max = max, !.status = status]]

PostChoiceOption(g, child, n) ==
    /\ Edited
    /\ g \in DOMAIN catalog.group /\ ValidateChildProduct(catalog.group[g].owner, child)
    /\ <<g, child>> \notin DOMAIN catalog.option
    /\ catalog' = [catalog EXCEPT !.option = Inserted(@, <<g, child>>, [status |-> "ACTIVE", quantity |-> n])]

PatchChoiceOption(k, row) ==
    /\ Edited
    /\ k \in DOMAIN catalog.option /\ row # catalog.option[k]
    /\ catalog' = [catalog EXCEPT !.option[k] = row]

DeactivateComposition(p) ==
    /\ Edited
    /\ catalog.composition[p] = "ACTIVE"
    /\ catalog' = [catalog EXCEPT !.composition[p] = "INACTIVE"]

\* update_product: its status; whether it is on an active menu of the location.
UpdateProduct(p) ==
    /\ Edited
    /\ catalog' = [catalog EXCEPT !.sale = IF p \in @ THEN @ \ {p} ELSE @ \cup {p}]

UpdateMenuItem(p) ==
    /\ Edited
    /\ catalog' = [catalog EXCEPT !.listed = IF p \in @ THEN @ \ {p} ELSE @ \cup {p}]

BeginActivation(r, p) ==
    /\ activating[r] = NoActivation /\ catalog.composition[p] = "INACTIVE"
    /\ activating' = [activating EXCEPT ![r] = [on |-> TRUE, product |-> p, seen |-> catalog]]
    /\ UNCHANGED <<catalog, dinerVars, catalogEdits>>

\* Products and the composition are locked, the rest is that of the snapshot.
Activatable(p, seen) ==
    LET active == ActiveComponents(seen, p) \cup UNION {ActiveOptions(seen, g) : g \in ActiveGroups(seen, p)} IN
    /\ p \in catalog.sale /\ ~IsReferencedChild(catalog, p)
    /\ \A g \in ActiveGroups(seen, p) : Cardinality(ActiveOptions(seen, g)) >= seen.group[g].min
    /\ \A k \in active : k[2] \in catalog.sale /\ seen.composition[k[2]] = "NONE"

ActivateComposition(r) ==
    /\ activating[r].on
    /\ LET p == activating[r].product IN
       catalog' = IF Activatable(p, activating[r].seen)
                  THEN [catalog EXCEPT !.composition[p] = "ACTIVE"] ELSE catalog
    /\ activating' = [activating EXCEPT ![r] = NoActivation]
    /\ UNCHANGED <<dinerVars, catalogEdits>>

(***************************************************************************)
(* The diner's requests.                                                   *)
(***************************************************************************)
IsProductOrderable(c, p) == p \in c.sale \cap c.listed

BeginRequest ==
    /\ browsing = NoSight /\ browsing' = catalog
    /\ UNCHANGED <<catalog, activating, line, proposed, sold, catalogEdits>>

\* A request that is refused, or that dies, leaves nothing.
EndRequest ==
    /\ browsing # NoSight /\ browsing' = NoSight
    /\ UNCHANGED <<catalog, activating, line, proposed, sold, catalogEdits>>

\* The request commits; a changed draft has a new version, so its preview is void.
Committed == browsing' = NoSight /\ proposed' = NoProposal /\ UNCHANGED <<catalog, activating, sold, catalogEdits>>

AddLine(p) ==
    /\ browsing # NoSight /\ line = NoLine
    /\ IsProductOrderable(browsing, p)
    /\ browsing.composition[p] # "INACTIVE"
    /\ browsing.composition[p] = "ACTIVE" => ValidateSelection(browsing, p, {}) \subseteq IncompleteCodes
    /\ line' = [product |-> p, composed |-> browsing.composition[p] = "ACTIVE", chosen |-> {}]
    /\ Committed

RemoveLine == browsing # NoSight /\ line # NoLine /\ line' = NoLine /\ Committed

ReplaceGroupSelections(g, S) ==
    /\ browsing # NoSight /\ line # NoLine /\ line.composed
    /\ g \in ActiveGroups(browsing, line.product)
    /\ \A k \in S : k \in ActiveOptions(browsing, g) /\ k[2] \in browsing.sale
    /\ LET chosen == {k \in line.chosen : k[1] # g} \cup S IN
       /\ ValidateSelection(browsing, line.product, chosen) \subseteq IncompleteCodes
       /\ line' = [line EXCEPT !.chosen = chosen]
    /\ Committed

\* _evaluate_item: the readiness of the line.
EvaluateItem(c) ==
    LET p == line.product
        issues == ValidateSelection(c, p, line.chosen)
    IN  CASE ~IsProductOrderable(c, p) -> "INVALID"
          [] ~line.composed -> IF c.composition[p] = "NONE" THEN "READY" ELSE "INVALID"
          [] c.composition[p] # "ACTIVE" -> "INVALID"
          [] OTHER -> IF ~(issues \subseteq IncompleteCodes) THEN "INVALID"
                      ELSE IF issues # {} THEN "INCOMPLETE" ELSE "READY"

\* The composition part of a preview and of its fingerprint.
CompositionFacts(c) ==
    LET graph == CompositionGraph(c, line.product) IN
    [product |-> line.product,
     groups  |-> IF line.composed THEN graph.groups ELSE {},
     parts   |-> IF line.composed THEN graph.fixed \cup {o \in graph.options : o[1] \in line.chosen} ELSE {}]

PreviewLine ==
    /\ browsing # NoSight /\ line # NoLine
    /\ EvaluateItem(browsing) = "READY"
    /\ proposed' = CompositionFacts(browsing) /\ browsing' = NoSight
    /\ UNCHANGED <<catalog, activating, line, sold, catalogEdits>>

\* Mutant: the fingerprint does not cover the composition.
AnyFacts(facts) == TRUE

SameFacts(facts) == facts = proposed

\* What is kept of the line: its parts, and for the record what the diner was shown,
\* what was chosen and the catalogue it was decided on.
ConfirmLine ==
    /\ browsing # NoSight /\ line # NoLine /\ proposed # NoProposal /\ Len(sold) < MaxSold
    /\ EvaluateItem(browsing) = "READY"
    /\ LET facts == CompositionFacts(browsing) IN
       /\ SameFacts(facts)
       /\ sold' = Append(sold, [product |-> line.product, parts |-> facts.parts, shown |-> proposed.parts,
                                chosen |-> line.chosen, of |-> browsing])
    /\ line' = NoLine /\ proposed' = NoProposal /\ browsing' = NoSight
    /\ UNCHANGED <<catalog, activating, catalogEdits>>

Ranges == {r \in (0 .. 1) \X (1 .. 2) : r[1] <= r[2]}

ManagerNext ==
    \/ \E p \in Products : CreateComposition(p) \/ DeactivateComposition(p) \/ UpdateProduct(p) \/ UpdateMenuItem(p)
    \/ \E p, q \in Products, n \in 1 .. 2 : PostComponent(p, q, n)
    \/ \E p, q \in Products, row \in ProductComponent : PatchComponent(<<p, q>>, row)
    \/ \E g \in Groups, q \in Products, row \in ProductChoiceOption : PatchChoiceOption(<<g, q>>, row)
    \/ \E g \in Groups, q \in Products, n \in 1 .. 2 : PostChoiceOption(g, q, n)
    \/ \E g \in Groups, p \in Products, r \in Ranges : PostChoiceGroup(p, g, r[1], r[2])
    \/ \E g \in Groups, r \in Ranges, s \in Lifecycle : PatchChoiceGroup(g, r[1], r[2], s)
    \/ \E r \in Activations : ActivateComposition(r) \/ \E p \in Products : BeginActivation(r, p)

DinerNext ==
    \/ BeginRequest \/ EndRequest \/ RemoveLine \/ PreviewLine \/ ConfirmLine
    \/ \E p \in Products : AddLine(p)
    \/ \E g \in Groups : \E S \in SUBSET DOMAIN catalog.option : ReplaceGroupSelections(g, S)

StructureNext == ManagerNext \/ DinerNext

(***************************************************************************)
(* Properties.                                                             *)
(***************************************************************************)
\* Whatever managers do at the same time, no product that has a composition is a
\* component or an option of another.
StructureIsFlat == Flat(catalog)

\* An accepted line holds the parts that the diner was shown; it holds exactly the
\* fixed components and the chosen options of one state of the catalogue, in which
\* each active group had between its minimum and its maximum of them, and nothing
\* in it was off sale.  A line without parts is of a product that had no composition.
SoldAsComposed ==
    \A i \in DOMAIN sold :
        LET s == sold[i]
            c == s.of
        IN  /\ s.parts = s.shown
            /\ {s.product} \cup {part[1][2] : part \in s.parts} \subseteq c.sale
            /\ IF c.composition[s.product] = "NONE" THEN s.parts = {}
               ELSE /\ {part[1] : part \in s.parts} = ActiveComponents(c, s.product) \cup s.chosen
                    /\ \A g \in ActiveGroups(c, s.product) :
                          Cardinality({part \in s.parts : part[1][1] = g})
                              \in c.group[g].min .. c.group[g].max
=============================================================================
