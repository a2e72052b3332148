--------------------------- MODULE InventoryHistory ---------------------------
(***************************************************************************)
(* The dated histories that stock evidence is taken from: standard costs   *)
(* and unit conversions of an item, consumption definitions of a product   *)
(* and preparation recipes (inventory/service.py, preparations.py).  A     *)
(* revision is appended under the item's or the product's lock and holds   *)
(* from its effective date; readers ask for the revision as of a date.     *)
(***************************************************************************)
EXTENDS Integers, Sequences, FiniteSets, FiniteSetsExt

CONSTANTS
    MaxTime,       \* bound on dates
    MaxRevisions,  \* bound on the length of a history
    Values         \* costs, factors and recipes, by identity

ASSUME HistoryAssumption == MaxTime \in Nat /\ MaxRevisions \in Nat /\ Values # {}

VARIABLES
    now,          \* the database's clock
    item,         \* InventoryItem.status and its current standard cost
    costs,        \* InventoryCostRevision rows by revision
    conversions,  \* ItemUomConversion rows of one unit by revision
    versions,     \* ProductConsumptionVersion rows by revision
    recipes       \* PreparationRecipeVersion rows by revision

historyVars == <<now, item, costs, conversions, versions, recipes>>

-----------------------------------------------------------------------------
Times   == 0 .. MaxTime
Forever == MaxTime + 1     \* effective_to IS NULL

Revision == [at : Times, value : Values]
Version  == [from : Times, to : 0 .. Forever, active : BOOLEAN, mode : {"DERIVABLE", "NON_DERIVABLE"}]
Recipe   == [from : Times, to : 0 .. Forever, active : BOOLEAN]

HistoryTypeOK ==
    /\ now \in Times
    /\ item \in [active : BOOLEAN, cost : Values]
    /\ costs \in Seq(Revision) /\ conversions \in Seq(Revision)
    /\ versions \in Seq(Version) /\ recipes \in Seq(Recipe)

\* create_inventory_item appends the first cost revision; which cost is of
\* no consequence.
HistoryInit ==
    LET v == CHOOSE x \in Values : TRUE IN
    /\ now = 0
    /\ item = [active |-> TRUE, cost |-> v]
    /\ costs = <<[at |-> 0, value |-> v]>>
    /\ conversions = <<>> /\ versions = <<>> /\ recipes = <<>>

LatestDate(h) == IF h = <<>> THEN 0 ELSE h[Len(h)].at

Tick == now < MaxTime /\ now' = now + 1 /\ UNCHANGED <<item, costs, conversions, versions, recipes>>

-----------------------------------------------------------------------------
\* ORDER BY effective_at DESC, revision DESC LIMIT 1.
AsOf(h, t) ==
    LET S == {i \in DOMAIN h : h[i].at <= t}
    IN  Max({i \in S : \A j \in S : h[j].at <= h[i].at} \cup {0})

\* append_cost_revision: an explicit date before the latest is refused (the
\* history is returned unchanged), an item update is clamped to it.
AppendRevision(h, t, v, clamp) ==
    IF t >= LatestDate(h) THEN Append(h, [at |-> t, value |-> v])
    ELSE IF clamp THEN Append(h, [at |-> LatestDate(h), value |-> v])
    ELSE h

CreateCostRevision(t, v) ==
    /\ Len(costs) < MaxRevisions
    /\ costs' = AppendRevision(costs, t, v, FALSE)
    /\ costs' # costs
    /\ item' = [item EXCEPT !.cost = v]
    /\ UNCHANGED <<now, conversions, versions, recipes>>

UpdateItem(v, active) ==
    /\ Len(costs) < MaxRevisions
    /\ costs' = IF v = item.cost THEN costs ELSE AppendRevision(costs, now, v, TRUE)
    /\ item' = [active |-> active, cost |-> v]
    /\ UNCHANGED <<now, conversions, versions, recipes>>

AppendConversion(t, v) ==
    /\ Len(conversions) < MaxRevisions
    /\ conversions' = AppendRevision(conversions, t, v, FALSE)
    /\ conversions' # conversions
    /\ UNCHANGED <<now, item, costs, versions, recipes>>

-----------------------------------------------------------------------------
\* Mutant: the version before stays open.
CloseNothing(t) == versions

\* The latest version, if open, is closed at the new one's date.
CloseLatest(t) ==
    [i \in DOMAIN versions |->
        IF i = Len(versions) /\ versions[i].to = Forever
        THEN [versions[i] EXCEPT !.to = t] ELSE versions[i]]

\* A DERIVABLE definition lists the item, which must be ACTIVE.
PutConsumptionDefinition(t, active, mode) ==
    /\ Len(versions) < MaxRevisions
    /\ versions # <<>> => t >= versions[Len(versions)].from
    /\ mode = "DERIVABLE" => item.active
    /\ versions' = Append(CloseLatest(t),
                          [from |-> t, to |-> Forever, active |-> active, mode |-> mode])
    /\ UNCHANGED <<now, item, costs, conversions, recipes>>

InForce(t) == {i \in DOMAIN versions : versions[i].from <= t /\ t < versions[i].to}

ResolveConsumptionVersion(t) == Max(InForce(t) \cup {0})

\* A recipe may carry its own end; publishing one does not close the last.
PublishRecipe(t, to, active) ==
    /\ Len(recipes) < MaxRevisions
    /\ item.active /\ to >= t
    /\ recipes # <<>> => t >= recipes[Len(recipes)].from
    /\ recipes' = Append(recipes, [from |-> t, to |-> to, active |-> active])
    /\ UNCHANGED <<now, item, costs, conversions, versions>>

CostNext ==
    \/ Tick
    \/ \E v \in Values : \/ \E t \in Times : CreateCostRevision(t, v) \/ AppendConversion(t, v)
                         \/ \E active \in BOOLEAN : UpdateItem(v, active)

RecipeNext ==
    \/ Tick
    \/ \E active \in BOOLEAN : UpdateItem(item.cost, active)
    \/ \E t \in Times, active \in BOOLEAN :
          \/ \E mode \in {"DERIVABLE", "NON_DERIVABLE"} : PutConsumptionDefinition(t, active, mode)
          \/ \E to \in Times \cup {Forever} : PublishRecipe(t, to, active)

HistorySpec == HistoryInit /\ [][CostNext \/ RecipeNext]_historyVars

-----------------------------------------------------------------------------
(* Properties.                                                             *)

\* An order accepted at any instant finds at most one consumption version, and
\* from the first effective date on it always finds one: the versions divide
\* time without overlap and without a gap.
VersionsDivideTime ==
    /\ HistoryTypeOK
    /\ \A t \in Times :
        /\ Cardinality(InForce(t)) <= 1
        /\ (versions # <<>> /\ versions[1].from <= t) => ResolveConsumptionVersion(t) # 0

\* (Of a step.)  What was in force strictly before the last dated revision is settled: a
\* later revision never changes the cost or the factor of those days, so the
\* evidence of a loss or a count can be recomputed.
SettledHistoryIsFinal ==
    \A t \in Times :
        /\ t < LatestDate(costs) => AsOf(costs', t) = AsOf(costs, t)
        /\ t < LatestDate(conversions) => AsOf(conversions', t) = AsOf(conversions, t)

(***************************************************************************)
(* The inductive invariant.  Cost and conversion histories are dated in    *)
(* order; a version ends before the next begins, the last stays open, and  *)
(* no date since the first is without a version.                           *)
(***************************************************************************)
DatedInOrder(h) == h \in Seq(Revision) /\ \A i, j \in DOMAIN h : i <= j => h[i].at <= h[j].at

Covers(w, t) == \E i \in DOMAIN w : w[i].from <= t /\ t < w[i].to

VersionsChain(w) ==
    /\ w \in Seq(Version)
    /\ \A i, j \in DOMAIN w : i < j => w[i].to <= w[j].from
    /\ \A i \in DOMAIN w : i = Len(w) => w[i].to = Forever
    /\ \A t \in Times : w # <<>> /\ w[1].from <= t => Covers(w, t)

HistoryInv ==
    /\ HistoryTypeOK
    /\ DatedInOrder(costs) /\ costs # <<>> /\ DatedInOrder(conversions)
    /\ VersionsChain(versions)
=============================================================================
