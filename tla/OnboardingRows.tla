--------------------------- MODULE OnboardingRows ---------------------------
(***************************************************************************)
(* The configuration rows of one location and the authorities that write   *)
(* them.  A row is known by its business key; the authority of its kind    *)
(* has three faces: plan_x answers CREATE, UPDATE or UNCHANGED from an     *)
(* unlocked read, provision_x decides again under the row lock, and the    *)
(* API's create_x/update_x edit the row directly.  Values are abstract     *)
(* (val); ref is the link a row holds: a parent, resource, area, product or *)
(* item, the default mark of a warehouse, the source of a price, the unit   *)
(* of an item or offering; ver is kept where the table has a version.       *)
(***************************************************************************)
EXTENDS Naturals, FiniteSets

CONSTANTS Keys,      \* business keys of the rows of one location
          Kind,      \* the onboarding group each key belongs to
          Owner,     \* the key a key's identity hangs on, or None
          Item,      \* the inventory item an offering sells, or None
          Spans,     \* a dated key's period under each value: <<from, to>>
          MaxEdits   \* how many API edits a behaviour has

None == "none"
Kinds == {"resources", "preparation_configuration", "preparation_areas", "categories",
          "products", "preparation_routes", "menus", "menu_sections", "menu_items", "prices",
          "warehouses", "consumption_definitions", "tax_rules",
          "product_fiscal_classifications", "inventory_items", "uom_conversions",
          "suppliers", "supplier_offerings"}

ASSUME RowConstants ==
    /\ Kind \in [Keys -> Kinds] /\ Owner \in [Keys -> Keys \cup {None}]
    /\ Item \in [Keys -> Keys \cup {None}]
    /\ MaxEdits \in Nat

VARIABLES row,      \* business key -> its row, or Absent
          hidden,   \* menus whose own status is INACTIVE
          site,     \* status of the location
          edits     \* API edits so far

rowVars == <<row, hidden, site, edits>>

Absent == [val |-> 0, status |-> "ABSENT", ref |-> None, ver |-> 0]
Rows == [val : 0 .. 2, status : {"ABSENT", "ACTIVE", "INACTIVE"},
         ref : Keys \cup {None, "DEFAULT", "POS"}, ver : Nat]
Requests == [val : 1 .. 2, status : {"ACTIVE", "INACTIVE"}, ref : Keys \cup {None, "DEFAULT"}]

There(k) == k # None => row[k] # Absent
Versioned == {"warehouses", "consumption_definitions", "inventory_items", "suppliers",
              "supplier_offerings", "uom_conversions"}
Same(s, r) == s.val = r.val /\ s.status = r.status /\ s.ref = r.ref
RowOf(r) == [val |-> r.val, status |-> r.status, ref |-> r.ref, ver |-> 1]
Amended(k, r) == [RowOf(r) EXCEPT !.ver = IF Kind[k] \in Versioned THEN row[k].ver + 1 ELSE 1]
Operation(k, r) == CASE row[k] = Absent -> "CREATE"
                     [] Same(row[k], r) -> "UNCHANGED"
                     [] OTHER -> "UPDATE"

(* What a plan says: the operation, the state it observed, and whether it    *)
(* is blocked.  links are the rows the request names; one that is missing    *)
(* is tolerated when the same dataset will establish it (pending).           *)
Planned(k, op) == [op |-> op, seen |-> row[k], blocked |-> FALSE]
Refused == [op |-> "CREATE", seen |-> Absent, blocked |-> TRUE]
PlanOf(k, r, links, pending, mustBeActive) ==
    CASE \E d \in links : row[d] = Absent /\ d \notin pending -> Refused
      [] row[k] = Absent /\ mustBeActive /\ r.status # "ACTIVE" -> Refused
      [] row[k] # Absent /\ \E d \in links : row[d] = Absent -> Planned(k, "UPDATE")
      [] OTHER -> Planned(k, Operation(k, r))
Links(k, r) == {Owner[k], r.ref} \cap Keys

(* What a provision does: the operation it reports and the row it leaves.    *)
Left(op, new) == [op |-> op, new |-> new]
Conflict(k) == Left("CONFLICT", row[k])
Converged(k, r) == CASE row[k] = Absent -> Left("CREATE", RowOf(r))
                     [] Same(row[k], r) -> Left("UNCHANGED", row[k])
                     [] OTHER -> Left("UPDATE", Amended(k, r))
(* The optimistic discipline: what changed since the plan is a conflict,     *)
(* unless it already is as requested.                                        *)
\* Mutant: what changed since the plan is not looked at.
GuardedBlindly(k, r, p) == Converged(k, r)
Guarded(k, r, p) ==
    CASE row[k] = p.seen -> Converged(k, r)
      [] row[k] # p.seen /\ row[k] # Absent /\ Same(row[k], r) -> Left("UNCHANGED", row[k])
      [] OTHER -> Conflict(k)
-----------------------------------------------------------------------------
PlanResource(k, r, pending) ==
    IF \/ row[k] = Absent /\ site # "ACTIVE"
       \/ Operation(k, r) = "UPDATE" /\ r.status = "ACTIVE" /\ site # "ACTIVE"
    THEN Refused ELSE PlanOf(k, r, {}, pending, TRUE)
(* A row created meanwhile is a conflict unless equal; a planned one converges. *)
ProvisionResource(k, r, p) ==
    CASE p.seen = Absent /\ row[k] # Absent /\ ~Same(row[k], r) -> Conflict(k)
      [] /\ site # "ACTIVE" /\ r.status = "ACTIVE"
         /\ (p.seen = Absent \/ Operation(k, r) # "UNCHANGED") -> Conflict(k)
      [] OTHER -> Converged(k, r)

PlanConfiguration(k, r, pending) == Planned(k, Operation(k, r))
ProvisionConfiguration(k, r) == Converged(k, r)

PlanArea(k, r, pending) == PlanOf(k, r, Links(k, r), pending, TRUE)
ProvisionArea(k, r) ==
    IF ~There(r.ref) \/ (row[k] = Absent /\ r.status # "ACTIVE") THEN Conflict(k)
    ELSE Converged(k, r)

PlanCategory(k, r, pending) == PlanOf(k, r, Links(k, r), pending, FALSE)
(* set_category_parent walks up from the new parent under the scope lock.    *)
Categories == {k \in Keys : Kind[k] = "categories"}
Parents(rows) == [k \in Categories |-> {rows[k].ref} \cap Categories]
Wider(above) == [k \in Categories |-> above[k] \cup UNION {above[q] : q \in above[k]}]
AncestorsIn(rows) ==
    LET n == Cardinality(Categories)
        above[i \in 0 .. n] == IF i = 0 THEN Parents(rows) ELSE Wider(above[i - 1])
    IN  above[n]
Ancestors(k) == AncestorsIn(row)[k]
ParentAllowed(k, q) == q # None => (q # k /\ k \notin Ancestors(q))
ProvisionCategory(k, r) ==
    CASE ~There(r.ref) -> Conflict(k)
      [] Operation(k, r) = "UPDATE" /\ ~ParentAllowed(k, r.ref) -> Conflict(k)
      [] OTHER -> Converged(k, r)

PlanProduct(k, r, pending) == PlanOf(k, r, Links(k, r), pending, FALSE)
ProvisionProduct(k, r) == IF There(r.ref) THEN Converged(k, r) ELSE Conflict(k)

PlanRoute(k, r, pending) ==
    IF r.ref # None /\ row[r.ref].status = "INACTIVE" THEN Refused
    ELSE PlanOf(k, r, Links(k, r), pending, TRUE)
(* The route in force is retired and a new one appended: one row in force.   *)
(* The area's status is the one of the unlocked read before the lock.        *)
ProvisionRoute(k, r) == Converged(k, r)

PlanMenu(k, r, pending) ==
    IF k \in hidden THEN Refused ELSE PlanOf(k, r, {}, pending, TRUE)
ProvisionMenu(k, r) ==
    IF k \in hidden \/ (row[k] = Absent /\ r.status # "ACTIVE") THEN Conflict(k)
    ELSE Converged(k, r)

PlanMenuSection(k, r, pending) == PlanOf(k, r, Links(k, r), pending, TRUE)
ProvisionMenuSection(k, r) ==
    IF ~There(Owner[k]) \/ (row[k] = Absent /\ r.status # "ACTIVE") THEN Conflict(k)
    ELSE Converged(k, r)

PlanMenuItem(k, r, pending) == PlanOf(k, r, Links(k, r), pending, FALSE)
ProvisionMenuItem(k, r) ==
    IF There(Owner[k]) /\ There(r.ref) THEN Converged(k, r) ELSE Conflict(k)

PlanPrice(k, r, pending) ==
    IF row[k].ref = "POS" THEN Refused ELSE PlanOf(k, r, Links(k, r), pending, TRUE)
ProvisionPrice(k, r, p) ==
    IF row[k].ref = "POS" \/ (row[k] = Absent /\ r.status # "ACTIVE") THEN Conflict(k)
    ELSE Guarded(k, r, p)

Defaults == {k \in Keys : Kind[k] = "warehouses" /\ row[k].ref = "DEFAULT"}
\* Mutant: the other warehouses are not looked at.
NeverTaken(k) == FALSE
DefaultTaken(k) == Defaults \ {k} # {}
PlanWarehouse(k, r, pending) ==
    CASE row[k] = Absent /\ (r.status # "ACTIVE" \/ site # "ACTIVE") -> Refused
      [] row[k] = Absent /\ r.ref = "DEFAULT" /\ Defaults \ {k} # {} -> Refused
      [] row[k] # Absent /\ row[k].ref # r.ref -> Refused
      [] row[k] # Absent /\ r.status = "ACTIVE" /\ site # "ACTIVE" -> Refused
      [] OTHER -> Planned(k, Operation(k, r))
ProvisionWarehouse(k, r, p) ==
    CASE row[k] = Absent /\ (site # "ACTIVE" \/ r.status # "ACTIVE") -> Conflict(k)
      [] row[k] = Absent /\ r.ref = "DEFAULT" /\ DefaultTaken(k) -> Conflict(k)
      [] row[k] # Absent /\ p.seen # Absent /\ row[k].ref # r.ref -> Conflict(k)
      [] OTHER -> Guarded(k, r, p)

PlanConsumption(k, r, pending) ==
    IF row[Owner[k]] # Absent /\ r.ref \in Keys /\ row[r.ref].status = "INACTIVE" THEN Refused
    ELSE PlanOf(k, r, Links(k, r), pending, FALSE)
(* A version conflict is reported UNCHANGED when the winner is as requested. *)
ProvisionConsumption(k, r, p) ==
    CASE p.op = "UNCHANGED" -> Left("UNCHANGED", row[k])
      [] p.op # "UNCHANGED" /\ row[k].ver # p.seen.ver /\ Same(row[k], r) ->
            Left("UNCHANGED", row[k])
      [] p.op # "UNCHANGED" /\ row[k].ver # p.seen.ver /\ ~Same(row[k], r) -> Conflict(k)
      [] /\ p.op # "UNCHANGED" /\ row[k].ver = p.seen.ver
         /\ r.ref \in Keys /\ row[r.ref].status # "ACTIVE" -> Conflict(k)
      [] OTHER -> Left(p.op, Amended(k, r))

(* Two active rows of one dated kind and owner may not share an instant.     *)
Overlap(a, b) == a[1] < b[2] /\ b[1] < a[2]
Clash(k, r) ==
    /\ r.status = "ACTIVE"
    /\ \E j \in Keys \ {k} :
          /\ Kind[j] = Kind[k] /\ Owner[j] = Owner[k] /\ row[j].status = "ACTIVE"
          /\ Overlap(Spans[k][r.val], Spans[j][row[j].val])
PlanTaxRule(k, r, pending) ==
    IF Clash(k, r) THEN Refused ELSE Planned(k, Operation(k, r))
ProvisionTaxRule(k, r, p) ==
    CASE Clash(k, r) -> Conflict(k)
      [] p.seen = Absent /\ row[k] # Absent /\ Same(row[k], r) -> Left("UNCHANGED", row[k])
      [] row[k] # p.seen /\ (p.seen # Absent \/ ~Same(row[k], r)) -> Conflict(k)
      [] OTHER -> Converged(k, r)

(* The rule that applies at the start of the classification must last as     *)
(* long as it does; a rule of the same dataset may still be to come.         *)
Covering(k, r, rules) ==
    {t \in DOMAIN rules : /\ Kind[t] = "tax_rules" /\ rules[t].status = "ACTIVE"
                          /\ Spans[t][rules[t].val][1] <= Spans[k][r.val][1]
                          /\ Spans[k][r.val][1] < Spans[t][rules[t].val][2]}
PlanFiscal(k, r, data) ==
    CASE Covering(k, r, row) = {} /\ Covering(k, r, data) = {} -> Refused
      [] \E t \in Covering(k, r, row) : Spans[k][r.val][2] > Spans[t][row[t].val][2] -> Refused
      [] row[Owner[k]] # Absent /\ Clash(k, r) -> Refused
      [] OTHER -> PlanOf(k, r, Links(k, r), DOMAIN data, FALSE)
(* The rows are decided again under the product's lock; the tax rules are    *)
(* still those of the unlocked read.                                         *)
ProvisionFiscal(k, r, p) ==
    CASE Clash(k, r) -> Conflict(k)
      [] p.seen = Absent /\ row[k] # Absent /\ Same(row[k], r) -> Left("UNCHANGED", row[k])
      [] row[k] # p.seen /\ (p.seen # Absent \/ ~Same(row[k], r)) -> Conflict(k)
      [] OTHER -> Converged(k, r)

(* Items, suppliers and offerings are written with the version the import    *)
(* planned; a new one must be active; a base unit is never overwritten.      *)
PlanVersioned(k, r, pending) ==
    CASE row[k] = Absent /\ r.status # "ACTIVE" -> Refused
      [] Kind[k] = "supplier_offerings" /\ row[k] # Absent /\ row[k].ref # r.ref -> Refused
      [] OTHER -> Planned(k, Operation(k, r))
ProvisionVersioned(k, r, p) ==
    CASE ~There(Owner[k]) \/ ~There(Item[k]) -> Conflict(k)
      [] p.op = "CREATE" /\ row[k] # Absent -> Conflict(k)
      [] p.op # "CREATE" /\ row[k].ver # p.seen.ver -> Conflict(k)
      [] OTHER -> Left(p.op, IF p.op = "CREATE" THEN RowOf(r)
                             ELSE [Amended(k, r) EXCEPT !.ref = row[k].ref])
PlanConversion(k, r, pending) ==
    IF row[k] # Absent /\ row[k].val = r.val THEN Planned(k, "UNCHANGED") ELSE Planned(k, "CREATE")
ProvisionConversion(k, r) ==
    IF There(Owner[k]) THEN Left("CREATE", Amended(k, r)) ELSE Conflict(k)
-----------------------------------------------------------------------------
(* The API's own edits.  A row that carries no business key yet (a product,  *)
(* menu, section or category made through the API) is not one of Keys; the   *)
(* kinds with a natural key are created here too.                            *)
Edit(k, new) == /\ edits < MaxEdits /\ edits' = edits + 1
                /\ row' = [row EXCEPT ![k] = new]
                /\ UNCHANGED <<hidden, site>>
Updated(k, v, st) == [Amended(k, [val |-> v, status |-> st, ref |-> row[k].ref]) EXCEPT
                        !.ref = row[k].ref]
(* What a link of each kind may name, and that it exists.                    *)
Target == [preparation_areas |-> "resources", categories |-> "categories",
           products |-> "categories", preparation_routes |-> "preparation_areas",
           menu_items |-> "products"]
MayLink(k, ref) == ref # None => Kind[ref] = Target[Kind[k]] /\ row[ref] # Absent
CreatedBy(kind, k, v) == Kind[k] = kind /\ row[k] = Absent /\ There(Owner[k])

CreateResource(k, v) == /\ CreatedBy("resources", k, v) /\ site = "ACTIVE"
                        /\ Edit(k, RowOf([val |-> v, status |-> "ACTIVE", ref |-> None]))
UpdateResource(k, v, st) ==
    /\ Kind[k] = "resources" /\ row[k] # Absent /\ (st = "ACTIVE" => site = "ACTIVE")
    /\ Edit(k, Updated(k, v, st))
CreateArea(k, v, ref) == /\ CreatedBy("preparation_areas", k, v) /\ MayLink(k, ref)
                         /\ Edit(k, RowOf([val |-> v, status |-> "ACTIVE", ref |-> ref]))
UpdateArea(k, v, st, ref) ==
    /\ Kind[k] = "preparation_areas" /\ row[k] # Absent /\ MayLink(k, ref)
    /\ Edit(k, [Updated(k, v, st) EXCEPT !.ref = ref])
ReviseRoute(k, v, ref) ==
    /\ Kind[k] = "preparation_routes" /\ There(Owner[k]) /\ MayLink(k, ref)
    /\ ref # None => row[ref].status = "ACTIVE"
    /\ Edit(k, RowOf([val |-> v, status |-> "ACTIVE", ref |-> ref]))
UpdateCategory(k, v, st, q) ==
    /\ Kind[k] = "categories" /\ row[k] # Absent /\ MayLink(k, q) /\ ParentAllowed(k, q)
    /\ Edit(k, [Updated(k, v, st) EXCEPT !.ref = q])
UpdateProduct(k, v, st, q) ==
    /\ Kind[k] = "products" /\ row[k] # Absent /\ MayLink(k, q)
    /\ Edit(k, [Updated(k, v, st) EXCEPT !.ref = q])
UpdateMenu(k, v, shown) ==
    /\ Kind[k] = "menus" /\ row[k] # Absent /\ edits < MaxEdits /\ edits' = edits + 1
    /\ row' = [row EXCEPT ![k].val = v]
    /\ hidden' = IF shown THEN hidden \ {k} ELSE hidden \cup {k}
    /\ UNCHANGED site
UpdateMenuLocation(k, st) == /\ Kind[k] = "menus" /\ row[k] # Absent
                             /\ Edit(k, Updated(k, row[k].val, st))
UpdateMenuSection(k, v, st) == /\ Kind[k] = "menu_sections" /\ row[k] # Absent
                               /\ Edit(k, Updated(k, v, st))
CreateMenuItem(k, v, ref) == /\ CreatedBy("menu_items", k, v) /\ ref \in Keys /\ MayLink(k, ref)
                             /\ Edit(k, RowOf([val |-> v, status |-> "ACTIVE", ref |-> ref]))
UpdateMenuItem(k, v, st, ref) ==
    /\ Kind[k] = "menu_items" /\ row[k] # Absent /\ ref \in Keys /\ MayLink(k, ref)
    /\ Edit(k, [Updated(k, v, st) EXCEPT !.ref = ref])
CreatePrice(k, v) == /\ CreatedBy("prices", k, v)
                     /\ Edit(k, RowOf([val |-> v, status |-> "ACTIVE", ref |-> None]))
UpdatePrice(k, v, st) == /\ Kind[k] = "prices" /\ row[k] # Absent
                         /\ Edit(k, Updated(k, v, st))
(* A price the point of sale synchronises; onboarding never overwrites it.   *)
SynchronizePrice(k, v) ==
    /\ Kind[k] = "prices" /\ row[Owner[k]] # Absent
    /\ (row[k] = Absent \/ row[k].ref = "POS")
    /\ Edit(k, RowOf([val |-> v, status |-> "ACTIVE", ref |-> "POS"]))
SetLocationStatus(st) == /\ edits < MaxEdits /\ edits' = edits + 1 /\ st # site
                         /\ site' = st /\ UNCHANGED <<row, hidden>>
=============================================================================
