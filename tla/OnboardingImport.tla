-------------------------- MODULE OnboardingImport --------------------------
(***************************************************************************)
(* Confirming an onboarding workbook.  A request plans every row of its    *)
(* dataset from one snapshot, claims the dataset's fingerprint by          *)
(* inserting an evidence row, and then lets the authority of each row      *)
(* write it in a transaction of its own, in the order of the contract.     *)
(* The first refusal ends the loop; a last transaction records the result. *)
(* The same dataset confirmed again is answered from the evidence and      *)
(* never executed a second time.                                           *)
(***************************************************************************)
EXTENDS OnboardingRows, Sequences, FiniteSetsExt, SequencesExt, TLC

CONSTANTS Imports,     \* confirmation requests
          Workloads,   \* what they may upload: sets of [Imports -> dataset]
          MaxCrashes   \* how many requests may die with the server

(* A supplier's row holds no link; the marks None, DEFAULT and POS are no keys. *)
ASSUME DatasetAssumption ==
    /\ MaxCrashes \in Nat /\ IsFiniteSet(Keys) /\ {None, "DEFAULT", "POS"} \cap Keys = {}
    /\ \A w \in Workloads : w = [i \in Imports |-> w[i]] /\ \A i \in Imports :
          /\ DOMAIN w[i] \subseteq Keys
          /\ \A k \in DOMAIN w[i] : w[i][k] \in Requests /\ (Kind[k] = "suppliers" => w[i][k].ref = None)

VARIABLES data,      \* request -> dataset: business key -> requested row
          evidence,  \* request that claimed a fingerprint -> status of its evidence
          pc,        \* request -> where it is
          plan,      \* request -> the plan of every row
          todo,      \* request -> rows still to write, in order
          seen,      \* request -> the plan its current row was decided on
          outcome,   \* request -> operation reported for each row, or "none"
          held,      \* history: rows that were as requested at some moment of the request
          crashes

importVars == <<data, evidence, pc, plan, todo, seen, outcome, held, crashes>>
vars == <<rowVars, importVars>>

Steps == {"idle", "planned", "next", "begun", "failed", "done", "replayed", "rejected", "crashed"}
Terminal == {"SUCCESS", "PARTIAL", "FAILED"}
DataKeys == UNION {DOMAIN data[i] : i \in Imports}
Fingerprint(i) == CHOOSE j \in Imports : data[j] = data[i]

(* The contract lists the groups so that a group only refers to earlier ones. *)
Contract == <<"resources", "preparation_configuration", "preparation_areas", "categories",
              "products", "menus", "menu_sections", "menu_items", "prices", "warehouses",
              "inventory_items", "uom_conversions", "suppliers", "supplier_offerings",
              "consumption_definitions", "preparation_routes", "tax_rules",
              "product_fiscal_classifications">>
GroupOrder(k) == CHOOSE n \in 1 .. Len(Contract) : Contract[n] = Kind[k]

(* Categories are put parents first; a cycle is left as it stands.           *)
Ready(ks, d) ==
    LET free == {k \in ks : Kind[k] = "categories" => d[k].ref \notin ks}
    IN  IF free = {} THEN ks ELSE free
NextRow(s, d) == CHOOSE k \in s : k \in Ready(s, d) /\ \A j \in Ready(s, d) : GroupOrder(k) <= GroupOrder(j)
DependencyOrderedRows(d) ==
    LET n == Cardinality(DOMAIN d)
        pending[i \in 0 .. n] == IF i = 0 THEN DOMAIN d
                                 ELSE pending[i - 1] \ {NextRow(pending[i - 1], d)}
    IN  [i \in 1 .. n |-> NextRow(pending[i - 1], d)]
-----------------------------------------------------------------------------
(* The analyzer: every reference resolves inside the workbook, and active    *)
(* dated rows of one owner do not overlap.  Cycles of categories pass.       *)
ValidateReferences(d) == \A k \in DOMAIN d : (Links(k, d[k]) \cup {Item[k]}) \ {None} \subseteq DOMAIN d
ValidateDatasetRules(d) ==
    /\ \A j, k \in DOMAIN d :
          (/\ j # k /\ Kind[j] = Kind[k] /\ Owner[j] = Owner[k]
           /\ Kind[k] \in {"tax_rules", "product_fiscal_classifications"}
           /\ d[j].status = "ACTIVE" /\ d[k].status = "ACTIVE")
             => ~Overlap(Spans[j][d[j].val], Spans[k][d[k].val])
    /\ Cardinality({k \in DOMAIN d : Kind[k] = "warehouses" /\ d[k].ref = "DEFAULT"}) <= 1
Valid(d) == ValidateReferences(d) /\ ValidateDatasetRules(d)

PlanRow(k, r, d) ==
    CASE Kind[k] = "resources" -> PlanResource(k, r, DOMAIN d)
      [] Kind[k] = "preparation_configuration" -> PlanConfiguration(k, r, DOMAIN d)
      [] Kind[k] = "preparation_areas" -> PlanArea(k, r, DOMAIN d)
      [] Kind[k] = "categories" -> PlanCategory(k, r, DOMAIN d)
      [] Kind[k] = "products" -> PlanProduct(k, r, DOMAIN d)
      [] Kind[k] = "preparation_routes" -> PlanRoute(k, r, DOMAIN d)
      [] Kind[k] = "menus" -> PlanMenu(k, r, DOMAIN d)
      [] Kind[k] = "menu_sections" -> PlanMenuSection(k, r, DOMAIN d)
      [] Kind[k] = "menu_items" -> PlanMenuItem(k, r, DOMAIN d)
      [] Kind[k] = "prices" -> PlanPrice(k, r, DOMAIN d)
      [] Kind[k] = "warehouses" -> PlanWarehouse(k, r, DOMAIN d)
      [] Kind[k] = "consumption_definitions" -> PlanConsumption(k, r, DOMAIN d)
      [] Kind[k] = "tax_rules" -> PlanTaxRule(k, r, DOMAIN d)
      [] Kind[k] = "product_fiscal_classifications" -> PlanFiscal(k, r, d)
      [] Kind[k] = "uom_conversions" -> PlanConversion(k, r, DOMAIN d)
      [] OTHER -> PlanVersioned(k, r, DOMAIN d)

(* These authorities plan again, unlocked, before they take the lock.        *)
PlansAgain == {"resources", "categories", "products", "preparation_routes", "prices",
               "warehouses", "consumption_definitions", "tax_rules",
               "product_fiscal_classifications"}
ProvisionRow(k, r, p) ==
    CASE Kind[k] = "resources" -> ProvisionResource(k, r, p)
      [] Kind[k] = "preparation_configuration" -> ProvisionConfiguration(k, r)
      [] Kind[k] = "preparation_areas" -> ProvisionArea(k, r)
      [] Kind[k] = "categories" -> ProvisionCategory(k, r)
      [] Kind[k] = "products" -> ProvisionProduct(k, r)
      [] Kind[k] = "preparation_routes" -> ProvisionRoute(k, r)
      [] Kind[k] = "menus" -> ProvisionMenu(k, r)
      [] Kind[k] = "menu_sections" -> ProvisionMenuSection(k, r)
      [] Kind[k] = "menu_items" -> ProvisionMenuItem(k, r)
      [] Kind[k] = "prices" -> ProvisionPrice(k, r, p)
      [] Kind[k] = "warehouses" -> ProvisionWarehouse(k, r, p)
      [] Kind[k] = "consumption_definitions" -> ProvisionConsumption(k, r, p)
      [] Kind[k] = "tax_rules" -> ProvisionTaxRule(k, r, p)
      [] Kind[k] = "product_fiscal_classifications" -> ProvisionFiscal(k, r, p)
      [] Kind[k] = "uom_conversions" -> ProvisionConversion(k, r)
      [] OTHER -> ProvisionVersioned(k, r, p)
-----------------------------------------------------------------------------
NoPlan == [op |-> "none", seen |-> Absent, blocked |-> FALSE]
Init == /\ row = [k \in Keys |-> Absent] /\ hidden = {} /\ site = "ACTIVE" /\ edits = 0
        /\ data \in Workloads /\ evidence = [i \in Imports |-> "none"]
        /\ pc = [i \in Imports |-> "idle"] /\ plan = [i \in Imports |-> <<>>]
        /\ todo = [i \in Imports |-> <<>>] /\ seen = [i \in Imports |-> NoPlan]
        /\ outcome = [i \in Imports |-> <<>>] /\ held = [i \in Imports |-> {}]
        /\ crashes = 0

(* A unit of measure is never rewritten, whatever the plan announced.        *)
Shown(k, s) == IF Kind[k] = "inventory_items" THEN [s EXCEPT !.ref = None] ELSE s
AsRequested(k, s, r) ==
    IF Kind[k] = "uom_conversions" THEN s.val = r.val
    ELSE s # Absent /\ Same(Shown(k, s), Shown(k, r))
Observe == held' = [i \in Imports |-> IF pc'[i] \in {"planned", "next", "begun", "failed"}
                      THEN held[i] \cup {k \in DOMAIN data[i] : AsRequested(k, row'[k], data[i][k])}
                      ELSE held[i]]
Goto(i, step) == pc' = [pc EXCEPT ![i] = step]
Row(i) == Head(todo[i])
Request(i) == data[i][Row(i)]

RejectImport(i) == /\ pc[i] = "idle" /\ ~Valid(data[i]) /\ Goto(i, "rejected")
                   /\ UNCHANGED <<rowVars, data, evidence, plan, todo, seen, outcome, held, crashes>>
BuildImportPlan(i) ==
    /\ pc[i] = "idle" /\ Valid(data[i]) /\ Goto(i, "planned")
    /\ plan' = [plan EXCEPT ![i] = [k \in DOMAIN data[i] |-> PlanRow(k, data[i][k], data[i])]]
    /\ UNCHANGED <<rowVars, data, evidence, todo, seen, outcome, crashes>> /\ Observe
Unclaimed(i) == evidence[Fingerprint(i)] = "none"
ReplayImport(i) ==
    /\ pc[i] = "planned" /\ ~Unclaimed(i) /\ Goto(i, "replayed")
    /\ UNCHANGED <<rowVars, data, evidence, plan, todo, seen, outcome, held, crashes>>
Claim(i, status, step) ==
    /\ pc[i] = "planned" /\ Unclaimed(i) /\ Goto(i, step)
    /\ evidence' = [evidence EXCEPT ![Fingerprint(i)] = status]
    /\ todo' = [todo EXCEPT ![i] = DependencyOrderedRows(data[i])]
    /\ outcome' = [outcome EXCEPT ![i] = [k \in DOMAIN data[i] |-> "none"]]
    /\ UNCHANGED <<rowVars, data, plan, seen, crashes>> /\ Observe
NoBlockers(i) == {}
Blockers(i) == {k \in DOMAIN plan[i] : plan[i][k].blocked}
ClaimImport(i) == Blockers(i) = {} /\ Claim(i, "IN_PROGRESS", "next")
BlockImport(i) == Blockers(i) # {} /\ Claim(i, "FAILED", "done")

Reported(i, op) == /\ outcome' = [outcome EXCEPT ![i][Row(i)] = op]
                   /\ todo' = [todo EXCEPT ![i] = Tail(@)] /\ Goto(i, "next")
(* A row the plan found unchanged is reported so without another look.       *)
SkipRow(i) == /\ pc[i] = "next" /\ todo[i] # <<>> /\ plan[i][Row(i)].op = "UNCHANGED"
              /\ Reported(i, "UNCHANGED")
              /\ UNCHANGED <<rowVars, data, evidence, plan, seen, crashes>> /\ Observe
RowToWrite(i) == pc[i] = "next" /\ todo[i] # <<>> /\ plan[i][Row(i)].op # "UNCHANGED"
BeginRow(i) ==
    LET p == PlanRow(Row(i), Request(i), <<>>) IN
    /\ RowToWrite(i) /\ Kind[Row(i)] \in PlansAgain
    /\ seen' = [seen EXCEPT ![i] = p] /\ Goto(i, IF p.blocked THEN "failed" ELSE "begun")
    /\ UNCHANGED <<rowVars, data, evidence, plan, todo, outcome, crashes>> /\ Observe
UseThePlan(i) ==
    /\ RowToWrite(i) /\ Kind[Row(i)] \notin PlansAgain
    /\ seen' = [seen EXCEPT ![i] = plan[i][Row(i)]] /\ Goto(i, "begun")
    /\ UNCHANGED <<rowVars, data, evidence, plan, todo, outcome, crashes>> /\ Observe
ApplyRow(i) ==
    LET done == ProvisionRow(Row(i), Request(i), seen[i]) IN
    /\ pc[i] = "begun" /\ UNCHANGED <<hidden, site, edits, data, evidence, plan, seen, crashes>>
    /\ IF done.op = "CONFLICT" THEN /\ Goto(i, "failed") /\ UNCHANGED <<row, todo, outcome>>
       ELSE Reported(i, done.op) /\ row' = [row EXCEPT ![Row(i)] = done.new]
    /\ Observe
Wrote(i) == {k \in DOMAIN outcome[i] : outcome[i][k] # "none"}
\* Mutant: an import that wrote anything is a success.
ResultOfWrites(i) == IF Wrote(i) # {} THEN "SUCCESS" ELSE "FAILED"
Result(i) == CASE pc[i] = "next" -> "SUCCESS"
               [] pc[i] = "failed" /\ Wrote(i) # {} -> "PARTIAL"
               [] OTHER -> "FAILED"
\* Mutant: a failed import records no result.
FinishUnlessFailed(i) ==
    /\ pc[i] = "next" /\ todo[i] = <<>>
    /\ evidence' = [evidence EXCEPT ![Fingerprint(i)] = Result(i)] /\ Goto(i, "done")
    /\ UNCHANGED <<rowVars, data, plan, todo, seen, outcome, held, crashes>>
FinishImport(i) ==
    /\ pc[i] = "failed" \/ (pc[i] = "next" /\ todo[i] = <<>>)
    /\ evidence' = [evidence EXCEPT ![Fingerprint(i)] = Result(i)] /\ Goto(i, "done")
    /\ UNCHANGED <<rowVars, data, plan, todo, seen, outcome, held, crashes>>
(* The process dies; the evidence stays IN_PROGRESS and nothing resumes it.  *)
CrashImport(i) ==
    /\ pc[i] \in {"next", "begun", "failed"} /\ crashes < MaxCrashes /\ crashes' = crashes + 1
    /\ Goto(i, "crashed")
    /\ UNCHANGED <<rowVars, data, evidence, plan, todo, seen, outcome, held>>
-----------------------------------------------------------------------------
EditRow ==
    \E k \in DataKeys, v \in 1 .. 2, st \in {"ACTIVE", "INACTIVE"}, ref \in DataKeys \cup {None} :
       \/ CreateResource(k, v) \/ UpdateResource(k, v, st)
       \/ CreateArea(k, v, ref) \/ UpdateArea(k, v, st, ref) \/ ReviseRoute(k, v, ref)
       \/ UpdateCategory(k, v, st, ref) \/ UpdateProduct(k, v, st, ref)
       \/ UpdateMenu(k, v, st = "ACTIVE") \/ UpdateMenuLocation(k, st)
       \/ UpdateMenuSection(k, v, st) \/ CreateMenuItem(k, v, ref) \/ UpdateMenuItem(k, v, st, ref)
       \/ CreatePrice(k, v) \/ UpdatePrice(k, v, st) \/ SynchronizePrice(k, v)
EditThroughApi == /\ EditRow \/ \E st \in {"ACTIVE", "INACTIVE"} : SetLocationStatus(st)
                  /\ UNCHANGED <<data, evidence, pc, plan, todo, seen, outcome, crashes>> /\ Observe
ImportStep(i) == \/ RejectImport(i) \/ BuildImportPlan(i) \/ ReplayImport(i) \/ ClaimImport(i)
                 \/ BlockImport(i) \/ SkipRow(i) \/ BeginRow(i) \/ UseThePlan(i) \/ ApplyRow(i)
                 \/ FinishImport(i)
Next == \/ \E i \in Imports : ImportStep(i) \/ CrashImport(i)
        \/ EditThroughApi
Spec == Init /\ [][Next]_vars /\ \A i \in Imports : WF_vars(ImportStep(i))
-----------------------------------------------------------------------------
(* Type invariant of the rows, the evidence and the requests' progress.      *)
ImportTypeOK ==
    /\ row \in [Keys -> Rows] /\ hidden \subseteq Keys /\ site \in {"ACTIVE", "INACTIVE"}
    /\ evidence \in [Imports -> Terminal \cup {"none", "IN_PROGRESS"}]
    /\ pc \in [Imports -> Steps]
    /\ \A i \in Imports : held[i] \subseteq DOMAIN data[i] /\ Range(todo[i]) \subseteq DOMAIN data[i]

(* A SUCCESS result never lies: every row of the dataset was as the workbook *)
(* asks at some moment of that request, whatever other imports and the API   *)
(* wrote meanwhile (rows reported unchanged from the plan included).         *)
SuccessRowsHeld == \A i \in Imports :
    pc[i] = "done" /\ evidence[Fingerprint(i)] = "SUCCESS" => held[i] = DOMAIN data[i]

(* A location keeps at most one default warehouse, however many imports      *)
(* create one at the same time.                                              *)
OneDefaultWarehouse == Cardinality(Defaults) <= 1

(* Two active tax rules, or two active classifications of one product, never *)
(* apply at the same instant.                                                *)
NoTwoRulesAtOnce ==
    \A j, k \in Keys :
       (/\ j # k /\ Kind[j] = Kind[k] /\ Owner[j] = Owner[k]
        /\ Kind[k] \in {"tax_rules", "product_fiscal_classifications"}
        /\ row[j].status = "ACTIVE" /\ row[k].status = "ACTIVE")
          => ~Overlap(Spans[j][row[j].val], Spans[k][row[k].val])

(* The category tree stays a tree under imports and edits that re-parent.    *)
CategoriesAcyclic == \A k \in Categories : k \notin Ancestors(k)

(* A dataset is executed by at most one request, however often it is sent.   *)
ExecutedOnce ==
    \A i, j \in Imports : i # j /\ data[i] = data[j] => outcome[i] = <<>> \/ outcome[j] = <<>>

(* A valid, active, acyclic workbook confirmed alone on an undisturbed       *)
(* location is imported completely: the contract's order establishes every   *)
(* dependency before it is needed.  (A classification that outlasts the tax  *)
(* rule of its own workbook passes the plan and is refused when written.)    *)
Cyclic(d) == \E j, k \in DOMAIN d : Kind[j] = "categories" /\ d[j].ref = k /\ d[k].ref \in {j, k}
Outlasts(d) == \E k \in DOMAIN d : /\ Kind[k] = "product_fiscal_classifications"
                                   /\ \E t \in Covering(k, d[k], d) :
                                         Spans[k][d[k].val][2] > Spans[t][d[t].val][2]
AloneSucceeds == \A i \in Imports :
    (/\ pc[i] = "done" /\ edits = 0 /\ ~Cyclic(data[i]) /\ ~Outlasts(data[i])
     /\ \A k \in DOMAIN data[i] : data[i][k].status = "ACTIVE"
     /\ \A j \in Imports \ {i} : pc[j] \in {"idle", "planned", "replayed", "rejected"})
        => evidence[Fingerprint(i)] = "SUCCESS"

(* The imported data as a whole: rows, evidence and progress of their types, *)
(* one default warehouse, no two rules at one instant, a tree of categories, *)
(* under any two imports and the API.                                        *)
ImportedDataIsSound ==
    ImportTypeOK /\ OneDefaultWarehouse /\ NoTwoRulesAtOnce /\ CategoriesAcyclic

(* What confirm_import reports is what happened: success is never said of    *)
(* rows that were not there, a dataset runs once, and a valid workbook alone *)
(* succeeds.                                                                 *)
ImportsTellTheTruth == SuccessRowsHeld /\ ExecutedOnce /\ AloneSucceeds

(* No lost update: where the authority plans again or carries the version of *)
(* the plan, a row is overwritten only as it was last observed, or while     *)
(* nothing but equal content separates the two.                              *)
Careful == {"prices", "warehouses", "consumption_definitions", "tax_rules",
            "product_fiscal_classifications", "inventory_items", "suppliers",
            "supplier_offerings"}
NoLostUpdate == [][\A i \in Imports :
    (pc[i] = "begun" /\ pc'[i] = "next" /\ Kind[Row(i)] \in Careful /\ row' # row)
        => row[Row(i)] = seen[i].seen]_vars

(* An import that claimed its fingerprint records a result unless the server *)
(* dies under it.                                                            *)
ClaimedEnds == \A i \in Imports : (pc[i] = "next") ~> (pc[i] \in {"done", "crashed"})

-----------------------------------------------------------------------------
(* The inductive invariant behind them: of the rows, of a plan p of row k    *)
(* for the request r, and of one import.                                     *)
Dated == {"tax_rules", "product_fiscal_classifications"}
Relinked == {"inventory_items", "suppliers", "supplier_offerings"}
Running == {"planned", "next", "begun", "failed"}
Working == {"next", "begun", "failed"}
Claimed == Working \cup {"done", "crashed"}

RowInv ==
    /\ row \in [Keys -> Rows] /\ hidden \subseteq Keys /\ site \in {"ACTIVE", "INACTIVE"}
    /\ \A j, k \in Defaults : j = k
    /\ NoTwoRulesAtOnce /\ CategoriesAcyclic
    /\ \A k \in Categories : row[k].ref \in Categories => row[row[k].ref] # Absent
    /\ \A k \in Keys : Kind[k] \in Versioned /\ row[k].ver = 0 => row[k] = Absent
    /\ \A k \in Keys : Kind[k] = "suppliers" => row[k].ref = None

PlanHolds(rows, k, r, p) ==
    /\ p.op \in {"CREATE", "UPDATE", "UNCHANGED"} /\ p.seen \in Rows
    /\ Kind[k] \in Versioned =>
          p.seen.ver <= rows[k].ver /\ (p.seen.ver = rows[k].ver => rows[k] = p.seen)
    /\ Kind[k] \in Relinked /\ p.op # "CREATE" => rows[k] # Absent /\ rows[k].ref = p.seen.ref
    /\ Kind[k] = "supplier_offerings" /\ p.op # "CREATE" /\ ~p.blocked => p.seen.ref = r.ref

ImportSound(rows, d, result, step, planned, rest, now, held_) ==
    /\ result \in Terminal \cup {"none", "IN_PROGRESS"} /\ step \in Steps
    /\ held_ \subseteq DOMAIN d /\ rest \in Seq(DOMAIN d)
    /\ step \in Claimed => result # "none"
    /\ step \in Running => /\ DOMAIN planned = DOMAIN d
                           /\ \A k \in DOMAIN d : /\ PlanHolds(rows, k, d[k], planned[k])
                                                  /\ planned[k].op = "UNCHANGED" => k \in held_
    /\ step \in Working => /\ DOMAIN d \subseteq held_ \cup Range(rest)
                           /\ \A k \in DOMAIN d : ~planned[k].blocked
    /\ step = "begun" => /\ rest # <<>> /\ PlanHolds(rows, Head(rest), d[Head(rest)], now)
                         /\ now.op = "UNCHANGED" => Head(rest) \in held_
                         /\ Kind[Head(rest)] \notin PlansAgain => now.op # "UNCHANGED" /\ ~now.blocked
    /\ step = "done" /\ result = "SUCCESS" => held_ = DOMAIN d

ImportInv ==
    /\ RowInv /\ data \in Workloads
    /\ evidence \in [Imports -> Terminal \cup {"none", "IN_PROGRESS"}] /\ pc \in [Imports -> Steps]
    /\ DOMAIN plan = Imports /\ DOMAIN todo = Imports /\ DOMAIN seen = Imports
    /\ DOMAIN outcome = Imports /\ DOMAIN held = Imports
    /\ \A i \in Imports : /\ ImportSound(row, data[i], evidence[Fingerprint(i)], pc[i], plan[i], todo[i], seen[i], held[i])
                          /\ outcome[i] # <<>> => pc[i] \in Claimed
    /\ \A i, j \in Imports : pc[i] \in Claimed /\ pc[j] \in Claimed /\ data[i] = data[j] => i = j
=============================================================================
