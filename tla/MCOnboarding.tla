---------------------------- MODULE MCOnboarding ----------------------------
(* Small workloads for the onboarding import: each pairs two workbooks (or   *)
(* one sent twice) over one group of the contract.                           *)
EXTENDS OnboardingImport

MCKeys == {"table", "prep", "bar", "drinks", "hot", "beer", "lager", "menu", "list", "line",
           "price", "cellar", "store", "malt", "sack", "mill", "offer", "recipe",
           "vat", "vat2", "code", "code2"}
MCKind == [k \in MCKeys |->
    CASE k = "table" -> "resources" [] k = "prep" -> "preparation_configuration"
      [] k = "bar" -> "preparation_areas" [] k \in {"drinks", "hot"} -> "categories"
      [] k = "beer" -> "products" [] k = "lager" -> "preparation_routes"
      [] k = "menu" -> "menus" [] k = "list" -> "menu_sections" [] k = "line" -> "menu_items"
      [] k = "price" -> "prices" [] k \in {"cellar", "store"} -> "warehouses"
      [] k = "malt" -> "inventory_items" [] k = "sack" -> "uom_conversions"
      [] k = "mill" -> "suppliers" [] k = "offer" -> "supplier_offerings"
      [] k = "recipe" -> "consumption_definitions" [] k \in {"vat", "vat2"} -> "tax_rules"
      [] OTHER -> "product_fiscal_classifications"]
MCOwner == [k \in MCKeys |->
    CASE k \in {"lager", "price", "recipe", "code", "code2"} -> "beer" [] k = "list" -> "menu"
      [] k = "line" -> "list" [] k = "sack" -> "malt" [] k = "offer" -> "mill" [] OTHER -> "none"]
MCItem == [k \in MCKeys |-> IF k = "offer" THEN "malt" ELSE "none"]
MCSpans == [k \in MCKeys |-> IF k \in {"vat2", "code2"} THEN <<<<2, 4>>, <<1, 4>>>>
                             ELSE <<<<0, 2>>, <<0, 3>>>>]
R(v, st, ref) == [val |-> v, status |-> st, ref |-> ref]
On(v, ref) == R(v, "ACTIVE", ref)
Both(a, b) == [i \in {"i1", "i2"} |-> IF i = "i1" THEN a ELSE b]

Tree == ("drinks" :> On(1, "none")) @@ ("hot" :> On(1, "drinks"))
Turned == ("drinks" :> On(1, "hot")) @@ ("hot" :> On(2, "none"))
Cycle == ("drinks" :> On(1, "hot")) @@ ("hot" :> On(1, "drinks"))
Room(v) == ("table" :> On(v, "none")) @@ ("bar" :> On(v, "table")) @@ ("prep" :> On(v, "none"))
Kitchen(v) == ("bar" :> On(1, "none")) @@ ("beer" :> On(1, "none")) @@ ("lager" :> On(v, "bar"))
Menu(v) == ("menu" :> On(v, "none")) @@ ("list" :> On(v, "menu"))
Lines(v) == Menu(v) @@ ("beer" :> On(1, "none")) @@ ("line" :> On(v, "beer"))
Price(v) == ("beer" :> On(1, "none")) @@ ("price" :> On(v, "none"))
Stock(v, unit) == ("malt" :> On(v, unit)) @@ ("sack" :> On(v, "none"))
Recipe(v) == ("malt" :> On(v, "none")) @@ ("beer" :> On(1, "none")) @@ ("recipe" :> On(v, "malt"))
Supply(v) == ("malt" :> On(1, "none")) @@ ("mill" :> On(v, "none")) @@ ("offer" :> On(v, "none"))
Tax(v, w) == ("vat" :> On(v, "none")) @@ ("beer" :> On(1, "none")) @@ ("code" :> On(w, "none"))
Tax2(v) == ("vat2" :> On(v, "none")) @@ ("beer" :> On(1, "none")) @@ ("code2" :> On(v, "none"))
MCWorkloads ==
    {Both(Tree, Turned), Both(Tree, Cycle), Both(Room(1), Room(2)), Both(Kitchen(1), Kitchen(2)),
     Both(Lines(1), Menu(2)), Both(Price(1), Price(2)),
     Both(Price(1), Price(1)),
     Both("cellar" :> On(1, "DEFAULT"), "store" :> On(1, "DEFAULT")),
     Both("cellar" :> On(1, "DEFAULT"), "cellar" :> On(2, "DEFAULT")),
     Both(Stock(1, "none"), Stock(2, "DEFAULT")), Both(Recipe(1), Recipe(2)),
     Both(Supply(1), Supply(2)),
     Both(Tax(1, 1), Tax2(2)), Both(Tax(1, 1), Tax(2, 2)), Both(Tax2(1), Tax(1, 2)),
     Both("price" :> On(1, "none"), Price(1))}
=============================================================================
