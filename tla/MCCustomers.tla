---------------------------- MODULE MCCustomers ----------------------------
(***************************************************************************)
(* Small instance of Customers, and the pure operators of PcBuild,         *)
(* ProductListing and ShopReports over bounded inputs.                     *)
(***************************************************************************)
EXTENDS Customers, TLC, FiniteSetsExt

Alike == Permutations(Handlers)
TwoOfEach == [p \in Products |-> 2]
Parts ==
    {[id |-> 1, type |-> "cpu", specs |-> [socket |-> "AM5", ram |-> "ddr5"]],
     [id |-> 2, type |-> "cpu", specs |-> [socket |-> "lga", ram |-> None]],
     [id |-> 3, type |-> "main", specs |-> [socket |-> "am5", ram |-> "ddr4"]],
     [id |-> 4, type |-> "main", specs |-> [socket |-> "lga", ram |-> "ddr5"]]}
Lower == [v \in {"AM5", "am5", "lga", "ddr4", "ddr5"} |-> IF v = "AM5" THEN "am5" ELSE v]

Build == INSTANCE PcBuild WITH Catalogue <- Parts, Normal <- Lower

Listing == INSTANCE ProductListing
Reports == INSTANCE ShopReports

\* The suggestions of PcBuild under every one or two rules.
Rules == [id : {1, 2}, source : {"cpu", "main"}, target : {"cpu", "main"},
          sourceKey : {"socket", "ram"}, targetKey : {"socket", "ram"}, strict : BOOLEAN]
ASSUME SuggestionsFit == \A r, s \in Rules : r.id <= s.id => Build!SuggestionsFit({r, s})

\* The pages of ProductListing, for catalogues of three products and every sort, range and page size.
Shelf == [id : 1 .. 3, price : {2, 5, 9}, createdAt : {0}, status : {"active"},
          texts : {{}}, category : {1}, brand : {1}]
Queries == [search : {None}, category : {None}, brand : {None}, status : {None, "active", "hidden"}, minPrice : {None, 5},
            maxPrice : {None, 5}, sortBy : {"price", "createdAt"}, sortOrder : {"ASC", "DESC"},
            page : {None}, limit : {None, 1, 2}]
ASSUME PagesCover == \A query \in Queries, products \in kSubset(3, Shelf) : Listing!PagesCover(query, products)

\* The figures of ShopReports, for every three orders with their rows and every range of days.
Day == {1, 2}
Ranges == [from : {None, 2}, to : {None, 1}]
OrderOf(n, day, status, units) ==
    [orders |-> {[id |-> n, created |-> day, status |-> status]},
     payments |-> {[id |-> n, created |-> day, status |-> IF status = "cancelled" THEN "failed" ELSE "success", amount |-> 3 * n]},
     tickets |-> {[id |-> n, created |-> day, status |-> "pending"]},
     items |-> {[id |-> n, order |-> n, product |-> n % 2, name |-> "n", quantity |-> units, lineTotal |-> 3 * n]},
     products |-> {[id |-> n, status |-> "active"]}]
Rows(a, b, c) == [t \in DOMAIN a |-> a[t] \union b[t] \union c[t]]
Placed(n) == {OrderOf(n, day, status, units) : day \in Day, status \in {"pending", "cancelled"}, units \in {1, 3}}
ASSUME OverviewAgrees ==
    \A a \in Placed(1), b \in Placed(2), c \in Placed(3), range \in Ranges, limit \in 1 .. 2 :
        Reports!OverviewAgrees(Rows(a, b, c), range, limit)

Usages == [id : 1 .. 3, created : Day, coupon : {1, 2}, user : {1}, order : {1, 2}, discount : {0, 5}]
Shipped == [id : 1 .. 3, created : Day, provider : {"ghn", "ghtk"}, status : {"delivered", "failed"}, delivered : {None, 3},
            codStatus : {"pending"}, codAmount : {4}, fee : {3}]
Stocked == [id : 1 .. 3, stock : {0, 5, 6}]
ASSUME StatisticsAgree ==
    \A range \in Ranges :
        /\ \A u, v \in Usages : Reports!StatisticsAgree({u, v}, {}, {}, range)
        /\ \A s, t \in Shipped : Reports!StatisticsAgree({}, {s, t}, {}, range)
        /\ \A products \in kSubset(3, Stocked) : Reports!StatisticsAgree({}, {}, products, range)
=============================================================================
