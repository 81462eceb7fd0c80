--------------------------- MODULE MCCouponUsage ---------------------------
(***************************************************************************)
(* Small instance of CouponUsage: one coupon, one customer with two carts  *)
(* and another with one, two requests under way.                           *)
(***************************************************************************)
EXTENDS CouponUsage

CONSTANTS c1, o1, o2, o3, u1, u2

Owners == (o1 :> u1) @@ (o2 :> u1) @@ (o3 :> u2)
Subtotals == [o \in Orders |-> 10]

Percentage ==
    [type |-> "percentage", value |-> 50, cap |-> 3, min |-> 0, limit |-> 2, perUser |-> 1,
     first |-> FALSE, start |-> Null, end |-> 0, active |-> TRUE, count |-> 0]

SingleUse == [Percentage EXCEPT !.type = "fixed_amount", !.value = 30, !.cap = Null, !.limit = 1, !.perUser = Null, !.first = TRUE, !.start = 1, !.end = Null]
Alike == Permutations(Handlers) \union Permutations({o1, o2})

SmallConfigs == {Percentage, SingleUse}
SmallPatches == {[limit |-> 1], [active |-> TRUE], [value |-> 120]}

-----------------------------------------------------------------------------
\* BuyGetDiscount against its definition: of the units that are free, the cheapest choice.
SmallItems == [product : {1, 2}, category : {1}, brand : {1}, quantity : 1 .. 2, price : {2, 5}]
BuyGet(products, buy, get) ==
    [type |-> "buy_x_get_y", products |-> products, categories |-> {}, brands |-> {},
     buy |-> buy, get |-> get]
Cost(prices, units) == FoldFunction(+, 0, [u \in units |-> prices[u]])

CheapestUnits(c, items) ==
    LET prices == UnitPrices(EligibleItems(c, items))
        units == DOMAIN prices
        free == Smaller(FreeUnits(c, Len(prices)), Len(prices)) IN
    CHOOSE cost \in {Cost(prices, s) : s \in kSubset(free, units)} :
        \A s \in kSubset(free, units) : cost <= Cost(prices, s)

ASSUME BuyGetIsCheapest ==
    \A products \in {{}, {1}}, buy, get \in 1 .. 2, items \in BoundedSeq(SmallItems, 2) :
        LET c == BuyGet(products, buy, get)
            subtotal == FoldFunction(+, 0, [i \in DOMAIN items |-> items[i].quantity * items[i].price]) IN
        CalcDiscountAmount(c, subtotal, items) = CheapestUnits(c, items)

\* A fixed amount never makes an order free, nothing makes it negative, and no usable coupon
\* that is not suggested leaves less to pay than one that is.
SmallCoupons == [type : {"fixed_amount", "percentage", "free_shipping"}, value : {4, 100}, cap : {Null, 3}]

ASSUME CouponsLeaveATotal ==
    \A c \in SmallCoupons, subtotal \in 1 .. 50 :
        /\ CalcDiscountAmount(c, subtotal, <<>>) \in 0 .. subtotal
        /\ c.type = "fixed_amount" => TotalWith(c, subtotal) > 0

ASSUME BestAreSuggested ==
    \A usable \in kSubset(6, {c \in SmallCoupons : c.type # "fixed_amount" \/ c.cap = Null}), subtotal \in {3, 50} :
        LET suggested == Suggestions(usable, subtotal) IN
        \A i \in DOMAIN suggested, c \in usable \ Range(suggested) :
            TotalWith(suggested[i], subtotal) <= TotalWith(c, subtotal)
=============================================================================
