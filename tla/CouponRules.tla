---------------------------- MODULE CouponRules ----------------------------
(***************************************************************************)
(* What CouponService decides without touching the database: whether a     *)
(* coupon may be configured this way, whether it may be used now, and how  *)
(* much it takes off.  A coupon is a record of the columns these rules     *)
(* read; Null stands for NULL.                                             *)
(***************************************************************************)
EXTENDS Integers, Sequences, SequencesExt, FiniteSetsExt

DiscountTypes == {"fixed_amount", "percentage", "free_shipping", "buy_x_get_y"}

Null == -1

\* What the request must satisfy; a column it leaves out, or sets to NULL, is not looked at.
ValidRequest(dto) ==
    /\ \A column \in DOMAIN dto \intersect {"value", "cap", "limit", "perUser", "buy", "get"} :
        dto[column] # Null => dto[column] >= 1
    /\ "min" \in DOMAIN dto => dto.min >= 0

\* ensureDiscountConfig and ensureDateRange.
ValidConfig(c) ==
    /\ c.type = "percentage" => c.value <= 100
    /\ c.type = "fixed_amount" => c.cap = Null
    /\ c.start # Null /\ c.end # Null => c.start <= c.end

-----------------------------------------------------------------------------
Smaller(a, b) == IF a <= b THEN a ELSE b

FixedDiscount(c, subtotal) ==
    IF c.value >= subtotal THEN IF subtotal > 0 THEN subtotal - 1 ELSE 0 ELSE c.value

PercentageDiscount(c, subtotal) ==
    LET raw == (subtotal * c.value) \div 100
        bounded == IF c.cap # Null THEN Smaller(raw, c.cap) ELSE raw IN
    Smaller(bounded, subtotal)

\* filterEligibleItems: without a filter every item counts, otherwise one match is enough.
Eligible(c, item) ==
    \/ c.products = {} /\ c.categories = {} /\ c.brands = {}
    \/ item.product \in c.products
    \/ item.category \in c.categories
    \/ item.brand \in c.brands

EligibleItems(c, items) == SelectSeq(items, LAMBDA item : Eligible(c, item))

\* The unit prices, one per unit.
UnitPrices(items) == FlattenSeq([i \in DOMAIN items |-> [u \in 1 .. items[i].quantity |-> items[i].price]])

FreeUnits(c, units) ==
    IF units < c.buy THEN 0 ELSE Smaller(c.get, (units \div c.buy) * c.get)

\* The caller may leave the items out (<<>>): then nothing is free.
BuyGetDiscount(c, subtotal, items) ==
    IF items = <<>> THEN 0
    ELSE LET prices == SortSeq(UnitPrices(EligibleItems(c, items)), LAMBDA a, b : a < b)
             free == Smaller(FreeUnits(c, Len(prices)), Len(prices)) IN
         Smaller(FoldSeq(LAMBDA p, total : p + total, 0, SubSeq(prices, 1, free)), subtotal)

CalcDiscountAmount(c, subtotal, items) ==
    CASE c.type = "fixed_amount" -> FixedDiscount(c, subtotal)
      [] c.type = "percentage" -> PercentageDiscount(c, subtotal)
      [] c.type = "free_shipping" -> 0
      [] c.type = "buy_x_get_y" -> BuyGetDiscount(c, subtotal, items)

\* validateForMyCart: what is left to pay.  The items are not passed on.
TotalWith(c, subtotal) ==
    LET total == subtotal - CalcDiscountAmount(c, subtotal, <<>>) IN
    IF total > 0 THEN total ELSE 0

\* getBestForCart: at most five usable coupons of the customer's collection, best first.  Those
\* that take off the same are in the order of the collection, which is any.
Suggestions(usable, subtotal) ==
    LET Discount(c) == CalcDiscountAmount(c, subtotal, <<>>)
        sorted == CHOOSE s \in SetToSeqs(usable) :
                    \A i \in 1 .. Len(s) - 1 : Discount(s[i]) >= Discount(s[i + 1]) IN
    SubSeq(sorted, 1, Smaller(5, Len(sorted)))

-----------------------------------------------------------------------------
\* The last check of ensureCouponUsable: some item of the cart matches, if the cart is passed.
CartApplies(c, items) == items = <<>> \/ EligibleItems(c, items) # <<>>

\* The checks of ensureCouponUsable that need only the coupon's row.
Mutable(c, now) == c.start = Null \/ now < c.start

UsableRow(c, subtotal, now) ==
    /\ c.active
    /\ c.start # Null => now >= c.start
    /\ c.end # Null => now <= c.end
    /\ subtotal >= c.min

=============================================================================
