---------------------------- MODULE ShopReports ----------------------------
(***************************************************************************)
(* The figures that administrators are shown: the dashboard's overview and *)
(* the statistics of coupons, shipments, returns, reviews, tickets and     *)
(* stock.  Each is a function of the rows its queries see, sets of records *)
(* with an id: the queries of one report run one after the other or side   *)
(* by side, so what follows is about a moment when no row changes.         *)
(* Amounts are whole, a moment is a number, and a range is open at an end  *)
(* that is None.                                                           *)
(***************************************************************************)
EXTENDS Integers, Sequences, FiniteSets, FiniteSetsExt, SequencesExt

CONSTANT None

InRange(at, range) ==
    /\ range.from # None => at >= range.from
    /\ range.to # None => at <= range.to

RowsIn(rows, range) == {r \in rows : InRange(r.created, range)}
Total(rows, column) == MapThenSumSet(LAMBDA r : r[column], rows)

\* Math.round of a quotient of natural numbers; 0 when there is nothing to divide by.
Rounded(a, b) == IF b > 0 THEN (2 * a + b) \div (2 * b) ELSE 0
Percent(part, whole) == Rounded(100 * part, whole)

\* GROUP BY: the groups that have rows.
CountBy(rows, column) == [k \in {r[column] : r \in rows} |-> Cardinality({r \in rows : r[column] = k})]
CountOf(counts, key) == IF key \in DOMAIN counts THEN counts[key] ELSE 0

-----------------------------------------------------------------------------
(* DashboardService *)
TotalRevenue(payments, range) ==
    Total({p \in RowsIn(payments, range) : p.status = "success"}, "amount")

RevenueByPaymentStatus(payments, range) ==
    LET rows == RowsIn(payments, range) IN
    [s \in {p.status : p \in rows} |-> Total({p \in rows : p.status = s}, "amount")]

OrdersByStatus(orders, range) == CountBy(RowsIn(orders, range), "status")

\* Order items of orders that were not cancelled, by product and name, most sold first; products
\* sold equally often are in any order.
TopProducts(items, orders, range, limit) ==
    LET counted == {o \in RowsIn(orders, range) : o.status # "cancelled"}
        rows == {i \in items : \E o \in counted : o.id = i.order}
        Of(key) == {i \in rows : <<i.product, i.name>> = key}
        figures == {[product |-> key[1], name |-> key[2],
                     totalSold |-> Total(Of(key), "quantity"),
                     revenue |-> Total(Of(key), "lineTotal")] :
                        key \in {<<i.product, i.name>> : i \in rows}}
        sorted == CHOOSE s \in SetToSeqs(figures) :
                    \A i \in 1 .. Len(s) - 1 : s[i].totalSold >= s[i + 1].totalSold
    IN  SubSeq(sorted, 1, IF limit < Len(sorted) THEN limit ELSE Len(sorted))

Overview(tables, range, limit) ==
    [totalRevenue |-> TotalRevenue(tables.payments, range),
     orderCount |-> Cardinality(RowsIn(tables.orders, range)),
     productCount |-> Cardinality({p \in tables.products : p.status = "active"}),
     warrantyCount |-> Cardinality(RowsIn(tables.tickets, range)),
     revenueByStatus |-> RevenueByPaymentStatus(tables.payments, range),
     ordersByStatus |-> OrdersByStatus(tables.orders, range),
     topProducts |-> TopProducts(tables.items, tables.orders, range, limit),
     warrantyByStatus |-> CountBy(RowsIn(tables.tickets, range), "status")]

-----------------------------------------------------------------------------
\* CouponService.getAnalytics, of rows of coupon_usages.
CouponAnalytics(usages, range) ==
    LET rows == RowsIn(usages, range)
        Of(c) == {u \in rows : u.coupon = c}
        Discount(c) == Total(Of(c), "discount") IN
    [c \in {u.coupon : u \in rows} |->
        [totalUsage |-> Cardinality(Of(c)),
         totalDiscount |-> Discount(c),
         uniqueUsers |-> Cardinality({u.user : u \in Of(c)}),
         totalOrders |-> Cardinality({u.order : u \in Of(c)}),
         avgOrderDiscount |-> Rounded(Discount(c), Cardinality(Of(c)))]]

\* ShippingService.getAnalytics, of rows of shipping_orders; days are rounded to tenths.
ShippingAnalytics(shipments, range) ==
    LET rows == RowsIn(shipments, range)
        Of(p) == {s \in rows : s.provider = p}
        Days(s) == IF s.delivered = None THEN 0 ELSE s.delivered - s.created
        Cod(status) == Total({s \in rows : s.codStatus = status}, "codAmount") IN
    [totalOrders |-> Cardinality(rows),
     totalFee |-> Total(rows, "fee"),
     totalCodPending |-> Cod("pending"),
     totalCodCollected |-> Cod("collected"),
     byProvider |-> [p \in {s.provider : s \in rows} |->
        [count |-> Cardinality(Of(p)),
         totalFee |-> Total(Of(p), "fee"),
         avgDeliveryTenths |-> Rounded(10 * MapThenSumSet(Days, Of(p)), Cardinality(Of(p))),
         successRate |-> Percent(Cardinality({s \in Of(p) : s.status = "delivered"}), Cardinality(Of(p)))]]]

\* ReturnService.getAnalytics
ReturnAnalytics(requests, range) ==
    LET rows == RowsIn(requests, range) IN
    [totalRequests |-> Cardinality(rows),
     totalRefundAmount |-> Total(rows, "refund"),
     byReason |-> CountBy(rows, "reason")]

\* WarrantyService.getSummary
WarrantySummary(tickets) ==
    LET counts == CountBy(tickets, "status") IN
    [total |-> Cardinality(tickets),
     pending |-> CountOf(counts, "pending"),
     inProgress |-> MapThenSumSet(LAMBDA s : CountOf(counts, s), {"received", "diagnosing", "repairing", "waiting_parts"}),
     completed |-> CountOf(counts, "completed"),
     returned |-> CountOf(counts, "returned"),
     rejected |-> CountOf(counts, "rejected")]

\* ReviewService.getSummary; the average is rounded to hundredths.
ReviewSummary(reviews) ==
    LET counts == CountBy(reviews, "rating") IN
    [total |-> Cardinality(reviews),
     verified |-> Cardinality({r \in reviews : r.verified}),
     averageHundredths |-> Rounded(100 * Total(reviews, "rating"), Cardinality(reviews)),
     byRating |-> [n \in 1 .. 5 |-> CountOf(counts, n)]]

\* ProductRepository.getInventorySummary, with the threshold of ProductService.
InventorySummary(products, asked) ==
    LET threshold == IF asked > 0 THEN asked ELSE 5
        out == Cardinality({p \in products : p.stock <= 0})
        low == Cardinality({p \in products : p.stock \in 1 .. threshold}) IN
    [totalProducts |-> Cardinality(products), outOfStock |-> out, lowStock |-> low, totalAlerts |-> out + low,
     outOfStockRate |-> Percent(out, Cardinality(products)), lowStockRate |-> Percent(low, Cardinality(products)),
     alertRate |-> Percent(out + low, Cardinality(products)), lowStockThreshold |-> threshold]

-----------------------------------------------------------------------------
Sum(f) == MapThenSumSet(LAMBDA k : f[k], DOMAIN f)

\* The overview agrees with itself: its groups add up to its totals and success is its revenue;
\* no product that is left out sold more than one that is shown, and what is sold was ordered.
OverviewAgrees(tables, range, limit) ==
    LET o == Overview(tables, range, limit)
        all == TopProducts(tables.items, tables.orders, range, Cardinality(tables.items)) IN
    /\ CountOf(o.revenueByStatus, "success") = o.totalRevenue
    /\ Sum(o.ordersByStatus) = o.orderCount
    /\ Sum(o.warrantyByStatus) = o.warrantyCount
    /\ \A i \in DOMAIN o.topProducts, f \in Range(all) \ Range(o.topProducts) :
        f.totalSold <= o.topProducts[i].totalSold
    /\ Sum([i \in DOMAIN all |-> all[i].totalSold])
         = Total({i \in tables.items : \E r \in RowsIn(tables.orders, range) : r.id = i.order /\ r.status # "cancelled"},
                 "quantity")

\* r is a / b to within half a unit.
Rounds(r, a, b) == 2 * (b * r - a) \in -b .. b

\* The statistics of shipments, coupons and stock add up over their groups; every rate is a
\* percentage, and, like the average discount of a coupon, within half a unit of its quotient.
StatisticsAgree(usages, shipments, products, range) ==
    LET coupons == CouponAnalytics(usages, range)
        shipping == ShippingAnalytics(shipments, range)
        Delivered(p) == {s \in RowsIn(shipments, range) : s.provider = p /\ s.status = "delivered"}
        stock == InventorySummary(products, 0) IN
    /\ Sum([c \in DOMAIN coupons |-> coupons[c].totalUsage]) = Cardinality(RowsIn(usages, range))
    /\ \A c \in DOMAIN coupons :
        Rounds(coupons[c].avgOrderDiscount, coupons[c].totalDiscount, coupons[c].totalUsage)
    /\ Sum([p \in DOMAIN shipping.byProvider |-> shipping.byProvider[p].count]) = shipping.totalOrders
    /\ Sum([p \in DOMAIN shipping.byProvider |-> shipping.byProvider[p].totalFee]) = shipping.totalFee
    /\ \A p \in DOMAIN shipping.byProvider :
        /\ shipping.byProvider[p].successRate \in 0 .. 100
        /\ Rounds(shipping.byProvider[p].successRate, 100 * Cardinality(Delivered(p)), shipping.byProvider[p].count)
    /\ stock.alertRate \in 0 .. 100
    /\ Rounds(stock.outOfStockRate, 100 * stock.outOfStock, stock.totalProducts)
    /\ Rounds(stock.lowStockRate, 100 * stock.lowStock, stock.totalProducts)
    /\ Rounds(stock.alertRate, 100 * stock.totalAlerts, stock.totalProducts)
    /\ stock.outOfStockRate + stock.lowStockRate - stock.alertRate \in -1 .. 1
    /\ stock.totalAlerts <= stock.totalProducts
=============================================================================
