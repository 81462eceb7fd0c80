---------------------------- MODULE CartCheckout ----------------------------
(***************************************************************************)
(* CartService and the way OrderService.createFromCart uses it, for one    *)
(* customer's cart.  Rows of cart_items are found, and written by id an    *)
(* await later; nothing makes a product's row unique.  A step is what      *)
(* happens between two awaits.  Prices, names and variants are left out;   *)
(* what createFromCart does with coupons and payments is in CouponUsage    *)
(* and OrderPayment.                                                       *)
(*                                                                         *)
(* races is TRUE once two requests about the same product have overlapped, *)
(* where a checkout is about every product.                                *)
(***************************************************************************)
EXTENDS Integers, FiniteSets, Functions

CONSTANTS
    None,
    Products,
    Available,    \* Available[p]: units of p that the inventory shows
    Handlers,     \* requests that may be under way
    MaxRows,      \* bound on the ids of cart_items
    MaxUnits,     \* bound on the units of a product in one request, and on wanted
    MaxDeaths     \* bound on the handlers that die half-way

VARIABLES
    row,       \* row[i]: the row of cart_items with id i, or None
    nextId,
    wanted,    \* wanted[p]: units put into the cart, and neither taken out nor ordered
    task,      \* task[h]: what handler h is doing
    races,
    deaths

vars == <<row, nextId, wanted, task, races, deaths>>

Ids == {i \in 1 .. MaxRows : row[i] # None}
RowsOf(p) == {i \in Ids : row[i].product = p}
InCart(p) == SumFunctionOnSet([i \in RowsOf(p) |-> row[i].qty], RowsOf(p))
Contents == [p \in Products |-> InCart(p)]

\* about: the products; id: the row found, 0 if none; qty: the quantity to write; change: by how
\* much the customer meant to change it; lines: the cart as read.
NoTask == [pc |-> "idle", about |-> {}, id |-> 0, qty |-> 0, change |-> 0, lines |-> None]

Init ==
    /\ row = [i \in 1 .. MaxRows |-> None]
    /\ nextId = 1
    /\ wanted = [p \in Products |-> 0]
    /\ task = [h \in Handlers |-> NoTask]
    /\ races = FALSE
    /\ deaths = 0

At(h, pc) == task[h].pc = pc
Done(h) == task' = [task EXCEPT ![h] = NoTask]
Overlaps(h, ps) == \E g \in Handlers \ {h} : task[g].about \cap ps # {}

Start(h, t) ==
    /\ At(h, "idle")
    /\ task' = [task EXCEPT ![h] = t]
    /\ races' = (races \/ Overlaps(h, t.about))
    /\ UNCHANGED <<row, nextId, wanted, deaths>>

-----------------------------------------------------------------------------
\* Mutant of Fits: only what is added now is compared with the stock.
FitsNow(p, found, q) == q <= Available[p]

Fits(p, found, q) == found + q <= Available[p]

\* addItem: findOne returns one of the product's rows.
Add(h, p, q) ==
    \E i \in IF RowsOf(p) = {} THEN {0} ELSE RowsOf(p) :
        LET found == IF i = 0 THEN 0 ELSE row[i].qty IN
        /\ Fits(p, found, q)
        /\ Start(h, [NoTask EXCEPT !.pc = IF i = 0 THEN "create" ELSE "update", !.about = {p},
                                   !.id = i, !.qty = found + q, !.change = q])

\* The bound matters only after a race.
Want(f) == f \in [Products -> -MaxUnits .. MaxUnits] /\ wanted' = f
Change(p, n) == Want([wanted EXCEPT ![p] = @ + n])

CreateRow(h) ==
    LET t == task[h] IN
    \E p \in t.about :
        /\ At(h, "create")
        /\ nextId <= MaxRows
        /\ row' = [row EXCEPT ![nextId] = [product |-> p, qty |-> t.qty]]
        /\ nextId' = nextId + 1
        /\ Change(p, t.change)
        /\ Done(h)
        /\ UNCHANGED <<races, deaths>>

\* UPDATE ... WHERE id: of a deleted row it changes nothing.
UpdateRow(h) ==
    LET t == task[h] IN
    \E p \in t.about :
        /\ At(h, "update")
        /\ row' = [row EXCEPT ![t.id] = IF @ = None THEN None ELSE [@ EXCEPT !.qty = t.qty]]
        /\ Change(p, t.change)
        /\ Done(h)
        /\ UNCHANGED <<nextId, races, deaths>>

\* updateItemQuantity
SetQuantity(h, i, q) ==
    LET p == row[i].product IN
    /\ Fits(p, 0, q)
    /\ Start(h, [NoTask EXCEPT !.pc = "update", !.about = {p}, !.id = i, !.qty = q,
                               !.change = q - row[i].qty])

\* removeItem
Remove(h, i) ==
    Start(h, [NoTask EXCEPT !.pc = "delete", !.about = {row[i].product}, !.id = i, !.change = -row[i].qty])

DeleteRow(h) ==
    LET t == task[h] IN
    \E p \in t.about :
        /\ At(h, "delete")
        /\ row' = [row EXCEPT ![t.id] = None]
        /\ Change(p, t.change)
        /\ Done(h)
        /\ UNCHANGED <<nextId, races, deaths>>

Emptied == [i \in 1 .. MaxRows |-> None]

\* clearCart, as the customer's own request.
Clear(h) ==
    /\ At(h, "idle")
    /\ Ids # {}
    /\ row' = Emptied
    /\ Want([p \in Products |-> wanted[p] - InCart(p)])
    /\ races' = (races \/ Overlaps(h, Products))
    /\ UNCHANGED <<nextId, task, deaths>>

-----------------------------------------------------------------------------
\* createFromCart: the cart is read, the order inserted and its stock reserved, the cart cleared.
ReadCart(h) ==
    /\ Ids # {}
    /\ Start(h, [NoTask EXCEPT !.pc = "reserve", !.about = Products, !.lines = Contents])

Reserve(h) ==
    LET t == task[h] IN
    /\ At(h, "reserve")
    /\ Want([p \in Products |-> wanted[p] - t.lines[p]])
    /\ task' = [task EXCEPT ![h].pc = "clear"]
    /\ UNCHANGED <<row, nextId, races, deaths>>

\* Mutant of ReserveFails: the cart is cleared although the order was cancelled.
ReserveFailsThenClears(h) ==
    /\ At(h, "reserve")
    /\ row' = Emptied
    /\ Done(h)
    /\ UNCHANGED <<nextId, wanted, races, deaths>>

ReserveFails(h) ==
    /\ At(h, "reserve")
    /\ Done(h)
    /\ UNCHANGED <<row, nextId, wanted, races, deaths>>

ClearCart(h) ==
    /\ At(h, "clear")
    /\ row' = Emptied
    /\ Done(h)
    /\ UNCHANGED <<nextId, wanted, races, deaths>>

\* The process, or its connection to MySQL, goes away.
Die(h) ==
    /\ ~At(h, "idle")
    /\ deaths < MaxDeaths
    /\ deaths' = deaths + 1
    /\ Done(h)
    /\ UNCHANGED <<row, nextId, wanted, races>>

Next == \E h \in Handlers :
    \/ \E p \in Products, q \in 1 .. MaxUnits : Add(h, p, q)
    \/ \E i \in Ids, q \in 1 .. MaxUnits : SetQuantity(h, i, q)
    \/ \E i \in Ids : Remove(h, i)
    \/ CreateRow(h)
    \/ UpdateRow(h)
    \/ DeleteRow(h)
    \/ Clear(h)
    \/ ReadCart(h)
    \/ Reserve(h)
    \/ ReserveFails(h)
    \/ ClearCart(h)
    \/ Die(h)

Spec == Init /\ [][Next]_vars

-----------------------------------------------------------------------------
\* Rows and handlers have their shapes, and only ids that were given out have rows.
CartTypeOK ==
    /\ \A i \in Ids : row[i] \in [product : Products, qty : 1 .. Available[row[i].product]] /\ i < nextId
    /\ nextId \in 1 .. MaxRows + 1
    /\ wanted \in [Products -> -MaxUnits .. MaxUnits]
    /\ \A h \in Handlers : (task[h].lines # None) = (task[h].pc \in {"reserve", "clear"})
    /\ races \in BOOLEAN
    /\ deaths \in 0 .. MaxDeaths

\* Checkouts whose carts are still to be cleared, and the units of p they have ordered.
Clearing == {h \in Handlers : At(h, "clear")}
Ordering(p) == SumFunctionOnSet([h \in Clearing |-> task[h].lines[p]], Clearing)

\* What the customer asked for is in the cart or in one order, and in only one of them once the
\* checkout has cleared the cart: nothing disappears and nothing is ordered twice, whether or
\* not the stock could be reserved, unless requests about one product overlap or a checkout dies
\* before it has cleared the cart.
UnitsAccounted ==
    ~races /\ deaths = 0 => \A p \in Products : wanted[p] = InCart(p) - Ordering(p)

=============================================================================
