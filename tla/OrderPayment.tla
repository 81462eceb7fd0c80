---------------------------- MODULE OrderPayment ----------------------------
(***************************************************************************)
(* OrderService, PaymentService and the SePay webhook as concurrent HTTP   *)
(* handlers over the stock ledger.                                         *)
(*                                                                         *)
(* A worker executes one handler; a step ends at an `await` of the code, so*)
(* handlers interleave exactly where Node.js lets them.  What a handler    *)
(* read before an await it keeps in its task and uses after it: the entity *)
(* it loaded, the target status it checked.  Saving an order or a payment  *)
(* writes the whole row of the loaded entity.                              *)
(*                                                                         *)
(* Stock transactions are the atomic steps of StockLedger, coupon and      *)
(* shipping calls one step each.                                           *)
(***************************************************************************)
EXTENDS Integers

CONSTANTS
    Products, Orders, Demand, InitStock,   \* see StockLedger
    Customers,
    Owner,          \* Owner[o]: the customer whose cart order o is made from
    CouponOrders,   \* orders placed with a coupon that gives a discount
    Workers,        \* handlers that may run at the same time
    Roles,          \* roles that call PATCH /orders/:id/status
    Methods,        \* payment methods customers choose
    Simulations,    \* administrator's test endpoints: "success", "failed"
    Transfers,      \* bank transfers SePay reports
    TransferOrder,  \* TransferOrder[n]: the order named in transfer n
    MaxDeliveries,  \* bound on the webhook calls of a behaviour
    MaxShipments,   \* bound on the shipments of one order
    MaxCrashes      \* bound on the handlers that die half-way

ASSUME StockAssumption ==
    InitStock \in [Products -> Nat] /\ Demand \in [Orders -> [Products -> Nat]]
ASSUME OwnerAssumption == Owner \in [Orders -> Customers]
ASSUME CouponAssumption == CouponOrders \subseteq Orders
ASSUME RoleAssumption == Roles \subseteq {"admin", "staff", "warehouse"}
ASSUME MethodAssumption == Methods \subseteq {"cod", "sepay"}
ASSUME SimulationAssumption == Simulations \subseteq {"success", "failed"}
ASSUME TransferAssumption == TransferOrder \in [Transfers -> Orders]
ASSUME BoundAssumption == MaxDeliveries \in Nat /\ MaxShipments \in Nat /\ MaxCrashes \in Nat

VARIABLES
    available, reserved, status,  \* the stock ledger
    expired,    \* orders whose reservation is past expiresAt
    cart,       \* cart[c]: customer c has items in the cart
    ord,        \* ord[o]: status column of order o, "none" before it exists
    usage,      \* usage[o]: order o has a coupon_usages row
    shipments,  \* shipments[o]: shipping orders created with a provider for o
    pay,        \* pay[o]: its payment row, [method, status]
    keys,       \* transfers whose idempotency key is in redis
    deliveries, \* webhook calls so far
    crashes,    \* handlers that died so far
    task        \* task[w]: what worker w executes

ledgerVars == <<available, reserved, status>>
orderVars == <<ord, usage, shipments, cart>>
payVars == <<pay, keys>>
countVars == <<deliveries, crashes>>
vars == <<ledgerVars, expired, orderVars, payVars, countVars, task>>

Ledger == INSTANCE StockLedger WITH Deltas <- {}

-----------------------------------------------------------------------------
OrderStatuses ==
    {"pending", "confirmed", "processing", "ready_to_ship", "shipping",
     "delivered", "completed", "cancelled", "refunded"}

Transitions ==
    [admin |->
        [pending |-> {"confirmed", "cancelled"},
         confirmed |-> {"processing", "cancelled", "refunded"},
         processing |-> {"ready_to_ship", "cancelled"},
         ready_to_ship |-> {"shipping", "cancelled"},
         shipping |-> {"delivered", "cancelled"},
         delivered |-> {"completed", "refunded"},
         completed |-> {"refunded"}],
     staff |->
        [pending |-> {"confirmed", "cancelled"},
         shipping |-> {"delivered"},
         delivered |-> {"completed"}],
     warehouse |->
        [confirmed |-> {"processing"},
         processing |-> {"ready_to_ship"},
         ready_to_ship |-> {"shipping"}]]

\* Mutant of Allowed: looked up from the next status to the current one.
AllowedSwapped(now, next, role) ==
    \/ now = next
    \/ next \in DOMAIN Transitions[role] /\ now \in Transitions[role][next]

Allowed(now, next, role) ==
    \/ now = next
    \/ now \in DOMAIN Transitions[role] /\ next \in Transitions[role][now]

NoPayment == [method |-> "none", status |-> "none"]

NoTask == [pc |-> "idle", order |-> "none", to |-> "none", then |-> "none",
           method |-> "none", transfer |-> "none"]

Task(pc, o) == [NoTask EXCEPT !.pc = pc, !.order = o]

Init ==
    /\ Ledger!Init
    /\ expired = {}
    /\ cart = [c \in Customers |-> TRUE]
    /\ ord = [o \in Orders |-> "none"]
    /\ usage = [o \in Orders |-> FALSE]
    /\ shipments = [o \in Orders |-> 0]
    /\ pay = [o \in Orders |-> NoPayment]
    /\ keys = {}
    /\ deliveries = 0
    /\ crashes = 0
    /\ task = [w \in Workers |-> NoTask]

Idle(w) == task[w].pc = "idle"
At(w, pc) == task[w].pc = pc
OrderOf(w) == task[w].order

Begin(w, t) == Idle(w) /\ task' = [task EXCEPT ![w] = t]
Goto(w, pc) == task' = [task EXCEPT ![w].pc = pc]
Return(w) == task' = [task EXCEPT ![w] = NoTask]

-----------------------------------------------------------------------------
(***************************************************************************)
(* createFromCart: the cart and the coupon are read, the order is created, *)
(* and then stock, coupon and cart are changed one await after the other.  *)
(***************************************************************************)
ReadCart(w, o) ==
    /\ ord[o] = "none"
    /\ \A v \in Workers : OrderOf(v) # o  \* o is the id the INSERT will return
    /\ cart[Owner[o]]
    /\ Begin(w, Task("insertOrder", o))
    /\ UNCHANGED <<ledgerVars, expired, orderVars, payVars, countVars>>

InsertOrder(w) ==
    /\ At(w, "insertOrder")
    /\ ord' = [ord EXCEPT ![OrderOf(w)] = "pending"]
    /\ Goto(w, "reserve")
    /\ UNCHANGED <<ledgerVars, expired, usage, shipments, cart, payVars, countVars>>

Reserve(w) ==
    LET o == OrderOf(w) IN
    /\ At(w, "reserve")
    /\ Ledger!Hold(o)
    /\ Goto(w, IF o \in CouponOrders THEN "markCoupon" ELSE "clearCart")
    /\ UNCHANGED <<expired, orderVars, payVars, countVars>>

\* Mutant of ReserveFails: the error is only logged, like that of shipping.
ReserveFailsLogged(w) ==
    /\ At(w, "reserve")
    /\ Goto(w, IF OrderOf(w) \in CouponOrders THEN "markCoupon" ELSE "clearCart")
    /\ UNCHANGED <<ledgerVars, expired, orderVars, payVars, countVars>>

\* Not enough stock, or the transaction was rolled back for another reason:
\* the order is cancelled.
ReserveFails(w) ==
    /\ At(w, "reserve")
    /\ task' = [task EXCEPT ![w] = [@ EXCEPT !.pc = "save", !.to = "cancelled", !.then = "return"]]
    /\ UNCHANGED <<ledgerVars, expired, orderVars, payVars, countVars>>

MarkCouponUsed(w) ==
    /\ At(w, "markCoupon")
    /\ usage' = [usage EXCEPT ![OrderOf(w)] = TRUE]
    /\ Goto(w, "clearCart")
    /\ UNCHANGED <<ledgerVars, expired, ord, shipments, cart, payVars, countVars>>

ClearCart(w) ==
    /\ At(w, "clearCart")
    /\ cart' = [cart EXCEPT ![Owner[OrderOf(w)]] = FALSE]
    /\ Return(w)
    /\ UNCHANGED <<ledgerVars, expired, ord, usage, shipments, payVars, countVars>>

-----------------------------------------------------------------------------
(***************************************************************************)
(* updateStatus and cancelMyOrder: the order is read and the transition    *)
(* checked, then the calls of the transition are made, then it is saved.   *)
(***************************************************************************)
\* Mutant of FirstCall: cancelling gives nothing back.
FirstCallNoRelease(next) == IF next = "ready_to_ship" THEN "ship" ELSE "save"

FirstCall(next) ==
    CASE next = "cancelled"     -> "release"
      [] next = "ready_to_ship" -> "ship"
      [] OTHER                  -> "save"

UpdateStatus(w, o, next, role) ==
    /\ ord[o] # "none"
    /\ Allowed(ord[o], next, role)
    /\ next = "ready_to_ship" => shipments[o] < MaxShipments
    /\ Begin(w, [Task(FirstCall(next), o) EXCEPT !.to = next, !.then = "return"])
    /\ UNCHANGED <<ledgerVars, expired, orderVars, payVars, countVars>>

CancelMyOrder(w, o) ==
    /\ ord[o] = "pending"
    /\ Begin(w, [Task("release", o) EXCEPT !.to = "cancelled", !.then = "return"])
    /\ UNCHANGED <<ledgerVars, expired, orderVars, payVars, countVars>>

\* StockReservationService.release or confirm: does nothing unless pending.
SettleIfPending(o, outcome) ==
    IF status[o] = "pending" THEN Ledger!Settle({o}, outcome) ELSE UNCHANGED ledgerVars

Release(w) ==
    /\ At(w, "release")
    /\ SettleIfPending(OrderOf(w), "released")
    /\ Goto(w, "rollbackCoupon")
    /\ UNCHANGED <<expired, orderVars, payVars, countVars>>

RollbackCouponUsage(w) ==
    /\ At(w, "rollbackCoupon")
    /\ usage' = [usage EXCEPT ![OrderOf(w)] = FALSE]
    /\ Goto(w, "save")
    /\ UNCHANGED <<ledgerVars, expired, ord, shipments, cart, payVars, countVars>>

\* createShippingOrder; when every provider fails the error is only logged.
Ship(w) ==
    /\ At(w, "ship")
    /\ \/ shipments' = [shipments EXCEPT ![OrderOf(w)] = @ + 1]
       \/ UNCHANGED shipments
    /\ Goto(w, "save")
    /\ UNCHANGED <<ledgerVars, expired, ord, usage, cart, payVars, countVars>>

\* orderRepository.save writes the status over whatever the row holds now.
SaveOrder(w) ==
    /\ At(w, "save")
    /\ ord' = [ord EXCEPT ![OrderOf(w)] = task[w].to]
    /\ IF task[w].then = "return" THEN Return(w) ELSE Goto(w, task[w].then)
    /\ UNCHANGED <<ledgerVars, expired, usage, shipments, cart, payVars, countVars>>

-----------------------------------------------------------------------------
(***************************************************************************)
(* PaymentService.create.                                                  *)
(***************************************************************************)
CreatePayment(w, o, method) ==
    /\ ord[o] \notin {"none", "cancelled"}
    /\ Begin(w, [Task("findPayment", o) EXCEPT !.method = method])
    /\ UNCHANGED <<ledgerVars, expired, orderVars, payVars, countVars>>

FindPayment(w) ==
    /\ At(w, "findPayment")
    /\ IF pay[OrderOf(w)] = NoPayment THEN Goto(w, "insertPayment") ELSE Return(w)
    /\ UNCHANGED <<ledgerVars, expired, orderVars, payVars, countVars>>

\* Mutant of InsertPayment: order_id without its unique index.
InsertPaymentTwice(w) ==
    LET o == OrderOf(w)
        method == task[w].method IN
    /\ At(w, "insertPayment")
    /\ pay' = [pay EXCEPT ![o] =
                [method |-> method,
                 status |-> IF method = "cod" THEN "success" ELSE "pending"]]
    /\ IF method = "cod" THEN Goto(w, "confirmCod") ELSE Return(w)
    /\ UNCHANGED <<ledgerVars, expired, orderVars, keys, countVars>>

\* payments.order_id is unique: the second of two inserts is an error.
InsertPayment(w) ==
    LET o == OrderOf(w)
        method == task[w].method IN
    /\ At(w, "insertPayment")
    /\ IF pay[o] # NoPayment
       THEN Return(w) /\ UNCHANGED pay
       ELSE /\ pay' = [pay EXCEPT ![o] =
                        [method |-> method,
                         status |-> IF method = "cod" THEN "success" ELSE "pending"]]
            /\ IF method = "cod" THEN Goto(w, "confirmCod") ELSE Return(w)
    /\ UNCHANGED <<ledgerVars, expired, orderVars, keys, countVars>>

ConfirmCod(w) ==
    /\ At(w, "confirmCod")
    /\ SettleIfPending(OrderOf(w), "confirmed")
    /\ Return(w)
    /\ UNCHANGED <<expired, orderVars, payVars, countVars>>

-----------------------------------------------------------------------------
(***************************************************************************)
(* The webhook: idempotency key, then processSepayWebhook; an exception is *)
(* caught and answered with success.  SePay may deliver the notification   *)
(* of a transfer more than once, and the customer may transfer at any time.*)
(***************************************************************************)
ReceiveWebhook(w, n) ==
    /\ deliveries < MaxDeliveries
    /\ deliveries' = deliveries + 1
    /\ Begin(w, [Task("getKey", TransferOrder[n]) EXCEPT !.transfer = n])
    /\ UNCHANGED <<ledgerVars, expired, orderVars, payVars, crashes>>

GetKey(w) ==
    /\ At(w, "getKey")
    /\ IF task[w].transfer \in keys THEN Return(w) ELSE Goto(w, "storeKey")
    /\ UNCHANGED <<ledgerVars, expired, orderVars, payVars, countVars>>

StoreKey(w) ==
    /\ At(w, "storeKey")
    /\ keys' = keys \union {task[w].transfer}
    /\ Goto(w, "loadPayment")
    /\ UNCHANGED <<ledgerVars, expired, orderVars, pay, countVars>>

\* The key lives for 600 seconds.
ExpireKey(n) ==
    /\ n \in keys
    /\ keys' = keys \ {n}
    /\ UNCHANGED <<ledgerVars, expired, orderVars, pay, countVars, task>>

LoadPayment(w) ==
    /\ At(w, "loadPayment")
    /\ IF pay[OrderOf(w)].status \in {"none", "success"} THEN Return(w) ELSE Goto(w, "loadOrder")
    /\ UNCHANGED <<ledgerVars, expired, orderVars, payVars, countVars>>

\* Mutant of LoadOrder: the order is left as it is.
LoadOrderOnly(w) ==
    /\ At(w, "loadOrder")
    /\ Goto(w, "confirmStock")
    /\ UNCHANGED <<ledgerVars, expired, orderVars, payVars, countVars>>

\* Mutant of LoadOrder: an order that is not pending ends the handler.
LoadOrderPendingOnly(w) ==
    /\ At(w, "loadOrder")
    /\ IF ord[OrderOf(w)] = "pending" THEN Goto(w, "confirmOrder") ELSE Return(w)
    /\ UNCHANGED <<ledgerVars, expired, orderVars, payVars, countVars>>

\* Only a pending order is moved to confirmed.
LoadOrder(w) ==
    /\ At(w, "loadOrder")
    /\ Goto(w, IF ord[OrderOf(w)] = "pending" THEN "confirmOrder" ELSE "confirmStock")
    /\ UNCHANGED <<ledgerVars, expired, orderVars, payVars, countVars>>

\* updateStatus reads the order again; if it cannot be confirmed any more it
\* throws and the handler ends.
ConfirmOrder(w) ==
    /\ At(w, "confirmOrder")
    /\ IF Allowed(ord[OrderOf(w)], "confirmed", "admin")
       THEN task' = [task EXCEPT ![w] = [@ EXCEPT !.pc = "save", !.to = "confirmed",
                                                  !.then = "confirmStock"]]
       ELSE Return(w)
    /\ UNCHANGED <<ledgerVars, expired, orderVars, payVars, countVars>>

ConfirmStock(w) ==
    /\ At(w, "confirmStock")
    /\ SettleIfPending(OrderOf(w), "confirmed")
    /\ Goto(w, "savePaid")
    /\ UNCHANGED <<expired, orderVars, payVars, countVars>>

\* Mutants of SavePaid: the name of the event is stored as the status, and
\* the event is emitted without a save.
SavePaidCompleted(w) ==
    /\ At(w, "savePaid")
    /\ pay' = [pay EXCEPT ![OrderOf(w)].status = "completed"]
    /\ Return(w)
    /\ UNCHANGED <<ledgerVars, expired, orderVars, keys, countVars>>

SavePaidEmitsOnly(w) ==
    /\ At(w, "savePaid")
    /\ Return(w)
    /\ UNCHANGED <<ledgerVars, expired, orderVars, payVars, countVars>>

\* The payment row is saved last, and payment.completed emitted.
SavePaid(w) ==
    /\ At(w, "savePaid")
    /\ pay' = [pay EXCEPT ![OrderOf(w)].status = "success"]
    /\ Return(w)
    /\ UNCHANGED <<ledgerVars, expired, orderVars, keys, countVars>>

-----------------------------------------------------------------------------
(***************************************************************************)
(* simulateSuccess and simulateFailed.                                     *)
(***************************************************************************)
SimulateSuccess(w, o) ==
    /\ "success" \in Simulations
    /\ ord[o] # "none"
    /\ Begin(w, [Task("requirePayment", o) EXCEPT
                    !.then = IF ord[o] = "pending" THEN "confirmOrder" ELSE "confirmStock"])
    /\ UNCHANGED <<ledgerVars, expired, orderVars, payVars, countVars>>

RequirePayment(w) ==
    /\ At(w, "requirePayment")
    /\ IF pay[OrderOf(w)] = NoPayment THEN Return(w) ELSE Goto(w, task[w].then)
    /\ UNCHANGED <<ledgerVars, expired, orderVars, payVars, countVars>>

SimulateFailed(w, o) ==
    /\ "failed" \in Simulations
    /\ pay[o] # NoPayment
    /\ Begin(w, Task("releaseFailed", o))
    /\ UNCHANGED <<ledgerVars, expired, orderVars, payVars, countVars>>

ReleaseFailed(w) ==
    /\ At(w, "releaseFailed")
    /\ SettleIfPending(OrderOf(w), "released")
    /\ Goto(w, "saveFailed")
    /\ UNCHANGED <<expired, orderVars, payVars, countVars>>

SaveFailed(w) ==
    /\ At(w, "saveFailed")
    /\ pay' = [pay EXCEPT ![OrderOf(w)].status = "failed"]
    /\ Return(w)
    /\ UNCHANGED <<ledgerVars, expired, orderVars, keys, countVars>>

-----------------------------------------------------------------------------
Elapse(o) ==
    /\ status[o] = "pending"
    /\ o \notin expired
    /\ expired' = expired \union {o}
    /\ UNCHANGED <<ledgerVars, orderVars, payVars, countVars, task>>

\* The queue job settles every expired reservation; it touches no order.
ReleaseExpired ==
    LET S == {o \in expired : status[o] = "pending"} IN
    /\ S # {}
    /\ Ledger!Settle(S, "expired")
    /\ UNCHANGED <<expired, orderVars, payVars, countVars, task>>

\* The process is killed, or an await of the handler rejects: what was saved
\* stays saved, the rest of the handler does not happen.
Crash(w) ==
    /\ ~Idle(w)
    /\ crashes < MaxCrashes
    /\ crashes' = crashes + 1
    /\ Return(w)
    /\ UNCHANGED <<ledgerVars, expired, orderVars, payVars, deliveries>>

Request(w) ==
    \/ \E o \in Orders : ReadCart(w, o) \/ CancelMyOrder(w, o)
                            \/ SimulateSuccess(w, o) \/ SimulateFailed(w, o)
    \/ \E o \in Orders, next \in OrderStatuses, role \in Roles : UpdateStatus(w, o, next, role)
    \/ \E o \in Orders, method \in Methods : CreatePayment(w, o, method)
    \/ \E n \in Transfers : ReceiveWebhook(w, n)

Advance(w) ==
    \/ InsertOrder(w) \/ Reserve(w) \/ ReserveFails(w) \/ MarkCouponUsed(w) \/ ClearCart(w)
    \/ Release(w) \/ RollbackCouponUsage(w) \/ Ship(w) \/ SaveOrder(w)
    \/ FindPayment(w) \/ InsertPayment(w) \/ ConfirmCod(w)
    \/ GetKey(w) \/ StoreKey(w) \/ LoadPayment(w) \/ LoadOrder(w)
    \/ ConfirmOrder(w) \/ ConfirmStock(w) \/ SavePaid(w)
    \/ RequirePayment(w) \/ ReleaseFailed(w) \/ SaveFailed(w)

Quiescent == (\A w \in Workers : Idle(w)) /\ UNCHANGED vars

Next ==
    \/ \E w \in Workers : Request(w) \/ Advance(w) \/ Crash(w)
    \/ \E o \in Orders : Elapse(o)
    \/ \E n \in Transfers : ExpireKey(n)
    \/ ReleaseExpired
    \/ Quiescent

Spec == Init /\ [][Next]_vars

\* A handler that runs is not left waiting: its awaits are answered.
FairSpec == Spec /\ \A w \in Workers : WF_vars(Advance(w))

-----------------------------------------------------------------------------
(***************************************************************************)
(* Properties.                                                             *)
(***************************************************************************)
Calls ==
    {"insertOrder", "reserve", "markCoupon", "clearCart", "release", "rollbackCoupon",
     "ship", "save", "findPayment", "insertPayment", "confirmCod", "getKey", "storeKey",
     "loadPayment", "loadOrder", "confirmOrder", "confirmStock", "savePaid",
     "requirePayment", "releaseFailed", "saveFailed"}

\* Every variable has its type, and a handler works on an existing order
\* unless it is about to create it or to find that it does not exist.
TypeOK ==
    /\ \A p \in Products : available[p] \in Nat /\ reserved[p] \in Nat
    /\ status \in [Orders -> Ledger!Outcomes \union {"none", "pending"}]
    /\ expired \in SUBSET Orders
    /\ cart \in [Customers -> BOOLEAN]
    /\ ord \in [Orders -> OrderStatuses \union {"none"}]
    /\ usage \in [Orders -> BOOLEAN]
    /\ shipments \in [Orders -> Nat]
    /\ pay \in [Orders -> [method : Methods, status : {"pending", "success", "failed"}]
                            \union {NoPayment}]
    /\ keys \in SUBSET Transfers
    /\ \A w \in Workers :
        \/ task[w] = NoTask
        \/ task[w].pc \in Calls /\ OrderOf(w) \in Orders
    /\ \A w \in Workers :
        task[w].pc \in Calls \ {"insertOrder", "getKey", "storeKey", "loadPayment"} =>
            ord[OrderOf(w)] # "none"

\* A cancelled order holds neither stock nor its coupon.  updateStatus and
\* cancelMyOrder give both back before they save the status, so that this
\* survives a handler that dies half-way.
CancelledHoldsNothing ==
    \A o \in Orders : ord[o] = "cancelled" => status[o] # "pending" /\ ~usage[o]

\* Position of a status on the way of an order; what ends it comes last.
Rank(s) ==
    CHOOSE i \in 0 .. 9 :
        s = <<"none", "pending", "confirmed", "processing", "ready_to_ship", "shipping",
              "delivered", "completed", "refunded", "cancelled">>[i + 1]

\* An order only advances, whoever changes it: the roles of updateStatus, the
\* webhook or a simulated payment; cancelled and refunded are final.
OrderNeverGoesBack ==
    [][\A o \in Orders :
        /\ Rank(ord[o]) <= Rank(ord'[o])
        /\ ord[o] = "refunded" => ord'[o] = "refunded"]_ord

\* Stock has left the shop only for an order that is paid: both ways of
\* confirming a reservation write the payment, COD before and a transfer
\* right after it.
SoldStockIsPaid ==
    \A o \in Orders :
        status[o] = "confirmed" =>
            \/ pay[o].status = "success"
            \/ \E w \in Workers : At(w, "savePaid") /\ OrderOf(w) = o

\* The payment of a transfer is saved after the order it pays for has left
\* pending, so that no paid order waits for a payment.
PaidTransferConfirmsOrder ==
    \A o \in Orders :
        pay[o].method = "sepay" /\ pay[o].status = "success" => ord[o] # "pending"

\* A payment that succeeded is not undone by a second create, a late webhook
\* or a handler that loaded it before (simulateFailed aside).
PaidStaysPaid ==
    [][\A o \in Orders : pay[o].status = "success" => pay'[o].status = "success"]_pay

\* A coupon is consumed only by an order whose stock was reserved.
CouponNeedsHold == \A o \in Orders : usage[o] => status[o] # "none"

\* A transfer that is reported for an existing payment ends up recorded, also
\* when the order cannot be confirmed any more (payment.service.ts:129), unless
\* a handler dies.
TransferIsRecorded ==
    \A w \in Workers, n \in Transfers :
        (At(w, "loadPayment") /\ task[w].transfer = n /\ pay[TransferOrder[n]] # NoPayment)
            ~> (pay[TransferOrder[n]].status = "success" \/ crashes > 0)

-----------------------------------------------------------------------------
(***************************************************************************)
(* What the documents of the repository ask for and the code does not do.  *)
(***************************************************************************)
\* Cancelling an order puts its stock back on sale.
CancelledReturnsStock == \A o \in Orders : ord[o] = "cancelled" => status[o] # "confirmed"

\* A reservation that runs out of time takes its order with it: an order that
\* is confirmed has its stock.
ConfirmedOrderHasStock ==
    \A o \in Orders : ord[o] = "confirmed" => status[o] \notin {"released", "expired"}

\* A cancelled order stays cancelled.
CancelledIsFinal ==
    [][\A o \in Orders : ord[o] = "cancelled" => ord'[o] = "cancelled"]_ord

=============================================================================
