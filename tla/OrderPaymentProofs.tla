------------------------- MODULE OrderPaymentProofs -------------------------
(***************************************************************************)
(* Theorems about OrderPayment, for every set of products, orders,         *)
(* customers, transfers and workers, and every bound.                      *)
(***************************************************************************)
EXTENDS OrderPayment, SumTheorems, TLAPS

(***************************************************************************)
(* The stock ledger.  What is reserved is the demand of the orders whose   *)
(* reservation is pending, so that a settlement never takes more than      *)
(* there is.                                                               *)
(***************************************************************************)
StatusOK == status \in [Orders -> Ledger!Outcomes \union {"none", "pending"}]

PendingOrders == {o \in Orders : status[o] = "pending"}

LedgerInv ==
    /\ StatusOK
    /\ IsFiniteSet(PendingOrders)
    /\ \A p \in Products :
        /\ available[p] \in Nat
        /\ reserved[p] = Ledger!DemandOf(PendingOrders, p)

LEMMA LedgerSum == \A f, S : Ledger!SumFunctionOnSet(f, S) = SumFunctionOnSet(f, S)
  BY DEF SumFunctionOnSet, FoldFunctionOnSet, MapThenFoldSet,
         Ledger!SumFunctionOnSet, Ledger!FoldFunctionOnSet, Ledger!MapThenFoldSet

LEMMA DemandFacts ==
    ASSUME NEW S \in SUBSET Orders, IsFiniteSet(S), NEW p \in Products
    PROVE  /\ Ledger!DemandOf(S, p) \in Nat
           /\ \A o \in Orders \ S :
                Ledger!DemandOf(S \union {o}, p) = Ledger!DemandOf(S, p) + Demand[o][p]
           /\ \A T \in SUBSET S :
                /\ Ledger!DemandOf(S, p) = Ledger!DemandOf(T, p) + Ledger!DemandOf(S \ T, p)
                /\ Ledger!DemandOf(T, p) \in Nat
                /\ Ledger!DemandOf(S \ T, p) \in Nat
  <1> DEFINE demand == [o \in Orders |-> Demand[o][p]]
  <1>1. \A T : Ledger!DemandOf(T, p) = SumFunctionOnSet(demand, T)
    BY LedgerSum DEF Ledger!DemandOf
  <1>2. \A o \in Orders : demand[o] = Demand[o][p] /\ demand[o] \in Nat
    BY StockAssumption
  <1> HIDE DEF demand
  <1>3. \A T \in SUBSET S : SumFunctionOnSet(demand, T) \in Nat
    <2>1. ASSUME NEW T \in SUBSET S
          PROVE  SumFunctionOnSet(demand, T) \in Nat
      <3>1. IsFiniteSet(T)
        BY FS_Subset
      <3> QED
        BY <1>2, <3>1, SumNat
    <2> QED
      BY <2>1
  <1>4. \A o \in Orders \ S :
            SumFunctionOnSet(demand, S \union {o}) = SumFunctionOnSet(demand, S) + demand[o]
    <2>1. ASSUME NEW o \in Orders, o \notin S
          PROVE  SumFunctionOnSet(demand, S \union {o}) = SumFunctionOnSet(demand, S) + demand[o]
      <3>1. \A c \in S \union {o} : demand[c] \in Int
        BY <1>2, <2>1
      <3> QED
        BY <2>1, <3>1, SumAdd
    <2> QED
      BY <2>1
  <1>5. \A T \in SUBSET S : SumFunctionOnSet(demand, S)
            = SumFunctionOnSet(demand, T) + SumFunctionOnSet(demand, S \ T)
    BY <1>2, SumSplit
  <1> QED
    BY <1>1, <1>2, <1>3, <1>4, <1>5

LEMMA HoldKeeps ==
    ASSUME LedgerInv, NEW o \in Orders, Ledger!Hold(o)
    PROVE  /\ LedgerInv'
           /\ status[o] = "none"
           /\ \A c \in Orders : status'[c] = IF c = o THEN "pending" ELSE status[c]
  <1>1. /\ status[o] = "none"
        /\ \A c \in Orders : status'[c] = IF c = o THEN "pending" ELSE status[c]
    BY DEF Ledger!Hold, LedgerInv, StatusOK
  <1>2. StatusOK'
    BY DEF Ledger!Hold, LedgerInv, StatusOK
  <1>3. o \notin PendingOrders /\ PendingOrders' = PendingOrders \union {o}
    BY <1>1 DEF PendingOrders
  <1>4. PendingOrders \in SUBSET Orders /\ IsFiniteSet(PendingOrders)
    BY DEF PendingOrders, LedgerInv
  <1>5. IsFiniteSet(PendingOrders')
    BY <1>3, <1>4, FS_AddElement
  <1>6. ASSUME NEW p \in Products
        PROVE  available'[p] \in Nat /\ reserved'[p] = Ledger!DemandOf(PendingOrders', p)
    <2>1. Demand[o][p] \in Nat
      BY StockAssumption
    <2>2. Ledger!DemandOf(PendingOrders', p) = Ledger!DemandOf(PendingOrders, p) + Demand[o][p]
      BY <1>3, <1>4, DemandFacts
    <2> QED
      BY <2>1, <2>2 DEF Ledger!Hold, LedgerInv
  <1> QED
    BY <1>1, <1>2, <1>5, <1>6 DEF LedgerInv

LEMMA SettleKeeps ==
    ASSUME LedgerInv, NEW S \in SUBSET Orders, NEW outcome \in Ledger!Outcomes,
           Ledger!Settle(S, outcome)
    PROVE  /\ LedgerInv'
           /\ \A o \in S : status[o] = "pending"
           /\ \A o \in Orders : status'[o] = IF o \in S THEN outcome ELSE status[o]
  <1>1. /\ \A o \in S : status[o] = "pending"
        /\ \A o \in Orders : status'[o] = IF o \in S THEN outcome ELSE status[o]
    BY DEF Ledger!Settle
  <1>2. StatusOK'
    BY DEF Ledger!Settle, LedgerInv, StatusOK
  <1>3. S \in SUBSET PendingOrders /\ PendingOrders' = PendingOrders \ S
    BY <1>1 DEF PendingOrders, Ledger!Outcomes
  <1>4. PendingOrders \in SUBSET Orders /\ IsFiniteSet(PendingOrders)
    BY DEF PendingOrders, LedgerInv
  <1>5. IsFiniteSet(PendingOrders')
    BY <1>3, <1>4, FS_Subset
  <1>6. ASSUME NEW p \in Products
        PROVE  available'[p] \in Nat /\ reserved'[p] = Ledger!DemandOf(PendingOrders', p)
    <2>1. /\ Ledger!DemandOf(PendingOrders, p)
                = Ledger!DemandOf(S, p) + Ledger!DemandOf(PendingOrders', p)
          /\ Ledger!DemandOf(S, p) \in Nat
          /\ Ledger!DemandOf(PendingOrders', p) \in Nat
      BY <1>3, <1>4, DemandFacts
    <2>2. available[p] \in Nat /\ reserved[p] = Ledger!DemandOf(PendingOrders, p)
      BY DEF LedgerInv
    <2>3. /\ reserved'[p] = reserved[p] - Ledger!DemandOf(S, p)
          /\ available'[p] = available[p] \/ available'[p] = available[p] + Ledger!DemandOf(S, p)
      BY DEF Ledger!Settle
    <2> QED
      BY <2>1, <2>2, <2>3
  <1> QED
    BY <1>1, <1>2, <1>5, <1>6 DEF LedgerInv

\* release, confirm and the failed payment settle the order they work on, if it
\* is pending, and no other.
LEMMA SettleIfPendingKeeps ==
    ASSUME LedgerInv, NEW o \in Orders, NEW outcome \in Ledger!Outcomes,
           SettleIfPending(o, outcome)
    PROVE  /\ LedgerInv'
           /\ \A c \in Orders :
                status'[c] = IF c = o /\ status[o] = "pending" THEN outcome ELSE status[c]
  <1>1. CASE status[o] = "pending"
    <2>1. Ledger!Settle({o}, outcome)
      BY <1>1 DEF SettleIfPending
    <2> QED
      BY <1>1, <2>1, SettleKeeps
  <1>2. CASE status[o] # "pending"
    BY <1>2 DEF SettleIfPending, ledgerVars, LedgerInv, StatusOK, PendingOrders
  <1> QED
    BY <1>1, <1>2

-----------------------------------------------------------------------------
(***************************************************************************)
(* Types.  What a worker executes has the fields its next step needs, and  *)
(* the rows it is going to write exist: orders and payments are never      *)
(* deleted.                                                                *)
(***************************************************************************)
Tasks ==
    [pc : Calls \union {"idle"}, order : Orders \union {"none"},
     to : OrderStatuses \union {"none"}, then : {"none", "return", "confirmOrder", "confirmStock"},
     method : Methods \union {"none"}, transfer : Transfers \union {"none"}]

Existing == Calls \ {"insertOrder", "getKey", "storeKey", "loadPayment"}

HasPayment(t) ==
    \/ t.pc \in {"confirmCod", "loadOrder", "confirmOrder", "confirmStock", "savePaid",
                 "releaseFailed", "saveFailed"}
    \/ t.pc = "save" /\ t.then = "confirmStock"

FieldsOK(t) ==
    /\ t \in Tasks
    /\ t.pc = "idle" => t = NoTask
    /\ t.pc # "idle" => t.order \in Orders
    /\ t.pc \in {"release", "rollbackCoupon", "ship"} =>
            t.to \in OrderStatuses /\ t.then = "return"
    /\ t.pc = "save" => t.to \in OrderStatuses /\ t.then \in {"return", "confirmStock"}
    /\ t.pc = "requirePayment" => t.then \in {"confirmOrder", "confirmStock"}
    /\ t.pc \in {"findPayment", "insertPayment"} => t.method \in Methods
    /\ t.pc \in {"getKey", "storeKey"} => t.transfer \in Transfers

RowsExist(t, orders, payments) ==
    /\ t.pc \in Existing => orders[t.order] # "none"
    /\ HasPayment(t) => payments[t.order] # NoPayment

PaymentRow == [method : Methods, status : {"pending", "success", "failed"}]

DataOK ==
    /\ LedgerInv
    /\ expired \in SUBSET Orders
    /\ cart \in [Customers -> BOOLEAN]
    /\ ord \in [Orders -> OrderStatuses \union {"none"}]
    /\ usage \in [Orders -> BOOLEAN]
    /\ shipments \in [Orders -> Nat]
    /\ pay \in [Orders -> PaymentRow \union {NoPayment}]
    /\ keys \in SUBSET Transfers
    /\ crashes \in Nat

TasksOK ==
    /\ DOMAIN task = Workers
    /\ \A w \in Workers : FieldsOK(task[w]) /\ RowsExist(task[w], ord, pay)

PaymentNeedsOrder == \A o \in Orders : pay[o] # NoPayment => ord[o] # "none"

TypeInv == DataOK /\ TasksOK /\ PaymentNeedsOrder

(***************************************************************************)
(* What worker w executes becomes t, the others are where they were.       *)
(***************************************************************************)
Becomes(w, t) ==
    /\ DOMAIN task' = Workers
    /\ \A v \in Workers : task'[v] = IF v = w THEN t ELSE task[v]

\* u is t at another call.
SameBut(u, t, pc) ==
    /\ u \in Tasks
    /\ u.pc = pc
    /\ u.order = t.order
    /\ u.to = t.to
    /\ u.then = t.then
    /\ u.method = t.method
    /\ u.transfer = t.transfer

LEMMA BeginMoves ==
    ASSUME TasksOK, NEW w \in Workers, NEW t, Begin(w, t)
    PROVE  Becomes(w, t) /\ task[w].pc = "idle"
  BY DEF Begin, Becomes, TasksOK, Idle

LEMMA ReturnMoves ==
    ASSUME TasksOK, NEW w \in Workers, Return(w)
    PROVE  Becomes(w, NoTask)
  BY DEF Return, Becomes, TasksOK

LEMMA GotoMoves ==
    ASSUME TasksOK, NEW w \in Workers, NEW pc \in Calls, Goto(w, pc)
    PROVE  \E u \in Tasks : Becomes(w, u) /\ SameBut(u, task[w], pc)
  <1>1. PICK u : u = [task[w] EXCEPT !.pc = pc]
    OBVIOUS
  <1>2. task[w] \in Tasks
    BY DEF TasksOK, FieldsOK
  <1>3. SameBut(u, task[w], pc)
    BY <1>1, <1>2 DEF SameBut, Tasks
  <1>4. Becomes(w, u)
    BY <1>1 DEF Goto, Becomes, TasksOK
  <1> QED
    BY <1>3, <1>4 DEF SameBut

\* The tasks that requests and webhooks start with.
LEMMA TaskFacts ==
    ASSUME NEW pc \in Calls, NEW o \in Orders
    PROVE  /\ Task(pc, o) \in Tasks
           /\ Task(pc, o).pc = pc
           /\ Task(pc, o).order = o
           /\ NoTask \in Tasks
           /\ FieldsOK(NoTask)
  BY DEF Task, NoTask, Tasks, FieldsOK, Calls

\* Rows never disappear, so that the others keep what they need.
LEMMA TasksKept ==
    ASSUME TypeInv, NEW w \in Workers, NEW t, Becomes(w, t), FieldsOK(t),
           RowsExist(t, ord', pay'),
           \A o \in Orders : ord[o] # "none" => ord'[o] # "none",
           \A o \in Orders : pay[o] # NoPayment => pay'[o] # NoPayment
    PROVE  TasksOK'
  <1>1. ASSUME NEW v \in Workers
        PROVE  FieldsOK(task'[v]) /\ RowsExist(task'[v], ord', pay')
    <2>1. CASE v = w
      BY <2>1 DEF Becomes
    <2>2. CASE v # w
      <3>1. task'[v] = task[v] /\ FieldsOK(task[v]) /\ RowsExist(task[v], ord, pay)
        BY <2>2 DEF Becomes, TypeInv, TasksOK
      <3>2. task[v].pc # "idle" => task[v].order \in Orders
        BY <3>1 DEF FieldsOK
      <3>3. (task[v].pc \in Existing \/ HasPayment(task[v])) => task[v].pc # "idle"
        BY DEF Existing, HasPayment, Calls
      <3> QED
        BY <3>1, <3>2, <3>3 DEF RowsExist
    <2> QED
      BY <2>1, <2>2
  <1> QED
    BY <1>1 DEF TasksOK, Becomes

\* A step that writes neither orders nor payments, and no table of another type.
LEMMA TypeFramed ==
    ASSUME TypeInv, NEW w \in Workers, NEW t, Becomes(w, t), FieldsOK(t),
           RowsExist(t, ord, pay), DataOK', ord' = ord, pay' = pay
    PROVE  TypeInv'
  BY TasksKept DEF TypeInv, PaymentNeedsOrder

LEMMA DataFramed ==
    ASSUME TypeInv, UNCHANGED <<ledgerVars, expired, orderVars, payVars, crashes>>
    PROVE  DataOK' /\ ord' = ord /\ pay' = pay
  BY DEF TypeInv, DataOK, LedgerInv, StatusOK, PendingOrders, ledgerVars, orderVars, payVars

\* A request starts a task whose fields are right and whose rows exist.
LEMMA BeginType ==
    ASSUME TypeInv, NEW w \in Workers, NEW t, Begin(w, t), FieldsOK(t), RowsExist(t, ord, pay),
           UNCHANGED <<ledgerVars, expired, orderVars, payVars, crashes>>
    PROVE  TypeInv'
  BY BeginMoves, DataFramed, TypeFramed DEF TypeInv

\* A handler that returns or dies leaves nothing behind but the rows.
LEMMA ReturnType ==
    ASSUME TypeInv, NEW w \in Workers, Return(w), DataOK',
           \A o \in Orders : ord[o] # "none" => ord'[o] # "none",
           \A o \in Orders : pay[o] # NoPayment => pay'[o] # NoPayment,
           PaymentNeedsOrder'
    PROVE  TypeInv'
  <1>1. FieldsOK(NoTask) /\ RowsExist(NoTask, ord', pay')
    BY DEF NoTask, FieldsOK, RowsExist, Tasks, Existing, HasPayment, Calls
  <1>2. Becomes(w, NoTask)
    BY ReturnMoves DEF TypeInv
  <1> QED
    BY <1>1, <1>2, TasksKept DEF TypeInv

\* A handler that goes on to a call whose fields it has.
LEMMA GotoType ==
    ASSUME TypeInv, NEW w \in Workers, task[w].pc # "idle", NEW pc \in Calls, Goto(w, pc),
           DataOK',
           \A o \in Orders : ord[o] # "none" => ord'[o] # "none",
           \A o \in Orders : pay[o] # NoPayment => pay'[o] # NoPayment,
           PaymentNeedsOrder',
           \A u \in Tasks : SameBut(u, task[w], pc) => FieldsOK(u) /\ RowsExist(u, ord', pay')
    PROVE  TypeInv'
  <1>1. PICK u \in Tasks : Becomes(w, u) /\ SameBut(u, task[w], pc)
    BY GotoMoves DEF TypeInv
  <1> QED
    BY <1>1, TasksKept DEF TypeInv

\* What a worker is at, when it executes.
LEMMA BusyFacts ==
    ASSUME TypeInv, NEW w \in Workers, task[w].pc # "idle"
    PROVE  /\ OrderOf(w) \in Orders
           /\ task[w] \in Tasks
           /\ FieldsOK(task[w])
           /\ RowsExist(task[w], ord, pay)
  BY DEF TypeInv, TasksOK, FieldsOK, OrderOf

LEMMA RequestType ==
    ASSUME TypeInv, NEW w \in Workers, Request(w)
    PROVE  TypeInv'
  <1>1. ASSUME NEW o \in Orders, ReadCart(w, o)
        PROVE  TypeInv'
    <2>1. PICK t : t = Task("insertOrder", o)
      OBVIOUS
    <2>2. FieldsOK(t) /\ RowsExist(t, ord, pay)
      BY <2>1, TaskFacts DEF FieldsOK, RowsExist, Existing, HasPayment, Calls
    <2> QED
      BY <1>1, <2>1, <2>2, BeginType DEF ReadCart, countVars
  <1>2. ASSUME NEW o \in Orders, CancelMyOrder(w, o)
        PROVE  TypeInv'
    <2>1. PICK t : t = [Task("release", o) EXCEPT !.to = "cancelled", !.then = "return"]
      OBVIOUS
    <2>2. FieldsOK(t) /\ RowsExist(t, ord, pay)
      BY <1>2, <2>1
         DEF CancelMyOrder, Task, NoTask, Tasks, FieldsOK, RowsExist, Existing, HasPayment, Calls,
             OrderStatuses
    <2> QED
      BY <1>2, <2>1, <2>2, BeginType DEF CancelMyOrder, countVars
  <1>3. ASSUME NEW o \in Orders, SimulateSuccess(w, o)
        PROVE  TypeInv'
    <2>1. PICK t : t = [Task("requirePayment", o) EXCEPT
                            !.then = IF ord[o] = "pending" THEN "confirmOrder" ELSE "confirmStock"]
      OBVIOUS
    <2>2. FieldsOK(t) /\ RowsExist(t, ord, pay)
      BY <1>3, <2>1
         DEF SimulateSuccess, Task, NoTask, Tasks, FieldsOK, RowsExist, Existing, HasPayment, Calls
    <2> QED
      BY <1>3, <2>1, <2>2, BeginType DEF SimulateSuccess, countVars
  <1>4. ASSUME NEW o \in Orders, SimulateFailed(w, o)
        PROVE  TypeInv'
    <2>1. PICK t : t = Task("releaseFailed", o)
      OBVIOUS
    <2>2. pay[o] # NoPayment /\ ord[o] # "none"
      BY <1>4 DEF SimulateFailed, TypeInv, PaymentNeedsOrder
    <2>3. FieldsOK(t) /\ RowsExist(t, ord, pay)
      BY <2>1, <2>2, TaskFacts DEF FieldsOK, RowsExist, Existing, HasPayment, Calls
    <2> QED
      BY <1>4, <2>1, <2>3, BeginType DEF SimulateFailed, countVars
  <1>5. ASSUME NEW o \in Orders, NEW next \in OrderStatuses, NEW role \in Roles,
               UpdateStatus(w, o, next, role)
        PROVE  TypeInv'
    <2>1. PICK t : t = [Task(FirstCall(next), o) EXCEPT !.to = next, !.then = "return"]
      OBVIOUS
    <2>2. FirstCall(next) \in {"release", "ship", "save"}
      BY DEF FirstCall
    <2>3. FieldsOK(t) /\ RowsExist(t, ord, pay)
      BY <1>5, <2>1, <2>2
         DEF UpdateStatus, Task, NoTask, Tasks, FieldsOK, RowsExist, Existing, HasPayment, Calls
    <2> QED
      BY <1>5, <2>1, <2>3, BeginType DEF UpdateStatus, countVars
  <1>6. ASSUME NEW o \in Orders, NEW method \in Methods, CreatePayment(w, o, method)
        PROVE  TypeInv'
    <2>1. PICK t : t = [Task("findPayment", o) EXCEPT !.method = method]
      OBVIOUS
    <2>2. FieldsOK(t) /\ RowsExist(t, ord, pay)
      BY <1>6, <2>1
         DEF CreatePayment, Task, NoTask, Tasks, FieldsOK, RowsExist, Existing, HasPayment, Calls
    <2> QED
      BY <1>6, <2>1, <2>2, BeginType DEF CreatePayment, countVars
  <1>7. ASSUME NEW n \in Transfers, ReceiveWebhook(w, n)
        PROVE  TypeInv'
    <2>1. PICK t : t = [Task("getKey", TransferOrder[n]) EXCEPT !.transfer = n]
      OBVIOUS
    <2>2. TransferOrder[n] \in Orders
      BY TransferAssumption
    <2>3. FieldsOK(t) /\ RowsExist(t, ord, pay)
      BY <2>1, <2>2 DEF Task, NoTask, Tasks, FieldsOK, RowsExist, Existing, HasPayment, Calls
    <2> QED
      BY <1>7, <2>1, <2>3, BeginType DEF ReceiveWebhook
  <1> QED
    BY <1>1, <1>2, <1>3, <1>4, <1>5, <1>6, <1>7 DEF Request


\* The calls of createFromCart.
LEMMA CreateType ==
    ASSUME TypeInv, NEW w \in Workers,
           \/ InsertOrder(w) \/ Reserve(w) \/ ReserveFails(w) \/ MarkCouponUsed(w) \/ ClearCart(w)
    PROVE  TypeInv'
  <1>0. task[w].pc # "idle" /\ CouponOrders \subseteq Orders /\ Owner \in [Orders -> Customers]
    BY OwnerAssumption, CouponAssumption
       DEF InsertOrder, Reserve, ReserveFails, MarkCouponUsed, ClearCart, At
  <1>a. OrderOf(w) \in Orders /\ task[w] \in Tasks /\ FieldsOK(task[w]) /\ RowsExist(task[w], ord, pay)
    BY <1>0, BusyFacts
  <1>1. CASE InsertOrder(w)
    <2>1. /\ \A o \in Orders : ord'[o] = IF o = OrderOf(w) THEN "pending" ELSE ord[o]
          /\ ord' \in [Orders -> OrderStatuses \union {"none"}]
      BY <1>1, <1>a DEF InsertOrder, TypeInv, DataOK, OrderStatuses
    <2>2. DataOK' /\ PaymentNeedsOrder' /\ pay' = pay
      BY <1>1, <2>1
         DEF InsertOrder, TypeInv, DataOK, PaymentNeedsOrder, LedgerInv, StatusOK, PendingOrders,
             ledgerVars, payVars, countVars
    <2>3. ASSUME NEW u \in Tasks, SameBut(u, task[w], "reserve")
          PROVE  FieldsOK(u) /\ RowsExist(u, ord', pay')
      BY <1>a, <2>1, <2>3
         DEF SameBut, FieldsOK, RowsExist, OrderOf, HasPayment, Existing, Calls
    <2>4. "reserve" \in Calls /\ Goto(w, "reserve")
      BY <1>1 DEF InsertOrder, Calls
    <2> QED
      BY <1>0, <2>1, <2>2, <2>3, <2>4, GotoType
  <1>2. CASE Reserve(w)
    <2>1. LedgerInv' /\ ord' = ord /\ pay' = pay
      BY <1>2, <1>a, HoldKeeps DEF Reserve, TypeInv, DataOK, orderVars, payVars
    <2>2. DataOK'
      BY <1>2, <2>1 DEF Reserve, TypeInv, DataOK, orderVars, payVars, countVars
    <2>3. PICK pc \in {"markCoupon", "clearCart"} : Goto(w, pc)
      BY <1>2 DEF Reserve
    <2>4. ASSUME NEW u \in Tasks, SameBut(u, task[w], pc)
          PROVE  FieldsOK(u) /\ RowsExist(u, ord', pay')
      BY <1>2, <1>a, <2>1, <2>4
         DEF Reserve, At, SameBut, FieldsOK, RowsExist, OrderOf, HasPayment, Existing, Calls
    <2> QED
      BY <1>0, <2>1, <2>2, <2>3, <2>4, GotoType DEF Calls, TypeInv, PaymentNeedsOrder
  <1>3. CASE ReserveFails(w)
    <2>1. PICK t : t = [task[w] EXCEPT !.pc = "save", !.to = "cancelled", !.then = "return"]
      OBVIOUS
    <2>2. Becomes(w, t)
      BY <1>3, <2>1 DEF ReserveFails, Becomes, TypeInv, TasksOK
    <2>3. FieldsOK(t) /\ RowsExist(t, ord, pay)
      BY <1>3, <1>a, <2>1
         DEF ReserveFails, At, FieldsOK, RowsExist, Tasks, HasPayment, Existing, Calls, OrderStatuses
    <2> QED
      BY <1>3, <2>2, <2>3, DataFramed, TypeFramed DEF ReserveFails, countVars
  <1>4. CASE MarkCouponUsed(w)
    <2>1. DataOK' /\ ord' = ord /\ pay' = pay
      BY <1>4, <1>a
         DEF MarkCouponUsed, TypeInv, DataOK, LedgerInv, StatusOK, PendingOrders, ledgerVars,
             payVars, countVars
    <2>2. ASSUME NEW u \in Tasks, SameBut(u, task[w], "clearCart")
          PROVE  FieldsOK(u) /\ RowsExist(u, ord', pay')
      BY <1>4, <1>a, <2>1, <2>2
         DEF MarkCouponUsed, At, SameBut, FieldsOK, RowsExist, OrderOf, HasPayment, Existing, Calls
    <2>3. "clearCart" \in Calls /\ Goto(w, "clearCart")
      BY <1>4 DEF MarkCouponUsed, Calls
    <2> QED
      BY <1>0, <2>1, <2>2, <2>3, GotoType DEF TypeInv, PaymentNeedsOrder
  <1>5. CASE ClearCart(w)
    <2>1. DataOK' /\ ord' = ord /\ pay' = pay
      BY <1>5, <1>0, <1>a
         DEF ClearCart, TypeInv, DataOK, LedgerInv, StatusOK, PendingOrders, ledgerVars,
             payVars, countVars
    <2> QED
      BY <1>5, <2>1, ReturnType DEF ClearCart, TypeInv, PaymentNeedsOrder
  <1> QED
    BY <1>1, <1>2, <1>3, <1>4, <1>5

\* The calls of updateStatus and cancelMyOrder.
LEMMA UpdateType ==
    ASSUME TypeInv, NEW w \in Workers,
           Release(w) \/ RollbackCouponUsage(w) \/ Ship(w) \/ SaveOrder(w)
    PROVE  TypeInv'
  <1>0. task[w].pc # "idle"
    BY DEF Release, RollbackCouponUsage, Ship, SaveOrder, At
  <1>a. OrderOf(w) \in Orders /\ task[w] \in Tasks /\ FieldsOK(task[w]) /\ RowsExist(task[w], ord, pay)
    BY <1>0, BusyFacts
  <1>1. CASE Release(w)
    <2>1. LedgerInv' /\ ord' = ord /\ pay' = pay
      BY <1>1, <1>a, SettleIfPendingKeeps
         DEF Release, TypeInv, DataOK, orderVars, payVars, Ledger!Outcomes
    <2>2. DataOK'
      BY <1>1, <2>1 DEF Release, TypeInv, DataOK, orderVars, payVars, countVars
    <2>3. ASSUME NEW u \in Tasks, SameBut(u, task[w], "rollbackCoupon")
          PROVE  FieldsOK(u) /\ RowsExist(u, ord', pay')
      BY <1>1, <1>a, <2>1, <2>3
         DEF Release, At, SameBut, FieldsOK, RowsExist, OrderOf, HasPayment, Existing, Calls
    <2>4. "rollbackCoupon" \in Calls /\ Goto(w, "rollbackCoupon")
      BY <1>1 DEF Release, Calls
    <2> QED
      BY <1>0, <2>1, <2>2, <2>3, <2>4, GotoType DEF TypeInv, PaymentNeedsOrder
  <1>2. CASE RollbackCouponUsage(w) \/ Ship(w)
    <2>1. usage' \in [Orders -> BOOLEAN] /\ shipments' \in [Orders -> Nat]
      <3>0. usage \in [Orders -> BOOLEAN] /\ shipments \in [Orders -> Nat]
        BY DEF TypeInv, DataOK
      <3>1. CASE RollbackCouponUsage(w)
        BY <1>a, <3>0, <3>1 DEF RollbackCouponUsage
      <3>2. CASE Ship(w)
        <4>1. usage' = usage
          BY <3>2 DEF Ship
        <4>2. CASE shipments' = [shipments EXCEPT ![OrderOf(w)] = @ + 1]
          <5>1. shipments[OrderOf(w)] + 1 \in Nat
            BY <1>a, <3>0
          <5> QED
            BY <1>a, <3>0, <4>1, <4>2, <5>1
        <4>3. CASE UNCHANGED shipments
          BY <3>0, <4>1, <4>3
        <4> QED
          BY <3>2, <4>2, <4>3 DEF Ship
      <3> QED
        BY <1>2, <3>1, <3>2
    <2>2. DataOK' /\ ord' = ord /\ pay' = pay
      BY <1>2, <2>1
         DEF RollbackCouponUsage, Ship, TypeInv, DataOK, LedgerInv, StatusOK, PendingOrders,
             ledgerVars, payVars, countVars
    <2>3. ASSUME NEW u \in Tasks, SameBut(u, task[w], "save")
          PROVE  FieldsOK(u) /\ RowsExist(u, ord', pay')
      BY <1>2, <1>a, <2>2, <2>3
         DEF RollbackCouponUsage, Ship, At, SameBut, FieldsOK, RowsExist, OrderOf, HasPayment,
             Existing, Calls
    <2>4. "save" \in Calls /\ Goto(w, "save")
      BY <1>2 DEF RollbackCouponUsage, Ship, Calls
    <2> QED
      BY <1>0, <2>2, <2>3, <2>4, GotoType DEF TypeInv, PaymentNeedsOrder
  <1>3. CASE SaveOrder(w)
    <2>1. task[w].to \in OrderStatuses /\ task[w].then \in {"return", "confirmStock"}
      BY <1>3, <1>a DEF SaveOrder, At, FieldsOK
    <2>2. "none" \notin OrderStatuses
      BY DEF OrderStatuses
    <2>3. /\ ord' \in [Orders -> OrderStatuses \union {"none"}]
          /\ \A o \in Orders : ord'[o] = IF o = OrderOf(w) THEN task[w].to ELSE ord[o]
      BY <1>3, <1>a, <2>1 DEF SaveOrder, TypeInv, DataOK
    <2>4. \A o \in Orders : ord[o] # "none" => ord'[o] # "none"
      BY <2>1, <2>2, <2>3
    <2>5. DataOK' /\ pay' = pay
      BY <1>3, <2>3
         DEF SaveOrder, TypeInv, DataOK, LedgerInv, StatusOK, PendingOrders,
             ledgerVars, payVars, countVars
    <2>6. PaymentNeedsOrder'
      BY <2>4, <2>5 DEF TypeInv, PaymentNeedsOrder
    <2>7. CASE task[w].then = "return"
      BY <1>3, <2>4, <2>5, <2>6, <2>7, ReturnType DEF SaveOrder
    <2>8. CASE task[w].then = "confirmStock"
      <3>1. ASSUME NEW u \in Tasks, SameBut(u, task[w], "confirmStock")
            PROVE  FieldsOK(u) /\ RowsExist(u, ord', pay')
        BY <1>3, <1>a, <2>4, <2>5, <2>8, <3>1
           DEF SaveOrder, At, SameBut, FieldsOK, RowsExist, OrderOf, HasPayment, Existing, Calls
      <3>2. "confirmStock" \in Calls /\ Goto(w, "confirmStock")
        BY <1>3, <2>8 DEF SaveOrder, Calls
      <3> QED
        BY <1>0, <2>4, <2>5, <2>6, <3>1, <3>2, GotoType
    <2> QED
      BY <2>1, <2>7, <2>8
  <1> QED
    BY <1>1, <1>2, <1>3

\* A step that writes no table: what a handler reads decides what it does next.
LEMMA ReadType ==
    ASSUME TypeInv, NEW w \in Workers, task[w].pc # "idle",
           UNCHANGED <<ledgerVars, expired, orderVars, payVars, countVars>>,
           \/ Return(w)
           \/ \E pc \in Calls :
                /\ Goto(w, pc)
                /\ \A u \in Tasks : SameBut(u, task[w], pc) => FieldsOK(u) /\ RowsExist(u, ord, pay)
    PROVE  TypeInv'
  <1>1. DataOK' /\ ord' = ord /\ pay' = pay
    BY DataFramed DEF countVars
  <1>2. PaymentNeedsOrder'
    BY <1>1 DEF TypeInv, PaymentNeedsOrder
  <1>3. CASE Return(w)
    BY <1>1, <1>2, <1>3, ReturnType
  <1>4. ASSUME NEW pc \in Calls, Goto(w, pc),
               \A u \in Tasks : SameBut(u, task[w], pc) => FieldsOK(u) /\ RowsExist(u, ord, pay)
        PROVE  TypeInv'
    BY <1>1, <1>2, <1>4, GotoType
  <1> QED
    BY <1>3, <1>4

\* The calls of PaymentService.create.
LEMMA PaymentType ==
    ASSUME TypeInv, NEW w \in Workers, FindPayment(w) \/ InsertPayment(w) \/ ConfirmCod(w)
    PROVE  TypeInv'
  <1>0. task[w].pc # "idle"
    BY DEF FindPayment, InsertPayment, ConfirmCod, At
  <1>a. OrderOf(w) \in Orders /\ task[w] \in Tasks /\ FieldsOK(task[w]) /\ RowsExist(task[w], ord, pay)
    BY <1>0, BusyFacts
  <1>1. CASE FindPayment(w)
    <2>1. CASE Return(w)
      BY <1>0, <1>1, <2>1, ReadType DEF FindPayment
    <2>2. CASE Goto(w, "insertPayment")
      <3>1. ASSUME NEW u \in Tasks, SameBut(u, task[w], "insertPayment")
            PROVE  FieldsOK(u) /\ RowsExist(u, ord, pay)
        BY <1>1, <1>a, <3>1
           DEF FindPayment, At, SameBut, FieldsOK, RowsExist, HasPayment, Existing, Calls
      <3>2. "insertPayment" \in Calls
        BY DEF Calls
      <3> QED
        BY <1>0, <1>1, <2>2, <3>1, <3>2, ReadType DEF FindPayment
    <2> QED
      BY <1>1, <2>1, <2>2 DEF FindPayment
  <1>2. CASE InsertPayment(w)
    <2>1. CASE pay[OrderOf(w)] # NoPayment
      BY <1>0, <1>2, <2>1, ReadType DEF InsertPayment, payVars
    <2>2. CASE pay[OrderOf(w)] = NoPayment
      <3>1. PICK row : row = [method |-> task[w].method,
                              status |-> IF task[w].method = "cod" THEN "success" ELSE "pending"]
        OBVIOUS
      <3>2. row \in PaymentRow /\ row # NoPayment
        <4>1. task[w].method \in Methods
          BY <1>2, <1>a DEF InsertPayment, At, FieldsOK
        <4>2. row.status \in {"pending", "success"} /\ NoPayment.status = "none"
          BY <3>1 DEF NoPayment
        <4> QED
          BY <3>1, <4>1, <4>2 DEF PaymentRow
      <3>3. pay' = [pay EXCEPT ![OrderOf(w)] = row]
        BY <1>2, <2>2, <3>1 DEF InsertPayment
      <3>4. /\ pay' \in [Orders -> PaymentRow \union {NoPayment}]
            /\ \A o \in Orders : pay'[o] = IF o = OrderOf(w) THEN row ELSE pay[o]
        BY <1>a, <3>2, <3>3 DEF TypeInv, DataOK
      <3>5. DataOK' /\ ord' = ord
        BY <1>2, <3>4
           DEF InsertPayment, TypeInv, DataOK, LedgerInv, StatusOK, PendingOrders,
               ledgerVars, orderVars, countVars
      <3>6. ord[OrderOf(w)] # "none"
        BY <1>2, <1>a DEF InsertPayment, At, RowsExist, Existing, Calls, OrderOf
      <3>7. PaymentNeedsOrder'
        BY <3>4, <3>5, <3>6 DEF TypeInv, PaymentNeedsOrder
      <3>8. \A o \in Orders : pay[o] # NoPayment => pay'[o] # NoPayment
        BY <3>2, <3>4
      <3>9. CASE Return(w)
        BY <3>5, <3>7, <3>8, <3>9, ReturnType
      <3>10. CASE Goto(w, "confirmCod")
        <4>1. ASSUME NEW u \in Tasks, SameBut(u, task[w], "confirmCod")
              PROVE  FieldsOK(u) /\ RowsExist(u, ord', pay')
          <5>1. u.pc = "confirmCod" /\ u.order = OrderOf(w) /\ pay'[u.order] # NoPayment
            BY <1>a, <3>2, <3>4, <4>1 DEF SameBut, OrderOf
          <5> QED
            BY <1>a, <3>5, <3>6, <5>1 DEF FieldsOK, RowsExist, HasPayment, Existing, Calls
        <4>2. "confirmCod" \in Calls
          BY DEF Calls
        <4> QED
          BY <1>0, <3>5, <3>7, <3>8, <3>10, <4>1, <4>2, GotoType
      <3> QED
        BY <1>2, <2>2, <3>9, <3>10 DEF InsertPayment
    <2> QED
      BY <2>1, <2>2
  <1>3. CASE ConfirmCod(w)
    <2>1. LedgerInv' /\ ord' = ord /\ pay' = pay
      BY <1>3, <1>a, SettleIfPendingKeeps
         DEF ConfirmCod, TypeInv, DataOK, orderVars, payVars, Ledger!Outcomes
    <2>2. DataOK'
      BY <1>3, <2>1 DEF ConfirmCod, TypeInv, DataOK, orderVars, payVars, countVars
    <2> QED
      BY <1>3, <2>1, <2>2, ReturnType DEF ConfirmCod, TypeInv, PaymentNeedsOrder
  <1> QED
    BY <1>1, <1>2, <1>3

\* A step that writes only the payment row of the worker's order, whose payment
\* exists, and returns.
LEMMA SaveType ==
    ASSUME TypeInv, NEW w \in Workers, OrderOf(w) \in Orders, pay[OrderOf(w)] # NoPayment,
           NEW s \in {"success", "failed"}, pay' = [pay EXCEPT ![OrderOf(w)].status = s],
           Return(w), UNCHANGED <<ledgerVars, expired, orderVars, keys, countVars>>
    PROVE  /\ TypeInv'
           /\ \A o \in Orders : pay'[o].method = pay[o].method
           /\ \A o \in Orders : pay'[o].status = IF o = OrderOf(w) THEN s ELSE pay[o].status
  <1>1. pay \in [Orders -> PaymentRow \union {NoPayment}]
    BY DEF TypeInv, DataOK
  <1>2. pay[OrderOf(w)] \in PaymentRow
    BY <1>1
  <1>r. PICK row : row = [pay[OrderOf(w)] EXCEPT !.status = s]
    OBVIOUS
  <1>3. row \in PaymentRow /\ row.status = s /\ row.method = pay[OrderOf(w)].method
    BY <1>r, <1>2 DEF PaymentRow
  <1>4. /\ pay' \in [Orders -> PaymentRow \union {NoPayment}]
        /\ \A o \in Orders : pay'[o] = IF o = OrderOf(w) THEN row ELSE pay[o]
    BY <1>r, <1>1, <1>3
  <1>5. row # NoPayment
    BY <1>3 DEF NoPayment
  <1>6. DataOK' /\ ord' = ord
    BY <1>4
       DEF TypeInv, DataOK, LedgerInv, StatusOK, PendingOrders, ledgerVars, orderVars, countVars
  <1>7. \A o \in Orders : pay[o] # NoPayment => pay'[o] # NoPayment
    BY <1>4, <1>5
  <1>8. PaymentNeedsOrder'
    BY <1>4, <1>6 DEF TypeInv, PaymentNeedsOrder
  <1>9. TypeInv'
    BY <1>6, <1>7, <1>8, ReturnType
  <1> QED
    BY <1>3, <1>4, <1>9

\* The calls of the webhook, and of simulateSuccess.
LEMMA WebhookType ==
    ASSUME TypeInv, NEW w \in Workers,
           \/ GetKey(w) \/ StoreKey(w) \/ LoadPayment(w) \/ LoadOrder(w) \/ ConfirmOrder(w)
           \/ ConfirmStock(w) \/ SavePaid(w) \/ RequirePayment(w)
    PROVE  TypeInv'
  <1>0. task[w].pc # "idle"
    BY DEF GetKey, StoreKey, LoadPayment, LoadOrder, ConfirmOrder, ConfirmStock, SavePaid,
           RequirePayment, At
  <1>a. OrderOf(w) \in Orders /\ task[w] \in Tasks /\ FieldsOK(task[w]) /\ RowsExist(task[w], ord, pay)
    BY <1>0, BusyFacts
  <1>b. pay[OrderOf(w)] # NoPayment => ord[OrderOf(w)] # "none"
    BY <1>a DEF TypeInv, PaymentNeedsOrder
  <1>1. CASE GetKey(w)
    <2>1. CASE Return(w)
      BY <1>0, <1>1, <2>1, ReadType DEF GetKey
    <2>2. CASE Goto(w, "storeKey")
      <3>1. ASSUME NEW u \in Tasks, SameBut(u, task[w], "storeKey")
            PROVE  FieldsOK(u) /\ RowsExist(u, ord, pay)
        BY <1>1, <1>a, <3>1
           DEF GetKey, At, SameBut, FieldsOK, RowsExist, HasPayment, Existing, Calls
      <3>2. "storeKey" \in Calls
        BY DEF Calls
      <3> QED
        BY <1>0, <1>1, <2>2, <3>1, <3>2, ReadType DEF GetKey
    <2> QED
      BY <1>1, <2>1, <2>2 DEF GetKey
  <1>2. CASE StoreKey(w)
    <2>1. task[w].transfer \in Transfers
      BY <1>2, <1>a DEF StoreKey, At, FieldsOK
    <2>2. DataOK' /\ ord' = ord /\ pay' = pay
      BY <1>2, <2>1
         DEF StoreKey, TypeInv, DataOK, LedgerInv, StatusOK, PendingOrders,
             ledgerVars, orderVars, countVars
    <2>3. ASSUME NEW u \in Tasks, SameBut(u, task[w], "loadPayment")
          PROVE  FieldsOK(u) /\ RowsExist(u, ord', pay')
      BY <1>2, <1>a, <2>2, <2>3
         DEF StoreKey, At, SameBut, FieldsOK, RowsExist, HasPayment, Existing, Calls
    <2>4. "loadPayment" \in Calls /\ Goto(w, "loadPayment")
      BY <1>2 DEF StoreKey, Calls
    <2> QED
      BY <1>0, <2>2, <2>3, <2>4, GotoType DEF TypeInv, PaymentNeedsOrder
  <1>3. CASE LoadPayment(w)
    <2>1. CASE Return(w)
      BY <1>0, <1>3, <2>1, ReadType DEF LoadPayment
    <2>2. CASE pay[OrderOf(w)].status \notin {"none", "success"} /\ Goto(w, "loadOrder")
      <3>0. pay[OrderOf(w)] # NoPayment
        BY <2>2 DEF NoPayment
      <3>1. ASSUME NEW u \in Tasks, SameBut(u, task[w], "loadOrder")
            PROVE  FieldsOK(u) /\ RowsExist(u, ord, pay)
        BY <1>3, <1>a, <1>b, <3>0, <3>1
           DEF LoadPayment, At, SameBut, FieldsOK, RowsExist, OrderOf, HasPayment, Existing, Calls
      <3>2. "loadOrder" \in Calls
        BY DEF Calls
      <3> QED
        BY <1>0, <1>3, <2>2, <3>1, <3>2, ReadType DEF LoadPayment
    <2> QED
      BY <1>3, <2>1, <2>2 DEF LoadPayment
  <1>4. CASE LoadOrder(w)
    <2>1. PICK pc \in {"confirmOrder", "confirmStock"} : Goto(w, pc)
      BY <1>4 DEF LoadOrder
    <2>2. ASSUME NEW u \in Tasks, SameBut(u, task[w], pc)
          PROVE  FieldsOK(u) /\ RowsExist(u, ord, pay)
      BY <1>4, <1>a, <2>1, <2>2
         DEF LoadOrder, At, SameBut, FieldsOK, RowsExist, OrderOf, HasPayment, Existing, Calls
    <2>3. pc \in Calls
      BY <2>1 DEF Calls
    <2> QED
      BY <1>0, <1>4, <2>1, <2>2, <2>3, ReadType DEF LoadOrder
  <1>5. CASE ConfirmOrder(w)
    <2>1. CASE Return(w)
      BY <1>0, <1>5, <2>1, ReadType DEF ConfirmOrder
    <2>2. PICK t : t = [task[w] EXCEPT !.pc = "save", !.to = "confirmed", !.then = "confirmStock"]
      OBVIOUS
    <2>3. CASE task' = [task EXCEPT ![w] = t]
      <3>1. Becomes(w, t)
        BY <2>3 DEF Becomes, TypeInv, TasksOK
      <3>2. FieldsOK(t) /\ RowsExist(t, ord, pay)
        BY <1>5, <1>a, <2>2
           DEF ConfirmOrder, At, FieldsOK, RowsExist, Tasks, HasPayment, Existing, Calls, OrderStatuses
      <3> QED
        BY <1>5, <3>1, <3>2, DataFramed, TypeFramed DEF ConfirmOrder, countVars
    <2> QED
      BY <1>5, <2>1, <2>2, <2>3 DEF ConfirmOrder
  <1>6. CASE ConfirmStock(w)
    <2>1. LedgerInv' /\ ord' = ord /\ pay' = pay
      BY <1>6, <1>a, SettleIfPendingKeeps
         DEF ConfirmStock, TypeInv, DataOK, orderVars, payVars, Ledger!Outcomes
    <2>2. DataOK'
      BY <1>6, <2>1 DEF ConfirmStock, TypeInv, DataOK, orderVars, payVars, countVars
    <2>3. ASSUME NEW u \in Tasks, SameBut(u, task[w], "savePaid")
          PROVE  FieldsOK(u) /\ RowsExist(u, ord', pay')
      BY <1>6, <1>a, <2>1, <2>3
         DEF ConfirmStock, At, SameBut, FieldsOK, RowsExist, OrderOf, HasPayment, Existing, Calls
    <2>4. "savePaid" \in Calls /\ Goto(w, "savePaid")
      BY <1>6 DEF ConfirmStock, Calls
    <2> QED
      BY <1>0, <2>1, <2>2, <2>3, <2>4, GotoType DEF TypeInv, PaymentNeedsOrder
  <1>7. CASE SavePaid(w)
    <2>1. pay[OrderOf(w)] # NoPayment
      BY <1>7, <1>a DEF SavePaid, At, RowsExist, HasPayment, OrderOf
    <2> QED
      BY <1>7, <1>a, <2>1, SaveType DEF SavePaid
  <1>8. CASE RequirePayment(w)
    <2>1. CASE Return(w)
      BY <1>0, <1>8, <2>1, ReadType DEF RequirePayment
    <2>2. CASE pay[OrderOf(w)] # NoPayment /\ Goto(w, task[w].then)
      <3>1. PICK pc \in {"confirmOrder", "confirmStock"} : pc = task[w].then
        BY <1>8, <1>a DEF RequirePayment, At, FieldsOK
      <3>2. ASSUME NEW u \in Tasks, SameBut(u, task[w], pc)
            PROVE  FieldsOK(u) /\ RowsExist(u, ord, pay)
        BY <1>8, <1>a, <1>b, <2>2, <3>1, <3>2
           DEF RequirePayment, At, SameBut, FieldsOK, RowsExist, OrderOf, HasPayment, Existing, Calls
      <3>3. pc \in Calls /\ Goto(w, pc)
        BY <2>2, <3>1 DEF Calls
      <3> QED
        BY <1>0, <1>8, <3>2, <3>3, ReadType DEF RequirePayment
    <2> QED
      BY <1>8, <2>1, <2>2 DEF RequirePayment
  <1> QED
    BY <1>1, <1>2, <1>3, <1>4, <1>5, <1>6, <1>7, <1>8

\* The calls of simulateFailed, the queue job, the clock and a crash.
LEMMA OtherType ==
    ASSUME TypeInv,
           \/ \E w \in Workers : ReleaseFailed(w) \/ SaveFailed(w) \/ Crash(w)
           \/ \E o \in Orders : Elapse(o)
           \/ \E n \in Transfers : ExpireKey(n)
           \/ ReleaseExpired
           \/ UNCHANGED vars
    PROVE  TypeInv'
  <1>1. ASSUME NEW w \in Workers, ReleaseFailed(w)
        PROVE  TypeInv'
    <2>0. task[w].pc # "idle"
      BY <1>1 DEF ReleaseFailed, At
    <2>a. OrderOf(w) \in Orders /\ FieldsOK(task[w]) /\ RowsExist(task[w], ord, pay)
      BY <2>0, BusyFacts
    <2>1. LedgerInv' /\ ord' = ord /\ pay' = pay
      BY <1>1, <2>a, SettleIfPendingKeeps
         DEF ReleaseFailed, TypeInv, DataOK, orderVars, payVars, Ledger!Outcomes
    <2>2. DataOK'
      BY <1>1, <2>1 DEF ReleaseFailed, TypeInv, DataOK, orderVars, payVars, countVars
    <2>3. ASSUME NEW u \in Tasks, SameBut(u, task[w], "saveFailed")
          PROVE  FieldsOK(u) /\ RowsExist(u, ord', pay')
      BY <1>1, <2>a, <2>1, <2>3
         DEF ReleaseFailed, At, SameBut, FieldsOK, RowsExist, OrderOf, HasPayment, Existing, Calls
    <2>4. "saveFailed" \in Calls /\ Goto(w, "saveFailed")
      BY <1>1 DEF ReleaseFailed, Calls
    <2> QED
      BY <2>0, <2>1, <2>2, <2>3, <2>4, GotoType DEF TypeInv, PaymentNeedsOrder
  <1>2. ASSUME NEW w \in Workers, SaveFailed(w)
        PROVE  TypeInv'
    <2>0. task[w].pc # "idle"
      BY <1>2 DEF SaveFailed, At
    <2>a. OrderOf(w) \in Orders /\ RowsExist(task[w], ord, pay)
      BY <2>0, BusyFacts
    <2>1. pay[OrderOf(w)] # NoPayment
      BY <1>2, <2>a DEF SaveFailed, At, RowsExist, HasPayment, OrderOf
    <2> QED
      BY <1>2, <2>a, <2>1, SaveType DEF SaveFailed
  <1>3. ASSUME NEW w \in Workers, Crash(w)
        PROVE  TypeInv'
    <2>1. DataOK' /\ ord' = ord /\ pay' = pay
      BY <1>3
         DEF Crash, TypeInv, DataOK, LedgerInv, StatusOK, PendingOrders, ledgerVars, orderVars, payVars
    <2> QED
      BY <1>3, <2>1, ReturnType DEF Crash, TypeInv, PaymentNeedsOrder
  <1>4. ASSUME NEW o \in Orders, Elapse(o)
        PROVE  TypeInv'
    BY <1>4
       DEF Elapse, TypeInv, DataOK, TasksOK, PaymentNeedsOrder, LedgerInv, StatusOK, PendingOrders,
           ledgerVars, orderVars, payVars, countVars
  <1>5. ASSUME NEW n \in Transfers, ExpireKey(n)
        PROVE  TypeInv'
    BY <1>5
       DEF ExpireKey, TypeInv, DataOK, TasksOK, PaymentNeedsOrder, LedgerInv, StatusOK, PendingOrders,
           ledgerVars, orderVars, countVars
  <1>6. CASE ReleaseExpired
    <2>1. PICK S \in SUBSET Orders : Ledger!Settle(S, "expired")
      BY <1>6 DEF ReleaseExpired, TypeInv, DataOK
    <2>2. LedgerInv'
      BY <2>1, SettleKeeps DEF TypeInv, DataOK, Ledger!Outcomes
    <2> QED
      BY <1>6, <2>2
         DEF ReleaseExpired, TypeInv, DataOK, TasksOK, PaymentNeedsOrder, orderVars, payVars, countVars
  <1>7. CASE UNCHANGED vars
    BY <1>7
       DEF vars, TypeInv, DataOK, TasksOK, PaymentNeedsOrder, LedgerInv, StatusOK, PendingOrders,
           ledgerVars, orderVars, payVars, countVars
  <1> QED
    BY <1>1, <1>2, <1>3, <1>4, <1>5, <1>6, <1>7

LEMMA NextType == TypeInv /\ [Next]_vars => TypeInv'
  <1> SUFFICES ASSUME TypeInv, [Next]_vars
               PROVE  TypeInv'
    OBVIOUS
  <1>1. ASSUME NEW w \in Workers, Advance(w)
        PROVE  TypeInv'
    BY <1>1, CreateType, UpdateType, PaymentType, WebhookType, OtherType DEF Advance
  <1> QED
    BY <1>1, RequestType, OtherType DEF Next, Quiescent

LEMMA InitType == Init => TypeInv
  <1> SUFFICES ASSUME Init
               PROVE  TypeInv
    OBVIOUS
  <1>1. StatusOK /\ PendingOrders = {}
    BY DEF Init, Ledger!Init, StatusOK, PendingOrders
  <1>2. \A p \in Products : Ledger!DemandOf({}, p) = 0
    BY LedgerSum, SumEmpty DEF Ledger!DemandOf
  <1>3. LedgerInv
    BY <1>1, <1>2, FS_EmptySet, StockAssumption DEF Init, Ledger!Init, LedgerInv
  <1>4. FieldsOK(NoTask) /\ NoTask.pc = "idle"
    BY DEF NoTask, FieldsOK, Tasks, Calls
  <1>5. TasksOK
    BY <1>4 DEF Init, TasksOK, RowsExist, HasPayment, Existing, Calls
  <1>6. DataOK /\ PaymentNeedsOrder
    BY <1>3 DEF Init, DataOK, PaymentNeedsOrder
  <1> QED
    BY <1>5, <1>6 DEF TypeInv

LEMMA TypeAlways == Spec => []TypeInv
  BY InitType, NextType, PTL DEF Spec

\* Every variable has its type whatever handlers do at the same time, and no
\* handler works on an order that does not exist; stock that is reserved never
\* becomes negative.
THEOREM TypeCorrect == Spec => []TypeOK
  <1>1. TypeInv => TypeOK
    <2> SUFFICES ASSUME TypeInv
                 PROVE  TypeOK
      OBVIOUS
    <2>1. \A p \in Products : available[p] \in Nat /\ reserved[p] \in Nat
      <3>1. PendingOrders \in SUBSET Orders /\ IsFiniteSet(PendingOrders)
        BY DEF TypeInv, DataOK, LedgerInv, PendingOrders
      <3> QED
        BY <3>1, DemandFacts DEF TypeInv, DataOK, LedgerInv
    <2>2. ASSUME NEW w \in Workers
          PROVE  /\ task[w] = NoTask \/ (task[w].pc \in Calls /\ OrderOf(w) \in Orders)
                 /\ task[w].pc \in Calls \ {"insertOrder", "getKey", "storeKey", "loadPayment"} =>
                        ord[OrderOf(w)] # "none"
      BY DEF TypeInv, TasksOK, FieldsOK, RowsExist, Existing, Tasks, OrderOf
    <2> QED
      BY <2>1, <2>2 DEF TypeOK, TypeInv, DataOK, LedgerInv, StatusOK, PaymentRow
  <1> QED
    BY <1>1, TypeAlways, PTL

-----------------------------------------------------------------------------
(***************************************************************************)
(* How a handler goes on.                                                  *)
(***************************************************************************)
Flow ==
    {<<"insertOrder", "reserve">>, <<"reserve", "markCoupon">>, <<"reserve", "clearCart">>,
     <<"reserve", "save">>, <<"markCoupon", "clearCart">>,
     <<"release", "rollbackCoupon">>, <<"rollbackCoupon", "save">>, <<"ship", "save">>,
     <<"save", "confirmStock">>,
     <<"findPayment", "insertPayment">>, <<"insertPayment", "confirmCod">>,
     <<"getKey", "storeKey">>, <<"storeKey", "loadPayment">>, <<"loadPayment", "loadOrder">>,
     <<"loadOrder", "confirmOrder">>, <<"loadOrder", "confirmStock">>,
     <<"confirmOrder", "save">>, <<"confirmStock", "savePaid">>,
     <<"requirePayment", "confirmOrder">>, <<"requirePayment", "confirmStock">>,
     <<"releaseFailed", "saveFailed">>}

FirstCalls ==
    {"insertOrder", "release", "ship", "save", "findPayment", "getKey", "requirePayment",
     "releaseFailed"}

LEMMA GotoFlow ==
    ASSUME TypeInv, NEW w \in Workers, NEW pc \in Calls, Goto(w, pc)
    PROVE  /\ task'[w].pc = pc
           /\ task'[w].order = OrderOf(w)
           /\ \A v \in Workers \ {w} : task'[v] = task[v]
  <1>1. PICK u \in Tasks : Becomes(w, u) /\ SameBut(u, task[w], pc)
    BY GotoMoves DEF TypeInv
  <1> QED
    BY <1>1 DEF Becomes, SameBut, OrderOf

\* A handler that runs makes the next call for the order it works on, or
\* returns; the others are where they were.
LEMMA AdvanceFlow ==
    ASSUME TypeInv, NEW w \in Workers, Advance(w)
    PROVE  /\ \A v \in Workers \ {w} : task'[v] = task[v]
           /\ task[w].pc \in Calls
           /\ \/ task'[w] = NoTask
              \/ /\ task'[w].order = OrderOf(w)
                 /\ <<task[w].pc, task'[w].pc>> \in Flow
  <1>r. Return(w) => task'[w] = NoTask /\ \A v \in Workers \ {w} : task'[v] = task[v]
    BY DEF Return, TypeInv, TasksOK
  <1>c. \A q \in Flow : q[1] \in Calls /\ q[2] \in Calls
    BY DEF Flow, Calls
  <1>g. ASSUME NEW pc \in Calls, Goto(w, pc), <<task[w].pc, pc>> \in Flow
        PROVE  /\ task'[w].order = OrderOf(w) /\ <<task[w].pc, task'[w].pc>> \in Flow
               /\ \A v \in Workers \ {w} : task'[v] = task[v]
    BY <1>g, GotoFlow
  <1>1. CASE InsertOrder(w) \/ Reserve(w) \/ MarkCouponUsed(w) \/ ClearCart(w)
    BY <1>1, <1>r, <1>g
       DEF InsertOrder, Reserve, MarkCouponUsed, ClearCart, At, Flow, Calls
  <1>2. CASE ReserveFails(w)
    <2>1. PICK t : t = [task[w] EXCEPT !.pc = "save", !.to = "cancelled", !.then = "return"]
      OBVIOUS
    <2>2. Becomes(w, t)
      BY <1>2, <2>1 DEF ReserveFails, Becomes, TypeInv, TasksOK
    <2>3. task[w].pc = "reserve" /\ task[w] \in Tasks
      BY <1>2 DEF ReserveFails, At, TypeInv, TasksOK, FieldsOK
    <2>4. t.pc = "save" /\ t.order = OrderOf(w)
      BY <2>1, <2>3 DEF Tasks, OrderOf
    <2> QED
      BY <2>2, <2>3, <2>4 DEF Becomes, Flow, Calls
  <1>3. CASE Release(w) \/ RollbackCouponUsage(w) \/ Ship(w)
    BY <1>3, <1>g DEF Release, RollbackCouponUsage, Ship, At, Flow, Calls
  <1>4. CASE SaveOrder(w)
    <2>1. task[w].then \in {"return", "confirmStock"}
      BY <1>4 DEF SaveOrder, At, TypeInv, TasksOK, FieldsOK
    <2> QED
      BY <1>4, <1>r, <1>g, <2>1 DEF SaveOrder, At, Flow, Calls
  <1>5. CASE FindPayment(w) \/ InsertPayment(w) \/ ConfirmCod(w)
    BY <1>5, <1>r, <1>g DEF FindPayment, InsertPayment, ConfirmCod, At, Flow, Calls
  <1>6. CASE GetKey(w) \/ StoreKey(w) \/ LoadPayment(w) \/ LoadOrder(w)
    BY <1>6, <1>r, <1>g DEF GetKey, StoreKey, LoadPayment, LoadOrder, At, Flow, Calls
  <1>7. CASE ConfirmOrder(w)
    <2>0. task[w].pc = "confirmOrder" /\ task[w] \in Tasks
      BY <1>7 DEF ConfirmOrder, At, TypeInv, TasksOK, FieldsOK
    <2>1. PICK t : t = [task[w] EXCEPT !.pc = "save", !.to = "confirmed", !.then = "confirmStock"]
      OBVIOUS
    <2>2. CASE task' = [task EXCEPT ![w] = t]
      <3>1. Becomes(w, t)
        BY <2>2 DEF Becomes, TypeInv, TasksOK
      <3>2. t.pc = "save" /\ t.order = OrderOf(w)
        BY <2>0, <2>1 DEF Tasks, OrderOf
      <3> QED
        BY <2>0, <3>1, <3>2 DEF Becomes, Flow, Calls
    <2>3. CASE Return(w)
      BY <1>r, <2>0, <2>3 DEF Calls
    <2> QED
      BY <1>7, <2>1, <2>2, <2>3 DEF ConfirmOrder
  <1>8. CASE ConfirmStock(w) \/ SavePaid(w) \/ ReleaseFailed(w) \/ SaveFailed(w)
    BY <1>8, <1>r, <1>g DEF ConfirmStock, SavePaid, ReleaseFailed, SaveFailed, At, Flow, Calls
  <1>9. CASE RequirePayment(w)
    <2>1. task[w].then \in {"confirmOrder", "confirmStock"}
      BY <1>9 DEF RequirePayment, At, TypeInv, TasksOK, FieldsOK
    <2> QED
      BY <1>9, <1>r, <1>g, <2>1 DEF RequirePayment, At, Flow, Calls
  <1> QED
    BY <1>1, <1>2, <1>3, <1>4, <1>5, <1>6, <1>7, <1>8, <1>9 DEF Advance

LEMMA RequestFlow ==
    ASSUME TypeInv, NEW w \in Workers, Request(w)
    PROVE  /\ \A v \in Workers \ {w} : task'[v] = task[v]
           /\ task[w].pc = "idle"
           /\ task'[w].pc \in FirstCalls
           /\ task'[w].pc = "releaseFailed" => "failed" \in Simulations
           /\ UNCHANGED <<ledgerVars, orderVars, payVars, crashes>>
  <1>m. ASSUME NEW t, Begin(w, t)
        PROVE  /\ task'[w] = t /\ task[w].pc = "idle"
               /\ \A v \in Workers \ {w} : task'[v] = task[v]
    BY <1>m, BeginMoves DEF TypeInv, Becomes
  <1>t. ASSUME NEW pc, NEW o
        PROVE  Task(pc, o).pc = pc
    BY DEF Task, NoTask
  <1>1. ASSUME NEW o \in Orders, ReadCart(w, o)
        PROVE  task'[w].pc = "insertOrder" /\ task[w].pc = "idle"
               /\ \A v \in Workers \ {w} : task'[v] = task[v]
    BY <1>1, <1>m, <1>t DEF ReadCart
  <1>2. ASSUME NEW o \in Orders, CancelMyOrder(w, o)
        PROVE  task'[w].pc = "release" /\ task[w].pc = "idle"
               /\ \A v \in Workers \ {w} : task'[v] = task[v]
    <2>1. PICK t : t = [Task("release", o) EXCEPT !.to = "cancelled", !.then = "return"]
      OBVIOUS
    <2>2. t.pc = "release"
      BY <2>1 DEF Task, NoTask
    <2> QED
      BY <1>2, <1>m, <2>1, <2>2 DEF CancelMyOrder
  <1>3. ASSUME NEW o \in Orders, SimulateSuccess(w, o)
        PROVE  task'[w].pc = "requirePayment" /\ task[w].pc = "idle"
               /\ \A v \in Workers \ {w} : task'[v] = task[v]
    <2>1. PICK t : t = [Task("requirePayment", o) EXCEPT
                            !.then = IF ord[o] = "pending" THEN "confirmOrder" ELSE "confirmStock"]
      OBVIOUS
    <2>2. t.pc = "requirePayment"
      BY <2>1 DEF Task, NoTask
    <2> QED
      BY <1>3, <1>m, <2>1, <2>2 DEF SimulateSuccess
  <1>4. ASSUME NEW o \in Orders, SimulateFailed(w, o)
        PROVE  task'[w].pc = "releaseFailed" /\ task[w].pc = "idle" /\ "failed" \in Simulations
               /\ \A v \in Workers \ {w} : task'[v] = task[v]
    BY <1>4, <1>m, <1>t DEF SimulateFailed
  <1>5. ASSUME NEW o \in Orders, NEW next \in OrderStatuses, NEW role \in Roles,
               UpdateStatus(w, o, next, role)
        PROVE  task'[w].pc \in {"release", "ship", "save"} /\ task[w].pc = "idle"
               /\ \A v \in Workers \ {w} : task'[v] = task[v]
    <2>1. PICK t : t = [Task(FirstCall(next), o) EXCEPT !.to = next, !.then = "return"]
      OBVIOUS
    <2>2. t.pc = FirstCall(next)
      BY <2>1 DEF Task, NoTask
    <2>3. FirstCall(next) \in {"release", "ship", "save"}
      BY DEF FirstCall
    <2> QED
      BY <1>5, <1>m, <2>1, <2>2, <2>3 DEF UpdateStatus
  <1>6. ASSUME NEW o \in Orders, NEW method \in Methods, CreatePayment(w, o, method)
        PROVE  task'[w].pc = "findPayment" /\ task[w].pc = "idle"
               /\ \A v \in Workers \ {w} : task'[v] = task[v]
    <2>1. PICK t : t = [Task("findPayment", o) EXCEPT !.method = method]
      OBVIOUS
    <2>2. t.pc = "findPayment"
      BY <2>1 DEF Task, NoTask
    <2> QED
      BY <1>6, <1>m, <2>1, <2>2 DEF CreatePayment
  <1>7. ASSUME NEW n \in Transfers, ReceiveWebhook(w, n)
        PROVE  task'[w].pc = "getKey" /\ task[w].pc = "idle"
               /\ \A v \in Workers \ {w} : task'[v] = task[v]
    <2>1. PICK t : t = [Task("getKey", TransferOrder[n]) EXCEPT !.transfer = n]
      OBVIOUS
    <2>2. t.pc = "getKey"
      BY <2>1 DEF Task, NoTask
    <2> QED
      BY <1>7, <1>m, <2>1, <2>2 DEF ReceiveWebhook
  <1>8. UNCHANGED <<ledgerVars, orderVars, payVars, crashes>>
    BY DEF Request, ReadCart, CancelMyOrder, SimulateSuccess, SimulateFailed, UpdateStatus,
           CreatePayment, ReceiveWebhook, countVars
  <1> QED
    BY <1>1, <1>2, <1>3, <1>4, <1>5, <1>6, <1>7, <1>8 DEF Request, FirstCalls

\* The queue job, the clock and redis touch no handler.
LEMMA BackgroundFlow ==
    ASSUME TypeInv, [Next]_vars
    PROVE  \/ \E w \in Workers : Request(w) \/ Advance(w) \/ Crash(w)
           \/ task' = task /\ ord' = ord /\ usage' = usage /\ pay' = pay
  BY DEF Next, Quiescent, Elapse, ExpireKey, ReleaseExpired, vars, orderVars, payVars

LEMMA CrashFlow ==
    ASSUME TypeInv, NEW w \in Workers, Crash(w)
    PROVE  /\ \A v \in Workers \ {w} : task'[v] = task[v]
           /\ task'[w] = NoTask
           /\ UNCHANGED <<ledgerVars, orderVars, payVars>>
           /\ crashes < MaxCrashes
  BY ReturnMoves DEF Crash, TypeInv, Becomes

-----------------------------------------------------------------------------
(***************************************************************************)
(* Reservations, coupons and payments.                                     *)
(***************************************************************************)
\* Who changes the status of a reservation, and to what.
LEMMA StatusSteps ==
    ASSUME TypeInv, [Next]_vars, NEW o \in Orders, status'[o] # status[o]
    PROVE  \/ \E w \in Workers :
                /\ Reserve(w) /\ OrderOf(w) = o
                /\ status[o] = "none" /\ status'[o] = "pending"
           \/ \E w \in Workers :
                /\ Release(w) \/ ReleaseFailed(w)
                /\ OrderOf(w) = o /\ status[o] = "pending" /\ status'[o] = "released"
           \/ \E w \in Workers :
                /\ ConfirmCod(w) \/ ConfirmStock(w)
                /\ OrderOf(w) = o /\ status[o] = "pending" /\ status'[o] = "confirmed"
           \/ status[o] = "pending" /\ status'[o] = "expired"
  <1>i. LedgerInv
    BY DEF TypeInv, DataOK
  <1>b. \A w \in Workers : ~Idle(w) => OrderOf(w) \in Orders
    BY BusyFacts DEF Idle
  <1>1. ASSUME NEW w \in Workers, Reserve(w)
        PROVE  OrderOf(w) = o /\ status[o] = "none" /\ status'[o] = "pending"
    <2>1. OrderOf(w) \in Orders
      BY <1>1, <1>b DEF Reserve, At, Idle
    <2> QED
      BY <1>1, <1>i, <2>1, HoldKeeps DEF Reserve
  <1>2. ASSUME NEW w \in Workers, Release(w) \/ ReleaseFailed(w)
        PROVE  OrderOf(w) = o /\ status[o] = "pending" /\ status'[o] = "released"
    <2>1. OrderOf(w) \in Orders
      BY <1>2, <1>b DEF Release, ReleaseFailed, At, Idle
    <2> QED
      BY <1>2, <1>i, <2>1, SettleIfPendingKeeps DEF Release, ReleaseFailed, Ledger!Outcomes
  <1>3. ASSUME NEW w \in Workers, ConfirmCod(w) \/ ConfirmStock(w)
        PROVE  OrderOf(w) = o /\ status[o] = "pending" /\ status'[o] = "confirmed"
    <2>1. OrderOf(w) \in Orders
      BY <1>3, <1>b DEF ConfirmCod, ConfirmStock, At, Idle
    <2> QED
      BY <1>3, <1>i, <2>1, SettleIfPendingKeeps DEF ConfirmCod, ConfirmStock, Ledger!Outcomes
  <1>4. CASE ReleaseExpired
    <2>1. PICK S \in SUBSET Orders : Ledger!Settle(S, "expired")
      BY <1>4 DEF ReleaseExpired, TypeInv, DataOK
    <2> QED
      BY <1>i, <2>1, SettleKeeps DEF Ledger!Outcomes
  <1>6. ASSUME NEW w \in Workers, Advance(w)
        PROVE  \/ Reserve(w) \/ Release(w) \/ ReleaseFailed(w) \/ ConfirmCod(w) \/ ConfirmStock(w)
               \/ UNCHANGED status
    BY <1>6
       DEF Advance, ledgerVars, InsertOrder, ReserveFails, MarkCouponUsed, ClearCart,
           RollbackCouponUsage, Ship, SaveOrder, FindPayment, InsertPayment, GetKey, StoreKey,
           LoadPayment, LoadOrder, ConfirmOrder, SavePaid, RequirePayment, SaveFailed
  <1>7. ASSUME NEW w \in Workers, Request(w) \/ Crash(w)
        PROVE  UNCHANGED status
    BY <1>7, RequestFlow, CrashFlow DEF ledgerVars
  <1>8. CASE (\E c \in Orders : Elapse(c)) \/ (\E n \in Transfers : ExpireKey(n)) \/ UNCHANGED vars
    BY <1>8 DEF Elapse, ExpireKey, vars, ledgerVars
  <1> QED
    BY <1>1, <1>2, <1>3, <1>4, <1>6, <1>7, <1>8 DEF Next, Quiescent

\* A reservation that was made stays on record.
LEMMA StatusStays ==
    ASSUME TypeInv, [Next]_vars, NEW o \in Orders, status[o] # "none"
    PROVE  status'[o] # "none"
  BY StatusSteps

LEMMA UsageSteps ==
    ASSUME TypeInv, [Next]_vars, NEW o \in Orders, usage'[o] # usage[o]
    PROVE  \/ \E w \in Workers : MarkCouponUsed(w) /\ OrderOf(w) = o /\ usage'[o]
           \/ \E w \in Workers : RollbackCouponUsage(w) /\ OrderOf(w) = o /\ ~usage'[o]
  <1>u. usage \in [Orders -> BOOLEAN]
    BY DEF TypeInv, DataOK
  <1>1. ASSUME NEW w \in Workers, MarkCouponUsed(w)
        PROVE  OrderOf(w) = o /\ usage'[o]
    BY <1>1, <1>u DEF MarkCouponUsed
  <1>2. ASSUME NEW w \in Workers, RollbackCouponUsage(w)
        PROVE  OrderOf(w) = o /\ ~usage'[o]
    BY <1>2, <1>u DEF RollbackCouponUsage
  <1>3. ASSUME NEW w \in Workers, Advance(w)
        PROVE  MarkCouponUsed(w) \/ RollbackCouponUsage(w) \/ UNCHANGED usage
    BY <1>3
       DEF Advance, orderVars, InsertOrder, Reserve, ReserveFails, ClearCart, Release, ReleaseFailed,
           ConfirmCod, ConfirmStock, Ship, SaveOrder, FindPayment, InsertPayment, GetKey, StoreKey,
           LoadPayment, LoadOrder, ConfirmOrder, SavePaid, RequirePayment, SaveFailed
  <1>4. ASSUME NEW w \in Workers, Request(w) \/ Crash(w)
        PROVE  UNCHANGED usage
    BY <1>4, RequestFlow, CrashFlow DEF orderVars
  <1> QED
    BY <1>1, <1>2, <1>3, <1>4, BackgroundFlow

LEMMA PaySteps ==
    ASSUME TypeInv, [Next]_vars, NEW o \in Orders, pay'[o] # pay[o]
    PROVE  \/ \E w \in Workers :
                /\ InsertPayment(w) /\ OrderOf(w) = o
                /\ pay[o] = NoPayment
                /\ pay'[o].method = task[w].method
                /\ pay'[o].status = IF task[w].method = "cod" THEN "success" ELSE "pending"
           \/ \E w \in Workers :
                /\ SavePaid(w) /\ OrderOf(w) = o
                /\ pay'[o].method = pay[o].method /\ pay'[o].status = "success"
           \/ \E w \in Workers :
                /\ SaveFailed(w) /\ OrderOf(w) = o
                /\ pay'[o].method = pay[o].method /\ pay'[o].status = "failed"
  <1>p. pay \in [Orders -> PaymentRow \union {NoPayment}]
    BY DEF TypeInv, DataOK
  <1>s. ASSUME NEW w \in Workers, NEW s \in {"success", "failed"}, ~Idle(w),
               HasPayment(task[w]), pay' = [pay EXCEPT ![OrderOf(w)].status = s],
               Return(w), UNCHANGED <<ledgerVars, expired, orderVars, keys, countVars>>
        PROVE  OrderOf(w) = o /\ pay'[o].method = pay[o].method /\ pay'[o].status = s
    <2>1. OrderOf(w) \in Orders /\ pay[OrderOf(w)] # NoPayment
      BY <1>s, BusyFacts DEF Idle, RowsExist, OrderOf
    <2>2. o # OrderOf(w) => pay'[o] = pay[o]
      BY <1>p, <1>s
    <2> QED
      BY <1>s, <2>1, <2>2, SaveType
  <1>1. ASSUME NEW w \in Workers, InsertPayment(w)
        PROVE  /\ OrderOf(w) = o
               /\ pay[o] = NoPayment
               /\ pay'[o].method = task[w].method
               /\ pay'[o].status = IF task[w].method = "cod" THEN "success" ELSE "pending"
    <2>1. pay[OrderOf(w)] = NoPayment
      BY <1>1 DEF InsertPayment
    <2>2. PICK row : row = [method |-> task[w].method,
                            status |-> IF task[w].method = "cod" THEN "success" ELSE "pending"]
      OBVIOUS
    <2>3. pay' = [pay EXCEPT ![OrderOf(w)] = row]
      BY <1>1, <2>1, <2>2 DEF InsertPayment
    <2> QED
      BY <1>p, <2>1, <2>2, <2>3
  <1>2. ASSUME NEW w \in Workers, SavePaid(w)
        PROVE  OrderOf(w) = o /\ pay'[o].method = pay[o].method /\ pay'[o].status = "success"
    <2>1. ~Idle(w) /\ HasPayment(task[w])
      BY <1>2 DEF SavePaid, At, Idle, HasPayment
    <2> QED
      BY <1>2, <1>s, <2>1 DEF SavePaid
  <1>3. ASSUME NEW w \in Workers, SaveFailed(w)
        PROVE  OrderOf(w) = o /\ pay'[o].method = pay[o].method /\ pay'[o].status = "failed"
    <2>1. ~Idle(w) /\ HasPayment(task[w])
      BY <1>3 DEF SaveFailed, At, Idle, HasPayment
    <2> QED
      BY <1>3, <1>s, <2>1 DEF SaveFailed
  <1>4. ASSUME NEW w \in Workers, Advance(w)
        PROVE  InsertPayment(w) \/ SavePaid(w) \/ SaveFailed(w) \/ UNCHANGED pay
    BY <1>4
       DEF Advance, payVars, InsertOrder, Reserve, ReserveFails, MarkCouponUsed, ClearCart, Release,
           RollbackCouponUsage, Ship, SaveOrder, FindPayment, ConfirmCod, GetKey, StoreKey,
           LoadPayment, LoadOrder, ConfirmOrder, ConfirmStock, RequirePayment, ReleaseFailed
  <1>5. ASSUME NEW w \in Workers, Request(w) \/ Crash(w)
        PROVE  UNCHANGED pay
    BY <1>5, RequestFlow, CrashFlow DEF payVars
  <1> QED
    BY <1>1, <1>2, <1>3, <1>4, <1>5, BackgroundFlow

\* A task that is at a call no request starts with came there from a call before
\* it in the flow, and works on the same order.
LEMMA Arrived ==
    ASSUME TypeInv, [Next]_vars, NEW w \in Workers, task'[w] # task[w],
           task'[w].pc # "idle", task'[w].pc \notin FirstCalls
    PROVE  /\ Advance(w)
           /\ task'[w].order = OrderOf(w)
           /\ <<task[w].pc, task'[w].pc>> \in Flow
  <1>1. NoTask.pc = "idle"
    BY DEF NoTask
  <1> QED
    BY <1>1, BackgroundFlow, RequestFlow, AdvanceFlow, CrashFlow

\* What makes CouponNeedsHold inductive: the coupon is marked after the stock
\* is reserved.
CouponInv ==
    /\ CouponNeedsHold
    /\ \A w \in Workers : At(w, "markCoupon") => status[OrderOf(w)] # "none"

\* No coupon is consumed by an order whose stock was never reserved, whatever
\* the handlers of the order do and wherever they die.
THEOREM CouponsAreHeld == Spec => []CouponNeedsHold
  <1>1. Init => CouponInv
    BY DEF Init, CouponInv, CouponNeedsHold, At, NoTask
  <1>2. TypeInv /\ CouponInv /\ [Next]_vars => CouponInv'
    <2> SUFFICES ASSUME TypeInv, CouponInv, [Next]_vars
                 PROVE  CouponInv'
      OBVIOUS
    <2>1. ASSUME NEW o \in Orders, usage'[o]
          PROVE  status'[o] # "none"
      <3>1. CASE usage[o]
        BY <3>1, StatusStays DEF CouponInv, CouponNeedsHold
      <3>2. CASE ~usage[o]
        <4>1. PICK w \in Workers : MarkCouponUsed(w) /\ OrderOf(w) = o
          BY <2>1, <3>2, UsageSteps
        <4> QED
          BY <4>1, StatusStays DEF CouponInv, MarkCouponUsed
      <3> QED
        BY <3>1, <3>2
    <2>2. ASSUME NEW w \in Workers, At(w, "markCoupon")'
          PROVE  status'[OrderOf(w)'] # "none"
      <3>1. CASE task'[w] = task[w]
        <4>1. task[w].pc # "idle" /\ At(w, "markCoupon") /\ OrderOf(w)' = OrderOf(w)
          BY <2>2, <3>1 DEF At, OrderOf
        <4> QED
          BY <4>1, BusyFacts, StatusStays DEF CouponInv
      <3>2. CASE task'[w] # task[w]
        <4>0. task'[w].pc = "markCoupon"
          BY <2>2 DEF At
        <4>1. Advance(w) /\ task'[w].order = OrderOf(w) /\ <<task[w].pc, "markCoupon">> \in Flow
          BY <3>2, <4>0, Arrived DEF FirstCalls
        <4>2. task[w].pc = "reserve"
          BY <4>1 DEF Flow
        <4>3. Reserve(w)
          <5>1. Reserve(w) \/ ReserveFails(w)
            BY <4>1, <4>2
               DEF At, Advance, InsertOrder, MarkCouponUsed, ClearCart, Release,
                   RollbackCouponUsage, Ship, SaveOrder, FindPayment, InsertPayment, ConfirmCod,
                   GetKey, StoreKey, LoadPayment, LoadOrder, ConfirmOrder, ConfirmStock, SavePaid,
                   RequirePayment, ReleaseFailed, SaveFailed
          <5>2. ASSUME ReserveFails(w)
                PROVE  FALSE
            <6>1. PICK t : t = [task[w] EXCEPT !.pc = "save", !.to = "cancelled", !.then = "return"]
              OBVIOUS
            <6>2. task'[w] = t /\ task[w] \in Tasks
              BY <5>2, <6>1 DEF ReserveFails, TypeInv, TasksOK, FieldsOK
            <6> QED
              BY <4>0, <6>1, <6>2 DEF Tasks
          <5> QED
            BY <5>1, <5>2
        <4>4. OrderOf(w) \in Orders /\ LedgerInv
          BY <4>2, BusyFacts DEF TypeInv, DataOK
        <4>5. status'[OrderOf(w)] = "pending"
          BY <4>3, <4>4, HoldKeeps DEF Reserve
        <4> QED
          BY <4>1, <4>5 DEF OrderOf
      <3> QED
        BY <3>1, <3>2
    <2> QED
      BY <2>1, <2>2 DEF CouponInv, CouponNeedsHold
  <1>3. CouponInv => CouponNeedsHold
    BY DEF CouponInv
  <1> QED
    BY <1>1, <1>2, <1>3, TypeAlways, PTL DEF Spec

\* simulateFailed is the one handler that takes a payment back; without it
\* nobody is at its calls.
NobodyFails == \A w \in Workers : ~At(w, "releaseFailed") /\ ~At(w, "saveFailed")

LEMMA NobodyFailsKept ==
    ASSUME "failed" \notin Simulations, TypeInv, NobodyFails, [Next]_vars
    PROVE  NobodyFails'
  <1>1. ASSUME NEW w \in Workers
        PROVE  task'[w].pc # "releaseFailed" /\ task'[w].pc # "saveFailed"
    <2>1. CASE task'[w] = task[w]
      BY <2>1 DEF NobodyFails, At
    <2>2. CASE task'[w] # task[w]
      <3>1. task[w].pc # "releaseFailed" /\ NoTask.pc = "idle"
        BY DEF NobodyFails, At, NoTask
      <3> QED
        BY <2>2, <3>1, BackgroundFlow, RequestFlow, AdvanceFlow, CrashFlow DEF Flow, FirstCalls
    <2> QED
      BY <2>1, <2>2
  <1> QED
    BY <1>1 DEF NobodyFails, At

LEMMA PaidKept ==
    ASSUME TypeInv, NobodyFails, [Next]_vars, NEW o \in Orders, pay[o].status = "success"
    PROVE  pay'[o].status = "success"
  <1>1. NoPayment.status # "success"
    BY DEF NoPayment
  <1> QED
    BY <1>1, PaySteps DEF NobodyFails, SaveFailed

\* A payment that succeeded is never undone by a second create, a late webhook
\* or a handler that loaded it before, whatever else runs or dies, as long as
\* no administrator simulates a failure.
THEOREM PaymentsStayPaid ==
    ASSUME "failed" \notin Simulations
    PROVE  Spec => PaidStaysPaid
  <1>1. Init => NobodyFails
    BY DEF Init, NobodyFails, At, NoTask
  <1>2. TypeInv /\ NobodyFails /\ [Next]_vars => NobodyFails'
    BY NobodyFailsKept
  <1>3. TypeInv /\ NobodyFails /\ [Next]_vars =>
            [\A o \in Orders : pay[o].status = "success" => pay'[o].status = "success"]_pay
    BY PaidKept
  <1> QED
    BY <1>1, <1>2, <1>3, TypeAlways, PTL DEF Spec, PaidStaysPaid

\* What makes SoldStockIsPaid inductive: a COD payment is stored as paid before
\* its reservation is confirmed.
SoldInv ==
    /\ NobodyFails
    /\ \A w \in Workers : At(w, "confirmCod") => pay[OrderOf(w)].status = "success"
    /\ SoldStockIsPaid

\* The first step of a COD payment stores it as paid.
LEMMA CodArrives ==
    ASSUME TypeInv, [Next]_vars, NEW w \in Workers,
           task'[w] # task[w], task'[w].pc = "confirmCod"
    PROVE  task'[w].order \in Orders /\ pay'[task'[w].order].status = "success"
  <1>1. Advance(w) /\ task'[w].order = OrderOf(w) /\ <<task[w].pc, "confirmCod">> \in Flow
    BY Arrived DEF FirstCalls
  <1>2. task[w].pc = "insertPayment"
    BY <1>1 DEF Flow
  <1>3. InsertPayment(w)
    BY <1>1, <1>2
       DEF At, Advance, InsertOrder, Reserve, ReserveFails, MarkCouponUsed, ClearCart, Release,
           RollbackCouponUsage, Ship, SaveOrder, FindPayment, ConfirmCod, GetKey, StoreKey,
           LoadPayment, LoadOrder, ConfirmOrder, ConfirmStock, SavePaid, RequirePayment,
           ReleaseFailed, SaveFailed
  <1>4. OrderOf(w) \in Orders
    BY <1>2, BusyFacts
  <1>5. ~Return(w)
    <2>1. Return(w) => task'[w].pc = "idle"
      BY ReturnMoves DEF TypeInv, Becomes, NoTask
    <2> QED
      BY <2>1
  <1>6. pay[OrderOf(w)] = NoPayment /\ task[w].method = "cod"
    BY <1>3, <1>5 DEF InsertPayment
  <1>7. pay'[OrderOf(w)].status = "success"
    <2>1. pay' = [pay EXCEPT ![OrderOf(w)] = [method |-> "cod", status |-> "success"]]
      BY <1>3, <1>6 DEF InsertPayment
    <2> QED
      BY <1>4, <2>1 DEF TypeInv, DataOK
  <1> QED
    BY <1>1, <1>4, <1>7

\* Stock leaves the shop only for a paid order, when no handler dies between
\* confirming the reservation and saving the payment and no administrator
\* simulates a failure: whatever COD payments, webhooks and cancellations of
\* the order run at the same time.
THEOREM SoldIsPaid ==
    ASSUME "failed" \notin Simulations, MaxCrashes = 0
    PROVE  Spec => []SoldStockIsPaid
  <1>1. Init => SoldInv
    BY DEF Init, SoldInv, NobodyFails, SoldStockIsPaid, At, NoTask, Ledger!Init
  <1>2. TypeInv /\ SoldInv /\ [Next]_vars => SoldInv'
    <2> SUFFICES ASSUME TypeInv, SoldInv, [Next]_vars
                 PROVE  SoldInv'
      OBVIOUS
    <2>n. NobodyFails /\ NobodyFails'
      BY NobodyFailsKept DEF SoldInv
    <2>c. ~ \E w \in Workers : Crash(w)
      <3>1. crashes \in Nat
        BY DEF TypeInv, DataOK
      <3> QED
        BY <3>1 DEF Crash
    <2>1. ASSUME NEW w \in Workers, task'[w].pc = "confirmCod"
          PROVE  pay'[task'[w].order].status = "success"
      <3>1. CASE task'[w] = task[w]
        <4>1. OrderOf(w) \in Orders /\ pay[OrderOf(w)].status = "success"
          BY <2>1, <3>1, BusyFacts DEF SoldInv, At
        <4> QED
          BY <2>n, <3>1, <4>1, PaidKept DEF OrderOf
      <3>2. CASE task'[w] # task[w]
        BY <2>1, <3>2, CodArrives
      <3> QED
        BY <3>1, <3>2
    <2>2. ASSUME NEW o \in Orders, status'[o] = "confirmed"
          PROVE  \/ pay'[o].status = "success"
                 \/ \E w \in Workers : task'[w].pc = "savePaid" /\ task'[w].order = o
      <3>1. CASE pay[o].status = "success"
        BY <2>n, <3>1, PaidKept
      <3>2. CASE status[o] = "confirmed" /\ pay[o].status # "success"
        <4>1. PICK w \in Workers : At(w, "savePaid") /\ OrderOf(w) = o
          BY <3>2 DEF SoldInv, SoldStockIsPaid
        <4>2. CASE task'[w] = task[w]
          BY <4>1, <4>2 DEF At, OrderOf
        <4>3. CASE task'[w] # task[w]
          <5>1. Advance(w)
            BY <2>c, <4>1, <4>3, BackgroundFlow, RequestFlow, AdvanceFlow DEF At
          <5>2. SavePaid(w)
            BY <4>1, <5>1
               DEF At, Advance, InsertOrder, Reserve, ReserveFails, MarkCouponUsed, ClearCart,
                   Release, RollbackCouponUsage, Ship, SaveOrder, FindPayment, InsertPayment,
                   ConfirmCod, GetKey, StoreKey, LoadPayment, LoadOrder, ConfirmOrder,
                   ConfirmStock, RequirePayment, ReleaseFailed, SaveFailed
          <5>3. OrderOf(w) \in Orders /\ pay[OrderOf(w)] # NoPayment
            BY <4>1, BusyFacts DEF At, RowsExist, HasPayment, OrderOf
          <5> QED
            BY <4>1, <5>2, <5>3, SaveType DEF SavePaid
        <4> QED
          BY <4>2, <4>3
      <3>3. CASE status[o] # "confirmed" /\ pay[o].status # "success"
        <4>1. PICK w \in Workers : (ConfirmCod(w) \/ ConfirmStock(w)) /\ OrderOf(w) = o
          BY <2>2, <3>3, StatusSteps
        <4>2. ~ConfirmCod(w)
          BY <3>3, <4>1 DEF SoldInv, ConfirmCod
        <4>3. Goto(w, "savePaid")
          BY <4>1, <4>2 DEF ConfirmStock
        <4> QED
          BY <4>1, <4>3, GotoFlow DEF Calls
      <3> QED
        BY <3>1, <3>2, <3>3
    <2> QED
      BY <2>n, <2>1, <2>2 DEF SoldInv, SoldStockIsPaid, At, OrderOf
  <1>3. SoldInv => SoldStockIsPaid
    BY DEF SoldInv
  <1> QED
    BY <1>1, <1>2, <1>3, TypeAlways, PTL DEF Spec

-----------------------------------------------------------------------------
(***************************************************************************)
(* The status of an order.  updateStatus saves the entity it read before   *)
(* its calls, so that two handlers of one order can each write over what   *)
(* the other did; handlers of different orders cannot.                     *)
(***************************************************************************)
NoOverlap ==
    \A v, w \in Workers : ~Idle(v) /\ ~Idle(w) /\ OrderOf(v) = OrderOf(w) => v = w

LEMMA RankValues ==
    /\ Rank("none") = 0 /\ Rank("pending") = 1 /\ Rank("confirmed") = 2
    /\ Rank("processing") = 3 /\ Rank("ready_to_ship") = 4 /\ Rank("shipping") = 5
    /\ Rank("delivered") = 6 /\ Rank("completed") = 7 /\ Rank("refunded") = 8
    /\ Rank("cancelled") = 9
  <1> DEFINE way == <<"none", "pending", "confirmed", "processing", "ready_to_ship", "shipping",
                      "delivered", "completed", "refunded", "cancelled">>
  <1>1. \A s : Rank(s) = CHOOSE i \in 0 .. 9 : s = way[i + 1]
    BY DEF Rank
  <1>2. \A i \in 0 .. 9 :
            \/ i = 0 /\ way[i + 1] = "none"
            \/ i = 1 /\ way[i + 1] = "pending"
            \/ i = 2 /\ way[i + 1] = "confirmed"
            \/ i = 3 /\ way[i + 1] = "processing"
            \/ i = 4 /\ way[i + 1] = "ready_to_ship"
            \/ i = 5 /\ way[i + 1] = "shipping"
            \/ i = 6 /\ way[i + 1] = "delivered"
            \/ i = 7 /\ way[i + 1] = "completed"
            \/ i = 8 /\ way[i + 1] = "refunded"
            \/ i = 9 /\ way[i + 1] = "cancelled"
    OBVIOUS
  <1>3. /\ way[0 + 1] = "none" /\ way[1 + 1] = "pending" /\ way[2 + 1] = "confirmed"
        /\ way[3 + 1] = "processing" /\ way[4 + 1] = "ready_to_ship" /\ way[5 + 1] = "shipping"
        /\ way[6 + 1] = "delivered" /\ way[7 + 1] = "completed" /\ way[8 + 1] = "refunded"
        /\ way[9 + 1] = "cancelled"
    OBVIOUS
  <1> HIDE DEF way
  <1>4. ASSUME NEW k \in 0 .. 9
        PROVE  Rank(way[k + 1]) = k
    <2>1. \A i \in 0 .. 9 : way[i + 1] = way[k + 1] => i = k
      BY <1>2
    <2> QED
      BY <1>1, <2>1
  <1> QED
    BY <1>3, <1>4

Forward(now, next) == Rank(now) <= Rank(next) /\ (now = "refunded" => next = "refunded")

LEMMA ForwardSame == \A s \in OrderStatuses \union {"none"} : Forward(s, s)
  BY RankValues DEF Forward, OrderStatuses

\* What a role may do, the webhook included, is a step forward.
LEMMA AllowedForward ==
    ASSUME NEW role \in {"admin", "staff", "warehouse"},
           NEW now \in OrderStatuses, NEW next \in OrderStatuses, Allowed(now, next, role)
    PROVE  Forward(now, next)
  <1>1. CASE now = next
    BY <1>1, ForwardSame
  <1>2. CASE now # next
    <2>1. now \in DOMAIN Transitions[role] /\ next \in Transitions[role][now]
      BY <1>2 DEF Allowed
    <2>2. CASE role = "admin"
      BY <2>1, <2>2, RankValues DEF Transitions, Forward
    <2>3. CASE role = "staff"
      BY <2>1, <2>3, RankValues DEF Transitions, Forward
    <2>4. CASE role = "warehouse"
      BY <2>1, <2>4, RankValues DEF Transitions, Forward
    <2> QED
      BY <2>2, <2>3, <2>4
  <1> QED
    BY <1>1, <1>2

LEMMA OrdSteps ==
    ASSUME TypeInv, [Next]_vars, NEW o \in Orders, ord'[o] # ord[o]
    PROVE  \/ \E w \in Workers : InsertOrder(w) /\ OrderOf(w) = o /\ ord'[o] = "pending"
           \/ \E w \in Workers :
                /\ SaveOrder(w) /\ OrderOf(w) = o
                /\ ord'[o] = task[w].to /\ task[w].to \in OrderStatuses
  <1>u. ord \in [Orders -> OrderStatuses \union {"none"}]
    BY DEF TypeInv, DataOK
  <1>1. ASSUME NEW w \in Workers, InsertOrder(w)
        PROVE  OrderOf(w) = o /\ ord'[o] = "pending"
    BY <1>1, <1>u DEF InsertOrder
  <1>2. ASSUME NEW w \in Workers, SaveOrder(w)
        PROVE  OrderOf(w) = o /\ ord'[o] = task[w].to /\ task[w].to \in OrderStatuses
    <2>1. task[w].to \in OrderStatuses
      BY <1>2 DEF SaveOrder, At, TypeInv, TasksOK, FieldsOK
    <2> QED
      BY <1>2, <1>u, <2>1 DEF SaveOrder
  <1>3. ASSUME NEW w \in Workers, Advance(w)
        PROVE  InsertOrder(w) \/ SaveOrder(w) \/ UNCHANGED ord
    BY <1>3
       DEF Advance, orderVars, MarkCouponUsed, RollbackCouponUsage, Reserve, ReserveFails, ClearCart,
           Release, ReleaseFailed, ConfirmCod, ConfirmStock, Ship, FindPayment, InsertPayment,
           GetKey, StoreKey, LoadPayment, LoadOrder, ConfirmOrder, SavePaid, RequirePayment,
           SaveFailed
  <1>4. ASSUME NEW w \in Workers, Request(w) \/ Crash(w)
        PROVE  UNCHANGED ord
    BY <1>4, RequestFlow, CrashFlow DEF orderVars
  <1> QED
    BY <1>1, <1>2, <1>3, <1>4, BackgroundFlow

\* What a handler that has its order to itself relies on: a is the status of the
\* order, s that of its reservation, u says whether its coupon is used.
Own(t, a, s, u) ==
    /\ t.pc = "insertOrder" => a = "none"
    /\ t.pc = "reserve" => a = "pending" /\ s = "none"
    /\ t.pc \in {"markCoupon", "clearCart"} => a = "pending"
    /\ t.pc = "markCoupon" => s # "none"
    /\ t.pc \in {"release", "rollbackCoupon", "ship", "save"} => Forward(a, t.to)
    /\ t.pc \in {"release", "rollbackCoupon"} => t.to = "cancelled"
    /\ t.pc = "ship" => t.to # "cancelled"
    /\ t.pc = "rollbackCoupon" => s # "pending"
    /\ t.pc = "save" /\ t.to = "cancelled" => s # "pending" /\ ~u
    /\ t.pc = "save" /\ t.then = "confirmStock" => t.to = "confirmed"
    /\ t.pc \in {"confirmStock", "savePaid"} => a # "pending"
    /\ t.pc = "requirePayment" /\ t.then = "confirmStock" => a # "pending"

OwnInv ==
    /\ \A w \in Workers :
        ~Idle(w) => Own(task[w], ord[OrderOf(w)], status[OrderOf(w)], usage[OrderOf(w)])
    /\ \A o \in Orders : status[o] # "none" => ord[o] # "none"
    /\ CouponNeedsHold
    /\ CancelledHoldsNothing
    /\ PaidTransferConfirmsOrder

\* A handler that does not run keeps what it relies on: only the queue job, which
\* lets a pending reservation expire, touches its order.
LEMMA OwnKept ==
    ASSUME TypeInv, NoOverlap, OwnInv, [Next]_vars,
           NEW v \in Workers, ~Idle(v), task'[v] = task[v]
    PROVE  Own(task[v], ord'[OrderOf(v)], status'[OrderOf(v)], usage'[OrderOf(v)])
  <1>o. OrderOf(v) \in Orders
    BY BusyFacts DEF Idle
  <1>n. ASSUME NEW w \in Workers, Advance(w)
        PROVE  OrderOf(w) # OrderOf(v)
    <2>1. task[w].pc # "idle"
      BY <1>n, AdvanceFlow DEF Calls
    <2>2. task'[w] # task[w]
      <3>1. \A pc, next : <<pc, next>> \in Flow => pc # next
        BY DEF Flow
      <3>2. NoTask.pc = "idle"
        BY DEF NoTask
      <3>3. task'[w] = NoTask \/ <<task[w].pc, task'[w].pc>> \in Flow
        BY <1>n, AdvanceFlow
      <3> QED
        BY <2>1, <3>1, <3>2, <3>3
    <2> QED
      BY <2>1, <2>2 DEF NoOverlap, Idle
  <1>1. ord'[OrderOf(v)] = ord[OrderOf(v)]
    BY <1>o, <1>n, OrdSteps DEF Advance
  <1>2. usage'[OrderOf(v)] = usage[OrderOf(v)]
    BY <1>o, <1>n, UsageSteps DEF Advance
  <1>3. \/ status'[OrderOf(v)] = status[OrderOf(v)]
        \/ status[OrderOf(v)] = "pending" /\ status'[OrderOf(v)] = "expired"
    BY <1>o, <1>n, StatusSteps DEF Advance
  <1> QED
    BY <1>1, <1>2, <1>3 DEF OwnInv, Own

\* A request starts from a status it has read in the same step.
LEMMA OwnRequest ==
    ASSUME TypeInv, OwnInv, NEW w \in Workers, Request(w)
    PROVE  Own(task'[w], ord'[task'[w].order], status'[task'[w].order], usage'[task'[w].order])
  <1>m. \A t : Begin(w, t) => task'[w] = t
    BY DEF Begin, TypeInv, TasksOK
  <1>f. UNCHANGED <<ord, status, usage>>
    BY RequestFlow DEF ledgerVars, orderVars
  <1>o. \A o \in Orders : ord[o] \in OrderStatuses \union {"none"}
    BY DEF TypeInv, DataOK
  <1>1. ASSUME NEW o \in Orders, ReadCart(w, o) \/ SimulateFailed(w, o)
        PROVE  Own(task'[w], ord[task'[w].order], status[task'[w].order], usage[task'[w].order])
    <2>1. CASE ReadCart(w, o)
      <3>1. PICK t : t = Task("insertOrder", o)
        OBVIOUS
      <3>2. t.pc = "insertOrder" /\ t.order = o /\ task'[w] = t
        BY <1>m, <2>1, <3>1 DEF ReadCart, Task, NoTask
      <3> QED
        BY <2>1, <3>2 DEF ReadCart, Own
    <2>2. CASE SimulateFailed(w, o)
      <3>1. PICK t : t = Task("releaseFailed", o)
        OBVIOUS
      <3>2. t.pc = "releaseFailed" /\ task'[w] = t
        BY <1>m, <2>2, <3>1 DEF SimulateFailed, Task, NoTask
      <3> QED
        BY <3>2 DEF Own
    <2> QED
      BY <1>1, <2>1, <2>2
  <1>2. ASSUME NEW o \in Orders, CancelMyOrder(w, o)
        PROVE  Own(task'[w], ord[task'[w].order], status[task'[w].order], usage[task'[w].order])
    <2>1. PICK t : t = [Task("release", o) EXCEPT !.to = "cancelled", !.then = "return"]
      OBVIOUS
    <2>2. t.pc = "release" /\ t.order = o /\ t.to = "cancelled" /\ task'[w] = t
      BY <1>2, <1>m, <2>1 DEF CancelMyOrder, Task, NoTask
    <2>3. Forward("pending", "cancelled")
      BY RankValues DEF Forward
    <2> QED
      BY <1>2, <2>2, <2>3 DEF CancelMyOrder, Own
  <1>3. ASSUME NEW o \in Orders, SimulateSuccess(w, o)
        PROVE  Own(task'[w], ord[task'[w].order], status[task'[w].order], usage[task'[w].order])
    <2>1. PICK t : t = [Task("requirePayment", o) EXCEPT
                            !.then = IF ord[o] = "pending" THEN "confirmOrder" ELSE "confirmStock"]
      OBVIOUS
    <2>2. /\ t.pc = "requirePayment" /\ t.order = o /\ task'[w] = t
          /\ t.then = "confirmStock" => ord[o] # "pending"
      BY <1>3, <1>m, <2>1 DEF SimulateSuccess, Task, NoTask
    <2> QED
      BY <2>2 DEF Own
  <1>4. ASSUME NEW o \in Orders, NEW next \in OrderStatuses, NEW role \in Roles,
               UpdateStatus(w, o, next, role)
        PROVE  Own(task'[w], ord[task'[w].order], status[task'[w].order], usage[task'[w].order])
    <2>1. PICK t : t = [Task(FirstCall(next), o) EXCEPT !.to = next, !.then = "return"]
      OBVIOUS
    <2>2. /\ t.pc = FirstCall(next) /\ t.order = o /\ t.to = next /\ t.then = "return"
          /\ task'[w] = t
      BY <1>4, <1>m, <2>1 DEF UpdateStatus, Task, NoTask
    <2>3. Forward(ord[o], next)
      BY <1>4, <1>o, AllowedForward, RoleAssumption DEF UpdateStatus
    <2>4. \/ next = "cancelled" /\ t.pc = "release"
          \/ next # "cancelled" /\ t.pc \in {"ship", "save"}
      BY <2>2 DEF FirstCall
    <2> QED
      BY <2>2, <2>3, <2>4 DEF Own
  <1>5. ASSUME NEW o \in Orders, NEW method \in Methods, CreatePayment(w, o, method)
        PROVE  Own(task'[w], ord[task'[w].order], status[task'[w].order], usage[task'[w].order])
    <2>1. PICK t : t = [Task("findPayment", o) EXCEPT !.method = method]
      OBVIOUS
    <2>2. t.pc = "findPayment" /\ task'[w] = t
      BY <1>5, <1>m, <2>1 DEF CreatePayment, Task, NoTask
    <2> QED
      BY <2>2 DEF Own
  <1>6. ASSUME NEW n \in Transfers, ReceiveWebhook(w, n)
        PROVE  Own(task'[w], ord[task'[w].order], status[task'[w].order], usage[task'[w].order])
    <2>1. PICK t : t = [Task("getKey", TransferOrder[n]) EXCEPT !.transfer = n]
      OBVIOUS
    <2>2. t.pc = "getKey" /\ task'[w] = t
      BY <1>6, <1>m, <2>1 DEF ReceiveWebhook, Task, NoTask
    <2> QED
      BY <2>2 DEF Own
  <1> QED
    BY <1>f, <1>1, <1>2, <1>3, <1>4, <1>5, <1>6 DEF Request

\* A call leaves its order as the next call of the handler needs it.
LEMMA OwnAdvance ==
    ASSUME TypeInv, OwnInv, NEW w \in Workers, Advance(w), task'[w] # NoTask
    PROVE  Own(task'[w], ord'[OrderOf(w)], status'[OrderOf(w)], usage'[OrderOf(w)])
  <1> DEFINE o == OrderOf(w)
  <1>0. task[w].pc # "idle" /\ ~Idle(w)
    BY AdvanceFlow DEF Calls, Idle
  <1>a. o \in Orders /\ task[w] \in Tasks /\ FieldsOK(task[w])
    BY <1>0, BusyFacts
  <1>b. Own(task[w], ord[o], status[o], usage[o])
    BY <1>0 DEF OwnInv
  <1>c. /\ LedgerInv
        /\ ord \in [Orders -> OrderStatuses \union {"none"}]
        /\ usage \in [Orders -> BOOLEAN]
        /\ usage[o] => status[o] # "none"
        /\ status[o] # "none" => ord[o] # "none"
    BY <1>a DEF TypeInv, DataOK, OwnInv, CouponNeedsHold
  <1>r. ~Return(w)
    BY DEF Return, TypeInv, TasksOK
  <1>g. ASSUME NEW pc \in Calls, Goto(w, pc)
        PROVE  SameBut(task'[w], task[w], pc)
    BY <1>g, GotoMoves DEF TypeInv, Becomes
  <1> HIDE DEF o
  <1>1. CASE InsertOrder(w)
    <2>1. SameBut(task'[w], task[w], "reserve")
      BY <1>1, <1>g DEF InsertOrder, Calls
    <2>2. ord'[o] = "pending" /\ status'[o] = status[o] /\ status[o] = "none"
      BY <1>1, <1>a, <1>b, <1>c DEF InsertOrder, At, Own, o, ledgerVars
    <2> QED
      BY <2>1, <2>2 DEF SameBut, Own, o
  <1>2. CASE Reserve(w)
    <2>1. PICK pc \in {"markCoupon", "clearCart"} : SameBut(task'[w], task[w], pc)
      BY <1>2, <1>g DEF Reserve, Calls
    <2>2. ord'[o] = "pending"
      BY <1>2, <1>b DEF Reserve, At, Own, orderVars
    <2>3. status'[o] = "pending"
      BY <1>2, <1>a, <1>c, HoldKeeps DEF Reserve, o
    <2> QED
      BY <2>1, <2>2, <2>3 DEF SameBut, Own, o
  <1>3. CASE ReserveFails(w)
    <2>1. PICK t : t = [task[w] EXCEPT !.pc = "save", !.to = "cancelled", !.then = "return"]
      OBVIOUS
    <2>2. task'[w] = t
      BY <1>3, <2>1 DEF ReserveFails, TypeInv, TasksOK
    <2>3. t.pc = "save" /\ t.to = "cancelled" /\ t.then = "return"
      BY <1>a, <2>1 DEF Tasks
    <2>4. /\ ord'[o] = "pending" /\ status'[o] = "none" /\ ~usage'[o]
          /\ Forward("pending", "cancelled")
      BY <1>3, <1>b, <1>c, RankValues DEF ReserveFails, At, Own, orderVars, ledgerVars, Forward
    <2> QED
      BY <2>2, <2>3, <2>4 DEF Own, o
  <1>4. CASE MarkCouponUsed(w)
    <2>1. SameBut(task'[w], task[w], "clearCart")
      BY <1>4, <1>g DEF MarkCouponUsed, Calls
    <2>2. ord'[o] = "pending"
      BY <1>4, <1>b DEF MarkCouponUsed, At, Own
    <2> QED
      BY <2>1, <2>2 DEF SameBut, Own, o
  <1>5. CASE Release(w)
    <2>1. SameBut(task'[w], task[w], "rollbackCoupon")
      BY <1>5, <1>g DEF Release, Calls
    <2>2. status'[o] # "pending"
      BY <1>5, <1>a, <1>c, SettleIfPendingKeeps DEF Release, o, Ledger!Outcomes
    <2>3. ord'[o] = ord[o] /\ Forward(ord[o], task[w].to) /\ task[w].to = "cancelled"
      BY <1>5, <1>b DEF Release, At, Own, orderVars
    <2> QED
      BY <2>1, <2>2, <2>3 DEF SameBut, Own, o
  <1>6. CASE RollbackCouponUsage(w)
    <2>1. SameBut(task'[w], task[w], "save")
      BY <1>6, <1>g DEF RollbackCouponUsage, Calls
    <2>2. /\ status'[o] # "pending" /\ ~usage'[o] /\ ord'[o] = ord[o]
          /\ Forward(ord[o], task[w].to) /\ task[w].to = "cancelled" /\ task[w].then = "return"
      BY <1>6, <1>a, <1>b, <1>c DEF RollbackCouponUsage, At, Own, o, ledgerVars, FieldsOK
    <2> QED
      BY <2>1, <2>2 DEF SameBut, Own, o
  <1>7. CASE Ship(w)
    <2>1. SameBut(task'[w], task[w], "save")
      BY <1>7, <1>g DEF Ship, Calls
    <2>2. /\ ord'[o] = ord[o]
          /\ Forward(ord[o], task[w].to) /\ task[w].to # "cancelled" /\ task[w].then = "return"
      BY <1>7, <1>a, <1>b DEF Ship, At, Own, FieldsOK
    <2> QED
      BY <2>1, <2>2 DEF SameBut, Own, o
  <1>8. CASE SaveOrder(w)
    <2>1. task[w].then = "confirmStock"
      BY <1>8, <1>a, <1>r DEF SaveOrder, At, FieldsOK
    <2>2. SameBut(task'[w], task[w], "confirmStock")
      BY <1>8, <1>g, <2>1 DEF SaveOrder, Calls
    <2>3. ord'[o] = "confirmed"
      BY <1>8, <1>a, <1>b, <1>c, <2>1 DEF SaveOrder, At, Own, o
    <2> QED
      BY <2>2, <2>3 DEF SameBut, Own, o
  <1>9. CASE FindPayment(w) \/ InsertPayment(w) \/ GetKey(w) \/ StoreKey(w) \/ LoadPayment(w)
              \/ ReleaseFailed(w)
    <2>1. PICK pc \in {"insertPayment", "confirmCod", "storeKey", "loadPayment", "loadOrder",
                       "saveFailed"} : SameBut(task'[w], task[w], pc)
      BY <1>9, <1>g, <1>r
         DEF FindPayment, InsertPayment, GetKey, StoreKey, LoadPayment, ReleaseFailed, Calls
    <2> QED
      BY <2>1 DEF SameBut, Own
  <1>10. CASE ClearCart(w) \/ ConfirmCod(w) \/ SavePaid(w) \/ SaveFailed(w)
    BY <1>10, <1>r DEF ClearCart, ConfirmCod, SavePaid, SaveFailed
  <1>11. CASE LoadOrder(w)
    <2>1. PICK pc \in {"confirmOrder", "confirmStock"} :
                /\ SameBut(task'[w], task[w], pc)
                /\ pc = "confirmStock" => ord[o] # "pending"
      BY <1>11, <1>g DEF LoadOrder, Calls, o
    <2>2. ord'[o] = ord[o]
      BY <1>11 DEF LoadOrder, orderVars
    <2> QED
      BY <2>1, <2>2 DEF SameBut, Own, o
  <1>12. CASE ConfirmOrder(w)
    <2>1. PICK t : t = [task[w] EXCEPT !.pc = "save", !.to = "confirmed", !.then = "confirmStock"]
      OBVIOUS
    <2>2. task' = [task EXCEPT ![w] = t] /\ Allowed(ord[o], "confirmed", "admin")
      BY <1>12, <1>r, <2>1 DEF ConfirmOrder, o
    <2>3. task'[w] = t /\ t.pc = "save" /\ t.to = "confirmed"
      BY <1>a, <2>1, <2>2 DEF Tasks, TypeInv, TasksOK
    <2>4. ord'[o] = ord[o] /\ ord[o] \in OrderStatuses /\ "confirmed" \in OrderStatuses
      <3>1. ord[o] # "none"
        BY <1>12, <1>0, BusyFacts DEF ConfirmOrder, At, RowsExist, Existing, Calls, o, OrderOf
      <3> QED
        BY <1>12, <1>a, <1>c, <3>1 DEF ConfirmOrder, orderVars, OrderStatuses
    <2>5. Forward(ord[o], "confirmed")
      BY <2>2, <2>4, AllowedForward
    <2> QED
      BY <2>3, <2>4, <2>5 DEF Own, o
  <1>13. CASE ConfirmStock(w)
    <2>1. SameBut(task'[w], task[w], "savePaid")
      BY <1>13, <1>g DEF ConfirmStock, Calls
    <2>2. ord'[o] # "pending"
      BY <1>13, <1>b DEF ConfirmStock, At, Own, orderVars
    <2> QED
      BY <2>1, <2>2 DEF SameBut, Own, o
  <1>14. CASE RequirePayment(w)
    <2>1. task[w].then \in {"confirmOrder", "confirmStock"}
      BY <1>14, <1>a DEF RequirePayment, At, FieldsOK
    <2>2. SameBut(task'[w], task[w], task[w].then)
      BY <1>14, <1>g, <1>r, <2>1 DEF RequirePayment, Calls
    <2>3. task[w].then = "confirmStock" => ord'[o] # "pending"
      BY <1>14, <1>b DEF RequirePayment, At, Own, orderVars
    <2> QED
      BY <2>1, <2>2, <2>3 DEF SameBut, Own, o
  <1> QED
    BY <1>1, <1>2, <1>3, <1>4, <1>5, <1>6, <1>7, <1>8, <1>9, <1>10, <1>11, <1>12, <1>13, <1>14
       DEF Advance

\* The step of an order whose status is written, when handlers do not overlap.
LEMMA OrdForward ==
    ASSUME TypeInv, OwnInv, [Next]_vars, NEW o \in Orders
    PROVE  Forward(ord[o], ord'[o])
  <1>1. CASE ord'[o] = ord[o]
    BY <1>1, ForwardSame DEF TypeInv, DataOK
  <1>2. CASE ord'[o] # ord[o]
    <2>1. ASSUME NEW w \in Workers, InsertOrder(w), OrderOf(w) = o, ord'[o] = "pending"
          PROVE  Forward(ord[o], ord'[o])
      <3>1. ord[o] = "none"
        BY <2>1 DEF InsertOrder, At, OwnInv, Own, Idle
      <3> QED
        BY <2>1, <3>1, RankValues DEF Forward
    <2>2. ASSUME NEW w \in Workers, SaveOrder(w), OrderOf(w) = o, ord'[o] = task[w].to
          PROVE  Forward(ord[o], ord'[o])
      BY <2>2 DEF SaveOrder, At, OwnInv, Own, Idle
    <2> QED
      BY <1>2, <2>1, <2>2, OrdSteps
  <1> QED
    BY <1>1, <1>2

LEMMA OwnInvKept ==
    ASSUME TypeInv, NoOverlap, OwnInv, [Next]_vars
    PROVE  OwnInv'
  <1>t. TypeInv'
    BY NextType
  <1>1. ASSUME NEW w \in Workers, task'[w].pc # "idle"
        PROVE  Own(task'[w], ord'[task'[w].order], status'[task'[w].order], usage'[task'[w].order])
    <2>0. NoTask.pc = "idle"
      BY DEF NoTask
    <2>1. CASE task'[w] = task[w]
      BY <1>1, <2>1, OwnKept DEF Idle, OrderOf
    <2>2. CASE task'[w] # task[w]
      <3>1. CASE Request(w)
        BY <3>1, OwnRequest
      <3>2. CASE Advance(w)
        <4>1. task'[w] # NoTask
          BY <1>1, <2>0
        <4>2. task'[w].order = OrderOf(w)
          BY <3>2, <4>1, AdvanceFlow
        <4> QED
          BY <3>2, <4>1, <4>2, OwnAdvance
      <3> QED
        BY <1>1, <2>0, <2>2, <3>1, <3>2, BackgroundFlow, RequestFlow, AdvanceFlow, CrashFlow
    <2> QED
      BY <2>1, <2>2
  <1>2. ASSUME NEW o \in Orders, status'[o] # "none"
        PROVE  ord'[o] # "none"
    <2>1. ord[o] # "none" => ord'[o] # "none"
      BY OrdSteps DEF OrderStatuses
    <2>2. CASE status[o] # "none"
      BY <2>1, <2>2 DEF OwnInv
    <2>3. CASE status[o] = "none"
      <3>1. PICK w \in Workers : Reserve(w) /\ OrderOf(w) = o
        BY <1>2, <2>3, StatusSteps
      <3>2. ord[o] = "pending"
        BY <3>1 DEF Reserve, At, Idle, OwnInv, Own
      <3> QED
        BY <2>1, <3>2
    <2> QED
      BY <2>2, <2>3
  <1>3. ASSUME NEW o \in Orders, usage'[o]
        PROVE  status'[o] # "none"
    <2>1. CASE usage[o]
      BY <2>1, StatusStays DEF OwnInv, CouponNeedsHold
    <2>2. CASE ~usage[o]
      <3>1. PICK w \in Workers : MarkCouponUsed(w) /\ OrderOf(w) = o
        BY <1>3, <2>2, UsageSteps
      <3> QED
        BY <3>1, StatusStays DEF MarkCouponUsed, At, Idle, OwnInv, Own
    <2> QED
      BY <2>1, <2>2
  <1>4. ASSUME NEW o \in Orders, ord'[o] = "cancelled"
        PROVE  status'[o] # "pending" /\ ~usage'[o]
    <2>1. CASE ord[o] = "cancelled"
      <3>0. status[o] # "pending" /\ ~usage[o]
        BY <2>1 DEF OwnInv, CancelledHoldsNothing
      <3>1. status'[o] # "pending"
        <4>1. ASSUME NEW w \in Workers, Reserve(w), OrderOf(w) = o
              PROVE  FALSE
          BY <2>1, <4>1 DEF Reserve, At, Idle, OwnInv, Own
        <4> QED
          BY <3>0, <4>1, StatusSteps
      <3>2. ~usage'[o]
        <4>1. ASSUME NEW w \in Workers, MarkCouponUsed(w), OrderOf(w) = o
              PROVE  FALSE
          BY <2>1, <4>1 DEF MarkCouponUsed, At, Idle, OwnInv, Own
        <4>2. usage[o] \in BOOLEAN /\ usage'[o] \in BOOLEAN
          BY <1>t DEF TypeInv, DataOK
        <4> QED
          BY <3>0, <4>1, <4>2, UsageSteps
      <3> QED
        BY <3>1, <3>2
    <2>2. CASE ord[o] # "cancelled"
      <3>1. PICK w \in Workers : SaveOrder(w) /\ OrderOf(w) = o /\ task[w].to = "cancelled"
        BY <1>4, <2>2, OrdSteps
      <3>2. status[o] # "pending" /\ ~usage[o]
        BY <3>1 DEF SaveOrder, At, Idle, OwnInv, Own
      <3> QED
        BY <3>1, <3>2 DEF SaveOrder, ledgerVars
    <2> QED
      BY <2>1, <2>2
  <1>5. ASSUME NEW o \in Orders, pay'[o].method = "sepay", pay'[o].status = "success"
        PROVE  ord'[o] # "pending"
    <2>1. CASE pay'[o] = pay[o]
      <3>1. ord[o] # "pending" /\ ord[o] # "none"
        <4>1. pay[o] # NoPayment
          BY <1>5, <2>1 DEF NoPayment
        <4> QED
          BY <1>5, <2>1, <4>1
             DEF OwnInv, PaidTransferConfirmsOrder, TypeInv, PaymentNeedsOrder
      <3>2. Forward(ord[o], ord'[o]) /\ ord[o] \in OrderStatuses
        BY <3>1, OrdForward DEF TypeInv, DataOK
      <3> QED
        BY <3>1, <3>2, RankValues DEF Forward, OrderStatuses
    <2>2. CASE pay'[o] # pay[o]
      <3>1. ASSUME NEW w \in Workers, InsertPayment(w), OrderOf(w) = o,
                   pay'[o].method = task[w].method,
                   pay'[o].status = IF task[w].method = "cod" THEN "success" ELSE "pending"
            PROVE  FALSE
        BY <1>5, <3>1
      <3>2. ASSUME NEW w \in Workers, SavePaid(w), OrderOf(w) = o
            PROVE  ord'[o] # "pending"
        BY <3>2 DEF SavePaid, At, Idle, OwnInv, Own, orderVars
      <3> QED
        BY <1>5, <2>2, <3>1, <3>2, PaySteps
    <2> QED
      BY <2>1, <2>2
  <1> QED
    BY <1>1, <1>2, <1>3, <1>4, <1>5
       DEF OwnInv, CouponNeedsHold, CancelledHoldsNothing, PaidTransferConfirmsOrder, Idle, OrderOf

LEMMA OwnAlways == Spec /\ []NoOverlap => []OwnInv
  <1>1. Init => OwnInv
    <2> SUFFICES ASSUME Init
                 PROVE  OwnInv
      OBVIOUS
    <2>1. \A w \in Workers : Idle(w)
      BY DEF Init, Idle, NoTask
    <2>2. \A o \in Orders : ord[o] = "none" /\ status[o] = "none" /\ ~usage[o] /\ pay[o] = NoPayment
      BY DEF Init, Ledger!Init
    <2> QED
      BY <2>1, <2>2
         DEF OwnInv, CouponNeedsHold, CancelledHoldsNothing, PaidTransferConfirmsOrder, NoPayment
  <1>2. TypeInv /\ NoOverlap /\ OwnInv /\ [Next]_vars => OwnInv'
    BY OwnInvKept
  <1> QED
    BY <1>1, <1>2, TypeAlways, PTL DEF Spec

\* As long as no two handlers work on the same order at the same time, a
\* cancelled order holds neither stock nor its coupon, wherever handlers die.
THEOREM CancelledIsEmpty == Spec /\ []NoOverlap => []CancelledHoldsNothing
  BY OwnAlways, PTL DEF OwnInv

\* As long as no two handlers work on the same order at the same time, no order
\* whose transfer is recorded waits for a payment.
THEOREM PaidLeavesPending == Spec /\ []NoOverlap => []PaidTransferConfirmsOrder
  BY OwnAlways, PTL DEF OwnInv

\* As long as no two handlers work on the same order at the same time, an order
\* only advances, and neither cancelled nor refunded is left again.
THEOREM OrdersAdvance == Spec /\ []NoOverlap => OrderNeverGoesBack
  <1>1. TypeInv /\ OwnInv /\ [Next]_vars =>
            [\A o \in Orders :
                /\ Rank(ord[o]) <= Rank(ord'[o])
                /\ ord[o] = "refunded" => ord'[o] = "refunded"]_ord
    BY OrdForward DEF Forward
  <1> QED
    BY <1>1, TypeAlways, OwnAlways, PTL DEF Spec, OrderNeverGoesBack

=============================================================================
