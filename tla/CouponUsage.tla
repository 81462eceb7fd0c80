---------------------------- MODULE CouponUsage ----------------------------
(***************************************************************************)
(* CouponService: the coupons' rows with their usage counters, the rows of *)
(* coupon_usages, and the handlers that use both: checkouts, cancellations *)
(* and the administrators' changes.  A handler keeps the entity it loaded  *)
(* and saves it whole, some awaits later; a step is what happens between   *)
(* two awaits.  An order is reduced to its status, the coupon it names and *)
(* its discount; its stock is either reserved or not.                      *)
(*                                                                         *)
(* races records which handlers have overlapped so far:                    *)
(*   "row"    two held the same coupon's entity to save it,                *)
(*   "order"  two worked on the same order,                                *)
(*   "user"   two checkouts of one customer,                               *)
(*   "limit"  a checkout and anything else with the same coupon.           *)
(***************************************************************************)
EXTENDS CouponRules, FiniteSets, TLC

CONSTANTS
    None,          \* NULL, or no row
    Coupons,
    Orders,        \* the checkouts that may happen, each with its order
    UserOf,        \* UserOf[o]: the customer of order o
    SubtotalOf,    \* SubtotalOf[o]: what the cart of order o costs
    Handlers,      \* requests that may be under way at the same time
    Configs,       \* coupons an administrator may create
    Patches,       \* what an administrator may change: functions from some columns
    MaxTime,       \* bound on the clock
    MaxChanges,    \* bound on the administrators' requests
    MaxDeaths      \* bound on the handlers that die half-way

\* The columns of a coupon's row that a checkout reads; buy and get are read only with the items.
ColumnTypes ==
    [type |-> DiscountTypes, value |-> Nat, cap |-> Nat \union {Null}, min |-> Nat,
     limit |-> Nat \union {Null}, perUser |-> Nat \union {Null}, first |-> BOOLEAN,
     start |-> Nat \union {Null}, end |-> Nat \union {Null}, active |-> BOOLEAN]
CouponRow ==
    [type : DiscountTypes, value : Nat, cap : Nat \union {Null}, min : Nat,
     limit : Nat \union {Null}, perUser : Nat \union {Null}, first : BOOLEAN,
     start : Nat \union {Null}, end : Nat \union {Null}, active : BOOLEAN, count : Nat]

ASSUME UserAssumption == DOMAIN UserOf = Orders
ASSUME SubtotalAssumption == SubtotalOf \in [Orders -> Nat]
ASSUME BoundsAssumption == MaxTime \in Nat /\ MaxChanges \in Nat /\ MaxDeaths \in Nat
ASSUME FiniteAssumption == IsFiniteSet(Orders) /\ IsFiniteSet(Handlers)
ASSUME NoneAssumption == None \notin Coupons \union Orders \union CouponRow
\* What the requests carry: no request has a usage counter, and a new row's is 0.
ASSUME ConfigAssumption == \A config \in Configs : config \in CouponRow /\ config.count = 0
\* MySQL refuses a NULL in the columns that may not have one.
ASSUME PatchAssumption ==
    \A patch \in Patches : \A column \in DOMAIN patch :
        column \in DOMAIN ColumnTypes /\ patch[column] \in ColumnTypes[column]

VARIABLES
    coupon,     \* coupon[c]: the row of coupons, or None
    usage,      \* usage[o]: the coupon of order o's row in coupon_usages, or None
    order,      \* order[o]: status, named coupon and discount
    task,       \* task[h]: what handler h is doing
    now,
    races,
    changes,
    deaths

tables == <<coupon, usage, order>>
vars == <<tables, task, now, races, changes, deaths>>

Existing == {c \in Coupons : coupon[c] # None}
\* coupon: the coupon it works on; seen: the row it validated; copy: the entity it will save.
NoTask == [pc |-> "idle", order |-> None, coupon |-> None, seen |-> None, copy |-> None]

Init ==
    /\ coupon = [c \in Coupons |-> None]
    /\ usage = [o \in Orders |-> None]
    /\ order = [o \in Orders |-> [status |-> "none", coupon |-> None, discount |-> 0]]
    /\ task = [h \in Handlers |-> NoTask]
    /\ now = 0
    /\ races = {}
    /\ changes = 0
    /\ deaths = 0

At(h, pc) == task[h].pc = pc
Goto(h, pc) == task' = [task EXCEPT ![h].pc = pc]
Done(h) == task' = [task EXCEPT ![h] = NoTask]
Load(h, pc, c) == task' = [task EXCEPT ![h].pc = pc, ![h].coupon = c, ![h].copy = coupon[c]]
Save(c, row) == coupon' = [coupon EXCEPT ![c] = row]

CheckoutSteps == {"usages", "orders", "insert", "reserve", "find", "use", "count"}
Others(h) == {task[g] : g \in Handlers \ {h}}

\* What begins to overlap when h turns to order o, or to coupon c, or takes c's entity.
OrderRace(h, o) == IF \E t \in Others(h) : t.order = o THEN {"order"} ELSE {}
UserRace(h, o) ==
    IF \E t \in Others(h) : t.pc \in CheckoutSteps /\ UserOf[t.order] = UserOf[o] THEN {"user"} ELSE {}
LimitRace(h, c) ==
    IF \E t \in Others(h) : t.coupon = c /\ t.pc \in CheckoutSteps THEN {"limit"} ELSE {}
BusyRace(h, c) == IF \E t \in Others(h) : t.coupon = c THEN {"limit"} ELSE {}
RowRace(h, c) == IF \E t \in Others(h) : t.coupon = c /\ t.copy # None THEN {"row"} ELSE {}

-----------------------------------------------------------------------------
(***************************************************************************)
(* createFromCart with a coupon, from validateForCheckout to               *)
(* markCouponUsed.                                                         *)
(***************************************************************************)
OwnOrders(u) == {o \in Orders : UserOf[o] = u /\ order[o].status # "none"}
OwnUsages(u, c) == {o \in Orders : UserOf[o] = u /\ usage[o] = c}

\* Mutant of LimitAllows: one use too many.
LimitAllowsOneMore(c) == c.limit # Null => c.count <= c.limit

LimitAllows(c) == c.limit # Null => c.count < c.limit

\* The two counts are awaited only for coupons that need them.
FirstCheck(c) == IF c.perUser # Null THEN "usages" ELSE IF c.first THEN "orders" ELSE "insert"

Validate(h, o, c) ==
    /\ At(h, "idle")
    /\ order[o].status = "none"
    /\ \A t \in Others(h) : t.order # o
    /\ c \in Existing
    /\ UsableRow(coupon[c], SubtotalOf[o], now)
    /\ LimitAllows(coupon[c])
    /\ task' = [task EXCEPT ![h] = [pc |-> FirstCheck(coupon[c]), order |-> o, coupon |-> c,
                                    seen |-> coupon[c], copy |-> None]]
    /\ races' = races \union UserRace(h, o) \union BusyRace(h, c)
    /\ UNCHANGED <<tables, now, changes, deaths>>

UserAllows(h) ==
    LET t == task[h] IN Cardinality(OwnUsages(UserOf[t.order], t.coupon)) < t.seen.perUser

CountUsages(h) ==
    /\ At(h, "usages")
    /\ IF UserAllows(h)
       THEN Goto(h, IF task[h].seen.first THEN "orders" ELSE "insert")
       ELSE Done(h)
    /\ UNCHANGED <<tables, now, races, changes, deaths>>

CountOrders(h) ==
    /\ At(h, "orders")
    /\ IF OwnOrders(UserOf[task[h].order]) = {} THEN Goto(h, "insert") ELSE Done(h)
    /\ UNCHANGED <<tables, now, races, changes, deaths>>

InsertOrder(h) ==
    LET t == task[h] IN
    /\ At(h, "insert")
    /\ order' = [order EXCEPT ![t.order] = [status |-> "pending", coupon |-> t.coupon,
                    discount |-> CalcDiscountAmount(t.seen, SubtotalOf[t.order], <<>>)]]
    /\ Goto(h, "reserve")
    /\ UNCHANGED <<coupon, usage, now, races, changes, deaths>>

\* Only a discount counts as a use of the coupon.
Reserve(h) ==
    /\ At(h, "reserve")
    /\ IF order[task[h].order].discount > 0 THEN Goto(h, "find") ELSE Done(h)
    /\ UNCHANGED <<tables, now, races, changes, deaths>>

ReserveFails(h) ==
    /\ At(h, "reserve")
    /\ order' = [order EXCEPT ![task[h].order].status = "cancelled"]
    /\ Done(h)
    /\ UNCHANGED <<coupon, usage, now, races, changes, deaths>>

FindToMark(h) ==
    LET c == task[h].coupon IN
    /\ At(h, "find")
    /\ Load(h, "use", c)
    /\ races' = races \union RowRace(h, c)
    /\ UNCHANGED <<tables, now, changes, deaths>>

SaveUsage(h) ==
    /\ At(h, "use")
    /\ usage' = [usage EXCEPT ![task[h].order] = task[h].coupon]
    /\ Goto(h, "count")
    /\ UNCHANGED <<coupon, order, now, races, changes, deaths>>

SaveCount(h) ==
    LET t == task[h] IN
    /\ At(h, "count")
    /\ Save(t.coupon, [t.copy EXCEPT !.count = @ + 1])
    /\ Done(h)
    /\ UNCHANGED <<usage, order, now, races, changes, deaths>>

-----------------------------------------------------------------------------
(***************************************************************************)
(* cancelMyOrder and updateStatus to cancelled: the stock is released,     *)
(* rollbackCouponUsage, and the save of the status.                        *)
(***************************************************************************)
StartCancel(h, o) ==
    /\ At(h, "idle")
    /\ order[o].status = "pending"
    /\ task' = [task EXCEPT ![h] = [NoTask EXCEPT !.pc = "usage", !.order = o]]
    /\ races' = races \union OrderRace(h, o)
    /\ UNCHANGED <<tables, now, changes, deaths>>

FindUsage(h) ==
    LET c == usage[task[h].order] IN
    /\ At(h, "usage")
    /\ task' = [task EXCEPT ![h].pc = IF c = None THEN "forget" ELSE "load", ![h].coupon = c]
    /\ races' = races \union LimitRace(h, c)
    /\ UNCHANGED <<tables, now, changes, deaths>>

FindToRollback(h) ==
    LET c == task[h].coupon IN
    /\ At(h, "load")
    /\ Load(h, "uncount", c)
    /\ races' = races \union RowRace(h, c)
    /\ UNCHANGED <<tables, now, changes, deaths>>

\* Mutant of SaveUncount: the counter is left as it was read.
SaveUncountNothing(h) ==
    LET t == task[h] IN
    /\ At(h, "uncount")
    /\ Save(t.coupon, t.copy)
    /\ task' = [task EXCEPT ![h].pc = "forget", ![h].copy = None]
    /\ UNCHANGED <<usage, order, now, races, changes, deaths>>

SaveUncount(h) ==
    LET t == task[h] IN
    /\ At(h, "uncount")
    /\ Save(t.coupon, [t.copy EXCEPT !.count = IF @ > 0 THEN @ - 1 ELSE 0])
    /\ task' = [task EXCEPT ![h].pc = "forget", ![h].copy = None]
    /\ UNCHANGED <<usage, order, now, races, changes, deaths>>

DeleteUsage(h) ==
    /\ At(h, "forget")
    /\ usage' = [usage EXCEPT ![task[h].order] = None]
    /\ Goto(h, "cancel")
    /\ UNCHANGED <<coupon, order, now, races, changes, deaths>>

SaveCancelled(h) ==
    /\ At(h, "cancel")
    /\ order' = [order EXCEPT ![task[h].order].status = "cancelled"]
    /\ Done(h)
    /\ UNCHANGED <<coupon, usage, now, races, changes, deaths>>

-----------------------------------------------------------------------------
(***************************************************************************)
(* CouponAdminController: create, update, deactivate, expire-overdue.      *)
(***************************************************************************)
CountChange == changes < MaxChanges /\ changes' = changes + 1

\* The code is unique: the row is inserted once.
Create(c) ==
    /\ coupon[c] = None
    /\ CountChange
    /\ \E config \in Configs :
        /\ ValidRequest(config) /\ ValidConfig(config)
        /\ Save(c, config)
    /\ UNCHANGED <<usage, order, task, now, races, deaths>>

FindToChange(h, pc) ==
    \E c \in Existing :
        /\ At(h, "idle")
        /\ CountChange
        /\ Load(h, pc, c)
        /\ races' = races \union RowRace(h, c) \union LimitRace(h, c)
        /\ UNCHANGED <<tables, now, deaths>>

FindToUpdate(h) == FindToChange(h, "patch")

\* Every column the request names is assigned.
Patched(row, patch) ==
    [column \in DOMAIN row |-> IF column \in DOMAIN patch THEN patch[column] ELSE row[column]]

CoreColumns == {"type", "value", "min", "cap"}

\* Mutant of SaveUpdate: the patched coupon is not checked as a whole.
SaveUpdateUnchecked(h) ==
    LET t == task[h] IN
    /\ At(h, "patch")
    /\ \E patch \in Patches :
        IF ValidRequest(patch) /\ (Mutable(t.copy, now) \/ DOMAIN patch \cap CoreColumns = {})
        THEN Save(t.coupon, Patched(t.copy, patch))
        ELSE UNCHANGED coupon
    /\ Done(h)
    /\ UNCHANGED <<usage, order, now, races, changes, deaths>>

\* Throws when the coupon has started and the patch touches a core column.
SaveUpdate(h) ==
    LET t == task[h] IN
    /\ At(h, "patch")
    /\ \E patch \in Patches :
        LET row == Patched(t.copy, patch) IN
        IF /\ ValidRequest(patch)
           /\ Mutable(t.copy, now) \/ DOMAIN patch \cap CoreColumns = {}
           /\ ValidConfig(row)
        THEN Save(t.coupon, row)
        ELSE UNCHANGED coupon
    /\ Done(h)
    /\ UNCHANGED <<usage, order, now, races, changes, deaths>>

FindToDeactivate(h) == FindToChange(h, "deactivate")

\* Mutant of SaveDeactivated: the coupon is switched over.
SaveDeactivatedSwitches(h) ==
    LET t == task[h] IN
    /\ At(h, "deactivate")
    /\ Save(t.coupon, [t.copy EXCEPT !.active = ~@])
    /\ Done(h)
    /\ UNCHANGED <<usage, order, now, races, changes, deaths>>

SaveDeactivated(h) ==
    LET t == task[h] IN
    /\ At(h, "deactivate")
    /\ Save(t.coupon, [t.copy EXCEPT !.active = FALSE])
    /\ Done(h)
    /\ UNCHANGED <<usage, order, now, races, changes, deaths>>

Overdue(c) == c.active /\ c.end # Null /\ c.end < now

\* One UPDATE statement; it overlaps whoever holds an entity.
ExpireOverdueCoupons ==
    LET late == {c \in Existing : Overdue(coupon[c])} IN
    /\ late # {}
    /\ coupon' = [c \in Coupons |->
                    IF c \in late THEN [coupon[c] EXCEPT !.active = FALSE] ELSE coupon[c]]
    /\ races' = races \union (IF \E h \in Handlers : task[h].copy # None /\ task[h].coupon \in late
                              THEN {"row"} ELSE {})
    /\ UNCHANGED <<usage, order, task, now, changes, deaths>>

-----------------------------------------------------------------------------
\* The process, or its connection to MySQL, goes away.
Die(h) ==
    /\ ~At(h, "idle")
    /\ deaths < MaxDeaths
    /\ deaths' = deaths + 1
    /\ Done(h)
    /\ UNCHANGED <<tables, now, races, changes>>

Tick ==
    /\ now < MaxTime
    /\ now' = now + 1
    /\ UNCHANGED <<tables, task, races, changes, deaths>>

Checkout(h) ==
    \/ \E o \in Orders, c \in Coupons : Validate(h, o, c)
    \/ CountUsages(h)
    \/ CountOrders(h)
    \/ InsertOrder(h)
    \/ Reserve(h)
    \/ ReserveFails(h)
    \/ FindToMark(h)
    \/ SaveUsage(h)
    \/ SaveCount(h)

Cancel(h) ==
    \/ \E o \in Orders : StartCancel(h, o)
    \/ FindUsage(h)
    \/ FindToRollback(h)
    \/ SaveUncount(h)
    \/ DeleteUsage(h)
    \/ SaveCancelled(h)

Administer(h) ==
    \/ FindToUpdate(h)
    \/ SaveUpdate(h)
    \/ FindToDeactivate(h)
    \/ SaveDeactivated(h)

Next ==
    \/ \E h \in Handlers : Checkout(h) \/ Cancel(h) \/ Administer(h) \/ Die(h)
    \/ \E c \in Coupons : Create(c)
    \/ ExpireOverdueCoupons
    \/ Tick

Spec == Init /\ [][Next]_vars

-----------------------------------------------------------------------------
Rows(c) == {o \in Orders : usage[o] = c}
Unsettled(c) == {h \in Handlers : task[h].coupon = c /\ task[h].pc \in {"count", "forget"}}

\* Every coupon row is a configured coupon with a natural counter, every usage row and every
\* order names an existing coupon, and a handler holds the entity of the coupon it works on.
TypeOK ==
    /\ \A c \in Existing : coupon[c].count \in Nat /\ coupon[c].active \in BOOLEAN /\ ValidConfig(coupon[c])
    /\ usage \in [Orders -> Existing \union {None}]
    /\ \A o \in Orders :
        /\ order[o].status \in {"none", "pending", "cancelled"}
        /\ order[o].coupon \in Existing \union {None}
        /\ order[o].discount \in 0 .. SubtotalOf[o]
    /\ \A h \in Handlers :
        /\ At(h, "idle") <=> task[h] = NoTask
        /\ task[h].coupon \in Existing \union {None}
        /\ task[h].order \in Orders \union {None}
        /\ task[h].copy # None => task[h].coupon \in Existing
    /\ races \subseteq {"row", "order", "user", "limit"}
    /\ now \in 0 .. MaxTime /\ changes \in 0 .. MaxChanges /\ deaths \in 0 .. MaxDeaths

\* usageCount is written from an entity read an await earlier (markCouponUsed,
\* rollbackCouponUsage).  As long as no two handlers hold the same entity or work on the same
\* order, it is the number of usage rows, up to the handlers between their two writes; a
\* handler that dies there can only leave it too low, never refusing a use that is left.
CounterExact ==
    races \cap {"row", "order"} = {} =>
        \A c \in Existing :
            /\ coupon[c].count + Cardinality(Unsettled(c)) <= Cardinality(Rows(c))
            /\ deaths = 0 => coupon[c].count + Cardinality(Unsettled(c)) = Cardinality(Rows(c))

\* The limits are checked before the order exists and the use is recorded after its stock is
\* reserved.  A use never exceeds the customer's limit unless the same customer has had two
\* checkouts at once, whatever the others do; it never exceeds the coupon's limit unless
\* handlers of that coupon have overlapped or died.
UsageWithinLimits ==
    [][\A h \in Handlers :
        LET t == task[h]
            c == t.coupon IN
        At(h, "use") /\ usage[t.order] = None /\ usage'[t.order] # None =>
            /\ t.seen.perUser # Null /\ "user" \notin races =>
                Cardinality(OwnUsages(UserOf[t.order], c)) < t.seen.perUser
            /\ t.seen.first /\ "user" \notin races =>
                OwnOrders(UserOf[t.order]) = {t.order}
            /\ t.seen.limit # Null /\ races \cap {"limit", "row", "order"} = {} /\ deaths = 0 =>
                Cardinality(Rows(c)) < t.seen.limit]_vars

\* A coupon that was deactivated, by an administrator or because it expired, becomes active
\* again only through an update that saw it inactive, unless a handler that loaded it before
\* saves its stale entity.
InactiveStaysOff ==
    [][\A c \in Existing :
        ~coupon[c].active /\ coupon'[c].active /\ "row" \notin races =>
            \E h \in Handlers : At(h, "patch") /\ task[h].coupon = c /\ ~task[h].copy.active]_vars

=============================================================================
