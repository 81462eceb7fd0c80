------------------------- MODULE CouponUsageProofs -------------------------
(***************************************************************************)
(* Theorems about CouponUsage, for every set of coupons, orders, customers *)
(* and handlers, and whatever an administrator may set up or change.       *)
(***************************************************************************)
EXTENDS CouponUsage, FiniteSetTheorems, TLAPS

(***************************************************************************)
(* Types, with what a handler has at each of its steps.                    *)
(***************************************************************************)
Early == {"usages", "orders", "insert"}
Placed == {"reserve", "find", "use", "count"}
Cancelling == {"usage", "load", "uncount", "forget", "cancel"}
Changing == {"patch", "deactivate"}
Held == {"use", "count", "uncount"} \union Changing

\* What a handler has at each of its steps.
TaskOK(t) ==
    /\ t \in [pc : {"idle"} \union CheckoutSteps \union Cancelling \union Changing,
              order : Orders \union {None}, coupon : Coupons \union {None},
              seen : CouponRow \union {None}, copy : CouponRow \union {None}]
    /\ t.pc = "idle" => t = NoTask
    /\ t.pc \in CheckoutSteps => t.coupon # None /\ t.seen # None
    /\ t.order # None <=> t.pc \in CheckoutSteps \union Cancelling
    /\ t.pc \in {"load", "uncount"} \union Changing => t.coupon # None
    /\ t.copy # None <=> t.pc \in Held
    /\ t.copy # None => ValidConfig(t.copy)
    /\ t.pc = "usages" => t.seen.perUser # Null
    /\ t.pc = "usage" => t.coupon = None

Statuses == {"none", "pending", "cancelled"}

Tables ==
    /\ coupon \in [Coupons -> CouponRow \union {None}]
    /\ \A c \in Existing : ValidConfig(coupon[c])
    /\ usage \in [Orders -> Existing \union {None}]
    /\ order \in [Orders -> [status : Statuses, coupon : Existing \union {None}, discount : Nat]]
    /\ \A o \in Orders : order[o].discount <= SubtotalOf[o]
    /\ races \subseteq {"row", "order", "user", "limit"}
    /\ now \in 0 .. MaxTime /\ changes \in 0 .. MaxChanges /\ deaths \in 0 .. MaxDeaths

Tasks ==
    /\ DOMAIN task = Handlers
    /\ \A h \in Handlers : TaskOK(task[h]) /\ task[h].coupon \in Existing \union {None}

Types == Tables /\ Tasks

\* A checkout is alone with its order until the order is stored; later a cancellation may be
\* under way as well, and then two handlers have worked on one order.
OrderInv ==
    /\ \A o \in Orders : order[o].status = "none" => usage[o] = None
    /\ \A h \in Handlers : task[h].pc \in Placed \union Cancelling => order[task[h].order].status # "none"
    /\ \A h \in Handlers : task[h].pc \in Early =>
        /\ order[task[h].order].status = "none"
        /\ \A g \in Handlers \ {h} : task[g].order # task[h].order
    /\ "order" \notin races => \A h \in Handlers :
        /\ task[h].order # None => \A g \in Handlers \ {h} : task[g].order # task[h].order
        /\ task[h].pc \in CheckoutSteps \ {"count"} => usage[task[h].order] = None
        /\ task[h].pc \in {"count", "load", "uncount", "forget"} => usage[task[h].order] = task[h].coupon

\* Until two handlers have held one coupon, an entity is what is stored.
RowInv ==
    "row" \notin races => \A h \in Handlers : task[h].copy # None =>
        /\ task[h].copy = coupon[task[h].coupon]
        /\ \A g \in Handlers \ {h} : task[g].coupon = task[h].coupon => task[g].copy = None

\* Until a customer has had two checkouts at once, what a checkout has counted still holds.
UserInv ==
    "user" \notin races => \A h \in Handlers : task[h].pc \in CheckoutSteps =>
        LET t == task[h]
            u == UserOf[t.order] IN
        /\ \A g \in Handlers \ {h} : task[g].pc \in CheckoutSteps => UserOf[task[g].order] # u
        /\ t.seen.perUser # Null /\ t.pc \in {"orders", "insert", "reserve", "find", "use"} =>
            Cardinality(OwnUsages(u, t.coupon)) < t.seen.perUser
        /\ t.seen.first /\ t.pc = "insert" => OwnOrders(u) = {}
        /\ t.seen.first /\ t.pc \in Placed => OwnOrders(u) = {t.order}

\* Nobody else works with the coupon of a checkout, and there is a use left for it.
LimitInv ==
    /\ "limit" \notin races => \A h \in Handlers : task[h].pc \in CheckoutSteps =>
            \A g \in Handlers \ {h} : task[g].coupon # task[h].coupon
    /\ races \cap {"limit", "row", "order"} = {} /\ deaths = 0 =>
        \A h \in Handlers : task[h].pc \in CheckoutSteps \ {"count"} /\ task[h].seen.limit # Null =>
            Cardinality(Rows(task[h].coupon)) < task[h].seen.limit

IInv == Types /\ OrderInv /\ RowInv /\ CounterExact /\ UserInv /\ LimitInv

-----------------------------------------------------------------------------
LEMMA NoTaskFacts ==
    /\ TaskOK(NoTask) /\ NoTask.pc = "idle" /\ NoTask.order = None
    /\ NoTask.coupon = None /\ NoTask.copy = None
  BY DEF TaskOK, NoTask, CheckoutSteps, Cancelling, Changing, Held

LEMMA RowFacts ==
    ASSUME NEW row \in CouponRow, NEW n \in Nat, NEW r, r = [row EXCEPT !.count = n]
    PROVE  /\ r \in CouponRow /\ r # None /\ r.count = n /\ r.active = row.active
           /\ ValidConfig(row) => ValidConfig(r)
  <1>1. r \in CouponRow /\ r.count = n /\ r.active = row.active /\ r.type = row.type /\ r.value = row.value
        /\ r.cap = row.cap /\ r.start = row.start /\ r.end = row.end
    BY DEF CouponRow
  <1> QED
    BY <1>1, NoneAssumption DEF ValidConfig

\* A handler moves.
LEMMA TaskMoves ==
    ASSUME Tasks, NEW h \in Handlers, NEW t, task' = [task EXCEPT ![h] = t]
    PROVE  /\ DOMAIN task' = Handlers /\ task'[h] = t
           /\ \A g \in Handlers \ {h} : task'[g] = task[g]
  BY DEF Tasks

\* Steps that leave the tables alone.
LEMMA TypesMove ==
    ASSUME Types, NEW h \in Handlers, NEW t, task' = [task EXCEPT ![h] = t], UNCHANGED tables,
           races' \subseteq {"row", "order", "user", "limit"}, now' \in 0 .. MaxTime,
           changes' \in 0 .. MaxChanges, deaths' \in 0 .. MaxDeaths,
           TaskOK(t), t.coupon \in Existing \union {None}
    PROVE  Types'
  <1>1. /\ DOMAIN task' = Handlers /\ task'[h] = t
        /\ \A g \in Handlers \ {h} : task'[g] = task[g]
    BY TaskMoves DEF Types
  <1>2. UNCHANGED <<coupon, usage, order>> /\ Existing' = Existing
    BY DEF tables, Existing
  <1>3. Tables'
    BY <1>2 DEF Types, Tables
  <1>4. Tasks'
    BY <1>1, <1>2 DEF Types, Tasks
  <1> QED
    BY <1>3, <1>4 DEF Types
-----------------------------------------------------------------------------
(***************************************************************************)
(* What a handler h may do next, as t, so that each part of the invariant  *)
(* goes on holding when the tables the part is about do not change.        *)
(***************************************************************************)
GoodOrder(h, t) ==
    /\ t.pc \in Placed \union Cancelling => order[t.order].status # "none"
    /\ \A g \in Handlers \ {h} : task[g].pc \in Early => task[g].order # t.order
    /\ t.pc \in Early =>
        /\ order[t.order].status = "none"
        /\ \A g \in Handlers \ {h} : task[g].order # t.order
    /\ "order" \notin races' =>
        /\ t.order # None => \A g \in Handlers \ {h} : task[g].order # t.order
        /\ t.pc \in CheckoutSteps \ {"count"} => usage[t.order] = None
        /\ t.pc \in {"count", "load", "uncount", "forget"} => usage[t.order] = t.coupon

GoodRow(h, t) ==
    "row" \notin races' /\ t.copy # None =>
        /\ t.copy = coupon[t.coupon]
        /\ \A g \in Handlers \ {h} : task[g].coupon = t.coupon => task[g].copy = None

GoodCount(h, t) ==
    /\ t.pc \in {"count", "forget"} => t.coupon = None
    /\ task[h].pc \in {"count", "forget"} => task[h].coupon = None \/ deaths' # 0

GoodUser(h, t) ==
    "user" \notin races' /\ t.pc \in CheckoutSteps =>
        LET u == UserOf[t.order] IN
        /\ \A g \in Handlers \ {h} : task[g].pc \in CheckoutSteps => UserOf[task[g].order] # u
        /\ t.seen.perUser # Null /\ t.pc \in {"orders", "insert", "reserve", "find", "use"} =>
            Cardinality(OwnUsages(u, t.coupon)) < t.seen.perUser
        /\ t.seen.first /\ t.pc = "insert" => OwnOrders(u) = {}
        /\ t.seen.first /\ t.pc \in Placed => OwnOrders(u) = {t.order}

GoodLimit(h, t) ==
    /\ "limit" \notin races' => \A g \in Handlers \ {h} :
            t.pc \in CheckoutSteps \/ task[g].pc \in CheckoutSteps => task[g].coupon # t.coupon
    /\ /\ races' \cap {"limit", "row", "order"} = {} /\ deaths' = 0
       /\ t.pc \in CheckoutSteps \ {"count"} /\ t.seen.limit # Null
       => Cardinality(Rows(t.coupon)) < t.seen.limit

Moves(h, t) ==
    /\ task' = [task EXCEPT ![h] = t]
    /\ races \subseteq races' /\ (deaths' = 0 => deaths = 0)

LEMMA OrderKeeps ==
    ASSUME Types, OrderInv, NEW h \in Handlers, NEW t, Moves(h, t), GoodOrder(h, t),
           UNCHANGED <<order, usage>>
    PROVE  OrderInv'
  <1>1. /\ DOMAIN task' = Handlers /\ task'[h] = t
        /\ \A g \in Handlers \ {h} : task'[g] = task[g]
    BY TaskMoves DEF Moves, Types
  <1>2. UNCHANGED <<order, usage>> /\ races \subseteq races'
    BY DEF Moves
  <1>3. \A o \in Orders : order'[o].status = "none" => usage'[o] = None
    BY <1>2 DEF OrderInv
  <1>4. \A g \in Handlers : task'[g].pc \in Placed \union Cancelling => order'[task'[g].order].status # "none"
    BY <1>1, <1>2 DEF OrderInv, GoodOrder
  <1>5. ASSUME NEW g \in Handlers, task'[g].pc \in Early
        PROVE  /\ order'[task'[g].order].status = "none"
               /\ \A k \in Handlers \ {g} : task'[k].order # task'[g].order
    BY <1>1, <1>2, <1>5 DEF OrderInv, GoodOrder
  <1>6. ASSUME "order" \notin races', NEW g \in Handlers
        PROVE  /\ task'[g].order # None => \A k \in Handlers \ {g} : task'[k].order # task'[g].order
               /\ task'[g].pc \in CheckoutSteps \ {"count"} => usage'[task'[g].order] = None
               /\ task'[g].pc \in {"count", "load", "uncount", "forget"} =>
                    usage'[task'[g].order] = task'[g].coupon
    <2>1. "order" \notin races
      BY <1>2, <1>6
    <2>2. CASE g = h
      BY <1>1, <1>2, <1>6, <2>2 DEF GoodOrder
    <2>3. CASE g # h
      <3>1. task'[g] = task[g]
        BY <1>1, <2>3
      <3>2. task[g].order # None => task'[h].order # task[g].order
        BY <1>1, <1>6, <2>3 DEF GoodOrder
      <3> QED
        BY <1>1, <1>2, <2>1, <2>3, <3>1, <3>2 DEF OrderInv
    <2> QED
      BY <2>2, <2>3
  <1> QED
    BY <1>3, <1>4, <1>5, <1>6 DEF OrderInv

LEMMA RowKeeps ==
    ASSUME Types, RowInv, NEW h \in Handlers, NEW t, Moves(h, t), GoodRow(h, t), UNCHANGED coupon
    PROVE  RowInv'
  <1>1. /\ DOMAIN task' = Handlers /\ task'[h] = t
        /\ \A g \in Handlers \ {h} : task'[g] = task[g]
    BY TaskMoves DEF Moves, Types
  <1>2. UNCHANGED coupon /\ races \subseteq races'
    BY DEF Moves
  <1> QED
    BY <1>1, <1>2 DEF RowInv, GoodRow

LEMMA CountKeeps ==
    ASSUME Types, CounterExact, NEW h \in Handlers, NEW t, Moves(h, t), GoodCount(h, t),
           UNCHANGED <<coupon, usage>>
    PROVE  CounterExact'
  <1>1. /\ DOMAIN task' = Handlers /\ task'[h] = t
        /\ \A g \in Handlers \ {h} : task'[g] = task[g]
    BY TaskMoves DEF Moves, Types
  <1> SUFFICES ASSUME (races \cap {"row", "order"} = {})', NEW c \in Existing'
               PROVE  (/\ coupon[c].count + Cardinality(Unsettled(c)) <= Cardinality(Rows(c))
                       /\ deaths = 0 => coupon[c].count + Cardinality(Unsettled(c)) = Cardinality(Rows(c)))'
    BY DEF CounterExact
  <1>2. UNCHANGED <<coupon, usage>> /\ races \cap {"row", "order"} = {} /\ (deaths' = 0 => deaths = 0)
    BY DEF Moves
  <1>3. c \in Existing /\ c # None /\ coupon[c].count \in Nat
    BY <1>2, NoneAssumption DEF Existing, Types, Tables, CouponRow
  <1>4. Rows(c)' = Rows(c)
    BY <1>2 DEF Rows
  <1>5. Unsettled(c)' \subseteq Unsettled(c)
    BY <1>1, <1>3 DEF Unsettled, GoodCount
  <1>6. deaths' = 0 => Unsettled(c) \subseteq Unsettled(c)'
    BY <1>1, <1>3 DEF Unsettled, GoodCount
  <1>7. IsFiniteSet(Unsettled(c)) /\ IsFiniteSet(Rows(c))
    BY FiniteAssumption, FS_Subset DEF Unsettled, Rows
  <1>8. /\ Cardinality(Unsettled(c)) \in Nat /\ Cardinality(Unsettled(c)') \in Nat
        /\ Cardinality(Unsettled(c)') <= Cardinality(Unsettled(c)) /\ Cardinality(Rows(c)) \in Nat
    BY <1>5, <1>7, FS_Subset, FS_CardinalityType
  <1>9. /\ coupon[c].count + Cardinality(Unsettled(c)) <= Cardinality(Rows(c))
        /\ deaths = 0 => coupon[c].count + Cardinality(Unsettled(c)) = Cardinality(Rows(c))
    BY <1>2, <1>3 DEF CounterExact
  <1>10. deaths' = 0 => Unsettled(c)' = Unsettled(c)
    BY <1>5, <1>6
  <1>11. coupon'[c].count = coupon[c].count /\ Cardinality(Rows(c)') = Cardinality(Rows(c))
    BY <1>2, <1>4
  <1> QED
    BY <1>2, <1>3, <1>8, <1>9, <1>10, <1>11

LEMMA UserKeeps ==
    ASSUME Types, UserInv, NEW h \in Handlers, NEW t, Moves(h, t), GoodUser(h, t),
           UNCHANGED usage, \A u : OwnOrders(u)' = OwnOrders(u)
    PROVE  UserInv'
  <1>1. /\ DOMAIN task' = Handlers /\ task'[h] = t
        /\ \A g \in Handlers \ {h} : task'[g] = task[g]
    BY TaskMoves DEF Moves, Types
  <1>2. races \subseteq races'
    BY DEF Moves
  <1>3. \A u, c : OwnUsages(u, c)' = OwnUsages(u, c) /\ OwnOrders(u)' = OwnOrders(u)
    BY DEF OwnUsages
  <1> SUFFICES ASSUME "user" \notin races', NEW g \in Handlers, task'[g].pc \in CheckoutSteps
               PROVE  LET t0 == task'[g]
                          u == UserOf[t0.order] IN
                      /\ \A k \in Handlers \ {g} : task'[k].pc \in CheckoutSteps => UserOf[task'[k].order] # u
                      /\ t0.seen.perUser # Null /\ t0.pc \in {"orders", "insert", "reserve", "find", "use"} =>
                            Cardinality(OwnUsages(u, t0.coupon)) < t0.seen.perUser
                      /\ t0.seen.first /\ t0.pc = "insert" => OwnOrders(u) = {}
                      /\ t0.seen.first /\ t0.pc \in Placed => OwnOrders(u) = {t0.order}
    BY <1>3 DEF UserInv
  <1>4. "user" \notin races
    BY <1>2
  <1>5. CASE g = h
    BY <1>1, <1>5 DEF GoodUser
  <1>6. CASE g # h
    <2>1. task'[g] = task[g]
      BY <1>1, <1>6
    <2>2. t.pc \in CheckoutSteps => UserOf[t.order] # UserOf[task[g].order]
      BY <1>6, <2>1 DEF GoodUser
    <2> QED
      BY <1>1, <1>4, <1>6, <2>1, <2>2 DEF UserInv
  <1> QED
    BY <1>5, <1>6

LEMMA LimitKeeps ==
    ASSUME Types, LimitInv, NEW h \in Handlers, NEW t, Moves(h, t), GoodLimit(h, t), UNCHANGED usage
    PROVE  LimitInv'
  <1>1. /\ DOMAIN task' = Handlers /\ task'[h] = t
        /\ \A g \in Handlers \ {h} : task'[g] = task[g]
    BY TaskMoves DEF Moves, Types
  <1>2. races \subseteq races' /\ (deaths' = 0 => deaths = 0)
    BY DEF Moves
  <1>3. \A c : Rows(c)' = Rows(c)
    BY DEF Rows
  <1>4. "limit" \notin races' => \A g \in Handlers : task'[g].pc \in CheckoutSteps =>
            \A k \in Handlers \ {g} : task'[k].coupon # task'[g].coupon
    BY <1>1, <1>2 DEF LimitInv, GoodLimit
  <1>5. ASSUME races' \cap {"limit", "row", "order"} = {}, deaths' = 0,
               NEW g \in Handlers, task'[g].pc \in CheckoutSteps \ {"count"}, task'[g].seen.limit # Null
        PROVE  Cardinality(Rows(task'[g].coupon)) < task'[g].seen.limit
    BY <1>1, <1>2, <1>5 DEF LimitInv, GoodLimit
  <1>6. ASSUME races' \cap {"limit", "row", "order"} = {}, deaths' = 0,
               NEW g \in Handlers, task'[g].pc \in CheckoutSteps \ {"count"}, task'[g].seen.limit # Null
        PROVE  Cardinality(Rows(task[g].coupon)') < task'[g].seen.limit
    BY <1>3, <1>5, <1>6
  <1> QED
    BY <1>4, <1>6 DEF LimitInv

\* The parts together, for a step that changes no table.
LEMMA QuietKeeps ==
    ASSUME IInv, NEW h \in Handlers, NEW t, Moves(h, t), UNCHANGED tables,
           races' \subseteq {"row", "order", "user", "limit"}, now' = now,
           changes' \in 0 .. MaxChanges, deaths' \in 0 .. MaxDeaths,
           TaskOK(t), t.coupon \in Existing \union {None},
           GoodOrder(h, t), GoodRow(h, t), GoodCount(h, t), GoodUser(h, t), GoodLimit(h, t)
    PROVE  IInv'
  <1>1. UNCHANGED <<coupon, usage, order>>
    BY DEF tables
  <1>2. /\ Types /\ OrderInv /\ RowInv /\ CounterExact /\ UserInv /\ LimitInv
        /\ now' \in 0 .. MaxTime
    BY DEF IInv, Types, Tables
  <1>3. Types'
    BY <1>2, TypesMove DEF Moves
  <1>4. OrderInv' /\ RowInv' /\ CounterExact' /\ UserInv' /\ LimitInv'
    <2>1. \A u : OwnOrders(u)' = OwnOrders(u)
      BY <1>1 DEF OwnOrders
    <2> QED
      BY <1>1, <1>2, <2>1, OrderKeeps, RowKeeps, CountKeeps, UserKeeps, LimitKeeps
  <1> QED
    BY <1>3, <1>4 DEF IInv

-----------------------------------------------------------------------------
(***************************************************************************)
(* Steps that only read the tables.                                        *)
(***************************************************************************)
LEMMA Has ==
    ASSUME IInv, NEW h \in Handlers
    PROVE  /\ TaskOK(task[h]) /\ task[h].coupon \in Existing \union {None}
           /\ Types /\ OrderInv /\ RowInv /\ CounterExact /\ UserInv /\ LimitInv
           /\ races \subseteq {"row", "order", "user", "limit"} /\ now \in 0 .. MaxTime
           /\ changes \in 0 .. MaxChanges /\ deaths \in 0 .. MaxDeaths
           /\ \A g \in Handlers : TaskOK(task[g])
  BY DEF IInv, Types, Tables, Tasks

LEMMA Parts ==
    ASSUME IInv
    PROVE  /\ Types /\ OrderInv /\ RowInv /\ CounterExact /\ UserInv /\ LimitInv
           /\ races \subseteq {"row", "order", "user", "limit"} /\ now \in 0 .. MaxTime
           /\ changes \in 0 .. MaxChanges /\ deaths \in 0 .. MaxDeaths
           /\ DOMAIN task = Handlers
           /\ \A h \in Handlers : TaskOK(task[h]) /\ task[h].coupon \in Existing \union {None}
  BY DEF IInv, Types, Tables, Tasks

LEMMA Shapes ==
    ASSUME NEW t, TaskOK(t)
    PROVE  /\ t = [pc |-> t.pc, order |-> t.order, coupon |-> t.coupon, seen |-> t.seen, copy |-> t.copy]
           /\ t.order \in Orders \union {None} /\ t.coupon \in Coupons \union {None}
           /\ t.seen \in CouponRow \union {None} /\ t.copy \in CouponRow \union {None}
           /\ t.pc \in {"idle"} \union CheckoutSteps \union Cancelling \union Changing
  BY DEF TaskOK

\* A handler is done, or dies.
LEMMA DoneKeeps ==
    ASSUME IInv, NEW h \in Handlers, Done(h), UNCHANGED <<tables, now, races, changes>>,
           deaths' \in 0 .. MaxDeaths, deaths' = 0 => deaths = 0,
           task[h].pc \notin {"count", "forget"} \/ deaths' # 0
    PROVE  IInv'
  <1>1. PICK t : t = NoTask
    OBVIOUS
  <1>2. TaskOK(t) /\ t.pc = "idle" /\ t.order = None /\ t.coupon = None /\ t.copy = None
    BY <1>1, NoTaskFacts
  <1>3. Moves(h, t)
    BY <1>1 DEF Moves, Done
  <1>4. \A g \in Handlers : TaskOK(task[g])
    BY Has
  <1>5. GoodOrder(h, t)
    BY <1>2, <1>4 DEF GoodOrder, TaskOK, Early, Placed, Cancelling, CheckoutSteps
  <1>6. GoodRow(h, t) /\ GoodCount(h, t) /\ GoodUser(h, t)
    BY <1>2 DEF GoodRow, GoodCount, GoodUser, CheckoutSteps
  <1>7. GoodLimit(h, t)
    BY <1>2, <1>4 DEF GoodLimit, TaskOK, CheckoutSteps
  <1> QED
    BY <1>2, <1>3, <1>5, <1>6, <1>7, Has, QuietKeeps

\* A checkout goes on to step q.
LEMMA CheckoutGoesOn ==
    ASSUME IInv, NEW h \in Handlers, NEW q, Goto(h, q),
           UNCHANGED <<tables, now, races, changes, deaths>>,
           \/ task[h].pc \in {"usages", "orders"} /\ q \in {"orders", "insert"}
           \/ task[h].pc = "reserve" /\ q = "find",
           task[h].pc = "usages" => UserAllows(h),
           q = "insert" /\ task[h].seen.first => OwnOrders(UserOf[task[h].order]) = {}
    PROVE  IInv'
  <1>1. PICK u : u = task[h]
    OBVIOUS
  <1>2. PICK t : t = [u EXCEPT !.pc = q]
    OBVIOUS
  <1>3. TaskOK(u) /\ u.coupon \in Existing \union {None}
    BY <1>1, Has
  <1>4. t = [pc |-> q, order |-> u.order, coupon |-> u.coupon, seen |-> u.seen, copy |-> u.copy]
    BY <1>2, <1>3, Shapes
  <1>5. TaskOK(t)
    BY <1>1, <1>3, <1>4 DEF TaskOK, CheckoutSteps, Cancelling, Changing, Held
  <1>6. /\ t.pc = q /\ t.order = u.order /\ t.coupon = u.coupon /\ t.seen = u.seen /\ t.copy = u.copy
        /\ u.copy = None
    BY <1>1, <1>3, <1>4 DEF TaskOK, Held, Changing
  <1>7. Moves(h, t)
    BY <1>1, <1>2 DEF Moves, Goto
  <1>8. GoodOrder(h, t)
    <2>1. \A g \in Handlers \ {h} : task[g].pc \in Early => task[g].order # u.order
      BY <1>1, Has DEF OrderInv
    <2> QED
      BY <1>1, <1>6, <2>1, Has DEF OrderInv, GoodOrder, Early, Placed, Cancelling, CheckoutSteps
  <1>9. GoodRow(h, t) /\ GoodCount(h, t)
    BY <1>1, <1>6 DEF GoodRow, GoodCount
  <1>10. GoodUser(h, t)
    <2>1. task[h].pc = "usages" => Cardinality(OwnUsages(UserOf[u.order], u.coupon)) < u.seen.perUser
      BY <1>1 DEF UserAllows
    <2> QED
      BY <1>1, <1>6, <2>1, Has DEF UserInv, GoodUser, Placed, CheckoutSteps
  <1>11. GoodLimit(h, t)
    BY <1>1, <1>6, Has DEF LimitInv, GoodLimit, CheckoutSteps
  <1>12. t.coupon \in Existing \union {None}
    BY <1>3, <1>6
  <1> QED
    BY <1>5, <1>7, <1>8, <1>9, <1>10, <1>11, <1>12, Has, QuietKeeps

LEMMA CountUsagesKeeps ==
    ASSUME IInv, NEW h \in Handlers, CountUsages(h)
    PROVE  IInv'
  <1>1. CASE UserAllows(h)
    <2>1. PICK q : q = IF task[h].seen.first THEN "orders" ELSE "insert"
      OBVIOUS
    <2>2. Goto(h, q) /\ task[h].pc = "usages" /\ UNCHANGED <<tables, now, races, changes, deaths>>
      BY <1>1, <2>1 DEF CountUsages, At
    <2> QED
      BY <1>1, <2>1, <2>2, CheckoutGoesOn
  <1>2. CASE ~UserAllows(h)
    <2>1. Done(h) /\ task[h].pc = "usages" /\ UNCHANGED <<tables, now, races, changes, deaths>>
      BY <1>2 DEF CountUsages, At
    <2> QED
      BY <2>1, Has, DoneKeeps
  <1> QED
    BY <1>1, <1>2

LEMMA CountOrdersKeeps ==
    ASSUME IInv, NEW h \in Handlers, CountOrders(h)
    PROVE  IInv'
  <1>1. task[h].pc = "orders" /\ UNCHANGED <<tables, now, races, changes, deaths>>
    BY DEF CountOrders, At
  <1>2. CASE OwnOrders(UserOf[task[h].order]) = {}
    BY <1>1, <1>2, CheckoutGoesOn DEF CountOrders
  <1>3. CASE OwnOrders(UserOf[task[h].order]) # {}
    BY <1>1, <1>3, Has, DoneKeeps DEF CountOrders
  <1> QED
    BY <1>2, <1>3

LEMMA ReserveKeeps ==
    ASSUME IInv, NEW h \in Handlers, Reserve(h)
    PROVE  IInv'
  <1>1. task[h].pc = "reserve" /\ UNCHANGED <<tables, now, races, changes, deaths>>
    BY DEF Reserve, At
  <1>2. CASE Goto(h, "find")
    BY <1>1, <1>2, CheckoutGoesOn
  <1>3. CASE Done(h)
    BY <1>1, <1>3, Has, DoneKeeps
  <1> QED
    BY <1>2, <1>3 DEF Reserve

LEMMA DieKeeps ==
    ASSUME IInv, NEW h \in Handlers, Die(h)
    PROVE  IInv'
  <1>1. Done(h) /\ UNCHANGED <<tables, now, races, changes>> /\ deaths < MaxDeaths /\ deaths' = deaths + 1
    BY DEF Die
  <1>2. deaths' \in 0 .. MaxDeaths /\ deaths' # 0
    BY <1>1, BoundsAssumption, Has
  <1> QED
    BY <1>1, <1>2, DoneKeeps

LEMMA ValidateKeeps ==
    ASSUME IInv, NEW h \in Handlers, NEW o \in Orders, NEW c \in Coupons, Validate(h, o, c)
    PROVE  IInv'
  <1>1. PICK row : row = coupon[c]
    OBVIOUS
  <1>2. PICK q : q = FirstCheck(row)
    OBVIOUS
  <1>3. PICK t : t = [pc |-> q, order |-> o, coupon |-> c, seen |-> row, copy |-> None]
    OBVIOUS
  <1>4. /\ task[h].pc = "idle" /\ order[o].status = "none" /\ c \in Existing /\ LimitAllows(row)
        /\ \A g \in Handlers \ {h} : task[g].order # o
        /\ task' = [task EXCEPT ![h] = t]
        /\ races' = races \union UserRace(h, o) \union BusyRace(h, c)
        /\ UNCHANGED <<tables, now, changes, deaths>>
    BY <1>1, <1>2, <1>3 DEF Validate, At, Others
  <1>5. row \in CouponRow /\ row # None /\ c # None /\ o # None
    BY <1>1, <1>4, Has, NoneAssumption DEF Existing, Types, Tables
  <1>6. /\ q \in {"usages", "orders", "insert"} /\ (q = "usages" => row.perUser # Null)
        /\ (q # "usages" => row.perUser = Null) /\ (q = "insert" => ~row.first)
    BY <1>2 DEF FirstCheck
  <1>7. TaskOK(t)
    BY <1>3, <1>5, <1>6 DEF TaskOK, CheckoutSteps, Cancelling, Changing, Held
  <1>8. /\ t.pc = q /\ t.order = o /\ t.coupon = c /\ t.seen = row /\ t.copy = None
        /\ races' \subseteq {"row", "order", "user", "limit"}
        /\ c \in Existing \union {None} /\ races \subseteq races'
    BY <1>3, <1>4, Has DEF UserRace, BusyRace
  <1>9. Moves(h, t)
    BY <1>4, <1>8 DEF Moves
  <1>10. GoodOrder(h, t)
    BY <1>4, <1>6, <1>8, Has DEF GoodOrder, OrderInv, Early, Placed, Cancelling, CheckoutSteps
  <1>11. GoodRow(h, t) /\ GoodCount(h, t)
    BY <1>4, <1>6, <1>8 DEF GoodRow, GoodCount
  <1>12. GoodUser(h, t)
    <2>1. "user" \notin races' => \A g \in Handlers \ {h} : task[g].pc \in CheckoutSteps => UserOf[task[g].order] # UserOf[o]
      BY <1>4 DEF UserRace, Others
    <2> QED
      BY <1>6, <1>8, <2>1 DEF GoodUser, Placed
  <1>13. GoodLimit(h, t)
    <2>1. "limit" \notin races' => \A g \in Handlers \ {h} : task[g].coupon # c
      BY <1>4 DEF BusyRace, Others
    <2>2. ASSUME races' \cap {"limit", "row", "order"} = {}, deaths' = 0, row.limit # Null
          PROVE  Cardinality(Rows(c)) < row.limit
      <3>1. \A g \in Handlers : task[g].coupon # c
        BY <1>4, <1>5, <2>1, <2>2, Has, NoTaskFacts DEF TaskOK
      <3>2. Cardinality(Unsettled(c)) = 0
        BY <3>1, FS_EmptySet DEF Unsettled
      <3>3. row.count = Cardinality(Rows(c))
        <4>1. row.count \in Nat
          BY <1>5 DEF CouponRow
        <4>2. races \cap {"row", "order"} = {} /\ deaths = 0
          BY <1>4, <1>8, <2>2
        <4>3. row.count + Cardinality(Unsettled(c)) = Cardinality(Rows(c))
          BY <1>1, <1>4, <4>2, Has DEF CounterExact
        <4> QED
          BY <3>2, <4>1, <4>3
      <3>4. row.count < row.limit
        BY <1>4, <2>2 DEF LimitAllows
      <3> QED
        BY <3>3, <3>4
    <2> QED
      BY <1>8, <2>1, <2>2 DEF GoodLimit
  <1> QED
    BY <1>4, <1>7, <1>8, <1>9, <1>10, <1>11, <1>12, <1>13, Has, QuietKeeps

\* A handler takes a coupon's entity, to save it later.
LEMMA LoadKeeps ==
    ASSUME IInv, NEW h \in Handlers, NEW c \in Existing, NEW pc, Load(h, pc, c),
           UNCHANGED <<tables, now, deaths>>, changes' \in 0 .. MaxChanges,
           races \union RowRace(h, c) \subseteq races',
           races' \subseteq {"row", "order", "user", "limit"},
           \/ /\ task[h].coupon = c
              /\ (task[h].pc = "find" /\ pc = "use") \/ (task[h].pc = "load" /\ pc = "uncount")
           \/ task[h].pc = "idle" /\ pc \in Changing /\ LimitRace(h, c) \subseteq races'
    PROVE  IInv'
  <1>1. PICK u : u = task[h]
    OBVIOUS
  <1>2. PICK row : row = coupon[c]
    OBVIOUS
  <1>3. PICK t : t = [u EXCEPT !.pc = pc, !.coupon = c, !.copy = row]
    OBVIOUS
  <1>4. TaskOK(u)
    BY <1>1, Has
  <1>5. row \in CouponRow /\ row # None /\ c # None /\ ValidConfig(row) /\ c \in Coupons
    BY <1>2, Has, NoneAssumption DEF Existing, Types, Tables
  <1>6. t = [pc |-> pc, order |-> u.order, coupon |-> c, seen |-> u.seen, copy |-> row]
    BY <1>3, <1>4 DEF TaskOK
  <1>7. t.pc = pc /\ t.order = u.order /\ t.coupon = c /\ t.seen = u.seen /\ t.copy = row
    BY <1>6
  <1>8. TaskOK(t)
    BY <1>1, <1>4, <1>5, <1>6, NoTaskFacts DEF TaskOK, CheckoutSteps, Cancelling, Changing, Held
  <1>9. Moves(h, t)
    BY <1>1, <1>2, <1>3 DEF Moves, Load
  <1>10. u.pc = "idle" => u.order = None
    BY <1>4, NoTaskFacts DEF TaskOK
  <1>11. GoodOrder(h, t)
    <2>1. CASE u.pc \in {"find", "load"}
      <3>1. \A g \in Handlers \ {h} : task[g].pc \in Early => task[g].order # u.order
        BY <1>1, Has DEF OrderInv
      <3> QED
        BY <1>1, <1>7, <2>1, <3>1, Has DEF OrderInv, GoodOrder, Early, Placed, Cancelling, CheckoutSteps, Changing
    <2>2. CASE u.pc = "idle"
      <3>1. \A g \in Handlers \ {h} : task[g].pc \in Early => task[g].order # None
        BY Has DEF TaskOK, Early, CheckoutSteps
      <3> QED
        BY <1>1, <1>7, <1>10, <2>2, <3>1 DEF GoodOrder, Early, Placed, Cancelling, CheckoutSteps, Changing
    <2> QED
      BY <1>1, <2>1, <2>2
  <1>12. GoodRow(h, t)
    BY <1>2, <1>7 DEF GoodRow, RowRace, Others
  <1>13. GoodCount(h, t)
    BY <1>1, <1>7 DEF GoodCount, Changing
  <1>14. GoodUser(h, t)
    BY <1>1, <1>7, Has DEF GoodUser, UserInv, CheckoutSteps, Placed, Changing
  <1>15. GoodLimit(h, t)
    <2>1. CASE u.pc \in {"find", "load"}
      BY <1>1, <1>7, <2>1, Has DEF GoodLimit, LimitInv, CheckoutSteps, Changing
    <2>2. CASE u.pc = "idle"
      <3>1. "limit" \notin races' => \A g \in Handlers \ {h} : task[g].pc \in CheckoutSteps => task[g].coupon # c
        BY <1>1, <2>2 DEF LimitRace, Others
      <3> QED
        BY <1>1, <1>7, <2>2, <3>1 DEF GoodLimit, CheckoutSteps, Changing
    <2> QED
      BY <1>1, <2>1, <2>2
  <1> QED
    BY <1>7, <1>8, <1>9, <1>11, <1>12, <1>13, <1>14, <1>15, Has, QuietKeeps

LEMMA FindsKeep ==
    ASSUME IInv, NEW h \in Handlers,
           FindToMark(h) \/ FindToRollback(h) \/ FindToUpdate(h) \/ FindToDeactivate(h)
    PROVE  IInv'
  <1>1. ASSUME FindToMark(h) \/ FindToRollback(h)
        PROVE  IInv'
    <2>1. PICK c : c = task[h].coupon
      OBVIOUS
    <2>2. /\ \/ task[h].pc = "find" /\ Load(h, "use", c)
             \/ task[h].pc = "load" /\ Load(h, "uncount", c)
          /\ races' = races \union RowRace(h, c)
          /\ UNCHANGED <<tables, now, changes, deaths>>
      BY <1>1, <2>1 DEF FindToMark, FindToRollback, At
    <2>3. c \in Existing
      BY <2>1, <2>2, Has DEF TaskOK, CheckoutSteps
    <2>4. races' \subseteq {"row", "order", "user", "limit"}
      BY <2>2, Has DEF RowRace
    <2> QED
      BY <2>1, <2>2, <2>3, <2>4, Has, LoadKeeps
  <1>2. ASSUME NEW pc \in Changing, FindToChange(h, pc)
        PROVE  IInv'
    <2>1. PICK c \in Existing :
            /\ task[h].pc = "idle" /\ CountChange /\ Load(h, pc, c)
            /\ races' = races \union RowRace(h, c) \union LimitRace(h, c)
            /\ UNCHANGED <<tables, now, deaths>>
      BY <1>2 DEF FindToChange, At
    <2>2. races' \subseteq {"row", "order", "user", "limit"}
      BY <2>1, Has DEF RowRace, LimitRace
    <2>3. changes' \in 0 .. MaxChanges
      BY <2>1, Has, BoundsAssumption DEF CountChange
    <2> QED
      BY <2>1, <2>2, <2>3, LoadKeeps
  <1> QED
    BY <1>1, <1>2 DEF FindToUpdate, FindToDeactivate, Changing

LEMMA StartCancelKeeps ==
    ASSUME IInv, NEW h \in Handlers, NEW o \in Orders, StartCancel(h, o)
    PROVE  IInv'
  <1>1. PICK t : t = [NoTask EXCEPT !.pc = "usage", !.order = o]
    OBVIOUS
  <1>2. t = [pc |-> "usage", order |-> o, coupon |-> None, seen |-> None, copy |-> None]
    BY <1>1 DEF NoTask
  <1>3. t.pc = "usage" /\ t.order = o /\ t.coupon = None /\ t.copy = None /\ o # None
    BY <1>2, NoneAssumption
  <1>4. TaskOK(t)
    BY <1>2, <1>3 DEF TaskOK, CheckoutSteps, Cancelling, Changing, Held
  <1>5. /\ task' = [task EXCEPT ![h] = t] /\ task[h].pc = "idle" /\ order[o].status = "pending"
        /\ races' = races \union OrderRace(h, o) /\ UNCHANGED <<tables, now, changes, deaths>>
    BY <1>1 DEF StartCancel, At
  <1>6. races' \subseteq {"row", "order", "user", "limit"} /\ Moves(h, t)
    BY <1>5, Has DEF OrderRace, Moves
  <1>7. GoodOrder(h, t)
    <2>1. \A g \in Handlers \ {h} : task[g].pc \in Early => task[g].order # o
      BY <1>5, Has DEF OrderInv
    <2>2. "order" \notin races' => \A g \in Handlers \ {h} : task[g].order # o
      BY <1>5 DEF OrderRace, Others
    <2> QED
      BY <1>3, <1>5, <2>1, <2>2 DEF GoodOrder, Early, CheckoutSteps
  <1>8. GoodRow(h, t) /\ GoodCount(h, t) /\ GoodUser(h, t)
    BY <1>3, <1>5 DEF GoodRow, GoodCount, GoodUser, CheckoutSteps
  <1>9. GoodLimit(h, t)
    BY <1>3, Has DEF GoodLimit, TaskOK, CheckoutSteps
  <1> QED
    BY <1>3, <1>4, <1>5, <1>6, <1>7, <1>8, <1>9, Has, QuietKeeps

LEMMA FindUsageKeeps ==
    ASSUME IInv, NEW h \in Handlers, FindUsage(h)
    PROVE  IInv'
  <1>1. PICK u : u = task[h]
    OBVIOUS
  <1>2. PICK c : c = usage[u.order]
    OBVIOUS
  <1>3. PICK q : q = IF c = None THEN "forget" ELSE "load"
    OBVIOUS
  <1>4. PICK t : t = [u EXCEPT !.pc = q, !.coupon = c]
    OBVIOUS
  <1>5. TaskOK(u) /\ u.pc = "usage"
    BY <1>1, Has DEF FindUsage, At
  <1>6. u.order \in Orders /\ c \in Existing \union {None}
    BY <1>2, <1>5, Has DEF TaskOK, Cancelling, Types, Tables
  <1>7. t = [pc |-> q, order |-> u.order, coupon |-> c, seen |-> u.seen, copy |-> u.copy]
    BY <1>4, <1>5 DEF TaskOK
  <1>8. t.pc = q /\ t.order = u.order /\ t.coupon = c /\ t.seen = u.seen /\ t.copy = None
    BY <1>5, <1>7 DEF TaskOK, Held, Changing
  <1>9. TaskOK(t)
    BY <1>3, <1>5, <1>6, <1>7 DEF TaskOK, CheckoutSteps, Cancelling, Changing, Held, Existing
  <1>10. /\ task' = [task EXCEPT ![h] = t] /\ races' = races \union LimitRace(h, c)
         /\ UNCHANGED <<tables, now, changes, deaths>>
    BY <1>1, <1>2, <1>3, <1>4 DEF FindUsage
  <1>11. races' \subseteq {"row", "order", "user", "limit"} /\ Moves(h, t)
    BY <1>10, Has DEF LimitRace, Moves
  <1>12. GoodOrder(h, t)
    <2>1. \A g \in Handlers \ {h} : task[g].pc \in Early => task[g].order # u.order
      BY <1>1, Has DEF OrderInv
    <2> QED
      BY <1>1, <1>2, <1>3, <1>5, <1>8, <1>10, <1>11, <2>1, Has
         DEF OrderInv, GoodOrder, Moves, Early, Placed, Cancelling, CheckoutSteps
  <1>13. GoodRow(h, t) /\ GoodCount(h, t) /\ GoodUser(h, t)
    BY <1>1, <1>3, <1>5, <1>8 DEF GoodRow, GoodCount, GoodUser, CheckoutSteps
  <1>14. GoodLimit(h, t)
    BY <1>3, <1>8, <1>10, Has DEF GoodLimit, LimitRace, Others, CheckoutSteps
  <1> QED
    BY <1>6, <1>8, <1>9, <1>10, <1>11, <1>12, <1>13, <1>14, Has, QuietKeeps

\* Time passes, or nothing happens.
LEMMA TimePasses ==
    ASSUME IInv, UNCHANGED <<tables, task, races, changes, deaths>>, now' \in 0 .. MaxTime
    PROVE  IInv'
  <1>1. UNCHANGED <<coupon, usage, order, task, races, changes, deaths>> /\ Existing' = Existing
    BY DEF tables, Existing
  <1>2. Types'
    BY <1>1 DEF IInv, Types, Tables, Tasks
  <1>3. OrderInv' /\ RowInv'
    BY <1>1 DEF IInv, OrderInv, RowInv
  <1>4. /\ \A c : Rows(c)' = Rows(c) /\ Unsettled(c)' = Unsettled(c)
        /\ \A u : OwnOrders(u)' = OwnOrders(u) /\ \A c : OwnUsages(u, c)' = OwnUsages(u, c)
    BY <1>1 DEF Rows, Unsettled, OwnOrders, OwnUsages
  <1>5. CounterExact'
    BY <1>1, <1>4 DEF IInv, CounterExact
  <1>6. UserInv' /\ LimitInv'
    BY <1>1, <1>4 DEF IInv, UserInv, LimitInv
  <1> QED
    BY <1>2, <1>3, <1>5, <1>6 DEF IInv

-----------------------------------------------------------------------------
(***************************************************************************)
(* Steps that write the orders.                                            *)
(***************************************************************************)
LEMMA OrderWritten ==
    ASSUME IInv, NEW h \in Handlers, NEW t, NEW w, Moves(h, t),
           order' = [order EXCEPT ![task[h].order] = w], UNCHANGED <<coupon, usage, now, changes, deaths>>,
           races' = races, task[h].pc \in {"insert", "reserve", "cancel"},
           w \in [status : {"pending", "cancelled"}, coupon : Existing \union {None}, discount : Nat],
           w.discount <= SubtotalOf[task[h].order],
           \/ t = NoTask
           \/ task[h].pc = "insert" /\ t = [task[h] EXCEPT !.pc = "reserve"]
    PROVE  /\ IInv /\ UserInv' => IInv'
           /\ task[h].order \in Orders
  <1>1. PICK u : u = task[h]
    OBVIOUS
  <1>2. PICK o : o = u.order
    OBVIOUS
  <1>3. TaskOK(u) /\ u.coupon \in Existing \union {None}
    BY <1>1, Has
  <1>4. o \in Orders /\ o # None
    BY <1>1, <1>2, <1>3, NoneAssumption DEF TaskOK, CheckoutSteps, Cancelling
  <1>5. /\ TaskOK(t) /\ t.coupon \in Existing \union {None} /\ t.copy = None
        /\ \/ t.pc = "idle" /\ t.order = None /\ t.coupon = None
           \/ u.pc = "insert" /\ t.pc = "reserve" /\ t.order = o /\ t.coupon = u.coupon /\ t.seen = u.seen
    <2>1. CASE t = NoTask
      BY <2>1, NoTaskFacts
    <2>2. CASE u.pc = "insert" /\ t = [u EXCEPT !.pc = "reserve"]
      <3>1. t = [pc |-> "reserve", order |-> u.order, coupon |-> u.coupon, seen |-> u.seen, copy |-> u.copy]
        BY <1>3, <2>2, Shapes
      <3> QED
        BY <1>2, <1>3, <2>2, <3>1 DEF TaskOK, CheckoutSteps, Cancelling, Changing, Held
    <2> QED
      BY <1>1, <2>1, <2>2
  <1>6. /\ order' = [order EXCEPT ![o] = w] /\ w.status # "none"
        /\ order \in [Orders -> [status : Statuses, coupon : Existing \union {None}, discount : Nat]]
    BY <1>1, <1>2, Has DEF Types, Tables
  <1>7. order'[o] = w /\ \A x \in Orders : x # o => order'[x] = order[x]
    BY <1>4, <1>6
  <1>8. /\ DOMAIN task' = Handlers /\ task'[h] = t
        /\ \A g \in Handlers \ {h} : task'[g] = task[g]
    BY Has, TaskMoves DEF Moves, Types
  <1>9. Types'
    <2>1. Existing' = Existing
      BY DEF Existing
    <2>2. order' \in [Orders -> [status : Statuses, coupon : Existing \union {None}, discount : Nat]]
      BY <1>4, <1>6 DEF Statuses
    <2>3. \A x \in Orders : order'[x].discount <= SubtotalOf[x]
      BY <1>1, <1>2, <1>7, Has DEF Types, Tables
    <2>4. Tables'
      BY <2>1, <2>2, <2>3, Has DEF Types, Tables
    <2>5. Tasks'
      BY <1>5, <1>8, <2>1, Has DEF Types, Tasks
    <2> QED
      BY <2>4, <2>5 DEF Types
  <1>10. OrderInv'
    <2>1. \A g \in Handlers : task[g].pc \in Early => task[g].order \in Orders
      BY Has DEF TaskOK, Early, CheckoutSteps
    <2>2. \A g \in Handlers \ {h} : task[g].pc \in Early => task[g].order # o
      BY <1>1, <1>2, Has DEF OrderInv
    <2>3. \A x \in Orders : order'[x].status = "none" => usage'[x] = None
      BY <1>6, <1>7, Has DEF OrderInv
    <2>4. ASSUME NEW g \in Handlers, task'[g].pc \in Placed \union Cancelling
          PROVE  order'[task'[g].order].status # "none"
      <3>1. CASE g = h
        BY <1>5, <1>6, <1>7, <1>8, <2>4, <3>1 DEF Placed, Cancelling
      <3>2. CASE g # h
        <4>1. task[g].order \in Orders
          BY <1>8, <2>4, <3>2, Has DEF TaskOK, Placed, CheckoutSteps
        <4> QED
          BY <1>6, <1>7, <1>8, <2>4, <3>2, <4>1, Has DEF OrderInv
      <3> QED
        BY <3>1, <3>2
    <2>5. ASSUME NEW g \in Handlers, task'[g].pc \in Early
          PROVE  /\ order'[task'[g].order].status = "none"
                 /\ \A k \in Handlers \ {g} : task'[k].order # task'[g].order
      <3>1. g # h /\ task'[g] = task[g]
        BY <1>5, <1>8, <2>5 DEF Early
      <3>2. task[g].order # o /\ task[g].order \in Orders /\ task[g].order # None
        BY <2>1, <2>2, <2>5, <3>1, NoneAssumption
      <3> QED
        BY <1>5, <1>7, <1>8, <2>5, <3>1, <3>2, Has DEF OrderInv
    <2>6. ASSUME "order" \notin races', NEW g \in Handlers
          PROVE  /\ task'[g].order # None => \A k \in Handlers \ {g} : task'[k].order # task'[g].order
                 /\ task'[g].pc \in CheckoutSteps \ {"count"} => usage[task'[g].order] = None
                 /\ task'[g].pc \in {"count", "load", "uncount", "forget"} =>
                      usage[task'[g].order] = task'[g].coupon
      <3>1. \A k \in Handlers : task'[k].order # None => task'[k].order = task[k].order
        BY <1>1, <1>2, <1>5, <1>8
      <3>2. task'[g].order # None => \A k \in Handlers \ {g} : task'[k].order # task'[g].order
        BY <2>6, <3>1, Has DEF OrderInv
      <3>3. CASE g = h
        BY <1>1, <1>2, <1>5, <1>8, <2>6, <3>2, <3>3, Has DEF OrderInv, CheckoutSteps
      <3>4. CASE g # h
        BY <1>8, <2>6, <3>2, <3>4, Has DEF OrderInv
      <3> QED
        BY <3>3, <3>4
    <2> QED
      BY <2>3, <2>4, <2>5, <2>6 DEF OrderInv
  <1>11. GoodRow(h, t) /\ GoodCount(h, t)
    BY <1>1, <1>5 DEF GoodRow, GoodCount
  <1>12. GoodLimit(h, t)
    <2>1. CASE t.pc = "idle"
      BY <1>5, <2>1, Has DEF GoodLimit, TaskOK, CheckoutSteps
    <2>2. CASE t.pc # "idle"
      BY <1>1, <1>5, <2>2, Has DEF GoodLimit, LimitInv, CheckoutSteps
    <2> QED
      BY <2>1, <2>2
  <1>13. RowInv' /\ CounterExact' /\ LimitInv'
    BY <1>11, <1>12, Has, RowKeeps, CountKeeps, LimitKeeps
  <1> QED
    BY <1>2, <1>1, <1>4, <1>9, <1>10, <1>13 DEF IInv

LEMMA CancelledKeeps ==
    ASSUME IInv, NEW h \in Handlers, ReserveFails(h) \/ SaveCancelled(h)
    PROVE  IInv'
  <1>1. PICK o : o = task[h].order
    OBVIOUS
  <1>2. PICK w : w = [order[o] EXCEPT !.status = "cancelled"]
    OBVIOUS
  <1>3. PICK t : t = NoTask
    OBVIOUS
  <1>4. /\ order' = [order EXCEPT ![task[h].order] = w] /\ task[h].pc \in {"reserve", "cancel"}
        /\ Moves(h, t) /\ UNCHANGED <<coupon, usage, now, changes, deaths>> /\ races' = races
    BY <1>1, <1>2, <1>3 DEF ReserveFails, SaveCancelled, At, Done, Moves
  <1>5. o \in Orders /\ order[o].status # "none"
    BY <1>1, <1>4, Has DEF TaskOK, OrderInv, CheckoutSteps, Cancelling, Placed
  <1>6. PICK old \in [status : Statuses, coupon : Existing \union {None}, discount : Nat] : old = order[o]
    BY <1>5, Has DEF Types, Tables
  <1>7. old.discount <= SubtotalOf[o] /\ w = [old EXCEPT !.status = "cancelled"]
    BY <1>2, <1>5, <1>6, Has DEF Types, Tables
  <1>8. /\ w \in [status : {"pending", "cancelled"}, coupon : Existing \union {None}, discount : Nat]
        /\ w.discount <= SubtotalOf[o] /\ w.status = "cancelled"
    BY <1>7
  <1>9. UserInv'
    <2>1. \A x \in Orders : order'[x].status # "none" <=> order[x].status # "none"
      BY <1>1, <1>4, <1>5, <1>8, Has DEF Types, Tables
    <2>2. \A u : OwnOrders(u)' = OwnOrders(u)
      BY <2>1 DEF OwnOrders
    <2>3. GoodUser(h, t)
      BY <1>3, NoTaskFacts DEF GoodUser, CheckoutSteps
    <2> QED
      BY <1>4, <2>2, <2>3, Has, UserKeeps
  <1> QED
    BY <1>1, <1>3, <1>4, <1>8, <1>9, OrderWritten

\* What a coupon takes off is never more than the cart costs.
LEMMA DiscountBounded ==
    ASSUME NEW c \in CouponRow, NEW s \in Nat
    PROVE  CalcDiscountAmount(c, s, <<>>) \in 0 .. s
  <1>1. /\ c.value \in Nat /\ c.cap \in Nat \union {Null} /\ c.type \in DiscountTypes
    BY DEF CouponRow
  <1>2. FixedDiscount(c, s) \in 0 .. s
    BY <1>1 DEF FixedDiscount
  <1>3. PercentageDiscount(c, s) \in 0 .. s
    <2>1. PICK n \in Nat : n = s * c.value
      BY <1>1
    <2>2. PICK raw \in Nat : raw = n \div 100
      OBVIOUS
    <2>3. raw = (s * c.value) \div 100
      BY <2>1, <2>2
    <2>4. PICK b \in Nat : b = IF c.cap # Null THEN Smaller(raw, c.cap) ELSE raw
      BY <1>1 DEF Smaller
    <2>5. PercentageDiscount(c, s) = Smaller(b, s)
      BY <2>3, <2>4 DEF PercentageDiscount
    <2> QED
      BY <2>5 DEF Smaller
  <1>4. BuyGetDiscount(c, s, <<>>) = 0
    BY DEF BuyGetDiscount
  <1> QED
    BY <1>1, <1>2, <1>3, <1>4 DEF CalcDiscountAmount, DiscountTypes

LEMMA InsertOrderKeeps ==
    ASSUME IInv, NEW h \in Handlers, InsertOrder(h)
    PROVE  IInv'
  <1>1. PICK u : u = task[h]
    OBVIOUS
  <1>2. PICK o : o = u.order
    OBVIOUS
  <1>3. PICK d : d = CalcDiscountAmount(u.seen, SubtotalOf[o], <<>>)
    OBVIOUS
  <1>4. PICK w : w = [status |-> "pending", coupon |-> u.coupon, discount |-> d]
    OBVIOUS
  <1>5. PICK t : t = [u EXCEPT !.pc = "reserve"]
    OBVIOUS
  <1>6. /\ order' = [order EXCEPT ![o] = w] /\ u.pc = "insert"
        /\ Moves(h, t) /\ UNCHANGED <<coupon, usage, now, changes, deaths>> /\ races' = races
    BY <1>1, <1>2, <1>3, <1>4, <1>5 DEF InsertOrder, At, Goto, Moves
  <1>7. TaskOK(u) /\ u.coupon \in Existing \union {None}
    BY <1>1, Has
  <1>8. o \in Orders /\ u.seen \in CouponRow /\ o # None
    BY <1>2, <1>6, <1>7, NoneAssumption DEF TaskOK, CheckoutSteps
  <1>9. d \in 0 .. SubtotalOf[o] /\ SubtotalOf[o] \in Nat
    BY <1>3, <1>8, DiscountBounded, SubtotalAssumption
  <1>10. /\ w \in [status : {"pending", "cancelled"}, coupon : Existing \union {None}, discount : Nat]
         /\ w.discount <= SubtotalOf[o] /\ w.status = "pending"
    BY <1>4, <1>7, <1>9
  <1>11. UserInv'
    <2>1. /\ DOMAIN task' = Handlers /\ task'[h] = t
          /\ \A g \in Handlers \ {h} : task'[g] = task[g]
      BY <1>6, Has, TaskMoves DEF Moves, Types
    <2>2. t = [pc |-> "reserve", order |-> u.order, coupon |-> u.coupon, seen |-> u.seen, copy |-> u.copy]
      BY <1>5, <1>7, Shapes
    <2>3. order'[o] = w /\ \A x \in Orders : x # o => order'[x] = order[x]
      BY <1>6, <1>8, Has DEF Types, Tables
    <2>4. \A x, c : OwnUsages(x, c)' = OwnUsages(x, c)
      BY <1>6 DEF OwnUsages
    <2>5. \A x : x # UserOf[o] => OwnOrders(x)' = OwnOrders(x)
      BY <2>3 DEF OwnOrders
    <2>6. OwnOrders(UserOf[o])' = OwnOrders(UserOf[o]) \union {o}
      BY <1>8, <1>10, <2>3 DEF OwnOrders
    <2> SUFFICES ASSUME "user" \notin races', NEW g \in Handlers, task'[g].pc \in CheckoutSteps,
                        NEW x, x = UserOf[task'[g].order]
                 PROVE  LET t0 == task'[g] IN
                        /\ \A k \in Handlers \ {g} : task'[k].pc \in CheckoutSteps => UserOf[task'[k].order] # x
                        /\ t0.seen.perUser # Null /\ t0.pc \in {"orders", "insert", "reserve", "find", "use"} =>
                              Cardinality(OwnUsages(x, t0.coupon)) < t0.seen.perUser
                        /\ t0.seen.first /\ t0.pc = "insert" => OwnOrders(x)' = {}
                        /\ t0.seen.first /\ t0.pc \in Placed => OwnOrders(x)' = {t0.order}
      BY <1>6 DEF UserInv, OwnOrders, OwnUsages
    <2>7. "user" \notin races
      BY <1>6
    <2>8. \A k \in Handlers : task'[k].pc \in CheckoutSteps => task[k].pc \in CheckoutSteps /\ task'[k].order = task[k].order
      BY <1>1, <1>6, <2>1, <2>2 DEF CheckoutSteps
    <2>9. task[g].pc \in CheckoutSteps
            /\ \A k \in Handlers \ {g} : task[k].pc \in CheckoutSteps => UserOf[task[k].order] # UserOf[task[g].order]
      BY <2>7, <2>8, Has DEF UserInv
    <2>10. CASE g = h
      <3>1. u.seen.perUser # Null => Cardinality(OwnUsages(UserOf[o], u.coupon)) < u.seen.perUser
        BY <1>1, <1>2, <1>6, <2>7, Has DEF UserInv, CheckoutSteps
      <3>2. u.seen.first => OwnOrders(UserOf[o]) = {}
        BY <1>1, <1>2, <1>6, <2>7, Has DEF UserInv, CheckoutSteps
      <3> QED
        BY <1>1, <1>2, <2>1, <2>2, <2>6, <2>8, <2>9, <2>10, <3>1, <3>2 DEF Placed
    <2>11. CASE g # h
      <3>1. UserOf[task[g].order] # UserOf[o]
        BY <1>1, <1>2, <1>6, <2>9, <2>11 DEF CheckoutSteps
      <3>2. task'[g] = task[g]
        BY <2>1, <2>11
      <3> QED
        BY <2>5, <2>7, <2>8, <2>9, <3>1, <3>2, Has DEF UserInv
    <2> QED
      BY <2>10, <2>11
  <1> QED
    BY <1>1, <1>2, <1>5, <1>6, <1>10, <1>11, OrderWritten

-----------------------------------------------------------------------------
(***************************************************************************)
(* Steps that write the usage rows.                                        *)
(***************************************************************************)
LEMMA OneMore ==
    ASSUME NEW S, IsFiniteSet(S), NEW x
    PROVE  /\ IsFiniteSet(S \union {x}) /\ IsFiniteSet(S \ {x}) /\ Cardinality(S) \in Nat
           /\ x \notin S => Cardinality(S \union {x}) = Cardinality(S) + 1
           /\ x \in S => Cardinality(S \ {x}) = Cardinality(S) - 1
  BY FS_AddElement, FS_RemoveElement, FS_CardinalityType

LEMMA FiniteParts ==
    /\ \A c : IsFiniteSet(Rows(c)) /\ IsFiniteSet(Unsettled(c))
    /\ \A u, c : IsFiniteSet(OwnUsages(u, c))
  BY FiniteAssumption, FS_Subset DEF Rows, Unsettled, OwnUsages

\* What both steps have in common: x is the new usage row's coupon, or None.
UsageStep(h, t, x) ==
    /\ Moves(h, t)
    /\ usage' = [usage EXCEPT ![task[h].order] = x]
    /\ UNCHANGED <<coupon, order, now, races, changes, deaths>>
    /\ t.order = task[h].order /\ t.coupon = task[h].coupon /\ t.seen = task[h].seen
    /\ \/ task[h].pc = "use" /\ t.pc = "count" /\ x = task[h].coupon /\ t.copy = task[h].copy
       \/ task[h].pc = "forget" /\ t.pc = "cancel" /\ x = None /\ t.copy = None

LEMMA UsageFacts ==
    ASSUME IInv, NEW h \in Handlers, NEW t, NEW x, UsageStep(h, t, x)
    PROVE  /\ DOMAIN task' = Handlers /\ task'[h] = t
           /\ \A g \in Handlers \ {h} : task'[g] = task[g]
           /\ task[h].order \in Orders /\ task[h].order # None /\ x \in Existing \union {None}
           /\ task[h].pc = "use" => x # None
           /\ usage'[task[h].order] = x /\ \A o \in Orders : o # task[h].order => usage'[o] = usage[o]
  <1>1. /\ DOMAIN task' = Handlers /\ task'[h] = t
        /\ \A g \in Handlers \ {h} : task'[g] = task[g]
    BY Has, TaskMoves DEF UsageStep, Moves, Types
  <1>2. task[h].order \in Orders /\ task[h].order # None
    BY Has, NoneAssumption DEF UsageStep, TaskOK, CheckoutSteps, Cancelling
  <1>3. x \in Existing \union {None} /\ (task[h].pc = "use" => x # None)
    BY Has DEF UsageStep, TaskOK, CheckoutSteps
  <1>4. usage'[task[h].order] = x /\ \A o \in Orders : o # task[h].order => usage'[o] = usage[o]
    BY <1>2, Has DEF UsageStep, Types, Tables
  <1> QED
    BY <1>1, <1>2, <1>3, <1>4

LEMMA UsageTypes ==
    ASSUME IInv, NEW h \in Handlers, NEW t, NEW x, UsageStep(h, t, x), TaskOK(t)
    PROVE  Types'
  <1>1. Existing' = Existing
    BY DEF UsageStep, Existing
  <1>2. usage' \in [Orders -> Existing \union {None}]
    BY Has, UsageFacts DEF UsageStep, Types, Tables
  <1>3. Tables'
    BY <1>1, <1>2, Has DEF UsageStep, Types, Tables
  <1>4. Tasks'
    <2>1. /\ DOMAIN task' = Handlers /\ task'[h] = t
          /\ \A g \in Handlers \ {h} : task'[g] = task[g]
      BY UsageFacts
    <2>2. t.coupon \in Existing \union {None}
      BY Has DEF UsageStep
    <2>3. \A g \in Handlers : TaskOK(task'[g]) /\ task'[g].coupon \in Existing \union {None}
      BY <2>1, <2>2, Has
    <2> QED
      BY <1>1, <2>1, <2>3 DEF Tasks
  <1> QED
    BY <1>3, <1>4 DEF Types

LEMMA UsageOrders ==
    ASSUME IInv, NEW h \in Handlers, NEW t, NEW x, UsageStep(h, t, x)
    PROVE  OrderInv'
  <1>1. /\ DOMAIN task' = Handlers /\ task'[h] = t
        /\ \A g \in Handlers \ {h} : task'[g] = task[g]
        /\ UNCHANGED <<order, races>>
    BY UsageFacts DEF UsageStep
  <1>2. \A g \in Handlers :
            /\ task'[g].order = task[g].order /\ task'[g].coupon = task[g].coupon
            /\ task'[g].pc \in Placed \union Cancelling => task[g].pc \in Placed \union Cancelling
            /\ task'[g].pc \in Early => task[g].pc \in Early
    BY <1>1 DEF UsageStep, Placed, Cancelling, Early
  <1>3. order[task[h].order].status # "none"
    BY Has DEF UsageStep, OrderInv, Placed, Cancelling
  <1>4. \A o \in Orders : order'[o].status = "none" => usage'[o] = None
    BY <1>1, <1>3, Has, UsageFacts DEF OrderInv
  <1>5. \A g \in Handlers : task'[g].pc \in Placed \union Cancelling => order'[task'[g].order].status # "none"
    BY <1>1, <1>2, Has DEF OrderInv
  <1>6. \A g \in Handlers : task'[g].pc \in Early =>
            /\ order'[task'[g].order].status = "none"
            /\ \A k \in Handlers \ {g} : task'[k].order # task'[g].order
    BY <1>1, <1>2, Has DEF OrderInv
  <1>7. ASSUME "order" \notin races', NEW g \in Handlers
        PROVE  /\ task'[g].order # None => \A k \in Handlers \ {g} : task'[k].order # task'[g].order
               /\ task'[g].pc \in CheckoutSteps \ {"count"} => usage'[task'[g].order] = None
               /\ task'[g].pc \in {"count", "load", "uncount", "forget"} =>
                    usage'[task'[g].order] = task'[g].coupon
    <2>1. task'[g].order # None => \A k \in Handlers \ {g} : task'[k].order # task'[g].order
      BY <1>1, <1>2, <1>7, Has DEF OrderInv
    <2>2. CASE g = h
      <3>1. /\ t.order = task[h].order /\ t.coupon = task[h].coupon /\ usage'[t.order] = x
            /\ (t.pc = "count" /\ x = t.coupon) \/ t.pc = "cancel"
        <4>1. usage'[task[h].order] = x
          BY UsageFacts
        <4> QED
          BY <4>1 DEF UsageStep
      <3> QED
        BY <1>1, <2>1, <2>2, <3>1 DEF CheckoutSteps
    <2>3. CASE g # h
      <3>1. task'[g] = task[g] /\ (task[g].order # None => task[g].order # task[h].order)
        BY <1>1, <1>7, <2>3, Has DEF OrderInv
      <3>2. /\ task[g].pc \in CheckoutSteps \union {"load", "uncount", "forget"} =>
                  task[g].order \in Orders /\ task[g].order # None
        BY Has, NoneAssumption DEF TaskOK, Cancelling
      <3>3. task[g].pc \in CheckoutSteps \union {"load", "uncount", "forget"} =>
                usage'[task[g].order] = usage[task[g].order]
        BY <3>1, <3>2, UsageFacts
      <3> QED
        BY <1>1, <1>7, <2>1, <3>1, <3>3, Has DEF OrderInv, CheckoutSteps
    <2> QED
      BY <2>2, <2>3
  <1> QED
    BY <1>4, <1>5, <1>6, <1>7 DEF OrderInv

LEMMA UsageCounts ==
    ASSUME IInv, NEW h \in Handlers, NEW t, NEW x, UsageStep(h, t, x)
    PROVE  CounterExact'
  <1>1. /\ DOMAIN task' = Handlers /\ task'[h] = t
        /\ \A g \in Handlers \ {h} : task'[g] = task[g]
    BY UsageFacts
  <1> SUFFICES ASSUME (races \cap {"row", "order"} = {})', NEW c \in Existing'
               PROVE  (/\ coupon[c].count + Cardinality(Unsettled(c)) <= Cardinality(Rows(c))
                       /\ deaths = 0 => coupon[c].count + Cardinality(Unsettled(c)) = Cardinality(Rows(c)))'
    BY DEF CounterExact
  <1>2. UNCHANGED <<coupon, deaths>> /\ races \cap {"row", "order"} = {}
    BY DEF UsageStep
  <1>3. c \in Existing /\ c # None /\ coupon[c].count \in Nat
    BY <1>2, NoneAssumption, Has DEF Existing, Types, Tables, CouponRow
  <1>4. /\ coupon[c].count + Cardinality(Unsettled(c)) <= Cardinality(Rows(c))
        /\ deaths = 0 => coupon[c].count + Cardinality(Unsettled(c)) = Cardinality(Rows(c))
    BY <1>2, <1>3, Has DEF CounterExact
  <1>5. PICK o \in Orders : o = task[h].order
    BY UsageFacts
  <1>6. IsFiniteSet(Rows(c)) /\ IsFiniteSet(Unsettled(c))
    BY FiniteParts
  <1>7. /\ task[h].pc = "use" => usage[o] = None
        /\ task[h].pc = "forget" => usage[o] = task[h].coupon
    BY <1>2, <1>5, Has DEF OrderInv, CheckoutSteps
  <1>8. CASE task[h].pc = "use" /\ x = c
    <2>1. Rows(c)' = Rows(c) \union {o} /\ o \notin Rows(c)
      BY <1>3, <1>5, <1>7, <1>8, UsageFacts DEF Rows
    <2>2. Unsettled(c)' = Unsettled(c) \union {h} /\ h \notin Unsettled(c)
      BY <1>1, <1>8 DEF Unsettled, UsageStep
    <2>3. /\ Cardinality(Rows(c)') = Cardinality(Rows(c)) + 1
          /\ Cardinality(Unsettled(c)') = Cardinality(Unsettled(c)) + 1
          /\ Cardinality(Rows(c)) \in Nat /\ Cardinality(Unsettled(c)) \in Nat
      BY <1>6, <2>1, <2>2, OneMore
    <2> QED
      BY <1>2, <1>3, <1>4, <2>3
  <1>9. CASE task[h].pc = "forget" /\ task[h].coupon = c
    <2>1. Rows(c)' = Rows(c) \ {o} /\ o \in Rows(c)
      <3>1. usage'[o] = None /\ \A p \in Orders : p # o => usage'[p] = usage[p]
        <4>1. x = None
          BY <1>9 DEF UsageStep
        <4>2. usage'[o] = x /\ \A p \in Orders : p # o => usage'[p] = usage[p]
          BY <1>5, UsageFacts
        <4> QED
          BY <4>1, <4>2
      <3> QED
        BY <1>3, <1>7, <1>9, <3>1 DEF Rows
    <2>2. Unsettled(c)' = Unsettled(c) \ {h} /\ h \in Unsettled(c)
      BY <1>1, <1>9 DEF Unsettled, UsageStep
    <2>3. /\ Cardinality(Rows(c)') = Cardinality(Rows(c)) - 1
          /\ Cardinality(Unsettled(c)') = Cardinality(Unsettled(c)) - 1
          /\ Cardinality(Rows(c)) \in Nat /\ Cardinality(Unsettled(c)) \in Nat
      BY <1>6, <2>1, <2>2, OneMore
    <2> QED
      BY <1>2, <1>3, <1>4, <2>3
  <1>10. CASE task[h].coupon # c
    <2>1. Rows(c)' = Rows(c)
      BY <1>3, <1>5, <1>7, <1>10, UsageFacts DEF Rows, UsageStep
    <2>2. Unsettled(c)' = Unsettled(c)
      BY <1>1, <1>10 DEF Unsettled, UsageStep
    <2> QED
      BY <1>2, <1>4, <2>1, <2>2
  <1> QED
    BY <1>8, <1>9, <1>10 DEF UsageStep

LEMMA UsageUsers ==
    ASSUME IInv, NEW h \in Handlers, NEW t, NEW x, UsageStep(h, t, x)
    PROVE  UserInv'
  <1>1. /\ DOMAIN task' = Handlers /\ task'[h] = t
        /\ \A g \in Handlers \ {h} : task'[g] = task[g]
    BY UsageFacts
  <1>2. \A g \in Handlers :
            /\ task'[g].order = task[g].order /\ task'[g].coupon = task[g].coupon /\ task'[g].seen = task[g].seen
            /\ task'[g].pc \in CheckoutSteps => task[g].pc \in CheckoutSteps
            /\ task'[g].pc \in CheckoutSteps /\ task'[g].pc # task[g].pc => g = h /\ task'[g].pc = "count"
    BY <1>1 DEF UsageStep, CheckoutSteps
  <1> SUFFICES ASSUME "user" \notin races', NEW g \in Handlers, task'[g].pc \in CheckoutSteps,
                      NEW u, u = UserOf[task'[g].order], NEW c, c = task'[g].coupon
               PROVE  LET t0 == task'[g] IN
                      /\ \A k \in Handlers \ {g} : task'[k].pc \in CheckoutSteps => UserOf[task'[k].order] # u
                      /\ t0.seen.perUser # Null /\ t0.pc \in {"orders", "insert", "reserve", "find", "use"} =>
                            Cardinality(OwnUsages(u, c))' < t0.seen.perUser
                      /\ t0.seen.first /\ t0.pc = "insert" => OwnOrders(u)' = {}
                      /\ t0.seen.first /\ t0.pc \in Placed => OwnOrders(u)' = {t0.order}
    BY DEF UserInv, OwnOrders, OwnUsages
  <1>3. /\ "user" \notin races /\ task[g].pc \in CheckoutSteps
        /\ u = UserOf[task[g].order] /\ c = task[g].coupon
    BY <1>2 DEF UsageStep
  <1>4. OwnOrders(u)' = OwnOrders(u)
    BY DEF OwnOrders, UsageStep
  <1>5. \A k \in Handlers \ {g} : task'[k].pc \in CheckoutSteps => UserOf[task'[k].order] # u
    BY <1>2, <1>3, Has DEF UserInv
  <1>6. task'[g].seen.first => /\ task'[g].pc = "insert" => OwnOrders(u)' = {}
                               /\ task'[g].pc \in Placed => OwnOrders(u)' = {task'[g].order}
    <2>1. task'[g].pc # task[g].pc => task[g].pc = "use" /\ task'[g].pc = "count"
      BY <1>1, <1>2 DEF UsageStep, CheckoutSteps
    <2> QED
      BY <1>2, <1>3, <1>4, <2>1, Has DEF UserInv, Placed
  <1>7. ASSUME task'[g].seen.perUser # Null, task'[g].pc \in {"orders", "insert", "reserve", "find", "use"}
        PROVE  Cardinality(OwnUsages(u, c))' < task'[g].seen.perUser
    <2>1. task'[g].pc = task[g].pc
      BY <1>2, <1>7
    <2>2. Cardinality(OwnUsages(u, c)) < task[g].seen.perUser
      BY <1>2, <1>3, <1>7, <2>1, Has DEF UserInv
    <2>3. OwnUsages(u, c)' \subseteq OwnUsages(u, c)
      <3>1. CASE task[h].pc = "use"
        <4>1. g # h
          BY <1>1, <1>7, <3>1 DEF UsageStep
        <4>2. UserOf[task[h].order] # u
          BY <1>3, <3>1, <4>1, Has DEF UserInv, CheckoutSteps
        <4> QED
          BY <4>2, UsageFacts DEF OwnUsages
      <3>2. CASE task[h].pc = "forget"
        <4>1. c # None
          BY <1>3, Has DEF TaskOK
        <4> QED
          BY <3>2, <4>1, UsageFacts DEF OwnUsages, UsageStep
      <3> QED
        BY <3>1, <3>2 DEF UsageStep
    <2>4. /\ Cardinality(OwnUsages(u, c)') <= Cardinality(OwnUsages(u, c))
          /\ Cardinality(OwnUsages(u, c)) \in Nat /\ Cardinality(OwnUsages(u, c)') \in Nat
      <3>1. IsFiniteSet(OwnUsages(u, c)) /\ IsFiniteSet(OwnUsages(u, c)')
        BY <2>3, FiniteParts, FS_Subset
      <3> QED
        BY <2>3, <3>1, FS_Subset, FS_CardinalityType
    <2>5. task[g].seen.perUser \in Nat
      BY <1>2, <1>3, <1>7, Has DEF TaskOK, CouponRow
    <2> QED
      BY <1>2, <2>2, <2>4, <2>5
  <1> QED
    BY <1>5, <1>6, <1>7

LEMMA UsageLimits ==
    ASSUME IInv, NEW h \in Handlers, NEW t, NEW x, UsageStep(h, t, x)
    PROVE  LimitInv'
  <1>1. /\ DOMAIN task' = Handlers /\ task'[h] = t
        /\ \A g \in Handlers \ {h} : task'[g] = task[g]
        /\ UNCHANGED <<races, deaths>>
    BY UsageFacts DEF UsageStep
  <1>2. \A g \in Handlers :
            /\ task'[g].coupon = task[g].coupon /\ task'[g].seen = task[g].seen
            /\ task'[g].pc \in CheckoutSteps => task[g].pc \in CheckoutSteps
            /\ task'[g].pc \in CheckoutSteps \ {"count"} => g # h \/ task[h].pc = "forget"
    BY <1>1 DEF UsageStep, CheckoutSteps
  <1>3. "limit" \notin races' => \A g \in Handlers : task'[g].pc \in CheckoutSteps =>
            \A k \in Handlers \ {g} : task'[k].coupon # task'[g].coupon
    BY <1>1, <1>2, Has DEF LimitInv
  <1>4. ASSUME races' \cap {"limit", "row", "order"} = {}, deaths' = 0, NEW g \in Handlers,
               task'[g].pc \in CheckoutSteps \ {"count"}, task'[g].seen.limit # Null,
               NEW c, c = task[g].coupon
        PROVE  Cardinality(Rows(c))' < task'[g].seen.limit
    <2>1. g # h /\ task'[g] = task[g]
      BY <1>1, <1>4 DEF UsageStep, CheckoutSteps
    <2>2. Cardinality(Rows(c)) < task[g].seen.limit
      BY <1>1, <1>4, <2>1, Has DEF LimitInv
    <2>3. task[h].coupon # c /\ c # None
      BY <1>1, <1>4, <2>1, Has DEF LimitInv, TaskOK
    <2>4. Rows(c)' \subseteq Rows(c)
      BY <2>3, UsageFacts DEF Rows, UsageStep
    <2>5. /\ Cardinality(Rows(c)') <= Cardinality(Rows(c))
          /\ Cardinality(Rows(c)) \in Nat /\ Cardinality(Rows(c)') \in Nat
      <3>1. IsFiniteSet(Rows(c)) /\ IsFiniteSet(Rows(c)')
        BY <2>4, FiniteParts, FS_Subset
      <3> QED
        BY <2>4, <3>1, FS_Subset, FS_CardinalityType
    <2>6. task[g].seen.limit \in Nat
      BY <1>4, <2>1, Has DEF TaskOK, CouponRow
    <2> QED
      BY <2>1, <2>2, <2>5, <2>6
  <1>5. ASSUME races' \cap {"limit", "row", "order"} = {}, deaths' = 0, NEW g \in Handlers,
               task'[g].pc \in CheckoutSteps \ {"count"}, task'[g].seen.limit # Null
        PROVE  Cardinality(Rows(task[g].coupon))' < task'[g].seen.limit
    <2>1. PICK c : c = task[g].coupon
      OBVIOUS
    <2>2. Cardinality(Rows(c))' < task'[g].seen.limit
      BY <1>4, <1>5, <2>1
    <2> QED
      BY <1>2, <2>1, <2>2 DEF Rows
  <1> QED
    BY <1>3, <1>5 DEF LimitInv

LEMMA UsagesKeep ==
    ASSUME IInv, NEW h \in Handlers, SaveUsage(h) \/ DeleteUsage(h)
    PROVE  IInv'
  <1>1. PICK u : u = task[h]
    OBVIOUS
  <1>2. PICK q : q = IF u.pc = "use" THEN "count" ELSE "cancel"
    OBVIOUS
  <1>3. PICK x : x = IF u.pc = "use" THEN u.coupon ELSE None
    OBVIOUS
  <1>4. PICK t : t = [u EXCEPT !.pc = q]
    OBVIOUS
  <1>5. TaskOK(u)
    BY <1>1, Has
  <1>6. t = [pc |-> q, order |-> u.order, coupon |-> u.coupon, seen |-> u.seen, copy |-> u.copy]
    BY <1>4, <1>5, Shapes
  <1>7. u.pc \in {"use", "forget"} /\ (u.pc = "forget" => u.copy = None)
    BY <1>1, <1>5 DEF SaveUsage, DeleteUsage, At, TaskOK, Held, Changing
  <1>8. /\ task' = [task EXCEPT ![h] = t] /\ usage' = [usage EXCEPT ![task[h].order] = x]
        /\ UNCHANGED <<coupon, order, now, races, changes, deaths>>
    BY <1>1, <1>2, <1>3, <1>4, <1>7 DEF SaveUsage, DeleteUsage, At, Goto
  <1>9. TaskOK(t)
    BY <1>2, <1>5, <1>6, <1>7 DEF TaskOK, CheckoutSteps, Cancelling, Changing, Held
  <1>10. UsageStep(h, t, x)
    BY <1>1, <1>2, <1>3, <1>6, <1>7, <1>8 DEF UsageStep, Moves
  <1>11. RowInv'
    <2>1. GoodRow(h, t)
      BY <1>1, <1>6, <1>7, <1>8, Has DEF GoodRow, RowInv
    <2> QED
      BY <1>10, <2>1, Has, RowKeeps DEF UsageStep
  <1> QED
    BY <1>9, <1>10, <1>11, UsageTypes, UsageOrders, UsageCounts, UsageUsers, UsageLimits DEF IInv

-----------------------------------------------------------------------------
(***************************************************************************)
(* Steps by which a handler saves the entity it holds.                     *)
(***************************************************************************)
WriteStep(h, t, row) ==
    /\ Moves(h, t)
    /\ coupon' = [coupon EXCEPT ![task[h].coupon] = row]
    /\ UNCHANGED <<usage, order, now, races, changes, deaths>>
    /\ row \in CouponRow /\ ValidConfig(row)
    /\ \/ task[h].pc = "count" /\ t = NoTask /\ row.count = task[h].copy.count + 1
       \/ task[h].pc \in Changing /\ t = NoTask /\ row.count = task[h].copy.count
       \/ /\ task[h].pc = "uncount"
          /\ t = [pc |-> "forget", order |-> task[h].order, coupon |-> task[h].coupon,
                  seen |-> task[h].seen, copy |-> None]
          /\ row.count = IF task[h].copy.count > 0 THEN task[h].copy.count - 1 ELSE 0

LEMMA WriteFacts ==
    ASSUME IInv, NEW h \in Handlers, NEW t, NEW row, WriteStep(h, t, row)
    PROVE  /\ DOMAIN task' = Handlers /\ task'[h] = t
           /\ \A g \in Handlers \ {h} : task'[g] = task[g]
           /\ TaskOK(t) /\ t.coupon \in {None, task[h].coupon} /\ t.copy = None
           /\ task[h].coupon \in Existing /\ task[h].coupon # None /\ task[h].coupon \in Coupons
           /\ task[h].copy # None /\ task[h].copy \in CouponRow
           /\ row # None /\ Existing' = Existing
           /\ coupon'[task[h].coupon] = row
           /\ \A c \in Coupons : c # task[h].coupon => coupon'[c] = coupon[c]
  <1>1. /\ DOMAIN task' = Handlers /\ task'[h] = t
        /\ \A g \in Handlers \ {h} : task'[g] = task[g]
    BY Has, TaskMoves DEF WriteStep, Moves, Types
  <1>2. task[h].pc \in Held /\ TaskOK(task[h])
    BY Has DEF WriteStep, Held
  <1>3. task[h].copy # None /\ task[h].copy \in CouponRow
    BY <1>2 DEF TaskOK
  <1>4. task[h].coupon \in Existing /\ task[h].coupon # None /\ task[h].coupon \in Coupons
    BY <1>2, Has DEF TaskOK, Held, CheckoutSteps, Existing
  <1>5. TaskOK(t) /\ t.coupon \in {None, task[h].coupon} /\ t.copy = None
    <2>1. CASE t = NoTask
      BY <2>1, NoTaskFacts
    <2>2. CASE task[h].pc = "uncount"
      BY <1>2, <2>2 DEF WriteStep, TaskOK, CheckoutSteps, Cancelling, Changing, Held
    <2> QED
      BY <2>1, <2>2 DEF WriteStep
  <1>6. row # None
    BY NoneAssumption DEF WriteStep
  <1>7. /\ coupon'[task[h].coupon] = row
        /\ \A c \in Coupons : c # task[h].coupon => coupon'[c] = coupon[c]
    BY <1>4, Has DEF WriteStep, Types, Tables
  <1>8. Existing' = Existing
    BY <1>4, <1>6, <1>7 DEF Existing
  <1> QED
    BY <1>1, <1>3, <1>4, <1>5, <1>6, <1>7, <1>8

LEMMA WriteTypes ==
    ASSUME IInv, NEW h \in Handlers, NEW t, NEW row, WriteStep(h, t, row)
    PROVE  Types'
  <1>1. /\ Existing' = Existing /\ coupon'[task[h].coupon] = row
        /\ \A c \in Coupons : c # task[h].coupon => coupon'[c] = coupon[c]
        /\ task[h].coupon \in Existing
    BY WriteFacts
  <1>2. coupon' \in [Coupons -> CouponRow \union {None}]
    BY Has DEF WriteStep, Types, Tables
  <1>3. \A c \in Existing' : ValidConfig(coupon'[c])
    BY <1>1, Has DEF WriteStep, Types, Tables, Existing
  <1>4. Tables'
    BY <1>1, <1>2, <1>3, Has DEF WriteStep, Types, Tables
  <1>5. Tasks'
    <2>1. /\ DOMAIN task' = Handlers /\ task'[h] = t /\ TaskOK(t) /\ t.coupon \in Existing \union {None}
          /\ \A g \in Handlers \ {h} : task'[g] = task[g]
      BY WriteFacts
    <2>2. \A g \in Handlers : TaskOK(task'[g]) /\ task'[g].coupon \in Existing \union {None}
      BY <2>1, Has
    <2> QED
      BY <1>1, <2>1, <2>2 DEF Tasks
  <1> QED
    BY <1>4, <1>5 DEF Types

LEMMA WriteRows ==
    ASSUME IInv, NEW h \in Handlers, NEW t, NEW row, WriteStep(h, t, row)
    PROVE  RowInv'
  <1>1. /\ task'[h] = t /\ t.copy = None /\ task[h].copy # None
        /\ \A g \in Handlers \ {h} : task'[g] = task[g]
        /\ \A c \in Coupons : c # task[h].coupon => coupon'[c] = coupon[c]
    BY WriteFacts
  <1>2. ASSUME "row" \notin races', NEW g \in Handlers, task'[g].copy # None
        PROVE  /\ task'[g].copy = coupon'[task'[g].coupon]
               /\ \A k \in Handlers \ {g} : task'[k].coupon = task'[g].coupon => task'[k].copy = None
    <2>1. "row" \notin races
      BY <1>2 DEF WriteStep
    <2>2. g # h /\ task'[g] = task[g]
      BY <1>1, <1>2
    <2>3. task[g].coupon # task[h].coupon
      BY <1>1, <1>2, <2>1, <2>2, Has DEF RowInv
    <2>4. task[g].coupon \in Coupons
      BY <1>2, <2>2, Has DEF TaskOK, Held, CheckoutSteps
    <2>5. task[g].copy = coupon[task[g].coupon]
           /\ \A k \in Handlers \ {g} : task[k].coupon = task[g].coupon => task[k].copy = None
      BY <1>2, <2>1, <2>2, Has DEF RowInv
    <2> QED
      BY <1>1, <2>2, <2>3, <2>4, <2>5
  <1> QED
    BY <1>2 DEF RowInv

\* The handlers on their way with coupon c each have a usage row of it.
LEMMA UsesBound ==
    ASSUME IInv, races \cap {"row", "order"} = {}, NEW h \in Handlers, task[h].pc = "uncount",
           NEW c, c = task[h].coupon
    PROVE  /\ h \notin Unsettled(c) /\ Cardinality(Unsettled(c) \union {h}) <= Cardinality(Rows(c))
  <1>1. h \notin Unsettled(c)
    BY DEF Unsettled
  <1> DEFINE U == Unsettled(c) \union {h}
             f == [k \in U |-> task[k].order]
  <1>2. "order" \notin races
    OBVIOUS
  <1>3. ASSUME NEW k \in U
        PROVE  /\ k \in Handlers /\ task[k].order \in Orders /\ task[k].order # None
               /\ usage[task[k].order] = c
               /\ \A g \in Handlers \ {k} : task[g].order # task[k].order
    <2>1. k \in Handlers /\ task[k].pc \in {"count", "uncount", "forget"} /\ task[k].coupon = c
      BY DEF Unsettled
    <2>2. task[k].order \in Orders /\ task[k].order # None
      BY <2>1, Has, NoneAssumption DEF TaskOK, CheckoutSteps, Cancelling
    <2>3. /\ usage[task[k].order] = task[k].coupon
          /\ \A g \in Handlers \ {k} : task[g].order # task[k].order
      BY <1>2, <2>1, <2>2, Has DEF OrderInv
    <2> QED
      BY <2>1, <2>2, <2>3
  <1>4. f \in [U -> Rows(c)]
    BY <1>3 DEF Rows
  <1>5. ASSUME NEW a \in U, NEW b \in U, f[a] = f[b]
        PROVE  a = b
    BY <1>3, <1>5
  <1>6. f \in Injection(U, Rows(c))
    BY <1>4, <1>5 DEF Injection, IsInjective
  <1>7. IsFiniteSet(Rows(c))
    BY FiniteParts
  <1> HIDE DEF U, f
  <1>8. Cardinality(U) <= Cardinality(Rows(c))
    BY <1>6, <1>7, FS_Injection
  <1> QED
    BY <1>1, <1>8 DEF U

LEMMA WriteCounts ==
    ASSUME IInv, NEW h \in Handlers, NEW t, NEW row, WriteStep(h, t, row)
    PROVE  CounterExact'
  <1>1. /\ task'[h] = t /\ t.coupon \in {None, task[h].coupon}
        /\ \A g \in Handlers \ {h} : task'[g] = task[g]
        /\ coupon'[task[h].coupon] = row /\ Existing' = Existing
        /\ \A c \in Coupons : c # task[h].coupon => coupon'[c] = coupon[c]
        /\ task[h].copy # None /\ task[h].copy \in CouponRow
    BY WriteFacts
  <1> SUFFICES ASSUME (races \cap {"row", "order"} = {})', NEW c \in Existing'
               PROVE  (/\ coupon[c].count + Cardinality(Unsettled(c)) <= Cardinality(Rows(c))
                       /\ deaths = 0 => coupon[c].count + Cardinality(Unsettled(c)) = Cardinality(Rows(c)))'
    BY DEF CounterExact
  <1>2. UNCHANGED <<usage, deaths>> /\ races \cap {"row", "order"} = {}
    BY DEF WriteStep
  <1>3. c \in Existing /\ c # None /\ c \in Coupons /\ coupon[c].count \in Nat
    BY <1>1, NoneAssumption, Has DEF Existing, Types, Tables, CouponRow
  <1>4. /\ coupon[c].count + Cardinality(Unsettled(c)) <= Cardinality(Rows(c))
        /\ deaths = 0 => coupon[c].count + Cardinality(Unsettled(c)) = Cardinality(Rows(c))
    BY <1>2, <1>3, Has DEF CounterExact
  <1>5. Rows(c)' = Rows(c)
    BY <1>2 DEF Rows
  <1>6. /\ IsFiniteSet(Rows(c)) /\ IsFiniteSet(Unsettled(c))
        /\ Cardinality(Rows(c)) \in Nat /\ Cardinality(Unsettled(c)) \in Nat
    BY FiniteParts, FS_CardinalityType
  <1>7. CASE task[h].coupon # c
    <2>1. Unsettled(c)' = Unsettled(c)
      BY <1>1, <1>3, <1>7 DEF Unsettled
    <2> QED
      BY <1>1, <1>2, <1>3, <1>4, <1>5, <1>7, <2>1
  <1>8. CASE task[h].coupon = c
    <2>1. task[h].copy = coupon[c] /\ coupon'[c] = row
      BY <1>1, <1>2, <1>8, Has DEF RowInv
    <2>2. CASE task[h].pc = "count"
      <3>1. Unsettled(c)' = Unsettled(c) \ {h} /\ h \in Unsettled(c)
        BY <1>1, <1>3, <1>8, <2>2, NoTaskFacts DEF Unsettled, WriteStep
      <3>2. Cardinality(Unsettled(c)') = Cardinality(Unsettled(c)) - 1
        BY <1>6, <3>1, OneMore
      <3>3. row.count = coupon[c].count + 1
        BY <2>1, <2>2 DEF WriteStep, Changing
      <3> QED
        BY <1>2, <1>3, <1>4, <1>5, <1>6, <2>1, <3>2, <3>3
    <2>3. CASE task[h].pc \in Changing
      <3>1. Unsettled(c)' = Unsettled(c)
        BY <1>1, <1>3, <1>8, <2>3, NoTaskFacts DEF Unsettled, WriteStep, Changing
      <3>2. row.count = coupon[c].count
        BY <2>1, <2>3 DEF WriteStep, Changing
      <3> QED
        BY <1>2, <1>4, <1>5, <2>1, <3>1, <3>2
    <2>4. CASE task[h].pc = "uncount"
      <3>1. t.pc = "forget" /\ t.coupon = c
        BY <1>8, <2>4 DEF WriteStep, Changing
      <3>2. h \notin Unsettled(c) /\ Cardinality(Unsettled(c) \union {h}) <= Cardinality(Rows(c))
        BY <1>2, <1>8, <2>4, UsesBound
      <3>3. Unsettled(c)' = Unsettled(c) \union {h}
        BY <1>1, <3>1 DEF Unsettled
      <3>4. Cardinality(Unsettled(c)') = Cardinality(Unsettled(c)) + 1
        BY <1>6, <3>2, <3>3, OneMore
      <3>5. Cardinality(Unsettled(c)') <= Cardinality(Rows(c))
        BY <3>2, <3>3
      <3>6. row.count = IF coupon[c].count > 0 THEN coupon[c].count - 1 ELSE 0
        BY <2>1, <2>4 DEF WriteStep, Changing
      <3> QED
        BY <1>2, <1>3, <1>4, <1>5, <1>6, <2>1, <3>4, <3>5, <3>6
    <2> QED
      BY <2>2, <2>3, <2>4 DEF WriteStep
  <1> QED
    BY <1>7, <1>8

LEMMA WriteKeeps ==
    ASSUME IInv, NEW h \in Handlers, NEW t, NEW row, WriteStep(h, t, row)
    PROVE  IInv'
  <1>1. /\ Moves(h, t) /\ TaskOK(t) /\ t.coupon \in {None, task[h].coupon}
        /\ UNCHANGED <<usage, order, races, deaths>>
    BY WriteFacts DEF WriteStep
  <1>2. /\ t.pc \in {"idle", "forget"} /\ (t.pc = "idle" => t.order = None /\ t.coupon = None)
        /\ t.pc = "forget" => /\ task[h].pc = "uncount" /\ t.order = task[h].order
                              /\ t.coupon = task[h].coupon
    BY NoTaskFacts DEF WriteStep, Changing
  <1>3. GoodOrder(h, t)
    <2>1. CASE t.pc = "idle"
      <3>1. \A g \in Handlers \ {h} : task[g].pc \in Early => task[g].order # None
        BY Has DEF TaskOK, Early, CheckoutSteps
      <3> QED
        BY <1>2, <2>1, <3>1 DEF GoodOrder, Early, Placed, Cancelling, CheckoutSteps
    <2>2. CASE t.pc = "forget"
      <3>1. \A g \in Handlers \ {h} : task[g].pc \in Early => task[g].order # task[h].order
        BY Has DEF OrderInv
      <3> QED
        BY <1>1, <1>2, <2>2, <3>1, Has DEF OrderInv, GoodOrder, Early, Placed, Cancelling, CheckoutSteps
    <2> QED
      BY <1>2, <2>1, <2>2
  <1>4. GoodUser(h, t)
    BY <1>2 DEF GoodUser, CheckoutSteps
  <1>5. GoodLimit(h, t)
    BY <1>1, <1>2, Has DEF GoodLimit, LimitInv, TaskOK, CheckoutSteps
  <1>6. \A u : OwnOrders(u)' = OwnOrders(u)
    BY <1>1 DEF OwnOrders
  <1>7. OrderInv' /\ UserInv' /\ LimitInv'
    BY <1>1, <1>3, <1>4, <1>5, <1>6, Has, OrderKeeps, UserKeeps, LimitKeeps
  <1> QED
    BY <1>7, WriteTypes, WriteRows, WriteCounts DEF IInv

\* What a handler holds when it is about to save.
LEMMA HeldFacts ==
    ASSUME IInv, NEW h \in Handlers, task[h].pc \in {"count", "uncount"} \union Changing
    PROVE  /\ task[h].copy \in CouponRow /\ ValidConfig(task[h].copy) /\ task[h].copy.count \in Nat
           /\ TaskOK(task[h])
  <1>1. TaskOK(task[h])
    BY Has
  <1>2. task[h].copy # None /\ task[h].copy \in CouponRow /\ ValidConfig(task[h].copy)
    BY <1>1 DEF TaskOK, Held
  <1> QED
    BY <1>1, <1>2 DEF CouponRow

\* Only an update may write a row that is active though the entity was not.
Writes(h) ==
    \E t, row : WriteStep(h, t, row) /\ (row.active => task[h].copy.active \/ task[h].pc = "patch")

LEMMA CountIsWritten ==
    ASSUME IInv, NEW h \in Handlers, SaveCount(h)
    PROVE  Writes(h)
  <1>1. PICK old : old = task[h].copy
    OBVIOUS
  <1>2. task[h].pc = "count" /\ old \in CouponRow /\ ValidConfig(old) /\ old.count \in Nat
    BY <1>1, HeldFacts DEF SaveCount, At
  <1>3. PICK n \in Nat : n = old.count + 1
    BY <1>2
  <1>4. PICK row : row = [old EXCEPT !.count = n]
    OBVIOUS
  <1>5. PICK t : t = NoTask
    OBVIOUS
  <1>6. row \in CouponRow /\ row.count = n /\ row.active = old.active /\ ValidConfig(row)
    BY <1>2, <1>4, RowFacts
  <1>7. /\ coupon' = [coupon EXCEPT ![task[h].coupon] = row]
        /\ task' = [task EXCEPT ![h] = t] /\ UNCHANGED <<usage, order, now, races, changes, deaths>>
    BY <1>1, <1>3, <1>4, <1>5 DEF SaveCount, Save, Done
  <1>8. WriteStep(h, t, row)
    BY <1>1, <1>2, <1>3, <1>5, <1>6, <1>7 DEF WriteStep, Moves
  <1> QED
    BY <1>1, <1>6, <1>8 DEF Writes

LEMMA UncountIsWritten ==
    ASSUME IInv, NEW h \in Handlers, SaveUncount(h)
    PROVE  Writes(h)
  <1>1. PICK old : old = task[h].copy
    OBVIOUS
  <1>2. /\ task[h].pc = "uncount" /\ old \in CouponRow /\ ValidConfig(old) /\ old.count \in Nat
        /\ TaskOK(task[h])
    BY <1>1, HeldFacts DEF SaveUncount, At
  <1>3. PICK n \in Nat : n = IF old.count > 0 THEN old.count - 1 ELSE 0
    BY <1>2
  <1>4. PICK row : row = [old EXCEPT !.count = n]
    OBVIOUS
  <1>5. PICK u : u = task[h]
    OBVIOUS
  <1>6. PICK t : t = [u EXCEPT !.pc = "forget", !.copy = None]
    OBVIOUS
  <1>7. row \in CouponRow /\ row.count = n /\ row.active = old.active /\ ValidConfig(row)
    BY <1>2, <1>4, RowFacts
  <1>8. t = [pc |-> "forget", order |-> u.order, coupon |-> u.coupon, seen |-> u.seen, copy |-> None]
    BY <1>2, <1>5, <1>6 DEF TaskOK
  <1>9. /\ coupon' = [coupon EXCEPT ![task[h].coupon] = row]
        /\ task' = [task EXCEPT ![h] = t] /\ UNCHANGED <<usage, order, now, races, changes, deaths>>
    BY <1>1, <1>3, <1>4, <1>5, <1>6 DEF SaveUncount, Save
  <1>10. WriteStep(h, t, row)
    BY <1>1, <1>2, <1>3, <1>5, <1>7, <1>8, <1>9 DEF WriteStep, Moves
  <1> QED
    BY <1>1, <1>7, <1>10 DEF Writes

LEMMA DeactivationIsWritten ==
    ASSUME IInv, NEW h \in Handlers, SaveDeactivated(h)
    PROVE  Writes(h)
  <1>1. PICK old : old = task[h].copy
    OBVIOUS
  <1>2. task[h].pc = "deactivate" /\ old \in CouponRow /\ ValidConfig(old)
    BY <1>1, HeldFacts DEF SaveDeactivated, At, Changing
  <1>3. PICK row : row = [old EXCEPT !.active = FALSE]
    OBVIOUS
  <1>4. PICK t : t = NoTask
    OBVIOUS
  <1>5. /\ row \in CouponRow /\ row.count = old.count /\ ~row.active /\ row.type = old.type
        /\ row.value = old.value /\ row.cap = old.cap /\ row.start = old.start /\ row.end = old.end
    BY <1>2, <1>3 DEF CouponRow
  <1>6. ValidConfig(row)
    BY <1>2, <1>5 DEF ValidConfig
  <1>7. /\ coupon' = [coupon EXCEPT ![task[h].coupon] = row]
        /\ task' = [task EXCEPT ![h] = t] /\ UNCHANGED <<usage, order, now, races, changes, deaths>>
    BY <1>1, <1>3, <1>4 DEF SaveDeactivated, Save, Done
  <1>8. WriteStep(h, t, row)
    BY <1>1, <1>2, <1>4, <1>5, <1>6, <1>7 DEF WriteStep, Moves, Changing
  <1> QED
    BY <1>5, <1>8 DEF Writes

\* An update saves the patched entity, or throws.
LEMMA PatchedRow ==
    ASSUME NEW row \in CouponRow, NEW patch \in Patches, NEW r, r = Patched(row, patch)
    PROVE  r \in CouponRow /\ r.count = row.count
  <1>1. DOMAIN row = DOMAIN ColumnTypes \union {"count"} /\ "count" \notin DOMAIN ColumnTypes
    BY DEF CouponRow, ColumnTypes
  <1>2. DOMAIN patch \subseteq DOMAIN ColumnTypes
        /\ \A column \in DOMAIN patch : patch[column] \in ColumnTypes[column]
    BY PatchAssumption
  <1>3. \A column \in DOMAIN ColumnTypes : row[column] \in ColumnTypes[column]
    BY DEF CouponRow, ColumnTypes
  <1>4. r = [column \in DOMAIN row |-> IF column \in DOMAIN patch THEN patch[column] ELSE row[column]]
    BY <1>1, <1>2 DEF Patched
  <1>5. /\ DOMAIN r = DOMAIN ColumnTypes \union {"count"}
        /\ \A column \in DOMAIN ColumnTypes : r[column] \in ColumnTypes[column]
        /\ r["count"] = row["count"] /\ row["count"] \in Nat
    BY <1>1, <1>2, <1>3, <1>4 DEF CouponRow
  <1>6. r = [column \in {"type", "value", "cap", "min", "limit", "perUser", "first", "start", "end",
                         "active", "count"} |-> r[column]]
    BY <1>1, <1>4 DEF ColumnTypes
  <1> QED
    BY <1>5, <1>6 DEF CouponRow, ColumnTypes

LEMMA UpdateIsWritten ==
    ASSUME IInv, NEW h \in Handlers, SaveUpdate(h)
    PROVE  Writes(h) \/ (Done(h) /\ task[h].pc = "patch" /\ UNCHANGED <<tables, now, races, changes, deaths>>)
  <1>1. PICK old : old = task[h].copy
    OBVIOUS
  <1>2. task[h].pc = "patch" /\ old \in CouponRow /\ ValidConfig(old)
    BY <1>1, HeldFacts DEF SaveUpdate, At, Changing
  <1>3. PICK patch \in Patches :
            IF /\ ValidRequest(patch)
               /\ Mutable(old, now) \/ DOMAIN patch \cap CoreColumns = {}
               /\ ValidConfig(Patched(old, patch))
            THEN Save(task[h].coupon, Patched(old, patch))
            ELSE UNCHANGED coupon
    BY <1>1 DEF SaveUpdate
  <1>4. Done(h) /\ UNCHANGED <<usage, order, now, races, changes, deaths>>
    BY DEF SaveUpdate
  <1>5. PICK row : row = Patched(old, patch)
    OBVIOUS
  <1>6. row \in CouponRow /\ row.count = old.count
    BY <1>2, <1>5, PatchedRow
  <1>7. CASE ValidConfig(row) /\ Save(task[h].coupon, row)
    <2>1. PICK t : t = NoTask
      OBVIOUS
    <2>2. WriteStep(h, t, row)
      BY <1>1, <1>2, <1>4, <1>6, <1>7, <2>1 DEF WriteStep, Moves, Changing, Save, Done
    <2> QED
      BY <1>2, <2>2 DEF Writes
  <1>8. CASE UNCHANGED coupon
    BY <1>2, <1>4, <1>8 DEF tables
  <1> QED
    BY <1>3, <1>5, <1>7, <1>8

LEMMA SavesKeep ==
    ASSUME IInv, NEW h \in Handlers,
           SaveCount(h) \/ SaveUncount(h) \/ SaveUpdate(h) \/ SaveDeactivated(h)
    PROVE  IInv'
  <1>1. CASE Writes(h)
    BY <1>1, WriteKeeps DEF Writes
  <1>2. CASE Done(h) /\ task[h].pc = "patch" /\ UNCHANGED <<tables, now, races, changes, deaths>>
    BY <1>2, Has, DoneKeeps
  <1> QED
    BY <1>1, <1>2, CountIsWritten, UncountIsWritten, UpdateIsWritten, DeactivationIsWritten

\* A coupon nobody has used yet.
LEMMA CreateKeeps ==
    ASSUME IInv, NEW c \in Coupons, Create(c)
    PROVE  IInv'
  <1>1. PICK row \in Configs : ValidConfig(row) /\ coupon' = [coupon EXCEPT ![c] = row]
    BY DEF Create, Save
  <1>2. /\ coupon[c] = None /\ changes' = changes + 1 /\ changes < MaxChanges
        /\ UNCHANGED <<usage, order, task, now, races, deaths>>
    BY DEF Create, CountChange
  <1>3. row \in CouponRow /\ row.count = 0 /\ row # None /\ c # None
    BY ConfigAssumption, NoneAssumption
  <1>4. /\ coupon'[c] = row /\ \A d \in Coupons : d # c => coupon'[d] = coupon[d]
        /\ Existing \subseteq Existing' /\ Existing' \subseteq Existing \union {c} /\ c \notin Existing
    BY <1>1, <1>2, <1>3, Parts DEF Types, Tables, Existing
  <1>5. Types'
    <2>1. coupon' \in [Coupons -> CouponRow \union {None}]
      BY <1>1, <1>3, Parts DEF Types, Tables
    <2>2. \A d \in Existing' : ValidConfig(coupon'[d])
      BY <1>1, <1>4, Parts DEF Types, Tables, Existing
    <2>3. /\ usage' \in [Orders -> Existing' \union {None}]
          /\ order' \in [Orders -> [status : Statuses, coupon : Existing' \union {None}, discount : Nat]]
      BY <1>2, <1>4, Parts DEF Types, Tables
    <2>4. changes' \in 0 .. MaxChanges
      BY <1>2, Parts, BoundsAssumption
    <2>5. Tables'
      BY <1>2, <2>1, <2>2, <2>3, <2>4, Parts DEF Types, Tables
    <2>6. Tasks'
      BY <1>2, <1>4, Parts DEF Types, Tasks
    <2> QED
      BY <2>5, <2>6 DEF Types
  <1>6. OrderInv'
    BY <1>2, Parts DEF OrderInv
  <1>7. RowInv'
    <2>1. \A h \in Handlers : task[h].copy # None => task[h].coupon \in Coupons /\ task[h].coupon # c
      BY <1>4, Parts DEF TaskOK, Held, CheckoutSteps
    <2> QED
      BY <1>2, <1>4, <2>1, Parts DEF RowInv
  <1>8. /\ \A d : Rows(d)' = Rows(d) /\ Unsettled(d)' = Unsettled(d)
        /\ \A u : OwnOrders(u)' = OwnOrders(u) /\ \A d : OwnUsages(u, d)' = OwnUsages(u, d)
    BY <1>2 DEF Rows, Unsettled, OwnOrders, OwnUsages
  <1>9. CounterExact'
    <2>1. ASSUME races \cap {"row", "order"} = {}, NEW d \in Existing'
          PROVE  /\ coupon'[d].count + Cardinality(Unsettled(d)) <= Cardinality(Rows(d))
                 /\ deaths = 0 => coupon'[d].count + Cardinality(Unsettled(d)) = Cardinality(Rows(d))
      <3>1. CASE d = c
        <4>1. Rows(c) = {}
          BY <1>3, <1>4, Parts DEF Rows, Types, Tables
        <4>2. Unsettled(c) = {}
          BY <1>3, <1>4, Parts DEF Unsettled
        <4> QED
          BY <1>3, <1>4, <3>1, <4>1, <4>2, FS_EmptySet
      <3>2. CASE d # c
        <4>1. d \in Existing /\ d \in Coupons
          BY <1>4, <2>1, <3>2 DEF Existing
        <4> QED
          BY <1>4, <2>1, <3>2, <4>1, Parts DEF CounterExact
      <3> QED
        BY <3>1, <3>2
    <2> QED
      BY <1>2, <1>8, <2>1 DEF CounterExact
  <1>10. UserInv' /\ LimitInv'
    BY <1>2, <1>8, Parts DEF UserInv, LimitInv
  <1> QED
    BY <1>5, <1>6, <1>7, <1>9, <1>10 DEF IInv

\* One statement switches off every overdue coupon; whoever holds one of them overlaps it.
LEMMA ExpireKeeps ==
    ASSUME IInv, ExpireOverdueCoupons
    PROVE  /\ IInv'
           /\ \A c \in Existing : coupon'[c].active => coupon[c].active
  <1> DEFINE late == {c \in Existing : Overdue(coupon[c])}
  <1>1. /\ coupon' = [c \in Coupons |->
                        IF c \in late THEN [coupon[c] EXCEPT !.active = FALSE] ELSE coupon[c]]
        /\ races' = races \union (IF \E h \in Handlers : task[h].copy # None /\ task[h].coupon \in late
                                  THEN {"row"} ELSE {})
        /\ UNCHANGED <<usage, order, task, now, changes, deaths>>
    BY DEF ExpireOverdueCoupons
  <1>2. \A c \in Existing : c \in Coupons /\ coupon[c] \in CouponRow /\ coupon[c] # None /\ ValidConfig(coupon[c])
    BY Parts DEF Types, Tables, Existing
  <1>3. \A c \in Coupons \ late : coupon'[c] = coupon[c]
    BY <1>1
  <1>4. ASSUME NEW c \in late
        PROVE  /\ coupon'[c] \in CouponRow /\ coupon'[c] # None /\ ValidConfig(coupon'[c])
               /\ coupon'[c].count = coupon[c].count /\ ~coupon'[c].active
    <2>1. PICK old \in CouponRow : old = coupon[c] /\ ValidConfig(old)
      BY <1>2
    <2>2. PICK r : r = [old EXCEPT !.active = FALSE]
      OBVIOUS
    <2>3. coupon'[c] = r
      BY <1>1, <1>2, <2>1, <2>2
    <2>4. /\ r \in CouponRow /\ r.count = old.count /\ ~r.active /\ r.type = old.type
          /\ r.value = old.value /\ r.cap = old.cap /\ r.start = old.start /\ r.end = old.end
      BY <2>1, <2>2 DEF CouponRow
    <2>5. ValidConfig(r)
      BY <2>1, <2>4 DEF ValidConfig
    <2> QED
      BY <2>1, <2>3, <2>4, <2>5, NoneAssumption
  <1>5. late \subseteq Existing
    OBVIOUS
  <1> HIDE DEF late
  <1>6. Existing' = Existing
    BY <1>1, <1>3, <1>4, <1>5 DEF Existing
  <1>7. \A c \in Existing : coupon'[c].count = coupon[c].count /\ (coupon'[c].active => coupon[c].active)
    BY <1>2, <1>3, <1>4
  <1>8. Types'
    <2>1. DOMAIN coupon' = Coupons /\ \A c \in Coupons : coupon'[c] \in CouponRow \union {None}
      BY <1>1, <1>3, <1>4, Parts DEF Types, Tables
    <2>2. coupon' = [c \in Coupons |-> coupon'[c]]
      BY <1>1
    <2>3. coupon' \in [Coupons -> CouponRow \union {None}]
      BY <2>1, <2>2
    <2>4. \A c \in Existing' : ValidConfig(coupon'[c])
      BY <1>2, <1>3, <1>4, <1>6
    <2>5. Tables'
      BY <1>1, <1>6, <2>3, <2>4, Parts DEF Types, Tables
    <2>6. Tasks'
      BY <1>1, <1>6, Parts DEF Types, Tasks
    <2> QED
      BY <2>5, <2>6 DEF Types
  <1>9. OrderInv'
    BY <1>1, Parts DEF OrderInv
  <1>10. RowInv'
    <2>1. ASSUME "row" \notin races', NEW h \in Handlers, task[h].copy # None
          PROVE  coupon'[task[h].coupon] = coupon[task[h].coupon]
      <3>1. task[h].coupon \notin late /\ task[h].coupon \in Coupons
        BY <1>1, <2>1, Parts DEF TaskOK, Held, CheckoutSteps
      <3> QED
        BY <1>3, <3>1
    <2> QED
      BY <1>1, <2>1, Parts DEF RowInv
  <1>11. /\ \A d : Rows(d)' = Rows(d) /\ Unsettled(d)' = Unsettled(d)
         /\ \A u : OwnOrders(u)' = OwnOrders(u) /\ \A d : OwnUsages(u, d)' = OwnUsages(u, d)
    BY <1>1 DEF Rows, Unsettled, OwnOrders, OwnUsages
  <1>12. CounterExact'
    BY <1>1, <1>6, <1>7, <1>11, Parts DEF CounterExact
  <1>13. UserInv' /\ LimitInv'
    BY <1>1, <1>11, Parts DEF UserInv, LimitInv
  <1> QED
    BY <1>7, <1>8, <1>9, <1>10, <1>12, <1>13 DEF IInv

-----------------------------------------------------------------------------
(***************************************************************************)
(* Every step, and the theorems.                                           *)
(***************************************************************************)
LEMMA Initially == Init => IInv
  <1> SUFFICES ASSUME Init PROVE IInv
    OBVIOUS
  <1>1. Existing = {}
    BY DEF Init, Existing
  <1>2. /\ usage = [o \in Orders |-> None] /\ races = {} /\ now = 0 /\ changes = 0 /\ deaths = 0
        /\ coupon = [c \in Coupons |-> None] /\ DOMAIN task = Handlers
        /\ \A h \in Handlers : task[h] = NoTask
        /\ order = [o \in Orders |-> [status |-> "none", coupon |-> None, discount |-> 0]]
    BY DEF Init
  <1>3. Tables
    <2>1. \A o \in Orders : order[o].discount <= SubtotalOf[o]
      BY <1>2, SubtotalAssumption
    <2>2. order \in [Orders -> [status : Statuses, coupon : Existing \union {None}, discount : Nat]]
      BY <1>2 DEF Statuses
    <2> QED
      BY <1>1, <1>2, <2>1, <2>2, BoundsAssumption DEF Tables
  <1>4. Tasks
    BY <1>2, NoTaskFacts DEF Tasks
  <1>5. OrderInv /\ RowInv /\ UserInv /\ LimitInv
    BY <1>2, NoTaskFacts DEF OrderInv, RowInv, UserInv, LimitInv, CheckoutSteps, Early, Placed, Cancelling
  <1>6. CounterExact
    BY <1>1 DEF CounterExact
  <1> QED
    BY <1>3, <1>4, <1>5, <1>6 DEF IInv, Types

LEMMA Step == IInv /\ [Next]_vars => IInv'
  <1> SUFFICES ASSUME IInv, [Next]_vars PROVE IInv'
    OBVIOUS
  <1>1. ASSUME NEW h \in Handlers, Checkout(h) PROVE IInv'
    BY <1>1, ValidateKeeps, CountUsagesKeeps, CountOrdersKeeps, InsertOrderKeeps, ReserveKeeps,
       CancelledKeeps, FindsKeep, UsagesKeep, SavesKeep DEF Checkout
  <1>2. ASSUME NEW h \in Handlers, Cancel(h) PROVE IInv'
    BY <1>2, StartCancelKeeps, FindUsageKeeps, FindsKeep, SavesKeep, UsagesKeep, CancelledKeeps
       DEF Cancel
  <1>3. ASSUME NEW h \in Handlers, Administer(h) PROVE IInv'
    BY <1>3, FindsKeep, SavesKeep DEF Administer
  <1>4. ASSUME NEW h \in Handlers, Die(h) PROVE IInv'
    BY <1>4, DieKeeps
  <1>5. ASSUME NEW c \in Coupons, Create(c) PROVE IInv'
    BY <1>5, CreateKeeps
  <1>6. CASE ExpireOverdueCoupons
    BY <1>6, ExpireKeeps
  <1>7. CASE Tick
    <2>1. now' \in 0 .. MaxTime /\ UNCHANGED <<tables, task, races, changes, deaths>>
      BY <1>7, Parts, BoundsAssumption DEF Tick
    <2> QED
      BY <2>1, TimePasses
  <1>8. CASE UNCHANGED vars
    <2>1. now' \in 0 .. MaxTime /\ UNCHANGED <<tables, task, races, changes, deaths>>
      BY <1>8, Parts DEF vars
    <2> QED
      BY <2>1, TimePasses
  <1> QED
    BY <1>1, <1>2, <1>3, <1>4, <1>5, <1>6, <1>7, <1>8 DEF Next

LEMMA Invariance == Spec => []IInv
  BY Initially, Step, PTL DEF Spec

\* Whatever the administrators configure and patch, every row keeps a configuration that
\* create and update accept, a counter that is a natural number, and every usage row and
\* every order names a coupon that exists.
THEOREM TypeCorrect == Spec => []TypeOK
  <1>1. IInv => TypeOK
    <2> SUFFICES ASSUME IInv PROVE TypeOK
      OBVIOUS
    <2>1. \A c \in Existing : coupon[c].count \in Nat /\ coupon[c].active \in BOOLEAN /\ ValidConfig(coupon[c])
      BY Parts DEF Types, Tables, Existing, CouponRow
    <2>2. ASSUME NEW o \in Orders
          PROVE  /\ order[o].status \in {"none", "pending", "cancelled"}
                 /\ order[o].coupon \in Existing \union {None}
                 /\ order[o].discount \in 0 .. SubtotalOf[o]
      BY Parts, SubtotalAssumption DEF Types, Tables, Statuses
    <2>3. ASSUME NEW h \in Handlers
          PROVE  /\ At(h, "idle") <=> task[h] = NoTask
                 /\ task[h].coupon \in Existing \union {None}
                 /\ task[h].order \in Orders \union {None}
                 /\ task[h].copy # None => task[h].coupon \in Existing
      <3>1. TaskOK(task[h]) /\ task[h].coupon \in Existing \union {None}
        BY Parts
      <3> QED
        BY <3>1, NoTaskFacts DEF At, TaskOK, Held, CheckoutSteps
    <2> QED
      BY <2>1, <2>2, <2>3, Parts DEF TypeOK, Types, Tables
  <1> QED
    BY <1>1, Invariance, PTL

\* Without two handlers that hold one coupon's entity or work on one order, usageCount is the
\* number of usage rows, up to the handlers between the two writes of markCouponUsed and
\* rollbackCouponUsage; a handler that dies between them leaves it too low, never too high.
THEOREM CounterIsExact == Spec => []CounterExact
  <1>1. IInv => CounterExact
    BY DEF IInv
  <1> QED
    BY <1>1, Invariance, PTL

\* When a use is recorded, the customer's limit and the first order rule that were checked
\* before the order existed still hold, unless the customer has had two checkouts at once; so
\* does the coupon's limit, unless handlers of the coupon overlapped or one died.
THEOREM LimitsHold == Spec => UsageWithinLimits
  <1>1. IInv => \A h \in Handlers :
          LET t == task[h]
              c == t.coupon IN
          At(h, "use") /\ usage[t.order] = None /\ usage'[t.order] # None =>
              /\ t.seen.perUser # Null /\ "user" \notin races =>
                  Cardinality(OwnUsages(UserOf[t.order], c)) < t.seen.perUser
              /\ t.seen.first /\ "user" \notin races =>
                  OwnOrders(UserOf[t.order]) = {t.order}
              /\ t.seen.limit # Null /\ races \cap {"limit", "row", "order"} = {} /\ deaths = 0 =>
                  Cardinality(Rows(c)) < t.seen.limit
    BY DEF IInv, UserInv, LimitInv, At, CheckoutSteps, Placed
  <1> QED
    BY <1>1, Invariance, PTL DEF UsageWithinLimits

\* A deactivated or expired coupon is active again only by an update that loaded it inactive:
\* the whole entity a checkout, a cancellation or a deactivation saves does not revive it,
\* unless the entity overlapped another handler's.
THEOREM StaysOff == Spec => InactiveStaysOff
  <1> DEFINE Revived(c) == ~coupon[c].active /\ coupon'[c].active /\ "row" \notin races
             Updated(c) == \E h \in Handlers : At(h, "patch") /\ task[h].coupon = c /\ ~task[h].copy.active
  <1>1. ASSUME IInv, [Next]_vars, NEW c \in Existing, Revived(c)
        PROVE  Updated(c)
    <2>1. coupon' # coupon /\ c \in Coupons
      BY <1>1 DEF Existing
    <2>2. ASSUME NEW h \in Handlers, Writes(h)
          PROVE  Updated(c)
      <3>1. PICK t, row : WriteStep(h, t, row) /\ (row.active => task[h].copy.active \/ task[h].pc = "patch")
        BY <2>2 DEF Writes
      <3>2. /\ task[h].coupon = c /\ coupon'[c] = row /\ task[h].copy # None
        BY <1>1, <2>1, <3>1, WriteFacts
      <3>3. task[h].copy = coupon[c]
        BY <1>1, <3>2, Parts DEF RowInv
      <3> QED
        BY <1>1, <3>1, <3>2, <3>3 DEF At
    <2>3. ASSUME NEW h \in Handlers, Checkout(h) \/ Cancel(h) \/ Administer(h) \/ Die(h)
          PROVE  Writes(h)
      <3>1. SaveCount(h) \/ SaveUncount(h) \/ SaveUpdate(h) \/ SaveDeactivated(h)
        BY <2>1, <2>3 DEF Checkout, Cancel, Administer, Die, Validate, CountUsages, CountOrders,
           InsertOrder, Reserve, ReserveFails, FindToMark, SaveUsage, StartCancel, FindUsage,
           FindToRollback, DeleteUsage, SaveCancelled, FindToUpdate, FindToDeactivate, FindToChange, tables
      <3> QED
        BY <1>1, <2>1, <3>1, CountIsWritten, UncountIsWritten, UpdateIsWritten, DeactivationIsWritten
           DEF tables
    <2>4. ASSUME NEW d \in Coupons, Create(d)
          PROVE  FALSE
      BY <1>1, <2>1, <2>4, Parts DEF Create, Save, Types, Tables, Existing
    <2>5. ~ExpireOverdueCoupons
      BY <1>1, ExpireKeeps
    <2>6. ~Tick /\ ~UNCHANGED vars
      BY <2>1 DEF Tick, vars, tables
    <2> QED
      BY <1>1, <2>2, <2>3, <2>4, <2>5, <2>6 DEF Next
  <1>2. IInv /\ [Next]_vars =>
            \A c \in Existing : Revived(c) => Updated(c)
    BY <1>1
  <1> QED
    BY <1>2, Invariance, PTL DEF Spec, InactiveStaysOff
=============================================================================
