-------------------------- MODULE StockReservation --------------------------
(***************************************************************************)
(* StockReservationService and the stock-changing half of InventoryService *)
(* as concurrent MySQL transactions.                                       *)
(*                                                                         *)
(* A session runs one transaction at a time.  Rows have two versions:      *)
(* `committed`, what a plain SELECT reads, and `current`, the newest one,  *)
(* which only the holder of the row's lock sees and writes.  SELECT ...    *)
(* FOR UPDATE (findInventoryForUpdate) waits for the lock and reads        *)
(* `current`; a commit makes `current` committed, a rollback undoes it.    *)
(*                                                                         *)
(* The list of reservations a settlement works through is read by a plain  *)
(* SELECT before any lock is taken, and is not read again.                 *)
(*                                                                         *)
(* repository.save(inv) is a SELECT and an UPDATE.  The SELECT is a plain  *)
(* one, and only the columns in which the entity differs from what it      *)
(* shows are written.  Under REPEATABLE READ, the default of MySQL that    *)
(* docker-compose.yml leaves in place, it shows the versions of the        *)
(* transaction's first plain SELECT, not the row that was locked.          *)
(***************************************************************************)
EXTENDS Integers, Sequences, Functions

CONSTANTS
    Products,
    Orders,       \* order ids: naturals, in the order of creation
    Cart,         \* Cart[o]: the lines of order o, [product, qty], in cart order
    InitStock,    \* InitStock[p]: available quantity at the beginning
    Sessions,     \* database sessions (pool connections) serving requests
    Settlers,     \* the sessions that run release, confirm and releaseExpired
    AdminJobs,    \* stock corrections requested by staff: [kind, delta]
    NoSession,
    SnapshotReads, \* TRUE: REPEATABLE READ, FALSE: READ COMMITTED
    MaxAdminJobs, \* bound on the stock corrections of a behaviour
    MaxAborts     \* bound on the timeouts and lost connections of a behaviour

Lines == UNION {{o} \X (1 .. Len(Cart[o])) : o \in Orders}

\* No order is made from an empty cart (order.service.ts:96).
ASSUME CartAssumption ==
    /\ Orders \subseteq Nat
    /\ \A o \in Orders : /\ Cart[o] \in Seq([product : Products, qty : Nat \ {0}])
                         /\ Cart[o] # <<>>

ASSUME StockAssumption == InitStock \in [Products -> Nat]

ASSUME SessionAssumption ==
    /\ NoSession \notin Sessions
    /\ Settlers \subseteq Sessions

\* Stock corrections are modelled as REPEATABLE READ runs them.
ASSUME AdminAssumption ==
    /\ AdminJobs \subseteq [kind : {"import", "export", "adjust"}, delta : Int]
    /\ SnapshotReads \in BOOLEAN
    /\ SnapshotReads \/ AdminJobs = {}

ASSUME BoundAssumption == MaxAdminJobs \in Nat /\ MaxAborts \in Nat

VARIABLES
    committed, \* committed[p]: the committed version of p's row
    current,   \* current[p]: its newest version, uncommitted while locked
    lock,      \* lock[p]: the session that holds the row lock, or NoSession
    journal,   \* journal[p]: sums of the committed stock movements of p
    resv,      \* resv[l]: committed status of the reservation of line l
    kind,      \* kind[s]: what session s is executing
    todo,      \* todo[s]: lines its transaction has still to process
    done,      \* done[s]: lines its transaction has processed
    snapshot,  \* snapshot[s]: what its plain SELECTs see, once there was one
    entries,   \* entries[s][p]: sums of the movements its transaction inserted
    seen,      \* seen[s]: the job of a stock correction and the row it read
    called,    \* orders for which createFromCart has called reserve
    expired,   \* orders whose reservations are past expiresAt
    adminJobs, \* stock corrections so far
    aborts,    \* timeouts and lost connections so far
    lost,      \* products of which a save did not write what it computed
    raced      \* lines that were on the lists of two settlements at once

rowVars == <<committed, current, lock, journal, resv>>
sessionVars == <<kind, todo, done, snapshot, entries, seen>>
countVars == <<adminJobs, aborts>>
\* History, which no guard reads: the properties say what holds for the rows
\* and lines that are not in it.
historyVars == <<lost, raced>>
vars == <<rowVars, sessionVars, called, expired, countVars, historyVars>>

-----------------------------------------------------------------------------
(***************************************************************************)
(* Rows of `inventories`, and what the rows of `stock_movements` add up to *)
(* for a product: held is the sum of RESERVE (negative) and RELEASE        *)
(* (positive) quantities, confirmed that of CONFIRM, corrected that of     *)
(* IMPORT, EXPORT and ADJUST.  A movement is an INSERT: unlike an UPDATE   *)
(* of a row, it cannot overwrite the one of another transaction.           *)
(***************************************************************************)
Row == [available : Int, reserved : Int]

InitRow(p) == [available |-> InitStock[p], reserved |-> 0]

Journal == [held : Int, confirmed : Int, corrected : Int]

NoEntry == [held |-> 0, confirmed |-> 0, corrected |-> 0]

AddEntry(j, e) == [held      |-> j.held + e.held,
                   confirmed |-> j.confirmed + e.confirmed,
                   corrected |-> j.corrected + e.corrected]

LineProduct(l) == Cart[l[1]][l[2]].product
LineQty(l) == Cart[l[1]][l[2]].qty
LinesOf(o) == {l \in Lines : l[1] = o}

Statuses == {"pending", "confirmed", "released", "expired"}
Settled == Statuses \ {"pending"}
SettleKinds == {"release", "confirm", "expire"}

\* Mutant of Outcome: stores the name of the operation, not the status.
OutcomeUnmapped(k) == k

\* The status a settlement gives the reservations it works through.
Outcome(k) == CASE k = "release" -> "released"
                [] k = "confirm" -> "confirmed"
                [] k = "expire"  -> "expired"

HoldRow(r, q) == [available |-> r.available - q, reserved |-> r.reserved + q]

PutBackRow(r, q) == [available |-> r.available + q, reserved |-> r.reserved - q]

SellRow(r, q) == [r EXCEPT !.reserved = @ - q]

\* Mutant of SettleRow: an expired reservation is consumed instead of put back.
SettleRowExpirySells(k, r, q) == IF k = "release" THEN PutBackRow(r, q) ELSE SellRow(r, q)

SettleRow(k, r, q) == IF k = "confirm" THEN SellRow(r, q) ELSE PutBackRow(r, q)

Entry(k, q) == CASE k = "reserve" -> [NoEntry EXCEPT !.held = -q]
                 [] k = "confirm" -> [NoEntry EXCEPT !.confirmed = q]
                 [] OTHER         -> [NoEntry EXCEPT !.held = q]

\* Row r after save(entity), when the SELECT of the save shows base.
Saved(entity, base, r) ==
    [available |-> IF entity.available = base.available THEN r.available ELSE entity.available,
     reserved  |-> IF entity.reserved = base.reserved THEN r.reserved ELSE entity.reserved]

\* A stock correction saves what it computed from the row its SELECT showed;
\* the SELECT of the save shows the same.
CorrectRow(r, job) == Saved([job.row EXCEPT !.available = @ + job.delta], job.row, r)

\* The history after a save of product p's row: did it write what it computed?
Lost(p, written, intended) == IF written = intended THEN lost ELSE lost \union {p}

-----------------------------------------------------------------------------
NoJob == [delta |-> 0]

NoEntries == [p \in Products |-> NoEntry]

NoSnapshot == <<>>

Init ==
    /\ committed = [p \in Products |-> InitRow(p)]
    /\ current = committed
    /\ lock = [p \in Products |-> NoSession]
    /\ journal = NoEntries
    /\ resv = [l \in Lines |-> "none"]
    /\ kind = [s \in Sessions |-> "idle"]
    /\ todo = [s \in Sessions |-> {}]
    /\ done = [s \in Sessions |-> {}]
    /\ snapshot = [s \in Sessions |-> NoSnapshot]
    /\ entries = [s \in Sessions |-> NoEntries]
    /\ seen = [s \in Sessions |-> NoJob]
    /\ called = {}
    /\ expired = {}
    /\ adminJobs = 0
    /\ aborts = 0
    /\ lost = {}
    /\ raced = {}

-----------------------------------------------------------------------------
(***************************************************************************)
(* Opening a transaction.                                                  *)
(***************************************************************************)
Open(s, k, S) ==
    /\ kind[s] = "idle"
    /\ kind' = [kind EXCEPT ![s] = k]
    /\ todo' = [todo EXCEPT ![s] = S]
    /\ UNCHANGED <<rowVars, done, entries, seen, expired, countVars, lost>>

\* The first plain SELECT of a transaction fixes what the later ones see.
View(s) == IF snapshot[s] = NoSnapshot THEN committed ELSE snapshot[s]

Select(s) ==
    snapshot' = [snapshot EXCEPT ![s] = IF SnapshotReads THEN View(s) ELSE NoSnapshot]

\* createFromCart calls reserve once, with the id of the order it just created.
StartReserve(s, o) ==
    /\ o \notin called
    /\ Open(s, "reserve", LinesOf(o))
    /\ called' = called \union {o}
    /\ UNCHANGED <<snapshot, raced>>

\* The lines that the open settlements work through.
Work(s) == todo[s] \union done[s]
InSettlement == UNION {Work(s) : s \in {t \in Sessions : kind[t] \in SettleKinds}}

\* Mutant of PendingLines: the SELECT forgets the status filter.
ReservedLines(o) == {l \in LinesOf(o) : resv[l] # "none"}

\* The plain SELECT of release and confirm; with no row they return at once.
PendingLines(o) == {l \in LinesOf(o) : resv[l] = "pending"}

StartSettle(s, k, o) ==
    /\ s \in Settlers
    /\ k \in {"release", "confirm"}
    /\ PendingLines(o) # {}
    /\ Open(s, k, PendingLines(o))
    /\ raced' = raced \union (PendingLines(o) \intersect InSettlement)
    /\ Select(s)
    /\ UNCHANGED called

\* Mutants of ExpiredLines: expiresAt compared the wrong way round, and the
\* status filter forgotten.
UnexpiredLines == UNION {PendingLines(o) : o \in Orders \ expired}
ExpiredAnyStatus == UNION {{l \in LinesOf(o) : resv[l] # "none"} : o \in expired}

ExpiredLines == UNION {PendingLines(o) : o \in expired}

\* releaseExpired: the queue runs one job at a time (concurrency 1).
StartExpire(s) ==
    /\ s \in Settlers
    /\ \A t \in Sessions : kind[t] # "expire"
    /\ ExpiredLines # {}
    /\ Open(s, "expire", ExpiredLines)
    /\ raced' = raced \union (ExpiredLines \intersect InSettlement)
    /\ Select(s)
    /\ UNCHANGED called

-----------------------------------------------------------------------------
(***************************************************************************)
(* Processing one line: lock its row, compute, save, write the movement.   *)
(***************************************************************************)
Before(l, m) == l[1] < m[1] \/ (l[1] = m[1] /\ l[2] < m[2])

\* l is the line whose turn it is: rows are processed by id.
IsNext(s, l) == \A m \in todo[s] \ {l} : Before(l, m)

\* Mutant of CanLock: findInventoryForUpdate without setLock.
CanLockAlways(s, p) == TRUE

CanLock(s, p) == lock[p] \in {s, NoSession}

\* What the SELECT of save(inv) shows of a row the transaction has locked: the
\* newest version if it has itself updated the row, the snapshot otherwise.
Shown(s, p) ==
    IF SnapshotReads /\ current[p] = committed[p] THEN View(s)[p] ELSE current[p]

Process(s, l, entity) ==
    /\ current' = [current EXCEPT ![LineProduct(l)] =
                        Saved(entity, Shown(s, LineProduct(l)), @)]
    /\ lost' = Lost(LineProduct(l), current'[LineProduct(l)], entity)
    /\ Select(s)
    /\ lock' = [lock EXCEPT ![LineProduct(l)] = s]
    /\ todo' = [todo EXCEPT ![s] = @ \ {l}]
    /\ done' = [done EXCEPT ![s] = @ \union {l}]
    /\ entries' = [entries EXCEPT ![s][LineProduct(l)] =
                        AddEntry(@, Entry(kind[s], LineQty(l)))]
    /\ UNCHANGED <<committed, journal, resv, kind, seen, called, expired, countVars, raced>>

\* Mutant of Enough: compares with the units in the warehouse.
EnoughInWarehouse(l) ==
    current[LineProduct(l)].available + current[LineProduct(l)].reserved >= LineQty(l)

Enough(l) == current[LineProduct(l)].available >= LineQty(l)

ReserveLine(s, l) ==
    /\ kind[s] = "reserve"
    /\ IsNext(s, l)
    /\ CanLock(s, LineProduct(l))
    /\ Enough(l)
    /\ Process(s, l, HoldRow(current[LineProduct(l)], LineQty(l)))

SettleLine(s, l) ==
    /\ kind[s] \in SettleKinds
    /\ IsNext(s, l)
    /\ CanLock(s, LineProduct(l))
    /\ Process(s, l, SettleRow(kind[s], current[LineProduct(l)], LineQty(l)))

-----------------------------------------------------------------------------
(***************************************************************************)
(* Closing a transaction.                                                  *)
(***************************************************************************)
Held(s) == {p \in Products : lock[p] = s}

\* Mutant of Close: the connection goes back to the pool with its locks.
CloseKeepsLocks(s) ==
    /\ lock' = lock
    /\ kind' = [kind EXCEPT ![s] = "idle"]
    /\ todo' = [todo EXCEPT ![s] = {}]
    /\ done' = [done EXCEPT ![s] = {}]
    /\ snapshot' = [snapshot EXCEPT ![s] = NoSnapshot]
    /\ entries' = [entries EXCEPT ![s] = NoEntries]
    /\ seen' = [seen EXCEPT ![s] = NoJob]
    /\ UNCHANGED <<called, expired, adminJobs, raced>>

Close(s) ==
    /\ lock' = [p \in Products |-> IF p \in Held(s) THEN NoSession ELSE lock[p]]
    /\ kind' = [kind EXCEPT ![s] = "idle"]
    /\ todo' = [todo EXCEPT ![s] = {}]
    /\ done' = [done EXCEPT ![s] = {}]
    /\ snapshot' = [snapshot EXCEPT ![s] = NoSnapshot]
    /\ entries' = [entries EXCEPT ![s] = NoEntries]
    /\ seen' = [seen EXCEPT ![s] = NoJob]
    /\ UNCHANGED <<called, expired, adminJobs, raced>>

\* Status the rows a transaction inserted or updated have once it commits.
Written(k) == IF k = "reserve" THEN "pending" ELSE Outcome(k)

Commit(s) ==
    /\ kind[s] \in {"reserve"} \union SettleKinds
    /\ todo[s] = {}
    /\ committed' = [p \in Products |-> IF p \in Held(s) THEN current[p] ELSE committed[p]]
    /\ journal' = [p \in Products |-> AddEntry(journal[p], entries[s][p])]
    /\ resv' = [l \in Lines |-> IF l \in done[s] THEN Written(kind[s]) ELSE resv[l]]
    /\ Close(s)
    /\ UNCHANGED <<current, aborts, lost>>

\* Mutant of Rollback: every line is saved outside of a common transaction.
RollbackKeepsLines(s) ==
    /\ committed' = [p \in Products |-> IF p \in Held(s) THEN current[p] ELSE committed[p]]
    /\ resv' = [l \in Lines |-> IF l \in done[s] THEN Written(kind[s]) ELSE resv[l]]
    /\ Close(s)
    /\ UNCHANGED <<current, journal, lost>>

Rollback(s) ==
    /\ current' = [p \in Products |-> IF p \in Held(s) THEN committed[p] ELSE current[p]]
    /\ Close(s)
    /\ UNCHANGED <<committed, journal, resv, lost>>

\* Not enough stock: BadRequestException leaves the transaction callback.
RejectReserve(s, l) ==
    /\ kind[s] = "reserve"
    /\ IsNext(s, l)
    /\ CanLock(s, LineProduct(l))
    /\ ~Enough(l)
    /\ Rollback(s)
    /\ UNCHANGED aborts

\* The session that s waits for.
Waits(s) == \E l \in todo[s] : IsNext(s, l) /\ ~CanLock(s, LineProduct(l))
Blocker(s) == lock[LineProduct(CHOOSE l \in todo[s] : IsNext(s, l))]

\* InnoDB rolls back one transaction of a cycle of lock waits.
InDeadlock(s) ==
    \E S \in SUBSET Sessions :
        /\ s \in S
        /\ \A t \in S : Waits(t)
        /\ {Blocker(t) : t \in S} = S

DeadlockVictim(s) ==
    /\ InDeadlock(s)
    /\ Rollback(s)
    /\ UNCHANGED aborts

\* Lock wait timeout, lost connection or crash of the process.
Abort(s) ==
    /\ kind[s] # "idle"
    /\ aborts < MaxAborts
    /\ aborts' = aborts + 1
    /\ Rollback(s)

-----------------------------------------------------------------------------
(***************************************************************************)
(* importStock, exportStock and adjustStock (target available): a plain    *)
(* SELECT, the check, and an UPDATE that locks the row until the commit,   *)
(* which follows with no other row locked.  The UPDATE writes the quantity *)
(* computed from the SELECT.                                               *)
(***************************************************************************)
CanExport(p, job) == job.kind = "export" => committed[p].available + job.delta >= 0

StartCorrection(s, p, job) ==
    /\ kind[s] = "idle"
    /\ adminJobs < MaxAdminJobs
    /\ CanExport(p, job)
    /\ kind' = [kind EXCEPT ![s] = "correct"]
    /\ seen' = [seen EXCEPT ![s] = [product |-> p, delta |-> job.delta, row |-> committed[p]]]
    /\ adminJobs' = adminJobs + 1
    /\ UNCHANGED <<rowVars, todo, done, snapshot, entries, called, expired, aborts,
                   historyVars>>

WriteCorrection(s) ==
    /\ kind[s] = "correct"
    /\ LET p == seen[s].product IN
        /\ lock[p] = NoSession
        /\ current' = [current EXCEPT ![p] = CorrectRow(@, seen[s])]
        /\ committed' = [committed EXCEPT ![p] = CorrectRow(@, seen[s])]
        /\ journal' = [journal EXCEPT ![p].corrected = @ + seen[s].delta]
        /\ lost' = Lost(p, committed'[p],
                        [committed[p] EXCEPT !.available = @ + seen[s].delta])
    /\ Close(s)
    /\ UNCHANGED <<resv, aborts>>

-----------------------------------------------------------------------------
\* Fifteen minutes have passed since the reservations of o were written.
Elapse(o) ==
    /\ o \notin expired
    /\ PendingLines(o) # {}
    /\ expired' = expired \union {o}
    /\ UNCHANGED <<rowVars, sessionVars, called, countVars, historyVars>>

\* Every transaction is finished; a request may or may not come.
Quiescent ==
    /\ \A s \in Sessions : kind[s] = "idle"
    /\ UNCHANGED vars

Advance(s) ==
    \/ \E l \in todo[s] : ReserveLine(s, l) \/ RejectReserve(s, l) \/ SettleLine(s, l)
    \/ Commit(s)
    \/ DeadlockVictim(s)
    \/ WriteCorrection(s)

Request(s) ==
    \/ \E o \in Orders : StartReserve(s, o)
    \/ \E o \in Orders, k \in {"release", "confirm"} : StartSettle(s, k, o)
    \/ \E p \in Products, job \in AdminJobs : StartCorrection(s, p, job)

Next ==
    \/ \E s \in Sessions : Request(s) \/ StartExpire(s) \/ Advance(s) \/ Abort(s)
    \/ \E o \in Orders : Elapse(o)
    \/ Quiescent

Spec == Init /\ [][Next]_vars

(***************************************************************************)
(* Open transactions proceed, time passes, and the scheduler that          *)
(* InventoryQueueInitializer registers keeps starting releaseExpired.      *)
(* Nothing obliges a customer or the staff to send a request.              *)
(***************************************************************************)
Fairness ==
    /\ \A s \in Sessions : WF_vars(Advance(s))
    /\ WF_vars(\E s \in Settlers : StartExpire(s))
    /\ \A o \in Orders : WF_vars(Elapse(o))

FairSpec == Spec /\ Fairness

-----------------------------------------------------------------------------
(***************************************************************************)
(* Properties.                                                             *)
(***************************************************************************)
Kinds == {"idle", "reserve", "correct"} \union SettleKinds

Job == [product : Products, delta : Int, row : Row]

\* Every variable has its type; a session holds locks, has lines to process or
\* has read a quantity only as the transaction it runs allows.
TypeOK ==
    /\ committed \in [Products -> Row]
    /\ current \in [Products -> Row]
    /\ journal \in [Products -> Journal]
    /\ lock \in [Products -> Sessions \union {NoSession}]
    /\ resv \in [Lines -> Statuses \union {"none"}]
    /\ kind \in [Sessions -> Kinds]
    /\ todo \in [Sessions -> SUBSET Lines]
    /\ done \in [Sessions -> SUBSET Lines]
    /\ snapshot \in [Sessions -> [Products -> Row] \union {NoSnapshot}]
    /\ entries \in [Sessions -> [Products -> Journal]]
    /\ DOMAIN seen = Sessions
    /\ \A s \in Sessions : seen[s] \in IF kind[s] = "correct" THEN Job ELSE {NoJob}
    /\ called \in SUBSET Orders
    /\ expired \in SUBSET Orders
    /\ adminJobs \in Nat
    /\ aborts \in Nat
    /\ lost \in SUBSET Products
    /\ raced \in SUBSET Lines

\* The movement journal explains the rows.  Only two things lose the update of
\* a handler: a save whose SELECT shows a snapshot in which the column already
\* has the value to be written (REPEATABLE READ), and a stock correction that
\* writes what it computed before another transaction changed the row.  Locks,
\* rollbacks, deadlocks and settlements that overlap lose none.
RowsExplained ==
    \A p \in Products \ lost :
        /\ committed[p].available =
                InitStock[p] + journal[p].held + journal[p].corrected
        /\ committed[p].reserved = -journal[p].held - journal[p].confirmed

\* An order has reservations for all its lines or for none: a reserve that
\* fails at a later line leaves nothing of the earlier ones behind.
ReserveAllOrNothing ==
    \A o \in Orders : \A l, m \in LinesOf(o) : resv[l] = "none" <=> resv[m] = "none"

\* Units of product p that the lines in S ask for.
Units(S, p) == SumFunctionOnSet([l \in Lines |-> LineQty(l)], {l \in S : LineProduct(l) = p})

Pending == {l \in Lines : resv[l] = "pending"}
PendingQty(p) == Units(Pending, p)

\* Lines whose units are promised to a customer or sold.
Promised == {l \in Lines : resv[l] \in {"pending", "confirmed"}}

\* Products of which no update was lost and no line was settled by two.
Exact == {p \in Products \ lost : \A l \in raced : LineProduct(l) # p}

\* The units recorded as reserved are those of the pending reservations.
ReservedMatchesPending ==
    \A p \in Products : committed[p].reserved = PendingQty(p)

\* The same where it can hold: whatever else overlaps, the two tables agree on
\* every product of which no update was lost and no line was on the lists of
\* two settlements at once.
ReservedIsPending == \A p \in Exact : committed[p].reserved = PendingQty(p)

\* No oversell: the units promised or sold are units the shop had or was
\* given, again unless an update was lost or two settlements listed one line.
NothingOversold ==
    \A p \in Exact : Units(Promised, p) <= InitStock[p] + journal[p].corrected

\* A reservation is settled once: released, confirmed and expired are final,
\* unless two settlements had the line on their lists at once.  An order that
\* is released and confirmed one after the other, or expires while it waits for
\* a lock, is settled by the first.
SettledIsFinal ==
    [][\A l \in Lines \ raced : resv[l] \in Settled => resv'[l] = resv[l]]_resv

\* Every transaction ends: row locks never block the pool for good.
TransactionsEnd == \A s \in Sessions : kind[s] # "idle" ~> kind[s] = "idle"

\* No reservation stays pending: it is settled by a request or it expires and
\* releaseExpired gives the units back.
HoldsAreTemporary == \A o \in Orders : PendingLines(o) # {} ~> PendingLines(o) = {}

-----------------------------------------------------------------------------
(***************************************************************************)
(* The abstract ledger: committed rows, and one status per order.          *)
(***************************************************************************)
OrderDemand ==
    [o \in Orders |-> [p \in Products |-> Units(LinesOf(o), p)]]

Ledger == INSTANCE StockLedger WITH
    Demand <- OrderDemand,
    Deltas <- {job.delta : job \in AdminJobs},
    available <- [p \in Products |-> committed[p].available],
    reserved <- [p \in Products |-> committed[p].reserved],
    status <- [o \in Orders |-> resv[<<o, 1>>]]

\* The transactions implement the abstract ledger, corrections included: what
\* reserve and the settlements do to all the rows of an order is one atomic step
\* to every other reader, as long as no update was lost and no line settled by
\* two.  From the first such event on, the rows are not what the ledger says.
RefinesLedger ==
    Ledger!Init /\ [][lost' = {} /\ raced' = {} => Ledger!Next]_(Ledger!vars)

=============================================================================
