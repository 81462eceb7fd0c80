----------------------- MODULE StockReservationProofs -----------------------
(***************************************************************************)
(* Theorems about StockReservation, for every set of products, orders and  *)
(* sessions, every cart and every initial stock.                           *)
(***************************************************************************)
EXTENDS StockReservation, SequenceTheorems, SumTheorems, TLAPS

(***************************************************************************)
(* Lines and rows.                                                         *)
(***************************************************************************)
\* A line of a cart names a product and a positive quantity (order items are
\* built from cart items, order.service.ts:146).
LEMMA LineFacts ==
    ASSUME NEW l \in Lines
    PROVE  /\ LineProduct(l) \in Products
           /\ LineQty(l) \in Nat \ {0}
           /\ l[1] \in Orders
  <1>1. PICK o \in Orders : l \in {o} \X (1 .. Len(Cart[o]))
    BY DEF Lines
  <1>2. l[1] = o /\ l[2] \in 1 .. Len(Cart[o])
    BY <1>1
  <1>3. Cart[o] \in Seq([product : Products, qty : Nat \ {0}])
    BY CartAssumption
  <1>4. Cart[o][l[2]] \in [product : Products, qty : Nat \ {0}]
    BY <1>2, <1>3, ElementOfSeq
  <1> QED
    BY <1>2, <1>4 DEF LineProduct, LineQty

\* What a transaction computes from a row is a row.
LEMMA RowFacts ==
    ASSUME NEW r \in Row, NEW q \in Nat, NEW k
    PROVE  /\ HoldRow(r, q) \in Row
           /\ PutBackRow(r, q) \in Row
           /\ SellRow(r, q) \in Row
           /\ SettleRow(k, r, q) \in Row
  BY DEF Row, HoldRow, PutBackRow, SellRow, SettleRow

\* What a save writes is a row; if its SELECT shows the row itself, it is the
\* entity.
LEMMA SavedFacts ==
    ASSUME NEW e \in Row, NEW b \in Row, NEW r \in Row
    PROVE  /\ Saved(e, b, r) \in Row
           /\ Saved(e, r, r) = e
  BY DEF Saved, Row

\* What it writes to the journal is a journal entry.
LEMMA EntryFacts ==
    ASSUME NEW q \in Nat, NEW k
    PROVE  NoEntry \in Journal /\ Entry(k, q) \in Journal
  BY DEF Journal, NoEntry, Entry

LEMMA AddEntryFacts ==
    ASSUME NEW j \in Journal, NEW e \in Journal
    PROVE  AddEntry(j, e) \in Journal /\ AddEntry(j, NoEntry) = j
  BY DEF Journal, AddEntry, NoEntry

-----------------------------------------------------------------------------
(***************************************************************************)
(* Type correctness, one lemma per part of a transaction.                  *)
(***************************************************************************)
\* What a plain SELECT shows is rows, and it keeps the snapshots' type.
LEMMA SelectType ==
    ASSUME TypeOK, NEW s \in Sessions
    PROVE  /\ View(s) \in [Products -> Row]
           /\ \A p \in Products : Shown(s, p) \in Row
           /\ Select(s) => snapshot' \in [Sessions -> [Products -> Row] \union {NoSnapshot}]
  <1>1. View(s) \in [Products -> Row]
    BY DEF TypeOK, View
  <1>2. \A p \in Products : Shown(s, p) \in Row
    BY <1>1 DEF TypeOK, Shown
  <1>3. Select(s) => snapshot' \in [Sessions -> [Products -> Row] \union {NoSnapshot}]
    BY <1>1 DEF TypeOK, Select
  <1> QED
    BY <1>1, <1>2, <1>3

\* Opening a transaction keeps the types.
LEMMA OpenType ==
    ASSUME TypeOK, NEW s \in Sessions, NEW S \in SUBSET Lines,
           NEW k \in {"reserve"} \union SettleKinds, Open(s, k, S),
           called' \in SUBSET Orders, raced' \in SUBSET Lines, Select(s) \/ UNCHANGED snapshot
    PROVE  TypeOK'
  <1>1. k # "correct" /\ k \in Kinds
    BY DEF SettleKinds, Kinds
  <1>2. \A t \in Sessions : seen'[t] \in IF kind'[t] = "correct" THEN Job ELSE {NoJob}
    BY <1>1 DEF Open, TypeOK
  <1>3. snapshot' \in [Sessions -> [Products -> Row] \union {NoSnapshot}]
    BY SelectType DEF TypeOK
  <1> QED
    BY <1>1, <1>2, <1>3 DEF Open, TypeOK, rowVars, countVars

\* Processing a line keeps the types.
LEMMA ProcessType ==
    ASSUME TypeOK, NEW s \in Sessions, NEW l \in Lines, NEW e \in Row, Process(s, l, e)
    PROVE  TypeOK'
  <1>1. /\ LineProduct(l) \in Products
        /\ LineQty(l) \in Nat
    BY LineFacts
  <1>2. Entry(kind[s], LineQty(l)) \in Journal
    BY <1>1, EntryFacts
  <1>3. entries[s][LineProduct(l)] \in Journal
    BY <1>1 DEF TypeOK
  <1>4. AddEntry(entries[s][LineProduct(l)], Entry(kind[s], LineQty(l))) \in Journal
    BY <1>2, <1>3, AddEntryFacts
  <1>5. entries' \in [Sessions -> [Products -> Journal]]
    BY <1>1, <1>4 DEF TypeOK, Process
  <1>6. /\ todo' \in [Sessions -> SUBSET Lines]
        /\ done' \in [Sessions -> SUBSET Lines]
        /\ lock' \in [Products -> Sessions \union {NoSession}]
    BY <1>1 DEF TypeOK, Process
  <1>7. Saved(e, Shown(s, LineProduct(l)), current[LineProduct(l)]) \in Row
    BY <1>1, SelectType, SavedFacts DEF TypeOK
  <1>8. current' \in [Products -> Row]
    BY <1>1, <1>7 DEF TypeOK, Process
  <1>9. snapshot' \in [Sessions -> [Products -> Row] \union {NoSnapshot}]
    BY SelectType DEF Process
  <1>10. lost' \in SUBSET Products
    BY <1>1 DEF Process, Lost, TypeOK
  <1> QED
    BY <1>5, <1>6, <1>8, <1>9, <1>10 DEF TypeOK, Process, countVars

\* Closing a transaction keeps the types of what it resets.
LEMMA CloseType ==
    ASSUME TypeOK, NEW s \in Sessions, Close(s),
           committed' \in [Products -> Row], current' \in [Products -> Row],
           journal' \in [Products -> Journal],
           resv' \in [Lines -> Statuses \union {"none"}], aborts' \in Nat,
           lost' \in SUBSET Products
    PROVE  TypeOK'
  <1>1. lock' \in [Products -> Sessions \union {NoSession}]
    BY DEF TypeOK, Close
  <1>2. kind' \in [Sessions -> Kinds]
    BY DEF TypeOK, Close, Kinds
  <1>3. /\ todo' \in [Sessions -> SUBSET Lines]
        /\ done' \in [Sessions -> SUBSET Lines]
        /\ snapshot' \in [Sessions -> [Products -> Row] \union {NoSnapshot}]
    BY DEF TypeOK, Close
  <1>4. NoEntries \in [Products -> Journal]
    BY EntryFacts DEF NoEntries
  <1>5. entries' \in [Sessions -> [Products -> Journal]]
    BY <1>4 DEF TypeOK, Close
  <1>6. DOMAIN seen' = Sessions
    BY DEF TypeOK, Close
  <1>7. \A t \in Sessions : seen'[t] \in IF kind'[t] = "correct" THEN Job ELSE {NoJob}
    BY DEF TypeOK, Close
  <1> QED
    BY <1>1, <1>2, <1>3, <1>5, <1>6, <1>7 DEF TypeOK, Close

\* A commit installs rows, journal entries and statuses of the right type.
LEMMA CommitType ==
    ASSUME TypeOK, NEW s \in Sessions, Commit(s)
    PROVE  TypeOK'
  <1>1. committed' \in [Products -> Row]
    BY DEF TypeOK, Commit
  <1>2. \A p \in Products : AddEntry(journal[p], entries[s][p]) \in Journal
    BY AddEntryFacts DEF TypeOK
  <1>3. journal' \in [Products -> Journal]
    BY <1>2 DEF Commit
  <1>4. Written(kind[s]) \in Statuses
    BY DEF Commit, Written, Outcome, Statuses, SettleKinds
  <1>5. resv' \in [Lines -> Statuses \union {"none"}]
    BY <1>4 DEF TypeOK, Commit
  <1>6. current' \in [Products -> Row] /\ aborts' \in Nat /\ lost' \in SUBSET Products /\ Close(s)
    BY DEF TypeOK, Commit
  <1> QED
    BY <1>1, <1>3, <1>5, <1>6, CloseType

\* A rollback restores rows of the right type.
LEMMA RollbackType ==
    ASSUME TypeOK, NEW s \in Sessions, Rollback(s), aborts' \in Nat
    PROVE  TypeOK'
  <1>1. current' \in [Products -> Row]
    BY DEF TypeOK, Rollback
  <1>2. /\ committed' \in [Products -> Row]
        /\ journal' \in [Products -> Journal]
        /\ resv' \in [Lines -> Statuses \union {"none"}]
        /\ lost' \in SUBSET Products
        /\ Close(s)
    BY DEF TypeOK, Rollback
  <1> QED
    BY <1>1, <1>2, CloseType

\* What a stock correction read, and what it writes.
LEMMA CorrectionFacts ==
    ASSUME TypeOK, NEW s \in Sessions, kind[s] = "correct"
    PROVE  /\ seen[s] \in Job
           /\ seen[s].product \in Products
           /\ \A r \in Row : CorrectRow(r, seen[s]) \in Row
  <1>1. seen[s] \in Job
    BY DEF TypeOK
  <1> QED
    BY <1>1, SavedFacts DEF Job, Row, CorrectRow

LEMMA WriteCorrectionType ==
    ASSUME TypeOK, NEW s \in Sessions, WriteCorrection(s)
    PROVE  TypeOK'
  <1> DEFINE p == seen[s].product
  <1>1. /\ seen[s] \in Job
        /\ p \in Products
        /\ \A r \in Row : CorrectRow(r, seen[s]) \in Row
    BY CorrectionFacts DEF WriteCorrection
  <1>2. /\ current' = [current EXCEPT ![p] = CorrectRow(@, seen[s])]
        /\ committed' = [committed EXCEPT ![p] = CorrectRow(@, seen[s])]
        /\ journal' = [journal EXCEPT ![p].corrected = @ + seen[s].delta]
        /\ Close(s)
        /\ resv' = resv
        /\ aborts' = aborts
    BY DEF WriteCorrection
  <1>3. current[p] \in Row /\ committed[p] \in Row /\ journal[p] \in Journal
    BY <1>1 DEF TypeOK
  <1>4. current' \in [Products -> Row] /\ committed' \in [Products -> Row]
    BY <1>1, <1>2, <1>3 DEF TypeOK
  <1>5. [journal[p] EXCEPT !.corrected = @ + seen[s].delta] \in Journal
    BY <1>1, <1>3 DEF Journal, Job
  <1>6. journal' \in [Products -> Journal]
    BY <1>1, <1>2, <1>5 DEF TypeOK
  <1>7. lost' \in SUBSET Products
    BY <1>1 DEF WriteCorrection, Lost, TypeOK
  <1> QED
    BY <1>2, <1>4, <1>6, <1>7, CloseType DEF TypeOK

LEMMA StartCorrectionType ==
    ASSUME TypeOK, NEW s \in Sessions, NEW p \in Products, NEW job \in AdminJobs,
           StartCorrection(s, p, job)
    PROVE  TypeOK'
  <1>1. job.delta \in Int
    BY AdminAssumption
  <1>2. [product |-> p, delta |-> job.delta, row |-> committed[p]] \in Job
    BY <1>1 DEF TypeOK, Job
  <1>3. \A t \in Sessions : seen'[t] \in IF kind'[t] = "correct" THEN Job ELSE {NoJob}
    BY <1>2 DEF TypeOK, StartCorrection
  <1>4. /\ DOMAIN seen' = Sessions
        /\ kind' \in [Sessions -> Kinds]
        /\ adminJobs' \in Nat
    BY DEF TypeOK, StartCorrection, Kinds
  <1> QED
    BY <1>3, <1>4 DEF TypeOK, StartCorrection, rowVars, historyVars

\* Every step keeps the types: one step of the proof per action.
LEMMA NextType == TypeOK /\ [Next]_vars => TypeOK'
  <1> SUFFICES ASSUME TypeOK, [Next]_vars
               PROVE  TypeOK'
    OBVIOUS
  <1>1. ASSUME NEW s \in Sessions, NEW o \in Orders, StartReserve(s, o)
        PROVE  TypeOK'
    <2>1. /\ LinesOf(o) \in SUBSET Lines
          /\ called' \in SUBSET Orders
          /\ raced' \in SUBSET Lines
      BY <1>1 DEF LinesOf, StartReserve, TypeOK
    <2> QED
      BY <1>1, <2>1, OpenType DEF StartReserve
  <1>2. ASSUME NEW s \in Sessions, NEW o \in Orders, NEW k \in {"release", "confirm"},
               StartSettle(s, k, o)
        PROVE  TypeOK'
    <2>1. /\ PendingLines(o) \in SUBSET Lines
          /\ called' \in SUBSET Orders
          /\ raced' \in SUBSET Lines
      BY <1>2 DEF PendingLines, LinesOf, StartSettle, TypeOK
    <2> QED
      BY <1>2, <2>1, OpenType DEF StartSettle, SettleKinds
  <1>3. ASSUME NEW s \in Sessions, StartExpire(s)
        PROVE  TypeOK'
    <2>1. /\ ExpiredLines \in SUBSET Lines
          /\ called' \in SUBSET Orders
          /\ raced' \in SUBSET Lines
      BY <1>3 DEF ExpiredLines, PendingLines, LinesOf, StartExpire, TypeOK
    <2> QED
      BY <1>3, <2>1, OpenType DEF StartExpire, SettleKinds
  <1>4. ASSUME NEW s \in Sessions, NEW p \in Products, NEW job \in AdminJobs,
               StartCorrection(s, p, job)
        PROVE  TypeOK'
    BY <1>4, StartCorrectionType
  <1>5. ASSUME NEW s \in Sessions, NEW l \in todo[s], ReserveLine(s, l)
        PROVE  TypeOK'
    <2>1. l \in Lines
      BY DEF TypeOK
    <2>2. HoldRow(current[LineProduct(l)], LineQty(l)) \in Row
      BY <2>1, LineFacts, RowFacts DEF TypeOK
    <2> QED
      BY <1>5, <2>1, <2>2, ProcessType DEF ReserveLine
  <1>6. ASSUME NEW s \in Sessions, NEW l \in todo[s], RejectReserve(s, l)
        PROVE  TypeOK'
    BY <1>6, RollbackType DEF RejectReserve, TypeOK
  <1>7. ASSUME NEW s \in Sessions, NEW l \in todo[s], SettleLine(s, l)
        PROVE  TypeOK'
    <2>1. l \in Lines
      BY DEF TypeOK
    <2>2. SettleRow(kind[s], current[LineProduct(l)], LineQty(l)) \in Row
      BY <2>1, LineFacts, RowFacts DEF TypeOK
    <2> QED
      BY <1>7, <2>1, <2>2, ProcessType DEF SettleLine
  <1>8. ASSUME NEW s \in Sessions, Commit(s)
        PROVE  TypeOK'
    BY <1>8, CommitType
  <1>9. ASSUME NEW s \in Sessions, DeadlockVictim(s)
        PROVE  TypeOK'
    BY <1>9, RollbackType DEF DeadlockVictim, TypeOK
  <1>10. ASSUME NEW s \in Sessions, WriteCorrection(s)
         PROVE  TypeOK'
    BY <1>10, WriteCorrectionType
  <1>11. ASSUME NEW s \in Sessions, Abort(s)
         PROVE  TypeOK'
    <2>1. aborts' \in Nat
      BY <1>11 DEF Abort, TypeOK
    <2> QED
      BY <1>11, <2>1, RollbackType DEF Abort
  <1>12. ASSUME NEW o \in Orders, Elapse(o)
         PROVE  TypeOK'
    BY <1>12 DEF Elapse, TypeOK, rowVars, sessionVars, countVars, historyVars
  <1>13. CASE UNCHANGED vars
    BY <1>13 DEF TypeOK, vars, rowVars, sessionVars, countVars, historyVars
  <1> QED
    BY <1>1, <1>2, <1>3, <1>4, <1>5, <1>6, <1>7, <1>8, <1>9, <1>10, <1>11, <1>12, <1>13
       DEF Next, Request, Advance, Quiescent

\* TypeOK holds in every state of every behaviour: transactions never write a
\* value outside the columns' types, and locks only ever name open sessions.
THEOREM TypeCorrect == Spec => []TypeOK
  <1>1. Init => TypeOK
    <2> SUFFICES ASSUME Init
                 PROVE  TypeOK
      OBVIOUS
    <2>1. \A p \in Products : InitRow(p) \in Row
      BY StockAssumption DEF InitRow, Row
    <2>2. NoEntries \in [Products -> Journal]
      BY EntryFacts DEF NoEntries
    <2>3. "idle" \in Kinds
      BY DEF Kinds
    <2> QED
      BY <2>1, <2>2, <2>3 DEF Init, TypeOK
  <1> QED
    BY <1>1, NextType, PTL DEF Spec

-----------------------------------------------------------------------------
(***************************************************************************)
(* History only grows.                                                     *)
(***************************************************************************)
LEMMA HistoryGrows ==
    ASSUME [Next]_vars
    PROVE  lost \subseteq lost' /\ raced \subseteq raced'
  <1>1. \A p, a, b : lost \subseteq Lost(p, a, b)
    BY DEF Lost
  <1>2. ASSUME NEW s \in Sessions, Request(s) \/ StartExpire(s)
        PROVE  lost \subseteq lost' /\ raced \subseteq raced'
    BY <1>2 DEF Request, StartReserve, StartSettle, StartExpire, StartCorrection, Open, historyVars
  <1>3. ASSUME NEW s \in Sessions, NEW l \in todo[s], ReserveLine(s, l) \/ SettleLine(s, l)
        PROVE  lost \subseteq lost' /\ raced \subseteq raced'
    BY <1>1, <1>3 DEF ReserveLine, SettleLine, Process
  <1>4. ASSUME NEW s \in Sessions, Rollback(s) \/ Commit(s) \/ WriteCorrection(s)
        PROVE  lost \subseteq lost' /\ raced \subseteq raced'
    BY <1>1, <1>4 DEF Rollback, Commit, WriteCorrection, Close
  <1> QED
    BY <1>2, <1>3, <1>4
       DEF Next, Advance, Quiescent, Elapse, RejectReserve, DeadlockVictim, Abort, vars, historyVars

(***************************************************************************)
(* The journal explains the rows of which no update was lost.              *)
(* RowsExplained is about committed versions; a commit installs `current`  *)
(* versions and the entries of the transaction, so the invariant also says *)
(* what those are worth while the transaction runs:                        *)
(*   - the newest version of an unlocked row is the committed one;         *)
(*   - only the transactions of StockReservationService hold locks across  *)
(*     steps, and they journal no correction;                              *)
(*   - a session has no entry for a row it has not locked;                 *)
(*   - the newest version of a locked row is explained by the journal and  *)
(*     the entries of the session that holds the lock.                     *)
(***************************************************************************)
Locking == {"reserve"} \union SettleKinds

LockDiscipline ==
    \A p \in Products :
        /\ lock[p] = NoSession => current[p] = committed[p]
        /\ \A s \in Sessions :
            /\ lock[p] = s => kind[s] \in Locking
            /\ lock[p] # s => entries[s][p] = NoEntry
            /\ entries[s][p].corrected = 0

ExplainedBy(p, r, j) ==
    /\ r.available = InitStock[p] + j.held + j.corrected
    /\ r.reserved = -j.held - j.confirmed

ExplainedInv ==
    \A p \in Products \ lost :
        /\ ExplainedBy(p, committed[p], journal[p])
        /\ \A s \in Sessions :
            lock[p] = s => ExplainedBy(p, current[p], AddEntry(journal[p], entries[s][p]))

\* Unless it is recorded as lost, a save writes the entity; it touches no other
\* row.
LEMMA ProcessRow ==
    ASSUME TypeOK, NEW s \in Sessions, NEW l \in Lines, NEW e \in Row, Process(s, l, e)
    PROVE  /\ LineProduct(l) \in Products
           /\ lost \subseteq lost'
           /\ LineProduct(l) \notin lost' => current'[LineProduct(l)] = e
           /\ \A p \in Products : p # LineProduct(l) => current'[p] = current[p]
  <1>1. LineProduct(l) \in Products
    BY LineFacts
  <1> QED
    BY <1>1 DEF Process, Lost, TypeOK

\* Locking one more row, or one already locked, keeps the discipline: the lock
\* is only taken when no other session holds it.
LEMMA ProcessDiscipline ==
    ASSUME TypeOK, LockDiscipline, NEW s \in Sessions, kind[s] \in Locking, NEW l \in Lines,
           NEW e, CanLock(s, LineProduct(l)), Process(s, l, e)
    PROVE  LockDiscipline'
  <1> DEFINE P == LineProduct(l)
             n == Entry(kind[s], LineQty(l))
  <1>1. P \in Products /\ LineQty(l) \in Nat
    BY LineFacts
  <1>2. /\ kind' = kind /\ committed' = committed
        /\ lock' = [lock EXCEPT ![P] = s]
        /\ entries' = [entries EXCEPT ![s][P] = AddEntry(@, n)]
        /\ \A p \in Products : p # P => current'[p] = current[p]
    BY <1>1 DEF Process, TypeOK
  <1>3. AddEntry(entries[s][P], n).corrected = 0
    <2>1. entries[s][P].corrected = 0
      BY <1>1 DEF LockDiscipline
    <2>2. n.corrected = 0
      BY DEF Entry, NoEntry
    <2> QED
      BY <2>1, <2>2 DEF AddEntry
  <1> HIDE DEF P, n
  <1> SUFFICES ASSUME NEW p \in Products, NEW t \in Sessions
               PROVE  /\ lock'[p] = NoSession => current'[p] = committed'[p]
                      /\ lock'[p] = t => kind'[t] \in Locking
                      /\ lock'[p] # t => entries'[t][p] = NoEntry
                      /\ entries'[t][p].corrected = 0
    BY DEF LockDiscipline
  <1>4. CASE p = P
    <2>1. lock'[p] = s /\ s # NoSession
      BY <1>1, <1>2, <1>4, SessionAssumption DEF TypeOK
    <2>2. t # s => entries'[t][p] = entries[t][p] /\ lock[p] # t
      BY <1>2, <1>4, SessionAssumption DEF TypeOK, CanLock, P
    <2>3. t = s => entries'[t][p].corrected = 0
      BY <1>1, <1>2, <1>3, <1>4 DEF TypeOK
    <2> QED
      BY <1>2, <2>1, <2>2, <2>3 DEF LockDiscipline
  <1>5. CASE p # P
    <2>1. lock'[p] = lock[p] /\ current'[p] = current[p] /\ entries'[t][p] = entries[t][p]
      BY <1>2, <1>5 DEF TypeOK
    <2> QED
      BY <1>2, <2>1 DEF LockDiscipline
  <1> QED
    BY <1>4, <1>5

\* The row of a line being processed is explained before the step by the
\* journal and the entries of the session, whether it held the lock or not.
LEMMA OwnRow ==
    ASSUME TypeOK, LockDiscipline, ExplainedInv, NEW s \in Sessions, NEW p \in Products \ lost,
           CanLock(s, p)
    PROVE  ExplainedBy(p, current[p], AddEntry(journal[p], entries[s][p]))
  <1>1. CASE lock[p] = s
    BY <1>1 DEF ExplainedInv
  <1>2. CASE lock[p] = NoSession
    <2>1. current[p] = committed[p] /\ entries[s][p] = NoEntry
      BY <1>2, SessionAssumption DEF LockDiscipline
    <2>2. AddEntry(journal[p], NoEntry) = journal[p]
      BY AddEntryFacts, EntryFacts DEF TypeOK
    <2> QED
      BY <2>1, <2>2 DEF ExplainedInv
  <1> QED
    BY <1>1, <1>2 DEF CanLock

\* The row and the entry of one line change the quantities alike.
LEMMA LineStep ==
    ASSUME NEW p \in Products, NEW r \in Row, NEW q \in Nat, NEW j \in Journal,
           NEW e \in Journal, NEW k, ExplainedBy(p, r, AddEntry(j, e)),
           NEW row, \/ k = "reserve" /\ row = HoldRow(r, q)
                    \/ k \in SettleKinds /\ row = SettleRow(k, r, q)
    PROVE  ExplainedBy(p, row, AddEntry(j, AddEntry(e, Entry(k, q))))
  <1>1. InitStock[p] \in Nat
    BY StockAssumption
  <1> QED
    BY <1>1 DEF ExplainedBy, AddEntry, Row, Journal, HoldRow, SettleRow, PutBackRow,
                SellRow, SettleKinds, Entry, NoEntry

\* Closing a transaction unlocks its rows and drops its entries.
LEMMA CloseDiscipline ==
    ASSUME TypeOK, LockDiscipline, NEW s \in Sessions, Close(s),
           \A p \in Products :
               /\ lock[p] = s => current'[p] = committed'[p]
               /\ lock[p] = NoSession => current'[p] = committed'[p]
    PROVE  LockDiscipline'
  <1> SUFFICES ASSUME NEW p \in Products, NEW t \in Sessions
               PROVE  /\ lock'[p] = NoSession => current'[p] = committed'[p]
                      /\ lock'[p] = t => kind'[t] \in Locking
                      /\ lock'[p] # t => entries'[t][p] = NoEntry
                      /\ entries'[t][p].corrected = 0
    BY DEF LockDiscipline
  <1>1. lock'[p] = IF lock[p] = s THEN NoSession ELSE lock[p]
    BY DEF Close, Held
  <1>2. entries'[t][p] = IF t = s THEN NoEntry ELSE entries[t][p]
    BY DEF Close, NoEntries, TypeOK
  <1>3. t # s => kind'[t] = kind[t]
    BY DEF Close, TypeOK
  <1>4. NoEntry.corrected = 0
    BY DEF NoEntry
  <1>5. lock'[p] = t => lock[p] = t /\ t # s
    BY <1>1, SessionAssumption
  <1> QED
    BY <1>1, <1>2, <1>3, <1>4, <1>5 DEF LockDiscipline

\* Processing a line keeps the rows explained: the other rows and
\* the other sessions' entries are not touched.
LEMMA ProcessExplained ==
    ASSUME TypeOK, LockDiscipline, ExplainedInv,
           NEW s \in Sessions, NEW l \in Lines, NEW row \in Row,
           CanLock(s, LineProduct(l)), Process(s, l, row),
           \/ /\ kind[s] = "reserve"
              /\ row = HoldRow(current[LineProduct(l)], LineQty(l))
           \/ /\ kind[s] \in SettleKinds
              /\ row = SettleRow(kind[s], current[LineProduct(l)], LineQty(l))
    PROVE  ExplainedInv'
  <1> DEFINE P == LineProduct(l)
  <1>1. P \in Products /\ LineQty(l) \in Nat
    BY LineFacts
  <1>2. journal' = journal /\ committed' = committed
    BY DEF Process
  <1>0. /\ lost \subseteq lost'
        /\ P \notin lost' => current'[P] = row
        /\ \A p \in Products : p # P => current'[p] = current[p]
    BY ProcessRow
  <1> SUFFICES ASSUME NEW p \in Products \ lost', NEW t \in Sessions, lock'[p] = t
               PROVE  ExplainedBy(p, current'[p], AddEntry(journal'[p], entries'[t][p]))
    BY <1>0, <1>2 DEF ExplainedInv
  <1>3. CASE p = P
    <2>1. t = s
      BY <1>1, <1>3 DEF Process, TypeOK
    <2>2. current'[p] = row
      BY <1>0, <1>3
    <2>3. entries'[t][p] = AddEntry(entries[s][P], Entry(kind[s], LineQty(l)))
      BY <2>1, <1>1, <1>3 DEF Process, TypeOK
    <2>4. current[P] \in Row /\ journal[P] \in Journal /\ entries[s][P] \in Journal
      BY <1>1 DEF TypeOK
    <2>5. ExplainedBy(P, current[P], AddEntry(journal[P], entries[s][P]))
      BY <1>0, <1>3, OwnRow
    <2> HIDE DEF P
    <2>6. ExplainedBy(P, row,
                      AddEntry(journal[P], AddEntry(entries[s][P], Entry(kind[s], LineQty(l)))))
      BY <1>1, <2>4, <2>5, LineStep DEF P
    <2> QED
      BY <1>2, <1>3, <2>2, <2>3, <2>6
  <1>4. CASE p # P
    <2>1. lock[p] = t
      BY <1>4 DEF Process, TypeOK
    <2>2. entries'[t][p] = entries[t][p]
      BY <1>4 DEF Process, TypeOK
    <2> QED
      BY <1>0, <1>2, <1>4, <2>1, <2>2 DEF ExplainedInv
  <1> QED
    BY <1>3, <1>4

\* A commit turns explained current versions into explained committed ones.
LEMMA CommitExplained ==
    ASSUME TypeOK, LockDiscipline, ExplainedInv, NEW s \in Sessions, Commit(s)
    PROVE  LockDiscipline' /\ ExplainedInv'
  <1>1. \A p \in Products :
            /\ committed'[p] = IF lock[p] = s THEN current[p] ELSE committed[p]
            /\ journal'[p] = AddEntry(journal[p], entries[s][p])
            /\ current'[p] = current[p]
    BY DEF Commit, Held, TypeOK
  <1>2. \A p \in Products : lock[p] # s => journal'[p] = journal[p]
    BY <1>1, AddEntryFacts, EntryFacts DEF LockDiscipline, TypeOK
  <1>3. s # NoSession /\ lost' = lost
    BY SessionAssumption DEF Commit
  <1>4. LockDiscipline'
    BY <1>1, <1>3, CloseDiscipline DEF Commit, LockDiscipline
  <1>5. \A p \in Products \ lost' : ExplainedBy(p, committed'[p], journal'[p])
    BY <1>1, <1>2, <1>3 DEF ExplainedInv
  <1>6. ASSUME NEW p \in Products \ lost', NEW t \in Sessions, lock'[p] = t
        PROVE  ExplainedBy(p, current'[p], AddEntry(journal'[p], entries'[t][p]))
    <2>1. lock[p] = t /\ t # s
      BY <1>6, SessionAssumption DEF Commit, Close, Held
    <2>2. entries'[t][p] = entries[t][p]
      BY <2>1 DEF Commit, Close, TypeOK
    <2> QED
      BY <1>1, <1>2, <1>3, <2>1, <2>2 DEF ExplainedInv
  <1> QED
    BY <1>4, <1>5, <1>6 DEF ExplainedInv

\* A rollback gives the locked rows their committed version back.
LEMMA RollbackExplained ==
    ASSUME TypeOK, LockDiscipline, ExplainedInv, NEW s \in Sessions, Rollback(s)
    PROVE  LockDiscipline' /\ ExplainedInv'
  <1>1. \A p \in Products :
            /\ current'[p] = IF lock[p] = s THEN committed[p] ELSE current[p]
            /\ committed'[p] = committed[p]
            /\ journal'[p] = journal[p]
            /\ lost' = lost
    BY DEF Rollback, Held, TypeOK
  <1>2. LockDiscipline'
    BY <1>1, SessionAssumption, CloseDiscipline DEF Rollback, LockDiscipline
  <1>3. ASSUME NEW p \in Products \ lost', NEW t \in Sessions, lock'[p] = t
        PROVE  ExplainedBy(p, current'[p], AddEntry(journal'[p], entries'[t][p]))
    <2>1. lock[p] = t /\ t # s
      BY <1>3, SessionAssumption DEF Rollback, Close, Held
    <2>2. entries'[t][p] = entries[t][p]
      BY <2>1 DEF Rollback, Close, TypeOK
    <2> QED
      BY <1>1, <2>1, <2>2 DEF ExplainedInv
  <1> QED
    BY <1>1, <1>2, <1>3 DEF ExplainedInv

\* What a stock correction does to the row and its journal.
LEMMA CorrectedRow ==
    ASSUME TypeOK, LockDiscipline, NEW s \in Sessions, WriteCorrection(s),
           NEW p, p = seen[s].product
    PROVE  /\ p \in Products /\ seen[s].delta \in Int /\ lock[p] = NoSession
           /\ current'[p] = committed'[p]
           /\ p \notin lost' =>
                committed'[p] = [committed[p] EXCEPT !.available = @ + seen[s].delta]
           /\ journal'[p] = [journal[p] EXCEPT !.corrected = @ + seen[s].delta]
           /\ \A r \in Products : r # p =>
                /\ committed'[r] = committed[r]
                /\ current'[r] = current[r]
                /\ journal'[r] = journal[r]
           /\ lost \subseteq lost'
  <1>1. p \in Products /\ seen[s].delta \in Int
    BY CorrectionFacts DEF WriteCorrection, Job
  <1>2. lock[p] = NoSession /\ current[p] = committed[p]
    BY <1>1 DEF WriteCorrection, LockDiscipline
  <1>3. /\ committed' = [committed EXCEPT ![p] = CorrectRow(@, seen[s])]
        /\ current' = [current EXCEPT ![p] = CorrectRow(@, seen[s])]
        /\ journal' = [journal EXCEPT ![p].corrected = @ + seen[s].delta]
        /\ lost' = Lost(p, committed'[p], [committed[p] EXCEPT !.available = @ + seen[s].delta])
    BY DEF WriteCorrection
  <1>4. \A a, b : (p \notin Lost(p, a, b) => a = b) /\ lost \subseteq Lost(p, a, b)
    BY DEF Lost
  <1>5. /\ current'[p] = committed'[p]
        /\ \A r \in Products : r # p =>
                committed'[r] = committed[r] /\ current'[r] = current[r]
    BY <1>1, <1>2, <1>3 DEF TypeOK
  <1>6. /\ journal'[p] = [journal[p] EXCEPT !.corrected = @ + seen[s].delta]
        /\ \A r \in Products : r # p => journal'[r] = journal[r]
    BY <1>1, <1>3 DEF TypeOK
  <1>7. /\ p \notin lost' =>
                committed'[p] = [committed[p] EXCEPT !.available = @ + seen[s].delta]
        /\ lost \subseteq lost'
    BY <1>3, <1>4
  <1> QED
    BY <1>1, <1>2, <1>5, <1>6, <1>7

\* A correction that is not recorded as lost moves the row and the journal by
\* the same amount; it finds the row unlocked.
LEMMA CorrectionExplained ==
    ASSUME TypeOK, LockDiscipline, ExplainedInv, NEW s \in Sessions, WriteCorrection(s)
    PROVE  LockDiscipline' /\ ExplainedInv'
  <1> DEFINE p == seen[s].product
  <1>1. /\ p \in Products /\ seen[s].delta \in Int /\ lock[p] = NoSession
        /\ current'[p] = committed'[p]
        /\ p \notin lost' =>
                committed'[p] = [committed[p] EXCEPT !.available = @ + seen[s].delta]
        /\ journal'[p] = [journal[p] EXCEPT !.corrected = @ + seen[s].delta]
        /\ \A r \in Products : r # p =>
                /\ committed'[r] = committed[r]
                /\ current'[r] = current[r]
                /\ journal'[r] = journal[r]
        /\ lost \subseteq lost'
    BY CorrectedRow
  <1>2. kind[s] = "correct" /\ Close(s)
    BY DEF WriteCorrection
  <1>3. \A r \in Products : lock[r] # s
    BY <1>2 DEF LockDiscipline, Locking, SettleKinds
  <1> HIDE DEF p
  <1>4. LockDiscipline'
    <2>1. \A r \in Products :
            /\ lock[r] = s => current'[r] = committed'[r]
            /\ lock[r] = NoSession => current'[r] = committed'[r]
      BY <1>1, <1>3 DEF LockDiscipline
    <2> QED
      BY <1>2, <2>1, CloseDiscipline
  <1>5. p \notin lost' => ExplainedBy(p, committed'[p], journal'[p])
    <2>1. SUFFICES ASSUME p \notin lost'
                   PROVE  ExplainedBy(p, committed'[p], journal'[p])
      OBVIOUS
    <2>2. ExplainedBy(p, committed[p], journal[p])
      BY <1>1, <2>1 DEF ExplainedInv
    <2>3. committed[p] \in Row /\ journal[p] \in Journal /\ InitStock[p] \in Nat
      BY <1>1, StockAssumption DEF TypeOK
    <2>4. /\ committed'[p].available = committed[p].available + seen[s].delta
          /\ committed'[p].reserved = committed[p].reserved
          /\ journal'[p].held = journal[p].held
          /\ journal'[p].confirmed = journal[p].confirmed
          /\ journal'[p].corrected = journal[p].corrected + seen[s].delta
      BY <1>1, <2>1, <2>3 DEF Row, Journal
    <2> QED
      BY <1>1, <2>2, <2>3, <2>4 DEF ExplainedBy, Row, Journal
  <1>6. ASSUME NEW r \in Products \ lost', NEW t \in Sessions, lock'[r] = t
        PROVE  ExplainedBy(r, current'[r], AddEntry(journal'[r], entries'[t][r]))
    <2>1. lock[r] = t /\ t # s
      BY <1>2, <1>6, SessionAssumption DEF Close, Held
    <2>2. r # p
      BY <1>1, <2>1, SessionAssumption
    <2>3. entries'[t][r] = entries[t][r]
      BY <1>2, <2>1 DEF Close, TypeOK
    <2> QED
      BY <1>1, <2>1, <2>2, <2>3 DEF ExplainedInv
  <1>7. \A r \in Products \ lost' : ExplainedBy(r, committed'[r], journal'[r])
    BY <1>1, <1>5 DEF ExplainedInv
  <1> QED
    BY <1>4, <1>6, <1>7 DEF ExplainedInv

\* Opening a transaction, a correction or a reservation's expiry touches
\* neither rows, locks, journal nor entries.
LEMMA FramedExplained ==
    ASSUME LockDiscipline, ExplainedInv, lost' = lost,
           UNCHANGED <<committed, current, lock, journal, entries>>,
           \A s \in Sessions : kind[s] \in Locking => kind'[s] \in Locking
    PROVE  LockDiscipline' /\ ExplainedInv'
  <1>1. LockDiscipline'
    BY DEF LockDiscipline
  <1> QED
    BY <1>1 DEF ExplainedInv

LEMMA NextExplained ==
    ASSUME TypeOK, LockDiscipline, ExplainedInv, [Next]_vars
    PROVE  LockDiscipline' /\ ExplainedInv'
  <1>1. ASSUME NEW s \in Sessions, NEW k \in Locking, NEW S, Open(s, k, S)
        PROVE  LockDiscipline' /\ ExplainedInv'
    <2>1. \A t \in Sessions : kind[t] \in Locking => kind'[t] \in Locking
      BY <1>1 DEF Open, TypeOK
    <2> QED
      BY <1>1, <2>1, FramedExplained DEF Open, rowVars
  <1>2. ASSUME NEW s \in Sessions, NEW p \in Products, NEW job \in AdminJobs,
               StartCorrection(s, p, job)
        PROVE  LockDiscipline' /\ ExplainedInv'
    <2>1. \A t \in Sessions : kind[t] \in Locking => kind'[t] \in Locking
      BY <1>2 DEF StartCorrection, TypeOK, Locking, SettleKinds
    <2> QED
      BY <1>2, <2>1, FramedExplained DEF StartCorrection, rowVars, historyVars
  <1>3. ASSUME NEW s \in Sessions, NEW l \in todo[s], ReserveLine(s, l)
        PROVE  LockDiscipline' /\ ExplainedInv'
    <2>1. l \in Lines /\ kind[s] \in Locking
      BY <1>3 DEF TypeOK, ReserveLine, Locking
    <2>2. HoldRow(current[LineProduct(l)], LineQty(l)) \in Row
      BY <2>1, LineFacts, RowFacts DEF TypeOK
    <2> QED
      BY <1>3, <2>1, <2>2, ProcessDiscipline, ProcessExplained DEF ReserveLine
  <1>4. ASSUME NEW s \in Sessions, NEW l \in todo[s], SettleLine(s, l)
        PROVE  LockDiscipline' /\ ExplainedInv'
    <2>1. l \in Lines /\ kind[s] \in Locking
      BY <1>4 DEF TypeOK, SettleLine, Locking
    <2>2. SettleRow(kind[s], current[LineProduct(l)], LineQty(l)) \in Row
      BY <2>1, LineFacts, RowFacts DEF TypeOK
    <2> QED
      BY <1>4, <2>1, <2>2, ProcessDiscipline, ProcessExplained DEF SettleLine
  <1>5. ASSUME NEW s \in Sessions, Rollback(s)
        PROVE  LockDiscipline' /\ ExplainedInv'
    BY <1>5, RollbackExplained
  <1>6. ASSUME NEW s \in Sessions, Commit(s)
        PROVE  LockDiscipline' /\ ExplainedInv'
    BY <1>6, CommitExplained
  <1>7. ASSUME NEW s \in Sessions, WriteCorrection(s)
        PROVE  LockDiscipline' /\ ExplainedInv'
    BY <1>7, CorrectionExplained
  <1>8. ASSUME NEW o \in Orders, Elapse(o)
        PROVE  LockDiscipline' /\ ExplainedInv'
    BY <1>8, FramedExplained DEF Elapse, rowVars, sessionVars, historyVars
  <1>9. CASE UNCHANGED vars
    BY <1>9, FramedExplained DEF vars, rowVars, sessionVars, historyVars
  <1>10. "reserve" \in Locking /\ "release" \in Locking /\ "confirm" \in Locking
         /\ "expire" \in Locking
    BY DEF Locking, SettleKinds
  <1> QED
    BY <1>1, <1>2, <1>3, <1>4, <1>5, <1>6, <1>7, <1>8, <1>9, <1>10
       DEF Next, Request, Advance, Quiescent, StartReserve, StartSettle, StartExpire,
           RejectReserve, DeadlockVictim, Abort

LEMMA ExplainedAlways == Spec => [](LockDiscipline /\ ExplainedInv)
  <1>1. Init => LockDiscipline /\ ExplainedInv
    <2> SUFFICES ASSUME Init
                 PROVE  LockDiscipline /\ ExplainedInv
      OBVIOUS
    <2>1. LockDiscipline
      BY SessionAssumption DEF Init, LockDiscipline, NoEntries, NoEntry
    <2>2. \A p \in Products : ExplainedBy(p, committed[p], journal[p])
      BY StockAssumption DEF Init, ExplainedBy, InitRow, NoEntries, NoEntry
    <2> QED
      BY <2>1, <2>2, SessionAssumption DEF Init, ExplainedInv
  <1>2. TypeOK /\ LockDiscipline /\ ExplainedInv /\ [Next]_vars
            => LockDiscipline' /\ ExplainedInv'
    BY NextExplained
  <1> QED
    BY <1>1, <1>2, TypeCorrect, PTL DEF Spec

\* At either isolation level, with stock corrections and with settlements that
\* overlap: in every state the quantities of a product are the initial ones plus
\* what the committed movements add up to, unless a save of this product's row
\* wrote something else than the row it had computed.  Locks, deadlocks and
\* rollbacks lose nothing by themselves.
THEOREM JournalExplainsRows == Spec => []RowsExplained
  <1>1. ExplainedInv => RowsExplained
    BY DEF ExplainedInv, ExplainedBy, RowsExplained
  <1> QED
    BY <1>1, ExplainedAlways, PTL

-----------------------------------------------------------------------------
(***************************************************************************)
(* The available quantity is never negative.                               *)
(***************************************************************************)
\* import and export quantities are positive (@Min(1) of their DTOs); an
\* adjustment may be any integer and is assumed not to be negative here.
NoNegativeAdjustment == \A job \in AdminJobs : job.kind # "export" => job.delta >= 0

\* Both versions of a row are non-negative, and so is what a stock correction
\* is going to write.
NonNegative ==
    /\ \A p \in Products : committed[p].available >= 0 /\ current[p].available >= 0
    /\ \A s \in Sessions : kind[s] = "correct" => seen[s].row.available + seen[s].delta >= 0

LEMMA ProcessNonNegative ==
    ASSUME TypeOK, NonNegative, NEW s \in Sessions, NEW l \in Lines, NEW e,
           e.available >= 0, Process(s, l, e)
    PROVE  NonNegative'
  <1> DEFINE P == LineProduct(l)
  <1>1. P \in Products
    BY LineFacts
  <1>2. current[P].available >= 0
    BY <1>1 DEF NonNegative
  <1>3. Saved(e, Shown(s, P), current[P]).available >= 0
    BY <1>2 DEF Saved
  <1>4. \A p \in Products :
            current'[p] = IF p = P THEN Saved(e, Shown(s, P), current[P]) ELSE current[p]
    BY <1>1 DEF Process, TypeOK
  <1> QED
    BY <1>3, <1>4 DEF Process, NonNegative

\* Closing forgets the job of a correction.
LEMMA CloseNonNegative ==
    ASSUME TypeOK, NonNegative, NEW s \in Sessions, Close(s),
           \A p \in Products : committed'[p].available >= 0 /\ current'[p].available >= 0
    PROVE  NonNegative'
  <1>1. \A t \in Sessions : kind'[t] = "correct" => kind[t] = "correct" /\ seen'[t] = seen[t]
    BY DEF Close, TypeOK
  <1> QED
    BY <1>1 DEF NonNegative

LEMMA NextNonNegative ==
    ASSUME NoNegativeAdjustment
    PROVE  TypeOK /\ NonNegative /\ [Next]_vars => NonNegative'
  <1> SUFFICES ASSUME TypeOK, NonNegative, [Next]_vars
               PROVE  NonNegative'
    OBVIOUS
  <1>1. ASSUME NEW s \in Sessions, NEW k \in {"reserve"} \union SettleKinds, NEW S,
               Open(s, k, S)
        PROVE  NonNegative'
    BY <1>1 DEF Open, TypeOK, NonNegative, rowVars, SettleKinds
  <1>2. ASSUME NEW s \in Sessions, NEW p \in Products, NEW job \in AdminJobs,
               StartCorrection(s, p, job)
        PROVE  NonNegative'
    <2>1. committed[p].available \in Int /\ job.delta \in Int
      BY AdminAssumption DEF TypeOK, Row
    <2>2. committed[p].available + job.delta >= 0
      BY <1>2, <2>1 DEF StartCorrection, CanExport, NoNegativeAdjustment, NonNegative
    <2>3. \A t \in Sessions : kind'[t] = "correct" =>
            IF t = s THEN seen'[t].row.available + seen'[t].delta >= 0
                     ELSE kind[t] = "correct" /\ seen'[t] = seen[t]
      BY <1>2, <2>2 DEF StartCorrection, TypeOK
    <2> QED
      BY <1>2, <2>3 DEF StartCorrection, NonNegative, rowVars
  <1>3. ASSUME NEW s \in Sessions, NEW l \in todo[s], ReserveLine(s, l)
        PROVE  NonNegative'
    <2>1. l \in Lines /\ LineProduct(l) \in Products /\ LineQty(l) \in Nat
      BY LineFacts DEF TypeOK
    <2>2. HoldRow(current[LineProduct(l)], LineQty(l)).available >= 0
      BY <1>3, <2>1 DEF ReserveLine, Enough, HoldRow, TypeOK, Row
    <2> QED
      BY <1>3, <2>1, <2>2, ProcessNonNegative DEF ReserveLine
  <1>4. ASSUME NEW s \in Sessions, NEW l \in todo[s], SettleLine(s, l)
        PROVE  NonNegative'
    <2>1. l \in Lines /\ LineProduct(l) \in Products /\ LineQty(l) \in Nat
      BY LineFacts DEF TypeOK
    <2>2. current[LineProduct(l)] \in Row /\ current[LineProduct(l)].available >= 0
      BY <2>1 DEF TypeOK, NonNegative
    <2>3. SettleRow(kind[s], current[LineProduct(l)], LineQty(l)).available >= 0
      BY <2>1, <2>2 DEF SettleRow, SellRow, PutBackRow, Row
    <2> QED
      BY <1>4, <2>1, <2>3, ProcessNonNegative DEF SettleLine
  <1>5. ASSUME NEW s \in Sessions, Rollback(s)
        PROVE  NonNegative'
    <2>1. \A p \in Products : committed'[p].available >= 0 /\ current'[p].available >= 0
      BY <1>5 DEF Rollback, NonNegative
    <2> QED
      BY <1>5, <2>1, CloseNonNegative DEF Rollback
  <1>6. ASSUME NEW s \in Sessions, Commit(s)
        PROVE  NonNegative'
    <2>1. \A p \in Products : committed'[p].available >= 0 /\ current'[p].available >= 0
      BY <1>6 DEF Commit, NonNegative
    <2> QED
      BY <1>6, <2>1, CloseNonNegative DEF Commit
  <1>7. ASSUME NEW s \in Sessions, WriteCorrection(s)
        PROVE  NonNegative'
    <2> DEFINE p == seen[s].product
    <2>1. p \in Products /\ seen[s].row.available + seen[s].delta >= 0
      BY <1>7, CorrectionFacts DEF WriteCorrection, NonNegative
    <2>2. \A r \in Row : r.available >= 0 => CorrectRow(r, seen[s]).available >= 0
      BY <1>7, <2>1, CorrectionFacts DEF Row, Job, CorrectRow, Saved, WriteCorrection
    <2>3. /\ current' = [current EXCEPT ![p] = CorrectRow(@, seen[s])]
          /\ committed' = [committed EXCEPT ![p] = CorrectRow(@, seen[s])]
          /\ Close(s)
      BY <1>7 DEF WriteCorrection
    <2>4. \A r \in Products : committed'[r].available >= 0 /\ current'[r].available >= 0
      BY <2>1, <2>2, <2>3 DEF TypeOK, NonNegative
    <2> QED
      BY <2>3, <2>4, CloseNonNegative
  <1>8. ASSUME NEW o \in Orders, Elapse(o)
        PROVE  NonNegative'
    BY <1>8 DEF Elapse, NonNegative, rowVars, sessionVars
  <1>9. CASE UNCHANGED vars
    BY <1>9 DEF NonNegative, vars, rowVars, sessionVars
  <1> QED
    BY <1>1, <1>2, <1>3, <1>4, <1>5, <1>6, <1>7, <1>8, <1>9
       DEF Next, Request, Advance, Quiescent, StartReserve, StartSettle, StartExpire,
           SettleKinds, RejectReserve, DeadlockVictim, Abort

\* Whatever reservations, settlements, imports and exports overlap: the check
\* that reserve makes under the row lock suffices, and the stale write of
\* importStock and exportStock cannot break it either.
LEMMA NeverNegative ==
    ASSUME NoNegativeAdjustment
    PROVE  Spec => []NonNegative
  <1>1. Init => NonNegative
    BY StockAssumption DEF Init, NonNegative, InitRow
  <1>2. TypeOK /\ NonNegative /\ [Next]_vars => NonNegative'
    BY NextNonNegative
  <1> QED
    BY <1>1, <1>2, TypeCorrect, PTL DEF Spec

-----------------------------------------------------------------------------
(***************************************************************************)
(* A line that no two settlements listed at once is settled once.  The list*)
(* a settlement read without a lock stays valid for such lines:            *)
(*   - the lines a settlement works through have a reservation, which is   *)
(*     still pending unless another settlement listed it too;              *)
(*   - a line on two such lists is in `raced`;                             *)
(*   - the lines a reserve works through have no reservation yet, belong to*)
(*     an order createFromCart has called it for, and two reserves work on *)
(*     different orders.                                                   *)
(***************************************************************************)
ListsInv ==
    /\ \A s \in Sessions : kind[s] \in {"idle", "correct"} => Work(s) = {}
    /\ \A s \in Sessions : kind[s] \in SettleKinds =>
            \A l \in Work(s) : resv[l] # "none" /\ (l \notin raced => resv[l] = "pending")
    /\ \A s \in Sessions : kind[s] = "reserve" =>
            \A l \in Work(s) : resv[l] = "none" /\ l[1] \in called
    /\ \A s, t \in Sessions : s # t /\ kind[s] = "reserve" /\ kind[t] = "reserve" =>
            \A l \in Work(s), m \in Work(t) : l[1] # m[1]
    /\ \A s, t \in Sessions : s # t /\ kind[s] \in SettleKinds /\ kind[t] \in SettleKinds =>
            Work(s) \intersect Work(t) \subseteq raced
    /\ \A l \in Lines : l[1] \notin called => resv[l] = "none"

\* Whether a line's status changes under a transaction that works on it.
Untouched(l) == resv'[l] = resv[l]

\* A transaction that ends leaves the others' lists valid if it changed the
\* status of no line they work on, but for the lines of two settlements.
LEMMA CloseLists ==
    ASSUME TypeOK, ListsInv, NEW s \in Sessions, Close(s),
           \A l \in Lines : Untouched(l) \/ (resv'[l] # "none" /\ l[1] \in called),
           \A t \in Sessions \ {s} : \A l \in Work(t) :
                kind[t] = "reserve" \/ l \notin raced => Untouched(l)
    PROVE  ListsInv'
  <1>1. /\ Work(s)' = {}
        /\ kind'[s] = "idle"
        /\ called' = called /\ raced' = raced
        /\ \A t \in Sessions \ {s} : Work(t)' = Work(t) /\ kind'[t] = kind[t]
    BY DEF Close, Work, TypeOK
  <1>2. \A t \in Sessions : kind'[t] \in {"idle", "correct"} => Work(t)' = {}
    BY <1>1 DEF ListsInv
  <1>3. ASSUME NEW t \in Sessions, kind'[t] \in SettleKinds, NEW l \in Work(t)'
        PROVE  resv'[l] # "none" /\ (l \notin raced' => resv'[l] = "pending")
    <2>1. t # s /\ kind[t] \in SettleKinds /\ l \in Work(t)
      BY <1>1, <1>3 DEF SettleKinds
    <2>2. l \in Lines /\ resv[l] # "none" /\ (l \notin raced => resv[l] = "pending")
      BY <2>1 DEF ListsInv, Work, TypeOK
    <2> QED
      BY <1>1, <2>1, <2>2 DEF Untouched
  <1>4. ASSUME NEW t \in Sessions, kind'[t] = "reserve", NEW l \in Work(t)'
        PROVE  resv'[l] = "none" /\ l[1] \in called'
    <2>1. t # s /\ kind[t] = "reserve" /\ l \in Work(t)
      BY <1>1, <1>4
    <2> QED
      BY <1>1, <2>1 DEF ListsInv, Untouched
  <1>5. \A t, u \in Sessions : t # u /\ kind'[t] = "reserve" /\ kind'[u] = "reserve" =>
            \A l \in Work(t)', m \in Work(u)' : l[1] # m[1]
    BY <1>1 DEF ListsInv
  <1>6. \A t, u \in Sessions : t # u /\ kind'[t] \in SettleKinds /\ kind'[u] \in SettleKinds =>
            Work(t)' \intersect Work(u)' \subseteq raced'
    BY <1>1 DEF ListsInv, SettleKinds
  <1>7. \A l \in Lines : l[1] \notin called' => resv'[l] = "none"
    BY <1>1 DEF ListsInv, Untouched
  <1> QED
    BY <1>2, <1>3, <1>4, <1>5, <1>6, <1>7 DEF ListsInv

\* A line of a committing transaction that no two settlements listed was not
\* settled before and is in no other list.
LEMMA CommitLists ==
    ASSUME TypeOK, ListsInv, NEW s \in Sessions, Commit(s)
    PROVE  /\ ListsInv'
           /\ \A l \in Lines \ raced : resv[l] \in Settled => resv'[l] = resv[l]
  <1>1. \A l \in Lines : resv'[l] = IF l \in done[s] THEN Written(kind[s]) ELSE resv[l]
    BY DEF Commit
  <1>2. kind[s] \in {"reserve"} \union SettleKinds /\ done[s] \subseteq Work(s)
    BY DEF Commit, Work
  <1>3. Written(kind[s]) # "none"
    BY <1>2 DEF Written, Outcome, SettleKinds
  <1>4. \A l \in Work(s) : l \in Lines /\ l[1] \in called
    BY <1>2 DEF ListsInv, Work, TypeOK
  <1>5. \A l \in Lines : Untouched(l) \/ (resv'[l] # "none" /\ l[1] \in called)
    BY <1>1, <1>2, <1>3, <1>4 DEF Untouched
  <1>6. ASSUME NEW t \in Sessions \ {s}, NEW l \in Work(t), kind[t] = "reserve" \/ l \notin raced
        PROVE  Untouched(l)
    <2>1. kind[t] \in {"reserve"} \union SettleKinds /\ l \in Lines
      BY <1>6 DEF ListsInv, TypeOK, Kinds, Work
    <2>2. l \notin Work(s)
      <3>1. CASE kind[s] = "reserve" /\ kind[t] = "reserve"
        BY <3>1, <1>6 DEF ListsInv
      <3>2. CASE kind[s] = "reserve" /\ kind[t] \in SettleKinds
        BY <3>2, <1>6 DEF ListsInv
      <3>3. CASE kind[s] \in SettleKinds /\ kind[t] = "reserve"
        BY <3>3, <1>6 DEF ListsInv
      <3>4. CASE kind[s] \in SettleKinds /\ kind[t] \in SettleKinds
        <4>1. Work(s) \intersect Work(t) \subseteq raced
          BY <3>4 DEF ListsInv
        <4>2. kind[t] # "reserve"
          BY <3>4 DEF SettleKinds
        <4> QED
          BY <1>6, <4>1, <4>2
      <3> QED
        BY <1>2, <2>1, <3>1, <3>2, <3>3, <3>4
    <2> QED
      BY <1>1, <1>2, <2>1, <2>2 DEF Untouched
  <1>7. ListsInv'
    BY <1>5, <1>6, CloseLists DEF Commit
  <1>8. \A l \in Work(s) \ raced : resv[l] \in {"none", "pending"}
    BY <1>2 DEF ListsInv
  <1>9. \A l \in Lines \ raced : resv[l] \in Settled => resv'[l] = resv[l]
    BY <1>1, <1>2, <1>8 DEF Settled, Statuses
  <1> QED
    BY <1>7, <1>9

\* What a transaction that opens reads is valid when it opens.
LEMMA OpenLists ==
    ASSUME TypeOK, ListsInv, NEW s \in Sessions, NEW S \in SUBSET Lines, NEW k,
           Open(s, k, S),
           \/ /\ k \in SettleKinds /\ called' = called
              /\ raced' = raced \union (S \intersect InSettlement)
              /\ \A l \in S : resv[l] = "pending"
           \/ /\ k = "reserve" /\ raced' = raced
              /\ \E o \in Orders : o \notin called /\ S = LinesOf(o) /\ called' = called \union {o}
    PROVE  ListsInv'
  <1>1. /\ Work(s)' = S
        /\ kind[s] = "idle" /\ kind'[s] = k
        /\ resv' = resv
        /\ \A t \in Sessions \ {s} : Work(t)' = Work(t) /\ kind'[t] = kind[t]
    BY DEF Open, Work, TypeOK, rowVars, ListsInv
  <1>2. called \subseteq called' /\ raced \subseteq raced'
    OBVIOUS
  <1>3. \A t \in Sessions : kind'[t] \in {"idle", "correct"} => Work(t)' = {}
    BY <1>1 DEF ListsInv, SettleKinds
  <1>4. \A t \in Sessions : kind'[t] \in SettleKinds =>
            \A l \in Work(t)' : resv'[l] # "none" /\ (l \notin raced' => resv'[l] = "pending")
    BY <1>1, <1>2 DEF ListsInv, SettleKinds
  <1>5. ASSUME NEW t \in Sessions, kind'[t] = "reserve", NEW l \in Work(t)'
        PROVE  resv'[l] = "none" /\ l[1] \in called'
    <2>1. CASE t = s
      BY <2>1, <1>1, <1>5 DEF ListsInv, LinesOf, SettleKinds
    <2>2. CASE t # s
      BY <2>2, <1>1, <1>2, <1>5 DEF ListsInv
    <2> QED
      BY <2>1, <2>2
  <1>6. ASSUME NEW t \in Sessions, NEW u \in Sessions, t # u, kind'[t] = "reserve",
               kind'[u] = "reserve", NEW l \in Work(t)', NEW m \in Work(u)'
        PROVE  l[1] # m[1]
    <2>1. CASE t = s
      <3>1. l[1] \notin called /\ m[1] \in called
        BY <2>1, <1>1, <1>6 DEF ListsInv, LinesOf, SettleKinds
      <3> QED
        BY <3>1
    <2>2. CASE u = s
      <3>1. m[1] \notin called /\ l[1] \in called
        BY <2>2, <1>1, <1>6 DEF ListsInv, LinesOf, SettleKinds
      <3> QED
        BY <3>1
    <2>3. CASE t # s /\ u # s
      BY <2>3, <1>1, <1>6 DEF ListsInv
    <2> QED
      BY <2>1, <2>2, <2>3
  <1>7. ASSUME NEW t \in Sessions, NEW u \in Sessions, t # u, kind'[t] \in SettleKinds,
               kind'[u] \in SettleKinds, NEW l, l \in Work(t)', l \in Work(u)'
        PROVE  l \in raced'
    <2>1. CASE t # s /\ u # s
      BY <1>1, <1>2, <1>7, <2>1 DEF ListsInv
    <2>2. CASE t = s
      <3>1. l \in S /\ l \in Work(u) /\ kind[u] \in SettleKinds /\ kind'[s] = k /\ k \in SettleKinds
        BY <1>1, <1>7, <2>2
      <3>2. l \in InSettlement
        BY <3>1 DEF InSettlement
      <3> QED
        BY <3>1, <3>2 DEF SettleKinds
    <2>3. CASE u = s
      <3>1. l \in S /\ l \in Work(t) /\ kind[t] \in SettleKinds /\ kind'[s] = k /\ k \in SettleKinds
        BY <1>1, <1>7, <2>3
      <3>2. l \in InSettlement
        BY <3>1 DEF InSettlement
      <3> QED
        BY <3>1, <3>2 DEF SettleKinds
    <2> QED
      BY <2>1, <2>2, <2>3
  <1>8. \A l \in Lines : l[1] \notin called' => resv'[l] = "none"
    BY <1>1, <1>2 DEF ListsInv
  <1>9. \A t, u \in Sessions : t # u /\ kind'[t] \in SettleKinds /\ kind'[u] \in SettleKinds =>
            Work(t)' \intersect Work(u)' \subseteq raced'
    BY <1>7
  <1> QED
    BY <1>3, <1>4, <1>5, <1>6, <1>8, <1>9 DEF ListsInv

LEMMA ProcessLists ==
    ASSUME TypeOK, ListsInv, NEW s \in Sessions, NEW l \in todo[s], NEW row, Process(s, l, row)
    PROVE  ListsInv'
  <1>1. \A t \in Sessions : Work(t)' = Work(t)
    BY DEF Process, Work, TypeOK
  <1>2. kind' = kind /\ resv' = resv /\ called' = called /\ raced' = raced
    BY DEF Process
  <1> QED
    BY <1>1, <1>2 DEF ListsInv

LEMMA NextLists ==
    ASSUME TypeOK, ListsInv, [Next]_vars
    PROVE  /\ ListsInv'
           /\ \A l \in Lines \ raced : resv[l] \in Settled => resv'[l] = resv[l]
  <1> DEFINE Final == \A l \in Lines \ raced : resv[l] \in Settled => resv'[l] = resv[l]
  <1>1. ASSUME NEW s \in Sessions, NEW o \in Orders, StartReserve(s, o)
        PROVE  ListsInv' /\ Final
    <2>1. LinesOf(o) \in SUBSET Lines
      BY DEF LinesOf
    <2> QED
      BY <1>1, <2>1, OpenLists DEF StartReserve, Open, rowVars
  <1>2. ASSUME NEW s \in Sessions, NEW o \in Orders, NEW k \in {"release", "confirm"},
               StartSettle(s, k, o)
        PROVE  ListsInv' /\ Final
    <2>1. PendingLines(o) \in SUBSET Lines /\ \A l \in PendingLines(o) : resv[l] = "pending"
      BY DEF PendingLines, LinesOf
    <2> QED
      BY <1>2, <2>1, OpenLists DEF StartSettle, Open, rowVars, SettleKinds
  <1>3. ASSUME NEW s \in Sessions, StartExpire(s)
        PROVE  ListsInv' /\ Final
    <2>1. ExpiredLines \in SUBSET Lines /\ \A l \in ExpiredLines : resv[l] = "pending"
      BY DEF ExpiredLines, PendingLines, LinesOf
    <2> QED
      BY <1>3, <2>1, OpenLists DEF StartExpire, Open, rowVars, SettleKinds
  <1>4. ASSUME NEW s \in Sessions, NEW p \in Products, NEW job \in AdminJobs,
               StartCorrection(s, p, job)
        PROVE  ListsInv' /\ Final
    <2>1. \A t \in Sessions : Work(t)' = Work(t)
      BY <1>4 DEF StartCorrection, Work
    <2>2. Work(s) = {}
      BY <1>4 DEF StartCorrection, ListsInv
    <2>3. \A t \in Sessions : kind'[t] = IF t = s THEN "correct" ELSE kind[t]
      BY <1>4 DEF StartCorrection, TypeOK
    <2>4. resv' = resv /\ called' = called /\ raced' = raced
      BY <1>4 DEF StartCorrection, rowVars, historyVars
    <2> QED
      BY <2>1, <2>2, <2>3, <2>4 DEF ListsInv, SettleKinds
  <1>5. ASSUME NEW s \in Sessions, NEW l \in todo[s], ReserveLine(s, l) \/ SettleLine(s, l)
        PROVE  ListsInv' /\ Final
    <2>1. resv' = resv
      BY <1>5 DEF ReserveLine, SettleLine, Process
    <2> QED
      BY <1>5, <2>1, ProcessLists DEF ReserveLine, SettleLine
  <1>6. ASSUME NEW s \in Sessions, Rollback(s) \/ WriteCorrection(s)
        PROVE  ListsInv' /\ Final
    <2>1. resv' = resv /\ Close(s)
      BY <1>6 DEF Rollback, WriteCorrection
    <2>2. \A l : Untouched(l)
      BY <2>1 DEF Untouched
    <2> QED
      BY <2>1, <2>2, CloseLists
  <1>7. ASSUME NEW s \in Sessions, Commit(s)
        PROVE  ListsInv' /\ Final
    BY <1>7, CommitLists
  <1>8. ASSUME NEW o \in Orders, Elapse(o)
        PROVE  ListsInv' /\ Final
    BY <1>8 DEF Elapse, ListsInv, Work, rowVars, sessionVars, historyVars
  <1>9. CASE UNCHANGED vars
    BY <1>9 DEF ListsInv, Work, vars, rowVars, sessionVars, historyVars
  <1> QED
    BY <1>1, <1>2, <1>3, <1>4, <1>5, <1>6, <1>7, <1>8, <1>9
       DEF Next, Request, Advance, Quiescent, RejectReserve, DeadlockVictim, Abort

LEMMA ListsAlways == Spec => []ListsInv
  <1>1. Init => ListsInv
    BY DEF Init, ListsInv, Work, SettleKinds
  <1>2. TypeOK /\ ListsInv /\ [Next]_vars => ListsInv'
    BY NextLists
  <1> QED
    BY <1>1, <1>2, TypeCorrect, PTL DEF Spec

\* However many sessions settle, and at either isolation level: a reservation
\* that was released, confirmed or expired keeps that status for ever, unless
\* two settlements had its line on their lists at the same time.  The run
\* SR_double_settlement shows that the exception is needed.
THEOREM SettledOnce == Spec => SettledIsFinal
  <1>1. TypeOK /\ ListsInv /\ [Next]_vars =>
            [\A l \in Lines \ raced : resv[l] \in Settled => resv'[l] = resv[l]]_resv
    BY NextLists
  <1> QED
    BY <1>1, ListsAlways, TypeCorrect, PTL DEF Spec, SettledIsFinal

-----------------------------------------------------------------------------
(***************************************************************************)
(* A reserve leaves all its lines or none.  It works through the lines of  *)
(* one order and commits when none is left to do; a settlement works only  *)
(* through lines that have a reservation.  Neither depends on what the     *)
(* other sessions do, so settlements may overlap here.                     *)
(***************************************************************************)
WholeOrders ==
    /\ ReserveAllOrNothing
    /\ \A s \in Sessions : kind[s] \in {"idle", "correct"} => Work(s) = {}
    /\ \A s \in Sessions : kind[s] = "reserve" => \E o \in Orders : Work(s) = LinesOf(o)
    /\ \A s \in Sessions : kind[s] \in SettleKinds => \A l \in Work(s) : resv[l] # "none"

\* Reservations never disappear, and those of one order appear together.
LEMMA CommitWhole ==
    ASSUME TypeOK, WholeOrders, NEW s \in Sessions, Commit(s)
    PROVE  /\ ReserveAllOrNothing'
           /\ \A l \in Lines : resv[l] # "none" => resv'[l] # "none"
  <1>1. Written(kind[s]) # "none"
    BY DEF Commit, Written, Outcome, SettleKinds
  <1>2. \A l \in Lines : resv'[l] = IF l \in done[s] THEN Written(kind[s]) ELSE resv[l]
    BY DEF Commit
  <1>3. Work(s) = done[s]
    BY DEF Commit, Work
  <1>4. SUFFICES ASSUME NEW o \in Orders, NEW l \in LinesOf(o), NEW m \in LinesOf(o)
                 PROVE  resv'[l] = "none" <=> resv'[m] = "none"
    BY <1>1, <1>2 DEF ReserveAllOrNothing
  <1>5. l \in Lines /\ m \in Lines /\ l[1] = o /\ m[1] = o
    BY DEF LinesOf
  <1>6. resv[l] = "none" <=> resv[m] = "none"
    BY DEF WholeOrders, ReserveAllOrNothing
  <1>7. CASE kind[s] = "reserve"
    <2>1. PICK c \in Orders : done[s] = LinesOf(c)
      BY <1>3, <1>7 DEF WholeOrders
    <2>2. l \in done[s] <=> m \in done[s]
      BY <1>5, <2>1 DEF LinesOf
    <2> QED
      BY <1>1, <1>2, <1>5, <1>6, <2>2
  <1>8. CASE kind[s] \in SettleKinds
    <2>1. \A k \in done[s] : resv[k] # "none"
      BY <1>3, <1>8 DEF WholeOrders
    <2> QED
      BY <1>1, <1>2, <1>5, <1>6, <2>1
  <1> QED
    BY <1>7, <1>8 DEF Commit

\* A transaction that ends has no list, and keeps the others' lists valid.
LEMMA CloseWhole ==
    ASSUME TypeOK, WholeOrders, NEW s \in Sessions, Close(s), ReserveAllOrNothing',
           \A l \in Lines : resv[l] # "none" => resv'[l] # "none"
    PROVE  WholeOrders'
  <1>1. /\ Work(s)' = {}
        /\ kind'[s] = "idle"
        /\ \A t \in Sessions \ {s} : Work(t)' = Work(t) /\ kind'[t] = kind[t]
    BY DEF Close, Work, TypeOK
  <1>2. \A t \in Sessions : \A l \in Work(t) : l \in Lines
    BY DEF Work, TypeOK
  <1>3. \A t \in Sessions : kind'[t] \in {"idle", "correct"} => Work(t)' = {}
    BY <1>1 DEF WholeOrders
  <1>4. \A t \in Sessions : kind'[t] = "reserve" => \E o \in Orders : Work(t)' = LinesOf(o)
    BY <1>1 DEF WholeOrders
  <1>5. \A t \in Sessions : kind'[t] \in SettleKinds => \A l \in Work(t)' : resv'[l] # "none"
    BY <1>1, <1>2 DEF WholeOrders, SettleKinds
  <1>6. \A o \in Orders : LinesOf(o)' = LinesOf(o)
    BY DEF LinesOf
  <1> QED
    BY <1>3, <1>4, <1>5, <1>6 DEF WholeOrders

LEMMA OpenWhole ==
    ASSUME TypeOK, WholeOrders, NEW s \in Sessions, NEW S \in SUBSET Lines, NEW k,
           Open(s, k, S),
           \/ k = "reserve" /\ \E o \in Orders : S = LinesOf(o)
           \/ k \in SettleKinds /\ \A l \in S : resv[l] = "pending"
    PROVE  WholeOrders'
  <1>1. /\ Work(s)' = S
        /\ kind'[s] = k
        /\ resv' = resv
        /\ \A t \in Sessions \ {s} : Work(t)' = Work(t) /\ kind'[t] = kind[t]
    BY DEF Open, Work, TypeOK, rowVars, WholeOrders
  <1>2. ReserveAllOrNothing'
    BY <1>1 DEF WholeOrders, ReserveAllOrNothing
  <1>3. \A t \in Sessions : kind'[t] \in {"idle", "correct"} => Work(t)' = {}
    BY <1>1 DEF WholeOrders, SettleKinds
  <1>4. \A t \in Sessions : kind'[t] = "reserve" => \E o \in Orders : Work(t)' = LinesOf(o)
    BY <1>1 DEF WholeOrders, SettleKinds
  <1>5. \A t \in Sessions : kind'[t] \in SettleKinds => \A l \in Work(t)' : resv'[l] # "none"
    BY <1>1 DEF WholeOrders, SettleKinds
  <1> QED
    BY <1>2, <1>3, <1>4, <1>5 DEF WholeOrders

LEMMA NextWhole == TypeOK /\ WholeOrders /\ [Next]_vars => WholeOrders'
  <1> SUFFICES ASSUME TypeOK, WholeOrders, [Next]_vars
               PROVE  WholeOrders'
    OBVIOUS
  <1>1. ASSUME NEW s \in Sessions, NEW o \in Orders, StartReserve(s, o)
        PROVE  WholeOrders'
    <2>1. LinesOf(o) \in SUBSET Lines
      BY DEF LinesOf
    <2> QED
      BY <1>1, <2>1, OpenWhole DEF StartReserve
  <1>2. ASSUME NEW s \in Sessions, NEW o \in Orders, NEW k \in {"release", "confirm"},
               StartSettle(s, k, o)
        PROVE  WholeOrders'
    <2>1. PendingLines(o) \in SUBSET Lines /\ \A l \in PendingLines(o) : resv[l] = "pending"
      BY DEF PendingLines, LinesOf
    <2> QED
      BY <1>2, <2>1, OpenWhole DEF StartSettle, SettleKinds
  <1>3. ASSUME NEW s \in Sessions, StartExpire(s)
        PROVE  WholeOrders'
    <2>1. ExpiredLines \in SUBSET Lines /\ \A l \in ExpiredLines : resv[l] = "pending"
      BY DEF ExpiredLines, PendingLines, LinesOf
    <2> QED
      BY <1>3, <2>1, OpenWhole DEF StartExpire, SettleKinds
  <1>4. ASSUME NEW s \in Sessions, NEW p \in Products, NEW job \in AdminJobs,
               StartCorrection(s, p, job)
        PROVE  WholeOrders'
    <2>1. \A t \in Sessions : Work(t)' = Work(t)
      BY <1>4 DEF StartCorrection, Work
    <2>2. /\ \A t \in Sessions : kind'[t] = IF t = s THEN "correct" ELSE kind[t]
          /\ kind[s] = "idle"
          /\ resv' = resv
      BY <1>4 DEF StartCorrection, TypeOK, rowVars
    <2> QED
      BY <2>1, <2>2 DEF WholeOrders, ReserveAllOrNothing, SettleKinds
  <1>5. ASSUME NEW s \in Sessions, NEW l \in todo[s], ReserveLine(s, l) \/ SettleLine(s, l)
        PROVE  WholeOrders'
    <2>1. PICK e : Process(s, l, e)
      BY <1>5 DEF ReserveLine, SettleLine
    <2>2. \A t \in Sessions : Work(t)' = Work(t)
      BY <2>1 DEF Process, Work, TypeOK
    <2>3. kind' = kind /\ resv' = resv
      BY <2>1 DEF Process
    <2> QED
      BY <2>2, <2>3 DEF WholeOrders, ReserveAllOrNothing
  <1>6. ASSUME NEW s \in Sessions, Rollback(s) \/ WriteCorrection(s)
        PROVE  WholeOrders'
    <2>1. resv' = resv /\ Close(s)
      BY <1>6 DEF Rollback, WriteCorrection
    <2>2. ReserveAllOrNothing'
      BY <2>1 DEF WholeOrders, ReserveAllOrNothing
    <2> QED
      BY <2>1, <2>2, CloseWhole
  <1>7. ASSUME NEW s \in Sessions, Commit(s)
        PROVE  WholeOrders'
    BY <1>7, CommitWhole, CloseWhole DEF Commit
  <1>8. ASSUME NEW o \in Orders, Elapse(o)
        PROVE  WholeOrders'
    BY <1>8 DEF Elapse, WholeOrders, ReserveAllOrNothing, Work, rowVars, sessionVars
  <1>9. CASE UNCHANGED vars
    BY <1>9 DEF WholeOrders, ReserveAllOrNothing, Work, vars, rowVars, sessionVars
  <1> QED
    BY <1>1, <1>2, <1>3, <1>4, <1>5, <1>6, <1>7, <1>8, <1>9
       DEF Next, Request, Advance, Quiescent, RejectReserve, DeadlockVictim, Abort

\* An order has reservations for all its lines or for none, at either isolation
\* level and however settlements overlap: the transaction around the loop of
\* reserve (stock-reservation.service.ts:40) makes a failed checkout leave
\* nothing behind.
THEOREM AllOrNothing == Spec => []ReserveAllOrNothing
  <1>1. Init => WholeOrders
    BY DEF Init, WholeOrders, ReserveAllOrNothing, LinesOf, Work, SettleKinds
  <1>2. WholeOrders => ReserveAllOrNothing
    BY DEF WholeOrders
  <1> QED
    BY <1>1, <1>2, NextWhole, TypeCorrect, PTL DEF Spec

-----------------------------------------------------------------------------
(***************************************************************************)
(* Units on the lines of a set, for finite sets of lines.                  *)
(***************************************************************************)
LEMMA UnitsFacts ==
    ASSUME NEW S \in SUBSET Lines, IsFiniteSet(S), NEW p
    PROVE  /\ Units(S, p) \in Nat
           /\ (\A l \in S : LineProduct(l) # p) => Units(S, p) = 0
  <1> DEFINE Of == {l \in S : LineProduct(l) = p}
             qty == [l \in Lines |-> LineQty(l)]
  <1>1. IsFiniteSet(Of)
    BY FS_Subset
  <1>2. \A l \in Of : qty[l] \in Nat
    BY LineFacts
  <1>3. Units(S, p) = SumFunctionOnSet(qty, Of)
    BY DEF Units
  <1>4. (\A l \in S : LineProduct(l) # p) => Of = {}
    OBVIOUS
  <1> HIDE DEF Of, qty
  <1> QED
    BY <1>1, <1>2, <1>3, <1>4, SumNat, SumEmpty

LEMMA UnitsUnion ==
    ASSUME NEW S \in SUBSET Lines, IsFiniteSet(S), NEW T \in SUBSET Lines, IsFiniteSet(T),
           S \cap T = {}, NEW p
    PROVE  Units(S \union T, p) = Units(S, p) + Units(T, p)
  <1> DEFINE Of(U) == {l \in U : LineProduct(l) = p}
             qty == [l \in Lines |-> LineQty(l)]
  <1>1. IsFiniteSet(Of(S)) /\ IsFiniteSet(Of(T))
    BY FS_Subset
  <1>2. Of(S) \cap Of(T) = {} /\ Of(S) \union Of(T) = Of(S \union T)
    OBVIOUS
  <1>3. \A l \in Of(S) \union Of(T) : qty[l] \in Int
    BY LineFacts
  <1>4. \A U : Units(U, p) = SumFunctionOnSet(qty, Of(U))
    BY DEF Units
  <1>5. SumFunctionOnSet(qty, Of(S) \union Of(T))
            = SumFunctionOnSet(qty, Of(S)) + SumFunctionOnSet(qty, Of(T))
    <2> HIDE DEF Of, qty
    <2> QED
      BY <1>1, <1>2, <1>3, SumDisjoint
  <1> QED
    BY <1>2, <1>4, <1>5

LEMMA UnitsAdd ==
    ASSUME NEW S \in SUBSET Lines, IsFiniteSet(S), NEW l \in Lines, l \notin S, NEW p
    PROVE  Units(S \union {l}, p) =
              Units(S, p) + (IF LineProduct(l) = p THEN LineQty(l) ELSE 0)
  <1> DEFINE qty == [m \in Lines |-> LineQty(m)]
  <1>1. {l} \in SUBSET Lines /\ IsFiniteSet({l}) /\ S \cap {l} = {}
    BY FS_Singleton
  <1>2. Units(S \union {l}, p) = Units(S, p) + Units({l}, p)
    BY <1>1, UnitsUnion
  <1>3. CASE LineProduct(l) = p
    <2>1. {m \in {l} : LineProduct(m) = p} = {l} /\ qty[l] = LineQty(l)
      BY <1>3
    <2>2. qty[l] \in Int
      BY LineFacts
    <2>3. Units({l}, p) = SumFunctionOnSet(qty, {l})
      BY <2>1 DEF Units
    <2> HIDE DEF qty
    <2> QED
      BY <1>2, <1>3, <2>1, <2>2, <2>3, SumOne
  <1>4. CASE LineProduct(l) # p
    <2>1. Units({l}, p) = 0
      BY <1>1, <1>4, UnitsFacts
    <2> QED
      BY <1>2, <1>4, <2>1
  <1> QED
    BY <1>3, <1>4

LEMMA UnitsLess ==
    ASSUME NEW S \in SUBSET Lines, IsFiniteSet(S), NEW T \in SUBSET S, NEW p
    PROVE  /\ Units(S, p) = Units(T, p) + Units(S \ T, p)
           /\ Units(T, p) \in Nat
           /\ Units(S \ T, p) \in Nat
  <1>1. /\ T \in SUBSET Lines /\ IsFiniteSet(T)
        /\ S \ T \in SUBSET Lines /\ IsFiniteSet(S \ T)
        /\ T \cap (S \ T) = {} /\ T \union (S \ T) = S
    BY FS_Subset
  <1>2. Units(T \union (S \ T), p) = Units(T, p) + Units(S \ T, p)
    BY <1>1, UnitsUnion
  <1> QED
    BY <1>1, <1>2, UnitsFacts

OfProduct(S, p) == {l \in S : LineProduct(l) = p}

\* Only the lines of the product count.
LEMMA UnitsOf ==
    ASSUME NEW S \in SUBSET Lines, IsFiniteSet(S), NEW D \in SUBSET Lines, IsFiniteSet(D),
           NEW T, NEW p, OfProduct(T, p) = OfProduct(S, p) \union OfProduct(D, p),
           OfProduct(S, p) \intersect OfProduct(D, p) = {}
    PROVE  Units(T, p) = Units(S, p) + Units(D, p)
  <1>1. \A U : Units(U, p) = Units(OfProduct(U, p), p)
    <2>1. \A U : OfProduct(OfProduct(U, p), p) = OfProduct(U, p)
      BY DEF OfProduct
    <2> QED
      BY <2>1 DEF Units, OfProduct
  <1> DEFINE A == OfProduct(S, p)
             B == OfProduct(D, p)
  <1>2. A \in SUBSET Lines /\ IsFiniteSet(A) /\ B \in SUBSET Lines /\ IsFiniteSet(B)
    BY FS_Subset DEF OfProduct
  <1>3. A \cap B = {} /\ OfProduct(T, p) = A \union B
    OBVIOUS
  <1>4. Units(T, p) = Units(A \union B, p) /\ Units(S, p) = Units(A, p) /\ Units(D, p) = Units(B, p)
    BY <1>1, <1>3
  <1> HIDE DEF A, B
  <1>5. Units(A \union B, p) = Units(A, p) + Units(B, p)
    BY <1>2, <1>3, UnitsUnion
  <1> QED
    BY <1>4, <1>5

LEMMA LinesOfFinite ==
    ASSUME NEW o \in Orders
    PROVE  /\ LinesOf(o) \in SUBSET Lines
           /\ IsFiniteSet(LinesOf(o))
           /\ <<o, 1>> \in LinesOf(o)
  <1>1. Cart[o] \in Seq([product : Products, qty : Nat \ {0}]) /\ Cart[o] # <<>>
    BY CartAssumption
  <1>2. Len(Cart[o]) \in Nat /\ Len(Cart[o]) # 0
    BY <1>1, LenProperties, EmptySeq
  <1>3. IsFiniteSet({o}) /\ IsFiniteSet(1 .. Len(Cart[o]))
    <2>1. \A n \in Nat : IsFiniteSet(1 .. n)
      BY FS_Interval
    <2> QED
      BY <1>2, <2>1, FS_Singleton
  <1>4. IsFiniteSet({o} \X (1 .. Len(Cart[o])))
    BY <1>3, FS_Product
  <1>5. LinesOf(o) \subseteq {o} \X (1 .. Len(Cart[o]))
    <2>1. ASSUME NEW l \in LinesOf(o)
          PROVE  l \in {o} \X (1 .. Len(Cart[o]))
      <3>1. PICK c \in Orders : l \in {c} \X (1 .. Len(Cart[c]))
        BY DEF LinesOf, Lines
      <3>2. l[1] = c /\ l[1] = o
        BY <3>1 DEF LinesOf
      <3> QED
        BY <3>1, <3>2
    <2> QED
      BY <2>1
  <1>6. <<o, 1>> \in {o} \X (1 .. Len(Cart[o]))
    BY <1>2
  <1>7. <<o, 1>> \in Lines
    BY <1>6 DEF Lines
  <1>8. LinesOf(o) \in SUBSET Lines /\ <<o, 1>> \in LinesOf(o)
    BY <1>7 DEF LinesOf
  <1> QED
    BY <1>4, <1>5, <1>8, FS_Subset

-----------------------------------------------------------------------------
(***************************************************************************)
(* What a transaction does to the rows it locks, until it commits:         *)
(*   - it holds the lock of every line it has processed;                   *)
(*   - the newest version of a row it has locked is the committed one after*)
(*     the units of the lines it has processed, unless an update was lost; *)
(*   - a reserve has left no negative quantity behind.                     *)
(* Finiteness is part of the invariant, because the units are sums.        *)
(***************************************************************************)
Known == {l \in Lines : resv[l] # "none"}

RowAfter(k, r, q) == IF k = "reserve" THEN HoldRow(r, q) ELSE SettleRow(k, r, q)

WorkInv ==
    /\ IsFiniteSet(Known)
    /\ \A s \in Sessions :
        /\ IsFiniteSet(Work(s))
        /\ todo[s] \cap done[s] = {}
        /\ \A l \in done[s] :
            /\ lock[LineProduct(l)] = s
            /\ kind[s] = "reserve" /\ LineProduct(l) \notin lost =>
                    current[LineProduct(l)].available >= 0
    /\ \A p \in Products \ lost, s \in Sessions :
        lock[p] = s => current[p] = RowAfter(kind[s], committed[p], Units(done[s], p))

\* Processing nothing changes nothing, and one line more adds its units.
LEMMA RowAfterNone ==
    ASSUME NEW k, NEW r \in Row
    PROVE  RowAfter(k, r, 0) = r
  <1>1. PICK a \in Int, b \in Int : r = [available |-> a, reserved |-> b]
    BY DEF Row
  <1>2. a - 0 = a /\ a + 0 = a /\ b - 0 = b /\ b + 0 = b
    OBVIOUS
  <1> QED
    BY <1>1, <1>2 DEF RowAfter, HoldRow, SettleRow, SellRow, PutBackRow

LEMMA RowAfterMore ==
    \A k : \A r \in Row : \A q \in Nat, n \in Nat :
        RowAfter(k, RowAfter(k, r, q), n) = RowAfter(k, r, q + n)
  <1> SUFFICES ASSUME NEW k, NEW r \in Row, NEW q \in Nat, NEW n \in Nat
               PROVE  RowAfter(k, RowAfter(k, r, q), n) = RowAfter(k, r, q + n)
    OBVIOUS
  <1>1. PICK a \in Int, b \in Int : r = [available |-> a, reserved |-> b]
    BY DEF Row
  <1> DEFINE rec(x, y) == [available |-> x, reserved |-> y]
  <1>2. \A x, y, u : SellRow(rec(x, y), u) = rec(x, y - u)
    BY DEF SellRow
  <1>3. \A x, y, u : /\ HoldRow(rec(x, y), u) = rec(x - u, y + u)
                     /\ PutBackRow(rec(x, y), u) = rec(x + u, y - u)
    BY DEF HoldRow, PutBackRow
  <1>4. /\ (a - q) - n = a - (q + n) /\ (a + q) + n = a + (q + n)
        /\ (b - q) - n = b - (q + n) /\ (b + q) + n = b + (q + n)
    OBVIOUS
  <1> HIDE DEF rec
  <1>5. r = rec(a, b)
    BY <1>1 DEF rec
  <1> QED
    BY <1>2, <1>3, <1>4, <1>5 DEF RowAfter, SettleRow

LEMMA WorkFinite ==
    ASSUME TypeOK, WorkInv, NEW s \in Sessions
    PROVE  /\ todo[s] \in SUBSET Lines /\ IsFiniteSet(todo[s])
           /\ done[s] \in SUBSET Lines /\ IsFiniteSet(done[s])
  <1>1. IsFiniteSet(Work(s)) /\ todo[s] \subseteq Work(s) /\ done[s] \subseteq Work(s)
    BY DEF WorkInv, Work
  <1> QED
    BY <1>1, FS_Subset DEF TypeOK

\* A row whose lock the session does not hold has none of its processed lines.
LEMMA NoneProcessed ==
    ASSUME TypeOK, WorkInv, NEW s \in Sessions, NEW p, lock[p] # s
    PROVE  Units(done[s], p) = 0
  <1>1. \A l \in done[s] : LineProduct(l) # p
    BY DEF WorkInv
  <1> QED
    BY <1>1, WorkFinite, UnitsFacts

\* The row of a line whose turn it is, before the step.
LEMMA OwnRowWork ==
    ASSUME TypeOK, LockDiscipline, WorkInv, NEW s \in Sessions, NEW p \in Products \ lost,
           CanLock(s, p)
    PROVE  current[p] = RowAfter(kind[s], committed[p], Units(done[s], p))
  <1>1. CASE lock[p] = s
    BY <1>1 DEF WorkInv
  <1>2. CASE lock[p] = NoSession
    <2>1. current[p] = committed[p] /\ committed[p] \in Row
      BY <1>2 DEF LockDiscipline, TypeOK
    <2>2. Units(done[s], p) = 0
      BY <1>2, SessionAssumption, NoneProcessed
    <2> QED
      BY <2>1, <2>2, RowAfterNone
  <1> QED
    BY <1>1, <1>2 DEF CanLock

LEMMA ProcessWork ==
    ASSUME TypeOK, LockDiscipline, WorkInv,
           NEW s \in Sessions, NEW l \in todo[s], CanLock(s, LineProduct(l)),
           NEW row \in Row, row = RowAfter(kind[s], current[LineProduct(l)], LineQty(l)),
           kind[s] = "reserve" => row.available >= 0,
           Process(s, l, row)
    PROVE  WorkInv'
  <1> DEFINE P == LineProduct(l)
  <1>1. l \in Lines /\ P \in Products /\ LineQty(l) \in Nat
    BY LineFacts DEF TypeOK
  <1>2. /\ lost \subseteq lost'
        /\ P \notin lost' => current'[P] = row
        /\ \A p \in Products : p # P => current'[p] = current[p]
    BY <1>1, ProcessRow
  <1>3. /\ kind' = kind /\ committed' = committed /\ resv' = resv
        /\ lock' = [lock EXCEPT ![P] = s]
        /\ todo' = [todo EXCEPT ![s] = @ \ {l}]
        /\ done' = [done EXCEPT ![s] = @ \union {l}]
    BY DEF Process
  <1>4. IsFiniteSet(Known')
    BY <1>3 DEF WorkInv, Known
  <1>5. ASSUME NEW t \in Sessions
        PROVE  /\ IsFiniteSet(Work(t)')
               /\ todo'[t] \cap done'[t] = {}
               /\ \A m \in done'[t] :
                    /\ lock'[LineProduct(m)] = t
                    /\ kind'[t] = "reserve" /\ LineProduct(m) \notin lost' =>
                            current'[LineProduct(m)].available >= 0
    <2>1. Work(t)' = Work(t)
      BY <1>3 DEF Work, TypeOK
    <2>2. todo'[t] \cap done'[t] = {}
      BY <1>3 DEF TypeOK, WorkInv
    <2>3. ASSUME NEW m \in done'[t]
          PROVE  /\ lock'[LineProduct(m)] = t
                 /\ kind'[t] = "reserve" /\ LineProduct(m) \notin lost' =>
                            current'[LineProduct(m)].available >= 0
      <3>1. CASE t = s
        <4>1. m = l \/ m \in done[s]
          BY <1>3, <2>3, <3>1 DEF TypeOK
        <4>2. m \in Lines
          BY <1>1, <4>1 DEF TypeOK
        <4>3. LineProduct(m) \in Products
          BY <4>2, LineFacts
        <4>4. CASE LineProduct(m) = P
          BY <1>2, <1>3, <3>1, <4>3, <4>4 DEF TypeOK
        <4>5. CASE LineProduct(m) # P
          <5>1. m \in done[s]
            BY <4>1, <4>5
          <5> QED
            BY <1>2, <1>3, <3>1, <4>3, <4>5, <5>1 DEF TypeOK, WorkInv
        <4> QED
          BY <4>4, <4>5
      <3>2. CASE t # s
        <4>1. m \in done[t] /\ lock[LineProduct(m)] = t
          BY <1>3, <2>3, <3>2 DEF TypeOK, WorkInv
        <4>2. LineProduct(m) # P /\ LineProduct(m) \in Products
          <5>1. m \in Lines
            BY <4>1 DEF TypeOK
          <5> QED
            BY <3>2, <4>1, <5>1, LineFacts, SessionAssumption DEF CanLock
        <4>3. lock'[LineProduct(m)] = t /\ current'[LineProduct(m)] = current[LineProduct(m)]
          BY <1>1, <1>2, <1>3, <4>1, <4>2 DEF TypeOK
        <4> QED
          BY <1>2, <1>3, <4>1, <4>3 DEF WorkInv
      <3> QED
        BY <3>1, <3>2
    <2> QED
      BY <2>1, <2>2, <2>3 DEF WorkInv
  <1>6. ASSUME NEW p \in Products \ lost', NEW t \in Sessions, lock'[p] = t
        PROVE  current'[p] = RowAfter(kind'[t], committed'[p], Units(done'[t], p))
    <2>1. CASE p = P
      <3>1. t = s
        BY <1>1, <1>3, <1>6, <2>1 DEF TypeOK
      <3>2. current[P] = RowAfter(kind[s], committed[P], Units(done[s], P))
        BY <1>1, <1>2, <2>1, OwnRowWork
      <3>3. l \notin done[s] /\ done'[s] = done[s] \union {l}
        BY <1>3 DEF WorkInv, TypeOK
      <3>4. /\ Units(done'[s], P) = Units(done[s], P) + LineQty(l)
            /\ Units(done[s], P) \in Nat
        BY <1>1, <3>3, WorkFinite, UnitsAdd, UnitsFacts
      <3>5. PICK r \in Row : r = committed[P]
        BY <1>1 DEF TypeOK
      <3>6. row = RowAfter(kind[s], committed[P], Units(done'[s], P))
        <4>1. \A q \in Nat, n \in Nat :
                  RowAfter(kind[s], RowAfter(kind[s], r, q), n) = RowAfter(kind[s], r, q + n)
          BY RowAfterMore
        <4> QED
          BY <1>1, <3>2, <3>4, <3>5, <4>1
      <3> QED
        BY <1>1, <1>2, <1>3, <2>1, <3>1, <3>6 DEF TypeOK
    <2>2. CASE p # P
      <3>1. lock[p] = t /\ current'[p] = current[p]
        BY <1>2, <1>3, <1>6, <2>2 DEF TypeOK
      <3>2. Units(done'[t], p) = Units(done[t], p)
        <4>1. CASE t = s
          <5>1. l \notin done[s] /\ done'[s] = done[s] \union {l}
            BY <1>3 DEF WorkInv, TypeOK
          <5>2. Units(done'[s], p) = Units(done[s], p) + 0 /\ Units(done[s], p) \in Nat
            <6>1. done[s] \in SUBSET Lines /\ IsFiniteSet(done[s])
              BY WorkFinite
            <6>2. Units(done[s] \union {l}, p)
                    = Units(done[s], p) + (IF LineProduct(l) = p THEN LineQty(l) ELSE 0)
              BY <1>1, <5>1, <6>1, UnitsAdd
            <6> QED
              BY <2>2, <5>1, <6>1, <6>2, UnitsFacts
          <5> QED
            BY <4>1, <5>2
        <4>2. CASE t # s
          BY <1>3, <4>2 DEF TypeOK
        <4> QED
          BY <4>1, <4>2
      <3> QED
        BY <1>2, <1>3, <3>1, <3>2 DEF WorkInv
    <2> QED
      BY <2>1, <2>2
  <1> QED
    BY <1>4, <1>5, <1>6 DEF WorkInv

\* What a commit does to the committed rows, locked or not.
LEMMA CommitRows ==
    ASSUME TypeOK, WorkInv, NEW s \in Sessions, Commit(s), NEW p \in Products \ lost
    PROVE  committed'[p] = RowAfter(kind[s], committed[p], Units(done[s], p))
  <1>1. CASE lock[p] = s
    BY <1>1 DEF Commit, Held, WorkInv
  <1>2. CASE lock[p] # s
    <2>1. committed'[p] = committed[p] /\ committed[p] \in Row
      BY <1>2 DEF Commit, Held, TypeOK
    <2>2. Units(done[s], p) = 0
      BY <1>2, NoneProcessed
    <2> QED
      BY <2>1, <2>2, RowAfterNone
  <1> QED
    BY <1>1, <1>2

\* A transaction that ends leaves what the others have done as it is.
LEMMA CloseWork ==
    ASSUME TypeOK, WorkInv, NEW s \in Sessions, Close(s), IsFiniteSet(Known'),
           lost \subseteq lost',
           \A p \in Products : lock[p] \in Sessions \ {s} =>
                current'[p] = current[p] /\ committed'[p] = committed[p]
    PROVE  WorkInv'
  <1>1. /\ Work(s)' = {} /\ done'[s] = {}
        /\ \A t \in Sessions \ {s} :
            Work(t)' = Work(t) /\ todo'[t] = todo[t] /\ done'[t] = done[t] /\ kind'[t] = kind[t]
    BY DEF Close, Work, TypeOK
  <1>2. \A p \in Products : lock'[p] = IF lock[p] = s THEN NoSession ELSE lock[p]
    BY DEF Close, Held
  <1>3. ASSUME NEW t \in Sessions
        PROVE  /\ IsFiniteSet(Work(t)')
               /\ todo'[t] \cap done'[t] = {}
               /\ \A l \in done'[t] :
                    /\ lock'[LineProduct(l)] = t
                    /\ kind'[t] = "reserve" /\ LineProduct(l) \notin lost' =>
                            current'[LineProduct(l)].available >= 0
    <2>1. CASE t = s
      BY <1>1, <2>1, FS_EmptySet
    <2>2. CASE t # s
      <3>1. \A l \in done[t] : LineProduct(l) \in Products /\ lock[LineProduct(l)] = t
        BY LineFacts DEF TypeOK, WorkInv
      <3>2. \A l \in done[t] :
                /\ lock'[LineProduct(l)] = t
                /\ current'[LineProduct(l)] = current[LineProduct(l)]
        BY <1>2, <2>2, <3>1
      <3> QED
        BY <1>1, <2>2, <3>2 DEF WorkInv
    <2> QED
      BY <2>1, <2>2
  <1>4. ASSUME NEW p \in Products \ lost', NEW t \in Sessions, lock'[p] = t
        PROVE  current'[p] = RowAfter(kind'[t], committed'[p], Units(done'[t], p))
    <2>1. lock[p] = t /\ t # s
      BY <1>2, <1>4, SessionAssumption
    <2> QED
      BY <1>1, <2>1 DEF WorkInv
  <1> QED
    BY <1>3, <1>4 DEF WorkInv

LEMMA OpenWork ==
    ASSUME TypeOK, ListsInv, WorkInv, NEW s \in Sessions, NEW S \in SUBSET Lines,
           IsFiniteSet(S), NEW k, Open(s, k, S)
    PROVE  WorkInv'
  <1>1. done[s] = {} /\ kind[s] = "idle"
    BY DEF Open, ListsInv, Work
  <1>2. /\ Work(s)' = S /\ todo'[s] = S /\ done' = done
        /\ \A t \in Sessions \ {s} : Work(t)' = Work(t) /\ todo'[t] = todo[t] /\ kind'[t] = kind[t]
        /\ committed' = committed /\ current' = current /\ lock' = lock /\ resv' = resv
        /\ lost' = lost
    BY <1>1 DEF Open, Work, TypeOK, rowVars
  <1>3. IsFiniteSet(Known')
    BY <1>2 DEF Known, WorkInv
  <1>4. ASSUME NEW t \in Sessions
        PROVE  /\ IsFiniteSet(Work(t)')
               /\ todo'[t] \cap done'[t] = {}
               /\ \A l \in done'[t] :
                    /\ lock'[LineProduct(l)] = t
                    /\ kind'[t] = "reserve" /\ LineProduct(l) \notin lost' =>
                            current'[LineProduct(l)].available >= 0
    BY <1>1, <1>2 DEF WorkInv
  <1>5. ASSUME NEW p \in Products \ lost', NEW t \in Sessions, lock'[p] = t
        PROVE  current'[p] = RowAfter(kind'[t], committed'[p], Units(done'[t], p))
    <2>1. CASE t = s
      <3>1. Units(done[s], p) = 0
        BY <1>1, WorkFinite, UnitsFacts
      <3>2. committed[p] \in Row /\ current[p] = RowAfter(kind[s], committed[p], 0)
        BY <1>2, <1>5, <2>1, <3>1 DEF WorkInv, TypeOK
      <3>3. current[p] = RowAfter(kind'[s], committed[p], 0)
        BY <3>2, RowAfterNone
      <3> QED
        BY <1>2, <2>1, <3>1, <3>3
    <2>2. CASE t # s
      BY <1>2, <1>5, <2>2 DEF WorkInv
    <2> QED
      BY <2>1, <2>2
  <1> QED
    BY <1>3, <1>4, <1>5 DEF WorkInv

\* The lists that are read are finite.
LEMMA ReadFinite ==
    ASSUME TypeOK, WorkInv
    PROVE  /\ \A o \in Orders : PendingLines(o) \in SUBSET Lines /\ IsFiniteSet(PendingLines(o))
           /\ ExpiredLines \in SUBSET Lines /\ IsFiniteSet(ExpiredLines)
           /\ Pending \in SUBSET Lines /\ IsFiniteSet(Pending)
           /\ Promised \in SUBSET Lines /\ IsFiniteSet(Promised)
  <1>1. Known \in SUBSET Lines /\ IsFiniteSet(Known)
    BY DEF Known, WorkInv
  <1>2. /\ Pending \subseteq Known /\ Promised \subseteq Known
        /\ ExpiredLines \subseteq Known
        /\ \A o \in Orders : PendingLines(o) \subseteq Known
    BY DEF Pending, Promised, ExpiredLines, PendingLines, LinesOf, Known
  <1>3. \A S : S \subseteq Known => S \in SUBSET Lines /\ IsFiniteSet(S)
    BY <1>1, FS_Subset
  <1> QED
    BY <1>2, <1>3

LEMMA CommitWork ==
    ASSUME TypeOK, ListsInv, WorkInv, NEW s \in Sessions, Commit(s)
    PROVE  WorkInv'
  <1>1. done[s] \in SUBSET Lines /\ IsFiniteSet(done[s])
    BY WorkFinite
  <1>2. Known' \subseteq Known \union done[s]
    BY DEF Commit, Known
  <1>3. IsFiniteSet(Known \union done[s])
    BY <1>1, FS_Union DEF WorkInv
  <1>4. IsFiniteSet(Known')
    BY <1>2, <1>3, FS_Subset
  <1>5. \A p \in Products : lock[p] \in Sessions \ {s} =>
            current'[p] = current[p] /\ committed'[p] = committed[p]
    BY DEF Commit, Held
  <1> QED
    BY <1>4, <1>5, CloseWork DEF Commit

LEMMA NextWork ==
    ASSUME TypeOK, LockDiscipline, ListsInv, WorkInv, [Next]_vars
    PROVE  WorkInv'
  <1>1. ASSUME NEW s \in Sessions, NEW o \in Orders, StartReserve(s, o)
        PROVE  WorkInv'
    BY <1>1, LinesOfFinite, OpenWork DEF StartReserve
  <1>2. ASSUME NEW s \in Sessions, NEW o \in Orders, NEW k \in {"release", "confirm"},
               StartSettle(s, k, o)
        PROVE  WorkInv'
    BY <1>2, ReadFinite, OpenWork DEF StartSettle
  <1>3. ASSUME NEW s \in Sessions, StartExpire(s)
        PROVE  WorkInv'
    BY <1>3, ReadFinite, OpenWork DEF StartExpire
  <1>4. ASSUME NEW s \in Sessions, NEW p \in Products, NEW job \in AdminJobs,
               StartCorrection(s, p, job)
        PROVE  WorkInv'
    <2>1. kind[s] = "idle" /\ UNCHANGED <<rowVars, todo, done, historyVars>>
      BY <1>4 DEF StartCorrection
    <2>2. \A p1 \in Products : lock[p1] # s
      BY <2>1 DEF LockDiscipline, Locking, SettleKinds
    <2>3. \A t \in Sessions : t # s => kind'[t] = kind[t]
      BY <1>4 DEF StartCorrection, TypeOK
    <2>4. kind'[s] # "reserve"
      BY <1>4 DEF StartCorrection, TypeOK
    <2>5. \A t \in Sessions : Work(t)' = Work(t)
      BY <2>1 DEF Work
    <2> QED
      BY <2>1, <2>2, <2>3, <2>4, <2>5 DEF WorkInv, Known, rowVars, historyVars
  <1>5. ASSUME NEW s \in Sessions, NEW l \in todo[s], ReserveLine(s, l) \/ SettleLine(s, l)
        PROVE  WorkInv'
    <2> DEFINE row == RowAfter(kind[s], current[LineProduct(l)], LineQty(l))
    <2>1. l \in Lines /\ LineProduct(l) \in Products /\ LineQty(l) \in Nat
      BY LineFacts DEF TypeOK
    <2>2. row \in Row /\ current[LineProduct(l)] \in Row
      BY <2>1, RowFacts DEF RowAfter, TypeOK
    <2>3. CanLock(s, LineProduct(l)) /\ Process(s, l, row)
      BY <1>5 DEF ReserveLine, SettleLine, RowAfter, SettleKinds
    <2>4. kind[s] = "reserve" => row.available >= 0
      <3>1. SUFFICES ASSUME kind[s] = "reserve" PROVE row.available >= 0
        OBVIOUS
      <3>2. Enough(l)
        BY <1>5, <3>1 DEF ReserveLine, SettleLine, SettleKinds
      <3>3. row = HoldRow(current[LineProduct(l)], LineQty(l))
        BY <3>1 DEF RowAfter
      <3> QED
        BY <2>1, <2>2, <3>2, <3>3 DEF Enough, HoldRow, Row
    <2> HIDE DEF row
    <2> QED
      BY <2>2, <2>3, <2>4, ProcessWork DEF row
  <1>6. ASSUME NEW s \in Sessions, Rollback(s)
        PROVE  WorkInv'
    <2>1. IsFiniteSet(Known') /\ committed' = committed /\ lost' = lost
      BY <1>6 DEF Rollback, Known, WorkInv
    <2>2. \A p \in Products : lock[p] \in Sessions \ {s} => current'[p] = current[p]
      BY <1>6 DEF Rollback, Held
    <2> QED
      BY <1>6, <2>1, <2>2, CloseWork DEF Rollback
  <1>7. ASSUME NEW s \in Sessions, Commit(s)
        PROVE  WorkInv'
    BY <1>7, CommitWork
  <1>8. ASSUME NEW s \in Sessions, WriteCorrection(s)
        PROVE  WorkInv'
    <2>1. IsFiniteSet(Known') /\ Close(s)
      BY <1>8 DEF WriteCorrection, Known, WorkInv
    <2>2. PICK p \in Products :
            /\ lock[p] = NoSession
            /\ \A r \in Products : r # p => committed'[r] = committed[r] /\ current'[r] = current[r]
            /\ lost \subseteq lost'
      BY <1>8, CorrectedRow
    <2>3. \A r \in Products : lock[r] \in Sessions \ {s} =>
            current'[r] = current[r] /\ committed'[r] = committed[r]
      BY <2>2, SessionAssumption
    <2> QED
      BY <2>1, <2>2, <2>3, CloseWork
  <1>9. ASSUME UNCHANGED <<rowVars, sessionVars, historyVars>>
        PROVE  WorkInv'
    BY <1>9 DEF WorkInv, Known, Work, rowVars, sessionVars, historyVars
  <1> QED
    BY <1>1, <1>2, <1>3, <1>4, <1>5, <1>6, <1>7, <1>8, <1>9
       DEF Next, Request, Advance, Quiescent, Elapse, RejectReserve, DeadlockVictim, Abort, vars

LEMMA WorkAlways == Spec => [](LockDiscipline /\ ListsInv /\ WorkInv)
  <1>1. Init => WorkInv
    <2> SUFFICES ASSUME Init
                 PROVE  WorkInv
      OBVIOUS
    <2>1. Known = {}
      BY DEF Init, Known
    <2>2. \A s \in Sessions : Work(s) = {} /\ todo[s] = {} /\ done[s] = {}
      BY DEF Init, Work
    <2>3. \A p \in Products, s \in Sessions : lock[p] # s
      BY SessionAssumption DEF Init
    <2> QED
      BY <2>1, <2>2, <2>3, FS_EmptySet DEF WorkInv
  <1>2. Spec => [](LockDiscipline /\ ExplainedInv)
    BY ExplainedAlways
  <1>3. TypeOK /\ LockDiscipline /\ ListsInv /\ WorkInv /\ [Next]_vars => WorkInv'
    BY NextWork
  <1> QED
    BY <1>1, <1>2, <1>3, ListsAlways, TypeCorrect, PTL DEF Spec

-----------------------------------------------------------------------------
(***************************************************************************)
(* The quantities of a product and its reservations tell the same story,   *)
(* unless an update of it was lost or a line of it was on two lists.  What *)
(* a commit does to the rows of a product it does to its reservations,     *)
(* whatever happens to other products of the same transaction.             *)
(***************************************************************************)
BooksOf(p) ==
    /\ committed[p].reserved = Units(Pending, p)
    /\ committed[p].available = InitStock[p] + journal[p].corrected - Units(Promised, p)

BooksInv == \A p \in Exact : BooksOf(p)

\* The lines of such a product in a committing transaction had no reservation,
\* or one that was pending.
LEMMA CommitLines ==
    ASSUME TypeOK, ListsInv, NEW s \in Sessions, Commit(s), NEW p \in Exact
    PROVE  /\ kind[s] = "reserve" =>
                /\ \A S \in {Pending, Promised} :
                    OfProduct(S, p) \intersect OfProduct(done[s], p) = {}
                /\ OfProduct(Pending', p) = OfProduct(Pending, p) \union OfProduct(done[s], p)
                /\ OfProduct(Promised', p) = OfProduct(Promised, p) \union OfProduct(done[s], p)
           /\ kind[s] \in SettleKinds =>
                /\ OfProduct(Pending', p) \intersect OfProduct(done[s], p) = {}
                /\ OfProduct(Pending, p) = OfProduct(Pending', p) \union OfProduct(done[s], p)
           /\ kind[s] = "confirm" => OfProduct(Promised', p) = OfProduct(Promised, p)
           /\ kind[s] \in {"release", "expire"} =>
                /\ OfProduct(Promised', p) \intersect OfProduct(done[s], p) = {}
                /\ OfProduct(Promised, p) = OfProduct(Promised', p) \union OfProduct(done[s], p)
  <1> DEFINE D == OfProduct(done[s], p)
  <1>1. \A l \in Lines : resv'[l] = IF l \in done[s] THEN Written(kind[s]) ELSE resv[l]
    BY DEF Commit
  <1>2. /\ \A l \in D : l \in Lines /\ l \in done[s] /\ LineProduct(l) = p
        /\ \A l \in done[s] : LineProduct(l) = p => l \in D
    BY DEF OfProduct, TypeOK
  <1>3. \A l \in D : l \in Work(s) /\ l \notin raced
    BY <1>2 DEF Work, Exact
  <1>4. kind[s] = "reserve" => \A l \in D : resv[l] = "none"
    BY <1>3 DEF ListsInv
  <1>5. kind[s] \in SettleKinds => \A l \in D : resv[l] = "pending"
    BY <1>3 DEF ListsInv
  <1>6. /\ kind[s] = "reserve" => Written(kind[s]) = "pending"
        /\ kind[s] = "confirm" => Written(kind[s]) = "confirmed"
        /\ kind[s] \in {"release", "expire"} => Written(kind[s]) \in {"released", "expired"}
    BY DEF Written, Outcome
  <1>7. \A l : /\ l \in OfProduct(Pending, p) <=>
                        l \in Lines /\ resv[l] = "pending" /\ LineProduct(l) = p
               /\ l \in OfProduct(Pending', p) <=>
                        l \in Lines /\ resv'[l] = "pending" /\ LineProduct(l) = p
               /\ l \in OfProduct(Promised, p) <=>
                        l \in Lines /\ resv[l] \in {"pending", "confirmed"} /\ LineProduct(l) = p
               /\ l \in OfProduct(Promised', p) <=>
                        l \in Lines /\ resv'[l] \in {"pending", "confirmed"} /\ LineProduct(l) = p
    BY DEF OfProduct, Pending, Promised
  <1> HIDE DEF D
  <1>8. ASSUME kind[s] = "reserve"
        PROVE  /\ \A S \in {Pending, Promised} : OfProduct(S, p) \intersect D = {}
               /\ OfProduct(Pending', p) = OfProduct(Pending, p) \union D
               /\ OfProduct(Promised', p) = OfProduct(Promised, p) \union D
    BY <1>1, <1>2, <1>4, <1>6, <1>7, <1>8
  <1>9. ASSUME kind[s] \in SettleKinds
        PROVE  /\ OfProduct(Pending', p) \intersect D = {}
               /\ OfProduct(Pending, p) = OfProduct(Pending', p) \union D
    <2>1. Written(kind[s]) # "pending"
      BY <1>6, <1>9 DEF SettleKinds
    <2> QED
      BY <1>1, <1>2, <1>5, <1>7, <1>9, <2>1
  <1>10. ASSUME kind[s] = "confirm"
         PROVE  OfProduct(Promised', p) = OfProduct(Promised, p)
    <2>1. Written(kind[s]) = "confirmed" /\ \A l \in D : resv[l] = "pending"
      BY <1>5, <1>6, <1>10 DEF SettleKinds
    <2> QED
      BY <1>1, <1>2, <1>7, <2>1
  <1>11. ASSUME kind[s] \in {"release", "expire"}
         PROVE  /\ OfProduct(Promised', p) \intersect D = {}
                /\ OfProduct(Promised, p) = OfProduct(Promised', p) \union D
    <2>1. Written(kind[s]) \in {"released", "expired"} /\ \A l \in D : resv[l] = "pending"
      BY <1>5, <1>6, <1>11 DEF SettleKinds
    <2> QED
      BY <1>1, <1>2, <1>7, <2>1
  <1> QED
    BY <1>8, <1>9, <1>10, <1>11 DEF D

LEMMA CommitBooks ==
    ASSUME TypeOK, LockDiscipline, ListsInv, WorkInv, WorkInv', TypeOK', BooksInv,
           NEW s \in Sessions, Commit(s), NEW p \in Exact
    PROVE  BooksOf(p)'
  <1>1. p \in Products \ lost /\ BooksOf(p)
    BY DEF Exact, BooksInv
  <1>2. committed'[p] = RowAfter(kind[s], committed[p], Units(done[s], p))
    BY <1>1, CommitRows
  <1>3. journal'[p].corrected = journal[p].corrected
    <2>1. journal'[p] = AddEntry(journal[p], entries[s][p]) /\ entries[s][p].corrected = 0
      BY <1>1 DEF Commit, LockDiscipline
    <2>2. journal[p] \in Journal
      BY <1>1 DEF TypeOK
    <2> QED
      BY <2>1, <2>2 DEF AddEntry, Journal
  <1>4. /\ Pending \in SUBSET Lines /\ IsFiniteSet(Pending)
        /\ Promised \in SUBSET Lines /\ IsFiniteSet(Promised)
        /\ done[s] \in SUBSET Lines /\ IsFiniteSet(done[s])
    BY ReadFinite, WorkFinite
  <1>5. /\ Pending' \in SUBSET Lines /\ IsFiniteSet(Pending')
        /\ Promised' \in SUBSET Lines /\ IsFiniteSet(Promised')
    <2>1. IsFiniteSet(Known') /\ Pending' \subseteq Known' /\ Promised' \subseteq Known'
      BY DEF WorkInv, Pending, Promised, Known
    <2>2. Pending' \in SUBSET Lines /\ Promised' \in SUBSET Lines
      BY DEF Pending, Promised
    <2> QED
      BY <2>1, <2>2, FS_Subset
  <1>6. /\ Units(Pending, p) \in Nat /\ Units(Pending', p) \in Nat
        /\ Units(Promised, p) \in Nat /\ Units(Promised', p) \in Nat
        /\ Units(done[s], p) \in Nat
    BY <1>4, <1>5, UnitsFacts
  <1>7. committed[p] \in Row /\ InitStock[p] \in Nat /\ journal[p].corrected \in Int
    BY <1>1, StockAssumption DEF TypeOK, Journal
  <1>8. CASE kind[s] = "reserve"
    <2>1. committed'[p] = HoldRow(committed[p], Units(done[s], p))
      BY <1>2, <1>8 DEF RowAfter
    <2>2. Units(Pending', p) = Units(Pending, p) + Units(done[s], p)
      BY <1>4, <1>8, CommitLines, UnitsOf
    <2>3. Units(Promised', p) = Units(Promised, p) + Units(done[s], p)
      BY <1>4, <1>8, CommitLines, UnitsOf
    <2> QED
      BY <1>1, <1>3, <1>6, <1>7, <2>1, <2>2, <2>3 DEF BooksOf, HoldRow, Row
  <1>9. CASE kind[s] = "confirm"
    <2>1. committed'[p] = SellRow(committed[p], Units(done[s], p))
      BY <1>2, <1>9 DEF RowAfter, SettleRow
    <2>2. Units(Pending, p) = Units(Pending', p) + Units(done[s], p)
      BY <1>4, <1>5, <1>9, CommitLines, UnitsOf DEF SettleKinds
    <2>3. Units(Promised', p) = Units(Promised, p)
      BY <1>9, CommitLines DEF Units, OfProduct
    <2> QED
      BY <1>1, <1>3, <1>6, <1>7, <2>1, <2>2, <2>3 DEF BooksOf, SellRow, Row
  <1>10. CASE kind[s] \in {"release", "expire"}
    <2>1. committed'[p] = PutBackRow(committed[p], Units(done[s], p))
      BY <1>2, <1>10 DEF RowAfter, SettleRow
    <2>2. Units(Pending, p) = Units(Pending', p) + Units(done[s], p)
      BY <1>4, <1>5, <1>10, CommitLines, UnitsOf DEF SettleKinds
    <2>3. Units(Promised, p) = Units(Promised', p) + Units(done[s], p)
      BY <1>4, <1>5, <1>10, CommitLines, UnitsOf
    <2> QED
      BY <1>1, <1>3, <1>6, <1>7, <2>1, <2>2, <2>3 DEF BooksOf, PutBackRow, Row
  <1> QED
    BY <1>8, <1>9, <1>10 DEF Commit, SettleKinds

\* A correction changes the available quantity and its journal alike.
LEMMA CorrectionBooks ==
    ASSUME TypeOK, LockDiscipline, WorkInv, BooksInv, NEW s \in Sessions, WriteCorrection(s),
           NEW r \in Exact'
    PROVE  BooksOf(r)'
  <1> DEFINE p == seen[s].product
  <1>1. /\ p \in Products /\ seen[s].delta \in Int
        /\ p \notin lost' =>
                committed'[p] = [committed[p] EXCEPT !.available = @ + seen[s].delta]
        /\ journal'[p] = [journal[p] EXCEPT !.corrected = @ + seen[s].delta]
        /\ \A q \in Products : q # p => committed'[q] = committed[q] /\ journal'[q] = journal[q]
        /\ lost \subseteq lost'
    BY CorrectedRow
  <1>2. resv' = resv /\ raced' = raced
    BY DEF WriteCorrection, Close
  <1>3. Pending' = Pending /\ Promised' = Promised
    BY <1>2 DEF Pending, Promised
  <1>4. r \in Exact /\ r \in Products \ lost'
    BY <1>1, <1>2 DEF Exact
  <1>5. BooksOf(r)
    BY <1>4 DEF BooksInv
  <1>6. committed[r] \in Row /\ journal[r] \in Journal /\ InitStock[r] \in Nat
    BY <1>4, StockAssumption DEF TypeOK
  <1> HIDE DEF p
  <1>7. CASE r = p
    <2>1. /\ committed'[p].available = committed[p].available + seen[s].delta
          /\ committed'[p].reserved = committed[p].reserved
          /\ journal'[p].corrected = journal[p].corrected + seen[s].delta
      BY <1>1, <1>4, <1>6, <1>7 DEF Row, Journal
    <2>2. PICK u \in Nat : u = Units(Promised, r)
      BY ReadFinite, UnitsFacts
    <2>3. committed[p].available = InitStock[p] + journal[p].corrected - u
      BY <1>5, <1>7, <2>2 DEF BooksOf
    <2>4. committed[p].available \in Int /\ journal[p].corrected \in Int /\ InitStock[p] \in Nat
      BY <1>6, <1>7 DEF Row, Journal
    <2>5. committed'[p].available = InitStock[p] + journal'[p].corrected - u
      BY <1>1, <2>1, <2>3, <2>4
    <2> QED
      BY <1>3, <1>5, <1>7, <2>1, <2>2, <2>5 DEF BooksOf
  <1>8. CASE r # p
    BY <1>1, <1>3, <1>4, <1>5, <1>8 DEF BooksOf
  <1> QED
    BY <1>7, <1>8

LEMMA NextBooks ==
    ASSUME TypeOK, TypeOK', LockDiscipline, ListsInv, WorkInv, WorkInv', BooksInv, [Next]_vars
    PROVE  BooksInv'
  <1>0. Exact' \subseteq Exact
    BY HistoryGrows DEF Exact
  <1>1. ASSUME UNCHANGED <<committed, journal, resv>>
        PROVE  BooksInv'
    <2>1. Pending' = Pending /\ Promised' = Promised
      BY <1>1 DEF Pending, Promised
    <2> QED
      BY <1>0, <1>1, <2>1 DEF BooksInv, BooksOf
  <1>2. ASSUME NEW s \in Sessions, Request(s) \/ StartExpire(s)
        PROVE  UNCHANGED <<committed, journal, resv>>
    BY <1>2 DEF Request, StartReserve, StartSettle, StartExpire, StartCorrection, Open, rowVars
  <1>3. ASSUME NEW s \in Sessions, NEW l \in todo[s], ReserveLine(s, l) \/ SettleLine(s, l)
        PROVE  UNCHANGED <<committed, journal, resv>>
    BY <1>3 DEF ReserveLine, SettleLine, Process
  <1>4. ASSUME NEW s \in Sessions, Rollback(s)
        PROVE  UNCHANGED <<committed, journal, resv>>
    BY <1>4 DEF Rollback
  <1>5. ASSUME NEW s \in Sessions, Commit(s)
        PROVE  BooksInv'
    BY <1>0, <1>5, CommitBooks DEF BooksInv
  <1>6. ASSUME NEW s \in Sessions, WriteCorrection(s)
        PROVE  BooksInv'
    BY <1>6, CorrectionBooks DEF BooksInv
  <1>7. ASSUME UNCHANGED rowVars
        PROVE  UNCHANGED <<committed, journal, resv>>
    BY <1>7 DEF rowVars
  <1> QED
    BY <1>1, <1>2, <1>3, <1>4, <1>5, <1>6, <1>7
       DEF Next, Advance, Quiescent, Elapse, RejectReserve, DeadlockVictim, Abort, vars

LEMMA BooksAlways == Spec => []BooksInv
  <1>1. Init => BooksInv
    <2> SUFFICES ASSUME Init
                 PROVE  BooksInv
      OBVIOUS
    <2>1. Pending = {} /\ Promised = {}
      BY DEF Init, Pending, Promised
    <2>2. \A p : Units({}, p) = 0
      BY UnitsFacts, FS_EmptySet
    <2>3. \A p \in Products : /\ InitStock[p] \in Nat /\ journal[p].corrected = 0
                              /\ committed[p].reserved = 0 /\ committed[p].available = InitStock[p]
      BY StockAssumption DEF Init, InitRow, NoEntries, NoEntry
    <2> QED
      BY <2>1, <2>2, <2>3 DEF BooksInv, BooksOf, Exact
  <1>2. TypeOK /\ TypeOK' /\ LockDiscipline /\ ListsInv /\ WorkInv /\ WorkInv' /\ BooksInv
            /\ [Next]_vars => BooksInv'
    BY NextBooks
  <1> QED
    BY <1>1, <1>2, WorkAlways, TypeCorrect, PTL DEF Spec

\* The reserved column of a product is what its pending reservations ask for,
\* after every reserve, release, confirm, releaseExpired and correction, at
\* either isolation level, whatever transactions overlap and are rolled back,
\* unless an update of this product was lost or two settlements listed one of
\* its lines at once.
THEOREM ReservedMatches == Spec => []ReservedIsPending
  <1>1. BooksInv => ReservedIsPending
    BY DEF BooksInv, BooksOf, ReservedIsPending, PendingQty
  <1> QED
    BY <1>1, BooksAlways, PTL

\* The units of a product that are promised or sold are units the shop had or
\* was given, under the same condition: no interleaving of checkouts oversells
\* by itself.
THEOREM NeverOversold ==
    ASSUME NoNegativeAdjustment
    PROVE  Spec => []NothingOversold
  <1>1. TypeOK /\ WorkInv /\ BooksInv /\ NonNegative => NothingOversold
    <2> SUFFICES ASSUME TypeOK, WorkInv, BooksInv, NonNegative, NEW p \in Exact
                 PROVE  Units(Promised, p) <= InitStock[p] + journal[p].corrected
      BY DEF NothingOversold
    <2>1. p \in Products
      BY DEF Exact
    <2>2. committed[p].available >= 0 /\ committed[p].available \in Int
      BY <2>1 DEF NonNegative, TypeOK, Row
    <2>3. Units(Promised, p) \in Nat
      BY ReadFinite, UnitsFacts
    <2>4. InitStock[p] \in Nat /\ journal[p].corrected \in Int
      BY <2>1, StockAssumption DEF TypeOK, Journal
    <2>5. committed[p].available = InitStock[p] + journal[p].corrected - Units(Promised, p)
      BY DEF BooksInv, BooksOf
    <2> QED
      BY <2>2, <2>3, <2>4, <2>5
  <1> QED
    BY <1>1, BooksAlways, WorkAlways, NeverNegative, TypeCorrect, PTL

-----------------------------------------------------------------------------
(***************************************************************************)
(* StockReservation implements StockLedger.  Only a commit changes what the*)
(* ledger shows: that of a reserve is Hold of its order, that of a         *)
(* settlement is Settle of the orders it worked through, because           *)
(*   - the reservations of an order have one status;                       *)
(*   - a settlement works through whole orders.                            *)
(***************************************************************************)
OneStatus ==
    /\ \A o \in Orders : \A l, m \in LinesOf(o) : resv[l] = resv[m]
    /\ \A s \in Sessions : kind[s] \in SettleKinds =>
        \A o \in Orders : \A l, m \in LinesOf(o) : l \in Work(s) => m \in Work(s)

\* The lines a committing transaction has processed are whole orders.
LEMMA CommitsWholeOrders ==
    ASSUME TypeOK, WholeOrders, OneStatus, NEW s \in Sessions, Commit(s)
    PROVE  /\ done[s] = Work(s)
           /\ \A o \in Orders : \A l, m \in LinesOf(o) : l \in done[s] => m \in done[s]
  <1>1. done[s] = Work(s)
    BY DEF Commit, Work
  <1>2. ASSUME NEW o \in Orders, NEW l \in LinesOf(o), NEW m \in LinesOf(o), l \in Work(s)
        PROVE  m \in Work(s)
    <2>1. CASE kind[s] = "reserve"
      <3>1. PICK c \in Orders : Work(s) = LinesOf(c)
        BY <2>1 DEF WholeOrders
      <3> QED
        BY <1>2, <3>1 DEF LinesOf
    <2>2. CASE kind[s] \in SettleKinds
      BY <1>2, <2>2 DEF OneStatus
    <2> QED
      BY <2>1, <2>2 DEF Commit
  <1> QED
    BY <1>1, <1>2

\* A step that changes neither the statuses nor the list of a settlement.
LEMMA FramedOneStatus ==
    ASSUME OneStatus, resv' = resv,
           \A s \in Sessions : kind'[s] \in SettleKinds =>
                kind[s] \in SettleKinds /\ Work(s)' = Work(s)
    PROVE  OneStatus'
  <1>1. \A o \in Orders : LinesOf(o)' = LinesOf(o)
    BY DEF LinesOf
  <1> QED
    BY <1>1 DEF OneStatus

LEMMA OpenOneStatus ==
    ASSUME TypeOK, OneStatus, ListsInv, NEW s \in Sessions, NEW S \in SUBSET Lines, NEW k,
           Open(s, k, S),
           k \in SettleKinds =>
                \A o \in Orders : \A l, m \in LinesOf(o) : l \in S => m \in S
    PROVE  OneStatus'
  <1>1. /\ Work(s)' = S
        /\ kind'[s] = k
        /\ resv' = resv
        /\ \A t \in Sessions \ {s} : Work(t)' = Work(t) /\ kind'[t] = kind[t]
    BY DEF Open, Work, TypeOK, rowVars, ListsInv
  <1>2. \A o \in Orders : LinesOf(o)' = LinesOf(o)
    BY DEF LinesOf
  <1> QED
    BY <1>1, <1>2 DEF OneStatus

LEMMA NextOneStatus ==
    ASSUME TypeOK, ListsInv, WholeOrders, OneStatus, [Next]_vars
    PROVE  OneStatus'
  <1>1. ASSUME NEW s \in Sessions, NEW o \in Orders, StartReserve(s, o)
        PROVE  OneStatus'
    BY <1>1, LinesOfFinite, OpenOneStatus DEF StartReserve, SettleKinds
  <1>2. ASSUME NEW s \in Sessions, NEW o \in Orders, NEW k \in {"release", "confirm"},
               StartSettle(s, k, o)
        PROVE  OneStatus'
    <2>1. PendingLines(o) \in SUBSET Lines
      BY DEF PendingLines, LinesOf
    <2>2. \A c \in Orders : \A l, m \in LinesOf(c) :
            l \in PendingLines(o) => m \in PendingLines(o)
      BY DEF OneStatus, PendingLines, LinesOf
    <2> QED
      BY <1>2, <2>1, <2>2, OpenOneStatus DEF StartSettle
  <1>3. ASSUME NEW s \in Sessions, StartExpire(s)
        PROVE  OneStatus'
    <2>1. ExpiredLines \in SUBSET Lines
      BY DEF ExpiredLines, PendingLines, LinesOf
    <2>2. \A c \in Orders : \A l, m \in LinesOf(c) : l \in ExpiredLines => m \in ExpiredLines
      BY DEF OneStatus, ExpiredLines, PendingLines, LinesOf
    <2> QED
      BY <1>3, <2>1, <2>2, OpenOneStatus DEF StartExpire
  <1>4. ASSUME NEW s \in Sessions, NEW p \in Products, NEW job \in AdminJobs,
               StartCorrection(s, p, job)
        PROVE  OneStatus'
    <2>1. \A t \in Sessions : Work(t)' = Work(t)
      BY <1>4 DEF StartCorrection, Work
    <2>2. \A t \in Sessions : kind'[t] = IF t = s THEN "correct" ELSE kind[t]
      BY <1>4 DEF StartCorrection, TypeOK
    <2>3. resv' = resv
      BY <1>4 DEF StartCorrection, rowVars
    <2> QED
      BY <2>1, <2>2, <2>3, FramedOneStatus DEF SettleKinds
  <1>5. ASSUME NEW s \in Sessions, NEW l \in todo[s], ReserveLine(s, l) \/ SettleLine(s, l)
        PROVE  OneStatus'
    <2>1. PICK e : Process(s, l, e)
      BY <1>5 DEF ReserveLine, SettleLine
    <2>2. \A t \in Sessions : Work(t)' = Work(t)
      BY <2>1 DEF Process, Work, TypeOK
    <2>3. kind' = kind /\ resv' = resv
      BY <2>1 DEF Process
    <2> QED
      BY <2>2, <2>3, FramedOneStatus
  <1>6. ASSUME NEW s \in Sessions, Close(s)
        PROVE  \A t \in Sessions : kind'[t] \in SettleKinds =>
                    kind[t] \in SettleKinds /\ Work(t)' = Work(t)
    BY <1>6 DEF Close, Work, TypeOK, SettleKinds
  <1>7. ASSUME NEW s \in Sessions, Rollback(s) \/ WriteCorrection(s)
        PROVE  OneStatus'
    <2>1. resv' = resv /\ Close(s)
      BY <1>7 DEF Rollback, WriteCorrection
    <2> QED
      BY <1>6, <2>1, FramedOneStatus
  <1>8. ASSUME NEW s \in Sessions, Commit(s)
        PROVE  OneStatus'
    <2>1. \A o \in Orders : \A l, m \in LinesOf(o) : l \in done[s] => m \in done[s]
      BY <1>8, CommitsWholeOrders
    <2>2. \A l \in Lines : resv'[l] = IF l \in done[s] THEN Written(kind[s]) ELSE resv[l]
      BY <1>8 DEF Commit
    <2>3. \A o \in Orders : LinesOf(o)' = LinesOf(o) /\ LinesOf(o) \subseteq Lines
      BY DEF LinesOf
    <2>4. \A o \in Orders : \A l, m \in LinesOf(o) : resv'[l] = resv'[m]
      BY <2>1, <2>2, <2>3 DEF OneStatus
    <2>5. \A t \in Sessions : kind'[t] \in SettleKinds =>
                    kind[t] \in SettleKinds /\ Work(t)' = Work(t)
      BY <1>6, <1>8 DEF Commit
    <2> QED
      BY <2>3, <2>4, <2>5 DEF OneStatus
  <1>9. ASSUME UNCHANGED <<rowVars, sessionVars>>
        PROVE  OneStatus'
    BY <1>9, FramedOneStatus DEF Work, rowVars, sessionVars
  <1> QED
    BY <1>1, <1>2, <1>3, <1>4, <1>5, <1>7, <1>8, <1>9
       DEF Next, Request, Advance, Quiescent, Elapse, RejectReserve, DeadlockVictim, Abort, vars

(***************************************************************************)
(* The ledger adds up the demands of orders, the transactions the lines.   *)
(***************************************************************************)
LinesOfAll(S) == UNION {LinesOf(o) : o \in S}

LEMMA LedgerSum == \A f, S : Ledger!SumFunctionOnSet(f, S) = SumFunctionOnSet(f, S)
  BY DEF SumFunctionOnSet, FoldFunctionOnSet, MapThenFoldSet,
         Ledger!SumFunctionOnSet, Ledger!FoldFunctionOnSet, Ledger!MapThenFoldSet

LEMMA DemandIsUnits ==
    ASSUME NEW S \in SUBSET Orders, IsFiniteSet(S), IsFiniteSet(LinesOfAll(S)),
           NEW p \in Products
    PROVE  Ledger!DemandOf(S, p) = Units(LinesOfAll(S), p)
  <1> DEFINE demand == [o \in Orders |-> OrderDemand[o][p]]
             B == {T \in SUBSET S : SumFunctionOnSet(demand, T) # Units(LinesOfAll(T), p)}
  <1>1. Ledger!DemandOf(S, p) = SumFunctionOnSet(demand, S)
    BY LedgerSum DEF Ledger!DemandOf
  <1>2. \A o \in Orders : demand[o] = Units(LinesOf(o), p)
    BY DEF OrderDemand
  <1>3. \A o \in Orders : demand[o] \in Int
    <2>1. ASSUME NEW o \in Orders
          PROVE  Units(LinesOf(o), p) \in Nat
      BY LinesOfFinite, UnitsFacts
    <2> QED
      BY <1>2, <2>1
  <1> HIDE DEF demand
  <1>4. SUFFICES ASSUME B # {} PROVE FALSE
    <2>1. S \notin B => SumFunctionOnSet(demand, S) = Units(LinesOfAll(S), p)
      OBVIOUS
    <2> QED
      BY <1>1, <2>1
  <1>5. PICK T \in B : \A U \in B : U \subseteq T => U = T
    <2>1. B \subseteq SUBSET S
      OBVIOUS
    <2> HIDE DEF B
    <2> QED
      BY <1>4, <2>1, SmallestSet
  <1>6. T \in SUBSET Orders /\ T \subseteq S /\ IsFiniteSet(T)
    BY <1>5, FS_Subset
  <1>7. T # {}
    <2>1. SUFFICES ASSUME T = {} PROVE FALSE
      OBVIOUS
    <2>2. LinesOfAll(T) = {}
      BY <2>1 DEF LinesOfAll
    <2>3. SumFunctionOnSet(demand, T) = 0 /\ Units(LinesOfAll(T), p) = 0
      BY <2>1, <2>2, SumEmpty, UnitsFacts, FS_EmptySet
    <2> QED
      BY <1>5, <2>3
  <1>8. PICK o \in T : TRUE
    BY <1>7
  <1> DEFINE U == T \ {o}
  <1>9. SumFunctionOnSet(demand, U) = Units(LinesOfAll(U), p)
    BY <1>5, <1>8
  <1>10. SumFunctionOnSet(demand, T) = demand[o] + SumFunctionOnSet(demand, U)
    BY <1>3, <1>6, <1>8, SumTake
  <1>11. /\ LinesOfAll(T) = LinesOf(o) \union LinesOfAll(U)
         /\ LinesOf(o) \cap LinesOfAll(U) = {}
    BY <1>8 DEF LinesOfAll, LinesOf
  <1>12. /\ LinesOf(o) \in SUBSET Lines /\ IsFiniteSet(LinesOf(o))
         /\ LinesOfAll(U) \in SUBSET Lines /\ IsFiniteSet(LinesOfAll(U))
    <2>1. LinesOfAll(U) \subseteq LinesOfAll(S) /\ LinesOfAll(U) \subseteq Lines
      BY <1>6 DEF LinesOfAll, LinesOf
    <2>2. o \in Orders
      BY <1>6, <1>8
    <2> QED
      BY <2>1, <2>2, LinesOfFinite, FS_Subset
  <1>13. Units(LinesOfAll(T), p) = Units(LinesOf(o), p) + Units(LinesOfAll(U), p)
    <2> HIDE DEF U
    <2>1. Units(LinesOf(o) \union LinesOfAll(U), p)
            = Units(LinesOf(o), p) + Units(LinesOfAll(U), p)
      BY <1>11, <1>12, UnitsUnion
    <2> QED
      BY <1>11, <2>1
  <1>14. demand[o] = Units(LinesOf(o), p)
    BY <1>2, <1>6, <1>8
  <1>15. SumFunctionOnSet(demand, T) # Units(LinesOfAll(T), p)
    BY <1>5
  <1> HIDE DEF B, U
  <1> QED
    BY <1>9, <1>10, <1>13, <1>14, <1>15

\* The orders a transaction has processed.
LEMMA ProcessedOrders ==
    ASSUME TypeOK, WorkInv, WholeOrders, OneStatus, NEW s \in Sessions, Commit(s),
           NEW S, S = {o \in Orders : <<o, 1>> \in done[s]}
    PROVE  /\ IsFiniteSet(S)
           /\ LinesOfAll(S) = done[s]
  <1>1. done[s] \in SUBSET Lines /\ IsFiniteSet(done[s])
    BY WorkFinite
  <1>2. \A l \in Lines : l[1] \in Orders /\ l \in LinesOf(l[1])
    BY LineFacts DEF LinesOf
  <1>3. \A o \in Orders : <<o, 1>> \in LinesOf(o)
    BY LinesOfFinite
  <1>4. \A o \in Orders : \A l, m \in LinesOf(o) : l \in done[s] => m \in done[s]
    BY CommitsWholeOrders
  <1>5. \A l \in done[s] : l[1] \in S
    BY <1>1, <1>2, <1>3, <1>4
  <1>6. LinesOfAll(S) = done[s]
    <2>1. \A l \in done[s] : l \in LinesOfAll(S)
      BY <1>1, <1>2, <1>5 DEF LinesOfAll
    <2>2. \A l \in LinesOfAll(S) : l \in done[s]
      BY <1>3, <1>4 DEF LinesOfAll
    <2> QED
      BY <2>1, <2>2
  <1>7. IsFiniteSet(S)
    <2> DEFINE order == [l \in done[s] |-> l[1]]
    <2>1. \A o \in S : <<o, 1>> \in done[s] /\ order[<<o, 1>>] = o
      OBVIOUS
    <2>2. order \in [done[s] -> S]
      BY <1>5
    <2> HIDE DEF order
    <2>3. order \in Surjection(done[s], S)
      BY <2>1, <2>2 DEF Surjection
    <2> QED
      BY <1>1, <2>3, FS_Surjection
  <1> QED
    BY <1>6, <1>7

\* The commit of a reserve is Hold of its order: it found enough of every
\* product it asks for, and no save of it was lost.
LEMMA CommitHolds ==
    ASSUME TypeOK, ListsInv, WholeOrders, OneStatus, WorkInv, lost = {},
           NEW s \in Sessions, Commit(s), kind[s] = "reserve"
    PROVE  \E o \in Orders : Ledger!Hold(o)
  <1>1. PICK o \in Orders : done[s] = LinesOf(o)
    BY CommitsWholeOrders DEF WholeOrders
  <1>2. \A p \in Products : OrderDemand[o][p] = Units(done[s], p) /\ Units(done[s], p) \in Nat
    BY <1>1, WorkFinite, UnitsFacts DEF OrderDemand
  <1>3. ASSUME NEW p \in Products
        PROVE  /\ committed[p].available \in Int /\ committed[p].reserved \in Int
               /\ committed'[p].available = committed[p].available - OrderDemand[o][p]
               /\ committed'[p].reserved = committed[p].reserved + OrderDemand[o][p]
    <2>1. committed'[p] = HoldRow(committed[p], OrderDemand[o][p])
      BY <1>2, CommitRows DEF RowAfter
    <2>2. committed[p] \in Row
      BY DEF TypeOK
    <2> QED
      BY <2>1, <2>2 DEF HoldRow, Row
  <1>4. ASSUME NEW p \in Products, OrderDemand[o][p] > 0
        PROVE  OrderDemand[o][p] <= committed[p].available
    <2>1. PICK l \in done[s] : LineProduct(l) = p
      <3>1. (\A l \in done[s] : LineProduct(l) # p) => Units(done[s], p) = 0
        BY WorkFinite, UnitsFacts
      <3> QED
        BY <1>2, <1>4, <3>1
    <2>2. lock[p] = s /\ current[p].available >= 0
      BY <2>1 DEF WorkInv
    <2>3. committed'[p] = current[p]
      BY <2>2 DEF Commit, Held
    <2>4. committed'[p].available >= 0
      BY <2>2, <2>3
    <2> QED
      BY <1>2, <1>3, <2>4
  <1>5. \A c \in Orders : <<c, 1>> \in Lines /\ (<<c, 1>> \in done[s] <=> c = o)
    BY <1>1, LinesOfFinite DEF LinesOf
  <1>6. \A c \in Orders : resv'[<<c, 1>>] = IF c = o THEN "pending" ELSE resv[<<c, 1>>]
    BY <1>5 DEF Commit, Written
  <1>7. resv[<<o, 1>>] = "none"
    BY <1>5, CommitsWholeOrders DEF ListsInv
  <1>8. Ledger!Hold(o)
    BY <1>3, <1>4, <1>6, <1>7 DEF Ledger!Hold
  <1> QED
    BY <1>8

\* The commit of a settlement is Settle of the orders it worked through.
LEMMA CommitSettles ==
    ASSUME TypeOK, ListsInv, WholeOrders, OneStatus, WorkInv, lost = {}, raced = {},
           NEW s \in Sessions, Commit(s), kind[s] \in SettleKinds
    PROVE  \E S \in SUBSET Orders, outcome \in Ledger!Outcomes : Ledger!Settle(S, outcome)
  <1>1. PICK S \in SUBSET Orders : S = {o \in Orders : <<o, 1>> \in done[s]}
    OBVIOUS
  <1>0. IsFiniteSet(S) /\ LinesOfAll(S) = done[s]
    BY <1>1, ProcessedOrders
  <1>2. PICK outcome \in Ledger!Outcomes :
            /\ outcome = Outcome(kind[s])
            /\ outcome = "confirmed" <=> kind[s] = "confirm"
    BY DEF Outcome, SettleKinds, Ledger!Outcomes
  <1>3. done[s] \in SUBSET Lines /\ IsFiniteSet(done[s]) /\ done[s] = Work(s)
    BY WorkFinite, CommitsWholeOrders
  <1>4. \A p \in Products :
            Ledger!DemandOf(S, p) = Units(done[s], p) /\ Units(done[s], p) \in Nat
    <2> QED
      BY <1>0, <1>3, DemandIsUnits, UnitsFacts
  <1>5. \A o \in S : resv[<<o, 1>>] = "pending"
    BY <1>1, <1>3 DEF ListsInv
  <1>6. \A o \in Orders : resv'[<<o, 1>>] = IF o \in S THEN outcome ELSE resv[<<o, 1>>]
    <2>1. \A o \in Orders : <<o, 1>> \in Lines
      BY LinesOfFinite
    <2>2. Written(kind[s]) = outcome
      BY <1>2 DEF Written, SettleKinds
    <2> QED
      BY <1>1, <2>1, <2>2 DEF Commit
  <1>7. ASSUME NEW p \in Products
        PROVE  /\ committed'[p].reserved = committed[p].reserved - Ledger!DemandOf(S, p)
               /\ committed'[p].available =
                    IF outcome = "confirmed" THEN committed[p].available
                    ELSE committed[p].available + Ledger!DemandOf(S, p)
    <2>1. committed'[p] = SettleRow(kind[s], committed[p], Units(done[s], p))
      BY CommitRows DEF RowAfter, SettleKinds
    <2>2. committed[p] \in Row
      BY DEF TypeOK
    <2> QED
      BY <1>2, <1>4, <2>1, <2>2 DEF SettleRow, SellRow, PutBackRow, Row
  <1>8. Ledger!Settle(S, outcome)
    BY <1>1, <1>5, <1>6, <1>7 DEF Ledger!Settle
  <1> QED
    BY <1>8

\* A correction writes a quantity that a request of the staff asked for.
JobsInv == \A s \in Sessions : kind[s] = "correct" =>
                seen[s].delta \in {job.delta : job \in AdminJobs}

LEMMA NextJobs == TypeOK /\ JobsInv /\ [Next]_vars => JobsInv'
  <1> SUFFICES ASSUME TypeOK, JobsInv, [Next]_vars
               PROVE  JobsInv'
    OBVIOUS
  <1>1. ASSUME NEW s \in Sessions, NEW p \in Products, NEW job \in AdminJobs,
               StartCorrection(s, p, job)
        PROVE  JobsInv'
    <2>1. /\ kind' = [kind EXCEPT ![s] = "correct"]
          /\ seen' = [seen EXCEPT ![s] = [product |-> p, delta |-> job.delta, row |-> committed[p]]]
      BY <1>1 DEF StartCorrection
    <2>2. seen'[s].delta = job.delta
      BY <2>1 DEF TypeOK
    <2>3. \A t \in Sessions \ {s} : kind'[t] = kind[t] /\ seen'[t] = seen[t]
      BY <2>1 DEF TypeOK
    <2> QED
      BY <2>2, <2>3 DEF JobsInv
  <1>2. ASSUME NEW s \in Sessions, NEW S, NEW k, k # "correct", Open(s, k, S)
        PROVE  JobsInv'
    <2>1. seen' = seen /\ \A t \in Sessions : kind'[t] = IF t = s THEN k ELSE kind[t]
      BY <1>2 DEF Open, TypeOK
    <2> QED
      BY <1>2, <2>1 DEF JobsInv
  <1>3. ASSUME NEW s \in Sessions, Close(s)
        PROVE  JobsInv'
    <2>1. /\ kind'[s] = "idle"
          /\ \A t \in Sessions \ {s} : kind'[t] = kind[t] /\ seen'[t] = seen[t]
      BY <1>3 DEF Close, TypeOK
    <2> QED
      BY <2>1 DEF JobsInv
  <1>4. ASSUME kind' = kind, seen' = seen
        PROVE  JobsInv'
    BY <1>4 DEF JobsInv
  <1>5. ASSUME NEW s \in Sessions, Request(s) \/ StartExpire(s)
        PROVE  JobsInv'
    BY <1>1, <1>2, <1>5 DEF Request, StartReserve, StartSettle, StartExpire
  <1>6. ASSUME NEW s \in Sessions, Advance(s) \/ Abort(s)
        PROVE  JobsInv'
    BY <1>3, <1>4, <1>6
       DEF Advance, Abort, ReserveLine, SettleLine, Process, RejectReserve, DeadlockVictim,
           Rollback, Commit, WriteCorrection
  <1> QED
    BY <1>4, <1>5, <1>6 DEF Next, Elapse, Quiescent, vars, sessionVars

LEMMA CorrectionLands ==
    ASSUME TypeOK, LockDiscipline, NEW s \in Sessions, WriteCorrection(s),
           seen[s].product \notin lost'
    PROVE  \E p \in Products :
            /\ committed'[p] = [committed[p] EXCEPT !.available = @ + seen[s].delta]
            /\ \A r \in Products : r # p => committed'[r] = committed[r]
  <1> DEFINE p == seen[s].product
  <1>1. /\ p \in Products /\ seen[s].delta \in Int
        /\ p \notin lost' =>
                committed'[p] = [committed[p] EXCEPT !.available = @ + seen[s].delta]
        /\ journal'[p] = [journal[p] EXCEPT !.corrected = @ + seen[s].delta]
        /\ \A r \in Products : r # p => committed'[r] = committed[r] /\ journal'[r] = journal[r]
        /\ lost \subseteq lost'
    BY CorrectedRow
  <1> QED
    BY <1>1

\* A correction is the ledger's, if it is not recorded as lost.
LEMMA CorrectionCorrects ==
    ASSUME TypeOK, LockDiscipline, JobsInv, lost' = {}, NEW s \in Sessions, WriteCorrection(s)
    PROVE  Ledger!Next
  <1>1. PICK delta \in {job.delta : job \in AdminJobs} : delta = seen[s].delta
    BY DEF JobsInv, WriteCorrection
  <1>2. seen[s].product \notin lost'
    OBVIOUS
  <1>3. PICK p \in Products :
            /\ committed'[p] = [committed[p] EXCEPT !.available = @ + delta]
            /\ \A r \in Products : r # p => committed'[r] = committed[r]
    BY <1>1, <1>2, CorrectionLands
  <1>4. resv' = resv
    BY DEF WriteCorrection
  <1>5. committed[p] \in Row
    BY <1>3 DEF TypeOK
  <1>6. /\ committed'[p].available = committed[p].available + delta
        /\ committed'[p].reserved = committed[p].reserved
    BY <1>3, <1>5 DEF Row
  <1>7. [r \in Products |-> committed'[r].available] =
            [[r \in Products |-> committed[r].available] EXCEPT ![p] = @ + delta]
    BY <1>3, <1>6
  <1>8. [r \in Products |-> committed'[r].reserved] = [r \in Products |-> committed[r].reserved]
    BY <1>3, <1>6
  <1>9. Ledger!Correct(p, delta)
    BY <1>4, <1>7, <1>8 DEF Ledger!Correct
  <1>10. \E q \in Products, d \in {job.delta : job \in AdminJobs} : Ledger!Correct(q, d)
    BY <1>9
  <1> QED
    BY <1>10, Zenon DEF Ledger!Next

\* Every other step leaves the committed rows and the statuses as they are.
LEMMA StepRefines ==
    ASSUME TypeOK, LockDiscipline, ListsInv, WholeOrders, OneStatus, WorkInv, JobsInv,
           lost' = {}, raced' = {}, [Next]_vars
    PROVE  [Ledger!Next]_(Ledger!vars)
  <1>1. ASSUME committed' = committed, resv' = resv
        PROVE  UNCHANGED Ledger!vars
    BY <1>1 DEF Ledger!vars
  <1>2. ASSUME NEW s \in Sessions, Request(s) \/ StartExpire(s)
        PROVE  committed' = committed /\ resv' = resv
    BY <1>2 DEF Request, StartReserve, StartSettle, StartExpire, StartCorrection, Open, rowVars
  <1>3. ASSUME NEW s \in Sessions, NEW l \in todo[s], ReserveLine(s, l) \/ SettleLine(s, l)
        PROVE  committed' = committed /\ resv' = resv
    BY <1>3 DEF ReserveLine, SettleLine, Process
  <1>4. ASSUME NEW s \in Sessions, Rollback(s)
        PROVE  committed' = committed /\ resv' = resv
    BY <1>4 DEF Rollback
  <1>5. ASSUME NEW s \in Sessions, Commit(s)
        PROVE  Ledger!Next
    <2>1. lost = {} /\ raced = {}
      BY <1>5 DEF Commit, Close
    <2> QED
      BY <1>5, <2>1, CommitHolds, CommitSettles DEF Ledger!Next, Commit
  <1>6. ASSUME NEW s \in Sessions, WriteCorrection(s)
        PROVE  Ledger!Next
    BY <1>6, CorrectionCorrects
  <1>7. ASSUME UNCHANGED rowVars
        PROVE  committed' = committed /\ resv' = resv
    BY <1>7 DEF rowVars
  <1> QED
    BY <1>1, <1>2, <1>3, <1>4, <1>5, <1>6, <1>7
       DEF Next, Advance, Quiescent, Elapse, RejectReserve, DeadlockVictim, Abort, vars

\* The transactions, with their locks, their deadlocks and rollbacks and rows per
\* cart line, implement the ledger the rest of the shop is modelled on: whoever
\* reads committed rows sees an order's stock held at once or not at all, and
\* settled at once.  This holds at either isolation level and for any number of
\* settling sessions, until an update is lost or two settlements list one line.
THEOREM ImplementsLedger == Spec => RefinesLedger
  <1>1. Init => Ledger!Init
    <2> SUFFICES ASSUME Init
                 PROVE  Ledger!Init
      OBVIOUS
    <2>1. [p \in Products |-> committed[p].available] = InitStock
      BY StockAssumption DEF Init, InitRow
    <2>2. \A o \in Orders : resv[<<o, 1>>] = "none"
      BY LinesOfFinite DEF Init
    <2> QED
      BY <2>1, <2>2 DEF Init, InitRow, Ledger!Init
  <1>2. Init => WholeOrders /\ OneStatus /\ JobsInv
    BY DEF Init, WholeOrders, OneStatus, JobsInv, ReserveAllOrNothing, LinesOf, Work, SettleKinds
  <1>3. TypeOK /\ WholeOrders /\ [Next]_vars => WholeOrders'
    BY NextWhole
  <1>4. TypeOK /\ ListsInv /\ WholeOrders /\ OneStatus /\ [Next]_vars => OneStatus'
    BY NextOneStatus
  <1>5. TypeOK /\ LockDiscipline /\ ListsInv /\ WholeOrders /\ OneStatus /\ WorkInv /\ JobsInv
            /\ [Next]_vars => [lost' = {} /\ raced' = {} => Ledger!Next]_(Ledger!vars)
    BY StepRefines
  <1> QED
    BY <1>1, <1>2, <1>3, <1>4, <1>5, NextJobs, WorkAlways, TypeCorrect, PTL
       DEF Spec, RefinesLedger

=============================================================================
