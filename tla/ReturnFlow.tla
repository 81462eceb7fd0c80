----------------------------- MODULE ReturnFlow -----------------------------
(***************************************************************************)
(* ReturnService: a customer asks to return an order, staff decide, the    *)
(* parcel comes back, is inspected and refunded.  Each operation loads the *)
(* request, awaits, and saves the whole entity it loaded; nothing but the  *)
(* operation's own check of the status orders them.  A step is what        *)
(* happens between two awaits.                                             *)
(*                                                                         *)
(* races records which handlers of one request have overlapped so far:     *)
(*   "row"    two held the entity to save it,                              *)
(*   "review" one turned to it between an approval and its label.          *)
(***************************************************************************)
EXTENDS Integers, FiniteSets

CONSTANTS
    None,            \* no request, no row
    Requests,        \* requests that may be submitted
    UserOf,          \* UserOf[r]: the customer of request r
    Handlers,        \* requests to the server that may be under way
    Methods,         \* refund methods a customer may choose
    FraudLimit,      \* recent requests without a flag (3 in the code)
    MaxInspections,  \* bound on the inspections of a request
    MaxRefunds,      \* bound on the calls of processRefund for a request
    MaxDeaths        \* bound on the handlers that die half-way

Statuses == {"pending_review", "approved", "rejected", "label_generated", "in_transit",
             "received_at_warehouse", "inspected", "refund_pending", "refunded", "cancelled"}
Row == [status : Statuses, method : Methods \union {None}, flagged : BOOLEAN]

ASSUME NoneAssumption == None \notin Row

VARIABLES
    request,   \* request[r]: the row of return_requests, or None
    items,     \* requests whose return_items are stored
    reports,   \* reports[r]: its rows of return_inspection_reports
    refunds,   \* refunds[r]: its rows of refund_transactions, by status
    asked,     \* asked[r]: calls of processRefund so far
    task,      \* task[h]: what handler h is doing
    races,
    deaths

tables == <<request, items, reports, refunds>>
vars == <<tables, asked, task, races, deaths>>

NoTask == [pc |-> "idle", req |-> None, copy |-> None]
NoRefunds == [completed |-> 0, failed |-> 0]

Init ==
    /\ request = [r \in Requests |-> None]
    /\ items = {}
    /\ reports = [r \in Requests |-> 0]
    /\ refunds = [r \in Requests |-> NoRefunds]
    /\ asked = [r \in Requests |-> 0]
    /\ task = [h \in Handlers |-> NoTask]
    /\ races = {}
    /\ deaths = 0

At(h, pc) == task[h].pc = pc
GoOn(h, pc, copy) == task' = [task EXCEPT ![h] = [pc |-> pc, req |-> task[h].req, copy |-> copy]]
Goto(h, pc) == task' = [task EXCEPT ![h].pc = pc]
Done(h) == task' = [task EXCEPT ![h] = NoTask]
Save(h, row) == request' = [request EXCEPT ![task[h].req] = row]
Others(h) == {task[g] : g \in Handlers \ {h}}

RowRace(h, r) == IF \E t \in Others(h) : t.req = r /\ t.copy # None THEN {"row"} ELSE {}
LabelRace(h, r) == IF \E t \in Others(h) : t.req = r /\ t.pc = "approved" THEN {"review"} ELSE {}

\* findOne of an operation that goes on only in one of the statuses it accepts.
Load(h, pc, r, accepted) ==
    /\ At(h, "idle")
    /\ request[r] # None
    /\ request[r].status \in accepted
    /\ task' = [task EXCEPT ![h] = [pc |-> pc, req |-> r, copy |-> request[r]]]
    /\ races' = races \union RowRace(h, r) \union LabelRace(h, r)
    /\ UNCHANGED <<tables, deaths>>

\* The save of the loaded entity with a new status ends the operation.
SaveStatus(h, pc, status) ==
    /\ At(h, pc)
    /\ Save(h, [task[h].copy EXCEPT !.status = status])
    /\ Done(h)
    /\ UNCHANGED <<items, reports, refunds, asked, races, deaths>>

-----------------------------------------------------------------------------
(* submit: checkFraud counts the customer's recent requests, then the request
   and its items are stored. *)
Recent(u) == {r \in Requests : UserOf[r] = u /\ request[r] # None}

CheckFraud(h, r) ==
    /\ At(h, "idle")
    /\ request[r] = None
    /\ \A t \in Others(h) : t.req # r
    /\ task' = [task EXCEPT ![h] = [pc |-> "submit", req |-> r,
                    copy |-> [status |-> "pending_review", method |-> None,
                              flagged |-> Cardinality(Recent(UserOf[r])) > FraudLimit]]]
    /\ UNCHANGED <<tables, asked, races, deaths>>

SaveRequest(h) ==
    /\ At(h, "submit")
    /\ Save(h, task[h].copy)
    /\ GoOn(h, "items", None)
    /\ UNCHANGED <<items, reports, refunds, asked, races, deaths>>

SaveItems(h) ==
    /\ At(h, "items")
    /\ items' = items \union {task[h].req}
    /\ Done(h)
    /\ UNCHANGED <<request, reports, refunds, asked, races, deaths>>

-----------------------------------------------------------------------------
(* review, and the generateLabel that the controller calls for an approval. *)

\* Mutant of StartReview: any request can be reviewed.
StartReviewAny(h, r) == Load(h, "review", r, Statuses) /\ UNCHANGED asked

StartReview(h, r) == Load(h, "review", r, {"pending_review"}) /\ UNCHANGED asked

Reject(h) == SaveStatus(h, "review", "rejected")

Approve(h) ==
    /\ At(h, "review")
    /\ Save(h, [task[h].copy EXCEPT !.status = "approved"])
    /\ GoOn(h, "approved", None)
    /\ UNCHANGED <<items, reports, refunds, asked, races, deaths>>

LoadForLabel(h) ==
    LET r == task[h].req IN
    /\ At(h, "approved")
    /\ GoOn(h, "label", request[r])
    /\ races' = races \union RowRace(h, r)
    /\ UNCHANGED <<tables, asked, deaths>>

SaveLabel(h) == SaveStatus(h, "label", "label_generated")

-----------------------------------------------------------------------------
(* The customer: selectRefundMethod and cancel. *)
StartSelect(h, r) == Load(h, "method", r, {"approved", "label_generated"}) /\ UNCHANGED asked

SaveMethod(h) ==
    /\ At(h, "method")
    /\ \E m \in Methods : Save(h, [task[h].copy EXCEPT !.method = m])
    /\ Done(h)
    /\ UNCHANGED <<items, reports, refunds, asked, races, deaths>>

Cancellable == Statuses \ {"in_transit", "received_at_warehouse", "inspected"}

StartCancel(h, r) == Load(h, "cancel", r, Cancellable) /\ UNCHANGED asked

SaveCancelled(h) == SaveStatus(h, "cancel", "cancelled")

-----------------------------------------------------------------------------
(* The carrier and the warehouse: updateTracking, inspect, addInternalNote. *)
StartTracking(h, r) == Load(h, "tracking", r, Statuses) /\ UNCHANGED asked

\* An unknown status of the carrier leaves the request's status alone.
SaveTracking(h) ==
    /\ At(h, "tracking")
    /\ \E status \in {"in_transit", "received_at_warehouse", task[h].copy.status} :
        SaveStatus(h, "tracking", status)

StartInspection(h, r) == reports[r] < MaxInspections /\ Load(h, "inspect", r, Statuses) /\ UNCHANGED asked

SaveInspected(h) ==
    /\ At(h, "inspect")
    /\ Save(h, [task[h].copy EXCEPT !.status = "inspected"])
    /\ GoOn(h, "report", None)
    /\ UNCHANGED <<items, reports, refunds, asked, races, deaths>>

SaveReport(h) ==
    /\ At(h, "report")
    /\ reports' = [reports EXCEPT ![task[h].req] = @ + 1]
    /\ Done(h)
    /\ UNCHANGED <<request, items, refunds, asked, races, deaths>>

StartNote(h, r) == Load(h, "note", r, Statuses) /\ UNCHANGED asked

SaveNote(h) ==
    /\ At(h, "note")
    /\ Save(h, task[h].copy)
    /\ Done(h)
    /\ UNCHANGED <<items, reports, refunds, asked, races, deaths>>

-----------------------------------------------------------------------------
(* processRefund.  The status of the request is not looked at. *)
StartRefund(h, r) ==
    /\ asked[r] < MaxRefunds
    /\ Load(h, "refund", r, Statuses)
    /\ asked' = [asked EXCEPT ![r] = @ + 1]

\* Mutant of FindReport: the missing report is not noticed.
FindReportNever(h) ==
    /\ At(h, "refund")
    /\ Goto(h, "pending")
    /\ UNCHANGED <<tables, asked, races, deaths>>

FindReport(h) ==
    /\ At(h, "refund")
    /\ IF reports[task[h].req] > 0 THEN Goto(h, "pending") ELSE Done(h)
    /\ UNCHANGED <<tables, asked, races, deaths>>

SaveRefundPending(h) ==
    LET row == [task[h].copy EXCEPT !.status = "refund_pending"] IN
    /\ At(h, "pending")
    /\ Save(h, row)
    /\ GoOn(h, "pay", row)
    /\ UNCHANGED <<items, reports, refunds, asked, races, deaths>>

SaveRefunded(h) ==
    /\ At(h, "pay")
    /\ Save(h, [task[h].copy EXCEPT !.status = "refunded"])
    /\ GoOn(h, "completed", None)
    /\ UNCHANGED <<items, reports, refunds, asked, races, deaths>>

RefundedSaveFails(h) ==
    /\ At(h, "pay")
    /\ GoOn(h, "failed", None)
    /\ UNCHANGED <<tables, asked, races, deaths>>

\* Mutant of Outcome: the transaction keeps the status it was created with.
OutcomeFailed(pc) == "failed"

Outcome(pc) == pc

SaveTransaction(h) ==
    /\ task[h].pc \in {"completed", "failed"}
    /\ refunds' = [refunds EXCEPT ![task[h].req][Outcome(task[h].pc)] = @ + 1]
    /\ Done(h)
    /\ UNCHANGED <<request, items, reports, asked, races, deaths>>

-----------------------------------------------------------------------------
\* The process, or its connection to MySQL, goes away.
Die(h) ==
    /\ ~At(h, "idle")
    /\ deaths < MaxDeaths
    /\ deaths' = deaths + 1
    /\ Done(h)
    /\ UNCHANGED <<tables, asked, races>>

Submit(h) == (\E r \in Requests : CheckFraud(h, r)) \/ SaveRequest(h) \/ SaveItems(h)

Review(h) ==
    \/ \E r \in Requests : StartReview(h, r)
    \/ Reject(h)
    \/ Approve(h)
    \/ LoadForLabel(h)
    \/ SaveLabel(h)

Customer(h) ==
    \/ \E r \in Requests : StartSelect(h, r) \/ StartCancel(h, r)
    \/ SaveMethod(h)
    \/ SaveCancelled(h)

Warehouse(h) ==
    \/ \E r \in Requests : StartTracking(h, r) \/ StartInspection(h, r) \/ StartNote(h, r)
    \/ SaveTracking(h)
    \/ SaveInspected(h)
    \/ SaveReport(h)
    \/ SaveNote(h)

ProcessRefund(h) ==
    \/ \E r \in Requests : StartRefund(h, r)
    \/ FindReport(h)
    \/ SaveRefundPending(h)
    \/ SaveRefunded(h)
    \/ RefundedSaveFails(h)
    \/ SaveTransaction(h)

Next == \E h \in Handlers :
    Submit(h) \/ Review(h) \/ Customer(h) \/ Warehouse(h) \/ ProcessRefund(h) \/ Die(h)

Spec == Init /\ [][Next]_vars

-----------------------------------------------------------------------------
\* Rows, counts and handlers have their shapes; a handler that works on a request finds it
\* stored, except the one that is submitting it.
ReturnTypeOK ==
    /\ request \in [Requests -> Row \union {None}]
    /\ items \subseteq Requests
    /\ reports \in [Requests -> 0 .. MaxInspections + Cardinality(Handlers)]
    /\ refunds \in [Requests -> [completed : 0 .. MaxRefunds, failed : 0 .. MaxRefunds]]
    /\ \A h \in Handlers :
        /\ task[h].copy \in Row \union {None}
        /\ task[h].pc \notin {"idle", "submit"} => request[task[h].req] # None
    /\ races \subseteq {"row", "review"}
    /\ deaths \in 0 .. MaxDeaths

\* processRefund asks for an inspection report and for nothing else.  Whatever order the
\* handlers run in, and whatever they overwrite, money is only paid back, and a request only
\* shown as being refunded, after a warehouse has reported on the parcel.
RefundNeedsInspection ==
    \A r \in Requests :
        refunds[r] # NoRefunds \/ (request[r] # None /\ request[r].status \in {"refund_pending", "refunded"})
            => reports[r] > 0

\* The status is saved as refunded before the transaction is.  Unless a process dies there,
\* a request that says refunded has a completed transaction or a handler about to store it.
RefundIsRecorded ==
    deaths = 0 =>
        \A r \in Requests :
            request[r] # None /\ request[r].status = "refunded" =>
                \/ refunds[r].completed > 0
                \/ \E h \in Handlers : task[h].req = r /\ task[h].pc = "completed"

\* A request is decided once, and gets its label from its approval: no note, cancellation or
\* refund that interleaves reopens it.  The exceptions are the races of saves of one entity,
\* and of whatever happens between the approval and its label.
DecidedOnce ==
    [][\A r \in Requests :
        request[r] # None /\ request'[r].status # request[r].status =>
            /\ request'[r].status \in {"pending_review", "approved", "rejected"} =>
                request[r].status = "pending_review" \/ "row" \in races
            /\ request'[r].status = "label_generated" =>
                request[r].status = "approved" \/ races # {}]_vars

=============================================================================
