-------------------------- MODULE AfterSalesProofs --------------------------
(***************************************************************************)
(* Theorems about the services of AfterSales, for every set of items,      *)
(* providers and handlers, every journey of a parcel and every bound.      *)
(* Each is proved of a service's own specification and holds beside the    *)
(* others, which leave its variables alone.                                *)
(***************************************************************************)
EXTENDS AfterSales, TLAPS, FiniteSetTheorems, SequenceTheorems

LEMMA PartsRun == AfterSales => Spec /\ Warranty!Spec /\ Shipping!Spec
  <1>1. AfterSalesInit => Init /\ Warranty!Init /\ Shipping!Init
    BY DEF AfterSalesInit
  <1>2. [AfterSalesNext]_<<part, vars, warrantyVars, shippingVars>>
            => /\ [Next]_vars
               /\ [Warranty!Next]_Warranty!vars
               /\ [Shipping!Next]_Shipping!vars
    BY DEF AfterSalesNext, warrantyVars, shippingVars, Warranty!vars, Shipping!vars
  <1> QED
    BY <1>1, <1>2, PTL DEF AfterSales, Spec, Warranty!Spec, Shipping!Spec

-----------------------------------------------------------------------------
(***************************************************************************)
(* Return requests.                                                        *)
(*                                                                         *)
(* Types.  A handler holds the entity it is to save, and works on a stored *)
(* request, except that the one that submits a request is alone with it.   *)
(***************************************************************************)
Saving == {"review", "label", "method", "cancel", "tracking", "inspect", "note", "refund", "pending", "pay"}
Saved == {"approved", "items", "report", "completed", "failed"}

TypeInv ==
    /\ request \in [Requests -> Row \union {None}]
    /\ reports \in [Requests -> Nat]
    /\ refunds \in [Requests -> [completed : Nat, failed : Nat]]
    /\ task \in [Handlers -> [pc : {"idle", "submit"} \union Saving \union Saved,
                              req : Requests \union {None}, copy : Row \union {None}]]
    /\ races \subseteq {"row", "review"}

TaskInv ==
    \A h \in Handlers :
        /\ task[h].pc = "idle" => task[h].copy = None
        /\ task[h].pc = "submit" =>
            /\ task[h].req \in Requests
            /\ task[h].copy \in Row
            /\ request[task[h].req] = None
            /\ \A g \in Handlers \ {h} : task[g].pc # "idle" => task[g].req # task[h].req
        /\ task[h].pc \in Saving => task[h].req \in Requests /\ task[h].copy \in Row
        /\ task[h].pc \in Saved => task[h].req \in Requests /\ task[h].copy = None
        /\ task[h].pc \in Saving \union Saved => request[task[h].req] \in Row

\* Loading a stored request keeps the types.
LEMMA LoadTypes ==
    ASSUME TypeInv, TaskInv, NEW h \in Handlers, NEW r \in Requests,
           NEW pc \in Saving, NEW S, Load(h, pc, r, S)
    PROVE  TypeInv' /\ TaskInv'
  <1>1. request[r] \in Row
    BY DEF TypeInv, Load
  <1>2. task' = [task EXCEPT ![h] = [pc |-> pc, req |-> r, copy |-> request[r]]]
    BY DEF Load
  <1>3. UNCHANGED <<request, reports, refunds>> /\ races' \subseteq {"row", "review"}
    BY DEF TypeInv, Load, tables, RowRace, LabelRace
  <1>4. TypeInv'
    BY <1>1, <1>2, <1>3 DEF TypeInv
  <1>5. \A g \in Handlers : task'[g].pc = "submit" => g # h /\ task[g].req # r
    BY <1>1, <1>2, NoneAssumption DEF TypeInv, TaskInv, Saving
  <1>6. TaskInv'
    BY <1>1, <1>2, <1>3, <1>5 DEF TypeInv, TaskInv, Saving, Saved
  <1> QED
    BY <1>4, <1>6

\* So does a save of the request, after which the handler is idle, or works on the request it
\* stored: with the row it stored, or with none.
LEMMA SaveTypes ==
    ASSUME TypeInv, TaskInv, NEW h \in Handlers, NEW row \in Row, Save(h, row),
           task[h].pc \in Saving \union {"submit"},
           NEW t \in [pc : {"idle"} \union Saving \union Saved, req : Requests \union {None},
                      copy : Row \union {None}],
           task' = [task EXCEPT ![h] = t],
           t.pc # "idle" => t.req = task[h].req,
           t.pc \in Saving <=> t.copy # None,
           UNCHANGED <<reports, refunds, races>>
    PROVE  TypeInv' /\ TaskInv'
  <1> DEFINE r == task[h].req
  <1>1. r \in Requests /\ request' = [request EXCEPT ![r] = row]
    BY DEF TaskInv, Save
  <1>2. TypeInv'
    BY <1>1 DEF TypeInv
  <1>3. \A g \in Handlers \ {h} : task'[g] = task[g] /\ (task[g].pc = "submit" => task[g].req # r)
    BY <1>1 DEF TypeInv, TaskInv, Saving
  <1>4. \A g \in Handlers \ {h} :
            /\ task'[g].pc = "submit" => request'[task'[g].req] = None
            /\ task'[g].pc \in Saving \union Saved => request'[task'[g].req] \in Row
    BY <1>1, <1>3 DEF TypeInv, TaskInv
  <1>5. \A g \in Handlers \ {h} : task'[g].pc = "submit" =>
            \A k \in Handlers \ {g} : task'[k].pc # "idle" => task'[k].req # task'[g].req
    BY <1>3 DEF TypeInv, TaskInv
  <1>6. /\ task'[h] = t
        /\ t.pc \in Saving \union Saved => request'[t.req] \in Row
    BY <1>1 DEF TypeInv, Saving, Saved
  <1>7. \A g \in Handlers \ {h} :
            /\ task'[g].pc = "idle" => task'[g].copy = None
            /\ task'[g].pc = "submit" => task'[g].req \in Requests /\ task'[g].copy \in Row
            /\ task'[g].pc \in Saving => task'[g].req \in Requests /\ task'[g].copy \in Row
            /\ task'[g].pc \in Saved => task'[g].req \in Requests /\ task'[g].copy = None
    BY <1>3 DEF TaskInv
  <1>8. /\ t.pc = "idle" => t.copy = None
        /\ t.pc # "submit"
        /\ t.pc \in Saving => t.req \in Requests /\ t.copy \in Row
        /\ t.pc \in Saved => t.req \in Requests /\ t.copy = None
    BY <1>1 DEF Saving, Saved
  <1> QED
    BY <1>2, <1>4, <1>5, <1>6, <1>7, <1>8 DEF TaskInv

\* So does a step that only moves the handler on, or ends it.
LEMMA MoveTypes ==
    ASSUME TypeInv, TaskInv, NEW h \in Handlers,
           NEW t \in [pc : {"idle"} \union Saving \union Saved, req : Requests \union {None},
                      copy : Row \union {None}],
           task' = [task EXCEPT ![h] = t],
           t.pc # "idle" => t.req = task[h].req /\ task[h].pc \in Saving \union Saved,
           t.pc \in Saving <=> t.copy # None,
           UNCHANGED request, races' \subseteq {"row", "review"},
           reports' \in [Requests -> Nat], refunds' \in [Requests -> [completed : Nat, failed : Nat]]
    PROVE  TypeInv' /\ TaskInv'
  <1>1. TypeInv'
    BY DEF TypeInv
  <1>2. task'[h] = t /\ \A g \in Handlers \ {h} : task'[g] = task[g]
    BY DEF TypeInv
  <1>3. /\ t.pc = "idle" => t.copy = None
        /\ t.pc # "submit"
        /\ t.pc \in Saving => t.req \in Requests /\ t.copy \in Row
        /\ t.pc \in Saved => t.req \in Requests /\ t.copy = None
        /\ t.pc \in Saving \union Saved => request[t.req] \in Row
    BY DEF TaskInv, Saving, Saved
  <1>4. \A g \in Handlers \ {h} : task'[g].pc = "submit" =>
            \A k \in Handlers \ {g} : task'[k].pc # "idle" => task'[k].req # task'[g].req
    BY <1>2 DEF TypeInv, TaskInv, Saving, Saved
  <1> QED
    BY <1>1, <1>2, <1>3, <1>4 DEF TaskInv

\* A row that is saved with another status or method is a row.
LEMMA StatusFacts ==
    ASSUME NEW row \in Row, NEW status \in Statuses
    PROVE  /\ [row EXCEPT !.status = status] \in Row
           /\ [row EXCEPT !.status = status].status = status
           /\ row # None
  BY NoneAssumption DEF Row

LEMMA MethodFacts ==
    ASSUME NEW row \in Row, NEW m \in Methods
    PROVE  /\ [row EXCEPT !.method = m] \in Row
           /\ [row EXCEPT !.method = m].status = row.status
  BY DEF Row

\* The save of a status ends the operation.
LEMMA SaveStatusTypes ==
    ASSUME TypeInv, TaskInv, NEW h \in Handlers, NEW pc \in Saving, NEW status \in Statuses,
           SaveStatus(h, pc, status)
    PROVE  TypeInv' /\ TaskInv'
  <1>1. task[h].pc \in Saving /\ task[h].copy \in Row
    BY DEF SaveStatus, At, TaskInv
  <1>2. [task[h].copy EXCEPT !.status = status] \in Row
    BY <1>1, StatusFacts
  <1>3. /\ NoTask \in [pc : {"idle"} \union Saving \union Saved, req : Requests \union {None},
                       copy : Row \union {None}]
        /\ NoTask.pc = "idle" /\ NoTask.copy = None /\ "idle" \notin Saving
    BY DEF NoTask, Saving
  <1> QED
    BY <1>1, <1>2, <1>3, SaveTypes DEF SaveStatus, Done

\* The operations that begin by loading the request, and those that end with its status.
Starting == {"review", "method", "cancel", "tracking", "inspect", "note", "refund"}

Loads(h) ==
    \E r \in Requests : \E pc \in Starting : \E S \in SUBSET Statuses :
        Load(h, pc, r, S) /\ (pc = "review" => S = {"pending_review"})

LEMMA StartsLoad ==
    ASSUME NEW h \in Handlers, NEW r \in Requests,
           \/ StartReview(h, r) \/ StartSelect(h, r) \/ StartCancel(h, r) \/ StartTracking(h, r)
           \/ StartInspection(h, r) \/ StartNote(h, r) \/ StartRefund(h, r)
    PROVE  Loads(h)
  <1>1. /\ {"pending_review"} \subseteq Statuses /\ {"approved", "label_generated"} \subseteq Statuses
        /\ Cancellable \subseteq Statuses
    BY DEF Statuses, Cancellable
  <1>2. CASE StartReview(h, r)
    BY <1>1, <1>2 DEF StartReview, Loads, Starting
  <1>3. CASE StartSelect(h, r)
    BY <1>1, <1>3 DEF StartSelect, Loads, Starting
  <1>4. CASE StartCancel(h, r)
    BY <1>1, <1>4 DEF StartCancel, Loads, Starting
  <1>5. CASE StartTracking(h, r)
    BY <1>1, <1>5 DEF StartTracking, Loads, Starting
  <1>6. CASE StartInspection(h, r)
    BY <1>1, <1>6 DEF StartInspection, Loads, Starting
  <1>7. CASE StartNote(h, r)
    BY <1>1, <1>7 DEF StartNote, Loads, Starting
  <1>8. CASE StartRefund(h, r)
    BY <1>1, <1>8 DEF StartRefund, Loads, Starting
  <1> QED
    BY <1>2, <1>3, <1>4, <1>5, <1>6, <1>7, <1>8

SavesStatus(h) ==
    \E pc \in {"review", "label", "cancel", "tracking"} : \E status \in Statuses :
        /\ SaveStatus(h, pc, status)
        /\ pc = "review" => status = "rejected"
        /\ pc = "label" => status = "label_generated"
        /\ pc = "cancel" => status = "cancelled"
        /\ pc = "tracking" => status \in {"in_transit", "received_at_warehouse", task[h].copy.status}

LEMMA SavesAreStatuses ==
    ASSUME TypeInv, TaskInv, NEW h \in Handlers,
           Reject(h) \/ SaveLabel(h) \/ SaveCancelled(h) \/ SaveTracking(h)
    PROVE  SavesStatus(h)
  <1>1. {"rejected", "label_generated", "cancelled", "in_transit", "received_at_warehouse"} \subseteq Statuses
    BY DEF Statuses
  <1>2. CASE Reject(h)
    BY <1>1, <1>2 DEF Reject, SavesStatus
  <1>3. CASE SaveLabel(h)
    BY <1>1, <1>3 DEF SaveLabel, SavesStatus
  <1>4. CASE SaveCancelled(h)
    BY <1>1, <1>4 DEF SaveCancelled, SavesStatus
  <1>5. CASE SaveTracking(h)
    <2>1. task[h].copy.status \in Statuses
      BY <1>5 DEF SaveTracking, At, TaskInv, Saving, Row
    <2> QED
      BY <1>1, <1>5, <2>1 DEF SaveTracking, SavesStatus
  <1> QED
    BY <1>2, <1>3, <1>4, <1>5

\* What a step of a handler is.
Step(h) ==
    \/ \E r \in Requests : CheckFraud(h, r)
    \/ Loads(h)
    \/ SaveRequest(h)
    \/ SaveItems(h)
    \/ SavesStatus(h)
    \/ Approve(h)
    \/ LoadForLabel(h)
    \/ SaveMethod(h)
    \/ SaveInspected(h)
    \/ SaveReport(h)
    \/ SaveNote(h)
    \/ FindReport(h)
    \/ SaveRefundPending(h)
    \/ SaveRefunded(h)
    \/ RefundedSaveFails(h)
    \/ SaveTransaction(h)
    \/ Die(h)

LEMMA StepCases ==
    ASSUME TypeInv, TaskInv, Next
    PROVE  \E h \in Handlers : Step(h)
  <1>1. PICK h \in Handlers :
            Submit(h) \/ Review(h) \/ Customer(h) \/ Warehouse(h) \/ ProcessRefund(h) \/ Die(h)
    BY DEF Next
  <1>2. CASE Submit(h)
    BY <1>2 DEF Submit, Step
  <1>3. CASE Review(h)
    BY <1>3, StartsLoad, SavesAreStatuses DEF Review, Step
  <1>4. CASE Customer(h)
    BY <1>4, StartsLoad, SavesAreStatuses DEF Customer, Step
  <1>5. CASE Warehouse(h)
    BY <1>5, StartsLoad, SavesAreStatuses DEF Warehouse, Step
  <1>6. CASE ProcessRefund(h)
    BY <1>6, StartsLoad DEF ProcessRefund, Step
  <1>7. CASE Die(h)
    BY <1>7 DEF Step
  <1> QED
    BY <1>1, <1>2, <1>3, <1>4, <1>5, <1>6, <1>7

\* Submitting a request: nobody else works on it, and it is not stored yet.
LEMMA CheckFraudTypes ==
    ASSUME TypeInv, TaskInv, NEW h \in Handlers, NEW r \in Requests, CheckFraud(h, r)
    PROVE  TypeInv' /\ TaskInv'
  <1> DEFINE row == [status |-> "pending_review", method |-> None,
                     flagged |-> Cardinality(Recent(UserOf[r])) > FraudLimit]
             t == [pc |-> "submit", req |-> r, copy |-> row]
  <1>1. task' = [task EXCEPT ![h] = t] /\ request[r] = None /\ UNCHANGED <<request, reports, refunds, races>>
    BY DEF CheckFraud, tables
  <1>2. row \in Row
    BY DEF Row, Statuses
  <1> HIDE DEF row
  <1>3. TypeInv'
    BY <1>1, <1>2 DEF TypeInv
  <1>4. \A g \in Handlers \ {h} : task[g].req # r
    BY DEF CheckFraud, Others
  <1>5. /\ task'[h] = t
        /\ \A g \in Handlers \ {h} : task'[g] = task[g]
    BY <1>1 DEF TypeInv
  <1> QED
    BY <1>1, <1>2, <1>3, <1>4, <1>5 DEF TaskInv, Saving, Saved

\* Every step keeps the types.
LEMMA StepTypes ==
    ASSUME TypeInv, TaskInv, NEW h \in Handlers, Step(h)
    PROVE  TypeInv' /\ TaskInv'
  <1> DEFINE Tasks == [pc : {"idle"} \union Saving \union Saved, req : Requests \union {None},
                       copy : Row \union {None}]
             c == task[h].copy
             r == task[h].req
  <1>a. /\ NoTask \in Tasks /\ NoTask.pc = "idle" /\ NoTask.copy = None
        /\ \A pc \in Saved : /\ [pc |-> pc, req |-> r, copy |-> None] \in Tasks
                             /\ pc \notin Saving
        /\ \A pc \in Saving, row \in Row : /\ [pc |-> pc, req |-> r, copy |-> row] \in Tasks
                                           /\ row # None
        /\ "idle" \notin Saving
    BY NoneAssumption DEF NoTask, Saved, Saving, TypeInv
  <1>b. task[h] = [pc |-> task[h].pc, req |-> r, copy |-> c]
    BY DEF TypeInv
  <1>c. /\ task[h].pc \in Saving \union {"submit"} => c \in Row
        /\ task[h].pc \in Saving \union Saved => request[r] \in Row /\ r \in Requests
    BY DEF TaskInv
  <1>e. \A status \in Statuses : c \in Row => [c EXCEPT !.status = status] \in Row
    BY StatusFacts
  <1>d. Statuses # {} /\ {"approved", "inspected", "refund_pending", "refunded"} \subseteq Statuses
    BY DEF Statuses
  <1>1. CASE \E q \in Requests : CheckFraud(h, q)
    BY <1>1, CheckFraudTypes
  <1>2. CASE Loads(h)
    BY <1>2, LoadTypes DEF Loads, Starting, Saving
  <1>3. CASE SaveRequest(h)
    <2> DEFINE t == [pc |-> "items", req |-> r, copy |-> None]
    <2>1. task' = [task EXCEPT ![h] = t] /\ "items" \in Saved
      BY <1>3, <1>b DEF SaveRequest, GoOn, Saved
    <2> QED
      BY <1>3, <1>a, <1>c, <2>1, SaveTypes DEF SaveRequest, At
  <1>4. CASE SaveItems(h)
    BY <1>4, <1>a, MoveTypes DEF SaveItems, Done, TypeInv
  <1>5. CASE SavesStatus(h)
    BY <1>5, SaveStatusTypes DEF SavesStatus, Saving
  <1>6. CASE Approve(h)
    <2> DEFINE t == [pc |-> "approved", req |-> r, copy |-> None]
    <2>1. task' = [task EXCEPT ![h] = t] /\ "approved" \in Saved /\ "review" \in Saving
      BY <1>6, <1>b DEF Approve, GoOn, Saved, Saving
    <2> QED
      BY <1>6, <1>a, <1>c, <1>d, <1>e, <2>1, SaveTypes DEF Approve, At
  <1>7. CASE LoadForLabel(h)
    <2> DEFINE t == [pc |-> "label", req |-> r, copy |-> request[r]]
    <2>1. /\ task' = [task EXCEPT ![h] = t]
          /\ "label" \in Saving /\ task[h].pc \in Saved
      BY <1>7, <1>b DEF LoadForLabel, GoOn, Saved, Saving, At
    <2>2. races' \subseteq {"row", "review"} /\ UNCHANGED <<request, reports, refunds>>
      BY <1>7 DEF LoadForLabel, RowRace, TypeInv, tables
    <2> QED
      BY <1>a, <1>c, <2>1, <2>2, MoveTypes DEF TypeInv
  <1>8. CASE SaveMethod(h)
    <2>1. PICK m \in Methods : Save(h, [c EXCEPT !.method = m])
      BY <1>8 DEF SaveMethod
    <2>2. task[h].pc \in Saving /\ [c EXCEPT !.method = m] \in Row
      BY <1>8, <1>c, <2>1, MethodFacts DEF SaveMethod, At, Saving
    <2> QED
      BY <1>8, <1>a, <2>1, <2>2, SaveTypes DEF SaveMethod, Done
  <1>9. CASE SaveInspected(h)
    <2> DEFINE t == [pc |-> "report", req |-> r, copy |-> None]
    <2>1. task' = [task EXCEPT ![h] = t] /\ "report" \in Saved /\ "inspect" \in Saving
      BY <1>9, <1>b DEF SaveInspected, GoOn, Saved, Saving
    <2> QED
      BY <1>9, <1>a, <1>c, <1>d, <1>e, <2>1, SaveTypes DEF SaveInspected, At
  <1>10. CASE SaveReport(h)
    <2>1. r \in Requests
      BY <1>10, <1>c DEF SaveReport, At, Saved
    <2>2. reports' \in [Requests -> Nat]
      BY <1>10, <2>1 DEF SaveReport, TypeInv
    <2> QED
      BY <1>10, <1>a, <2>2, MoveTypes DEF SaveReport, Done, TypeInv
  <1>11. CASE SaveNote(h)
    <2>1. task[h].pc \in Saving
      BY <1>11 DEF SaveNote, At, Saving
    <2> QED
      BY <1>11, <1>a, <1>c, <2>1, SaveTypes DEF SaveNote, Done
  <1>12. CASE FindReport(h)
    <2> DEFINE t == [pc |-> "pending", req |-> r, copy |-> c]
    <2>1. /\ task' = [task EXCEPT ![h] = t] \/ task' = [task EXCEPT ![h] = NoTask]
          /\ "pending" \in Saving /\ task[h].pc \in Saving
      BY <1>12, <1>b DEF FindReport, Goto, Done, Saving, At
    <2>2. UNCHANGED <<request, reports, refunds, races>>
      BY <1>12 DEF FindReport, tables
    <2> QED
      BY <1>a, <1>c, <2>1, <2>2, MoveTypes DEF TypeInv
  <1>13. CASE SaveRefundPending(h)
    <2> DEFINE row == [c EXCEPT !.status = "refund_pending"]
               t == [pc |-> "pay", req |-> r, copy |-> row]
    <2>1. task' = [task EXCEPT ![h] = t] /\ "pay" \in Saving /\ "pending" \in Saving
      BY <1>13, <1>b DEF SaveRefundPending, GoOn, Saving
    <2>2. row \in Row /\ Save(h, row)
      BY <1>13, <1>c, <1>d, <1>e, <2>1 DEF SaveRefundPending, At
    <2> HIDE DEF row
    <2>3. t \in Tasks /\ row # None
      BY <1>a, <2>1, <2>2
    <2> QED
      BY <1>13, <2>1, <2>2, <2>3, SaveTypes DEF SaveRefundPending, At
  <1>14. CASE SaveRefunded(h)
    <2> DEFINE t == [pc |-> "completed", req |-> r, copy |-> None]
    <2>1. task' = [task EXCEPT ![h] = t] /\ "completed" \in Saved /\ "pay" \in Saving
      BY <1>14, <1>b DEF SaveRefunded, GoOn, Saved, Saving
    <2> QED
      BY <1>14, <1>a, <1>c, <1>d, <1>e, <2>1, SaveTypes DEF SaveRefunded, At
  <1>15. CASE RefundedSaveFails(h)
    <2> DEFINE t == [pc |-> "failed", req |-> r, copy |-> None]
    <2>1. task' = [task EXCEPT ![h] = t] /\ "failed" \in Saved /\ task[h].pc \in Saving
      BY <1>15, <1>b DEF RefundedSaveFails, GoOn, Saved, Saving, At
    <2>2. UNCHANGED <<request, reports, refunds, races>>
      BY <1>15 DEF RefundedSaveFails, tables
    <2> QED
      BY <1>a, <2>1, <2>2, MoveTypes DEF TypeInv
  <1>16. CASE SaveTransaction(h)
    <2>1. task[h].pc \in {"completed", "failed"} /\ r \in Requests
      BY <1>16, <1>c DEF SaveTransaction, Saved
    <2>2. refunds' \in [Requests -> [completed : Nat, failed : Nat]]
      BY <1>16, <2>1 DEF SaveTransaction, Outcome, TypeInv
    <2> QED
      BY <1>16, <1>a, <2>2, MoveTypes DEF SaveTransaction, Done, TypeInv
  <1>17. CASE Die(h)
    BY <1>17, <1>a, MoveTypes DEF Die, Done, TypeInv, tables
  <1> QED
    BY <1>1, <1>2, <1>3, <1>4, <1>5, <1>6, <1>7, <1>8, <1>9, <1>10, <1>11, <1>12, <1>13, <1>14,
       <1>15, <1>16, <1>17 DEF Step

-----------------------------------------------------------------------------
(***************************************************************************)
(* RefundNeedsInspection: a handler that is past FindReport, and one that  *)
(* holds an entity read as being refunded, come after a report too.        *)
(***************************************************************************)
RefundStatuses == {"refund_pending", "refunded"}
PastReport == {"pending", "pay", "completed", "failed"}

InspectedInv ==
    /\ RefundNeedsInspection
    /\ \A h \in Handlers :
        /\ task[h].copy # None /\ task[h].copy.status \in RefundStatuses => reports[task[h].req] > 0
        /\ task[h].pc \in PastReport => reports[task[h].req] > 0

LEMMA KeepsInspected ==
    ASSUME TypeInv, TaskInv, InspectedInv, NEW h \in Handlers, NEW t,
           task' = [task EXCEPT ![h] = t],
           t.copy # None /\ t.copy.status \in RefundStatuses => reports[t.req] > 0,
           t.pc \in PastReport => reports[t.req] > 0,
           \/ UNCHANGED request
           \/ \E row \in Row : Save(h, row) /\ (row.status \in RefundStatuses => reports[task[h].req] > 0),
           UNCHANGED <<reports, refunds>>
    PROVE  InspectedInv'
  <1>1. \A g \in Handlers : task'[g] = IF g = h THEN t ELSE task[g]
    BY DEF TypeInv
  <1>2. ASSUME NEW r \in Requests,
               refunds[r] # NoRefunds \/ (request'[r] # None /\ request'[r].status \in RefundStatuses)
        PROVE  reports[r] > 0
    BY <1>2 DEF InspectedInv, RefundNeedsInspection, Save, TypeInv, RefundStatuses
  <1>3. RefundNeedsInspection'
    BY <1>2 DEF RefundNeedsInspection, RefundStatuses
  <1> QED
    BY <1>1, <1>3 DEF InspectedInv

LEMMA StepInspected ==
    ASSUME TypeInv, TaskInv, InspectedInv, NEW h \in Handlers, Step(h)
    PROVE  InspectedInv'
  <1> DEFINE c == task[h].copy
             r == task[h].req
  <1>a. /\ task[h].pc \in Saving \union {"submit"} => c \in Row /\ c # None
        /\ task[h].pc \in Saving \union Saved => request[r] \in Row /\ r \in Requests
        /\ c # None /\ c.status \in RefundStatuses => reports[r] > 0
        /\ task[h].pc \in PastReport => reports[r] > 0
    BY NoneAssumption DEF TaskInv, InspectedInv
  <1>b. \A status \in Statuses : c \in Row =>
            [c EXCEPT !.status = status] \in Row /\ [c EXCEPT !.status = status].status = status
    BY StatusFacts
  <1>c. NoTask.copy = None /\ NoTask.pc \notin PastReport
    BY DEF NoTask, PastReport
  <1>d. /\ {"approved", "inspected", "refund_pending", "refunded"} \subseteq Statuses
        /\ {"approved", "inspected", "pending_review"} \cap RefundStatuses = {}
    BY DEF Statuses, RefundStatuses
  <1>e. \A q \in Requests : request[q] # None /\ request[q].status \in RefundStatuses => reports[q] > 0
    BY DEF InspectedInv, RefundNeedsInspection, RefundStatuses
  <1>1. CASE \E q \in Requests : CheckFraud(h, q)
    <2>1. PICK q \in Requests : CheckFraud(h, q)
      BY <1>1
    <2>2. PICK flag : task' = [task EXCEPT ![h] =
              [pc |-> "submit", req |-> q, copy |-> [status |-> "pending_review", method |-> None, flagged |-> flag]]]
      BY <2>1 DEF CheckFraud
    <2> QED
      BY <1>d, <2>1, <2>2, KeepsInspected DEF CheckFraud, tables, PastReport
  <1>2. CASE Loads(h)
    <2>1. PICK q \in Requests, pc \in Starting :
              /\ task' = [task EXCEPT ![h] = [pc |-> pc, req |-> q, copy |-> request[q]]]
              /\ UNCHANGED <<request, reports, refunds>>
      BY <1>2 DEF Loads, Load, tables
    <2>2. pc \notin PastReport
      BY DEF Starting, PastReport
    <2> QED
      BY <1>e, <2>1, <2>2, KeepsInspected
  <1>3. CASE SaveRequest(h)
    <2>1. Save(h, c) /\ c \in Row
      BY <1>3, <1>a DEF SaveRequest, At
    <2>2. task' = [task EXCEPT ![h] = [pc |-> "items", req |-> r, copy |-> None]]
      BY <1>3 DEF SaveRequest, GoOn
    <2> QED
      BY <1>3, <1>a, <2>1, <2>2, KeepsInspected DEF SaveRequest, At, PastReport
  <1>4. CASE SaveItems(h)
    BY <1>4, <1>c, KeepsInspected DEF SaveItems, Done
  <1>5. CASE SavesStatus(h)
    <2>1. PICK pc \in {"review", "label", "cancel", "tracking"}, status \in Statuses :
              /\ SaveStatus(h, pc, status)
              /\ status \in RefundStatuses => status = c.status
      BY <1>5 DEF SavesStatus, RefundStatuses
    <2>2. task[h].pc \in Saving
      BY <2>1 DEF SaveStatus, At, Saving
    <2> QED
      BY <1>a, <1>b, <1>c, <2>1, <2>2, KeepsInspected DEF SaveStatus, Done
  <1>6. CASE Approve(h)
    <2>1. c \in Row
      BY <1>6, <1>a DEF Approve, At, Saving
    <2> QED
      BY <1>6, <1>b, <1>d, <2>1, KeepsInspected DEF Approve, GoOn, PastReport
  <1>7. CASE LoadForLabel(h)
    <2>1. r \in Requests
      BY <1>7, <1>a DEF LoadForLabel, At, Saved
    <2> QED
      BY <1>7, <1>e, <2>1, KeepsInspected DEF LoadForLabel, GoOn, PastReport, tables
  <1>8. CASE SaveMethod(h)
    <2>1. PICK m \in Methods : Save(h, [c EXCEPT !.method = m])
      BY <1>8 DEF SaveMethod
    <2>2. c \in Row /\ c # None
      BY <1>8, <1>a DEF SaveMethod, At, Saving
    <2>3. [c EXCEPT !.method = m] \in Row /\ [c EXCEPT !.method = m].status = c.status
      BY <2>1, <2>2, MethodFacts
    <2> QED
      BY <1>8, <1>a, <1>c, <2>1, <2>2, <2>3, KeepsInspected DEF SaveMethod, Done
  <1>9. CASE SaveInspected(h)
    <2>1. c \in Row
      BY <1>9, <1>a DEF SaveInspected, At, Saving
    <2> QED
      BY <1>9, <1>b, <1>d, <2>1, KeepsInspected DEF SaveInspected, GoOn, PastReport
  <1>10. CASE SaveReport(h)
    <2>1. r \in Requests
      BY <1>10, <1>a DEF SaveReport, At, Saved
    <2>2. \A q : reports[q] > 0 => reports'[q] > 0
      BY <1>10, <2>1 DEF SaveReport, TypeInv
    <2>3. \A g \in Handlers : task'[g] = IF g = h THEN NoTask ELSE task[g]
      BY <1>10 DEF SaveReport, Done, TypeInv
    <2> QED
      BY <1>10, <1>c, <2>2, <2>3 DEF SaveReport, InspectedInv, RefundNeedsInspection
  <1>11. CASE SaveNote(h)
    <2>1. c \in Row /\ c # None
      BY <1>11, <1>a DEF SaveNote, At, Saving
    <2> QED
      BY <1>11, <1>a, <1>c, <2>1, KeepsInspected DEF SaveNote, Done
  <1>12. CASE FindReport(h)
    <2>1. c # None /\ r \in Requests
      BY <1>12, <1>a DEF FindReport, At, Saving
    <2>2. CASE reports[r] > 0
      <3>1. task' = [task EXCEPT ![h] = [pc |-> "pending", req |-> r, copy |-> c]]
        BY <1>12, <2>2 DEF FindReport, Goto, TypeInv
      <3> QED
        BY <1>12, <2>2, <3>1, KeepsInspected DEF FindReport, tables
    <2>3. CASE ~(reports[r] > 0)
      BY <1>12, <1>c, <2>3, KeepsInspected DEF FindReport, Done, tables
    <2> QED
      BY <2>2, <2>3
  <1>13. CASE SaveRefundPending(h)
    <2> DEFINE row == [c EXCEPT !.status = "refund_pending"]
    <2>1. c \in Row /\ reports[r] > 0
      BY <1>13, <1>a DEF SaveRefundPending, At, Saving, PastReport
    <2>2. row \in Row /\ Save(h, row) /\ task' = [task EXCEPT ![h] = [pc |-> "pay", req |-> r, copy |-> row]]
      BY <1>13, <1>b, <1>d, <2>1 DEF SaveRefundPending, GoOn
    <2> HIDE DEF row
    <2> QED
      BY <1>13, <2>1, <2>2, KeepsInspected DEF SaveRefundPending
  <1>14. CASE SaveRefunded(h)
    <2>1. c \in Row /\ reports[r] > 0
      BY <1>14, <1>a DEF SaveRefunded, At, Saving, PastReport
    <2> QED
      BY <1>14, <1>b, <1>d, <2>1, KeepsInspected DEF SaveRefunded, GoOn
  <1>15. CASE RefundedSaveFails(h)
    <2>1. reports[r] > 0
      BY <1>15, <1>a DEF RefundedSaveFails, At, PastReport
    <2> QED
      BY <1>15, <2>1, KeepsInspected DEF RefundedSaveFails, GoOn, tables
  <1>16. CASE SaveTransaction(h)
    <2>1. reports[r] > 0
      BY <1>16, <1>a DEF SaveTransaction, PastReport
    <2>2. \A q \in Requests : q # r => refunds'[q] = refunds[q]
      BY <1>16 DEF SaveTransaction, TypeInv
    <2>3. \A g \in Handlers : task'[g] = IF g = h THEN NoTask ELSE task[g]
      BY <1>16 DEF SaveTransaction, Done, TypeInv
    <2> QED
      BY <1>16, <1>c, <2>1, <2>2, <2>3 DEF SaveTransaction, InspectedInv, RefundNeedsInspection
  <1>17. CASE Die(h)
    BY <1>17, <1>c, KeepsInspected DEF Die, Done, tables
  <1> QED
    BY <1>1, <1>2, <1>3, <1>4, <1>5, <1>6, <1>7, <1>8, <1>9, <1>10, <1>11, <1>12, <1>13, <1>14,
       <1>15, <1>16, <1>17 DEF Step

-----------------------------------------------------------------------------
(***************************************************************************)
(* RefundIsRecorded: an entity read as refunded, and saved again later,    *)
(* was read when the transaction was stored or about to be.                *)
(***************************************************************************)
Booked(r) ==
    \/ refunds[r].completed > 0
    \/ \E h \in Handlers : task[h].req = r /\ task[h].pc = "completed"

RecordedInv ==
    /\ deaths \in Nat
    /\ RefundIsRecorded
    /\ deaths = 0 => \A h \in Handlers :
            task[h].copy # None /\ task[h].copy.status = "refunded" => Booked(task[h].req)

LEMMA KeepsRecorded ==
    ASSUME TypeInv, TaskInv, RecordedInv, NEW h \in Handlers, NEW t,
           task' = [task EXCEPT ![h] = t],
           task[h].pc # "completed",
           deaths = 0 /\ t.copy # None /\ t.copy.status = "refunded" => Booked(t.req),
           \/ UNCHANGED request
           \/ \E row \in Row :
                /\ Save(h, row)
                /\ deaths = 0 /\ row.status = "refunded" =>
                    Booked(task[h].req) \/ (t.pc = "completed" /\ t.req = task[h].req),
           UNCHANGED <<refunds, deaths>>
    PROVE  RecordedInv'
  <1>1. \A g \in Handlers : task'[g] = IF g = h THEN t ELSE task[g]
    BY DEF TypeInv
  <1>2. ASSUME NEW r, Booked(r)
        PROVE  Booked(r)'
    BY <1>1, <1>2 DEF Booked
  <1>3. ASSUME NEW r \in Requests, deaths = 0, request'[r] # None, request'[r].status = "refunded"
        PROVE  Booked(r)'
    <2>1. CASE request'[r] = request[r]
      <3>1. Booked(r)
        BY <1>3, <2>1 DEF RecordedInv, RefundIsRecorded, Booked
      <3> QED
        BY <1>2, <3>1
    <2>2. CASE request'[r] # request[r]
      <3>1. PICK row \in Row :
                /\ Save(h, row)
                /\ deaths = 0 /\ row.status = "refunded" =>
                    Booked(task[h].req) \/ (t.pc = "completed" /\ t.req = task[h].req)
        BY <2>2
      <3>2. r = task[h].req /\ request'[r] = row
        BY <2>2, <3>1 DEF Save, TypeInv
      <3>3. Booked(r) \/ (t.pc = "completed" /\ t.req = r)
        BY <1>3, <3>1, <3>2
      <3>4. t.pc = "completed" /\ t.req = r => Booked(r)'
        BY <1>1 DEF Booked
      <3> QED
        BY <1>2, <3>3, <3>4
    <2> QED
      BY <2>1, <2>2
  <1>4. RefundIsRecorded'
    BY <1>3 DEF RefundIsRecorded, Booked
  <1>5. ASSUME deaths = 0, NEW g \in Handlers, task'[g].copy # None, task'[g].copy.status = "refunded"
        PROVE  Booked(task[g].req)'
    <2>1. PICK q : q = task'[g].req /\ Booked(q)
      BY <1>1, <1>5 DEF RecordedInv
    <2>2. Booked(q)'
      BY <1>2, <2>1
    <2> QED
      BY <2>1, <2>2 DEF Booked
  <1> QED
    BY <1>4, <1>5 DEF RecordedInv

LEMMA StepRecorded ==
    ASSUME TypeInv, TaskInv, RecordedInv, NEW h \in Handlers, Step(h)
    PROVE  RecordedInv'
  <1> DEFINE c == task[h].copy
             r == task[h].req
  <1>a. /\ task[h].pc \in Saving \union {"submit"} => c \in Row /\ c # None
        /\ task[h].pc \in Saving \union Saved => request[r] \in Row /\ r \in Requests
        /\ deaths = 0 /\ c # None /\ c.status = "refunded" => Booked(r)
        /\ deaths \in Nat
    BY NoneAssumption DEF TaskInv, RecordedInv
  <1>b. \A status \in Statuses : c \in Row =>
            [c EXCEPT !.status = status] \in Row /\ [c EXCEPT !.status = status].status = status
    BY StatusFacts
  <1>c. NoTask.copy = None
    BY DEF NoTask
  <1>d. {"approved", "inspected", "refund_pending", "refunded"} \subseteq Statuses
    BY DEF Statuses
  <1>e. \A q \in Requests : deaths = 0 /\ request[q] # None /\ request[q].status = "refunded" => Booked(q)
    BY DEF RecordedInv, RefundIsRecorded, Booked
  <1>1. CASE \E q \in Requests : CheckFraud(h, q)
    <2>1. PICK q \in Requests : CheckFraud(h, q)
      BY <1>1
    <2>2. PICK flag : task' = [task EXCEPT ![h] =
              [pc |-> "submit", req |-> q, copy |-> [status |-> "pending_review", method |-> None, flagged |-> flag]]]
      BY <2>1 DEF CheckFraud
    <2> QED
      BY <2>1, <2>2, KeepsRecorded DEF CheckFraud, At, tables
  <1>2. CASE Loads(h)
    <2>1. PICK q \in Requests, pc \in Starting :
              /\ task' = [task EXCEPT ![h] = [pc |-> pc, req |-> q, copy |-> request[q]]]
              /\ At(h, "idle")
              /\ UNCHANGED <<request, refunds, deaths>>
      BY <1>2 DEF Loads, Load, tables
    <2> QED
      BY <1>e, <2>1, KeepsRecorded DEF At
  <1>3. CASE SaveRequest(h)
    <2>1. Save(h, c) /\ c \in Row /\ c # None
      BY <1>3, <1>a DEF SaveRequest, At
    <2>2. task' = [task EXCEPT ![h] = [pc |-> "items", req |-> r, copy |-> None]]
      BY <1>3 DEF SaveRequest, GoOn
    <2> QED
      BY <1>3, <1>a, <2>1, <2>2, KeepsRecorded DEF SaveRequest, At
  <1>4. CASE SaveItems(h)
    BY <1>4, <1>c, KeepsRecorded DEF SaveItems, Done, At
  <1>5. CASE SavesStatus(h)
    <2>1. PICK pc \in {"review", "label", "cancel", "tracking"}, status \in Statuses :
              /\ SaveStatus(h, pc, status)
              /\ status = "refunded" => status = c.status
      BY <1>5 DEF SavesStatus
    <2>2. task[h].pc \in Saving /\ task[h].pc # "completed"
      BY <2>1 DEF SaveStatus, At, Saving
    <2> QED
      BY <1>a, <1>b, <1>c, <2>1, <2>2, KeepsRecorded DEF SaveStatus, Done
  <1>6. CASE Approve(h)
    <2>1. c \in Row
      BY <1>6, <1>a DEF Approve, At, Saving
    <2> QED
      BY <1>6, <1>b, <1>d, <2>1, KeepsRecorded DEF Approve, GoOn, At
  <1>7. CASE LoadForLabel(h)
    <2>1. r \in Requests
      BY <1>7, <1>a DEF LoadForLabel, At, Saved
    <2> QED
      BY <1>7, <1>e, <2>1, KeepsRecorded DEF LoadForLabel, GoOn, At, tables
  <1>8. CASE SaveMethod(h)
    <2>1. PICK m \in Methods : Save(h, [c EXCEPT !.method = m])
      BY <1>8 DEF SaveMethod
    <2>2. c \in Row /\ c # None
      BY <1>8, <1>a DEF SaveMethod, At, Saving
    <2>3. [c EXCEPT !.method = m] \in Row /\ [c EXCEPT !.method = m].status = c.status
      BY <2>1, <2>2, MethodFacts
    <2> QED
      BY <1>8, <1>a, <1>c, <2>1, <2>2, <2>3, KeepsRecorded DEF SaveMethod, Done, At
  <1>9. CASE SaveInspected(h)
    <2>1. c \in Row
      BY <1>9, <1>a DEF SaveInspected, At, Saving
    <2> QED
      BY <1>9, <1>b, <1>d, <2>1, KeepsRecorded DEF SaveInspected, GoOn, At
  <1>10. CASE SaveReport(h)
    BY <1>10, <1>c, KeepsRecorded DEF SaveReport, Done, At
  <1>11. CASE SaveNote(h)
    <2>1. c \in Row /\ c # None
      BY <1>11, <1>a DEF SaveNote, At, Saving
    <2> QED
      BY <1>11, <1>a, <1>c, <2>1, KeepsRecorded DEF SaveNote, Done, At
  <1>12. CASE FindReport(h)
    <2>1. CASE reports[r] > 0
      <3>1. task' = [task EXCEPT ![h] = [pc |-> "pending", req |-> r, copy |-> c]]
        BY <1>12, <2>1 DEF FindReport, Goto, TypeInv
      <3> QED
        BY <1>12, <1>a, <3>1, KeepsRecorded DEF FindReport, At, tables
    <2>2. CASE ~(reports[r] > 0)
      BY <1>12, <1>c, <2>2, KeepsRecorded DEF FindReport, Done, At, tables
    <2> QED
      BY <2>1, <2>2
  <1>13. CASE SaveRefundPending(h)
    <2> DEFINE row == [c EXCEPT !.status = "refund_pending"]
    <2>1. c \in Row
      BY <1>13, <1>a DEF SaveRefundPending, At, Saving
    <2>2. /\ row \in Row /\ Save(h, row) /\ row.status # "refunded"
          /\ task' = [task EXCEPT ![h] = [pc |-> "pay", req |-> r, copy |-> row]]
      BY <1>13, <1>b, <1>d, <2>1 DEF SaveRefundPending, GoOn
    <2> HIDE DEF row
    <2> QED
      BY <1>13, <2>2, KeepsRecorded DEF SaveRefundPending, At
  <1>14. CASE SaveRefunded(h)
    <2>1. c \in Row
      BY <1>14, <1>a DEF SaveRefunded, At, Saving
    <2> QED
      BY <1>14, <1>b, <1>d, <2>1, KeepsRecorded DEF SaveRefunded, GoOn, At
  <1>15. CASE RefundedSaveFails(h)
    BY <1>15, KeepsRecorded DEF RefundedSaveFails, GoOn, At, tables
  <1>16. CASE SaveTransaction(h)
    <2>1. /\ r \in Requests
          /\ \A q \in Requests : refunds[q].completed \in Nat
          /\ refunds[r].completed \in Nat
      BY <1>16, <1>a DEF SaveTransaction, Saved, TypeInv
    <2>2. /\ \A q : refunds[q].completed > 0 => refunds'[q].completed > 0
          /\ task[h].pc = "completed" => refunds'[r].completed > 0
      BY <1>16, <2>1 DEF SaveTransaction, Outcome, TypeInv
    <2>3. \A g \in Handlers : task'[g] = IF g = h THEN NoTask ELSE task[g]
      BY <1>16 DEF SaveTransaction, Done, TypeInv
    <2>4. ASSUME NEW q, Booked(q)
          PROVE  Booked(q)'
      BY <2>2, <2>3, <2>4 DEF Booked
    <2>5. RefundIsRecorded'
      BY <1>16, <1>e, <2>4 DEF SaveTransaction, RefundIsRecorded, Booked
    <2>6. ASSUME deaths = 0, NEW g \in Handlers, task'[g].copy # None, task'[g].copy.status = "refunded"
          PROVE  Booked(task[g].req)'
      <3>1. PICK q : q = task'[g].req /\ Booked(q)
        BY <1>c, <2>3, <2>6 DEF RecordedInv
      <3>2. Booked(q)'
        BY <2>4, <3>1
      <3> QED
        BY <3>1, <3>2 DEF Booked
    <2> QED
      BY <1>16, <1>a, <2>5, <2>6 DEF SaveTransaction, RecordedInv
  <1>17. CASE Die(h)
    BY <1>17, <1>a DEF Die, RecordedInv, RefundIsRecorded
  <1> QED
    BY <1>1, <1>2, <1>3, <1>4, <1>5, <1>6, <1>7, <1>8, <1>9, <1>10, <1>11, <1>12, <1>13, <1>14,
       <1>15, <1>16, <1>17 DEF Step

-----------------------------------------------------------------------------
(***************************************************************************)
(* DecidedOnce: until two handlers hold one entity, what a handler holds   *)
(* is the row as it is stored; until a handler turns to an approved        *)
(* request that waits for its label, it stays approved.                    *)
(***************************************************************************)
Alone(h, pcs) == \A g \in Handlers \ {h} : task[g].pc \in pcs => task[g].req # task[h].req

DecidedInv ==
    \A h \in Handlers :
        /\ task[h].pc = "review" => task[h].copy.status = "pending_review"
        /\ task[h].pc = "label" /\ races = {} => task[h].copy.status = "approved"
        /\ task[h].pc \in Saving /\ "row" \notin races =>
            task[h].copy = request[task[h].req] /\ Alone(h, Saving)
        /\ task[h].pc = "approved" /\ races = {} =>
            request[task[h].req].status = "approved" /\ Alone(h, Saving \union {"approved"})

\* A handler that goes on without the entity, or ends, after it has saved the request or not.
LEMMA KeepsDecided ==
    ASSUME TypeInv, TaskInv, DecidedInv, NEW h \in Handlers, NEW t,
           task' = [task EXCEPT ![h] = t],
           t.pc \notin Saving \union {"approved"},
           \/ UNCHANGED request
           \/ task[h].pc \in Saving \union {"submit"} /\ \E row \in Row : Save(h, row),
           UNCHANGED races
    PROVE  DecidedInv'
  <1>1. \A g \in Handlers : task'[g] = IF g = h THEN t ELSE task[g]
    BY DEF TypeInv
  <1>2. "approved" \in Saved /\ "approved" \notin Saving /\ "review" \in Saving /\ "label" \in Saving
    BY DEF Saved, Saving
  <1> SUFFICES ASSUME NEW g \in Handlers \ {h}
               PROVE  /\ task[g].pc = "review" => task[g].copy.status = "pending_review"
                      /\ task[g].pc = "label" /\ races = {} => task[g].copy.status = "approved"
                      /\ task[g].pc \in Saving /\ "row" \notin races =>
                            /\ task[g].copy = request'[task[g].req]
                            /\ \A k \in Handlers \ {g} : task'[k].pc \in Saving => task'[k].req # task[g].req
                      /\ task[g].pc = "approved" /\ races = {} =>
                            /\ request'[task[g].req].status = "approved"
                            /\ \A k \in Handlers \ {g} :
                                task'[k].pc \in Saving \union {"approved"} => task'[k].req # task[g].req
    BY <1>1, <1>2 DEF DecidedInv, Alone
  <1>3. /\ task[g].pc = "review" => task[g].copy.status = "pending_review"
        /\ task[g].pc = "label" /\ races = {} => task[g].copy.status = "approved"
    BY DEF DecidedInv
  <1>4. /\ task[g].pc \in Saving /\ "row" \notin races =>
            \A k \in Handlers \ {g} : task'[k].pc \in Saving => task'[k].req # task[g].req
        /\ task[g].pc = "approved" /\ races = {} =>
            \A k \in Handlers \ {g} :
                task'[k].pc \in Saving \union {"approved"} => task'[k].req # task[g].req
    BY <1>1 DEF DecidedInv, Alone
  <1>5. ASSUME \/ task[g].pc \in Saving /\ "row" \notin races
               \/ task[g].pc = "approved" /\ races = {}
        PROVE  request'[task[g].req] = request[task[g].req]
    <2>1. CASE UNCHANGED request
      BY <2>1
    <2>2. CASE task[h].pc = "submit" /\ \E row \in Row : Save(h, row)
      BY <1>2, <1>5, <2>2 DEF TypeInv, TaskInv, Save, Saving, Saved
    <2>3. CASE task[h].pc \in Saving /\ \E row \in Row : Save(h, row)
      BY <1>5, <2>3 DEF TypeInv, DecidedInv, Alone, Save
    <2> QED
      BY <2>1, <2>2, <2>3
  <1> QED
    BY <1>3, <1>4, <1>5 DEF DecidedInv

LEMMA StepDecided ==
    ASSUME TypeInv, TaskInv, DecidedInv, NEW h \in Handlers, Step(h)
    PROVE  DecidedInv'
  <1> DEFINE c == task[h].copy
             r == task[h].req
  <1>a. /\ task[h].pc \in Saving \union {"submit"} => c \in Row /\ c # None
        /\ task[h].pc \in Saving \union Saved => request[r] \in Row /\ r \in Requests
        /\ \A g \in Handlers : task[g].pc \in Saving => task[g].copy # None
    BY NoneAssumption DEF TaskInv
  <1>b. \A status \in Statuses : c \in Row =>
            [c EXCEPT !.status = status] \in Row /\ [c EXCEPT !.status = status].status = status
    BY StatusFacts
  <1>c. NoTask.pc \notin Saving \union {"approved"}
    BY DEF NoTask, Saving
  <1>d. {"approved", "inspected", "refund_pending", "refunded"} \subseteq Statuses
    BY DEF Statuses
  <1>e. {"review", "label", "method", "tracking", "inspect", "note", "refund", "pending", "pay"} \subseteq Saving
    BY DEF Saving
  <1>1. CASE \E q \in Requests : CheckFraud(h, q)
    <2>1. PICK t :
              task' = [task EXCEPT ![h] = t] /\ t.pc = "submit" /\ UNCHANGED <<request, races>>
      BY <1>1 DEF CheckFraud, tables
    <2> QED
      BY <2>1, KeepsDecided DEF Saving
  <1>2. CASE Loads(h)
    <2>1. PICK q \in Requests, pc \in Starting, S \in SUBSET Statuses :
              Load(h, pc, q, S) /\ (pc = "review" => S = {"pending_review"})
      BY <1>2 DEF Loads
    <2>2. /\ task' = [task EXCEPT ![h] = [pc |-> pc, req |-> q, copy |-> request[q]]]
          /\ UNCHANGED request
          /\ races' = races \union RowRace(h, q) \union LabelRace(h, q)
      BY <2>1 DEF Load, tables
    <2>3. \A g \in Handlers : task'[g] = IF g = h THEN [pc |-> pc, req |-> q, copy |-> request[q]] ELSE task[g]
      BY <2>2 DEF TypeInv
    <2>4. pc \in Saving /\ pc # "approved" /\ pc # "label"
      BY DEF Starting, Saving
    <2>5. pc = "review" => request[q].status = "pending_review"
      BY <2>1 DEF Load
    <2>6. "row" \notin races' =>
            "row" \notin races /\ \A g \in Handlers \ {h} : task[g].pc \in Saving => task[g].req # q
      BY <1>a, <2>2 DEF RowRace, Others
    <2>7. races' = {} =>
            races = {} /\ \A g \in Handlers \ {h} : task[g].pc \in Saving \union {"approved"} => task[g].req # q
      BY <1>a, <2>2, <2>6 DEF LabelRace, Others
    <2> QED
      BY <2>2, <2>3, <2>4, <2>5, <2>6, <2>7 DEF DecidedInv, Alone
  <1>3. CASE SaveRequest(h)
    <2>1. task' = [task EXCEPT ![h] = [pc |-> "items", req |-> r, copy |-> None]]
      BY <1>3 DEF SaveRequest, GoOn
    <2>2. "items" \notin Saving \union {"approved"}
      BY DEF Saving
    <2> QED
      BY <1>3, <1>a, <2>1, <2>2, KeepsDecided DEF SaveRequest, At
  <1>4. CASE SaveItems(h)
    BY <1>4, <1>c, KeepsDecided DEF SaveItems, Done
  <1>5. CASE SavesStatus(h)
    <2>1. PICK pc \in {"review", "label", "cancel", "tracking"}, status \in Statuses : SaveStatus(h, pc, status)
      BY <1>5 DEF SavesStatus
    <2>2. task[h].pc \in Saving
      BY <2>1 DEF SaveStatus, At, Saving
    <2> QED
      BY <1>a, <1>b, <1>c, <2>1, <2>2, KeepsDecided DEF SaveStatus, Done
  <1>6. CASE Approve(h)
    <2> DEFINE row == [c EXCEPT !.status = "approved"]
    <2>1. /\ task[h].pc = "review" /\ c \in Row /\ r \in Requests
          /\ row \in Row /\ row.status = "approved"
      BY <1>6, <1>a, <1>b, <1>d, <1>e DEF Approve, At
    <2>2. /\ request' = [request EXCEPT ![r] = row]
          /\ task' = [task EXCEPT ![h] = [pc |-> "approved", req |-> r, copy |-> None]]
          /\ UNCHANGED races
      BY <1>6 DEF Approve, Save, GoOn
    <2> HIDE DEF row
    <2>3. \A g \in Handlers : task'[g] = IF g = h THEN [pc |-> "approved", req |-> r, copy |-> None] ELSE task[g]
      BY <2>2 DEF TypeInv
    <2>4. "row" \notin races => Alone(h, Saving)
      BY <1>e, <2>1 DEF DecidedInv
    <2>5. races = {} => Alone(h, Saving \union {"approved"})
      BY <1>e, <2>1, <2>4 DEF DecidedInv, Alone
    <2>6. request'[r] = row /\ \A q : q # r => request'[q] = request[q]
      BY <2>1, <2>2 DEF TypeInv
    <2>7. "approved" \notin Saving /\ "review" # "approved"
      BY DEF Saving
    <2> QED
      BY <2>1, <2>2, <2>3, <2>4, <2>5, <2>6, <2>7 DEF DecidedInv, Alone
  <1>7. CASE LoadForLabel(h)
    <2>1. /\ task[h].pc = "approved" /\ r \in Requests
          /\ task' = [task EXCEPT ![h] = [pc |-> "label", req |-> r, copy |-> request[r]]]
          /\ UNCHANGED request
          /\ races' = races \union RowRace(h, r)
      BY <1>7, <1>a DEF LoadForLabel, GoOn, At, Saved, tables
    <2>2. \A g \in Handlers : task'[g] = IF g = h THEN [pc |-> "label", req |-> r, copy |-> request[r]] ELSE task[g]
      BY <2>1 DEF TypeInv
    <2>3. "row" \notin races' =>
            "row" \notin races /\ \A g \in Handlers \ {h} : task[g].pc \in Saving => task[g].req # r
      BY <1>a, <2>1 DEF RowRace, Others
    <2>4. races' = {} =>
            /\ races = {}
            /\ request[r].status = "approved"
            /\ \A g \in Handlers \ {h} : task[g].pc \in Saving \union {"approved"} => task[g].req # r
      BY <2>1 DEF DecidedInv, Alone
    <2> QED
      BY <2>1, <2>2, <2>3, <2>4 DEF DecidedInv, Alone
  <1>8. CASE SaveMethod(h)
    <2>1. PICK m \in Methods : Save(h, [c EXCEPT !.method = m])
      BY <1>8 DEF SaveMethod
    <2>2. task[h].pc \in Saving /\ c \in Row
      BY <1>8, <1>a, <1>e DEF SaveMethod, At
    <2>3. [c EXCEPT !.method = m] \in Row
      BY <2>1, <2>2, MethodFacts
    <2> QED
      BY <1>8, <1>c, <2>1, <2>2, <2>3, KeepsDecided DEF SaveMethod, Done
  <1>9. CASE SaveInspected(h)
    <2>1. task[h].pc \in Saving /\ c \in Row
      BY <1>9, <1>a, <1>e DEF SaveInspected, At
    <2>2. "report" \notin Saving \union {"approved"}
      BY DEF Saving
    <2> QED
      BY <1>9, <1>b, <1>d, <2>1, <2>2, KeepsDecided DEF SaveInspected, GoOn
  <1>10. CASE SaveReport(h)
    BY <1>10, <1>c, KeepsDecided DEF SaveReport, Done
  <1>11. CASE SaveNote(h)
    <2>1. task[h].pc \in Saving /\ c \in Row
      BY <1>11, <1>a, <1>e DEF SaveNote, At
    <2> QED
      BY <1>11, <1>c, <2>1, KeepsDecided DEF SaveNote, Done
  <1>12. CASE FindReport(h)
    <2>1. task[h].pc = "refund" /\ UNCHANGED <<request, races>>
      BY <1>12 DEF FindReport, At, tables
    <2>2. CASE reports[r] > 0
      <3>1. task' = [task EXCEPT ![h] = [pc |-> "pending", req |-> r, copy |-> c]]
        BY <1>12, <2>2 DEF FindReport, Goto, TypeInv
      <3>2. \A g \in Handlers : task'[g] = IF g = h THEN [pc |-> "pending", req |-> r, copy |-> c] ELSE task[g]
        BY <3>1 DEF TypeInv
      <3> QED
        BY <1>e, <2>1, <3>2 DEF DecidedInv, Alone
    <2>3. CASE ~(reports[r] > 0)
      BY <1>12, <1>c, <2>1, <2>3, KeepsDecided DEF FindReport, Done
    <2> QED
      BY <2>2, <2>3
  <1>13. CASE SaveRefundPending(h)
    <2> DEFINE row == [c EXCEPT !.status = "refund_pending"]
    <2>1. task[h].pc = "pending" /\ r \in Requests
      BY <1>13, <1>a, <1>e DEF SaveRefundPending, At
    <2>2. /\ request' = [request EXCEPT ![r] = row]
          /\ task' = [task EXCEPT ![h] = [pc |-> "pay", req |-> r, copy |-> row]]
          /\ UNCHANGED races
      BY <1>13 DEF SaveRefundPending, Save, GoOn
    <2> HIDE DEF row
    <2>3. \A g \in Handlers : task'[g] = IF g = h THEN [pc |-> "pay", req |-> r, copy |-> row] ELSE task[g]
      BY <2>2 DEF TypeInv
    <2>4. "row" \notin races => Alone(h, Saving)
      BY <1>e, <2>1 DEF DecidedInv
    <2>5. request'[r] = row /\ \A q : q # r => request'[q] = request[q]
      BY <2>1, <2>2 DEF TypeInv
    <2>6. \A g \in Handlers : task[g].pc = "approved" /\ races = {} => task[g].req # r
      BY <1>e, <2>1 DEF DecidedInv, Alone
    <2> QED
      BY <1>e, <2>1, <2>2, <2>3, <2>4, <2>5, <2>6 DEF DecidedInv, Alone
  <1>14. CASE SaveRefunded(h)
    <2>1. task[h].pc \in Saving /\ c \in Row
      BY <1>14, <1>a, <1>e DEF SaveRefunded, At
    <2>2. "completed" \notin Saving \union {"approved"}
      BY DEF Saving
    <2> QED
      BY <1>14, <1>b, <1>d, <2>1, <2>2, KeepsDecided DEF SaveRefunded, GoOn
  <1>15. CASE RefundedSaveFails(h)
    <2>1. "failed" \notin Saving \union {"approved"}
      BY DEF Saving
    <2> QED
      BY <1>15, <2>1, KeepsDecided DEF RefundedSaveFails, GoOn, tables
  <1>16. CASE SaveTransaction(h)
    BY <1>16, <1>c, KeepsDecided DEF SaveTransaction, Done
  <1>17. CASE Die(h)
    BY <1>17, <1>c, KeepsDecided DEF Die, Done, tables
  <1> QED
    BY <1>1, <1>2, <1>3, <1>4, <1>5, <1>6, <1>7, <1>8, <1>9, <1>10, <1>11, <1>12, <1>13, <1>14,
       <1>15, <1>16, <1>17 DEF Step

-----------------------------------------------------------------------------
(***************************************************************************)
(* The theorems.                                                           *)
(***************************************************************************)
Decides(r) ==
    request[r] # None /\ request'[r].status # request[r].status =>
        /\ request'[r].status \in {"pending_review", "approved", "rejected"} =>
            request[r].status = "pending_review" \/ "row" \in races
        /\ request'[r].status = "label_generated" =>
            request[r].status = "approved" \/ races # {}

\* A save with a status that no rule is about, or of an entity that is as it is stored.
LEMMA SaveDecides ==
    ASSUME TypeInv, TaskInv, DecidedInv, NEW h \in Handlers, NEW row \in Row, Save(h, row),
           task[h].pc \in Saving,
           \/ row.status \notin {"pending_review", "approved", "rejected", "label_generated"}
           \/ row.status = task[h].copy.status
           \/ task[h].pc = "review" /\ row.status \in {"approved", "rejected"}
           \/ task[h].pc = "label" /\ row.status = "label_generated",
           NEW r \in Requests
    PROVE  Decides(r)
  <1>1. task[h].req \in Requests
    BY DEF TaskInv
  <1>2. request' = [request EXCEPT ![task[h].req] = row]
    BY DEF Save
  <1>3. "row" \notin races => task[h].copy = request[task[h].req]
    BY DEF DecidedInv
  <1>4. CASE r # task[h].req
    BY <1>2, <1>4 DEF TypeInv, Decides
  <1>5. CASE r = task[h].req
    <2>1. request'[r] = row
      BY <1>1, <1>2, <1>5 DEF TypeInv
    <2> QED
      BY <1>3, <1>5, <2>1 DEF DecidedInv, Decides
  <1> QED
    BY <1>4, <1>5

LEMMA StepDecides ==
    ASSUME TypeInv, TaskInv, DecidedInv, NEW h \in Handlers, Step(h), NEW r \in Requests
    PROVE  Decides(r)
  <1> DEFINE c == task[h].copy
  <1>a. task[h].pc \in Saving => c \in Row
    BY DEF TaskInv
  <1>b. \A status \in Statuses : c \in Row =>
            [c EXCEPT !.status = status] \in Row /\ [c EXCEPT !.status = status].status = status
    BY StatusFacts
  <1>c. {"approved", "inspected", "refund_pending", "refunded"} \subseteq Statuses
    BY DEF Statuses
  <1>d. {"review", "label", "method", "cancel", "tracking", "inspect", "note", "refund", "pending", "pay"} \subseteq Saving
    BY DEF Saving
  <1>1. CASE UNCHANGED request
    BY <1>1 DEF Decides
  <1>2. CASE SaveRequest(h)
    BY <1>2 DEF SaveRequest, Save, At, TypeInv, TaskInv, Decides
  <1>3. CASE SavesStatus(h)
    <2>1. PICK pc \in {"review", "label", "cancel", "tracking"}, status \in Statuses :
              /\ SaveStatus(h, pc, status)
              /\ pc = "review" => status = "rejected"
              /\ pc = "label" => status = "label_generated"
              /\ pc = "cancel" => status = "cancelled"
              /\ pc = "tracking" => status \in {"in_transit", "received_at_warehouse", c.status}
      BY <1>3 DEF SavesStatus
    <2> DEFINE row == [c EXCEPT !.status = status]
    <2>2. task[h].pc = pc /\ Save(h, row) /\ row \in Row /\ row.status = status /\ pc \in Saving
      BY <1>a, <1>b, <1>d, <2>1 DEF SaveStatus, At
    <2> HIDE DEF row
    <2>3. \/ row.status \notin {"pending_review", "approved", "rejected", "label_generated"}
          \/ row.status = c.status
          \/ task[h].pc = "review" /\ row.status \in {"approved", "rejected"}
          \/ task[h].pc = "label" /\ row.status = "label_generated"
      BY <2>1, <2>2
    <2> QED
      BY <2>2, <2>3, SaveDecides
  <1>4. CASE Approve(h)
    BY <1>4, <1>a, <1>b, <1>c, <1>d, SaveDecides DEF Approve, At
  <1>5. CASE SaveMethod(h)
    <2>1. PICK m \in Methods : Save(h, [c EXCEPT !.method = m])
      BY <1>5 DEF SaveMethod
    <2>2. task[h].pc \in Saving /\ c \in Row
      BY <1>5, <1>a, <1>d DEF SaveMethod, At
    <2>3. [c EXCEPT !.method = m] \in Row /\ [c EXCEPT !.method = m].status = c.status
      BY <2>1, <2>2, MethodFacts
    <2> QED
      BY <2>1, <2>2, <2>3, SaveDecides
  <1>6. CASE SaveNote(h)
    BY <1>6, <1>a, <1>d, SaveDecides DEF SaveNote, At
  <1>7. CASE SaveInspected(h)
    BY <1>7, <1>a, <1>b, <1>c, <1>d, SaveDecides DEF SaveInspected, At
  <1>8. CASE SaveRefundPending(h)
    BY <1>8, <1>a, <1>b, <1>c, <1>d, SaveDecides DEF SaveRefundPending, At
  <1>9. CASE SaveRefunded(h)
    BY <1>9, <1>a, <1>b, <1>c, <1>d, SaveDecides DEF SaveRefunded, At
  <1>10. \/ UNCHANGED request \/ SaveRequest(h) \/ SavesStatus(h) \/ Approve(h) \/ SaveMethod(h)
         \/ SaveNote(h) \/ SaveInspected(h) \/ SaveRefundPending(h) \/ SaveRefunded(h)
    BY DEF Step, CheckFraud, Loads, Load, SaveItems, LoadForLabel, SaveReport, FindReport,
           RefundedSaveFails, SaveTransaction, Die, tables
  <1> QED
    BY <1>1, <1>2, <1>3, <1>4, <1>5, <1>6, <1>7, <1>8, <1>9, <1>10

LEMMA InitFacts ==
    Init => TypeInv /\ TaskInv /\ InspectedInv /\ RecordedInv /\ DecidedInv
  <1> SUFFICES ASSUME Init
               PROVE  TypeInv /\ TaskInv /\ InspectedInv /\ RecordedInv /\ DecidedInv
    OBVIOUS
  <1>1. /\ \A h \in Handlers : task[h] = NoTask
        /\ \A r \in Requests : request[r] = None /\ refunds[r] = NoRefunds
        /\ races = {} /\ deaths = 0
    BY DEF Init
  <1>2. TypeInv
    BY DEF Init, TypeInv, NoTask, NoRefunds
  <1>3. TaskInv
    BY <1>1 DEF TaskInv, NoTask, Saving, Saved
  <1>4. InspectedInv
    BY <1>1 DEF InspectedInv, RefundNeedsInspection, NoTask, PastReport
  <1>5. RecordedInv
    BY <1>1 DEF RecordedInv, RefundIsRecorded, NoTask
  <1>6. DecidedInv
    BY <1>1 DEF DecidedInv, NoTask, Saving
  <1> QED
    BY <1>2, <1>3, <1>4, <1>5, <1>6

LEMMA StutterFacts ==
    ASSUME UNCHANGED vars
    PROVE  /\ TypeInv /\ TaskInv => TypeInv' /\ TaskInv'
           /\ InspectedInv => InspectedInv'
           /\ RecordedInv => RecordedInv'
           /\ DecidedInv => DecidedInv'
  <1>1. TypeInv /\ TaskInv => TypeInv' /\ TaskInv'
    BY DEF vars, tables, TypeInv, TaskInv
  <1>2. InspectedInv => InspectedInv'
    BY DEF vars, tables, InspectedInv, RefundNeedsInspection
  <1>3. RecordedInv => RecordedInv'
    BY DEF vars, tables, RecordedInv, RefundIsRecorded, Booked
  <1>4. DecidedInv => DecidedInv'
    BY DEF vars, tables, DecidedInv, Alone
  <1> QED
    BY <1>1, <1>2, <1>3, <1>4

LEMMA TypesHold == Spec => [](TypeInv /\ TaskInv)
  <1>1. TypeInv /\ TaskInv /\ [Next]_vars => (TypeInv /\ TaskInv)'
    BY StepCases, StepTypes, StutterFacts
  <1> QED
    BY <1>1, InitFacts, PTL DEF Spec

\* Money is paid back, and a request shown as being refunded, only after a warehouse has reported
\* on the parcel, for any number of handlers that overwrite each other's saves or die
\* (return.service.ts:321, processRefund, looks at the report and not at the status).
THEOREM RefundAfterInspection == Spec => []RefundNeedsInspection
  <1>1. TypeInv /\ TaskInv /\ InspectedInv /\ [Next]_vars => InspectedInv'
    BY StepCases, StepInspected, StutterFacts
  <1>2. InspectedInv => RefundNeedsInspection
    BY DEF InspectedInv
  <1> QED
    BY <1>1, <1>2, InitFacts, TypesHold, PTL DEF Spec

\* Unless a process dies between the two saves, a request that says refunded has a completed
\* transaction, or a handler about to store it: a stale save that writes "refunded" again can
\* only have read it from such a request.
THEOREM RefundRecorded == Spec => []RefundIsRecorded
  <1>1. TypeInv /\ TaskInv /\ RecordedInv /\ [Next]_vars => RecordedInv'
    BY StepCases, StepRecorded, StutterFacts
  <1>2. RecordedInv => RefundIsRecorded
    BY DEF RecordedInv
  <1> QED
    BY <1>1, <1>2, InitFacts, TypesHold, PTL DEF Spec

\* A request is decided once, and labelled from its approval, as long as no two handlers held its
\* row and none turned to it between its approval and its label: what a handler saves is then the
\* row as it is stored.
THEOREM DecidedOnly == Spec => DecidedOnce
  <1>1. TypeInv /\ TaskInv /\ DecidedInv /\ [Next]_vars => DecidedInv'
    BY StepCases, StepDecided, StutterFacts
  <1>2. TypeInv /\ TaskInv /\ DecidedInv /\ [Next]_vars =>
            [\A r \in Requests :
                request[r] # None /\ request'[r].status # request[r].status =>
                    /\ request'[r].status \in {"pending_review", "approved", "rejected"} =>
                        request[r].status = "pending_review" \/ "row" \in races
                    /\ request'[r].status = "label_generated" =>
                        request[r].status = "approved" \/ races # {}]_vars
    BY StepCases, StepDecides DEF Decides
  <1> QED
    BY <1>1, <1>2, InitFacts, TypesHold, PTL DEF Spec, DecidedOnce

-----------------------------------------------------------------------------
(***************************************************************************)
(* Types.  What is left for return requests is that their counts are       *)
(* bounded: a handler past the check of a bound is counted with what it is *)
(* about to store.                                                         *)
(***************************************************************************)
Inspecting == {"inspect", "report"}
Paying == {"refund", "pending", "pay", "completed", "failed"}
Working(pcs, r) == {h \in Handlers : task[h].pc \in pcs /\ task[h].req = r}

BoundInv ==
    /\ items \subseteq Requests
    /\ asked \in [Requests -> 0 .. MaxRefunds]
    /\ deaths \in 0 .. MaxDeaths
    /\ \A r \in Requests :
        /\ reports[r] + Cardinality(Working(Inspecting, r)) <= MaxInspections + Cardinality(Handlers)
        /\ refunds[r].completed + refunds[r].failed + Cardinality(Working(Paying, r)) <= asked[r]

LEMMA WorkingFinite ==
    ASSUME NEW pcs, NEW r
    PROVE  /\ IsFiniteSet(Working(pcs, r))
           /\ Cardinality(Working(pcs, r)) \in Nat
           /\ Cardinality(Working(pcs, r)) <= Cardinality(Handlers)
           /\ Cardinality(Handlers) \in Nat
  <1>1. Working(pcs, r) \subseteq Handlers
    BY DEF Working
  <1> QED
    BY <1>1, HandlersAssumption, FS_Subset, FS_CardinalityType

LEMMA WorkingFinitePrimed ==
    ASSUME NEW pcs, NEW r
    PROVE  /\ IsFiniteSet(Working(pcs, r)')
           /\ Cardinality(Working(pcs, r)') \in Nat
           /\ Cardinality(Working(pcs, r)') <= Cardinality(Handlers)
  <1>1. Working(pcs, r)' \subseteq Handlers
    BY DEF Working
  <1> QED
    BY <1>1, HandlersAssumption, FS_Subset, FS_CardinalityType

\* A handler that does not join those at work on a request leaves no more of them.
LEMMA NoneJoins ==
    ASSUME TypeInv, NEW h \in Handlers, NEW t, task' = [task EXCEPT ![h] = t], NEW pcs, NEW r,
           t.pc \in pcs /\ t.req = r => task[h].pc \in pcs /\ task[h].req = r
    PROVE  Cardinality(Working(pcs, r)') <= Cardinality(Working(pcs, r))
  <1>1. Working(pcs, r)' \subseteq Working(pcs, r)
    BY DEF Working, TypeInv
  <1> QED
    BY <1>1, WorkingFinite, FS_Subset

\* One that joins them makes one more.
LEMMA OneJoins ==
    ASSUME TypeInv, NEW h \in Handlers, NEW t, task' = [task EXCEPT ![h] = t], NEW pcs, NEW r
    PROVE  Cardinality(Working(pcs, r)') <= Cardinality(Working(pcs, r)) + 1
  <1>1. Working(pcs, r)' \subseteq Working(pcs, r) \union {h}
    BY DEF Working, TypeInv
  <1>2. IsFiniteSet(Working(pcs, r)) /\ Cardinality(Working(pcs, r)) \in Nat
    BY WorkingFinite
  <1>3. /\ IsFiniteSet(Working(pcs, r) \union {h})
        /\ Cardinality(Working(pcs, r) \union {h}) <= Cardinality(Working(pcs, r)) + 1
    BY <1>2, FS_AddElement
  <1>4. Cardinality(Working(pcs, r)') <= Cardinality(Working(pcs, r) \union {h})
    BY <1>1, <1>3, FS_Subset
  <1>5. /\ Cardinality(Working(pcs, r)') \in Nat
        /\ Cardinality(Working(pcs, r) \union {h}) \in Nat
    BY <1>3, WorkingFinitePrimed, FS_CardinalityType
  <1> QED
    BY <1>2, <1>3, <1>4, <1>5

\* One that leaves them makes one less.
LEMMA OneLeaves ==
    ASSUME TypeInv, NEW h \in Handlers, NEW t, task' = [task EXCEPT ![h] = t], NEW pcs, NEW r,
           task[h].pc \in pcs, task[h].req = r, t.pc \notin pcs
    PROVE  Cardinality(Working(pcs, r)') + 1 = Cardinality(Working(pcs, r))
  <1>1. Working(pcs, r)' = Working(pcs, r) \ {h} /\ h \in Working(pcs, r)
    BY DEF Working, TypeInv
  <1>2. IsFiniteSet(Working(pcs, r)) /\ Cardinality(Working(pcs, r)) \in Nat
    BY WorkingFinite
  <1>3. Cardinality(Working(pcs, r) \ {h}) = Cardinality(Working(pcs, r)) - 1
    BY <1>1, <1>2, FS_RemoveElement
  <1> QED
    BY <1>1, <1>2, <1>3

\* A step that stores no report and no transaction, and in which no handler gets past a bound.
LEMMA QuietBounds ==
    ASSUME TypeInv, BoundInv, NEW h \in Handlers, NEW t, task' = [task EXCEPT ![h] = t],
           t.pc \in Inspecting => task[h].pc \in Inspecting /\ task[h].req = t.req,
           t.pc \in Paying => task[h].pc \in Paying /\ task[h].req = t.req,
           UNCHANGED <<reports, refunds, asked>>,
           items' \subseteq Requests, deaths' \in 0 .. MaxDeaths
    PROVE  BoundInv'
  <1> SUFFICES ASSUME NEW r \in Requests
               PROVE  /\ reports'[r] + Cardinality(Working(Inspecting, r)')
                            <= MaxInspections + Cardinality(Handlers)
                      /\ refunds'[r].completed + refunds'[r].failed + Cardinality(Working(Paying, r)')
                            <= asked'[r]
    BY DEF BoundInv
  <1>1. /\ Cardinality(Working(Inspecting, r)') <= Cardinality(Working(Inspecting, r))
        /\ Cardinality(Working(Paying, r)') <= Cardinality(Working(Paying, r))
    BY NoneJoins
  <1>2. /\ Cardinality(Working(Inspecting, r)) \in Nat /\ Cardinality(Working(Inspecting, r)') \in Nat
        /\ Cardinality(Working(Paying, r)) \in Nat /\ Cardinality(Working(Paying, r)') \in Nat
        /\ Cardinality(Handlers) \in Nat
    BY WorkingFinite, WorkingFinitePrimed
  <1>3. /\ reports[r] \in Nat /\ refunds[r].completed \in Nat /\ refunds[r].failed \in Nat
        /\ asked[r] \in 0 .. MaxRefunds
    BY DEF TypeInv, BoundInv
  <1>4. /\ reports[r] + Cardinality(Working(Inspecting, r)) <= MaxInspections + Cardinality(Handlers)
        /\ refunds[r].completed + refunds[r].failed + Cardinality(Working(Paying, r)) <= asked[r]
    BY DEF BoundInv
  <1> QED
    BY <1>1, <1>2, <1>3, <1>4, HandlersAssumption

\* The steps that are quiet in this sense.
LEMMA LoadBounds ==
    ASSUME TypeInv, BoundInv, NEW h \in Handlers, NEW r \in Requests, NEW pc, NEW S,
           Load(h, pc, r, S), pc \notin Inspecting \union Paying, UNCHANGED asked
    PROVE  BoundInv'
  <1>1. PICK t : t = [pc |-> pc, req |-> r, copy |-> request[r]]
    OBVIOUS
  <1>2. task' = [task EXCEPT ![h] = t] /\ UNCHANGED <<reports, refunds, items, deaths>> /\ t.pc = pc
    BY <1>1 DEF Load, tables
  <1> QED
    BY <1>2, QuietBounds DEF BoundInv

LEMMA DoneBounds ==
    ASSUME TypeInv, BoundInv, NEW h \in Handlers, Done(h), UNCHANGED <<reports, refunds, asked>>,
           items' \subseteq Requests, deaths' \in 0 .. MaxDeaths
    PROVE  BoundInv'
  <1>1. PICK t : t = NoTask
    OBVIOUS
  <1>2. task' = [task EXCEPT ![h] = t] /\ t.pc \notin Inspecting /\ t.pc \notin Paying
    BY <1>1 DEF Done, NoTask, Inspecting, Paying
  <1> QED
    BY <1>2, QuietBounds

LEMMA GoOnBounds ==
    ASSUME TypeInv, BoundInv, NEW h \in Handlers, NEW pc, NEW copy, GoOn(h, pc, copy),
           pc \in Inspecting => task[h].pc \in Inspecting,
           pc \in Paying => task[h].pc \in Paying,
           UNCHANGED <<reports, refunds, asked, items, deaths>>
    PROVE  BoundInv'
  <1>1. PICK t : t = [pc |-> pc, req |-> task[h].req, copy |-> copy]
    OBVIOUS
  <1>2. task' = [task EXCEPT ![h] = t] /\ t.pc = pc /\ t.req = task[h].req
    BY <1>1 DEF GoOn
  <1> QED
    BY <1>2, QuietBounds DEF BoundInv

LEMMA GotoBounds ==
    ASSUME TypeInv, BoundInv, NEW h \in Handlers, NEW pc, Goto(h, pc),
           pc \notin Inspecting,
           pc \in Paying => task[h].pc \in Paying,
           UNCHANGED <<reports, refunds, asked, items, deaths>>
    PROVE  BoundInv'
  <1>1. PICK t : t = [task[h] EXCEPT !.pc = pc]
    OBVIOUS
  <1>2. task' = [task EXCEPT ![h] = t] /\ t.pc = pc /\ t.req = task[h].req
    BY <1>1 DEF Goto, TypeInv
  <1> QED
    BY <1>2, QuietBounds DEF BoundInv

\* The four that are not: a handler gets past a bound, or stores what it was counted with.
LEMMA StartInspectionBounds ==
    ASSUME TypeInv, BoundInv, NEW h \in Handlers, NEW q \in Requests, StartInspection(h, q)
    PROVE  BoundInv'
  <1>1. PICK t : t = [pc |-> "inspect", req |-> q, copy |-> request[q]]
    OBVIOUS
  <1>2. /\ task' = [task EXCEPT ![h] = t] /\ t.pc = "inspect" /\ t.req = q
        /\ UNCHANGED <<reports, refunds, items, deaths, asked>>
        /\ reports[q] < MaxInspections
    BY <1>1 DEF StartInspection, Load, tables
  <1> SUFFICES ASSUME NEW r \in Requests
               PROVE  /\ reports'[r] + Cardinality(Working(Inspecting, r)')
                            <= MaxInspections + Cardinality(Handlers)
                      /\ refunds'[r].completed + refunds'[r].failed + Cardinality(Working(Paying, r)')
                            <= asked'[r]
    BY <1>2 DEF BoundInv
  <1>3. Cardinality(Working(Paying, r)') <= Cardinality(Working(Paying, r))
    BY <1>2, NoneJoins DEF Paying
  <1>4. q # r => Cardinality(Working(Inspecting, r)') <= Cardinality(Working(Inspecting, r))
    BY <1>2, NoneJoins
  <1>5. /\ Cardinality(Working(Inspecting, r)) \in Nat /\ Cardinality(Working(Inspecting, r)') \in Nat
        /\ Cardinality(Working(Paying, r)) \in Nat /\ Cardinality(Working(Paying, r)') \in Nat
        /\ Cardinality(Working(Inspecting, r)') <= Cardinality(Handlers)
        /\ Cardinality(Handlers) \in Nat
    BY WorkingFinite, WorkingFinitePrimed
  <1>6. /\ reports[r] \in Nat /\ refunds[r].completed \in Nat /\ refunds[r].failed \in Nat
        /\ asked[r] \in 0 .. MaxRefunds
    BY DEF TypeInv, BoundInv
  <1>7. /\ reports[r] + Cardinality(Working(Inspecting, r)) <= MaxInspections + Cardinality(Handlers)
        /\ refunds[r].completed + refunds[r].failed + Cardinality(Working(Paying, r)) <= asked[r]
    BY DEF BoundInv
  <1>8. reports[r] + Cardinality(Working(Inspecting, r)') <= MaxInspections + Cardinality(Handlers)
    BY <1>2, <1>4, <1>5, <1>6, <1>7, HandlersAssumption
  <1>9. refunds[r].completed + refunds[r].failed + Cardinality(Working(Paying, r)') <= asked[r]
    BY <1>3, <1>5, <1>6, <1>7, HandlersAssumption
  <1> QED
    BY <1>2, <1>8, <1>9

LEMMA StartRefundBounds ==
    ASSUME TypeInv, BoundInv, NEW h \in Handlers, NEW q \in Requests, StartRefund(h, q)
    PROVE  BoundInv'
  <1>1. PICK t : t = [pc |-> "refund", req |-> q, copy |-> request[q]]
    OBVIOUS
  <1>2. /\ task' = [task EXCEPT ![h] = t] /\ t.pc = "refund" /\ t.req = q
        /\ UNCHANGED <<reports, refunds, items, deaths>>
        /\ asked' = [asked EXCEPT ![q] = asked[q] + 1] /\ asked[q] < MaxRefunds
    BY <1>1 DEF StartRefund, Load, tables
  <1>3. asked[q] \in 0 .. MaxRefunds /\ asked' \in [Requests -> 0 .. MaxRefunds]
    BY <1>2, HandlersAssumption DEF BoundInv
  <1> SUFFICES ASSUME NEW r \in Requests
               PROVE  /\ reports'[r] + Cardinality(Working(Inspecting, r)')
                            <= MaxInspections + Cardinality(Handlers)
                      /\ refunds'[r].completed + refunds'[r].failed + Cardinality(Working(Paying, r)')
                            <= asked'[r]
    BY <1>2, <1>3 DEF BoundInv
  <1>4. /\ Cardinality(Working(Inspecting, r)') <= Cardinality(Working(Inspecting, r))
        /\ Cardinality(Working(Paying, r)') <= Cardinality(Working(Paying, r)) + 1
        /\ q # r => Cardinality(Working(Paying, r)') <= Cardinality(Working(Paying, r))
    BY <1>2, NoneJoins, OneJoins DEF Inspecting
  <1>5. /\ Cardinality(Working(Inspecting, r)) \in Nat /\ Cardinality(Working(Inspecting, r)') \in Nat
        /\ Cardinality(Working(Paying, r)) \in Nat /\ Cardinality(Working(Paying, r)') \in Nat
        /\ Cardinality(Handlers) \in Nat
    BY WorkingFinite, WorkingFinitePrimed
  <1>6. /\ reports[r] \in Nat /\ refunds[r].completed \in Nat /\ refunds[r].failed \in Nat
        /\ asked[r] \in 0 .. MaxRefunds
        /\ asked'[r] = IF q = r THEN asked[r] + 1 ELSE asked[r]
    BY <1>2 DEF TypeInv, BoundInv
  <1>7. /\ reports[r] + Cardinality(Working(Inspecting, r)) <= MaxInspections + Cardinality(Handlers)
        /\ refunds[r].completed + refunds[r].failed + Cardinality(Working(Paying, r)) <= asked[r]
    BY DEF BoundInv
  <1>8. reports[r] + Cardinality(Working(Inspecting, r)') <= MaxInspections + Cardinality(Handlers)
    BY <1>4, <1>5, <1>6, <1>7, HandlersAssumption
  <1>9. refunds[r].completed + refunds[r].failed + Cardinality(Working(Paying, r)') <= asked'[r]
    BY <1>4, <1>5, <1>6, <1>7, HandlersAssumption
  <1> QED
    BY <1>2, <1>8, <1>9

LEMMA SaveReportBounds ==
    ASSUME TypeInv, TaskInv, BoundInv, NEW h \in Handlers, SaveReport(h)
    PROVE  BoundInv'
  <1>1. PICK t : t = NoTask
    OBVIOUS
  <1>2. PICK q : q = task[h].req
    OBVIOUS
  <1>3. /\ task' = [task EXCEPT ![h] = t] /\ t.pc \notin Inspecting /\ t.pc \notin Paying
        /\ UNCHANGED <<refunds, items, deaths, asked>>
        /\ reports' = [reports EXCEPT ![q] = reports[q] + 1]
        /\ task[h].pc \in Inspecting /\ q \in Requests
    BY <1>1, <1>2 DEF SaveReport, Done, NoTask, Inspecting, Paying, At, TaskInv, Saved
  <1> SUFFICES ASSUME NEW r \in Requests
               PROVE  /\ reports'[r] + Cardinality(Working(Inspecting, r)')
                            <= MaxInspections + Cardinality(Handlers)
                      /\ refunds'[r].completed + refunds'[r].failed + Cardinality(Working(Paying, r)')
                            <= asked'[r]
    BY <1>3 DEF BoundInv
  <1>4. /\ Cardinality(Working(Inspecting, r)') <= Cardinality(Working(Inspecting, r))
        /\ Cardinality(Working(Paying, r)') <= Cardinality(Working(Paying, r))
        /\ q = r => Cardinality(Working(Inspecting, r)') + 1 = Cardinality(Working(Inspecting, r))
    BY <1>2, <1>3, NoneJoins, OneLeaves
  <1>5. /\ Cardinality(Working(Inspecting, r)) \in Nat /\ Cardinality(Working(Inspecting, r)') \in Nat
        /\ Cardinality(Working(Paying, r)) \in Nat /\ Cardinality(Working(Paying, r)') \in Nat
        /\ Cardinality(Handlers) \in Nat
    BY WorkingFinite, WorkingFinitePrimed
  <1>6. /\ reports[r] \in Nat /\ refunds[r].completed \in Nat /\ refunds[r].failed \in Nat
        /\ asked[r] \in 0 .. MaxRefunds
        /\ reports'[r] = IF q = r THEN reports[r] + 1 ELSE reports[r]
    BY <1>3 DEF TypeInv, BoundInv
  <1>7. /\ reports[r] + Cardinality(Working(Inspecting, r)) <= MaxInspections + Cardinality(Handlers)
        /\ refunds[r].completed + refunds[r].failed + Cardinality(Working(Paying, r)) <= asked[r]
    BY DEF BoundInv
  <1>8. reports'[r] + Cardinality(Working(Inspecting, r)') <= MaxInspections + Cardinality(Handlers)
    BY <1>4, <1>5, <1>6, <1>7, HandlersAssumption
  <1>9. refunds[r].completed + refunds[r].failed + Cardinality(Working(Paying, r)') <= asked[r]
    BY <1>4, <1>5, <1>6, <1>7, HandlersAssumption
  <1> QED
    BY <1>3, <1>8, <1>9

LEMMA SaveTransactionBounds ==
    ASSUME TypeInv, TaskInv, BoundInv, NEW h \in Handlers, SaveTransaction(h)
    PROVE  BoundInv'
  <1>1. PICK t : t = NoTask
    OBVIOUS
  <1>2. PICK q : q = task[h].req
    OBVIOUS
  <1>3. PICK s \in {"completed", "failed"} : s = task[h].pc
    BY DEF SaveTransaction
  <1>4. /\ task' = [task EXCEPT ![h] = t] /\ t.pc \notin Inspecting /\ t.pc \notin Paying
        /\ UNCHANGED <<reports, items, deaths, asked>>
        /\ refunds' = [refunds EXCEPT ![q][s] = refunds[q][s] + 1]
        /\ task[h].pc \in Paying /\ q \in Requests
    BY <1>1, <1>2, <1>3 DEF SaveTransaction, Done, NoTask, Inspecting, Paying, Outcome, TaskInv, Saved
  <1> SUFFICES ASSUME NEW r \in Requests
               PROVE  /\ reports'[r] + Cardinality(Working(Inspecting, r)')
                            <= MaxInspections + Cardinality(Handlers)
                      /\ refunds'[r].completed + refunds'[r].failed + Cardinality(Working(Paying, r)')
                            <= asked'[r]
    BY <1>4 DEF BoundInv
  <1>5. /\ Cardinality(Working(Inspecting, r)') <= Cardinality(Working(Inspecting, r))
        /\ Cardinality(Working(Paying, r)') <= Cardinality(Working(Paying, r))
        /\ q = r => Cardinality(Working(Paying, r)') + 1 = Cardinality(Working(Paying, r))
    BY <1>2, <1>4, NoneJoins, OneLeaves
  <1>6. /\ Cardinality(Working(Inspecting, r)) \in Nat /\ Cardinality(Working(Inspecting, r)') \in Nat
        /\ Cardinality(Working(Paying, r)) \in Nat /\ Cardinality(Working(Paying, r)') \in Nat
        /\ Cardinality(Handlers) \in Nat
    BY WorkingFinite, WorkingFinitePrimed
  <1>7. /\ refunds[r] \in [completed : Nat, failed : Nat] /\ reports[r] \in Nat
        /\ asked[r] \in 0 .. MaxRefunds
    BY DEF TypeInv, BoundInv
  <1>a. q # r => refunds'[r] = refunds[r]
    BY <1>4 DEF TypeInv
  <1>b. q = r => refunds'[r] = [refunds[r] EXCEPT ![s] = refunds[r][s] + 1]
    BY <1>4 DEF TypeInv
  <1>c. q = r => refunds'[r].completed + refunds'[r].failed = refunds[r].completed + refunds[r].failed + 1
    <2>1. CASE s = "completed"
      BY <1>b, <1>7, <2>1
    <2>2. CASE s = "failed"
      BY <1>b, <1>7, <2>2
    <2> QED
      BY <2>1, <2>2
  <1>8. /\ reports[r] + Cardinality(Working(Inspecting, r)) <= MaxInspections + Cardinality(Handlers)
        /\ refunds[r].completed + refunds[r].failed + Cardinality(Working(Paying, r)) <= asked[r]
    BY DEF BoundInv
  <1>9. reports[r] + Cardinality(Working(Inspecting, r)') <= MaxInspections + Cardinality(Handlers)
    BY <1>5, <1>6, <1>7, <1>8, HandlersAssumption
  <1>10. refunds'[r].completed + refunds'[r].failed + Cardinality(Working(Paying, r)') <= asked[r]
    <2>1. CASE q = r
      BY <1>5, <1>6, <1>7, <1>8, <1>c, <2>1
    <2>2. CASE q # r
      BY <1>5, <1>6, <1>7, <1>8, <1>a, <2>2
    <2> QED
      BY <2>1, <2>2
  <1> QED
    BY <1>4, <1>9, <1>10

LEMMA SubmitBounds ==
    ASSUME TypeInv, TaskInv, BoundInv, NEW h \in Handlers, Submit(h)
    PROVE  BoundInv'
  <1>1. CASE \E r \in Requests : CheckFraud(h, r)
    <2>1. PICK r \in Requests : CheckFraud(h, r)
      BY <1>1
    <2>2. PICK t : t = [pc |-> "submit", req |-> r,
                        copy |-> [status |-> "pending_review", method |-> None,
                                  flagged |-> Cardinality(Recent(UserOf[r])) > FraudLimit]]
      OBVIOUS
    <2>3. UNCHANGED <<reports, refunds, asked, items, deaths>>
      BY <2>1 DEF CheckFraud, tables
    <2>4. task' = [task EXCEPT ![h] = t] /\ t.pc = "submit"
      BY <2>1, <2>2 DEF CheckFraud
    <2> QED
      BY <2>3, <2>4, QuietBounds DEF BoundInv, Inspecting, Paying
  <1>2. CASE SaveRequest(h)
    BY <1>2, GoOnBounds DEF SaveRequest, Inspecting, Paying
  <1>3. CASE SaveItems(h)
    <2>1. task[h].req \in Requests
      BY <1>3 DEF SaveItems, At, TaskInv, Saved
    <2> QED
      BY <1>3, <2>1, DoneBounds DEF SaveItems, BoundInv
  <1> QED
    BY <1>1, <1>2, <1>3 DEF Submit

LEMMA SaveStatusBounds ==
    ASSUME TypeInv, BoundInv, NEW h \in Handlers, NEW pc, NEW status, SaveStatus(h, pc, status)
    PROVE  BoundInv'
  BY DoneBounds DEF SaveStatus, BoundInv

LEMMA ReviewBounds ==
    ASSUME TypeInv, TaskInv, BoundInv, NEW h \in Handlers, Review(h)
    PROVE  BoundInv'
  <1>1. CASE \E r \in Requests : StartReview(h, r)
    BY <1>1, LoadBounds DEF StartReview, Inspecting, Paying
  <1>2. CASE Reject(h)
    BY <1>2, SaveStatusBounds DEF Reject
  <1>3. CASE Approve(h)
    BY <1>3, GoOnBounds DEF Approve, Inspecting, Paying
  <1>4. CASE LoadForLabel(h)
    <2>1. PICK copy : copy = request[task[h].req]
      OBVIOUS
    <2>2. GoOn(h, "label", copy) /\ UNCHANGED <<reports, refunds, asked, items, deaths>>
      BY <1>4, <2>1 DEF LoadForLabel, tables
    <2> QED
      BY <2>2, GoOnBounds DEF Inspecting, Paying
  <1>5. CASE SaveLabel(h)
    BY <1>5, SaveStatusBounds DEF SaveLabel
  <1> QED
    BY <1>1, <1>2, <1>3, <1>4, <1>5 DEF Review

LEMMA CustomerBounds ==
    ASSUME TypeInv, TaskInv, BoundInv, NEW h \in Handlers, Customer(h)
    PROVE  BoundInv'
  <1>1. CASE \E r \in Requests : StartSelect(h, r)
    BY <1>1, LoadBounds DEF StartSelect, Inspecting, Paying
  <1>2. CASE \E r \in Requests : StartCancel(h, r)
    BY <1>2, LoadBounds DEF StartCancel, Inspecting, Paying
  <1>3. CASE SaveMethod(h)
    BY <1>3, DoneBounds DEF SaveMethod, BoundInv
  <1>4. CASE SaveCancelled(h)
    BY <1>4, SaveStatusBounds DEF SaveCancelled
  <1> QED
    BY <1>1, <1>2, <1>3, <1>4 DEF Customer

LEMMA WarehouseBounds ==
    ASSUME TypeInv, TaskInv, BoundInv, NEW h \in Handlers, Warehouse(h)
    PROVE  BoundInv'
  <1>1. CASE \E r \in Requests : StartTracking(h, r)
    BY <1>1, LoadBounds DEF StartTracking, Inspecting, Paying
  <1>2. CASE \E r \in Requests : StartInspection(h, r)
    BY <1>2, StartInspectionBounds
  <1>3. CASE \E r \in Requests : StartNote(h, r)
    BY <1>3, LoadBounds DEF StartNote, Inspecting, Paying
  <1>4. CASE SaveTracking(h)
    <2>1. PICK status : SaveStatus(h, "tracking", status)
      BY <1>4 DEF SaveTracking
    <2> QED
      BY <2>1, SaveStatusBounds
  <1>5. CASE SaveInspected(h)
    BY <1>5, GoOnBounds DEF SaveInspected, At, Inspecting, Paying
  <1>6. CASE SaveReport(h)
    BY <1>6, SaveReportBounds
  <1>7. CASE SaveNote(h)
    BY <1>7, DoneBounds DEF SaveNote, BoundInv
  <1> QED
    BY <1>1, <1>2, <1>3, <1>4, <1>5, <1>6, <1>7 DEF Warehouse

LEMMA ProcessRefundBounds ==
    ASSUME TypeInv, TaskInv, BoundInv, NEW h \in Handlers, ProcessRefund(h)
    PROVE  BoundInv'
  <1>1. CASE \E r \in Requests : StartRefund(h, r)
    BY <1>1, StartRefundBounds
  <1>2. CASE FindReport(h)
    <2>1. /\ UNCHANGED <<reports, refunds, asked, items, deaths>>
          /\ task[h].pc = "refund"
          /\ Goto(h, "pending") \/ Done(h)
      BY <1>2 DEF FindReport, At, tables
    <2> QED
      BY <2>1, GotoBounds, DoneBounds DEF Inspecting, Paying, BoundInv
  <1>3. CASE SaveRefundPending(h)
    <2>1. PICK copy : copy = [task[h].copy EXCEPT !.status = "refund_pending"]
      OBVIOUS
    <2>2. /\ GoOn(h, "pay", copy) /\ UNCHANGED <<reports, refunds, asked, items, deaths>>
          /\ task[h].pc = "pending"
      BY <1>3, <2>1 DEF SaveRefundPending, At
    <2> QED
      BY <2>2, GoOnBounds DEF Inspecting, Paying
  <1>4. CASE SaveRefunded(h)
    BY <1>4, GoOnBounds DEF SaveRefunded, At, Inspecting, Paying
  <1>5. CASE RefundedSaveFails(h)
    BY <1>5, GoOnBounds DEF RefundedSaveFails, At, Inspecting, Paying, tables
  <1>6. CASE SaveTransaction(h)
    BY <1>6, SaveTransactionBounds
  <1> QED
    BY <1>1, <1>2, <1>3, <1>4, <1>5, <1>6 DEF ProcessRefund

LEMMA BoundsStep == TypeInv /\ TaskInv /\ BoundInv /\ [Next]_vars => BoundInv'
  <1> SUFFICES ASSUME TypeInv, TaskInv, BoundInv, [Next]_vars
               PROVE  BoundInv'
    OBVIOUS
  <1>1. CASE UNCHANGED vars
    BY <1>1 DEF BoundInv, Working, vars, tables
  <1>2. CASE Next
    <2>1. PICK h \in Handlers :
              Submit(h) \/ Review(h) \/ Customer(h) \/ Warehouse(h) \/ ProcessRefund(h) \/ Die(h)
      BY <1>2 DEF Next
    <2>2. CASE Die(h)
      <3>1. /\ Done(h) /\ UNCHANGED <<reports, refunds, asked, items>>
            /\ deaths' \in 0 .. MaxDeaths
        BY <2>2, HandlersAssumption DEF Die, BoundInv, tables
      <3> QED
        BY <3>1, DoneBounds DEF BoundInv
    <2> QED
      BY <2>1, <2>2, SubmitBounds, ReviewBounds, CustomerBounds, WarehouseBounds, ProcessRefundBounds
  <1> QED
    BY <1>1, <1>2

LEMMA InitBounds == Init => BoundInv
  <1> SUFFICES ASSUME Init PROVE BoundInv
    OBVIOUS
  <1>1. \A r \in Requests : Working(Inspecting, r) = {} /\ Working(Paying, r) = {}
    BY DEF Init, Working, NoTask, Inspecting, Paying
  <1>2. Cardinality({}) = 0
    BY FS_EmptySet
  <1>3. Cardinality(Handlers) \in Nat
    BY WorkingFinite
  <1> QED
    BY <1>1, <1>2, <1>3, HandlersAssumption DEF Init, BoundInv, NoRefunds

\* The invariants make a return request what ReturnTypeOK says it is.
LEMMA ReturnTypes == TypeInv /\ TaskInv /\ BoundInv => ReturnTypeOK
  <1> SUFFICES ASSUME TypeInv, TaskInv, BoundInv PROVE ReturnTypeOK
    OBVIOUS
  <1>1. ASSUME NEW r \in Requests
        PROVE  /\ reports[r] \in 0 .. MaxInspections + Cardinality(Handlers)
               /\ refunds[r] \in [completed : 0 .. MaxRefunds, failed : 0 .. MaxRefunds]
    <2>1. /\ Cardinality(Working(Inspecting, r)) \in Nat /\ Cardinality(Working(Paying, r)) \in Nat
          /\ Cardinality(Handlers) \in Nat
      BY WorkingFinite
    <2>2. /\ refunds[r] \in [completed : Nat, failed : Nat] /\ reports[r] \in Nat
          /\ asked[r] \in 0 .. MaxRefunds
      BY DEF TypeInv, BoundInv
    <2>3. /\ reports[r] + Cardinality(Working(Inspecting, r)) <= MaxInspections + Cardinality(Handlers)
          /\ refunds[r].completed + refunds[r].failed + Cardinality(Working(Paying, r)) <= asked[r]
      BY DEF BoundInv
    <2>4. reports[r] \in 0 .. MaxInspections + Cardinality(Handlers)
      BY <2>1, <2>2, <2>3, HandlersAssumption
    <2>5. refunds[r].completed \in 0 .. MaxRefunds /\ refunds[r].failed \in 0 .. MaxRefunds
      BY <2>1, <2>2, <2>3, HandlersAssumption
    <2> QED
      BY <2>2, <2>4, <2>5
  <1>2. \A h \in Handlers :
            /\ task[h].copy \in Row \union {None}
            /\ task[h].pc \notin {"idle", "submit"} => request[task[h].req] # None
    BY NoneAssumption DEF TypeInv, TaskInv
  <1>3. reports \in [Requests -> 0 .. MaxInspections + Cardinality(Handlers)]
    BY <1>1 DEF TypeInv
  <1>4. refunds \in [Requests -> [completed : 0 .. MaxRefunds, failed : 0 .. MaxRefunds]]
    BY <1>1 DEF TypeInv
  <1> QED
    BY <1>2, <1>3, <1>4 DEF ReturnTypeOK, TypeInv, BoundInv

LEMMA ReturnTypesHold == Spec => []ReturnTypeOK
  BY InitFacts, InitBounds, BoundsStep, ReturnTypes, TypesHold, PTL DEF Spec

-----------------------------------------------------------------------------
(***************************************************************************)
(* Warranty tickets.                                                       *)
(***************************************************************************)

\* What a handler is doing, when there are n tickets: it is about an item, a
\* ticket it holds to save it, or a status it is about to log.
TicketTaskOK(t, n) ==
    /\ t.pc \in {"idle", "create", "log", "assign", "update"}
    /\ t.id \in 0 .. n
    /\ t.pc = "idle" <=> t = Warranty!NoTask
    /\ t.pc = "create" => t.about \in Items
    /\ t.pc = "log" => t.id # 0 /\ t.about \in Warranty!Statuses
    /\ t.pc \in {"assign", "update"} => t.id # 0 /\ t.copy \in Warranty!Row
    /\ t.copy # None => t.pc \in {"assign", "update"}

TicketTypes ==
    /\ ticket \in Seq(Warranty!Row)
    /\ Len(ticket) <= MaxTickets
    /\ log \in [1 .. MaxTickets -> SUBSET Warranty!Statuses]
    /\ DOMAIN ticketTask = Handlers
    /\ \A h \in Handlers :
        /\ TicketTaskOK(ticketTask[h], Len(ticket))
        /\ ticketTask[h].copy # None => ticketTask[h].copy.item = ticket[ticketTask[h].id].item
    /\ ticketRaces \subseteq {"row", "twin", "reopened"}
    /\ updates \in 0 .. MaxUpdates
    /\ ticketDeaths \in 0 .. MaxDeaths

\* Only the latest ticket of an item is open, and none is while a handler is
\* about to create another one; no two handlers are.
OpenInv ==
    ticketRaces \cap {"twin", "reopened"} = {} =>
        /\ \A i, j \in Warranty!Ids : i < j /\ ticket[i].item = ticket[j].item =>
                Warranty!Closed(ticket[i].status)
        /\ \A h \in Handlers, i \in Warranty!Ids :
                ticketTask[h].pc = "create" /\ ticketTask[h].about = ticket[i].item =>
                    Warranty!Closed(ticket[i].status)
        /\ \A g, h \in Handlers :
                /\ ticketTask[g].pc = "create" /\ ticketTask[h].pc = "create"
                /\ ticketTask[g].about = ticketTask[h].about
                => g = h

LEMMA TicketFacts ==
    /\ TicketTaskOK(Warranty!NoTask, 0)
    /\ Warranty!NoTask.pc = "idle" /\ Warranty!NoTask.copy = None /\ Warranty!NoTask.id = 0
  BY DEF TicketTaskOK, Warranty!NoTask

LEMMA TicketInit == Warranty!Init => TicketTypes /\ OpenInv /\ Warranty!StatusIsLogged
  <1> SUFFICES ASSUME Warranty!Init
               PROVE  TicketTypes /\ OpenInv /\ Warranty!StatusIsLogged
    OBVIOUS
  <1>1. PICK t : t = Warranty!NoTask
    OBVIOUS
  <1>2. TicketTaskOK(t, 0) /\ t.pc = "idle" /\ t.copy = None
    BY <1>1, TicketFacts
  <1>3. ticketTask = [h \in Handlers |-> t]
    BY <1>1 DEF Warranty!Init
  <1>4. ticket = <<>> /\ log = [i \in 1 .. MaxTickets |-> {}]
        /\ ticketRaces = {} /\ updates = 0 /\ ticketDeaths = 0
    BY DEF Warranty!Init
  <1>5. Warranty!Ids = {} /\ Len(ticket) = 0
    BY <1>4 DEF Warranty!Ids
  <1>6. TicketTypes
    BY <1>2, <1>3, <1>4, <1>5, TicketAssumption, HandlersAssumption DEF TicketTypes
  <1>7. OpenInv
    BY <1>2, <1>3, <1>5 DEF OpenInv
  <1>8. Warranty!StatusIsLogged
    BY <1>5 DEF Warranty!StatusIsLogged
  <1> QED
    BY <1>6, <1>7, <1>8

\* A step changes one handler's task.
LEMMA TicketTaskMoves ==
    ASSUME TicketTypes, NEW h \in Handlers, NEW t, ticketTask' = [ticketTask EXCEPT ![h] = t]
    PROVE  /\ DOMAIN ticketTask' = Handlers
           /\ ticketTask'[h] = t
           /\ \A g \in Handlers \ {h} : ticketTask'[g] = ticketTask[g]
  BY DEF TicketTypes

\* A handler that is done has no ticket and no status left to log.
LEMMA TicketDone ==
    ASSUME TicketTypes, NEW h \in Handlers, Warranty!Done(h)
    PROVE  /\ DOMAIN ticketTask' = Handlers
           /\ \A g \in Handlers \ {h} : ticketTask'[g] = ticketTask[g]
           /\ ticketTask'[h].pc = "idle" /\ ticketTask'[h].copy = None
           /\ \A n \in Nat : TicketTaskOK(ticketTask'[h], n)
  <1>1. PICK t : t = Warranty!NoTask
    OBVIOUS
  <1>2. ticketTask' = [ticketTask EXCEPT ![h] = t]
    BY <1>1 DEF Warranty!Done
  <1>3. TicketTaskOK(t, 0) /\ t.pc = "idle" /\ t.copy = None
    BY <1>1, TicketFacts
  <1>4. t.id = 0
    BY <1>1, TicketFacts
  <1>5. \A n \in Nat : TicketTaskOK(t, n)
    BY <1>3, <1>4 DEF TicketTaskOK
  <1> QED
    BY <1>2, <1>3, <1>5, TicketTaskMoves

\* The tasks that begin or go on, and what they are about.
CreateTask(i) == [Warranty!NoTask EXCEPT !.pc = "create", !.about = i]
LogTask(i, s) == [Warranty!NoTask EXCEPT !.pc = "log", !.id = i, !.about = s]
HoldTask(pc, i, row) == [Warranty!NoTask EXCEPT !.pc = pc, !.id = i, !.copy = row]

LEMMA CreateFacts ==
    ASSUME NEW n \in Nat, NEW i \in Items, NEW t, t = CreateTask(i)
    PROVE  TicketTaskOK(t, n) /\ t.pc = "create" /\ t.about = i /\ t.copy = None /\ t.id = 0
  <1>1. t = [pc |-> "create", about |-> i, id |-> 0, copy |-> None]
    BY DEF CreateTask, Warranty!NoTask
  <1>2. t # Warranty!NoTask
    BY <1>1, TicketFacts
  <1> QED
    BY <1>1, <1>2 DEF TicketTaskOK

LEMMA LogFacts ==
    ASSUME NEW n \in Nat, NEW i \in 1 .. n, NEW s \in Warranty!Statuses, NEW t, t = LogTask(i, s)
    PROVE  TicketTaskOK(t, n) /\ t.pc = "log" /\ t.about = s /\ t.copy = None /\ t.id = i
  <1>1. t = [pc |-> "log", about |-> s, id |-> i, copy |-> None]
    BY DEF LogTask, Warranty!NoTask
  <1>2. t # Warranty!NoTask
    BY <1>1, TicketFacts
  <1> QED
    BY <1>1, <1>2 DEF TicketTaskOK

LEMMA HoldFacts ==
    ASSUME NEW n \in Nat, NEW i \in 1 .. n, NEW row \in Warranty!Row,
           NEW pc \in {"assign", "update"}, NEW t, t = HoldTask(pc, i, row)
    PROVE  TicketTaskOK(t, n) /\ t.pc = pc /\ t.copy = row /\ t.id = i
  <1>1. t = [pc |-> pc, about |-> None, id |-> i, copy |-> row]
    BY DEF HoldTask, Warranty!NoTask
  <1>2. t # Warranty!NoTask
    BY <1>1, TicketFacts
  <1> QED
    BY <1>1, <1>2 DEF TicketTaskOK

\* What a handler is doing stays right when tickets are added.
LEMMA TicketTaskGrows ==
    ASSUME NEW t, NEW n \in Nat, NEW m \in Nat, n <= m, TicketTaskOK(t, n)
    PROVE  TicketTaskOK(t, m)
  BY DEF TicketTaskOK

LEMMA CheckExistingKeeps ==
    ASSUME TicketTypes, OpenInv, Warranty!StatusIsLogged,
           NEW h \in Handlers, NEW i \in Items, Warranty!CheckExisting(h, i)
    PROVE  TicketTypes' /\ OpenInv' /\ Warranty!StatusIsLogged'
  <1>0. PICK t : t = CreateTask(i)
    OBVIOUS
  <1>1. TicketTaskOK(t, Len(ticket)) /\ t.pc = "create" /\ t.about = i /\ t.copy = None /\ t.id = 0
    BY <1>0, CreateFacts DEF TicketTypes
  <1>2. ticketTask' = [ticketTask EXCEPT ![h] = t]
    BY <1>0 DEF Warranty!CheckExisting, CreateTask
  <1>3. /\ DOMAIN ticketTask' = Handlers /\ ticketTask'[h] = t
        /\ \A g \in Handlers \ {h} : ticketTask'[g] = ticketTask[g]
    BY <1>2, TicketTaskMoves
  <1>4. UNCHANGED <<ticket, log, updates, ticketDeaths>> /\ ticketTask[h].pc = "idle"
    BY DEF Warranty!CheckExisting, Warranty!At
  <1>5. /\ ticketRaces \subseteq ticketRaces' /\ ticketRaces' \subseteq ticketRaces \union {"twin"}
        /\ "twin" \notin ticketRaces' =>
                \A g \in Handlers \ {h} : ~(ticketTask[g].pc = "create" /\ ticketTask[g].about = i)
    BY DEF Warranty!CheckExisting, Warranty!Others
  <1>6. TicketTypes'
    BY <1>1, <1>3, <1>4, <1>5 DEF TicketTypes
  <1>7. ASSUME ticketRaces \cap {"twin", "reopened"} = {}, NEW j \in Warranty!Ids, ticket[j].item = i
        PROVE  Warranty!Closed(ticket[j].status)
    <2>1. \A k \in Warranty!TicketsOf(i) :
            (\A u \in Warranty!TicketsOf(i) : u <= k) => Warranty!Closed(ticket[k].status)
      BY DEF Warranty!CheckExisting
    <2>2. Warranty!Ids = 1 .. Len(ticket) /\ Len(ticket) \in Nat
      BY DEF TicketTypes, Warranty!Ids
    <2>3. CASE \E k \in Warranty!TicketsOf(i) : j < k
      BY <1>7, <2>3 DEF OpenInv, Warranty!TicketsOf
    <2>4. CASE \A k \in Warranty!TicketsOf(i) : k <= j
      BY <1>7, <2>1, <2>4 DEF Warranty!TicketsOf
    <2> QED
      BY <2>2, <2>3, <2>4 DEF Warranty!TicketsOf
  <1>8. Warranty!Ids' = Warranty!Ids
    BY <1>4 DEF Warranty!Ids
  <1>9. OpenInv'
    BY <1>1, <1>3, <1>4, <1>5, <1>7, <1>8 DEF OpenInv, Warranty!Closed
  <1>10. Warranty!StatusIsLogged'
    BY <1>1, <1>3, <1>4, <1>8 DEF Warranty!StatusIsLogged, Warranty!At
  <1> QED
    BY <1>6, <1>9, <1>10

LEMMA SaveTicketKeeps ==
    ASSUME TicketTypes, OpenInv, Warranty!StatusIsLogged,
           NEW h \in Handlers, Warranty!SaveTicket(h)
    PROVE  TicketTypes' /\ OpenInv' /\ Warranty!StatusIsLogged'
  <1> DEFINE n == Len(ticket) + 1
             i == ticketTask[h].about
  <1>0. Len(ticket) \in Nat /\ n \in Nat /\ Warranty!Ids = 1 .. Len(ticket) /\ n <= MaxTickets
    BY TicketAssumption DEF TicketTypes, Warranty!SaveTicket, Warranty!Ids
  <1>1. PICK row : row = [item |-> i, status |-> "pending", assigned |-> None]
    OBVIOUS
  <1>2. ticketTask[h].pc = "create" /\ i \in Items
    BY DEF Warranty!SaveTicket, Warranty!At, TicketTypes, TicketTaskOK
  <1>3. row \in Warranty!Row /\ row.item = i /\ row.status = "pending" /\ "pending" \in Warranty!Statuses
    BY <1>1, <1>2 DEF Warranty!Row, Warranty!Statuses
  <1>t. PICK t : t = LogTask(n, "pending")
    OBVIOUS
  <1>4. TicketTaskOK(t, n) /\ t.pc = "log" /\ t.about = "pending" /\ t.copy = None /\ t.id = n
    <2>1. n \in 1 .. n
      BY <1>0
    <2> HIDE DEF n
    <2> QED
      BY <1>0, <1>3, <1>t, <2>1, LogFacts
  <1>5. ticketTask' = [ticketTask EXCEPT ![h] = t]
    BY <1>t DEF Warranty!SaveTicket, LogTask
  <1>6. /\ DOMAIN ticketTask' = Handlers /\ ticketTask'[h] = t
        /\ \A g \in Handlers \ {h} : ticketTask'[g] = ticketTask[g]
    BY <1>5, TicketTaskMoves
  <1>7. UNCHANGED <<log, updates, ticketRaces, ticketDeaths>> /\ ticket' = Append(ticket, row)
    BY <1>1 DEF Warranty!SaveTicket
  <1>8. /\ ticket' \in Seq(Warranty!Row) /\ Len(ticket') = n
        /\ \A j \in Warranty!Ids : ticket'[j] = ticket[j]
        /\ ticket'[n] = row
        /\ Warranty!Ids' = Warranty!Ids \union {n}
    BY <1>0, <1>3, <1>7 DEF TicketTypes, Warranty!Ids
  <1>9. TicketTypes'
    <2>1. ASSUME NEW g \in Handlers
          PROVE  TicketTaskOK(ticketTask'[g], n)
      BY <1>0, <1>4, <1>6, TicketTaskGrows DEF TicketTypes
    <2>2. ASSUME NEW g \in Handlers, ticketTask'[g].copy # None
          PROVE  ticketTask'[g].copy.item = ticket'[ticketTask'[g].id].item
      <3>1. ticketTask'[g] = ticketTask[g]
        BY <1>4, <1>6, <2>2
      <3>2. TicketTaskOK(ticketTask[g], Len(ticket))
        BY DEF TicketTypes
      <3>3. ticketTask[g].id \in Warranty!Ids
        BY <1>0, <2>2, <3>1, <3>2 DEF TicketTaskOK
      <3> QED
        BY <1>8, <2>2, <3>1, <3>3 DEF TicketTypes
    <2> QED
      BY <1>0, <1>6, <1>7, <1>8, <2>1, <2>2 DEF TicketTypes
  <1>10. OpenInv'
    <2> SUFFICES ASSUME ticketRaces \cap {"twin", "reopened"} = {}
                 PROVE  OpenInv'
      BY <1>7 DEF OpenInv
    <2>1. \A j \in Warranty!Ids : ticket[j].item = i => Warranty!Closed(ticket[j].status)
      BY <1>2 DEF OpenInv
    <2>2. \A g \in Handlers \ {h} : ~(ticketTask[g].pc = "create" /\ ticketTask[g].about = i)
      BY <1>2 DEF OpenInv
    <2> QED
      BY <1>0, <1>3, <1>4, <1>6, <1>8, <2>1, <2>2 DEF OpenInv, Warranty!Closed
  <1>11. Warranty!StatusIsLogged'
    <2> SUFFICES ASSUME ticketDeaths = 0, NEW j \in Warranty!Ids \union {n}
                 PROVE  \/ ticket'[j].status \in log[j]
                        \/ \E g \in Handlers : ticketTask'[g].id = j /\ ticketTask'[g].pc = "log"
                                /\ ticketTask'[g].about = ticket'[j].status
      BY <1>7, <1>8 DEF Warranty!StatusIsLogged, Warranty!At
    <2>1. CASE j = n
      BY <1>3, <1>4, <1>6, <1>8, <2>1
    <2>2. CASE j \in Warranty!Ids
      BY <1>2, <1>6, <1>8, <2>2 DEF Warranty!StatusIsLogged, Warranty!At
    <2> QED
      BY <2>1, <2>2
  <1> QED
    BY <1>9, <1>10, <1>11

LEMMA SaveLogKeeps ==
    ASSUME TicketTypes, OpenInv, Warranty!StatusIsLogged,
           NEW h \in Handlers, Warranty!SaveLog(h)
    PROVE  TicketTypes' /\ OpenInv' /\ Warranty!StatusIsLogged'
  <1>1. PICK i : i = ticketTask[h].id
    OBVIOUS
  <1>2. PICK s : s = ticketTask[h].about
    OBVIOUS
  <1>3. /\ ticketTask[h].pc = "log" /\ Warranty!Done(h)
        /\ log' = [log EXCEPT ![i] = @ \union {s}]
        /\ UNCHANGED <<ticket, updates, ticketRaces, ticketDeaths>>
    BY <1>1, <1>2 DEF Warranty!SaveLog, Warranty!At
  <1>4. /\ DOMAIN ticketTask' = Handlers
        /\ \A g \in Handlers \ {h} : ticketTask'[g] = ticketTask[g]
        /\ ticketTask'[h].pc = "idle" /\ ticketTask'[h].copy = None
        /\ \A n \in Nat : TicketTaskOK(ticketTask'[h], n)
    BY <1>3, TicketDone
  <1>5. s \in Warranty!Statuses /\ i \in 1 .. MaxTickets /\ Len(ticket) \in Nat
    BY <1>1, <1>2, <1>3, TicketAssumption DEF TicketTypes, TicketTaskOK
  <1>6. TicketTypes'
    BY <1>3, <1>4, <1>5 DEF TicketTypes
  <1>7. Warranty!Ids' = Warranty!Ids /\ Warranty!Ids \subseteq 1 .. MaxTickets
    BY <1>3, <1>5, TicketAssumption DEF Warranty!Ids, TicketTypes
  <1>8. OpenInv'
    BY <1>3, <1>4, <1>7 DEF OpenInv, Warranty!Closed
  <1>9. Warranty!StatusIsLogged'
    <2> SUFFICES ASSUME ticketDeaths = 0, NEW j \in Warranty!Ids
                 PROVE  \/ ticket[j].status \in log'[j]
                        \/ \E g \in Handlers : ticketTask'[g].id = j /\ ticketTask'[g].pc = "log"
                                /\ ticketTask'[g].about = ticket[j].status
      BY <1>3, <1>7 DEF Warranty!StatusIsLogged, Warranty!At
    <2>1. CASE ticket[j].status \in log[j]
      BY <1>3, <1>5, <1>7, <2>1 DEF TicketTypes
    <2>2. ASSUME NEW g \in Handlers, ticketTask[g].id = j, ticketTask[g].pc = "log",
                 ticketTask[g].about = ticket[j].status
          PROVE  \/ ticket[j].status \in log'[j]
                 \/ ticketTask'[g].id = j /\ ticketTask'[g].pc = "log"
                        /\ ticketTask'[g].about = ticket[j].status
      BY <1>1, <1>2, <1>3, <1>4, <1>5, <2>2 DEF TicketTypes
    <2> QED
      BY <2>1, <2>2 DEF Warranty!StatusIsLogged, Warranty!At
  <1> QED
    BY <1>6, <1>8, <1>9

\* A handler that was idle begins with a ticket: to save it, or to log a status of it.
LEMMA BeginKeeps ==
    ASSUME TicketTypes, OpenInv, Warranty!StatusIsLogged, NEW h \in Handlers, NEW t,
           ticketTask[h].pc = "idle", TicketTaskOK(t, Len(ticket)), t.pc # "create",
           t.copy # None => t.copy.item = ticket[t.id].item,
           ticketTask' = [ticketTask EXCEPT ![h] = t], Warranty!CountUpdate,
           UNCHANGED <<ticket, log, ticketDeaths>>,
           ticketRaces \subseteq ticketRaces', ticketRaces' \subseteq ticketRaces \union {"row"}
    PROVE  TicketTypes' /\ OpenInv' /\ Warranty!StatusIsLogged'
  <1>1. /\ DOMAIN ticketTask' = Handlers /\ ticketTask'[h] = t
        /\ \A g \in Handlers \ {h} : ticketTask'[g] = ticketTask[g]
    BY TicketTaskMoves
  <1>2. updates' \in 0 .. MaxUpdates
    BY TicketAssumption DEF Warranty!CountUpdate, TicketTypes
  <1>3. TicketTypes'
    BY <1>1, <1>2 DEF TicketTypes
  <1>4. Warranty!Ids' = Warranty!Ids
    BY DEF Warranty!Ids
  <1>5. OpenInv'
    BY <1>1, <1>4 DEF OpenInv, Warranty!Closed
  <1>6. Warranty!StatusIsLogged'
    BY <1>1, <1>4 DEF Warranty!StatusIsLogged, Warranty!At
  <1> QED
    BY <1>3, <1>5, <1>6

LEMMA TicketLoadKeeps ==
    ASSUME TicketTypes, OpenInv, Warranty!StatusIsLogged, NEW h \in Handlers,
           NEW i \in Warranty!Ids, NEW pc \in {"assign", "update"}, Warranty!Load(h, pc, i)
    PROVE  TicketTypes' /\ OpenInv' /\ Warranty!StatusIsLogged'
  <1>1. PICK t : t = HoldTask(pc, i, ticket[i])
    OBVIOUS
  <1>2. ticket[i] \in Warranty!Row /\ i \in 1 .. Len(ticket) /\ Len(ticket) \in Nat
    BY DEF Warranty!Ids, TicketTypes
  <1>3. TicketTaskOK(t, Len(ticket)) /\ t.pc = pc /\ t.copy = ticket[i] /\ t.id = i
    BY <1>1, <1>2, HoldFacts
  <1>4. /\ ticketTask[h].pc = "idle" /\ Warranty!CountUpdate
        /\ ticketTask' = [ticketTask EXCEPT ![h] = t]
        /\ UNCHANGED <<ticket, log, ticketDeaths>>
    BY <1>1 DEF Warranty!Load, Warranty!At, HoldTask
  <1>5. ticketRaces \subseteq ticketRaces' /\ ticketRaces' \subseteq ticketRaces \union {"row"}
    BY DEF Warranty!Load, Warranty!RowRace
  <1> QED
    BY <1>3, <1>4, <1>5, BeginKeeps

LEMMA AddRepairLogKeeps ==
    ASSUME TicketTypes, OpenInv, Warranty!StatusIsLogged, NEW h \in Handlers,
           NEW i \in Warranty!Ids, Warranty!AddRepairLog(h, i)
    PROVE  TicketTypes' /\ OpenInv' /\ Warranty!StatusIsLogged'
  <1>1. PICK s \in Changes : ticketTask' = [ticketTask EXCEPT ![h] = LogTask(i, s)]
    BY DEF Warranty!AddRepairLog, LogTask
  <1>2. PICK t : t = LogTask(i, s)
    OBVIOUS
  <1>3. i \in 1 .. Len(ticket) /\ Len(ticket) \in Nat /\ s \in Warranty!Statuses
    BY TicketAssumption DEF Warranty!Ids, TicketTypes
  <1>4. TicketTaskOK(t, Len(ticket)) /\ t.pc = "log" /\ t.copy = None
    BY <1>2, <1>3, LogFacts
  <1>5. /\ ticketTask[h].pc = "idle" /\ Warranty!CountUpdate
        /\ UNCHANGED <<ticket, log, ticketRaces, ticketDeaths>>
    BY DEF Warranty!AddRepairLog, Warranty!At
  <1> QED
    BY <1>1, <1>2, <1>4, <1>5, BeginKeeps

\* The save of a ticket that was loaded earlier, of the same item.
LEMMA TicketSaveKeeps ==
    ASSUME TicketTypes, OpenInv, Warranty!StatusIsLogged, NEW h \in Handlers, NEW row \in Warranty!Row,
           ticketTask[h].pc \in {"assign", "update"}, row.item = ticketTask[h].copy.item,
           Warranty!Save(h, row)
    PROVE  TicketTypes' /\ OpenInv' /\ Warranty!StatusIsLogged'
  <1>1. PICK i : i = ticketTask[h].id
    OBVIOUS
  <1>2. PICK t : t = LogTask(i, row.status)
    OBVIOUS
  <1>n. Len(ticket) \in Nat /\ Warranty!Ids = 1 .. Len(ticket)
    BY DEF TicketTypes, Warranty!Ids
  <1>3. /\ i \in 1 .. Len(ticket) /\ ticket[i] \in Warranty!Row
        /\ row.status \in Warranty!Statuses
        /\ row.item = ticket[i].item
    <2>1. TicketTaskOK(ticketTask[h], Len(ticket))
      BY DEF TicketTypes
    <2>2. ticketTask[h].copy # None /\ i \in 1 .. Len(ticket)
      BY <1>1, <1>n, <2>1, TicketAssumption DEF TicketTaskOK
    <2>3. row.item = ticket[i].item
      BY <1>1, <2>2 DEF TicketTypes
    <2>4. ticket[i] \in Warranty!Row
      BY <2>2 DEF TicketTypes
    <2>5. row.status \in Warranty!Statuses
      BY DEF Warranty!Row
    <2> QED
      BY <2>2, <2>3, <2>4, <2>5
  <1>4. TicketTaskOK(t, Len(ticket)) /\ t.pc = "log" /\ t.about = row.status /\ t.copy = None /\ t.id = i
    BY <1>2, <1>3, <1>n, LogFacts
  <1>5. ticketTask' = [ticketTask EXCEPT ![h] = t]
    BY <1>1, <1>2 DEF Warranty!Save, LogTask
  <1>6. /\ DOMAIN ticketTask' = Handlers /\ ticketTask'[h] = t
        /\ \A g \in Handlers \ {h} : ticketTask'[g] = ticketTask[g]
    BY <1>5, TicketTaskMoves
  <1>7. /\ ticket' = [ticket EXCEPT ![i] = row]
        /\ UNCHANGED <<log, updates, ticketDeaths>>
        /\ ticketRaces \subseteq ticketRaces' /\ ticketRaces' \subseteq ticketRaces \union {"reopened"}
        /\ "reopened" \notin ticketRaces' =>
                (Warranty!Closed(ticket[i].status) => Warranty!Closed(row.status))
    BY <1>1 DEF Warranty!Save
  <1>8. /\ ticket' \in Seq(Warranty!Row) /\ Len(ticket') = Len(ticket)
        /\ ticket'[i] = row
        /\ \A j \in Warranty!Ids \ {i} : ticket'[j] = ticket[j]
        /\ Warranty!Ids' = Warranty!Ids
    BY <1>3, <1>7 DEF TicketTypes, Warranty!Ids
  <1>9. \A j \in Warranty!Ids : ticket'[j].item = ticket[j].item
    BY <1>3, <1>8
  <1>10. TicketTypes'
    <2>1. ASSUME NEW g \in Handlers, ticketTask'[g].copy # None
          PROVE  ticketTask'[g].copy.item = ticket'[ticketTask'[g].id].item
      <3>1. ticketTask'[g] = ticketTask[g]
        BY <1>4, <1>6, <2>1
      <3>2. TicketTaskOK(ticketTask[g], Len(ticket))
        BY DEF TicketTypes
      <3>3. ticketTask[g].id \in Warranty!Ids
        BY <1>n, <2>1, <3>1, <3>2 DEF TicketTaskOK
      <3> QED
        BY <1>9, <2>1, <3>1, <3>3 DEF TicketTypes
    <2> QED
      BY <1>4, <1>6, <1>7, <1>8, <2>1 DEF TicketTypes
  <1>11. OpenInv'
    <2> SUFFICES ASSUME ticketRaces' \cap {"twin", "reopened"} = {}
                 PROVE  OpenInv'
      BY DEF OpenInv
    <2>1. ticketRaces \cap {"twin", "reopened"} = {}
      BY <1>7
    <2>2. \A j \in Warranty!Ids : Warranty!Closed(ticket[j].status) => Warranty!Closed(ticket'[j].status)
      BY <1>7, <1>8
    <2>3. \A j, k \in Warranty!Ids : j < k /\ ticket'[j].item = ticket'[k].item =>
                Warranty!Closed(ticket'[j].status)
      BY <1>9, <2>1, <2>2 DEF OpenInv
    <2>4. \A g \in Handlers : ticketTask'[g].pc = "create" => ticketTask'[g] = ticketTask[g]
      BY <1>4, <1>6
    <2>5. \A g \in Handlers, j \in Warranty!Ids :
                ticketTask'[g].pc = "create" /\ ticketTask'[g].about = ticket'[j].item =>
                    Warranty!Closed(ticket'[j].status)
      BY <1>9, <2>1, <2>2, <2>4 DEF OpenInv
    <2>6. \A f, g \in Handlers :
                /\ ticketTask'[f].pc = "create" /\ ticketTask'[g].pc = "create"
                /\ ticketTask'[f].about = ticketTask'[g].about
                => f = g
      BY <2>1, <2>4 DEF OpenInv
    <2> QED
      BY <1>8, <2>3, <2>5, <2>6 DEF OpenInv, Warranty!Closed
  <1>12. Warranty!StatusIsLogged'
    <2> SUFFICES ASSUME ticketDeaths = 0, NEW j \in Warranty!Ids
                 PROVE  \/ ticket'[j].status \in log[j]
                        \/ \E g \in Handlers : ticketTask'[g].id = j /\ ticketTask'[g].pc = "log"
                                /\ ticketTask'[g].about = ticket'[j].status
      BY <1>7, <1>8 DEF Warranty!StatusIsLogged, Warranty!At
    <2>1. CASE j = i
      BY <1>4, <1>6, <1>8, <2>1
    <2>2. CASE j # i
      BY <1>6, <1>8, <2>2 DEF Warranty!StatusIsLogged, Warranty!At
    <2> QED
      BY <2>1, <2>2
  <1> QED
    BY <1>10, <1>11, <1>12

LEMMA TicketDieKeeps ==
    ASSUME TicketTypes, OpenInv, NEW h \in Handlers, Warranty!Die(h)
    PROVE  TicketTypes' /\ OpenInv' /\ Warranty!StatusIsLogged'
  <1>1. /\ Warranty!Done(h) /\ UNCHANGED <<ticket, log, updates, ticketRaces>>
        /\ ticketDeaths' = ticketDeaths + 1 /\ ticketDeaths < MaxDeaths
    BY DEF Warranty!Die
  <1>2. /\ DOMAIN ticketTask' = Handlers
        /\ \A g \in Handlers \ {h} : ticketTask'[g] = ticketTask[g]
        /\ ticketTask'[h].pc = "idle" /\ ticketTask'[h].copy = None
        /\ \A n \in Nat : TicketTaskOK(ticketTask'[h], n)
    BY <1>1, TicketDone
  <1>3. ticketDeaths' \in 0 .. MaxDeaths /\ ticketDeaths' # 0
    BY <1>1, HandlersAssumption DEF TicketTypes
  <1>4. TicketTypes'
    BY <1>1, <1>2, <1>3 DEF TicketTypes
  <1>5. OpenInv'
    BY <1>1, <1>2 DEF OpenInv, Warranty!Ids, Warranty!Closed
  <1>6. Warranty!StatusIsLogged'
    BY <1>3 DEF Warranty!StatusIsLogged
  <1> QED
    BY <1>4, <1>5, <1>6

LEMMA TicketStep ==
    TicketTypes /\ OpenInv /\ Warranty!StatusIsLogged /\ [Warranty!Next]_Warranty!vars
        => TicketTypes' /\ OpenInv' /\ Warranty!StatusIsLogged'
  <1> SUFFICES ASSUME TicketTypes, OpenInv, Warranty!StatusIsLogged, [Warranty!Next]_Warranty!vars
               PROVE  TicketTypes' /\ OpenInv' /\ Warranty!StatusIsLogged'
    OBVIOUS
  <1>1. CASE UNCHANGED Warranty!vars
    BY <1>1 DEF Warranty!vars, TicketTypes, OpenInv, Warranty!StatusIsLogged, Warranty!Ids,
                Warranty!Closed, Warranty!At
  <1>2. ASSUME NEW h \in Handlers, Warranty!SaveAssigned(h)
        PROVE  TicketTypes' /\ OpenInv' /\ Warranty!StatusIsLogged'
    <2>1. PICK copy : copy = ticketTask[h].copy
      OBVIOUS
    <2>2. ticketTask[h].pc = "assign" /\ copy \in Warranty!Row
      BY <1>2, <2>1 DEF Warranty!SaveAssigned, Warranty!At, TicketTypes, TicketTaskOK
    <2>3. PICK t \in Technicians :
            Warranty!Save(h, [copy EXCEPT !.assigned = t, !.status = IF @ = "pending" THEN "received" ELSE @])
      BY <1>2, <2>1 DEF Warranty!SaveAssigned
    <2>4. PICK row : row = [copy EXCEPT !.assigned = t, !.status = IF @ = "pending" THEN "received" ELSE @]
      OBVIOUS
    <2>5. row \in Warranty!Row /\ row.item = copy.item
      BY <2>2, <2>4 DEF Warranty!Row, Warranty!Statuses
    <2> QED
      BY <2>1, <2>2, <2>3, <2>4, <2>5, TicketSaveKeeps
  <1>3. ASSUME NEW h \in Handlers, Warranty!SaveUpdated(h)
        PROVE  TicketTypes' /\ OpenInv' /\ Warranty!StatusIsLogged'
    <2>1. PICK copy : copy = ticketTask[h].copy
      OBVIOUS
    <2>2. ticketTask[h].pc = "update" /\ copy \in Warranty!Row
      BY <1>3, <2>1 DEF Warranty!SaveUpdated, Warranty!At, TicketTypes, TicketTaskOK
    <2>3. PICK s \in Changes : Warranty!Save(h, [copy EXCEPT !.status = s])
      BY <1>3, <2>1 DEF Warranty!SaveUpdated
    <2>4. PICK row : row = [copy EXCEPT !.status = s]
      OBVIOUS
    <2>5. row \in Warranty!Row /\ row.item = copy.item
      BY <2>2, <2>4, TicketAssumption DEF Warranty!Row
    <2> QED
      BY <2>1, <2>2, <2>3, <2>4, <2>5, TicketSaveKeeps
  <1>4. ASSUME NEW h \in Handlers, NEW i \in Warranty!Ids, NEW actor,
               Warranty!LoadToAssign(h, i) \/ Warranty!LoadToUpdate(h, i, actor)
        PROVE  TicketTypes' /\ OpenInv' /\ Warranty!StatusIsLogged'
    BY <1>4, TicketLoadKeeps DEF Warranty!LoadToAssign, Warranty!LoadToUpdate
  <1>5. CASE Warranty!Next
    BY <1>2, <1>3, <1>4, <1>5, CheckExistingKeeps, SaveTicketKeeps, SaveLogKeeps, AddRepairLogKeeps,
       TicketDieKeeps DEF Warranty!Next, Warranty!Create, Warranty!Assign, Warranty!Update
  <1> QED
    BY <1>1, <1>5

LEMMA TicketsHold == Warranty!Spec => [](TicketTypes /\ OpenInv /\ Warranty!StatusIsLogged)
  BY TicketInit, TicketStep, PTL DEF Warranty!Spec

LEMMA CountsAlike == \A S : Warranty!Cardinality(S) = Cardinality(S)
  BY DEF Cardinality, Warranty!Cardinality

\* An item never has two open tickets, however many requests open tickets, assign
\* them and change their status at the same time and wherever they die, unless two
\* were opened at the same moment or a closed one was given an open status again.
THEOREM OneIsOpen == AfterSales => []OneOpenTicket
  <1>1. TicketTypes /\ OpenInv => OneOpenTicket
    <2> SUFFICES ASSUME TicketTypes, OpenInv, ticketRaces \cap {"twin", "reopened"} = {}, NEW i \in Items
                 PROVE  Cardinality({t \in Warranty!TicketsOf(i) : ~Warranty!Closed(ticket[t].status)}) <= 1
      BY CountsAlike DEF OneOpenTicket, Warranty!OneOpenTicket
    <2> DEFINE Open == {t \in Warranty!TicketsOf(i) : ~Warranty!Closed(ticket[t].status)}
    <2>1. CASE Open = {}
      BY <2>1, FS_EmptySet
    <2>2. ASSUME NEW t \in Open
          PROVE  Cardinality(Open) <= 1
      <3>1. ASSUME NEW u \in Open
            PROVE  u = t
        <4>1. t \in Warranty!Ids /\ u \in Warranty!Ids /\ ticket[t].item = ticket[u].item
          BY DEF Warranty!TicketsOf
        <4>2. t \in Nat /\ u \in Nat
          BY <4>1 DEF Warranty!Ids, TicketTypes
        <4>3. ~(t < u) /\ ~(u < t)
          BY <4>1 DEF OpenInv
        <4> QED
          BY <4>2, <4>3
      <3>2. Open = {t}
        BY <2>2, <3>1
      <3>3. Cardinality({t}) = 1
        BY FS_Singleton
      <3>4. Cardinality(Open) = 1
        BY <3>2, <3>3
      <3> HIDE DEF Open
      <3> QED
        BY <3>4
    <2> QED
      BY <2>1, <2>2
  <1> QED
    BY <1>1, TicketsHold, PartsRun, PTL

\* Every status a ticket shows has been logged or is about to be, whatever stale
\* saves bring back, unless a handler died between the ticket and its log.
THEOREM StatusesAreLogged == AfterSales => []StatusIsLogged
  <1>1. Warranty!StatusIsLogged => StatusIsLogged
    BY DEF StatusIsLogged
  <1> QED
    BY <1>1, TicketsHold, PartsRun, PTL

-----------------------------------------------------------------------------
(***************************************************************************)
(* Shipments.                                                              *)
(***************************************************************************)
Names == {Providers[k] : k \in DOMAIN Providers}
Rows == MaxShipments + MaxReturns

ShipRow == [provider : Names, tracking : Nat, status : Shipping!Statuses, cod : Shipping!CodStatuses,
            retries : {0, None}]

Creating == {"book", "save", "history"}
Loaded == {"ask", "refresh", "cancel", "cancelled", "return"}
Storing == {"event", "store"}

\* What a handler is doing, when there are n shipments and m bookings.
ShipTaskOK(t, n, m) ==
    /\ DOMAIN t = {"pc", "id", "row", "turn", "heard"}
    /\ t.pc \in {"idle"} \union Creating \union Loaded \union Storing
    /\ t.id \in 0 .. n
    /\ t.turn \in Nat \ {0}
    /\ t.row # None <=> t.pc \in Creating \union Loaded
    /\ t.row # None => t.row \in ShipRow /\ t.row.tracking <= m
    /\ t.pc \in Loaded \union Storing \union {"history"} => t.id # 0
    /\ t.pc \in Loaded \union {"history"} => t.row.retries = 0
    /\ t.pc \in {"save", "history", "ask", "refresh"} => t.row.tracking # 0
    /\ t.pc \in Storing \union {"refresh"} => t.heard \in Seq(Shipping!Events)
    /\ t.pc \in Storing => t.turn <= m
    /\ t.pc = "store" => t.heard # <<>>

ShippingTypes ==
    /\ shipment \in Seq(ShipRow)
    /\ Len(shipment) <= Rows
    /\ \A i \in Shipping!Ids : shipment[i].tracking <= Len(booked) /\ shipment[i].retries = 0
    /\ history \in [1 .. Rows -> SUBSET Shipping!Events]
    /\ booked \in Seq(Names)
    /\ cached \subseteq 1 .. Len(booked)
    /\ blamed \subseteq 1 .. Len(booked)
    /\ DOMAIN shipTask = Handlers
    /\ \A h \in Handlers : ShipTaskOK(shipTask[h], Len(shipment), Len(booked))

\* No other handler has the entity of shipment i.
HeldAlone(h, i) == \A g \in Handlers \ {h} : ~(shipTask[g].row # None /\ shipTask[g].id = i)

\* Until two handlers have held one shipment, what a handler holds is booked as
\* the stored row is, unless that booking is blamed; it is when a handler goes
\* back to book the shipment again.
BookedInv ==
    "row" \notin shipRaces =>
        /\ \A h \in Handlers : shipTask[h].row # None /\ shipTask[h].id # 0 =>
            LET n == shipment[shipTask[h].id].tracking IN
            /\ HeldAlone(h, shipTask[h].id)
            /\ n = shipTask[h].row.tracking \/ n \in blamed
            /\ shipTask[h].pc \in {"book", "save"} => n \in blamed
        /\ \A n \in 1 .. Len(booked) : Shipping!Recorded(n) \/ Shipping!Carried(n) \/ n \in blamed

\* The tracking number of the shipment a handler has, in its entity or beside the events.
Number(t) == IF t.row # None THEN t.row.tracking ELSE IF t.pc \in Storing THEN t.turn ELSE 0

\* The events it has still to look for, and a shipment all of whose events are stored.
Left(t) == {t.heard[k] : k \in 1 .. Len(t.heard)}
Whole(i) == Shipping!Events \subseteq history[i]

\* A tracking number is that of one shipment, whoever holds it.  While it is in the
\* cache that shipment is whole, and a handler that stores events has only those left
\* to store that it has still to look for.
CacheInv ==
    /\ \A i, j \in Shipping!Ids : shipment[i].tracking # 0 /\ shipment[i].tracking = shipment[j].tracking => i = j
    /\ \A h \in Handlers, i \in Shipping!Ids :
        Number(shipTask[h]) # 0 /\ shipment[i].tracking = Number(shipTask[h]) => i = shipTask[h].id
    /\ \A g, h \in Handlers : Number(shipTask[h]) # 0 /\ Number(shipTask[g]) = Number(shipTask[h]) =>
        shipTask[g].id = shipTask[h].id /\ (shipTask[h].id = 0 => g = h)
    /\ \A i \in Shipping!Ids : shipment[i].tracking \in cached => Whole(i)
    /\ \A h \in Handlers : Number(shipTask[h]) \in cached => shipTask[h].id # 0 /\ Whole(shipTask[h].id)
    /\ \A h \in Handlers : shipTask[h].pc \in Storing \union {"refresh"} =>
        Shipping!Events \ Left(shipTask[h]) \subseteq history[shipTask[h].id]

ShipInv == ShippingTypes /\ BookedInv /\ CacheInv

LEMMA ShipFacts ==
    /\ ShipTaskOK(Shipping!NoTask, 0, 0)
    /\ Shipping!NoTask.pc = "idle" /\ Shipping!NoTask.row = None /\ Shipping!NoTask.id = 0
  BY DEF ShipTaskOK, Shipping!NoTask, Creating, Loaded, Storing

LEMMA ShipNumbers ==
    /\ Rows \in Nat
    /\ Len(Providers) \in Nat \ {0} /\ DOMAIN Providers = 1 .. Len(Providers)
    /\ \A k \in 1 .. Len(Providers) : Providers[k] \in Names
  BY ShippingAssumption DEF Rows, Names

\* What getTracking answers with: every event.
LEMMA JourneyFacts ==
    /\ Shipping!Journey \in Seq(Shipping!Events)
    /\ \A e \in Shipping!Events : \E k \in 1 .. Len(Shipping!Journey) : Shipping!Journey[k] = e
  <1>1. Len(Shipping!Journey) = 3 /\ Shipping!Journey \in Seq(Shipping!Events)
    BY DEF Shipping!Journey, Shipping!Events
  <1>2. /\ Shipping!Journey[1] = "created" /\ Shipping!Journey[2] = "picked_up"
        /\ Shipping!Journey[3] = "in_transit"
    BY DEF Shipping!Journey
  <1> QED
    BY <1>1, <1>2 DEF Shipping!Events

\* An event left to look for is the first one, or is left after it.
LEMMA LeftFacts ==
    ASSUME NEW u, NEW t, u.heard \in Seq(Shipping!Events), u.heard # <<>>, t.heard = Tail(u.heard)
    PROVE  Left(u) \subseteq {Head(u.heard)} \union Left(t)
  <1>1. PICK s \in Seq(Shipping!Events) : s = u.heard
    OBVIOUS
  <1>2. /\ Len(s) \in Nat \ {0} /\ Len(Tail(s)) = Len(s) - 1 /\ Head(s) = s[1]
        /\ \A k \in 1 .. Len(s) - 1 : Tail(s)[k] = s[k + 1]
    BY <1>1
  <1>3. ASSUME NEW k \in 1 .. Len(s), k # 1
        PROVE  s[k] \in Left(t)
    <2>1. k - 1 \in 1 .. Len(Tail(s)) /\ s[k] = Tail(s)[k - 1]
      BY <1>2, <1>3
    <2> QED
      BY <1>1, <2>1 DEF Left
  <1> QED
    BY <1>1, <1>2, <1>3 DEF Left

LEMMA ShipInit == Shipping!Init => ShipInv
  <1> SUFFICES ASSUME Shipping!Init
               PROVE  ShipInv
    OBVIOUS
  <1>1. PICK t : t = Shipping!NoTask
    OBVIOUS
  <1>2. ShipTaskOK(t, 0, 0) /\ t.pc = "idle" /\ t.row = None
    BY <1>1, ShipFacts
  <1>3. shipTask = [h \in Handlers |-> t]
    BY <1>1 DEF Shipping!Init
  <1>4. /\ shipment = <<>> /\ booked = <<>> /\ cached = {} /\ blamed = {}
        /\ history = [i \in 1 .. Rows |-> {}]
    BY DEF Shipping!Init, Rows
  <1>5. Shipping!Ids = {} /\ Len(shipment) = 0 /\ Len(booked) = 0
    BY <1>4 DEF Shipping!Ids
  <1>6. ShippingTypes
    <2>1. history \in [1 .. Rows -> SUBSET Shipping!Events]
      BY <1>4
    <2>2. shipment \in Seq(ShipRow) /\ booked \in Seq(Names) /\ 0 <= Rows
      BY <1>4, ShipNumbers
    <2> QED
      BY <1>2, <1>3, <1>4, <1>5, <2>1, <2>2 DEF ShippingTypes
  <1>7. BookedInv
    BY <1>2, <1>3, <1>5 DEF BookedInv
  <1>8. CacheInv
    BY <1>2, <1>3, <1>4, <1>5 DEF CacheInv, Number, Storing
  <1> QED
    BY <1>6, <1>7, <1>8 DEF ShipInv

\* A step changes one handler's task.
LEMMA ShipTaskMoves ==
    ASSUME ShippingTypes, NEW h \in Handlers, NEW t, shipTask' = [shipTask EXCEPT ![h] = t]
    PROVE  /\ DOMAIN shipTask' = Handlers
           /\ shipTask'[h] = t
           /\ \A g \in Handlers \ {h} : shipTask'[g] = shipTask[g]
  BY DEF ShippingTypes

\* What a handler is doing stays right when shipments and bookings are added.
LEMMA ShipTaskGrows ==
    ASSUME NEW t, NEW n \in Nat, NEW m \in Nat, NEW k \in Nat, NEW l \in Nat, n <= k, m <= l,
           ShipTaskOK(t, n, m)
    PROVE  ShipTaskOK(t, k, l)
  <1>1. t.row # None => t.row.tracking \in Nat
    BY DEF ShipTaskOK, ShipRow
  <1> QED
    BY <1>1 DEF ShipTaskOK

\* It puts the number of its shipment in the cache, is done with it, and has stored all its events.
Fills(h, t) ==
    /\ Number(t) = 0
    /\ shipTask[h].pc \in Storing
    /\ cached' = cached \union {Number(shipTask[h])}
    /\ Whole(shipTask[h].id)

\* What handler h does next, when it changes neither the shipments nor their events.
GoesOn(h, t) ==
    /\ shipTask' = [shipTask EXCEPT ![h] = t]
    /\ UNCHANGED <<shipment, history>>
    /\ booked' \in Seq(Names) /\ Len(booked) <= Len(booked')
    /\ blamed \subseteq blamed' /\ blamed' \subseteq 1 .. Len(booked')
    /\ cached' \subseteq 1 .. Len(booked')
    /\ cached' \subseteq cached \/ Fills(h, t)
    /\ shipRaces \subseteq shipRaces'
    /\ ShipTaskOK(t, Len(shipment), Len(booked'))

\* The row it holds then is one it may hold.
Holds(h, t) ==
    "row" \notin shipRaces' /\ t.row # None /\ t.id # 0 =>
        LET n == shipment[t.id].tracking IN
        /\ HeldAlone(h, t.id)
        /\ n = t.row.tracking \/ n \in blamed'
        /\ t.pc \in {"book", "save"} => n \in blamed'

\* Bookings it has made, or was about to save, are blamed or to be saved.
Books(h, t) ==
    /\ \A n \in 1 .. Len(booked') : n \in 1 .. Len(booked) \/ (t.pc = "save" /\ t.row.tracking = n)
    /\ shipTask[h].pc = "save" => shipTask[h].row.tracking \in blamed'

\* Its number is the one it had, that of the shipment it has now, or a new one; and it
\* looks for the events that are not stored.
Continues(h, t) ==
    /\ Number(t) # 0 =>
        \/ Number(t) = Number(shipTask[h]) /\ t.id = shipTask[h].id
        \/ t.id \in 1 .. Len(shipment) /\ Number(t) = shipment[t.id].tracking
        \/ Number(t) > Len(booked)
    /\ t.pc \in Storing \union {"refresh"} => Shipping!Events \ Left(t) \subseteq history[t.id]

\* The numbers are those of bookings.
LEMMA NumbersBooked ==
    ASSUME ShippingTypes
    PROVE  /\ \A i \in 1 .. Len(shipment) : shipment[i].tracking \in 0 .. Len(booked)
           /\ \A h \in Handlers : Number(shipTask[h]) \in 0 .. Len(booked)
  <1>1. Len(shipment) \in Nat /\ Len(booked) \in Nat /\ Shipping!Ids = 1 .. Len(shipment)
    BY DEF ShippingTypes, Shipping!Ids
  <1>2. ASSUME NEW i \in 1 .. Len(shipment)
        PROVE  shipment[i].tracking \in 0 .. Len(booked)
    <2>1. shipment[i] \in ShipRow /\ shipment[i].tracking <= Len(booked)
      BY <1>1 DEF ShippingTypes
    <2> QED
      BY <1>1, <2>1 DEF ShipRow
  <1>3. ASSUME NEW h \in Handlers
        PROVE  Number(shipTask[h]) \in 0 .. Len(booked)
    <2>1. ShipTaskOK(shipTask[h], Len(shipment), Len(booked))
      BY DEF ShippingTypes
    <2>2. CASE shipTask[h].row # None
      BY <1>1, <2>1, <2>2 DEF ShipTaskOK, ShipRow, Number
    <2>3. CASE shipTask[h].row = None
      BY <1>1, <2>1, <2>3 DEF ShipTaskOK, Number
    <2> QED
      BY <2>2, <2>3
  <1> QED
    BY <1>2, <1>3

LEMMA GoesOnKeeps ==
    ASSUME ShipInv, NEW h \in Handlers, NEW t,
           GoesOn(h, t), Holds(h, t), Books(h, t), Continues(h, t)
    PROVE  ShipInv'
  <1>1. ShippingTypes /\ BookedInv /\ CacheInv
    BY DEF ShipInv
  <1>2. /\ DOMAIN shipTask' = Handlers /\ shipTask'[h] = t
        /\ \A g \in Handlers \ {h} : shipTask'[g] = shipTask[g]
    BY <1>1, ShipTaskMoves DEF GoesOn
  <1>3. /\ UNCHANGED <<shipment, history>> /\ shipRaces \subseteq shipRaces' /\ blamed \subseteq blamed'
        /\ Len(booked) \in Nat /\ Len(booked') \in Nat /\ Len(booked) <= Len(booked')
        /\ Len(shipment) \in Nat
    BY <1>1 DEF GoesOn, ShippingTypes
  <1>4. Shipping!Ids' = Shipping!Ids /\ Shipping!Ids = 1 .. Len(shipment)
    BY <1>1, <1>3 DEF Shipping!Ids, ShippingTypes
  <1>5. ShippingTypes'
    <2>1. ASSUME NEW g \in Handlers
          PROVE  ShipTaskOK(shipTask'[g], Len(shipment), Len(booked'))
      <3>1. CASE g = h
        BY <1>2, <3>1 DEF GoesOn
      <3>2. CASE g # h
        <4>1. ShipTaskOK(shipTask[g], Len(shipment), Len(booked))
          BY <1>1 DEF ShippingTypes
        <4>2. ShipTaskOK(shipTask[g], Len(shipment), Len(booked'))
          BY <1>3, <4>1, ShipTaskGrows
        <4> QED
          BY <1>2, <3>2, <4>2
      <3> QED
        BY <3>1, <3>2
    <2>2. ASSUME NEW i \in Shipping!Ids
          PROVE  shipment[i].tracking \in Nat
      <3>1. shipment[i] \in ShipRow
        BY <1>1, <1>4 DEF ShippingTypes
      <3> QED
        BY <3>1 DEF ShipRow
    <2>3. \A i \in Shipping!Ids : shipment[i].tracking <= Len(booked') /\ shipment[i].retries = 0
      BY <1>1, <1>3, <2>2 DEF ShippingTypes
    <2>4. booked' \in Seq(Names) /\ cached' \subseteq 1 .. Len(booked') /\ blamed' \subseteq 1 .. Len(booked')
      BY DEF GoesOn
    <2>5. /\ shipment \in Seq(ShipRow) /\ Len(shipment) <= Rows
          /\ history \in [1 .. Rows -> SUBSET Shipping!Events]
      BY <1>1 DEF ShippingTypes
    <2>6. history' \in [1 .. Rows -> SUBSET Shipping!Events']
      BY <1>3, <2>5 DEF Shipping!Events
    <2> QED
      BY <1>2, <1>3, <1>4, <2>1, <2>3, <2>4, <2>5, <2>6 DEF ShippingTypes
  <1>6. BookedInv'
    <2> SUFFICES ASSUME "row" \notin shipRaces'
                 PROVE  BookedInv'
      BY DEF BookedInv
    <2>1. "row" \notin shipRaces
      BY <1>3
    <2>2. ASSUME NEW g \in Handlers, shipTask'[g].row # None, shipTask'[g].id # 0
          PROVE  /\ HeldAlone(g, shipTask[g].id)'
                 /\ shipment[shipTask'[g].id].tracking = shipTask'[g].row.tracking
                        \/ shipment[shipTask'[g].id].tracking \in blamed'
                 /\ shipTask'[g].pc \in {"book", "save"} => shipment[shipTask'[g].id].tracking \in blamed'
      <3>1. CASE g = h
        <4>1. /\ HeldAlone(h, t.id)
              /\ shipment[t.id].tracking = t.row.tracking \/ shipment[t.id].tracking \in blamed'
              /\ t.pc \in {"book", "save"} => shipment[t.id].tracking \in blamed'
          BY <1>2, <2>2, <3>1 DEF Holds
        <4>2. HeldAlone(h, shipTask[h].id)'
          BY <1>2, <4>1 DEF HeldAlone
        <4> QED
          BY <1>2, <3>1, <4>1, <4>2
      <3>2. CASE g # h
        <4>1. shipTask'[g] = shipTask[g]
          BY <1>2, <3>2
        <4>2. /\ HeldAlone(g, shipTask[g].id)
              /\ shipment[shipTask[g].id].tracking = shipTask[g].row.tracking
                    \/ shipment[shipTask[g].id].tracking \in blamed
              /\ shipTask[g].pc \in {"book", "save"} => shipment[shipTask[g].id].tracking \in blamed
          BY <1>1, <2>1, <2>2, <4>1 DEF BookedInv
        <4>3. ~(t.row # None /\ t.id = shipTask[g].id)
          BY <2>2, <3>2, <4>1 DEF Holds, HeldAlone
        <4>4. HeldAlone(g, shipTask[g].id)'
          BY <1>2, <4>1, <4>2, <4>3 DEF HeldAlone
        <4> QED
          BY <1>3, <4>1, <4>2, <4>4
      <3> QED
        BY <3>1, <3>2
    <2>3. ASSUME NEW n \in 1 .. Len(booked')
          PROVE  Shipping!Recorded(n)' \/ Shipping!Carried(n)' \/ n \in blamed'
      <3>1. CASE t.pc = "save" /\ t.row.tracking = n
        BY <1>2, <3>1 DEF Shipping!Carried, Shipping!At
      <3>2. CASE n \in 1 .. Len(booked)
        <4>1. CASE Shipping!Recorded(n)
          BY <1>3, <1>4, <4>1 DEF Shipping!Recorded
        <4>2. CASE n \in blamed
          BY <1>3, <4>2
        <4>3. ASSUME NEW g \in Handlers, shipTask[g].pc = "save", shipTask[g].row.tracking = n
              PROVE  Shipping!Carried(n)' \/ n \in blamed'
          BY <1>2, <4>3 DEF Books, Shipping!Carried, Shipping!At
        <4> QED
          BY <1>1, <2>1, <3>2, <4>1, <4>2, <4>3 DEF BookedInv, Shipping!Carried, Shipping!At
      <3> QED
        BY <3>1, <3>2 DEF Books
    <2> QED
      BY <1>3, <2>2, <2>3 DEF BookedInv
  <1>7. CacheInv'
    <2>1. \A g \in Handlers \ {h} : Number(shipTask'[g]) = Number(shipTask[g]) /\ shipTask'[g].id = shipTask[g].id
      BY <1>2
    <2>2. /\ \A i \in 1 .. Len(shipment) : shipment[i].tracking \in 0 .. Len(booked)
          /\ \A g \in Handlers : Number(shipTask[g]) \in 0 .. Len(booked)
      BY <1>1, NumbersBooked
    <2>3. \A i \in 1 .. Rows : Whole(i)' = Whole(i)
      BY <1>3 DEF Whole, Shipping!Events
    <2>4. ASSUME NEW i \in Shipping!Ids, Number(t) # 0, shipment[i].tracking = Number(t)
          PROVE  i = t.id
      BY <1>1, <1>3, <1>4, <2>2, <2>4 DEF Continues, CacheInv
    <2>5. ASSUME NEW g \in Handlers \ {h}, Number(t) # 0, Number(shipTask[g]) = Number(t)
          PROVE  shipTask[g].id = t.id /\ t.id # 0
      <3>1. CASE Number(t) = Number(shipTask[h]) /\ t.id = shipTask[h].id
        BY <1>1, <2>5, <3>1 DEF CacheInv
      <3>2. CASE t.id \in 1 .. Len(shipment) /\ Number(t) = shipment[t.id].tracking
        BY <1>1, <1>3, <1>4, <2>5, <3>2 DEF CacheInv
      <3>3. CASE Number(t) > Len(booked)
        BY <1>3, <2>2, <2>5, <3>3
      <3> QED
        BY <2>5, <3>1, <3>2, <3>3 DEF Continues
    <2>6. cached \subseteq 1 .. Len(booked)
      BY <1>1 DEF ShippingTypes
    <2>7. ASSUME NEW i \in Shipping!Ids, shipment[i].tracking \in cached'
          PROVE  Whole(i)
      <3>1. CASE shipment[i].tracking \in cached
        BY <1>1, <3>1 DEF CacheInv
      <3>2. CASE shipment[i].tracking \notin cached
        <4>1. Fills(h, t) /\ shipment[i].tracking = Number(shipTask[h])
          BY <2>7, <3>2 DEF GoesOn, Fills
        <4>2. Number(shipTask[h]) # 0
          BY <2>7, <1>5, <4>1 DEF ShippingTypes
        <4> QED
          BY <1>1, <4>1, <4>2 DEF CacheInv, Fills
      <3> QED
        BY <3>1, <3>2
    <2>8. ASSUME NEW g \in Handlers \ {h}, Number(shipTask[g]) \in cached'
          PROVE  shipTask[g].id # 0 /\ Whole(shipTask[g].id)
      <3>1. CASE Number(shipTask[g]) \in cached
        BY <1>1, <3>1 DEF CacheInv
      <3>2. CASE Number(shipTask[g]) \notin cached
        <4>1. Fills(h, t) /\ Number(shipTask[g]) = Number(shipTask[h])
          BY <2>8, <3>2 DEF GoesOn, Fills
        <4>2. Number(shipTask[h]) # 0
          BY <2>8, <1>5, <4>1 DEF ShippingTypes
        <4>3. shipTask[h].id # 0
          BY <4>1, <1>1 DEF Fills, ShippingTypes, ShipTaskOK
        <4> QED
          BY <1>1, <4>1, <4>2, <4>3 DEF CacheInv, Fills
      <3> QED
        BY <3>1, <3>2
    <2>9. ASSUME Number(t) \in cached'
          PROVE  t.id # 0 /\ Whole(t.id)
      <3>0. PICK n : n = Number(t)
        OBVIOUS
      <3>1. Number(t) # 0 /\ Number(t) \in cached
        <4>1. cached' \subseteq 1 .. Len(booked') /\ (cached' \subseteq cached \/ Fills(h, t))
          BY DEF GoesOn
        <4>2. n # 0
          BY <2>9, <3>0, <4>1
        <4>3. cached' \subseteq cached
          BY <3>0, <4>1, <4>2 DEF Fills
        <4> QED
          BY <2>9, <3>0, <4>2, <4>3
      <3>2. CASE Number(t) = Number(shipTask[h]) /\ t.id = shipTask[h].id
        BY <1>1, <3>1, <3>2 DEF CacheInv
      <3>3. CASE t.id \in 1 .. Len(shipment) /\ Number(t) = shipment[t.id].tracking
        BY <1>1, <1>3, <1>4, <3>1, <3>3 DEF CacheInv
      <3>4. CASE Number(t) > Len(booked)
        <4>1. PICK m \in Nat : m = Len(booked)
          BY <1>3
        <4>2. n > m
          BY ONLY <3>0, <3>4, <4>1
        <4>3. n \in 1 .. m
          BY <2>6, <3>0, <3>1, <4>1
        <4> QED
          BY ONLY <4>1, <4>2, <4>3
      <3> QED
        BY <3>1, <3>2, <3>3, <3>4 DEF Continues
    <2>10. ASSUME NEW g \in Handlers, shipTask'[g].pc \in Storing \union {"refresh"}
           PROVE  Shipping!Events \ Left(shipTask'[g]) \subseteq history[shipTask'[g].id]
      <3>1. CASE g = h
        BY <1>2, <2>10, <3>1 DEF Continues
      <3>2. CASE g # h
        <4>1. shipTask'[g] = shipTask[g]
          BY <1>2, <3>2
        <4> QED
          BY <1>1, <2>10, <4>1 DEF CacheInv
      <3> QED
        BY <3>1, <3>2
    <2>11. ASSUME NEW g \in Handlers, NEW k \in Handlers, Number(shipTask'[k]) # 0,
                  Number(shipTask'[g]) = Number(shipTask'[k])
           PROVE  shipTask'[g].id = shipTask'[k].id /\ (shipTask'[k].id = 0 => g = k)
      BY <1>1, <1>2, <2>1, <2>5, <2>11 DEF CacheInv
    <2>12. ASSUME NEW g \in Handlers, NEW i \in Shipping!Ids, Number(shipTask'[g]) # 0,
                  shipment[i].tracking = Number(shipTask'[g])
           PROVE  i = shipTask'[g].id
      BY <1>1, <1>2, <2>1, <2>4, <2>12 DEF CacheInv
    <2>13. ASSUME NEW g \in Handlers, Number(shipTask'[g]) \in cached'
           PROVE  shipTask'[g].id # 0 /\ Whole(shipTask'[g].id)
      BY <1>2, <2>1, <2>8, <2>9, <2>13
    <2>14. (\A i, j \in Shipping!Ids : shipment[i].tracking # 0 /\ shipment[i].tracking = shipment[j].tracking => i = j)'
      BY <1>1, <1>3, <1>4 DEF CacheInv
    <2>15. (\A g \in Handlers, i \in Shipping!Ids :
                Number(shipTask[g]) # 0 /\ shipment[i].tracking = Number(shipTask[g]) => i = shipTask[g].id)'
      BY <1>3, <1>4, <2>12
    <2>16. (\A g, k \in Handlers : Number(shipTask[k]) # 0 /\ Number(shipTask[g]) = Number(shipTask[k]) =>
                shipTask[g].id = shipTask[k].id /\ (shipTask[k].id = 0 => g = k))'
      BY <2>11
    <2>17. (\A i \in Shipping!Ids : shipment[i].tracking \in cached => Whole(i))'
      BY <1>3, <1>4, <2>7 DEF Whole, Shipping!Events
    <2>18. (\A g \in Handlers : Number(shipTask[g]) \in cached => shipTask[g].id # 0 /\ Whole(shipTask[g].id))'
      BY <1>3, <2>13 DEF Whole, Shipping!Events
    <2>19. (\A g \in Handlers : shipTask[g].pc \in Storing \union {"refresh"} =>
                Shipping!Events \ Left(shipTask[g]) \subseteq history[shipTask[g].id])'
      BY <1>3, <2>10 DEF Shipping!Events, Left
    <2> QED
      BY ONLY <2>14, <2>15, <2>16, <2>17, <2>18, <2>19 DEF CacheInv
  <1> QED
    BY <1>5, <1>6, <1>7 DEF ShipInv

\* The same when the handler leaves the bookings alone, and had none to save.
LEMMA StaysKeeps ==
    ASSUME ShipInv, NEW h \in Handlers, NEW t,
           shipTask' = [shipTask EXCEPT ![h] = t], UNCHANGED <<shipment, history, booked, cached, blamed>>,
           shipRaces \subseteq shipRaces', shipTask[h].pc # "save",
           ShipTaskOK(t, Len(shipment), Len(booked)), Holds(h, t), Continues(h, t)
    PROVE  ShipInv'
  <1>1. /\ booked \in Seq(Names) /\ blamed \subseteq 1 .. Len(booked) /\ cached \subseteq 1 .. Len(booked)
    BY DEF ShipInv, ShippingTypes
  <1>2. GoesOn(h, t)
    BY <1>1 DEF GoesOn
  <1>3. Books(h, t)
    BY DEF Books
  <1> QED
    BY <1>2, <1>3, GoesOnKeeps

\* A handler that keeps its shipment and the booking holds what it held.
LEMMA HoldsOn ==
    ASSUME ShipInv, NEW h \in Handlers, NEW t,
           shipTask[h].row # None, t.id = shipTask[h].id,
           shipRaces \subseteq shipRaces', blamed \subseteq blamed',
           \/ shipTask[h].pc \in {"book", "save"}
           \/ t.row.tracking = shipTask[h].row.tracking
                /\ (t.pc \in {"book", "save"} => shipTask[h].row.tracking \in blamed')
    PROVE  Holds(h, t)
  <1> SUFFICES ASSUME "row" \notin shipRaces, t.row # None, t.id # 0
               PROVE  /\ HeldAlone(h, t.id)
                      /\ \/ shipment[t.id].tracking = t.row.tracking
                         \/ shipment[t.id].tracking \in blamed'
                      /\ t.pc \in {"book", "save"} => shipment[t.id].tracking \in blamed'
    BY DEF Holds
  <1>1. /\ HeldAlone(h, t.id)
        /\ shipment[t.id].tracking = shipTask[h].row.tracking \/ shipment[t.id].tracking \in blamed
        /\ shipTask[h].pc \in {"book", "save"} => shipment[t.id].tracking \in blamed
    BY DEF ShipInv, BookedInv
  <1> QED
    BY <1>1

\* A handler that is done.
LEMMA DoneFacts ==
    ASSUME NEW t, t = Shipping!NoTask, NEW h, NEW n \in Nat, NEW m \in Nat
    PROVE  /\ ShipTaskOK(t, n, m) /\ t.pc = "idle" /\ t.row = None
           /\ Holds(h, t) /\ Continues(h, t)
  <1>1. ShipTaskOK(t, 0, 0) /\ t.pc = "idle" /\ t.row = None
    BY ShipFacts
  <1>2. ShipTaskOK(t, n, m)
    BY <1>1, ShipTaskGrows
  <1> QED
    BY <1>1, <1>2 DEF Holds, Continues, Number, Storing

\* What a handler may rely on.
LEMMA ShipHas ==
    ASSUME ShipInv, NEW h \in Handlers
    PROVE  /\ ShipTaskOK(shipTask[h], Len(shipment), Len(booked))
           /\ Len(shipment) \in Nat /\ Len(booked) \in Nat /\ Shipping!Ids = 1 .. Len(shipment)
           /\ shipment \in Seq(ShipRow) /\ booked \in Seq(Names)
           /\ \A i \in 1 .. Len(shipment) : shipment[i] \in ShipRow /\ shipment[i].retries = 0
                    /\ shipment[i].tracking <= Len(booked)
  <1>1. Len(shipment) \in Nat /\ Len(booked) \in Nat /\ Shipping!Ids = 1 .. Len(shipment)
        /\ shipment \in Seq(ShipRow) /\ booked \in Seq(Names)
    BY DEF ShipInv, ShippingTypes, Shipping!Ids
  <1>2. \A i \in 1 .. Len(shipment) : shipment[i] \in ShipRow
    BY <1>1
  <1> QED
    BY <1>1, <1>2 DEF ShipInv, ShippingTypes

LEMMA StartCreateKeeps ==
    ASSUME ShipInv, NEW h \in Handlers, NEW cod \in Cods, Shipping!StartCreate(h, cod)
    PROVE  ShipInv'
  <1>1. PICK row : row = Shipping!NewRow(cod)
    OBVIOUS
  <1>2. PICK t : t = [Shipping!NoTask EXCEPT !.pc = "book", !.row = row]
    OBVIOUS
  <1>3. row = [provider |-> Providers[1], tracking |-> 0, status |-> "pending", cod |-> cod, retries |-> 0]
    BY <1>1 DEF Shipping!NewRow
  <1>4. row \in ShipRow /\ row.tracking = 0 /\ row # None
    <2>1. Providers[1] \in Names
      BY ShipNumbers
    <2>2. row \in ShipRow
      BY <1>3, <2>1, ShippingAssumption DEF ShipRow, Shipping!Statuses, Shipping!CodStatuses
    <2> QED
      BY <1>3, <2>2, ShippingAssumption DEF ShipRow, Names
  <1>5. t = [pc |-> "book", id |-> 0, row |-> row, turn |-> 1, heard |-> <<>>]
    BY <1>2 DEF Shipping!NoTask
  <1>6. ShipTaskOK(t, Len(shipment), Len(booked)) /\ t.row = row /\ t.id = 0 /\ t.pc = "book"
    BY <1>4, <1>5, ShipHas DEF ShipTaskOK, Creating, Loaded, Storing
  <1>7. /\ shipTask' = [shipTask EXCEPT ![h] = t] /\ shipTask[h].pc = "idle"
        /\ UNCHANGED <<shipment, history, booked, cached, blamed, shipRaces>>
    BY <1>1, <1>2 DEF Shipping!StartCreate, Shipping!At
  <1>8. Holds(h, t) /\ Continues(h, t)
    BY <1>4, <1>6 DEF Holds, Continues, Number, Storing
  <1> QED
    BY <1>4, <1>6, <1>7, <1>8, StaysKeeps

LEMMA BookKeeps ==
    ASSUME ShipInv, NEW h \in Handlers, Shipping!Book(h)
    PROVE  ShipInv'
  <1>1. PICK u : u = shipTask[h]
    OBVIOUS
  <1>2. PICK p : p = Providers[u.turn]
    OBVIOUS
  <1>3. PICK row : row = [u.row EXCEPT !.provider = p, !.tracking = Len(booked) + 1, !.status = "created"]
    OBVIOUS
  <1>4. PICK t : t = [u EXCEPT !.pc = "save", !.row = row]
    OBVIOUS
  <1>5. /\ shipTask' = [shipTask EXCEPT ![h] = t] /\ u.pc = "book" /\ u.turn <= Len(Providers)
        /\ booked' = Append(booked, p)
        /\ UNCHANGED <<shipment, history, cached, blamed, shipRaces>>
    BY <1>1, <1>2, <1>3, <1>4 DEF Shipping!Book, Shipping!At
  <1>6. /\ ShipTaskOK(u, Len(shipment), Len(booked)) /\ Len(shipment) \in Nat /\ Len(booked) \in Nat
        /\ booked \in Seq(Names) /\ u.row # None /\ u.row \in ShipRow /\ u.turn \in Nat \ {0}
    BY <1>1, <1>5, ShipHas DEF ShipTaskOK, Creating
  <1>7. p \in Names
    BY <1>2, <1>5, <1>6, ShipNumbers
  <1>8. row \in ShipRow /\ row.tracking = Len(booked) + 1 /\ row # None
    <2>1. "created" \in Shipping!Statuses
      BY DEF Shipping!Statuses
    <2>4. PICK n \in Nat : n = Len(booked) + 1
      BY <1>6
    <2>5. row = [u.row EXCEPT !.provider = p, !.tracking = n, !.status = "created"]
      BY <1>3, <2>4
    <2>2. row \in ShipRow /\ row.tracking = Len(booked) + 1 /\ row.status = "created"
      BY <1>6, <1>7, <2>1, <2>4, <2>5 DEF ShipRow
    <2> QED
      BY <2>2, ShippingAssumption DEF ShipRow, Names
  <1>9. /\ DOMAIN t = {"pc", "id", "row", "turn", "heard"} /\ t.pc = "save" /\ t.row = row
        /\ t.id = u.id /\ t.turn = u.turn
    BY <1>4, <1>6 DEF ShipTaskOK
  <1>10. booked' \in Seq(Names) /\ Len(booked') = Len(booked) + 1
    BY <1>5, <1>6, <1>7
  <1>11. ShipTaskOK(t, Len(shipment), Len(booked'))
    BY <1>6, <1>8, <1>9, <1>10 DEF ShipTaskOK, Creating, Loaded, Storing
  <1>12. GoesOn(h, t)
    BY <1>5, <1>6, <1>10, <1>11 DEF GoesOn, ShipInv, ShippingTypes
  <1>13. Holds(h, t)
    BY <1>1, <1>5, <1>6, <1>9, HoldsOn
  <1>14. Books(h, t)
    BY <1>1, <1>5, <1>6, <1>8, <1>9, <1>10 DEF Books
  <1>15. Continues(h, t)
    BY <1>6, <1>8, <1>9 DEF Continues, Number, Storing
  <1> QED
    BY <1>8, <1>9, <1>12, <1>13, <1>14, <1>15, GoesOnKeeps

\* The next provider is asked; what was booked before is blamed.
LEMMA NextProviderKeeps ==
    ASSUME ShipInv, NEW h \in Handlers,
           shipTask' = [shipTask EXCEPT ![h] = Shipping!NextProvider(@)],
           shipTask[h].pc \in Creating,
           shipTask[h].pc # "book" => Shipping!Blame(shipTask[h].row.tracking),
           shipTask[h].pc = "book" => UNCHANGED blamed,
           UNCHANGED <<shipment, history, booked, cached, shipRaces>>
    PROVE  ShipInv'
  <1>1. PICK u : u = shipTask[h]
    OBVIOUS
  <1>2. PICK t : t = Shipping!NextProvider(u)
    OBVIOUS
  <1>3. shipTask' = [shipTask EXCEPT ![h] = t]
    BY <1>1, <1>2
  <1>4. /\ ShipTaskOK(u, Len(shipment), Len(booked)) /\ Len(shipment) \in Nat /\ Len(booked) \in Nat
        /\ u.row # None /\ u.row \in ShipRow /\ u.turn \in Nat \ {0}
        /\ u.row.tracking <= Len(booked)
    BY <1>1, ShipHas DEF ShipTaskOK, Creating
  <1>5. PICK row : row = [u.row EXCEPT !.retries = IF u.id = 0 THEN None ELSE 0]
    OBVIOUS
  <1>6. t = [u EXCEPT !.pc = "book", !.turn = @ + 1, !.row = row]
    BY <1>2, <1>5 DEF Shipping!NextProvider
  <1>7. row \in ShipRow /\ row.tracking = u.row.tracking /\ row.status = u.row.status /\ row.cod = u.row.cod
        /\ row # None
    <2>1. row \in ShipRow /\ row.tracking = u.row.tracking /\ row.status = u.row.status /\ row.cod = u.row.cod
      BY <1>4, <1>5 DEF ShipRow
    <2> QED
      BY <1>4, <2>1, ShippingAssumption DEF ShipRow, Names
  <1>8. /\ DOMAIN t = {"pc", "id", "row", "turn", "heard"} /\ t.pc = "book" /\ t.row = row
        /\ t.id = u.id /\ t.turn = u.turn + 1
    BY <1>4, <1>6 DEF ShipTaskOK
  <1>9. ShipTaskOK(t, Len(shipment), Len(booked))
    BY <1>4, <1>7, <1>8 DEF ShipTaskOK, Creating, Loaded, Storing
  <1>10. /\ blamed \subseteq blamed' /\ blamed' \subseteq 1 .. Len(booked)
         /\ u.pc # "book" => u.row.tracking \in blamed'
    <2>1. blamed \subseteq 1 .. Len(booked)
      BY DEF ShipInv, ShippingTypes
    <2>2. u.row.tracking \in Nat
      BY <1>4 DEF ShipRow
    <2>3. u.pc \in {"save", "history"} => u.row.tracking # 0
      BY <1>4 DEF ShipTaskOK
    <2>4. CASE u.pc = "book"
      BY <1>1, <2>1, <2>4
    <2>5. CASE u.pc # "book"
      <3>1. PICK n : n = u.row.tracking
        OBVIOUS
      <3>2. n \in 1 .. Len(booked)
        BY <1>1, <1>4, <2>2, <2>3, <2>5, <3>1 DEF Creating
      <3>3. blamed' = blamed \union ({n} \ {0})
        BY <1>1, <2>5, <3>1 DEF Shipping!Blame
      <3>4. blamed' = blamed \union {n}
        BY <3>2, <3>3
      <3> QED
        BY <2>1, <3>1, <3>2, <3>4
    <2> QED
      BY <2>4, <2>5
  <1>11. GoesOn(h, t)
    BY <1>3, <1>4, <1>9, <1>10 DEF GoesOn, ShipInv, ShippingTypes
  <1>12. Holds(h, t)
    BY <1>1, <1>4, <1>7, <1>8, <1>10, HoldsOn
  <1>13. Books(h, t)
    BY <1>1, <1>10 DEF Books
  <1>14. Continues(h, t)
    BY <1>1, <1>4, <1>7, <1>8 DEF Continues, Number, Storing
  <1> QED
    BY <1>7, <1>8, <1>11, <1>12, <1>13, <1>14, GoesOnKeeps

LEMMA FailuresKeep ==
    ASSUME ShipInv, NEW h \in Handlers,
           Shipping!ProviderRefuses(h) \/ Shipping!SaveFails(h) \/ Shipping!HistoryFails(h)
    PROVE  ShipInv'
  <1>1. CASE Shipping!ProviderRefuses(h)
    BY <1>1, NextProviderKeeps DEF Shipping!ProviderRefuses, Shipping!At, Creating
  <1>2. CASE Shipping!SaveFails(h)
    BY <1>2, NextProviderKeeps DEF Shipping!SaveFails, Shipping!At, Creating
  <1>3. CASE Shipping!HistoryFails(h)
    BY <1>3, NextProviderKeeps DEF Shipping!HistoryFails, Shipping!At, Creating
  <1> QED
    BY <1>1, <1>2, <1>3

LEMMA ShipLoadKeeps ==
    ASSUME ShipInv, NEW h \in Handlers, NEW i \in Shipping!Ids, NEW pc \in {"ask", "cancel", "return"},
           pc = "ask" => shipment[i].tracking # 0, Shipping!Load(h, pc, i)
    PROVE  ShipInv'
  <1>1. PICK row : row = shipment[i]
    OBVIOUS
  <1>2. PICK t : t = [Shipping!NoTask EXCEPT !.pc = pc, !.id = i, !.row = row]
    OBVIOUS
  <1>3. /\ Len(shipment) \in Nat /\ Len(booked) \in Nat /\ i \in 1 .. Len(shipment)
        /\ row \in ShipRow /\ row.retries = 0 /\ row.tracking <= Len(booked)
    BY <1>1, ShipHas
  <1>4. row # None
    BY <1>3, ShippingAssumption DEF ShipRow, Names
  <1>5. t = [pc |-> pc, id |-> i, row |-> row, turn |-> 1, heard |-> <<>>]
    BY <1>2 DEF Shipping!NoTask
  <1>6. ShipTaskOK(t, Len(shipment), Len(booked)) /\ t.row = row /\ t.id = i /\ t.pc = pc
    BY <1>1, <1>3, <1>4, <1>5 DEF ShipTaskOK, Creating, Loaded, Storing
  <1>7. /\ shipTask' = [shipTask EXCEPT ![h] = t] /\ shipTask[h].pc = "idle"
        /\ UNCHANGED <<shipment, history, booked, cached, blamed>>
        /\ shipRaces \subseteq shipRaces'
        /\ "row" \notin shipRaces' => HeldAlone(h, i)
    BY <1>1, <1>2 DEF Shipping!Load, Shipping!At, Shipping!RowRace, Shipping!Others, HeldAlone
  <1>8. Holds(h, t)
    BY <1>1, <1>6, <1>7 DEF Holds
  <1>9. Continues(h, t)
    BY <1>1, <1>3, <1>4, <1>6 DEF Continues, Number, Storing
  <1> QED
    BY <1>3, <1>6, <1>7, <1>8, <1>9, StaysKeeps

LEMMA AskProviderKeeps ==
    ASSUME ShipInv, NEW h \in Handlers, Shipping!AskProvider(h)
    PROVE  ShipInv'
  <1>1. PICK u : u = shipTask[h]
    OBVIOUS
  <1>3. PICK s : s = Shipping!Mapped(Shipping!Reported)
    OBVIOUS
  <1>4. PICK heard : heard = Shipping!Journey
    OBVIOUS
  <1>5. PICK row : row = [u.row EXCEPT !.status = s]
    OBVIOUS
  <1>6. PICK t : t = [u EXCEPT !.pc = "refresh", !.row = row, !.heard = heard]
    OBVIOUS
  <1>7. /\ ShipTaskOK(u, Len(shipment), Len(booked)) /\ Len(shipment) \in Nat /\ Len(booked) \in Nat
        /\ booked \in Seq(Names) /\ u.pc = "ask"
        /\ UNCHANGED <<shipment, history, booked, cached, blamed, shipRaces>>
    BY <1>1, ShipHas DEF Shipping!AskProvider, Shipping!At
  <1>8. u.row \in ShipRow /\ u.row # None /\ u.row.tracking \in 1 .. Len(booked) /\ u.row.retries = 0
    BY <1>7 DEF ShipTaskOK, Loaded, ShipRow
  <1>9. shipTask' = [shipTask EXCEPT ![h] = t]
    BY <1>1, <1>3, <1>4, <1>5, <1>6 DEF Shipping!AskProvider
  <1>11. s \in Shipping!Statuses
    BY <1>3 DEF Shipping!Mapped, Shipping!Statuses
  <1>12. heard \in Seq(Shipping!Events) /\ \A e \in Shipping!Events : \E k \in 1 .. Len(heard) : heard[k] = e
    BY <1>4, JourneyFacts
  <1>13. row \in ShipRow /\ row.tracking = u.row.tracking /\ row.retries = 0 /\ row # None
    <2>1. row \in ShipRow /\ row.tracking = u.row.tracking /\ row.retries = 0 /\ row.status = s
      BY <1>5, <1>8, <1>11 DEF ShipRow
    <2> QED
      BY <1>11, <2>1, ShippingAssumption DEF ShipRow, Names
  <1>14. /\ DOMAIN t = {"pc", "id", "row", "turn", "heard"} /\ t.pc = "refresh" /\ t.row = row
         /\ t.id = u.id /\ t.turn = u.turn /\ t.heard = heard
    BY <1>6, <1>7 DEF ShipTaskOK
  <1>15. ShipTaskOK(t, Len(shipment), Len(booked))
    BY <1>7, <1>8, <1>12, <1>13, <1>14 DEF ShipTaskOK, Creating, Loaded, Storing
  <1>16. Holds(h, t)
    BY <1>1, <1>7, <1>8, <1>13, <1>14, HoldsOn
  <1>17. Continues(h, t)
    <2>1. Shipping!Events \subseteq Left(t)
      BY <1>12, <1>14 DEF Left
    <2> QED
      BY <1>1, <1>8, <1>13, <1>14, <2>1 DEF Continues, Number
  <1> QED
    BY <1>1, <1>7, <1>9, <1>13, <1>14, <1>15, <1>16, <1>17, StaysKeeps

LEMMA FindEventKeeps ==
    ASSUME ShipInv, NEW h \in Handlers, Shipping!FindEvent(h)
    PROVE  ShipInv'
  <1>1. PICK u : u = shipTask[h]
    OBVIOUS
  <1>2. /\ ShipTaskOK(u, Len(shipment), Len(booked)) /\ u.pc = "event" /\ u.heard # <<>>
        /\ u.row = None
        /\ UNCHANGED <<shipment, history, booked, cached, blamed, shipRaces>>
    BY <1>1, ShipHas DEF Shipping!FindEvent, Shipping!At, ShipTaskOK, Creating, Loaded
  <1>3. /\ DOMAIN u = {"pc", "id", "row", "turn", "heard"}
        /\ u.heard \in Seq(Shipping!Events) /\ Tail(u.heard) \in Seq(Shipping!Events)
    BY <1>2 DEF ShipTaskOK, Storing
  <1>4. /\ Shipping!Events \ Left(u) \subseteq history[u.id]
        /\ Number(u) = u.turn
    BY <1>1, <1>2 DEF ShipInv, CacheInv, Storing, Number
  <1>5. PICK found \in Shipping!Lookups(u.id, Head(u.heard)) :
            shipTask' = [shipTask EXCEPT ![h] = IF found THEN [u EXCEPT !.heard = Tail(@)] ELSE [u EXCEPT !.pc = "store"]]
    BY <1>1 DEF Shipping!FindEvent
  <1>6. CASE ~found
    <2>1. PICK t : t = [u EXCEPT !.pc = "store"]
      OBVIOUS
    <2>2. shipTask' = [shipTask EXCEPT ![h] = t]
      BY <1>5, <1>6, <2>1
    <2>3. /\ DOMAIN t = {"pc", "id", "row", "turn", "heard"} /\ t.pc = "store" /\ t.row = None
          /\ t.id = u.id /\ t.turn = u.turn /\ t.heard = u.heard
      BY <1>2, <1>3, <2>1
    <2>4. ShipTaskOK(t, Len(shipment), Len(booked))
      BY <1>2, <1>3, <2>3 DEF ShipTaskOK, Creating, Loaded, Storing
    <2>5. Left(t) = Left(u) /\ Number(t) = Number(u)
      BY <1>4, <2>3 DEF Left, Number, Storing
    <2>6. Holds(h, t) /\ Continues(h, t)
      BY <1>1, <1>4, <2>3, <2>5 DEF Holds, Continues
    <2> QED
      BY <1>1, <1>2, <2>2, <2>4, <2>6, StaysKeeps
  <1>7. CASE found
    <2>1. PICK rest : rest = Tail(u.heard)
      OBVIOUS
    <2>2. PICK t : t = [u EXCEPT !.heard = rest]
      OBVIOUS
    <2>3. shipTask' = [shipTask EXCEPT ![h] = t]
      BY <1>5, <1>7, <2>1, <2>2
    <2>4. /\ DOMAIN t = {"pc", "id", "row", "turn", "heard"} /\ t.pc = "event" /\ t.row = None
          /\ t.id = u.id /\ t.turn = u.turn /\ t.heard = rest
      BY <1>2, <1>3, <2>2
    <2>5. ShipTaskOK(t, Len(shipment), Len(booked))
      BY <1>2, <1>3, <2>1, <2>4 DEF ShipTaskOK, Creating, Loaded, Storing
    <2>6. Head(u.heard) \in history[u.id]
      BY <1>5, <1>7 DEF Shipping!Lookups
    <2>7. Left(u) \subseteq {Head(u.heard)} \union Left(t) /\ Number(t) = Number(u)
      BY <1>2, <1>3, <1>4, <2>1, <2>4, LeftFacts DEF Number, Storing
    <2>8. Holds(h, t) /\ Continues(h, t)
      BY <1>1, <1>4, <2>4, <2>6, <2>7 DEF Holds, Continues
    <2> QED
      BY <1>1, <1>2, <2>3, <2>5, <2>8, StaysKeeps
  <1> QED
    BY <1>6, <1>7

\* The refresh ends, with its tracking number in the cache or without.
LEMMA RefreshEndsKeep ==
    ASSUME ShipInv, NEW h \in Handlers, Shipping!FillCache(h) \/ Shipping!RefreshFails(h)
    PROVE  ShipInv'
  <1>1. PICK u : u = shipTask[h]
    OBVIOUS
  <1>2. PICK t : t = Shipping!NoTask
    OBVIOUS
  <1>3. /\ ShipTaskOK(u, Len(shipment), Len(booked)) /\ Len(shipment) \in Nat /\ Len(booked) \in Nat
        /\ booked \in Seq(Names)
    BY <1>1, ShipHas
  <1>4. /\ shipTask' = [shipTask EXCEPT ![h] = t] /\ u.pc # "save"
        /\ UNCHANGED <<shipment, history, booked, blamed, shipRaces>>
        /\ cached' = cached \/ (cached' = cached \union {u.turn} /\ u.pc = "event" /\ u.heard = <<>>)
    BY <1>1, <1>2 DEF Shipping!FillCache, Shipping!RefreshFails, Shipping!Done, Shipping!At
  <1>5. cached' \subseteq 1 .. Len(booked) /\ blamed \subseteq 1 .. Len(booked)
    <2>1. cached \subseteq 1 .. Len(booked) /\ blamed \subseteq 1 .. Len(booked)
      BY DEF ShipInv, ShippingTypes
    <2>2. u.pc = "event" => u.turn \in 1 .. Len(booked)
      BY <1>3 DEF ShipTaskOK, Storing
    <2> QED
      BY <1>4, <2>1, <2>2
  <1>6. /\ ShipTaskOK(t, Len(shipment), Len(booked)) /\ t.row = None
        /\ Holds(h, t) /\ Continues(h, t)
    BY <1>2, <1>3, DoneFacts
  <1>7. GoesOn(h, t)
    <2>1. ASSUME u.pc = "event", u.heard = <<>>, cached' = cached \union {u.turn}
          PROVE  Fills(h, t)
      <3>1. u.row = None
        BY <1>3, <2>1 DEF ShipTaskOK, Creating, Loaded
      <3>2. Number(u) = u.turn /\ Left(u) = {}
        BY <2>1, <3>1 DEF Number, Left, Storing
      <3>3. Shipping!Events \ Left(u) \subseteq history[u.id]
        BY <1>1, <2>1 DEF ShipInv, CacheInv, Storing
      <3>4. Number(t) = 0
        BY <1>2, <1>6 DEF Number, Shipping!NoTask, Storing
      <3> QED
        BY <1>1, <2>1, <3>2, <3>3, <3>4 DEF Fills, Whole, Storing
    <2> QED
      BY <1>3, <1>4, <1>5, <1>6, <2>1 DEF GoesOn
  <1>8. Books(h, t)
    BY <1>1, <1>4 DEF Books
  <1> QED
    BY <1>6, <1>7, <1>8, GoesOnKeeps

LEMMA AskToCancelKeeps ==
    ASSUME ShipInv, NEW h \in Handlers, Shipping!AskToCancel(h)
    PROVE  ShipInv'
  <1>1. PICK u : u = shipTask[h]
    OBVIOUS
  <1>2. PICK t : t = [u EXCEPT !.pc = "cancelled"]
    OBVIOUS
  <1>3. /\ shipTask' = [shipTask EXCEPT ![h] = t] /\ u.pc = "cancel"
        /\ UNCHANGED <<shipment, history, booked, cached, blamed, shipRaces>>
    BY <1>1, <1>2 DEF Shipping!AskToCancel, Shipping!At
  <1>4. ShipTaskOK(u, Len(shipment), Len(booked)) /\ u.row # None
    BY <1>1, <1>3, ShipHas DEF ShipTaskOK, Loaded
  <1>5. /\ DOMAIN t = {"pc", "id", "row", "turn", "heard"} /\ t.pc = "cancelled" /\ t.row = u.row
        /\ t.id = u.id /\ t.turn = u.turn
    BY <1>2, <1>4 DEF ShipTaskOK
  <1>6. ShipTaskOK(t, Len(shipment), Len(booked))
    BY <1>3, <1>4, <1>5 DEF ShipTaskOK, Creating, Loaded, Storing
  <1>7. Holds(h, t)
    BY <1>1, <1>3, <1>4, <1>5, HoldsOn
  <1>8. Continues(h, t)
    BY <1>1, <1>4, <1>5 DEF Continues, Number, Storing
  <1> QED
    BY <1>1, <1>3, <1>6, <1>7, <1>8, StaysKeeps

\* A handler saves a shipment, for whose booking its row stands, over row i, which it held; or as
\* a new one.  It goes on to its history, to the provider's events, or is done.
SavesOver(h, t, i, row) ==
    /\ i = shipTask[h].id /\ i # 0 /\ shipTask[h].row # None
    /\ row.tracking = shipTask[h].row.tracking
    /\ shipment' = [shipment EXCEPT ![i] = row]

SavesNew(h, t, i, row) ==
    /\ Len(shipment) < Rows /\ i = Len(shipment) + 1
    /\ \/ row.tracking = 0 /\ shipTask[h].pc # "save"
       \/ row.tracking = shipTask[h].row.tracking /\ shipTask[h].row # None /\ shipTask[h].id = 0
    /\ shipment' = Append(shipment, row)

Saves(h, t, i, row) ==
    /\ shipTask' = [shipTask EXCEPT ![h] = t]
    /\ UNCHANGED <<history, booked, cached, blamed>>
    /\ shipRaces \subseteq shipRaces'
    /\ row \in ShipRow /\ row.tracking <= Len(booked) /\ row.retries = 0
    /\ \/ t.pc = "idle"
       \/ t.pc = "history" /\ t.id = i /\ t.row = row /\ shipTask[h].pc \in Creating
            /\ shipTask[h].id \in {0, i}
       \/ /\ t.pc = "event" /\ t.id = i /\ t.turn = row.tracking
          /\ t.heard = shipTask[h].heard /\ shipTask[h].pc = "refresh" /\ shipTask[h].id = i

\* How a save changes the shipments.
LEMMA SavedRows ==
    ASSUME ShipInv, NEW h \in Handlers, NEW t, NEW i, NEW row,
           Saves(h, t, i, row), SavesOver(h, t, i, row) \/ SavesNew(h, t, i, row)
    PROVE  /\ shipment' \in Seq(ShipRow) /\ Len(shipment') \in Nat /\ Len(shipment') <= Rows
           /\ Len(shipment) <= Len(shipment')
           /\ i \in 1 .. Len(shipment') /\ shipment'[i] = row
           /\ \A j \in 1 .. Len(shipment') : j # i => j \in 1 .. Len(shipment) /\ shipment'[j] = shipment[j]
           /\ SavesNew(h, t, i, row) => i \notin 1 .. Len(shipment)
           /\ SavesOver(h, t, i, row) => Len(shipment') = Len(shipment)
  <1>1. shipment \in Seq(ShipRow) /\ Len(shipment) \in Nat /\ Len(shipment) <= Rows /\ Rows \in Nat
        /\ row \in ShipRow
    BY ShipNumbers DEF ShipInv, ShippingTypes, Saves
  <1>2. CASE SavesOver(h, t, i, row)
    <2>1. i \in 1 .. Len(shipment)
      BY <1>1, <1>2, ShipHas DEF SavesOver, ShipTaskOK
    <2>2. shipment' = [shipment EXCEPT ![i] = row]
      BY <1>2 DEF SavesOver
    <2>3. /\ shipment' \in Seq(ShipRow) /\ Len(shipment') = Len(shipment)
          /\ \A j \in 1 .. Len(shipment) : shipment'[j] = IF j = i THEN row ELSE shipment[j]
      BY <1>1, <2>1, <2>2, ExceptSeq
    <2> QED
      BY <1>1, <2>1, <2>3 DEF SavesNew
  <1>3. CASE SavesNew(h, t, i, row)
    <2>1. shipment' = Append(shipment, row) /\ i = Len(shipment) + 1 /\ Len(shipment) < Rows
      BY <1>3 DEF SavesNew
    <2>2. /\ shipment' \in Seq(ShipRow) /\ Len(shipment') = Len(shipment) + 1
          /\ \A j \in 1 .. Len(shipment) : shipment'[j] = shipment[j]
          /\ shipment'[Len(shipment) + 1] = row
      BY <1>1, <2>1, AppendProperties
    <2>3. ~SavesOver(h, t, i, row)
      BY <1>1, <2>1, ShipHas DEF SavesOver, ShipTaskOK
    <2> QED
      BY <1>1, <2>1, <2>2, <2>3
  <1> QED
    BY <1>2, <1>3

\* Without a race nobody else has the shipment that is saved.
LEMMA SavedAlone ==
    ASSUME ShipInv, NEW h \in Handlers, NEW t, NEW i, NEW row,
           Saves(h, t, i, row), SavesOver(h, t, i, row) \/ SavesNew(h, t, i, row),
           "row" \notin shipRaces
    PROVE  HeldAlone(h, i)
  <1>1. CASE SavesOver(h, t, i, row)
    BY <1>1 DEF ShipInv, BookedInv, SavesOver
  <1>2. CASE SavesNew(h, t, i, row)
    <2>1. Len(shipment) \in Nat /\ i = Len(shipment) + 1
      BY <1>2, ShipHas DEF SavesNew
    <2>2. \A g \in Handlers : shipTask[g].id \in 0 .. Len(shipment)
      BY ShipHas DEF ShipTaskOK
    <2> QED
      BY <2>1, <2>2 DEF HeldAlone
  <1> QED
    BY <1>1, <1>2

LEMMA SavesKeep ==
    ASSUME ShipInv, NEW h \in Handlers, NEW t, NEW i, NEW row,
           Saves(h, t, i, row), SavesOver(h, t, i, row) \/ SavesNew(h, t, i, row),
           ShipTaskOK(t, Len(shipment'), Len(booked))
    PROVE  ShipInv'
  <1>1. ShippingTypes /\ BookedInv /\ CacheInv
    BY DEF ShipInv
  <1>2. /\ DOMAIN shipTask' = Handlers /\ shipTask'[h] = t
        /\ \A g \in Handlers \ {h} : shipTask'[g] = shipTask[g]
    BY <1>1, ShipTaskMoves DEF Saves
  <1>3. /\ UNCHANGED <<history, booked, cached, blamed>> /\ shipRaces \subseteq shipRaces'
        /\ row \in ShipRow /\ row.tracking <= Len(booked) /\ row.retries = 0
    BY DEF Saves
  <1>4. /\ shipment' \in Seq(ShipRow) /\ Len(shipment') \in Nat /\ Len(shipment') <= Rows
        /\ Len(shipment) <= Len(shipment')
        /\ i \in 1 .. Len(shipment') /\ shipment'[i] = row
        /\ \A j \in 1 .. Len(shipment') : j # i => j \in 1 .. Len(shipment) /\ shipment'[j] = shipment[j]
        /\ SavesNew(h, t, i, row) => i \notin 1 .. Len(shipment)
        /\ SavesOver(h, t, i, row) => Len(shipment') = Len(shipment)
    BY SavedRows
  <1>5. /\ Shipping!Ids' = 1 .. Len(shipment') /\ Shipping!Ids = 1 .. Len(shipment)
        /\ Len(shipment) \in Nat /\ Len(booked) \in Nat
    BY <1>1, <1>4 DEF Shipping!Ids, ShippingTypes
  <1>6. /\ t.pc \notin Creating \ {"history"} /\ t.pc \notin Loaded /\ t.pc # "store"
        /\ t.pc = "history" => t.id = i /\ t.row = row /\ shipTask[h].pc \in Creating /\ shipTask[h].id \in {0, i}
        /\ t.pc # "history" => t.row = None
        /\ t.pc = "event" => t.id = i
    BY DEF Saves, ShipTaskOK, Creating, Loaded
  <1>7. ShippingTypes'
    <2>1. ASSUME NEW g \in Handlers
          PROVE  ShipTaskOK(shipTask'[g], Len(shipment'), Len(booked))
      <3>1. CASE g = h
        BY <1>2, <3>1
      <3>2. CASE g # h
        <4>1. ShipTaskOK(shipTask[g], Len(shipment), Len(booked))
          BY <1>1 DEF ShippingTypes
        <4>2. ShipTaskOK(shipTask[g], Len(shipment'), Len(booked))
          BY <1>4, <1>5, <4>1, ShipTaskGrows
        <4> QED
          BY <1>2, <3>2, <4>2
      <3> QED
        BY <3>1, <3>2
    <2>2. ASSUME NEW j \in Shipping!Ids'
          PROVE  shipment'[j].tracking <= Len(booked) /\ shipment'[j].retries = 0
      BY <1>1, <1>3, <1>4, <1>5, <2>2 DEF ShippingTypes
    <2> QED
      BY <1>1, <1>2, <1>3, <1>4, <2>1, <2>2 DEF ShippingTypes
  <1>8. BookedInv'
    <2> SUFFICES ASSUME "row" \notin shipRaces'
                 PROVE  BookedInv'
      BY DEF BookedInv
    <2>1. "row" \notin shipRaces /\ HeldAlone(h, i)
      BY <1>3, SavedAlone
    <2>3. shipTask'[h].row # None => HeldAlone(h, shipTask[h].id)'
      BY <1>2, <1>6, <2>1 DEF HeldAlone
    <2>2. ASSUME NEW g \in Handlers, shipTask'[g].row # None, shipTask'[g].id # 0
          PROVE  /\ HeldAlone(g, shipTask[g].id)'
                 /\ shipment'[shipTask'[g].id].tracking = shipTask'[g].row.tracking
                        \/ shipment'[shipTask'[g].id].tracking \in blamed
                 /\ shipTask'[g].pc \in {"book", "save"} => shipment'[shipTask'[g].id].tracking \in blamed
      <3>1. CASE g = h
        BY <1>2, <1>4, <1>6, <2>2, <2>3, <3>1 DEF Creating
      <3>2. CASE g # h
        <4>1. shipTask'[g] = shipTask[g] /\ shipTask[g].id # i
          BY <1>2, <2>1, <2>2, <3>2 DEF HeldAlone
        <4>2. /\ HeldAlone(g, shipTask[g].id)
              /\ shipment[shipTask[g].id].tracking = shipTask[g].row.tracking
                    \/ shipment[shipTask[g].id].tracking \in blamed
              /\ shipTask[g].pc \in {"book", "save"} => shipment[shipTask[g].id].tracking \in blamed
          BY <1>1, <2>1, <2>2, <4>1 DEF BookedInv
        <4>3. shipTask[g].id \in 1 .. Len(shipment')
          BY <1>4, <1>5, <2>2, <4>1, ShipHas DEF ShipTaskOK
        <4>4. shipment'[shipTask[g].id] = shipment[shipTask[g].id]
          BY <1>4, <4>1, <4>3
        <4>5. HeldAlone(g, shipTask[g].id)'
          BY <1>2, <1>6, <4>1, <4>2 DEF HeldAlone
        <4> QED
          BY <4>1, <4>2, <4>4, <4>5
      <3> QED
        BY <3>1, <3>2
    <2>4. ASSUME NEW n \in 1 .. Len(booked)
          PROVE  Shipping!Recorded(n)' \/ Shipping!Carried(n)' \/ n \in blamed
      <3>1. ASSUME NEW j \in Shipping!Ids, shipment[j].tracking = n
            PROVE  Shipping!Recorded(n)' \/ n \in blamed
        <4>1. CASE j # i
          BY <1>4, <1>5, <3>1, <4>1 DEF Shipping!Recorded
        <4>2. CASE j = i
          <5>1. SavesOver(h, t, i, row)
            BY <1>4, <1>5, <4>2
          <5>2. n = row.tracking \/ n \in blamed
            BY <1>1, <2>1, <3>1, <4>2, <5>1 DEF BookedInv, SavesOver
          <5> QED
            BY <1>4, <1>5, <5>2 DEF Shipping!Recorded
        <4> QED
          BY <4>1, <4>2
      <3>2. ASSUME NEW g \in Handlers, shipTask[g].pc = "save", shipTask[g].row.tracking = n
            PROVE  Shipping!Recorded(n)' \/ Shipping!Carried(n)'
        <4>1. CASE g # h
          BY <1>2, <3>2, <4>1 DEF Shipping!Carried, Shipping!At
        <4>2. CASE g = h
          <5>1. row.tracking = n
            BY <3>2, <4>2 DEF SavesOver, SavesNew
          <5> QED
            BY <1>4, <1>5, <5>1 DEF Shipping!Recorded
        <4> QED
          BY <4>1, <4>2
      <3> QED
        BY <1>1, <2>1, <3>1, <3>2 DEF BookedInv, Shipping!Recorded, Shipping!Carried, Shipping!At
    <2> QED
      BY <1>3, <2>2, <2>4 DEF BookedInv
  <1>9. CacheInv'
    <2>1. PICK r : r = row.tracking
      OBVIOUS
    <2>2. \A g \in Handlers \ {h} : Number(shipTask'[g]) = Number(shipTask[g]) /\ shipTask'[g].id = shipTask[g].id
      BY <1>2
    <2>3. r # 0 => Number(shipTask[h]) = r /\ shipTask[h].id \in {0, i} /\ (shipTask[h].id = 0 => SavesNew(h, t, i, row))
      BY <2>1 DEF SavesOver, SavesNew, Number
    <2>4. Number(t) # 0 => Number(t) = r /\ t.id = i
      BY <1>6, <2>1 DEF Saves, Number, Storing
    <2>5. ASSUME NEW j \in 1 .. Len(shipment'), j # i, r # 0
          PROVE  shipment'[j].tracking # r
      <3>1. j \in 1 .. Len(shipment) /\ shipment'[j] = shipment[j] /\ j # 0
        BY <1>4, <1>5, <2>5
      <3>2. shipTask[h].id # j
        BY <2>3, <2>5, <3>1
      <3> QED
        BY <1>1, <1>5, <2>3, <2>5, <3>1, <3>2 DEF CacheInv
    <2>6. ASSUME NEW g \in Handlers \ {h}, r # 0, Number(shipTask[g]) = r
          PROVE  shipTask[g].id = i
      BY <1>1, <2>3, <2>6 DEF CacheInv
    <2>7. ASSUME r \in cached
          PROVE  Whole(i) /\ i # 0
      <3>1. r # 0
        BY <1>1, <2>7 DEF ShippingTypes
      <3> QED
        BY <1>1, <1>4, <2>3, <2>7, <3>1 DEF CacheInv
    <2>8. \A j : Whole(j)' = Whole(j)
      BY <1>3 DEF Whole, Shipping!Events
    <2>9. ASSUME NEW j \in 1 .. Len(shipment'), NEW k \in 1 .. Len(shipment'),
                 shipment'[j].tracking # 0, shipment'[j].tracking = shipment'[k].tracking
          PROVE  j = k
      BY <1>1, <1>4, <1>5, <2>1, <2>5, <2>9 DEF CacheInv
    <2>10. ASSUME NEW g \in Handlers, NEW j \in 1 .. Len(shipment'), Number(shipTask'[g]) # 0,
                  shipment'[j].tracking = Number(shipTask'[g])
           PROVE  j = shipTask'[g].id
      <3>1. CASE g = h
        BY <1>2, <2>4, <2>5, <2>10, <3>1
      <3>2. CASE g # h
        <4>1. Number(shipTask'[g]) = Number(shipTask[g]) /\ shipTask'[g].id = shipTask[g].id
          BY <2>2, <3>2
        <4>2. CASE j = i
          BY <1>4, <2>1, <2>6, <2>10, <3>2, <4>1, <4>2
        <4>3. CASE j # i
          BY <1>1, <1>4, <1>5, <2>10, <4>1, <4>3 DEF CacheInv
        <4> QED
          BY <4>2, <4>3
      <3> QED
        BY <3>1, <3>2
    <2>11. ASSUME NEW g \in Handlers, NEW k \in Handlers, Number(shipTask'[k]) # 0,
                  Number(shipTask'[g]) = Number(shipTask'[k])
           PROVE  shipTask'[g].id = shipTask'[k].id /\ (shipTask'[k].id = 0 => g = k)
      <3>1. i # 0
        BY <1>4
      <3>2. CASE g # h /\ k # h
        BY <1>1, <2>2, <2>11, <3>2 DEF CacheInv
      <3>3. CASE g = h /\ k # h
        BY <1>2, <2>2, <2>4, <2>6, <2>11, <3>1, <3>3
      <3>4. CASE g # h /\ k = h
        BY <1>2, <2>2, <2>4, <2>6, <2>11, <3>1, <3>4
      <3> QED
        BY <3>2, <3>3, <3>4
    <2>12. ASSUME NEW j \in 1 .. Len(shipment'), shipment'[j].tracking \in cached
           PROVE  Whole(j)
      BY <1>1, <1>4, <1>5, <2>1, <2>7, <2>12 DEF CacheInv
    <2>13. ASSUME NEW g \in Handlers, Number(shipTask'[g]) \in cached
           PROVE  shipTask'[g].id # 0 /\ Whole(shipTask'[g].id)
      <3>1. CASE g = h
        <4>1. Number(t) # 0
          BY <1>1, <1>2, <2>13, <3>1 DEF ShippingTypes
        <4> QED
          BY <1>2, <2>4, <2>7, <2>13, <3>1, <4>1
      <3>2. CASE g # h
        BY <1>1, <2>2, <2>13, <3>2 DEF CacheInv
      <3> QED
        BY <3>1, <3>2
    <2>14. ASSUME NEW g \in Handlers, shipTask'[g].pc \in Storing \union {"refresh"}
           PROVE  Shipping!Events \ Left(shipTask'[g]) \subseteq history[shipTask'[g].id]
      <3>1. CASE g = h
        <4>1. t.pc = "event"
          BY <1>2, <2>14, <3>1 DEF Saves, Storing
        <4>2. t.id = shipTask[h].id /\ t.heard = shipTask[h].heard /\ shipTask[h].pc = "refresh"
          BY <4>1 DEF Saves
        <4>3. Left(t) = Left(shipTask[h])
          BY <4>2 DEF Left
        <4> QED
          BY <1>1, <1>2, <3>1, <4>2, <4>3 DEF CacheInv
      <3>2. CASE g # h
        BY <1>1, <1>2, <2>14, <3>2 DEF CacheInv
      <3> QED
        BY <3>1, <3>2
    <2> QED
      BY <1>3, <1>5, <2>8, <2>9, <2>10, <2>11, <2>12, <2>13, <2>14 DEF CacheInv, Shipping!Events
  <1> QED
    BY <1>7, <1>8, <1>9 DEF ShipInv

LEMMA SaveShipmentKeeps ==
    ASSUME ShipInv, NEW h \in Handlers, Shipping!SaveShipment(h)
    PROVE  ShipInv'
  <1>1. PICK u : u = shipTask[h]
    OBVIOUS
  <1>2. PICK i : i = IF u.id = 0 THEN Len(shipment) + 1 ELSE u.id
    OBVIOUS
  <1>3. PICK t : t = [u EXCEPT !.pc = "history", !.id = i]
    OBVIOUS
  <1>4. /\ u.pc = "save" /\ u.row.retries # None /\ i <= MaxShipments
        /\ shipment' = IF u.id = 0 THEN Append(shipment, u.row) ELSE [shipment EXCEPT ![u.id] = u.row]
        /\ shipTask' = [shipTask EXCEPT ![h] = t]
        /\ UNCHANGED <<history, booked, cached, blamed, shipRaces>>
    BY <1>1, <1>2, <1>3 DEF Shipping!SaveShipment, Shipping!At, Shipping!Storable, Shipping!Stored
  <1>5. /\ ShipTaskOK(u, Len(shipment), Len(booked)) /\ Len(shipment) \in Nat /\ Len(booked) \in Nat
        /\ u.row # None /\ u.row \in ShipRow /\ u.row.tracking <= Len(booked)
    BY <1>1, <1>4, ShipHas DEF ShipTaskOK, Creating
  <1>6. u.row.retries = 0
    BY <1>4, <1>5 DEF ShipRow
  <1>7. /\ DOMAIN t = {"pc", "id", "row", "turn", "heard"} /\ t.pc = "history" /\ t.row = u.row
        /\ t.id = i /\ t.turn = u.turn
    BY <1>3, <1>5 DEF ShipTaskOK
  <1>8. Saves(h, t, i, u.row)
    BY <1>1, <1>2, <1>4, <1>5, <1>6, <1>7 DEF Saves, Creating
  <1>9. SavesOver(h, t, i, u.row) \/ SavesNew(h, t, i, u.row)
    <2>1. MaxShipments <= Rows /\ MaxShipments \in Nat /\ Rows \in Nat
      BY ShippingAssumption DEF Rows
    <2>2. CASE u.id = 0
      BY <1>1, <1>2, <1>4, <1>5, <2>1, <2>2 DEF SavesNew
    <2>3. CASE u.id # 0
      BY <1>1, <1>2, <1>4, <1>5, <2>3 DEF SavesOver
    <2> QED
      BY <2>2, <2>3
  <1>10. i \in 1 .. Len(shipment') /\ Len(shipment') \in Nat
    BY <1>8, <1>9, SavedRows
  <1>11. ShipTaskOK(t, Len(shipment'), Len(booked))
    BY <1>4, <1>5, <1>6, <1>7, <1>10 DEF ShipTaskOK, Creating, Loaded, Storing
  <1> QED
    BY <1>8, <1>9, <1>11, SavesKeep

\* A save that ends the handler's work.
LEMMA LastSaveKeeps ==
    ASSUME ShipInv, NEW h \in Handlers, NEW i, NEW row, Shipping!Done(h),
           UNCHANGED <<history, booked, cached, blamed, shipRaces>>,
           row \in ShipRow, row.tracking <= Len(booked), row.retries = 0,
           SavesOver(h, Shipping!NoTask, i, row) \/ SavesNew(h, Shipping!NoTask, i, row)
    PROVE  ShipInv'
  <1>1. PICK t : t = Shipping!NoTask
    OBVIOUS
  <1>2. t.pc = "idle" /\ shipTask' = [shipTask EXCEPT ![h] = t]
    BY <1>1, ShipFacts DEF Shipping!Done
  <1>3. Saves(h, t, i, row)
    BY <1>2 DEF Saves
  <1>4. SavesOver(h, t, i, row) \/ SavesNew(h, t, i, row)
    BY <1>1
  <1>5. Len(shipment') \in Nat /\ Len(booked) \in Nat
    BY <1>3, <1>4, SavedRows, ShipHas
  <1>6. ShipTaskOK(t, Len(shipment'), Len(booked))
    BY <1>1, <1>5, DoneFacts
  <1> QED
    BY <1>3, <1>4, <1>6, SavesKeep

LEMMA GiveUpKeeps ==
    ASSUME ShipInv, NEW h \in Handlers, Shipping!GiveUp(h)
    PROVE  ShipInv'
  <1>1. PICK u : u = shipTask[h]
    OBVIOUS
  <1>2. /\ u.pc = "book" /\ Shipping!Done(h) /\ UNCHANGED <<history, booked, cached, blamed, shipRaces>>
    BY <1>1 DEF Shipping!GiveUp, Shipping!At
  <1>3. /\ ShipTaskOK(u, Len(shipment), Len(booked)) /\ Len(shipment) \in Nat /\ Len(booked) \in Nat
        /\ u.row # None /\ u.row \in ShipRow /\ u.row.tracking <= Len(booked)
    BY <1>1, <1>2, ShipHas DEF ShipTaskOK, Creating
  <1>4. CASE u.row.retries # None /\ (u.id = 0 => Len(shipment) < MaxShipments)
    <2>1. PICK row : row = [u.row EXCEPT !.status = "pending", !.cod = u.row.cod]
      OBVIOUS
    <2>2. row = [u.row EXCEPT !.status = "pending"]
      BY <1>3, <2>1 DEF ShipRow
    <2>3. shipment' = IF u.id = 0 THEN Append(shipment, row) ELSE [shipment EXCEPT ![u.id] = row]
      BY <1>1, <1>4, <2>2 DEF Shipping!GiveUp, Shipping!Storable, Shipping!Stored
    <2>4. "pending" \in Shipping!Statuses /\ u.row.cod \in Shipping!CodStatuses /\ u.row.retries = 0
      BY <1>3, <1>4 DEF ShipRow, Shipping!Statuses
    <2>5. row \in ShipRow /\ row.tracking = u.row.tracking /\ row.retries = 0 /\ row.status = "pending"
      <3>1. PICK old \in ShipRow : old = u.row
        BY <1>3
      <3>2. PICK c \in Shipping!CodStatuses : c = u.row.cod
        BY <2>4
      <3>3. row = [old EXCEPT !.status = "pending", !.cod = c]
        BY <2>1, <3>1, <3>2
      <3>4. row \in ShipRow /\ row.tracking = old.tracking /\ row.retries = old.retries /\ row.status = "pending"
        BY <2>4, <3>3 DEF ShipRow
      <3> QED
        BY <2>4, <3>1, <3>4
    <2>7. MaxShipments <= Rows /\ MaxShipments \in Nat /\ Rows \in Nat
      BY ShippingAssumption DEF Rows
    <2>8. CASE u.id = 0
      <3>1. SavesNew(h, Shipping!NoTask, Len(shipment) + 1, row)
        BY <1>1, <1>2, <1>3, <1>4, <2>3, <2>5, <2>7, <2>8 DEF SavesNew
      <3> QED
        BY <1>2, <1>3, <2>5, <3>1, LastSaveKeeps
    <2>9. CASE u.id # 0
      <3>1. SavesOver(h, Shipping!NoTask, u.id, row)
        BY <1>1, <1>3, <2>3, <2>5, <2>9 DEF SavesOver
      <3> QED
        BY <1>2, <1>3, <2>5, <3>1, LastSaveKeeps
    <2> QED
      BY <2>8, <2>9
  <1>5. CASE ~(u.row.retries # None /\ (u.id = 0 => Len(shipment) < MaxShipments))
    <2>1. PICK t : t = Shipping!NoTask
      OBVIOUS
    <2>2. UNCHANGED shipment /\ shipTask' = [shipTask EXCEPT ![h] = t]
      BY <1>1, <1>2, <1>5, <2>1 DEF Shipping!GiveUp, Shipping!Storable, Shipping!Done
    <2>3. /\ ShipTaskOK(t, Len(shipment), Len(booked)) /\ t.row = None
          /\ Holds(h, t) /\ Continues(h, t)
      BY <1>3, <2>1, DoneFacts
    <2> QED
      BY <1>1, <1>2, <2>2, <2>3, StaysKeeps
  <1> QED
    BY <1>4, <1>5

LEMMA SaveRefreshedKeeps ==
    ASSUME ShipInv, NEW h \in Handlers, Shipping!SaveRefreshed(h)
    PROVE  ShipInv'
  <1>1. PICK u : u = shipTask[h]
    OBVIOUS
  <1>2. PICK t : t = [u EXCEPT !.pc = "event", !.row = None, !.turn = u.row.tracking]
    OBVIOUS
  <1>3. /\ ShipTaskOK(u, Len(shipment), Len(booked)) /\ Len(shipment) \in Nat /\ Len(booked) \in Nat
        /\ u.pc = "refresh"
    BY <1>1, ShipHas DEF Shipping!SaveRefreshed, Shipping!At
  <1>4. /\ u.row # None /\ u.row \in ShipRow /\ u.row.tracking <= Len(booked)
        /\ u.row.retries = 0 /\ u.row.tracking # 0 /\ u.id # 0 /\ u.heard \in Seq(Shipping!Events)
    BY <1>1, <1>3, ShipHas DEF ShipTaskOK, Loaded
  <1>5. /\ shipment' = [shipment EXCEPT ![u.id] = u.row]
        /\ shipTask' = [shipTask EXCEPT ![h] = t]
        /\ UNCHANGED <<history, booked, cached, blamed>>
        /\ UNCHANGED shipRaces
    BY <1>1, <1>2, <1>4 DEF Shipping!SaveRefreshed, Shipping!Stored
  <1>6. /\ DOMAIN t = {"pc", "id", "row", "turn", "heard"} /\ t.pc = "event" /\ t.row = None
        /\ t.id = u.id /\ t.turn = u.row.tracking /\ t.heard = u.heard
    BY <1>2, <1>3 DEF ShipTaskOK
  <1>7. Saves(h, t, u.id, u.row)
    BY <1>1, <1>3, <1>4, <1>5, <1>6 DEF Saves
  <1>8. SavesOver(h, t, u.id, u.row)
    BY <1>1, <1>4, <1>5 DEF SavesOver
  <1>9. u.id \in 1 .. Len(shipment') /\ Len(shipment') \in Nat
    BY <1>7, <1>8, SavedRows
  <1>10. u.row.tracking \in Nat
    BY <1>4 DEF ShipRow
  <1>11. ShipTaskOK(t, Len(shipment'), Len(booked))
    BY <1>3, <1>4, <1>6, <1>9, <1>10 DEF ShipTaskOK, Creating, Loaded, Storing
  <1> QED
    BY <1>7, <1>8, <1>11, SavesKeep

LEMMA SaveCancelledKeeps ==
    ASSUME ShipInv, NEW h \in Handlers, Shipping!SaveCancelled(h)
    PROVE  ShipInv'
  <1>1. PICK u : u = shipTask[h]
    OBVIOUS
  <1>2. PICK c : c = Shipping!CodAfterCancel(u.row.cod)
    OBVIOUS
  <1>3. PICK row : row = [u.row EXCEPT !.status = "cancelled", !.cod = c]
    OBVIOUS
  <1>4. /\ ShipTaskOK(u, Len(shipment), Len(booked)) /\ Len(shipment) \in Nat /\ Len(booked) \in Nat
        /\ u.pc = "cancelled"
    BY <1>1, ShipHas DEF Shipping!SaveCancelled, Shipping!At
  <1>5. /\ u.row # None /\ u.row \in ShipRow /\ u.row.tracking <= Len(booked)
        /\ u.row.retries = 0 /\ u.id # 0
    BY <1>4 DEF ShipTaskOK, Loaded
  <1>6. /\ shipment' = [shipment EXCEPT ![u.id] = row] /\ Shipping!Done(h)
        /\ UNCHANGED <<history, booked, cached, blamed, shipRaces>>
    BY <1>1, <1>2, <1>3, <1>5 DEF Shipping!SaveCancelled, Shipping!Stored
  <1>7. c \in Shipping!CodStatuses /\ "cancelled" \in Shipping!Statuses
    BY <1>2, <1>5 DEF Shipping!CodAfterCancel, Shipping!CodStatuses, Shipping!Statuses, ShipRow
  <1>8. row \in ShipRow /\ row.tracking = u.row.tracking /\ row.retries = 0
    <2>1. PICK old \in ShipRow : old = u.row
      BY <1>5
    <2>2. row = [old EXCEPT !.status = "cancelled", !.cod = c]
      BY <1>3, <2>1
    <2>3. row \in ShipRow /\ row.tracking = old.tracking /\ row.retries = old.retries
      BY <1>7, <2>2 DEF ShipRow
    <2> QED
      BY <1>5, <2>1, <2>3
  <1>9. SavesOver(h, Shipping!NoTask, u.id, row)
    BY <1>1, <1>5, <1>6, <1>8 DEF SavesOver
  <1> QED
    BY <1>5, <1>6, <1>8, <1>9, LastSaveKeeps

LEMMA SaveReturnKeeps ==
    ASSUME ShipInv, NEW h \in Handlers, Shipping!SaveReturn(h)
    PROVE  ShipInv'
  <1>1. PICK u : u = shipTask[h]
    OBVIOUS
  <1>2. PICK row : row = [Shipping!NewRow("none") EXCEPT !.provider = u.row.provider]
    OBVIOUS
  <1>3. /\ ShipTaskOK(u, Len(shipment), Len(booked)) /\ Len(shipment) \in Nat /\ Len(booked) \in Nat
        /\ u.pc = "return" /\ Len(shipment) < Rows
    BY <1>1, ShipHas DEF Shipping!SaveReturn, Shipping!At, Rows
  <1>4. u.row \in ShipRow
    BY <1>3 DEF ShipTaskOK, Loaded
  <1>5. row = [provider |-> u.row.provider, tracking |-> 0, status |-> "pending", cod |-> "none", retries |-> 0]
    BY <1>2 DEF Shipping!NewRow
  <1>6. row \in ShipRow /\ row.tracking = 0 /\ row.retries = 0
    <2>1. u.row.provider \in Names
      BY <1>4 DEF ShipRow
    <2> QED
      BY <1>5, <2>1 DEF ShipRow, Shipping!Statuses, Shipping!CodStatuses
  <1>7. /\ shipment' = Append(shipment, row) /\ Shipping!Done(h)
        /\ UNCHANGED <<history, booked, cached, blamed, shipRaces>>
    BY <1>1, <1>2 DEF Shipping!SaveReturn, Shipping!Stored
  <1>8. SavesNew(h, Shipping!NoTask, Len(shipment) + 1, row)
    BY <1>1, <1>3, <1>6, <1>7 DEF SavesNew
  <1> QED
    BY <1>3, <1>6, <1>7, <1>8, LastSaveKeeps

\* A handler stores an event: that of the creation, or the first one it had to look for.
LEMMA HistoryKeeps ==
    ASSUME ShipInv, NEW h \in Handlers, NEW t, NEW i, NEW e,
           shipTask' = [shipTask EXCEPT ![h] = t],
           history' = [history EXCEPT ![i] = @ \union {e}],
           UNCHANGED <<shipment, booked, cached, blamed, shipRaces>>,
           i = shipTask[h].id, i # 0, t.row = None, e \in Shipping!Events,
           ShipTaskOK(t, Len(shipment), Len(booked)),
           \/ t.pc = "idle" /\ shipTask[h].pc # "save"
           \/ /\ t.pc = "event" /\ shipTask[h].pc = "store" /\ t.id = i /\ Number(t) = Number(shipTask[h])
              /\ Left(shipTask[h]) \subseteq {e} \union Left(t)
    PROVE  ShipInv'
  <1>1. ShippingTypes /\ BookedInv /\ CacheInv
    BY DEF ShipInv
  <1>2. /\ DOMAIN shipTask' = Handlers /\ shipTask'[h] = t
        /\ \A g \in Handlers \ {h} : shipTask'[g] = shipTask[g]
    BY <1>1, ShipTaskMoves
  <1>3. /\ Len(shipment) \in Nat /\ Len(booked) \in Nat /\ Len(shipment) <= Rows /\ Rows \in Nat
        /\ Shipping!Ids' = Shipping!Ids /\ Shipping!Ids = 1 .. Len(shipment)
    BY <1>1, ShipNumbers DEF ShippingTypes, Shipping!Ids
  <1>4. i \in 1 .. Rows
    BY <1>3, ShipHas DEF ShipTaskOK
  <1>7. history \in [1 .. Rows -> SUBSET Shipping!Events]
    BY <1>1 DEF ShippingTypes
  <1>8. /\ history' \in [1 .. Rows -> SUBSET Shipping!Events]
        /\ \A j \in 1 .. Rows : history[j] \subseteq history'[j]
        /\ e \in history'[i]
    BY <1>4, <1>7
  <1>9. ShippingTypes'
    <2>1. \A g \in Handlers : ShipTaskOK(shipTask'[g], Len(shipment), Len(booked))
      BY <1>1, <1>2 DEF ShippingTypes
    <2> QED
      BY <1>1, <1>2, <1>3, <1>8, <2>1 DEF ShippingTypes
  <1>10. BookedInv'
    <2> SUFFICES ASSUME "row" \notin shipRaces
                 PROVE  BookedInv'
      BY DEF BookedInv
    <2>1. ASSUME NEW g \in Handlers, shipTask'[g].row # None, shipTask'[g].id # 0
          PROVE  /\ HeldAlone(g, shipTask[g].id)'
                 /\ shipment[shipTask'[g].id].tracking = shipTask'[g].row.tracking
                        \/ shipment[shipTask'[g].id].tracking \in blamed
                 /\ shipTask'[g].pc \in {"book", "save"} => shipment[shipTask'[g].id].tracking \in blamed
      <3>1. g # h /\ shipTask'[g] = shipTask[g]
        BY <1>2, <2>1
      <3>2. /\ HeldAlone(g, shipTask[g].id)
            /\ shipment[shipTask[g].id].tracking = shipTask[g].row.tracking
                  \/ shipment[shipTask[g].id].tracking \in blamed
            /\ shipTask[g].pc \in {"book", "save"} => shipment[shipTask[g].id].tracking \in blamed
        BY <1>1, <2>1, <3>1 DEF BookedInv
      <3>3. HeldAlone(g, shipTask[g].id)'
        BY <1>2, <3>1, <3>2 DEF HeldAlone
      <3> QED
        BY <3>1, <3>2, <3>3
    <2>2. ASSUME NEW n \in 1 .. Len(booked)
          PROVE  Shipping!Recorded(n)' \/ Shipping!Carried(n)' \/ n \in blamed
      <3>1. CASE Shipping!Recorded(n)
        BY <1>3, <3>1 DEF Shipping!Recorded
      <3>2. ASSUME NEW g \in Handlers, shipTask[g].pc = "save", shipTask[g].row.tracking = n
            PROVE  Shipping!Carried(n)'
        BY <1>2, <3>2 DEF Shipping!Carried, Shipping!At
      <3> QED
        BY <1>1, <3>1, <3>2 DEF BookedInv, Shipping!Carried, Shipping!At
    <2> QED
      BY <2>1, <2>2 DEF BookedInv
  <1>11. CacheInv'
    <2>1. Number(t) # 0 => Number(t) = Number(shipTask[h]) /\ t.id = shipTask[h].id
      BY DEF Number, Storing
    <2>2. ASSUME NEW g \in Handlers, Number(shipTask'[g]) # 0
          PROVE  Number(shipTask'[g]) = Number(shipTask[g]) /\ shipTask'[g].id = shipTask[g].id
      BY <1>2, <2>1, <2>2
    <2>3. ASSUME NEW j \in 1 .. Rows, Whole(j)
          PROVE  Whole(j)'
      BY <1>8, <2>3 DEF Whole, Shipping!Events
    <2>4. \A g \in Handlers : shipTask[g].id \in 0 .. Rows
      BY <1>3, ShipHas DEF ShipTaskOK
    <2>5. 0 \notin cached
      BY <1>1 DEF ShippingTypes
    <2>6. ASSUME NEW g \in Handlers, shipTask'[g].pc \in Storing \union {"refresh"}
          PROVE  Shipping!Events \ Left(shipTask'[g]) \subseteq history'[shipTask'[g].id]
      <3>1. CASE g = h
        <4>1. t.pc = "event" /\ shipTask[h].pc = "store" /\ t.id = i /\ Left(shipTask[h]) \subseteq {e} \union Left(t)
          BY <1>2, <2>6, <3>1 DEF Storing
        <4>2. Shipping!Events \ Left(shipTask[h]) \subseteq history[i]
          BY <1>1, <4>1 DEF CacheInv, Storing
        <4>3. Shipping!Events \ Left(t) \subseteq history'[i]
          BY <1>4, <1>8, <4>1, <4>2
        <4> QED
          BY <1>2, <3>1, <4>1, <4>3
      <3>2. CASE g # h
        <4>1. shipTask'[g] = shipTask[g]
          BY <1>2, <3>2
        <4>2. shipTask[g].id \in 1 .. Rows
          BY <1>3, <2>6, <4>1, ShipHas DEF ShipTaskOK, Loaded, Storing
        <4>3. Shipping!Events \ Left(shipTask[g]) \subseteq history[shipTask[g].id]
          BY <1>1, <2>6, <4>1 DEF CacheInv
        <4> QED
          BY <1>8, <4>1, <4>2, <4>3
      <3> QED
        BY <3>1, <3>2
    <2>7. ASSUME NEW g \in Handlers, Number(shipTask'[g]) \in cached
          PROVE  shipTask'[g].id # 0 /\ Shipping!Events \subseteq history'[shipTask'[g].id]
      <3>1. /\ Number(shipTask[g]) \in cached /\ shipTask'[g].id = shipTask[g].id
        BY <2>2, <2>5, <2>7
      <3>2. shipTask[g].id # 0 /\ Whole(shipTask[g].id)
        BY <1>1, <3>1 DEF CacheInv
      <3>3. Shipping!Events \subseteq history'[shipTask[g].id]
        <4>1. shipTask[g].id \in 1 .. Rows
          BY <1>3, <2>4, <3>2
        <4>2. history[shipTask[g].id] \subseteq history'[shipTask[g].id]
          BY <1>8, <4>1
        <4> QED
          BY <3>2, <4>2 DEF Whole
      <3> QED
        BY <3>1, <3>2, <3>3
    <2>8. ASSUME NEW j \in Shipping!Ids, shipment[j].tracking \in cached
          PROVE  Whole(j)'
      BY <1>1, <1>3, <2>3, <2>8 DEF CacheInv
    <2>9. (\A j, k \in Shipping!Ids : shipment[j].tracking # 0 /\ shipment[j].tracking = shipment[k].tracking => j = k)'
      BY <1>1, <1>3 DEF CacheInv
    <2>10. (\A g \in Handlers, j \in Shipping!Ids :
                Number(shipTask[g]) # 0 /\ shipment[j].tracking = Number(shipTask[g]) => j = shipTask[g].id)'
      BY <1>1, <1>3, <2>2 DEF CacheInv
    <2>11. (\A g, k \in Handlers : Number(shipTask[k]) # 0 /\ Number(shipTask[g]) = Number(shipTask[k]) =>
                shipTask[g].id = shipTask[k].id /\ (shipTask[k].id = 0 => g = k))'
      BY <1>1, <2>2 DEF CacheInv
    <2>12. (\A j \in Shipping!Ids : shipment[j].tracking \in cached => Whole(j))'
      BY <1>3, <2>8
    <2>13. (\A g \in Handlers : Number(shipTask[g]) \in cached => shipTask[g].id # 0 /\ Whole(shipTask[g].id))'
      BY <2>7 DEF Whole, Shipping!Events
    <2>14. (\A g \in Handlers : shipTask[g].pc \in Storing \union {"refresh"} =>
                Shipping!Events \ Left(shipTask[g]) \subseteq history[shipTask[g].id])'
      BY <2>6 DEF Shipping!Events, Left
    <2> QED
      BY ONLY <2>9, <2>10, <2>11, <2>12, <2>13, <2>14 DEF CacheInv
  <1> QED
    BY <1>9, <1>10, <1>11 DEF ShipInv

LEMMA SaveHistoryKeeps ==
    ASSUME ShipInv, NEW h \in Handlers, Shipping!SaveHistory(h)
    PROVE  ShipInv'
  <1>1. PICK t : t = Shipping!NoTask
    OBVIOUS
  <1>2. /\ shipTask' = [shipTask EXCEPT ![h] = t] /\ shipTask[h].pc = "history"
        /\ history' = [history EXCEPT ![shipTask[h].id] = @ \union {"created"}]
        /\ UNCHANGED <<shipment, booked, cached, blamed, shipRaces>>
    BY <1>1 DEF Shipping!SaveHistory, Shipping!Done, Shipping!At
  <1>3. ShipTaskOK(t, Len(shipment), Len(booked)) /\ t.row = None /\ t.pc = "idle"
    BY <1>1, DoneFacts, ShipHas
  <1>4. shipTask[h].id # 0 /\ "created" \in Shipping!Events
    BY <1>2, ShipHas DEF ShipTaskOK, Shipping!Events
  <1> QED
    BY <1>2, <1>3, <1>4, HistoryKeeps

LEMMA StoreEventKeeps ==
    ASSUME ShipInv, NEW h \in Handlers, Shipping!StoreEvent(h)
    PROVE  ShipInv'
  <1>1. PICK u : u = shipTask[h]
    OBVIOUS
  <1>2. PICK rest : rest = Tail(u.heard)
    OBVIOUS
  <1>3. PICK t : t = [u EXCEPT !.pc = "event", !.heard = rest]
    OBVIOUS
  <1>4. PICK e : e = Head(u.heard)
    OBVIOUS
  <1>5. /\ u.pc = "store" /\ shipTask' = [shipTask EXCEPT ![h] = t]
        /\ history' = [history EXCEPT ![u.id] = @ \union {e}]
        /\ UNCHANGED <<shipment, booked, cached, blamed, shipRaces>>
    BY <1>1, <1>2, <1>3, <1>4 DEF Shipping!StoreEvent, Shipping!At
  <1>6. /\ ShipTaskOK(u, Len(shipment), Len(booked)) /\ u.row = None
        /\ DOMAIN u = {"pc", "id", "row", "turn", "heard"}
        /\ u.heard \in Seq(Shipping!Events) /\ u.heard # <<>>
    BY <1>1, <1>5, ShipHas DEF ShipTaskOK, Storing, Creating, Loaded
  <1>7. rest \in Seq(Shipping!Events)
    BY <1>2, <1>6
  <1>8. /\ DOMAIN t = {"pc", "id", "row", "turn", "heard"} /\ t.pc = "event" /\ t.row = None
        /\ t.id = u.id /\ t.turn = u.turn /\ t.heard = rest
    BY <1>3, <1>6
  <1>9. ShipTaskOK(t, Len(shipment), Len(booked))
    BY <1>5, <1>6, <1>7, <1>8 DEF ShipTaskOK, Creating, Loaded, Storing
  <1>10. /\ Number(t) = Number(u) /\ Left(u) \subseteq {e} \union Left(t) /\ u.id # 0
         /\ e \in Shipping!Events
    BY <1>2, <1>4, <1>5, <1>6, <1>8, LeftFacts, HeadTailProperties DEF Number, Storing, ShipTaskOK
  <1> QED
    BY <1>1, <1>5, <1>8, <1>9, <1>10, HistoryKeeps

\* What the handlers do not notice: the cache's entries expire.
LEMMA OutsideKeeps ==
    ASSUME ShipInv, UNCHANGED <<shipment, history, booked, shipTask, blamed, shipRaces>>,
           cached' \subseteq cached
    PROVE  ShipInv'
  <1>1. ShippingTypes /\ BookedInv /\ CacheInv
    BY DEF ShipInv
  <1>2. Shipping!Ids' = Shipping!Ids
    BY DEF Shipping!Ids
  <1>3. ShippingTypes'
    BY <1>1, <1>2 DEF ShippingTypes
  <1>4. BookedInv'
    <2>1. \A g, i : HeldAlone(g, i)' = HeldAlone(g, i)
      BY DEF HeldAlone
    <2>2. \A n : Shipping!Recorded(n)' = Shipping!Recorded(n) /\ Shipping!Carried(n)' = Shipping!Carried(n)
      BY <1>2 DEF Shipping!Recorded, Shipping!Carried, Shipping!At
    <2> QED
      BY <1>1, <2>1, <2>2 DEF BookedInv
  <1>5. CacheInv'
    <2>1. \A g \in Handlers : Number(shipTask'[g]) = Number(shipTask[g]) /\ Left(shipTask'[g]) = Left(shipTask[g])
      OBVIOUS
    <2>2. \A i : Whole(i)' = Whole(i)
      BY DEF Whole, Shipping!Events
    <2> QED
      BY <1>1, <1>2, <2>1, <2>2 DEF CacheInv, Shipping!Events
  <1> QED
    BY <1>3, <1>4, <1>5 DEF ShipInv

LEMMA CacheExpiresKeeps ==
    ASSUME ShipInv, NEW n, Shipping!CacheExpires(n)
    PROVE  ShipInv'
  BY OutsideKeeps DEF Shipping!CacheExpires

\* The process dies: bookings about to be saved are blamed on it, and nothing is held any more.
LEMMA ShipCrashKeeps ==
    ASSUME ShipInv, Shipping!Crash
    PROVE  ShipInv'
  <1>1. ShippingTypes /\ BookedInv /\ CacheInv
    BY DEF ShipInv
  <1>2. PICK t : t = Shipping!NoTask
    OBVIOUS
  <1>3. /\ DOMAIN shipTask' = Handlers /\ \A g \in Handlers : shipTask'[g] = t
        /\ cached' = {} /\ UNCHANGED <<shipment, history, booked, shipRaces>>
        /\ blamed' = blamed \union {shipTask[h].row.tracking : h \in {g \in Handlers : shipTask[g].pc = "save"}}
    BY <1>2 DEF Shipping!Crash, Shipping!At
  <1>4. /\ Len(shipment) \in Nat /\ Len(booked) \in Nat
        /\ Shipping!Ids' = Shipping!Ids /\ Shipping!Ids = 1 .. Len(shipment)
    BY <1>1, <1>3 DEF ShippingTypes, Shipping!Ids
  <1>5. ShipTaskOK(t, Len(shipment), Len(booked)) /\ t.row = None /\ t.pc = "idle"
    BY <1>2, <1>4, DoneFacts
  <1>6. ASSUME NEW h \in Handlers, shipTask[h].pc = "save"
        PROVE  shipTask[h].row.tracking \in 1 .. Len(booked)
    <2>1. shipTask[h].row \in ShipRow /\ shipTask[h].row.tracking <= Len(booked) /\ shipTask[h].row.tracking # 0
      BY <1>6, ShipHas DEF ShipTaskOK, Creating
    <2>2. shipTask[h].row.tracking \in Nat
      BY <2>1 DEF ShipRow
    <2> QED
      BY <1>4, <2>1, <2>2
  <1>7. ShippingTypes'
    <2>1. blamed' \subseteq 1 .. Len(booked)
      BY <1>1, <1>3, <1>6 DEF ShippingTypes
    <2> QED
      BY <1>1, <1>3, <1>4, <1>5, <2>1 DEF ShippingTypes
  <1>8. BookedInv'
    <2>1. ASSUME NEW n \in 1 .. Len(booked), Shipping!Recorded(n) \/ Shipping!Carried(n) \/ n \in blamed
          PROVE  Shipping!Recorded(n)' \/ n \in blamed'
      <3>1. CASE Shipping!Recorded(n)
        BY <1>3, <1>4, <3>1 DEF Shipping!Recorded
      <3>2. CASE Shipping!Carried(n)
        BY <1>3, <3>2 DEF Shipping!Carried, Shipping!At
      <3> QED
        BY <1>3, <2>1, <3>1, <3>2
    <2> QED
      BY <1>1, <1>3, <1>5, <2>1 DEF BookedInv
  <1>9. CacheInv'
    BY <1>1, <1>3, <1>4, <1>5 DEF CacheInv, Number, Storing
  <1> QED
    BY <1>7, <1>8, <1>9 DEF ShipInv

LEMMA ShipStep == ShipInv /\ [Shipping!Next]_Shipping!vars => ShipInv'
  <1> SUFFICES ASSUME ShipInv, [Shipping!Next]_Shipping!vars
               PROVE  ShipInv'
    OBVIOUS
  <1>1. ASSUME NEW h \in Handlers, Shipping!Create(h)
        PROVE  ShipInv'
    BY <1>1, StartCreateKeeps, BookKeeps, FailuresKeep, SaveShipmentKeeps, SaveHistoryKeeps, GiveUpKeeps
       DEF Shipping!Create
  <1>2. ASSUME NEW h \in Handlers, Shipping!Track(h)
        PROVE  ShipInv'
    <2>1. ASSUME NEW i \in Shipping!Ids, Shipping!StartTracking(h, i)
          PROVE  ShipInv'
      BY <2>1, ShipLoadKeeps DEF Shipping!StartTracking
    <2> QED
      BY <1>2, <2>1, AskProviderKeeps, SaveRefreshedKeeps, FindEventKeeps, StoreEventKeeps, RefreshEndsKeep
         DEF Shipping!Track
  <1>3. ASSUME NEW h \in Handlers, Shipping!Cancel(h)
        PROVE  ShipInv'
    <2>1. ASSUME NEW i \in Shipping!Ids, Shipping!StartCancel(h, i)
          PROVE  ShipInv'
      BY <2>1, ShipLoadKeeps DEF Shipping!StartCancel
    <2> QED
      BY <1>3, <2>1, AskToCancelKeeps, SaveCancelledKeeps DEF Shipping!Cancel
  <1>4. ASSUME NEW h \in Handlers, Shipping!Return(h)
        PROVE  ShipInv'
    <2>1. ASSUME NEW i \in Shipping!Ids, Shipping!StartReturn(h, i)
          PROVE  ShipInv'
      BY <2>1, ShipLoadKeeps DEF Shipping!StartReturn
    <2> QED
      BY <1>4, <2>1, SaveReturnKeeps DEF Shipping!Return
  <1>5. CASE UNCHANGED Shipping!vars
    BY <1>5, OutsideKeeps DEF Shipping!vars
  <1> QED
    BY <1>1, <1>2, <1>3, <1>4, <1>5, CacheExpiresKeeps, ShipCrashKeeps DEF Shipping!Next

LEMMA ShipsHold == Shipping!Spec => []ShipInv
  BY ShipInit, ShipStep, PTL DEF Shipping!Spec

\* A parcel booked with a provider is the parcel of some shipment or of the handler
\* about to save it, unless its own call failed after the booking, or two handlers
\* held the row at the same time.
THEOREM ParcelsAreRecorded == AfterSales => []BookedIsRecorded
  <1>1. ShipInv => BookedIsRecorded
    <2>1. ShipInv => DOMAIN booked = 1 .. Len(booked)
      BY DEF ShipInv, ShippingTypes
    <2> QED
      BY <2>1 DEF BookedIsRecorded, Shipping!BookedIsRecorded, ShipInv, BookedInv
  <1> QED
    BY <1>1, ShipsHold, PartsRun, PTL

\* A tracking number in the cache is that of shipments whose whole journey is in the
\* history, wherever a refresh broke off, with which others it overlapped, and however
\* often the shipment was booked (shipping.service.ts:271-296: the cache is filled after
\* the last event).
THEOREM CacheHidesNothing == AfterSales => []CachedIsComplete
  <1>1. ShipInv => CachedIsComplete
    BY DEF CachedIsComplete, Shipping!CachedIsComplete, ShipInv, CacheInv, Whole
  <1> QED
    BY <1>1, ShipsHold, PartsRun, PTL

-----------------------------------------------------------------------------
(***************************************************************************)
(* The types of the three services.                                        *)
(***************************************************************************)
\* The invariant of the tickets says what TicketTypeOK does.
LEMMA TicketsTyped == TicketTypes => Warranty!TicketTypeOK
  <1> SUFFICES ASSUME TicketTypes PROVE Warranty!TicketTypeOK
    OBVIOUS
  <1>1. ticket \in Warranty!BoundedSeq(Warranty!Row, MaxTickets)
    <2>1. ticket \in [1 .. Len(ticket) -> Warranty!Row] /\ Len(ticket) \in 0 .. MaxTickets
      BY TicketAssumption DEF TicketTypes
    <2> QED
      BY <2>1 DEF Warranty!BoundedSeq, Warranty!SeqOf
  <1>2. ASSUME NEW h \in Handlers
        PROVE  /\ Warranty!At(h, "idle") <=> ticketTask[h] = Warranty!NoTask
               /\ ticketTask[h].id \in Warranty!Ids \union {0}
               /\ ticketTask[h].copy # None =>
                    /\ ticketTask[h].id \in Warranty!Ids
                    /\ ticketTask[h].copy.item = ticket[ticketTask[h].id].item
    <2>1. TicketTaskOK(ticketTask[h], Len(ticket)) /\ Warranty!Ids = 1 .. Len(ticket)
      BY DEF TicketTypes, Warranty!Ids
    <2>2. Len(ticket) \in Nat
      BY DEF TicketTypes
    <2>3. ticketTask[h].id \in Warranty!Ids \union {0}
      BY <2>1, <2>2 DEF TicketTaskOK
    <2>4. ticketTask[h].copy # None => ticketTask[h].id # 0
      BY <2>1 DEF TicketTaskOK
    <2>5. Warranty!At(h, "idle") <=> ticketTask[h] = Warranty!NoTask
      BY <2>1 DEF TicketTaskOK, Warranty!At
    <2> QED
      BY <2>3, <2>4, <2>5 DEF TicketTypes
  <1> QED
    BY <1>1, <1>2 DEF Warranty!TicketTypeOK, TicketTypes

\* The invariant of the shipments says what ShippingTypeOK does.
LEMMA ShipmentsTyped == ShippingTypes => Shipping!ShippingTypeOK
  <1> SUFFICES ASSUME ShippingTypes PROVE Shipping!ShippingTypeOK
    OBVIOUS
  <1>1. /\ Shipping!Ids = 1 .. Len(shipment) /\ Len(shipment) \in Nat
        /\ DOMAIN booked = 1 .. Len(booked) /\ Len(booked) \in Nat
    BY DEF ShippingTypes, Shipping!Ids
  <1>2. ASSUME NEW i \in Shipping!Ids
        PROVE  /\ shipment[i].provider \in {Providers[k] : k \in DOMAIN Providers}
               /\ shipment[i].tracking \in 0 .. Len(booked)
               /\ shipment[i].status \in Shipping!Statuses
               /\ shipment[i].cod \in Shipping!CodStatuses
               /\ shipment[i].retries = 0
    <2>1. shipment[i] \in ShipRow
      BY <1>1 DEF ShippingTypes
    <2>2. shipment[i].tracking <= Len(booked) /\ shipment[i].retries = 0
      BY DEF ShippingTypes
    <2> QED
      BY <1>1, <2>1, <2>2 DEF ShipRow, Names
  <1>3. ASSUME NEW n \in DOMAIN booked
        PROVE  booked[n] \in {Providers[k] : k \in DOMAIN Providers}
    BY <1>1 DEF ShippingTypes, Names
  <1>4. ASSUME NEW h \in Handlers
        PROVE  /\ shipTask[h].id \in Shipping!Ids \union {0}
               /\ shipTask[h].pc \in {"ask", "refresh", "event", "store", "cancel", "cancelled", "return"}
                    => shipTask[h].id # 0
    <2>1. ShipTaskOK(shipTask[h], Len(shipment), Len(booked))
      BY DEF ShippingTypes
    <2> QED
      BY <1>1, <2>1 DEF ShipTaskOK, Loaded, Storing
  <1> QED
    BY <1>1, <1>2, <1>3, <1>4 DEF Shipping!ShippingTypeOK, ShippingTypes, Rows

\* The rows, counts and handlers of the three services keep their shapes: a handler of a return
\* works on a stored request and its bounds are kept however many handlers pass the same check,
\* the item of a ticket never changes, and a stored shipment has a number MySQL can store
\* (return.service.ts:254, inspect; shipping.service.ts:216, the retry count).
THEOREM PartsTyped == AfterSales => []TypesOK
  <1>1. ReturnTypeOK /\ TicketTypes /\ ShipInv => TypesOK
    BY TicketsTyped, ShipmentsTyped DEF TypesOK, ShipInv
  <1> QED
    BY <1>1, ReturnTypesHold, TicketsHold, ShipsHold, PartsRun, PTL
=============================================================================
