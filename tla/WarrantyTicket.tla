--------------------------- MODULE WarrantyTicket ---------------------------
(***************************************************************************)
(* WarrantyService: a customer opens a ticket for an item of an order, an  *)
(* administrator assigns a technician, and the ticket's status is changed. *)
(* Every change writes the ticket and then a repair log.  The entity is    *)
(* loaded, and saved whole an await later; ids grow with the tickets.      *)
(* Dates, diagnoses and priorities are left out.                           *)
(*                                                                         *)
(* races records what has overlapped so far: "row", two handlers held the  *)
(* same ticket to save it; "twin", two opened a ticket for one item;       *)
(* "reopened", a closed ticket was given an open status again.             *)
(***************************************************************************)
EXTENDS Integers, Sequences, FiniteSets, SequencesExt

CONSTANTS
    None,
    Items,        \* order items, each of the customer who opens its tickets
    Technicians,
    Handlers,     \* requests that may be under way
    Changes,      \* statuses an update may ask for
    MaxTickets,   \* bound on the tickets
    MaxUpdates,   \* bound on the requests about a ticket
    MaxDeaths     \* bound on the handlers that die half-way

VARIABLES
    ticket,   \* rows of warranty_tickets, in the order of their ids
    log,      \* log[i]: the statuses in the repair logs of ticket i
    updates,  \* requests about a ticket so far
    task,     \* task[h]: what handler h is doing
    races,
    deaths

vars == <<ticket, log, updates, task, races, deaths>>

Statuses == {"pending", "received", "diagnosing", "repairing", "waiting_parts", "completed",
             "returned", "rejected"}
Row == [item : Items, status : Statuses, assigned : Technicians \union {None}]

\* about: the item, ticket or status the next step is about; copy: the row to save.
NoTask == [pc |-> "idle", about |-> None, id |-> 0, copy |-> None]

Init ==
    /\ ticket = <<>>
    /\ log = [i \in 1 .. MaxTickets |-> {}]
    /\ updates = 0
    /\ task = [h \in Handlers |-> NoTask]
    /\ races = {}
    /\ deaths = 0

At(h, pc) == task[h].pc = pc
Done(h) == task' = [task EXCEPT ![h] = NoTask]
Others(h) == {task[g] : g \in Handlers \ {h}}
Ids == DOMAIN ticket
TicketsOf(i) == {t \in Ids : ticket[t].item = i}

-----------------------------------------------------------------------------
Closed(status) == status \in {"returned", "rejected"}

\* Mutant of CheckExisting: only a pending ticket stands in the way of another.
CheckExistingPending(h, i) ==
    /\ At(h, "idle")
    /\ \A t \in TicketsOf(i) : ticket[t].status # "pending"
    /\ task' = [task EXCEPT ![h] = [NoTask EXCEPT !.pc = "create", !.about = i]]
    /\ races' = races \union (IF \E t \in Others(h) : t.pc = "create" /\ t.about = i THEN {"twin"} ELSE {})
    /\ UNCHANGED <<ticket, log, updates, deaths>>

\* Only the item's latest ticket is looked at.
CheckExisting(h, i) ==
    /\ At(h, "idle")
    /\ \A t \in TicketsOf(i) : (\A u \in TicketsOf(i) : u <= t) => Closed(ticket[t].status)
    /\ task' = [task EXCEPT ![h] = [NoTask EXCEPT !.pc = "create", !.about = i]]
    /\ races' = races \union (IF \E t \in Others(h) : t.pc = "create" /\ t.about = i THEN {"twin"} ELSE {})
    /\ UNCHANGED <<ticket, log, updates, deaths>>

SaveTicket(h) ==
    LET t == task[h] IN
    /\ At(h, "create")
    /\ Len(ticket) < MaxTickets
    /\ ticket' = Append(ticket, [item |-> t.about, status |-> "pending", assigned |-> None])
    /\ task' = [task EXCEPT ![h] = [NoTask EXCEPT !.pc = "log", !.id = Len(ticket) + 1, !.about = "pending"]]
    /\ UNCHANGED <<log, updates, races, deaths>>

\* Mutant of SaveLog: only closing a ticket is logged.
SaveLogWhenClosed(h) ==
    LET t == task[h] IN
    /\ At(h, "log")
    /\ log' = [log EXCEPT ![t.id] = IF Closed(t.about) THEN @ \union {t.about} ELSE @]
    /\ Done(h)
    /\ UNCHANGED <<ticket, updates, races, deaths>>

SaveLog(h) ==
    LET t == task[h] IN
    /\ At(h, "log")
    /\ log' = [log EXCEPT ![t.id] = @ \union {t.about}]
    /\ Done(h)
    /\ UNCHANGED <<ticket, updates, races, deaths>>

-----------------------------------------------------------------------------
RowRace(h, i) == IF \E t \in Others(h) : t.id = i /\ t.copy # None THEN {"row"} ELSE {}

CountUpdate == updates < MaxUpdates /\ updates' = updates + 1

Load(h, pc, i) ==
    /\ At(h, "idle")
    /\ CountUpdate
    /\ task' = [task EXCEPT ![h] = [NoTask EXCEPT !.pc = pc, !.id = i, !.copy = ticket[i]]]
    /\ races' = races \union RowRace(h, i)
    /\ UNCHANGED <<ticket, log, deaths>>

\* The save of a row, after which its status is to be logged.
Save(h, row) ==
    LET t == task[h] IN
    /\ ticket' = [ticket EXCEPT ![t.id] = row]
    /\ task' = [task EXCEPT ![h] = [NoTask EXCEPT !.pc = "log", !.id = t.id, !.about = row.status]]
    /\ races' = races \union (IF Closed(ticket[t.id].status) /\ ~Closed(row.status) THEN {"reopened"} ELSE {})
    /\ UNCHANGED <<log, updates, deaths>>

LoadToAssign(h, i) == Load(h, "assign", i)

SaveAssigned(h) ==
    LET row == task[h].copy IN
    /\ At(h, "assign")
    /\ \E t \in Technicians :
        Save(h, [row EXCEPT !.assigned = t, !.status = IF @ = "pending" THEN "received" ELSE @])

\* A technician must be the one assigned; other roles (None) are not checked.
LoadToUpdate(h, i, actor) ==
    /\ actor \in Technicians => ticket[i].assigned = actor
    /\ Load(h, "update", i)

SaveUpdated(h) ==
    /\ At(h, "update")
    /\ \E s \in Changes : Save(h, [task[h].copy EXCEPT !.status = s])

\* addRepairLog writes whatever status it is given.
AddRepairLog(h, i) ==
    /\ At(h, "idle")
    /\ CountUpdate
    /\ \E s \in Changes :
        task' = [task EXCEPT ![h] = [NoTask EXCEPT !.pc = "log", !.id = i, !.about = s]]
    /\ UNCHANGED <<ticket, log, races, deaths>>

\* The process, or its connection to MySQL, goes away.
Die(h) ==
    /\ ~At(h, "idle")
    /\ deaths < MaxDeaths
    /\ deaths' = deaths + 1
    /\ Done(h)
    /\ UNCHANGED <<ticket, log, updates, races>>

Create(h) == (\E i \in Items : CheckExisting(h, i)) \/ SaveTicket(h)
Assign(h) == (\E i \in Ids : LoadToAssign(h, i)) \/ SaveAssigned(h)
Update(h) ==
    \/ \E i \in Ids, actor \in Technicians \union {None} : LoadToUpdate(h, i, actor)
    \/ SaveUpdated(h)

Next == \E h \in Handlers :
    \/ Create(h)
    \/ Assign(h)
    \/ Update(h)
    \/ \E i \in Ids : AddRepairLog(h, i)
    \/ SaveLog(h)
    \/ Die(h)

Spec == Init /\ [][Next]_vars

-----------------------------------------------------------------------------
\* Rows have their shape, and a handler's ticket exists and stays that of its item.
TicketTypeOK ==
    /\ ticket \in BoundedSeq(Row, MaxTickets)
    /\ log \in [1 .. MaxTickets -> SUBSET Statuses]
    /\ \A h \in Handlers :
        /\ At(h, "idle") <=> task[h] = NoTask
        /\ task[h].id \in Ids \union {0}
        /\ task[h].copy # None => task[h].id \in Ids /\ task[h].copy.item = ticket[task[h].id].item
    /\ races \subseteq {"row", "twin", "reopened"}
    /\ updates \in 0 .. MaxUpdates
    /\ deaths \in 0 .. MaxDeaths

\* createTicket refuses a second ticket while the item's latest one is open.  An item has at
\* most one open ticket, unless two were opened at the same moment or a closed ticket was
\* given an open status, by an update or by a stale save.
OneOpenTicket ==
    races \cap {"twin", "reopened"} = {} =>
        \A i \in Items : Cardinality({t \in TicketsOf(i) : ~Closed(ticket[t].status)}) <= 1

\* The ticket is saved before its log.  Unless a handler dies between the two, every status a
\* ticket shows has been logged or is about to be, even when stale saves bring old ones back.
StatusIsLogged ==
    deaths = 0 =>
        \A i \in Ids :
            \/ ticket[i].status \in log[i]
            \/ \E h \in Handlers : task[h].id = i /\ At(h, "log") /\ task[h].about = ticket[i].status

=============================================================================
