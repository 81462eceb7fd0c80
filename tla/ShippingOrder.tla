--------------------------- MODULE ShippingOrder ---------------------------
(***************************************************************************)
(* ShippingService: a shipment is booked with the first provider that      *)
(* accepts it, its tracking is refreshed from the provider, and it may be  *)
(* cancelled.  Every provider is served by MockShippingAdapter, the only   *)
(* adapter registered: it keeps nothing, and reports the same journey of   *)
(* any parcel, with times counted back from the moment of the call.  A step*)
(* is what happens between two awaits; rows are saved whole.  Fees,        *)
(* addresses and labels are left out.                                      *)
(*                                                                         *)
(* blamed holds the bookings of a call in which something went wrong; races*)
(* holds "row" once two handlers have held a shipment's entity to save it. *)
(***************************************************************************)
EXTENDS Integers, Sequences, FiniteSets

CONSTANTS
    None,
    Providers,      \* the active providers' names by priority
    Cods,           \* what a shipment may have to collect: "none" or "pending"
    Handlers,       \* requests that may be under way
    MaxShipments,   \* bound on the rows createShippingOrder adds
    MaxReturns,     \* bound on the rows createReturn adds
    MaxBookings,    \* bound on the shipments booked with providers
    MaxFaults       \* bound on refusals, failed writes and crashes

VARIABLES
    shipment,   \* rows of shipping_orders, in the order of their ids
    history,    \* history[i]: statuses the tracking history has rows of for shipment i
    booked,     \* the providers of the parcels booked; the index is the tracking number
    cached,     \* tracking numbers with a fresh entry in trackingCache
    task,       \* task[h]: what handler h is doing
    blamed,
    races,
    faults

vars == <<shipment, history, booked, cached, task, blamed, races, faults>>

Statuses == {"pending", "created", "picked_up", "in_transit", "out_for_delivery", "delivered",
             "delivery_failed", "returning", "returned", "cancelled"}
CodStatuses == {"none", "pending", "cancelled"}
Ids == DOMAIN shipment

\* The events getTracking of the adapter answers with, and the status it reports beside them.
Journey == <<"created", "picked_up", "in_transit">>
Reported == "in_transit"
Events == {"created", "picked_up", "in_transit"}

\* retries is 0, or None once it has become NaN; turn is the provider to ask next.
NewRow(cod) == [provider |-> Providers[1], tracking |-> 0, status |-> "pending", cod |-> cod, retries |-> 0]
NoTask == [pc |-> "idle", id |-> 0, row |-> None, turn |-> 1, heard |-> <<>>]

Init ==
    /\ shipment = <<>>
    /\ history = [i \in 1 .. MaxShipments + MaxReturns |-> {}]
    /\ booked = <<>>
    /\ cached = {}
    /\ task = [h \in Handlers |-> NoTask]
    /\ blamed = {}
    /\ races = {}
    /\ faults = 0

At(h, pc) == task[h].pc = pc
Done(h) == task' = [task EXCEPT ![h] = NoTask]
Others(h) == {task[g] : g \in Handlers \ {h}}
Fault == faults < MaxFaults /\ faults' = faults + 1
Blame(n) == blamed' = blamed \union ({n} \ {0})

RowRace(h, i) == IF \E t \in Others(h) : t.id = i /\ t.row # None THEN {"row"} ELSE {}

-----------------------------------------------------------------------------
(* createShippingOrder: ask a provider, save the row, write the history; if
   any of these throws, go on with the next provider. *)
StartCreate(h, cod) ==
    /\ At(h, "idle")
    /\ Len(shipment) < MaxShipments
    /\ task' = [task EXCEPT ![h] = [NoTask EXCEPT !.pc = "book", !.row = NewRow(cod)]]
    /\ UNCHANGED <<shipment, history, booked, cached, blamed, races, faults>>

Book(h) ==
    LET t == task[h] IN
    /\ At(h, "book")
    /\ t.turn <= Len(Providers)
    /\ Len(booked) < MaxBookings
    /\ booked' = Append(booked, Providers[t.turn])
    /\ task' = [task EXCEPT ![h].pc = "save",
                            ![h].row = [@ EXCEPT !.provider = Providers[t.turn],
                                                 !.tracking = Len(booked) + 1,
                                                 !.status = "created"]]
    /\ UNCHANGED <<shipment, history, cached, blamed, races, faults>>

\* The catch: retryCount of an entity that was never saved is undefined, and undefined + 1 is NaN.
NextProvider(t) ==
    [t EXCEPT !.pc = "book", !.turn = @ + 1,
              !.row.retries = IF t.id = 0 THEN None ELSE 0]

ProviderRefuses(h) ==
    /\ At(h, "book")
    /\ task[h].turn <= Len(Providers)
    /\ Fault
    /\ task' = [task EXCEPT ![h] = NextProvider(@)]
    /\ UNCHANGED <<shipment, history, booked, cached, blamed, races>>

\* Mutant of Storable: MySQL takes any number.
StorableAlways(row) == TRUE

\* MySQL has no such number, so the INSERT fails.
Storable(row) == row.retries # None

\* Mutant of Stored: the tracking number is not a column of the row.
StoredWithoutTracking(h, id, row) ==
    shipment' = IF id = 0 THEN Append(shipment, row) ELSE [shipment EXCEPT ![id] = [row EXCEPT !.tracking = 0]]

Stored(h, id, row) ==
    shipment' = IF id = 0 THEN Append(shipment, row) ELSE [shipment EXCEPT ![id] = row]

SaveShipment(h) ==
    LET t == task[h]
        id == IF t.id = 0 THEN Len(shipment) + 1 ELSE t.id IN
    /\ At(h, "save")
    /\ Storable(t.row)
    /\ id <= MaxShipments
    /\ Stored(h, t.id, t.row)
    /\ task' = [task EXCEPT ![h].pc = "history", ![h].id = id]
    /\ UNCHANGED <<history, booked, cached, blamed, races, faults>>

SaveFails(h) ==
    LET t == task[h] IN
    /\ At(h, "save")
    /\ IF Storable(t.row) THEN Fault ELSE UNCHANGED faults
    /\ Blame(t.row.tracking)
    /\ task' = [task EXCEPT ![h] = NextProvider(@)]
    /\ UNCHANGED <<shipment, history, booked, cached, races>>

SaveHistory(h) ==
    /\ At(h, "history")
    /\ history' = [history EXCEPT ![task[h].id] = @ \union {"created"}]
    /\ Done(h)
    /\ UNCHANGED <<shipment, booked, cached, blamed, races, faults>>

HistoryFails(h) ==
    /\ At(h, "history")
    /\ Fault
    /\ Blame(task[h].row.tracking)
    /\ task' = [task EXCEPT ![h] = NextProvider(@)]
    /\ UNCHANGED <<shipment, history, booked, cached, races>>

\* No provider is left: the row is saved as pending, if it can be, and the call throws.
GiveUp(h) ==
    LET t == task[h] IN
    /\ At(h, "book")
    /\ t.turn > Len(Providers)
    /\ IF Storable(t.row) /\ (t.id = 0 => Len(shipment) < MaxShipments)
       THEN Stored(h, t.id, [t.row EXCEPT !.status = "pending"])
       ELSE UNCHANGED shipment
    /\ Done(h)
    /\ UNCHANGED <<history, booked, cached, blamed, races, faults>>

-----------------------------------------------------------------------------
Load(h, pc, i) ==
    /\ At(h, "idle")
    /\ task' = [task EXCEPT ![h] = [NoTask EXCEPT !.pc = pc, !.id = i, !.row = shipment[i]]]
    /\ races' = races \union RowRace(h, i)
    /\ UNCHANGED <<shipment, history, booked, cached, blamed, faults>>

(* getTracking: the entry in the cache spares the provider's answer. *)
StartTracking(h, i) ==
    /\ shipment[i].tracking \notin {0} \union cached
    /\ Load(h, "ask", i)

\* mapProviderStatus: the provider's "created" and "cancelled" count as in transit.
Mapped(status) ==
    IF status \in Statuses \ {"pending", "created", "cancelled"} THEN status ELSE "in_transit"

AskProvider(h) ==
    /\ At(h, "ask")
    /\ task' = [task EXCEPT ![h].pc = "refresh", ![h].row.status = Mapped(Reported), ![h].heard = Journey]
    /\ UNCHANGED <<shipment, history, booked, cached, blamed, races, faults>>

SaveRefreshed(h) ==
    LET t == task[h] IN
    /\ At(h, "refresh")
    /\ Stored(h, t.id, t.row)
    /\ task' = [task EXCEPT ![h].pc = "event", ![h].row = None, ![h].turn = t.row.tracking]
    /\ UNCHANGED <<history, booked, cached, blamed, races, faults>>

\* Whether the lookup by status and time finds a row of this status.  The event's time is new at
\* every call and has milliseconds, the column's has none: an event stored before is found only
\* if the two times happen to agree to the second and the milliseconds are zero.
Lookups(i, event) == IF event \in history[i] THEN BOOLEAN ELSE {FALSE}

\* One event at a time; turn now holds the tracking number.
FindEvent(h) ==
    LET t == task[h] IN
    /\ At(h, "event")
    /\ t.heard # <<>>
    /\ \E found \in Lookups(t.id, Head(t.heard)) :
        task' = [task EXCEPT ![h] = IF found THEN [t EXCEPT !.heard = Tail(@)] ELSE [t EXCEPT !.pc = "store"]]
    /\ UNCHANGED <<shipment, history, booked, cached, blamed, races, faults>>

StoreEvent(h) ==
    LET t == task[h] IN
    /\ At(h, "store")
    /\ history' = [history EXCEPT ![t.id] = @ \union {Head(t.heard)}]
    /\ task' = [task EXCEPT ![h].pc = "event", ![h].heard = Tail(@)]
    /\ UNCHANGED <<shipment, booked, cached, blamed, races, faults>>

FillCache(h) ==
    LET t == task[h] IN
    /\ At(h, "event")
    /\ t.heard = <<>>
    /\ cached' = cached \union {t.turn}
    /\ Done(h)
    /\ UNCHANGED <<shipment, history, booked, blamed, races, faults>>

\* Mutant of RefreshFails: the cache is filled whether or not the refresh went through.
RefreshFailsCached(h) ==
    /\ task[h].pc \in {"ask", "refresh", "event", "store"}
    /\ Fault
    /\ cached' = cached \union {IF task[h].row = None THEN task[h].turn ELSE task[h].row.tracking}
    /\ Done(h)
    /\ UNCHANGED <<shipment, history, booked, blamed, races>>

\* Whatever throws in the refresh is logged and ends it.
RefreshFails(h) ==
    /\ task[h].pc \in {"ask", "refresh", "event", "store"}
    /\ Fault
    /\ Done(h)
    /\ UNCHANGED <<shipment, history, booked, cached, blamed, races>>

-----------------------------------------------------------------------------
(* cancelShippingOrder: the provider is asked first if there is a parcel; the adapter keeps
   nothing, and a refusal would be ignored. *)
StartCancel(h, i) ==
    /\ shipment[i].status \notin {"delivered", "picked_up"}
    /\ Load(h, "cancel", i)

AskToCancel(h) ==
    /\ At(h, "cancel")
    /\ task' = [task EXCEPT ![h].pc = "cancelled"]
    /\ UNCHANGED <<shipment, history, booked, cached, blamed, races, faults>>

CodAfterCancel(cod) == IF cod = "pending" THEN "cancelled" ELSE cod

SaveCancelled(h) ==
    LET t == task[h] IN
    /\ At(h, "cancelled")
    /\ Stored(h, t.id, [t.row EXCEPT !.status = "cancelled", !.cod = CodAfterCancel(@)])
    /\ Done(h)
    /\ UNCHANGED <<history, booked, cached, blamed, races, faults>>

(* createReturn: a second row, booked with nobody. *)
StartReturn(h, i) ==
    /\ Len(shipment) < MaxShipments + MaxReturns
    /\ Load(h, "return", i)

SaveReturn(h) ==
    /\ At(h, "return")
    /\ Len(shipment) < MaxShipments + MaxReturns
    /\ Stored(h, 0, [NewRow("none") EXCEPT !.provider = task[h].row.provider])
    /\ Done(h)
    /\ UNCHANGED <<history, booked, cached, blamed, races, faults>>

-----------------------------------------------------------------------------
CacheExpires(n) ==
    /\ n \in cached
    /\ cached' = cached \ {n}
    /\ UNCHANGED <<shipment, history, booked, task, blamed, races, faults>>

\* The process dies: the handlers and the caches are gone.
Crash ==
    /\ Fault
    /\ task' = [h \in Handlers |-> NoTask]
    /\ cached' = {}
    /\ blamed' = blamed \union {task[h].row.tracking : h \in {g \in Handlers : At(g, "save")}}
    /\ UNCHANGED <<shipment, history, booked, races>>

Create(h) ==
    \/ \E cod \in Cods : StartCreate(h, cod)
    \/ Book(h)
    \/ ProviderRefuses(h)
    \/ SaveShipment(h)
    \/ SaveFails(h)
    \/ SaveHistory(h)
    \/ HistoryFails(h)
    \/ GiveUp(h)

Track(h) ==
    \/ \E i \in Ids : StartTracking(h, i)
    \/ AskProvider(h)
    \/ SaveRefreshed(h)
    \/ FindEvent(h)
    \/ StoreEvent(h)
    \/ FillCache(h)
    \/ RefreshFails(h)

Cancel(h) ==
    \/ \E i \in Ids : StartCancel(h, i)
    \/ AskToCancel(h)
    \/ SaveCancelled(h)

Return(h) == (\E i \in Ids : StartReturn(h, i)) \/ SaveReturn(h)

Next ==
    \/ \E h \in Handlers : Create(h) \/ Track(h) \/ Cancel(h) \/ Return(h)
    \/ \E n \in DOMAIN booked : CacheExpires(n)
    \/ Crash

Spec == Init /\ [][Next]_vars

-----------------------------------------------------------------------------
\* Rows, bookings and handlers have their shapes, and refer to each other's indexes.
ShippingTypeOK ==
    /\ \A i \in Ids :
        /\ shipment[i].provider \in {Providers[k] : k \in DOMAIN Providers}
        /\ shipment[i].tracking \in 0 .. Len(booked)
        /\ shipment[i].status \in Statuses
        /\ shipment[i].cod \in CodStatuses
        /\ shipment[i].retries = 0
    /\ history \in [1 .. MaxShipments + MaxReturns -> SUBSET Events]
    /\ \A n \in DOMAIN booked : booked[n] \in {Providers[k] : k \in DOMAIN Providers}
    /\ cached \subseteq DOMAIN booked
    /\ blamed \subseteq DOMAIN booked
    /\ \A h \in Handlers :
        /\ task[h].id \in Ids \union {0}
        /\ task[h].pc \in {"ask", "refresh", "event", "store", "cancel", "cancelled", "return"} => task[h].id # 0

Recorded(n) == \E i \in Ids : shipment[i].tracking = n
Carried(n) == \E h \in Handlers : At(h, "save") /\ task[h].row.tracking = n

\* createShippingOrder books first and writes afterwards.  A parcel booked with a provider is
\* the parcel of some row, or of the handler about to save it, unless its own call failed after
\* the booking, or handlers saved one row over each other.
BookedIsRecorded ==
    "row" \notin races => \A n \in DOMAIN booked : Recorded(n) \/ Carried(n) \/ n \in blamed

\* getTracking fills the cache only after the last event is stored, and for the next five
\* minutes answers from the tracking history alone.  Whatever breaks off, overlaps or is retried
\* with another provider, a number in the cache is that of shipments whose whole journey is in
\* the history: no refresh that stopped half way is hidden behind the cache.
CachedIsComplete ==
    \A i \in Ids : shipment[i].tracking \in cached => Events \subseteq history[i]

\* What the service answers to a late cancellation, "Cannot cancel after pickup": a shipment
\* whose history shows that it was picked up does not become cancelled.
NoCancelAfterPickup ==
    [][\A i \in Ids : "picked_up" \in history[i] /\ shipment[i].status # "cancelled"
            => shipment'[i].status # "cancelled"]_vars

=============================================================================
