---------------------------- MODULE AddressBook ----------------------------
(***************************************************************************)
(* AddressService: one customer's addresses, one of which may be the       *)
(* default.  A request that makes an address the default first resets all  *)
(* of them, and writes its own row an await later, without a transaction.  *)
(*                                                                         *)
(* races is TRUE once two requests that make an address the default have   *)
(* overlapped.                                                             *)
(***************************************************************************)
EXTENDS Integers, FiniteSets

CONSTANTS
    None,
    Handlers,       \* requests that may be under way
    MaxAddresses,   \* bound on the ids of addresses
    MaxDeaths       \* bound on the handlers that die half-way

VARIABLES
    address,   \* address[i]: "plain" or "default", or None
    nextId,
    task,      \* task[h]: what handler h is doing
    races,
    deaths

vars == <<address, nextId, task, races, deaths>>

Ids == {i \in 1 .. MaxAddresses : address[i] # None}
Defaults == {i \in Ids : address[i] = "default"}
\* id: the address to update, 0 for a new one; to: what it becomes, or None if it stays.
NoTask == [pc |-> "idle", id |-> 0, to |-> None]

Init ==
    /\ address = [i \in 1 .. MaxAddresses |-> None]
    /\ nextId = 1
    /\ task = [h \in Handlers |-> NoTask]
    /\ races = FALSE
    /\ deaths = 0

At(h, pc) == task[h].pc = pc
Done(h) == task' = [task EXCEPT ![h] = NoTask]
DefaultRace(h) == \E g \in Handlers \ {h} : task[g].to = "default"

\* create (id 0) and update, up to their first write.
Start(h, id, to) ==
    /\ At(h, "idle")
    /\ task' = [task EXCEPT ![h] = [pc |-> IF to = "default" THEN "reset" ELSE "write", id |-> id, to |-> to]]
    /\ races' = (races \/ (to = "default" /\ DefaultRace(h)))
    /\ UNCHANGED <<address, nextId, deaths>>

\* Mutant of ResetDefault: nothing is reset.
ResetNothing(h) ==
    /\ At(h, "reset")
    /\ task' = [task EXCEPT ![h].pc = "write"]
    /\ UNCHANGED <<address, nextId, races, deaths>>

ResetDefault(h) ==
    /\ At(h, "reset")
    /\ address' = [i \in 1 .. MaxAddresses |-> IF i \in Ids THEN "plain" ELSE None]
    /\ task' = [task EXCEPT ![h].pc = "write"]
    /\ UNCHANGED <<nextId, races, deaths>>

CreateAddress(h) ==
    /\ At(h, "write")
    /\ task[h].id = 0
    /\ nextId <= MaxAddresses
    /\ address' = [address EXCEPT ![nextId] = task[h].to]
    /\ nextId' = nextId + 1
    /\ Done(h)
    /\ UNCHANGED <<races, deaths>>

\* UPDATE ... WHERE id: of a deleted row it changes nothing.
UpdateAddress(h) ==
    LET t == task[h] IN
    /\ At(h, "write")
    /\ t.id # 0
    /\ address' = [address EXCEPT ![t.id] = IF @ = None \/ t.to = None THEN @ ELSE t.to]
    /\ Done(h)
    /\ UNCHANGED <<nextId, races, deaths>>

StartDelete(h, i) ==
    /\ At(h, "idle")
    /\ task' = [task EXCEPT ![h] = [NoTask EXCEPT !.pc = "delete", !.id = i]]
    /\ UNCHANGED <<address, nextId, races, deaths>>

DeleteAddress(h) ==
    /\ At(h, "delete")
    /\ address' = [address EXCEPT ![task[h].id] = None]
    /\ Done(h)
    /\ UNCHANGED <<nextId, races, deaths>>

\* The process, or its connection to MySQL, goes away.
Die(h) ==
    /\ ~At(h, "idle")
    /\ deaths < MaxDeaths
    /\ deaths' = deaths + 1
    /\ Done(h)
    /\ UNCHANGED <<address, nextId, races>>

Next == \E h \in Handlers :
    \/ \E to \in {"plain", "default"} : Start(h, 0, to)
    \/ \E i \in Ids, to \in {"plain", "default", None} : Start(h, i, to)
    \/ \E i \in Ids : StartDelete(h, i)
    \/ ResetDefault(h)
    \/ CreateAddress(h)
    \/ UpdateAddress(h)
    \/ DeleteAddress(h)
    \/ Die(h)

Spec == Init /\ [][Next]_vars

-----------------------------------------------------------------------------
\* Rows and handlers have their shapes, and only ids that were given out have rows.
AddressTypeOK ==
    /\ address \in [1 .. MaxAddresses -> {"plain", "default", None}]
    /\ \A i \in Ids : i < nextId
    /\ task \in [Handlers -> [pc : {"idle", "reset", "write", "delete"}, id : 0 .. MaxAddresses,
                              to : {"plain", "default", None}]]
    /\ races \in BOOLEAN
    /\ deaths \in 0 .. MaxDeaths

\* The default is reset in one statement and set in another.  A customer has at most one
\* default address, whatever other requests do in between and wherever one dies, unless two
\* requests made an address the default at the same time.
OneDefault == ~races => Cardinality(Defaults) <= 1
=============================================================================
