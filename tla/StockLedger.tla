---------------------------- MODULE StockLedger ----------------------------
(***************************************************************************)
(* What the inventory promises the rest of the shop, without transactions, *)
(* locks or rows per cart line: an order's demand is held as a whole or    *)
(* not at all, and what is held is settled exactly once, either sold (it   *)
(* leaves the shop) or put back on sale.                                   *)
(*                                                                         *)
(* StockReservation implements this module until an update is lost or two  *)
(* settlements work on one line (see RefinesLedger there); OrderPayment is *)
(* built on it.                                                            *)
(***************************************************************************)
EXTENDS Integers, Functions

CONSTANTS
    Products,
    Orders,
    Demand,     \* Demand[o][p]: units of p that order o asks for
    Deltas,     \* by how much staff may correct a quantity
    InitStock   \* InitStock[p]: units of p on sale at the beginning

VARIABLES
    available,  \* available[p]: units that can still be promised
    reserved,   \* reserved[p]: units promised to orders that are not settled
    status      \* status[o]: what became of the reservation of order o

vars == <<available, reserved, status>>

Outcomes == {"confirmed", "released", "expired"}

Init ==
    /\ available = InitStock
    /\ reserved = [p \in Products |-> 0]
    /\ status = [o \in Orders |-> "none"]

\* StockReservationService.reserve, all of it in one step.
Hold(o) ==
    /\ status[o] = "none"
    /\ \A p \in Products : Demand[o][p] > 0 => Demand[o][p] <= available[p]
    /\ available' = [p \in Products |-> available[p] - Demand[o][p]]
    /\ reserved' = [p \in Products |-> reserved[p] + Demand[o][p]]
    /\ status' = [status EXCEPT ![o] = "pending"]

DemandOf(S, p) == SumFunctionOnSet([o \in Orders |-> Demand[o][p]], S)

\* confirm and release settle one order, releaseExpired a set of orders.
Settle(S, outcome) ==
    /\ \A o \in S : status[o] = "pending"
    /\ reserved' = [p \in Products |-> reserved[p] - DemandOf(S, p)]
    /\ available' = IF outcome = "confirmed"
                    THEN available
                    ELSE [p \in Products |-> available[p] + DemandOf(S, p)]
    /\ status' = [o \in Orders |-> IF o \in S THEN outcome ELSE status[o]]

\* importStock, exportStock and adjustStock; who asked for it has checked that
\* what is left is not negative.
Correct(p, delta) ==
    /\ available' = [available EXCEPT ![p] = @ + delta]
    /\ UNCHANGED <<reserved, status>>

Next ==
    \/ \E o \in Orders : Hold(o)
    \/ \E p \in Products, delta \in Deltas : Correct(p, delta)
    \/ \E S \in SUBSET Orders, outcome \in Outcomes : Settle(S, outcome)

Spec == Init /\ [][Next]_vars
=============================================================================
