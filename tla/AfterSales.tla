----------------------------- MODULE AfterSales -----------------------------
(***************************************************************************)
(* What follows an order, side by side: ReturnFlow, WarrantyTicket and     *)
(* ShippingOrder.  The three services share no table and never call each   *)
(* other, so they take turns: part says which one takes all the steps, and *)
(* the variables of the others stay as they begin.                         *)
(***************************************************************************)
EXTENDS ReturnFlow, Sequences

CONSTANTS
    Items, Technicians, Changes, MaxTickets, MaxUpdates,
    Providers, Cods, MaxShipments, MaxReturns, MaxBookings, MaxFaults

VARIABLES
    part,
    ticket, log, updates, ticketTask, ticketRaces, ticketDeaths,
    shipment, history, booked, cached, shipTask, blamed, shipRaces, faults

Warranty == INSTANCE WarrantyTicket
    WITH task <- ticketTask, races <- ticketRaces, deaths <- ticketDeaths
Shipping == INSTANCE ShippingOrder WITH task <- shipTask, races <- shipRaces

ASSUME HandlersAssumption ==
    /\ IsFiniteSet(Handlers)
    /\ MaxInspections \in Nat /\ MaxRefunds \in Nat /\ MaxDeaths \in Nat
ASSUME TicketAssumption ==
    /\ Changes \subseteq Warranty!Statuses
    /\ MaxTickets \in Nat /\ MaxUpdates \in Nat
    /\ None \notin Warranty!Row
ASSUME ShippingAssumption ==
    /\ Providers \in Seq({Providers[k] : k \in DOMAIN Providers}) /\ Providers # <<>>
    /\ Cods \subseteq {"none", "pending"}
    /\ MaxShipments \in Nat /\ MaxReturns \in Nat /\ MaxBookings \in Nat /\ MaxFaults \in Nat
    /\ None # 0
    /\ None \notin [provider : {Providers[k] : k \in DOMAIN Providers}, tracking : Nat,
                    status : Shipping!Statuses, cod : Shipping!CodStatuses, retries : {0, None}]

warrantyVars == <<ticket, log, updates, ticketTask, ticketRaces, ticketDeaths>>
shippingVars == <<shipment, history, booked, cached, shipTask, blamed, shipRaces, faults>>

AfterSalesInit ==
    /\ part \in {"return", "warranty", "shipping"}
    /\ Init
    /\ Warranty!Init
    /\ Shipping!Init

AfterSalesNext ==
    \/ part = "return" /\ Next /\ UNCHANGED <<part, warrantyVars, shippingVars>>
    \/ part = "warranty" /\ Warranty!Next /\ UNCHANGED <<part, vars, shippingVars>>
    \/ part = "shipping" /\ Shipping!Next /\ UNCHANGED <<part, vars, warrantyVars>>

AfterSales == AfterSalesInit /\ [][AfterSalesNext]_<<part, vars, warrantyVars, shippingVars>>

\* The rows, counts and handlers of the three services have their shapes.
TypesOK ==
    /\ ReturnTypeOK
    /\ part = "warranty" => Warranty!TicketTypeOK
    /\ part = "shipping" => Shipping!ShippingTypeOK

\* The properties of WarrantyTicket and ShippingOrder, where they are stated and explained.
OneOpenTicket == part = "warranty" => Warranty!OneOpenTicket
StatusIsLogged == part = "warranty" => Warranty!StatusIsLogged
BookedIsRecorded == part = "shipping" => Shipping!BookedIsRecorded
CachedIsComplete == part = "shipping" => Shipping!CachedIsComplete
NoCancelAfterPickup == Shipping!NoCancelAfterPickup
=============================================================================
