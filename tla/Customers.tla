----------------------------- MODULE Customers -----------------------------
(***************************************************************************)
(* The services around one customer, side by side: AuthTokens,             *)
(* CartCheckout, ReviewBook and AddressBook.  They share no table and      *)
(* never call each other (only the id of the signed-in user passes from    *)
(* one to the others), so they take turns: part says which one takes all   *)
(* the steps, and the variables of the others stay as they begin.          *)
(***************************************************************************)
EXTENDS AuthTokens

CONSTANTS
    Products, Available, MaxRows, MaxUnits,
    OrderItems, Ratings, ShopSize, MaxReviews,
    MaxAddresses

ASSUME CartAssumption ==
    /\ IsFiniteSet(Handlers)
    /\ Available \in [Products -> Nat]
    /\ MaxRows \in Nat /\ MaxUnits \in Nat
    /\ None \notin [product : Products, qty : Nat] /\ None \notin [Products -> Nat]
ASSUME ReviewAssumption ==
    /\ Ratings \subseteq Nat
    /\ ShopSize \in Nat /\ MaxReviews \in Nat
    /\ None \notin [item : OrderItems, rating : Ratings]
ASSUME AddressAssumption == MaxAddresses \in Nat /\ None \notin {"plain", "default"}

VARIABLES
    part,
    row, nextRow, wanted, cartTask, cartRaces, cartDeaths,
    review, nextReview, stats, reviewTask, reviewRaces, reviewDeaths,
    address, nextAddress, addressTask, addressRaces, addressDeaths

Cart == INSTANCE CartCheckout
    WITH nextId <- nextRow,
         task <- cartTask, races <- cartRaces, deaths <- cartDeaths
Review == INSTANCE ReviewBook
    WITH Items <- OrderItems, Catalogue <- ShopSize, nextId <- nextReview,
         task <- reviewTask, races <- reviewRaces, deaths <- reviewDeaths
Book == INSTANCE AddressBook
    WITH nextId <- nextAddress, task <- addressTask, races <- addressRaces, deaths <- addressDeaths

cartVars == <<row, nextRow, wanted, cartTask, cartRaces, cartDeaths>>
reviewVars == <<review, nextReview, stats, reviewTask, reviewRaces, reviewDeaths>>
addressVars == <<address, nextAddress, addressTask, addressRaces, addressDeaths>>

CustomersInit ==
    /\ part \in {"auth", "cart", "review", "address"}
    /\ Init
    /\ Cart!Init
    /\ Review!Init
    /\ Book!Init

CustomersNext ==
    \/ part = "auth" /\ Next /\ UNCHANGED <<part, cartVars, reviewVars, addressVars>>
    \/ part = "cart" /\ Cart!Next /\ UNCHANGED <<part, vars, reviewVars, addressVars>>
    \/ part = "review" /\ Review!Next /\ UNCHANGED <<part, vars, cartVars, addressVars>>
    \/ part = "address" /\ Book!Next /\ UNCHANGED <<part, vars, cartVars, reviewVars>>

Customers == CustomersInit /\ [][CustomersNext]_<<part, vars, cartVars, reviewVars, addressVars>>

\* Tokens, carts, reviews, addresses and the handlers of the four services have their shapes.
TypesOK ==
    /\ AuthTypeOK
    /\ part = "cart" => Cart!CartTypeOK
    /\ part = "review" => Review!ReviewTypeOK
    /\ part = "address" => Book!AddressTypeOK

\* The properties of CartCheckout, ReviewBook and AddressBook, where they are stated and explained.
UnitsAccounted == part = "cart" => Cart!UnitsAccounted
StatsCurrent == part = "review" => Review!StatsCurrent
OneDefault == part = "address" => Book!OneDefault
=============================================================================
