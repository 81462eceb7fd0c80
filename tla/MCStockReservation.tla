------------------------- MODULE MCStockReservation -------------------------
(***************************************************************************)
(* Small instances of StockReservation.  Orders 1 and 2 lock two products  *)
(* in opposite orders, so their transactions can deadlock; the stock is    *)
(* enough for some of the orders and not for all of them.                  *)
(***************************************************************************)
EXTENDS StockReservation, TLC

CONSTANTS pA, pB

Line(p, q) == [product |-> p, qty |-> q]

TwoProducts == {pA, pB}
CrossedCart == (1 :> <<Line(pA, 1), Line(pB, 1)>>) @@ (2 :> <<Line(pB, 1), Line(pA, 2)>>)
ThreeCarts == CrossedCart @@ (3 :> <<Line(pB, 1), Line(pB, 1)>>)
ScarceStock == (pA :> 2) @@ (pB :> 2)

OneProduct == {pA}
OneLineCarts == (1 :> <<Line(pA, 1)>>) @@ (2 :> <<Line(pA, 2)>>)
OneUnitCarts == (1 :> <<Line(pA, 1)>>) @@ (2 :> <<Line(pA, 1)>>)
OneStock == pA :> 2

SessionSymmetry == Permutations(Sessions)

NoCorrections == {}
Corrections == {[kind |-> "import", delta |-> 1], [kind |-> "export", delta |-> -1],
                [kind |-> "export", delta |-> -2]}
=============================================================================
