--------------------------- MODULE MCOrderPayment ---------------------------
(***************************************************************************)
(* Small instances of OrderPayment: one order of one unit, paid by COD or  *)
(* by one transfer that may be delivered twice.                            *)
(***************************************************************************)
EXTENDS OrderPayment, TLC

CONSTANTS o1, c1, n1

OneUnitEach == [o \in Orders |-> [p \in Products |-> 1]]
OneUnit == [p \in Products |-> 1]

OneOrder == o1 :> c1

TransferForFirst == n1 :> o1

WorkerSymmetry == Permutations(Workers)
=============================================================================
