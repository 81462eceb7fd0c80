---------------------------- MODULE MCAfterSales ----------------------------
(***************************************************************************)
(* Small instances of AfterSales, and what RefundRules computes.           *)
(***************************************************************************)
EXTENDS AfterSales, RefundRules, TLC

Owners == [r \in Requests |-> "u1"]
TwoProviders == <<"ghn", "ghtk">>
Alike == Permutations(Handlers)

\* Nothing but the bonus for store credit makes a refund larger than what was paid, and it never
\* does by more than the bonus; a deduction or the customer's own reason never makes it larger.
ASSUME RefundIsBounded ==
    \A lines \in BoundedSeq({0, 7, 50}, 2), reason \in {"defective", "other"},
       method \in {"store_credit", "original_payment"}, deduction \in {0, 3, 200},
       type \in {"full_refund", "partial_refund", "no_refund"} :
        LET paid == FoldSeq(LAMBDA line, sum : line + sum, 0, lines)
            Refund(d, r, m) == CalculateRefund(DefaultPolicy, lines, r, m, [type |-> type, deduction |-> d])
            refund == Refund(deduction, reason, method) IN
        /\ refund \in 0 .. Refund(0, "defective", method)
        /\ method = "original_payment" => refund <= paid
        /\ refund <= paid + PercentUp(paid, DefaultPolicy.bonus)
        /\ type = "no_refund" => refund = 0
=============================================================================
