---------------------------- MODULE RefundRules ----------------------------
(***************************************************************************)
(* What ReturnService decides without changing anything: whether an order  *)
(* may be returned, and how much is paid back.  Amounts are whole.         *)
(***************************************************************************)
EXTENDS Integers, Sequences, SequencesExt, FiniteSets

\* The policy, which configurePolicy may change.
DefaultPolicy == [window |-> 7, restocking |-> 10, bonus |-> 5, excluded |-> {}]

\* checkEligibility.  days: since the delivery, or -1 if it is not known; earlier: the
\* statuses of the order's earlier return requests.
Eligible(policy, status, days, category, earlier) ==
    /\ status \in {"delivered", "completed"}
    /\ category \notin policy.excluded
    /\ days <= policy.window
    /\ "cancelled" \notin earlier

-----------------------------------------------------------------------------
\* Math.ceil of a percentage.
PercentUp(amount, percent) == -((-(amount * percent)) \div 100)

CustomerInitiated(reason) == reason \in {"no_longer_needed", "better_price", "other"}

\* calculateRefund.  lines: the items' totals; report: the inspection's refund type and deduction.
CalculateRefund(policy, lines, reason, method, report) ==
    LET total == FoldSeq(LAMBDA line, sum : line + sum, 0, lines)
        deduction == IF report.type = "partial_refund" THEN report.deduction ELSE 0
        fee == IF CustomerInitiated(reason) THEN PercentUp(total, policy.restocking) ELSE 0
        rest == total - deduction - fee
        bonus == IF method = "store_credit" THEN PercentUp(rest, policy.bonus) ELSE 0
    IN  IF report.type = "no_refund" \/ rest + bonus < 0 THEN 0 ELSE rest + bonus
=============================================================================
