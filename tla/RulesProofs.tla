---------------------------- MODULE RulesProofs ----------------------------
(***************************************************************************)
(* Theorems about what the services compute without changing anything, for *)
(* every input: the suggestions of PcBuild, the refunds of RefundRules,    *)
(* the figures of ShopReports, the coupons that CouponRules suggests and   *)
(* the pages of ProductListing.                                            *)
(***************************************************************************)
EXTENDS PcBuild, Sequences, SumTheorems

Refunds == INSTANCE RefundRules
Reports == INSTANCE ShopReports
Coupons == INSTANCE CouponRules
Listing == INSTANCE ProductListing

-----------------------------------------------------------------------------
(***************************************************************************)
(* Suggestions.                                                            *)
(***************************************************************************)
LEMMA IssuesFinite ==
    ASSUME NEW rules, IsFiniteSet(rules), NEW products, IsFiniteSet(products)
    PROVE  IsFiniteSet(Issues(rules, products))
  <1> DEFINE T == rules \X (products \X products)
             F == [i \in Issues(rules, products) |-> <<i.rule, <<i.source, i.target>>>>]
  <1>1. IsFiniteSet(T)
    BY FS_Product
  <1>2. F \in Injection(Issues(rules, products), T)
    <2>1. F \in [Issues(rules, products) -> T]
      BY DEF Issues
    <2>2. ASSUME NEW i \in Issues(rules, products), NEW j \in Issues(rules, products), F[i] = F[j]
          PROVE  i = j
      <3>1. i.rule = j.rule /\ i.source = j.source /\ i.target = j.target
        BY <2>2
      <3> QED
        BY <3>1 DEF Issues
    <2> QED
      BY <2>1, <2>2 DEF Injection, IsInjective
  <1> QED
    BY <1>1, <1>2, FS_Injection

\* Whatever the rules, the products and the selection, a suggestion without errors can be added
\* to a selection that passes checkCompatibility, and a component with two errors against it is
\* neither suggested nor accepted (pc-build.service.ts:189, suggestComponents).
THEOREM SuggestionsAlwaysFit ==
    ASSUME NEW rules, IsFiniteSet(rules), IsFiniteSet(Catalogue)
    PROVE  SuggestionsFit(rules)
  <1> SUFFICES ASSUME NEW selected \in SUBSET Catalogue, NEW c \in Catalogue \ selected,
                      Compatible(rules, selected)
               PROVE  LET errors == Errors(IssuesOf(rules, c, selected)) IN
                      /\ errors = {} => Compatible(rules, selected \union {c})
                      /\ Cardinality(errors) >= 2 =>
                            /\ c \notin Suggested(rules, selected)
                            /\ ~Compatible(rules, selected \union {c})
    BY DEF SuggestionsFit
  <1> DEFINE all == Issues(rules, selected \union {c})
             issues == IssuesOf(rules, c, selected)
             errors == Errors(issues)
  <1>1. issues \subseteq all /\ errors \subseteq issues /\ errors \subseteq Errors(all)
    BY DEF IssuesOf, Errors
  <1>2. ASSUME NEW i \in Errors(all), i \notin errors
        PROVE  i \in Errors(Issues(rules, selected))
    <2>1. c.id # i.source.id /\ c.id # i.target.id
      BY <1>2 DEF IssuesOf, Errors
    <2>2. i \in [rule : rules, source : selected, target : selected]
      BY <1>2, <2>1 DEF Issues, Errors
    <2> QED
      BY <1>2, <2>2 DEF Issues, Errors
  <1>3. errors = {} => Compatible(rules, selected \union {c})
    BY <1>2 DEF Compatible
  <1>4. IsFiniteSet(issues)
    <2>1. IsFiniteSet(selected \union {c})
      BY FS_Subset
    <2>2. IsFiniteSet(all)
      BY <2>1, IssuesFinite
    <2> QED
      BY <1>1, <2>2, FS_Subset
  <1>5. /\ Cardinality(issues) \in Nat /\ Cardinality(errors) \in Nat
        /\ Cardinality(errors) <= Cardinality(issues)
    BY <1>1, <1>4, FS_Subset, FS_CardinalityType
  <1>6. ASSUME Cardinality(errors) >= 2
        PROVE  c \notin Suggested(rules, selected) /\ ~Compatible(rules, selected \union {c})
    <2>1. PICK e \in Nat, n \in Nat : e = Cardinality(errors) /\ n = Cardinality(issues)
      BY <1>5
    <2>2. Score(issues) = IF 100 - 50 * e - 10 * (n - e) > 0 THEN 100 - 50 * e - 10 * (n - e) ELSE 0
      BY <2>1 DEF Score
    <2>3. 100 - 50 * e - 10 * (n - e) <= 0
      BY <1>5, <1>6, <2>1
    <2>4. Score(issues) = 0
      BY <2>2, <2>3
    <2>5. errors # {}
      BY <1>6, FS_EmptySet
    <2> QED
      BY <1>1, <2>4, <2>5 DEF Suggested, Compatible
  <1> QED
    BY <1>3, <1>6

-----------------------------------------------------------------------------
(***************************************************************************)
(* Refunds.                                                                *)
(***************************************************************************)

\* Rounding up a percentage keeps the order of two amounts.
LEMMA PercentUpFacts ==
    ASSUME NEW percent \in Nat
    PROVE  /\ \A a \in Int : Refunds!PercentUp(a, percent) \in Int
           /\ \A a \in Nat : Refunds!PercentUp(a, percent) \in Nat
           /\ \A a, b \in Int : a <= b => Refunds!PercentUp(a, percent) <= Refunds!PercentUp(b, percent)
  <1>1. ASSUME NEW a \in Int
        PROVE  Refunds!PercentUp(a, percent) \in Int
    <2>1. PICK n \in Int : n = -(a * percent)
      OBVIOUS
    <2>2. n \div 100 \in Int
      OBVIOUS
    <2>3. -(n \div 100) \in Int
      BY <2>2
    <2> QED
      BY <2>1, <2>3 DEF Refunds!PercentUp
  <1>2. ASSUME NEW a \in Int, NEW b \in Int, a <= b
        PROVE  Refunds!PercentUp(a, percent) <= Refunds!PercentUp(b, percent)
    <2>1. PICK d \in Nat : b = a + d
      <3>1. b - a \in Nat /\ b = a + (b - a)
        BY <1>2
      <3> QED
        BY <3>1
    <2>2. PICK x \in Int, y \in Nat : x = a * percent /\ y = d * percent
      OBVIOUS
    <2>3. b * percent = x + y
      BY <2>1, <2>2
    <2>4. -(x + y) <= -x /\ -(x + y) \in Int /\ -x \in Int
      OBVIOUS
    <2>5. \A m, n \in Int : m <= n => m \div 100 <= n \div 100
      OBVIOUS
    <2>6. (-(x + y)) \div 100 <= (-x) \div 100
      BY <2>4, <2>5
    <2>7. (-(x + y)) \div 100 \in Int /\ (-x) \div 100 \in Int
      BY <2>4
    <2>8. -((-x) \div 100) <= -((-(x + y)) \div 100)
      BY <2>6, <2>7
    <2> QED
      BY <2>2, <2>3, <2>8 DEF Refunds!PercentUp
  <1>3. Refunds!PercentUp(0, percent) = 0
    BY DEF Refunds!PercentUp
  <1>4. ASSUME NEW a \in Nat
        PROVE  Refunds!PercentUp(a, percent) \in Nat
    BY <1>1, <1>2, <1>3
  <1> QED
    BY <1>1, <1>2, <1>4

\* The total of the lines is the sum of a function.
Calculated(policy, total, reason, method, report) ==
    LET deduction == IF report.type = "partial_refund" THEN report.deduction ELSE 0
        fee == IF Refunds!CustomerInitiated(reason) THEN Refunds!PercentUp(total, policy.restocking) ELSE 0
        rest == total - deduction - fee
        bonus == IF method = "store_credit" THEN Refunds!PercentUp(rest, policy.bonus) ELSE 0
    IN  IF report.type = "no_refund" \/ rest + bonus < 0 THEN 0 ELSE rest + bonus

LEMMA TotalIsSum ==
    ASSUME NEW policy, NEW lines, NEW reason, NEW method, NEW report
    PROVE  Refunds!CalculateRefund(policy, lines, reason, method, report)
              = Calculated(policy, SumFunctionOnSet(lines, DOMAIN lines), reason, method, report)
  BY DEF Refunds!CalculateRefund, Calculated, Refunds!FoldSeq, Refunds!FoldFunction, Refunds!FoldFunctionOnSet, Refunds!MapThenFoldSet,
         SumFunctionOnSet, FoldFunctionOnSet, MapThenFoldSet

\* What is paid back is what is left of the total, with the bonus for store credit.
Repaid(policy, rest, method, type) ==
    LET bonus == IF method = "store_credit" THEN Refunds!PercentUp(rest, policy.bonus) ELSE 0 IN
    IF type = "no_refund" \/ rest + bonus < 0 THEN 0 ELSE rest + bonus

LEMMA RefundIsRepaid ==
    ASSUME NEW policy, policy.restocking \in Nat, NEW lines, NEW total \in Nat,
           total = SumFunctionOnSet(lines, DOMAIN lines),
           NEW reason, NEW method, NEW type, NEW deduction \in Nat
    PROVE  \E rest \in Int :
              /\ rest <= total
              /\ deduction = 0 /\ reason = "defective" => rest = total
              /\ Refunds!CalculateRefund(policy, lines, reason, method, [type |-> type, deduction |-> deduction])
                    = Repaid(policy, rest, method, type)
  <1>1. PICK fee \in Nat : fee = IF Refunds!CustomerInitiated(reason)
                                 THEN Refunds!PercentUp(total, policy.restocking) ELSE 0
    BY PercentUpFacts
  <1>2. PICK less \in Nat : less = IF type = "partial_refund" THEN deduction ELSE 0
    OBVIOUS
  <1>3. PICK rest \in Int : rest = total - less - fee
    OBVIOUS
  <1>4. reason = "defective" => fee = 0
    BY <1>1 DEF Refunds!CustomerInitiated
  <1>5. Refunds!CalculateRefund(policy, lines, reason, method, [type |-> type, deduction |-> deduction])
            = Repaid(policy, rest, method, type)
    <2>1. PICK report : report = [type |-> type, deduction |-> deduction]
      OBVIOUS
    <2>2. report.type = type /\ report.deduction = deduction
      BY <2>1
    <2>3. Calculated(policy, total, reason, method, report) = Repaid(policy, rest, method, type)
      BY <1>1, <1>2, <1>3, <2>2 DEF Calculated, Repaid
    <2> QED
      BY <2>1, <2>3, TotalIsSum
  <1> QED
    BY <1>2, <1>3, <1>4, <1>5

LEMMA RepaidFacts ==
    ASSUME NEW policy, policy.bonus \in Nat, NEW total \in Nat, NEW rest \in Int, rest <= total,
           NEW method, NEW type
    PROVE  /\ Repaid(policy, rest, method, type) \in Nat
           /\ Repaid(policy, rest, method, type) <= Repaid(policy, total, method, type)
           /\ Repaid(policy, rest, method, type) <= total + Refunds!PercentUp(total, policy.bonus)
           /\ method # "store_credit" => Repaid(policy, rest, method, type) <= total
           /\ type = "no_refund" => Repaid(policy, rest, method, type) = 0
  <1>1. PICK b \in Int, c \in Nat :
            /\ b = Refunds!PercentUp(rest, policy.bonus)
            /\ c = Refunds!PercentUp(total, policy.bonus)
            /\ b <= c
    <2>1. PICK percent \in Nat : percent = policy.bonus
      OBVIOUS
    <2>2. /\ Refunds!PercentUp(rest, percent) \in Int
          /\ Refunds!PercentUp(total, percent) \in Nat
          /\ Refunds!PercentUp(rest, percent) <= Refunds!PercentUp(total, percent)
      <3>1. /\ \A a \in Int : Refunds!PercentUp(a, percent) \in Int
            /\ \A a \in Nat : Refunds!PercentUp(a, percent) \in Nat
            /\ \A a, b \in Int : a <= b => Refunds!PercentUp(a, percent) <= Refunds!PercentUp(b, percent)
        BY PercentUpFacts
      <3>2. total \in Int
        OBVIOUS
      <3> QED
        BY <3>1, <3>2
    <2> QED
      BY <2>1, <2>2
  <1>2. CASE method = "store_credit"
    <2>1. /\ Repaid(policy, rest, method, type) = IF type = "no_refund" \/ rest + b < 0 THEN 0 ELSE rest + b
          /\ Repaid(policy, total, method, type) = IF type = "no_refund" \/ total + c < 0 THEN 0 ELSE total + c
      BY <1>1, <1>2 DEF Repaid
    <2> QED
      BY <1>1, <1>2, <2>1
  <1>3. CASE method # "store_credit"
    <2>1. /\ Repaid(policy, rest, method, type) = IF type = "no_refund" \/ rest + 0 < 0 THEN 0 ELSE rest + 0
          /\ Repaid(policy, total, method, type) = IF type = "no_refund" \/ total + 0 < 0 THEN 0 ELSE total + 0
      BY <1>3 DEF Repaid
    <2> QED
      BY <1>1, <2>1
  <1> QED
    BY <1>2, <1>3

\* For any order, any policy an administrator may configure and any inspection report, a refund
\* is not negative; it is never more than what was paid plus the bonus for store credit, nor,
\* without store credit, than what was paid; a deduction or the customer's own reason never
\* makes it larger; and a report that refuses it makes it zero (return.service.ts:279,
\* calculateRefund).
THEOREM RefundsAreBounded ==
    ASSUME NEW policy, policy.restocking \in Nat, policy.bonus \in Nat,
           NEW lines \in Seq(Nat), NEW reason, NEW method, NEW type, NEW deduction \in Nat
    PROVE  LET paid == SumFunctionOnSet(lines, DOMAIN lines)
               Refund(d, r) == Refunds!CalculateRefund(policy, lines, r, method, [type |-> type, deduction |-> d])
           IN
           /\ Refund(deduction, reason) \in 0 .. Refund(0, "defective")
           /\ Refund(deduction, reason) <= paid + Refunds!PercentUp(paid, policy.bonus)
           /\ method # "store_credit" => Refund(deduction, reason) <= paid
           /\ type = "no_refund" => Refund(deduction, reason) = 0
  <1>1. IsFiniteSet(DOMAIN lines) /\ \A i \in DOMAIN lines : lines[i] \in Nat
    <2>1. DOMAIN lines = 1 .. Len(lines) /\ Len(lines) \in Nat
      OBVIOUS
    <2>2. IsFiniteSet(1 .. Len(lines))
      BY <2>1, FS_Interval
    <2>3. \A i \in 1 .. Len(lines) : lines[i] \in Nat
      OBVIOUS
    <2> QED
      BY <2>1, <2>2, <2>3
  <1>2. PICK paid \in Nat : paid = SumFunctionOnSet(lines, DOMAIN lines)
    BY <1>1, SumNat
  <1>3. PICK rest \in Int :
            /\ rest <= paid
            /\ Refunds!CalculateRefund(policy, lines, reason, method, [type |-> type, deduction |-> deduction])
                  = Repaid(policy, rest, method, type)
    BY <1>2, RefundIsRepaid
  <1>4. Refunds!CalculateRefund(policy, lines, "defective", method, [type |-> type, deduction |-> 0])
            = Repaid(policy, paid, method, type)
    BY <1>2, RefundIsRepaid
  <1>5. /\ Repaid(policy, rest, method, type) \in Nat
        /\ Repaid(policy, paid, method, type) \in Nat
        /\ Repaid(policy, rest, method, type) <= Repaid(policy, paid, method, type)
        /\ Repaid(policy, rest, method, type) <= paid + Refunds!PercentUp(paid, policy.bonus)
        /\ method # "store_credit" => Repaid(policy, rest, method, type) <= paid
        /\ type = "no_refund" => Repaid(policy, rest, method, type) = 0
    BY <1>3, RepaidFacts
  <1> QED
    BY <1>2, <1>3, <1>4, <1>5

-----------------------------------------------------------------------------
(***************************************************************************)
(* Reports.                                                                *)
(***************************************************************************)
LEMMA ReportCounts == \A S : Reports!Cardinality(S) = Cardinality(S)
  BY DEF Reports!Cardinality, Cardinality

LEMMA ReportSum == \A f : Reports!Sum(f) = SumFunctionOnSet(f, DOMAIN f)
  BY DEF Reports!Sum, Reports!MapThenSumSet, Reports!MapThenFoldSet,
         SumFunctionOnSet, FoldFunctionOnSet, MapThenFoldSet

\* A total over the rows is a sum of a function of the rows.
LEMMA TotalSum ==
    ASSUME NEW rows, NEW column, NEW f, \A r \in rows : f[r] = r[column]
    PROVE  Reports!Total(rows, column) = SumFunctionOnSet(f, rows)
  <1> DEFINE Body(g, s) == IF s = {} THEN 0 ELSE (CHOOSE x \in s : TRUE)[column] + g[s \ {CHOOSE x \in s : TRUE}]
             Other(g, s) == IF s = {} THEN 0 ELSE f[CHOOSE x \in s : TRUE] + g[s \ {CHOOSE x \in s : TRUE}]
  <1>1. \A s \in SUBSET rows : s # {} => (CHOOSE x \in s : TRUE) \in rows
    OBVIOUS
  <1>2. \A s \in SUBSET rows : s # {} => (CHOOSE x \in s : TRUE)[column] = f[CHOOSE x \in s : TRUE]
    BY <1>1
  <1>3. \A g : g = [s \in SUBSET rows |-> Body(g, s)] <=> g = [s \in SUBSET rows |-> Other(g, s)]
    BY <1>2
  <1>4. (CHOOSE g : g = [s \in SUBSET rows |-> Body(g, s)]) = (CHOOSE g : g = [s \in SUBSET rows |-> Other(g, s)])
    BY <1>3, Zenon
  <1> QED
    BY <1>4 DEF Reports!Total, Reports!MapThenSumSet, Reports!MapThenFoldSet,
                SumFunctionOnSet, FoldFunctionOnSet, MapThenFoldSet

\* The number of rows is the sum of one for each.
LEMMA SumOnes ==
    ASSUME NEW rows, IsFiniteSet(rows), NEW f, \A r \in rows : f[r] = 1
    PROVE  SumFunctionOnSet(f, rows) = Cardinality(rows)
  <1> DEFINE B == {T \in SUBSET rows : SumFunctionOnSet(f, T) # Cardinality(T)}
  <1>1. SUFFICES ASSUME B # {} PROVE FALSE
    OBVIOUS
  <1>2. PICK T \in B : \A U \in B : U \subseteq T => U = T
    <2>1. B \subseteq SUBSET rows
      OBVIOUS
    <2> HIDE DEF B
    <2> QED
      BY <1>1, <2>1, SmallestSet
  <1>3. IsFiniteSet(T)
    BY <1>2, FS_Subset
  <1>4. PICK x : x \in T
    BY <1>2, SumEmpty, FS_EmptySet
  <1>5. SumFunctionOnSet(f, T) = f[x] + SumFunctionOnSet(f, T \ {x})
    BY <1>2, <1>3, <1>4, SumTake
  <1>6. Cardinality(T \ {x}) = Cardinality(T) - 1 /\ Cardinality(T) \in Nat
    BY <1>3, <1>4, FS_RemoveElement, FS_CardinalityType
  <1>7. SumFunctionOnSet(f, T \ {x}) = Cardinality(T \ {x})
    BY <1>2, <1>4
  <1>8. f[x] = 1
    BY <1>2, <1>4
  <1> QED
    BY <1>2, <1>5, <1>6, <1>7, <1>8

\* Rows with keys add up: a sum over the rows is the sum, over the keys, of their rows' sums.
Having(rows, key, k) == {r \in rows : key[r] = k}

LEMMA SumOverKeys ==
    ASSUME NEW rows, IsFiniteSet(rows), NEW keys, NEW key \in Surjection(rows, keys),
           NEW w, \A r \in rows : w[r] \in Int,
           NEW G, \A k \in keys : G[k] = SumFunctionOnSet(w, Having(rows, key, k))
    PROVE  SumFunctionOnSet(G, keys) = SumFunctionOnSet(w, rows)
  <1> DEFINE Own(k) == Having(rows, key, k)
             In(K) == {r \in rows : key[r] \in K}
             B == {K \in SUBSET keys : SumFunctionOnSet(G, K) # SumFunctionOnSet(w, In(K))}
  <1>1. /\ IsFiniteSet(keys)
        /\ \A k : IsFiniteSet(Own(k)) /\ Own(k) \subseteq rows
    <2>1. IsFiniteSet(keys)
      BY FS_Surjection
    <2>2. \A k : Own(k) \subseteq rows
      BY DEF Having
    <2> HIDE DEF Own
    <2> QED
      BY <2>1, <2>2, FS_Subset
  <1>2. \A k \in keys : G[k] \in Int
    <2> SUFFICES ASSUME NEW k \in keys PROVE G[k] \in Int
      OBVIOUS
    <2>1. G[k] = SumFunctionOnSet(w, Own(k))
      OBVIOUS
    <2> HIDE DEF Own
    <2>2. IsFiniteSet(Own(k)) /\ \A r \in Own(k) : w[r] \in Int
      BY <1>1
    <2> QED
      BY <2>1, <2>2, SumInt
  <1>3. B = {}
    <2>1. SUFFICES ASSUME B # {} PROVE FALSE
      OBVIOUS
    <2>2. PICK K \in B : \A L \in B : L \subseteq K => L = K
      <3>1. B \subseteq SUBSET keys
        OBVIOUS
      <3> HIDE DEF B
      <3> QED
        BY <1>1, <2>1, <3>1, SmallestSet
    <2>3. IsFiniteSet(K) /\ K \subseteq keys
      BY <1>1, <2>2, FS_Subset
    <2>4. PICK k : k \in K
      <3>1. In({}) = {}
        OBVIOUS
      <3>2. {} \notin B
        BY <3>1, SumEmpty
      <3> QED
        BY <2>2, <3>2
    <2>5. PICK L : L = K \ {k}
      OBVIOUS
    <2>6. IsFiniteSet(L) /\ k \notin L /\ L \union {k} = K /\ L \subseteq keys /\ L \subseteq K
      BY <2>3, <2>4, <2>5, FS_Subset
    <2>7. SumFunctionOnSet(G, K) = SumFunctionOnSet(G, L) + G[k]
      <3>1. \A y \in L \union {k} : G[y] \in Int
        BY <1>2, <2>3, <2>6
      <3>2. SumFunctionOnSet(G, L \union {k}) = SumFunctionOnSet(G, L) + G[k]
        BY <2>6, <3>1, SumAdd
      <3> QED
        BY <2>6, <3>2
    <2>8. SumFunctionOnSet(G, L) = SumFunctionOnSet(w, In(L))
      BY <2>2, <2>6
    <2>9. SumFunctionOnSet(w, In(K)) = SumFunctionOnSet(w, In(L)) + SumFunctionOnSet(w, Own(k))
      <3>1. In(K) = In(L) \union Own(k) /\ In(L) \cap Own(k) = {} /\ In(L) \subseteq rows
        BY <2>6 DEF Having
      <3> HIDE DEF In, Own
      <3>2. IsFiniteSet(In(L)) /\ IsFiniteSet(Own(k)) /\ Own(k) \subseteq rows
        BY <1>1, <3>1, FS_Subset
      <3>3. \A x \in In(L) \union Own(k) : w[x] \in Int
        BY <3>1, <3>2
      <3>4. SumFunctionOnSet(w, In(L) \union Own(k)) = SumFunctionOnSet(w, In(L)) + SumFunctionOnSet(w, Own(k))
        BY <3>1, <3>2, <3>3, SumDisjoint
      <3> QED
        BY <3>1, <3>4
    <2>10. G[k] = SumFunctionOnSet(w, Own(k))
      BY <2>3, <2>4
    <2> QED
      BY <2>2, <2>7, <2>8, <2>9, <2>10
  <1>4. In(keys) = rows
    BY DEF Surjection
  <1>5. SumFunctionOnSet(G, keys) = SumFunctionOnSet(w, In(keys))
    BY <1>3
  <1> HIDE DEF In
  <1> QED
    BY <1>4, <1>5

\* A sum does not change when the members are renamed or numbered.
LEMMA SumRenamed ==
    ASSUME NEW S, IsFiniteSet(S), NEW T, NEW b \in Bijection(S, T),
           NEW f, \A x \in S : f[x] \in Int, NEW g, \A x \in S : g[b[x]] = f[x]
    PROVE  SumFunctionOnSet(g, T) = SumFunctionOnSet(f, S)
  <1>1. b \in Surjection(S, T) /\ b \in Injection(S, T)
    BY DEF Bijection
  <1>2. \A k \in T : g[k] = SumFunctionOnSet(f, Having(S, b, k))
    <2> TAKE k \in T
    <2>1. PICK x \in S : b[x] = k
      BY <1>1 DEF Surjection
    <2>2. Having(S, b, k) = {x}
      BY <1>1, <2>1 DEF Injection, IsInjective, Having
    <2>3. SumFunctionOnSet(f, {x}) = f[x]
      BY SumOne
    <2> QED
      BY <2>1, <2>2, <2>3
  <1>3. b \in Surjection(S, T)
    BY <1>1
  <1> QED
    BY ONLY IsFiniteSet(S), <1>3, \A x \in S : f[x] \in Int, <1>2, SumOverKeys

\* So do the groups of a column.
Group(rows, column, k) == {r \in rows : r[column] = k}
Groups(rows, column) == {r[column] : r \in rows}

LEMMA GroupsFinite ==
    ASSUME NEW rows, IsFiniteSet(rows), NEW column
    PROVE  /\ IsFiniteSet(Groups(rows, column))
           /\ \A k : IsFiniteSet(Group(rows, column, k))
           /\ \A k \in Groups(rows, column) : Group(rows, column, k) # {}
  <1> DEFINE f == [r \in rows |-> r[column]]
  <1>1. f \in Surjection(rows, Groups(rows, column))
    BY DEF Surjection, Groups
  <1>2. IsFiniteSet(Groups(rows, column))
    BY <1>1, FS_Surjection
  <1>3. \A k : Group(rows, column, k) \subseteq rows
    BY DEF Group
  <1> QED
    BY <1>2, <1>3, FS_Subset DEF Group, Groups

LEMMA SumOverGroups ==
    ASSUME NEW rows, IsFiniteSet(rows), NEW column, NEW w, \A r \in rows : w[r] \in Int,
           NEW G, \A k \in Groups(rows, column) : G[k] = SumFunctionOnSet(w, Group(rows, column, k))
    PROVE  SumFunctionOnSet(G, Groups(rows, column)) = SumFunctionOnSet(w, rows)
  <1>1. PICK keys, key : keys = Groups(rows, column) /\ key = [r \in rows |-> r[column]]
    OBVIOUS
  <1>2. key \in Surjection(rows, keys)
    BY <1>1 DEF Surjection, Groups
  <1>3. \A k : Having(rows, key, k) = Group(rows, column, k)
    BY <1>1 DEF Group, Having
  <1>4. \A k \in keys : G[k] = SumFunctionOnSet(w, Having(rows, key, k))
    BY <1>1, <1>3
  <1>5. SumFunctionOnSet(G, keys) = SumFunctionOnSet(w, rows)
    BY <1>2, <1>4, SumOverKeys
  <1> QED
    BY <1>1, <1>5

\* A rounded quotient is within half a unit of the quotient.
LEMMA RoundedFacts ==
    ASSUME NEW a \in Nat, NEW b \in Nat
    PROVE  /\ Reports!Rounded(a, b) \in Nat
           /\ b > 0 => /\ 2 * (b * Reports!Rounded(a, b)) <= 2 * a + b
                       /\ 2 * a + b < 2 * (b * Reports!Rounded(a, b)) + 2 * b
           /\ b = 0 => Reports!Rounded(a, b) = 0
  <1>1. \A n \in Nat, d \in Nat \ {0} :
            n \div d \in Nat /\ d * (n \div d) <= n /\ n < d * (n \div d) + d
    OBVIOUS
  <1>2. CASE b > 0
    <2>1. PICK n \in Nat, d \in Nat \ {0} : n = 2 * a + b /\ d = 2 * b
      BY <1>2
    <2>2. PICK q \in Nat : q = n \div d /\ d * q <= n /\ n < d * q + d
      BY <1>1
    <2>3. d * q = 2 * (b * q)
      BY <2>1
    <2>4. Reports!Rounded(a, b) = q
      BY <1>2, <2>1, <2>2 DEF Reports!Rounded
    <2> QED
      BY <1>2, <2>1, <2>2, <2>3, <2>4
  <1>3. CASE b = 0
    BY <1>3 DEF Reports!Rounded
  <1> QED
    BY <1>2, <1>3

LEMMA PercentRounds ==
    ASSUME NEW part \in Nat, NEW whole \in Nat
    PROVE  \E r \in Nat : /\ r = Reports!Percent(part, whole)
                          /\ whole > 0 => /\ 2 * (whole * r) <= 2 * (100 * part) + whole
                                          /\ 2 * (100 * part) + whole < 2 * (whole * r) + 2 * whole
                          /\ whole = 0 => r = 0
  <1>1. PICK n \in Nat : n = 100 * part
    OBVIOUS
  <1>2. PICK r : r = Reports!Rounded(n, whole)
    OBVIOUS
  <1>3. /\ r \in Nat
        /\ whole > 0 => 2 * (whole * r) <= 2 * n + whole /\ 2 * n + whole < 2 * (whole * r) + 2 * whole
        /\ whole = 0 => r = 0
    BY <1>2, RoundedFacts
  <1>4. r = Reports!Percent(part, whole)
    BY <1>1, <1>2 DEF Reports!Percent
  <1> QED
    BY <1>1, <1>3, <1>4

LEMMA PercentWithin ==
    ASSUME NEW part \in Nat, NEW whole \in Nat, whole = 0 => part = 0
    PROVE  Reports!Rounds(Reports!Percent(part, whole), 100 * part, whole)
  <1>1. PICK r \in Nat : /\ r = Reports!Percent(part, whole)
                         /\ whole > 0 => /\ 2 * (whole * r) <= 2 * (100 * part) + whole
                                         /\ 2 * (100 * part) + whole < 2 * (whole * r) + 2 * whole
                         /\ whole = 0 => r = 0
    BY PercentRounds
  <1>2. PICK m \in Nat, a \in Nat : m = whole * r /\ a = 100 * part
    OBVIOUS
  <1>3. 2 * (m - a) \in -whole .. whole
    BY <1>1, <1>2
  <1> QED
    BY <1>1, <1>2, <1>3 DEF Reports!Rounds

LEMMA PercentFacts ==
    ASSUME NEW part \in Nat, NEW whole \in Nat, part <= whole
    PROVE  Reports!Percent(part, whole) \in 0 .. 100
  <1>1. PICK r \in Nat : /\ r = Reports!Percent(part, whole)
                         /\ whole > 0 => 2 * (whole * r) <= 2 * (100 * part) + whole
                         /\ whole = 0 => r = 0
    BY PercentRounds
  <1>2. ASSUME whole > 0, r > 100
        PROVE  FALSE
    <2>1. whole * 101 <= whole * r
      BY <1>2
    <2> QED
      BY <1>1, <1>2, <2>1
  <1> QED
    BY <1>1, <1>2

\* The rounded parts of a whole differ from the rounded whole by one at most.
LEMMA PercentsAddUp ==
    ASSUME NEW a \in Nat, NEW b \in Nat, NEW whole \in Nat
    PROVE  Reports!Percent(a, whole) + Reports!Percent(b, whole) - Reports!Percent(a + b, whole) \in -1 .. 1
  <1>1. PICK r \in Nat : /\ r = Reports!Percent(a, whole)
                         /\ whole > 0 => /\ 2 * (whole * r) <= 2 * (100 * a) + whole
                                         /\ 2 * (100 * a) + whole < 2 * (whole * r) + 2 * whole
                         /\ whole = 0 => r = 0
    BY PercentRounds
  <1>2. PICK s \in Nat : /\ s = Reports!Percent(b, whole)
                         /\ whole > 0 => /\ 2 * (whole * s) <= 2 * (100 * b) + whole
                                         /\ 2 * (100 * b) + whole < 2 * (whole * s) + 2 * whole
                         /\ whole = 0 => s = 0
    BY PercentRounds
  <1>3. PICK t \in Nat : /\ t = Reports!Percent(a + b, whole)
                         /\ whole > 0 => /\ 2 * (whole * t) <= 2 * (100 * (a + b)) + whole
                                         /\ 2 * (100 * (a + b)) + whole < 2 * (whole * t) + 2 * whole
                         /\ whole = 0 => t = 0
    <2>1. PICK c \in Nat : c = a + b
      OBVIOUS
    <2>2. PICK t \in Nat : /\ t = Reports!Percent(c, whole)
                           /\ whole > 0 => /\ 2 * (whole * t) <= 2 * (100 * c) + whole
                                           /\ 2 * (100 * c) + whole < 2 * (whole * t) + 2 * whole
                           /\ whole = 0 => t = 0
      BY PercentRounds
    <2> QED
      BY <2>1, <2>2
  <1>4. PICK k \in Int : k = r + s - t
    OBVIOUS
  <1>5. CASE whole > 0
    <2>1. whole * k = whole * r + whole * s - whole * t
      BY <1>4
    <2>2. 2 * (whole * k) < 3 * whole /\ -(3 * whole) < 2 * (whole * k)
      BY <1>1, <1>2, <1>3, <1>5, <2>1
    <2>3. k \in -1 .. 1
      BY <1>5, <2>2
    <2> QED
      BY <1>1, <1>2, <1>3, <1>4, <2>3
  <1>6. CASE whole = 0
    BY <1>1, <1>2, <1>3, <1>6
  <1> QED
    BY <1>5, <1>6

\* The rows of a report.
LEMMA RowsInFacts ==
    ASSUME NEW rows, IsFiniteSet(rows), NEW range
    PROVE  /\ Reports!RowsIn(rows, range) \subseteq rows
           /\ IsFiniteSet(Reports!RowsIn(rows, range))
  <1>1. Reports!RowsIn(rows, range) \subseteq rows
    BY DEF Reports!RowsIn
  <1> QED
    BY <1>1, FS_Subset

\* The groups' counts add up to the number of rows.
LEMMA CountsAddUp ==
    ASSUME NEW rows, IsFiniteSet(rows), NEW column,
           NEW G, DOMAIN G = Groups(rows, column),
           \A k \in Groups(rows, column) : G[k] = Cardinality(Group(rows, column, k))
    PROVE  Reports!Sum(G) = Cardinality(rows)
  <1> DEFINE w == [r \in rows |-> 1]
  <1>1. \A r \in rows : w[r] = 1 /\ w[r] \in Int
    OBVIOUS
  <1>2. ASSUME NEW k \in Groups(rows, column)
        PROVE  G[k] = SumFunctionOnSet(w, Group(rows, column, k))
    <2>1. IsFiniteSet(Group(rows, column, k))
      BY GroupsFinite
    <2>2. \A r \in Group(rows, column, k) : w[r] = 1
      BY DEF Group
    <2> HIDE DEF w
    <2>3. SumFunctionOnSet(w, Group(rows, column, k)) = Cardinality(Group(rows, column, k))
      BY <2>1, <2>2, SumOnes
    <2> QED
      BY <2>3
  <1> HIDE DEF w
  <1>3. SumFunctionOnSet(G, Groups(rows, column)) = SumFunctionOnSet(w, rows)
    BY <1>1, <1>2, SumOverGroups
  <1>4. SumFunctionOnSet(w, rows) = Cardinality(rows)
    BY <1>1, SumOnes
  <1>5. Reports!Sum(G) = SumFunctionOnSet(G, Groups(rows, column))
    BY ReportSum
  <1> QED
    BY <1>3, <1>4, <1>5

\* The groups' totals add up to the total.
LEMMA TotalsAddUp ==
    ASSUME NEW rows, IsFiniteSet(rows), NEW column, NEW amount, \A r \in rows : r[amount] \in Int,
           NEW G, DOMAIN G = Groups(rows, column),
           \A k \in Groups(rows, column) : G[k] = Reports!Total(Group(rows, column, k), amount)
    PROVE  Reports!Sum(G) = Reports!Total(rows, amount)
  <1> DEFINE w == [r \in rows |-> r[amount]]
  <1>1. \A r \in rows : w[r] = r[amount] /\ w[r] \in Int
    OBVIOUS
  <1> HIDE DEF w
  <1>2. ASSUME NEW k \in Groups(rows, column)
        PROVE  G[k] = SumFunctionOnSet(w, Group(rows, column, k))
    <2>1. \A r \in Group(rows, column, k) : w[r] = r[amount]
      BY <1>1 DEF Group
    <2>2. Reports!Total(Group(rows, column, k), amount) = SumFunctionOnSet(w, Group(rows, column, k))
      BY <2>1, TotalSum
    <2> QED
      BY <2>2
  <1>3. SumFunctionOnSet(G, Groups(rows, column)) = SumFunctionOnSet(w, rows)
    BY <1>1, <1>2, SumOverGroups
  <1>4. Reports!Total(rows, amount) = SumFunctionOnSet(w, rows)
    BY <1>1, TotalSum
  <1>5. Reports!Sum(G) = SumFunctionOnSet(G, Groups(rows, column))
    BY ReportSum
  <1> QED
    BY <1>3, <1>4, <1>5

LEMMA TotalNat ==
    ASSUME NEW rows, IsFiniteSet(rows), NEW amount, \A r \in rows : r[amount] \in Nat
    PROVE  Reports!Total(rows, amount) \in Nat
  <1> DEFINE w == [r \in rows |-> r[amount]]
  <1>1. \A r \in rows : w[r] = r[amount] /\ w[r] \in Nat
    OBVIOUS
  <1> HIDE DEF w
  <1>2. SumFunctionOnSet(w, rows) \in Nat
    BY <1>1, SumNat
  <1>3. Reports!Total(rows, amount) = SumFunctionOnSet(w, rows)
    BY <1>1, TotalSum
  <1> QED
    BY <1>2, <1>3

LEMMA TotalInt ==
    ASSUME NEW rows, IsFiniteSet(rows), NEW amount, \A r \in rows : r[amount] \in Int
    PROVE  Reports!Total(rows, amount) \in Int
  <1> DEFINE w == [r \in rows |-> r[amount]]
  <1>1. \A r \in rows : w[r] = r[amount] /\ w[r] \in Int
    OBVIOUS
  <1> HIDE DEF w
  <1>2. SumFunctionOnSet(w, rows) \in Int
    BY <1>1, SumInt
  <1>3. Reports!Total(rows, amount) = SumFunctionOnSet(w, rows)
    BY <1>1, TotalSum
  <1> QED
    BY <1>2, <1>3

\* The figures of CouponService.getAnalytics add up, and the average discount of a coupon is
\* rounded by half a unit at most.
LEMMA CouponFigures ==
    ASSUME NEW usages, IsFiniteSet(usages), \A u \in usages : u.discount \in Nat, NEW range
    PROVE  LET coupons == Reports!CouponAnalytics(usages, range) IN
           /\ Reports!Sum([c \in DOMAIN coupons |-> coupons[c].totalUsage])
                = Cardinality(Reports!RowsIn(usages, range))
           /\ \A c \in DOMAIN coupons :
                Reports!Rounds(coupons[c].avgOrderDiscount, coupons[c].totalDiscount, coupons[c].totalUsage)
  <1>1. PICK rows : rows = Reports!RowsIn(usages, range)
    OBVIOUS
  <1>2. IsFiniteSet(rows) /\ \A u \in rows : u.discount \in Nat
    BY <1>1, RowsInFacts
  <1>3. PICK coupons : coupons = Reports!CouponAnalytics(usages, range)
    OBVIOUS
  <1>4. /\ DOMAIN coupons = Groups(rows, "coupon")
        /\ \A c \in Groups(rows, "coupon") :
            LET own == Group(rows, "coupon", c) IN
            /\ coupons[c].totalUsage = Cardinality(own)
            /\ coupons[c].totalDiscount = Reports!Total(own, "discount")
            /\ coupons[c].avgOrderDiscount = Reports!Rounded(Reports!Total(own, "discount"), Cardinality(own))
    BY <1>1, <1>3, ReportCounts DEF Reports!CouponAnalytics, Groups, Group
  <1>5. PICK G : G = [c \in DOMAIN coupons |-> coupons[c].totalUsage]
    OBVIOUS
  <1>6. Reports!Sum(G) = Cardinality(rows)
    <2>1. DOMAIN G = Groups(rows, "coupon")
      BY <1>4, <1>5
    <2>2. \A c \in Groups(rows, "coupon") : G[c] = Cardinality(Group(rows, "coupon", c))
      BY <1>4, <1>5
    <2> QED
      BY <1>2, <2>1, <2>2, CountsAddUp
  <1>7. ASSUME NEW c \in DOMAIN coupons
        PROVE  Reports!Rounds(coupons[c].avgOrderDiscount, coupons[c].totalDiscount, coupons[c].totalUsage)
    <2>1. PICK own : own = Group(rows, "coupon", c)
      OBVIOUS
    <2>2. IsFiniteSet(own) /\ own # {}
      BY <1>2, <1>4, <2>1, GroupsFinite
    <2>3. \A u \in own : u.discount \in Nat
      BY <1>2, <2>1 DEF Group
    <2>4. PICK n \in Nat : n = Cardinality(own) /\ n > 0
      BY <2>2, FS_CardinalityType, FS_EmptySet
    <2>5. PICK d \in Nat : d = Reports!Total(own, "discount")
      BY <2>2, <2>3, TotalNat
    <2>6. PICK r \in Nat : /\ r = Reports!Rounded(d, n)
                           /\ 2 * (n * r) <= 2 * d + n
                           /\ 2 * d + n < 2 * (n * r) + 2 * n
      BY <2>4, RoundedFacts
    <2>7. coupons[c].totalUsage = n /\ coupons[c].totalDiscount = d /\ coupons[c].avgOrderDiscount = r
      BY <1>4, <2>1, <2>4, <2>5, <2>6
    <2>8. PICK m \in Nat : m = n * r
      OBVIOUS
    <2>9. 2 * (m - d) \in -n .. n
      BY <2>6, <2>8
    <2> QED
      BY <2>7, <2>8, <2>9 DEF Reports!Rounds
  <1> QED
    BY <1>1, <1>3, <1>5, <1>6, <1>7

\* So do those of ShippingService.getAnalytics, and a rate of success is a percentage.
LEMMA ShippingFigures ==
    ASSUME NEW shipments, IsFiniteSet(shipments), \A s \in shipments : s.fee \in Int, NEW range
    PROVE  LET shipping == Reports!ShippingAnalytics(shipments, range) IN
           /\ Reports!Sum([p \in DOMAIN shipping.byProvider |-> shipping.byProvider[p].count]) = shipping.totalOrders
           /\ Reports!Sum([p \in DOMAIN shipping.byProvider |-> shipping.byProvider[p].totalFee]) = shipping.totalFee
           /\ \A p \in DOMAIN shipping.byProvider :
                /\ shipping.byProvider[p].successRate \in 0 .. 100
                /\ Reports!Rounds(shipping.byProvider[p].successRate,
                       100 * Cardinality({s \in Reports!RowsIn(shipments, range) :
                                              s.provider = p /\ s.status = "delivered"}),
                       shipping.byProvider[p].count)
  <1>1. PICK rows : rows = Reports!RowsIn(shipments, range)
    OBVIOUS
  <1>2. IsFiniteSet(rows) /\ \A s \in rows : s.fee \in Int
    BY <1>1, RowsInFacts
  <1>3. PICK shipping : shipping = Reports!ShippingAnalytics(shipments, range)
    OBVIOUS
  <1>4. PICK by : by = shipping.byProvider
    OBVIOUS
  <1>5. /\ shipping.totalOrders = Cardinality(rows)
        /\ shipping.totalFee = Reports!Total(rows, "fee")
    BY <1>1, <1>3, ReportCounts DEF Reports!ShippingAnalytics
  <1>6. /\ DOMAIN by = Groups(rows, "provider")
        /\ \A p \in Groups(rows, "provider") :
            LET own == Group(rows, "provider", p) IN
            /\ by[p].count = Cardinality(own)
            /\ by[p].totalFee = Reports!Total(own, "fee")
            /\ by[p].successRate
                 = Reports!Percent(Cardinality({s \in own : s.status = "delivered"}), Cardinality(own))
    BY <1>1, <1>3, <1>4, ReportCounts DEF Reports!ShippingAnalytics, Groups, Group
  <1>7. Reports!Sum([p \in DOMAIN by |-> by[p].count]) = Cardinality(rows)
    <2>1. PICK G : G = [p \in DOMAIN by |-> by[p].count]
      OBVIOUS
    <2>2. DOMAIN G = Groups(rows, "provider")
      BY <1>6, <2>1
    <2>3. \A p \in Groups(rows, "provider") : G[p] = Cardinality(Group(rows, "provider", p))
      BY <1>6, <2>1
    <2>4. Reports!Sum(G) = Cardinality(rows)
      BY <1>2, <2>2, <2>3, CountsAddUp
    <2> QED
      BY <2>1, <2>4
  <1>8. Reports!Sum([p \in DOMAIN by |-> by[p].totalFee]) = Reports!Total(rows, "fee")
    <2>1. PICK G : G = [p \in DOMAIN by |-> by[p].totalFee]
      OBVIOUS
    <2>2. DOMAIN G = Groups(rows, "provider")
      BY <1>6, <2>1
    <2>3. \A p \in Groups(rows, "provider") : G[p] = Reports!Total(Group(rows, "provider", p), "fee")
      BY <1>6, <2>1
    <2>4. Reports!Sum(G) = Reports!Total(rows, "fee")
      BY <1>2, <2>2, <2>3, TotalsAddUp
    <2> QED
      BY <2>1, <2>4
  <1>9. ASSUME NEW p \in DOMAIN by
        PROVE  /\ by[p].successRate \in 0 .. 100
               /\ Reports!Rounds(by[p].successRate,
                      100 * Cardinality({s \in rows : s.provider = p /\ s.status = "delivered"}),
                      by[p].count)
    <2>1. PICK own : own = Group(rows, "provider", p)
      OBVIOUS
    <2>2. PICK won : won = {s \in own : s.status = "delivered"}
      OBVIOUS
    <2>3. IsFiniteSet(own) /\ won \subseteq own
      BY <1>2, <2>1, <2>2, GroupsFinite
    <2>4. /\ Cardinality(won) \in Nat /\ Cardinality(own) \in Nat
          /\ Cardinality(won) <= Cardinality(own)
      BY <2>3, FS_Subset, FS_CardinalityType
    <2>5. Reports!Percent(Cardinality(won), Cardinality(own)) \in 0 .. 100
      BY <2>4, PercentFacts
    <2>6. Reports!Rounds(Reports!Percent(Cardinality(won), Cardinality(own)), 100 * Cardinality(won),
                         Cardinality(own))
      BY <2>4, PercentWithin
    <2>7. won = {s \in rows : s.provider = p /\ s.status = "delivered"}
      BY <2>1, <2>2 DEF Group
    <2>8. /\ by[p].count = Cardinality(own)
          /\ by[p].successRate = Reports!Percent(Cardinality(won), Cardinality(own))
      BY <1>6, <2>1, <2>2
    <2> QED
      BY <2>5, <2>6, <2>7, <2>8
  <1> QED
    BY <1>1, <1>3, <1>4, <1>5, <1>7, <1>8, <1>9

\* The figures of ProductRepository.getInventorySummary are those of disjoint sets of products.
LEMMA StockFigures ==
    ASSUME NEW products, IsFiniteSet(products), \A p \in products : p.stock \in Int, NEW asked \in Int
    PROVE  LET stock == Reports!InventorySummary(products, asked) IN
           /\ stock.alertRate \in 0 .. 100
           /\ Reports!Rounds(stock.outOfStockRate, 100 * stock.outOfStock, stock.totalProducts)
           /\ Reports!Rounds(stock.lowStockRate, 100 * stock.lowStock, stock.totalProducts)
           /\ Reports!Rounds(stock.alertRate, 100 * stock.totalAlerts, stock.totalProducts)
           /\ stock.outOfStockRate + stock.lowStockRate - stock.alertRate \in -1 .. 1
           /\ stock.totalAlerts <= stock.totalProducts
  <1>1. PICK threshold \in Int : threshold = IF asked > 0 THEN asked ELSE 5
    OBVIOUS
  <1>2. PICK out, low : /\ out = {p \in products : p.stock <= 0}
                        /\ low = {p \in products : p.stock \in 1 .. threshold}
    OBVIOUS
  <1>3. IsFiniteSet(out) /\ IsFiniteSet(low) /\ out \cap low = {} /\ out \union low \subseteq products
    <2>1. out \subseteq products /\ low \subseteq products
      BY <1>2
    <2>2. out \cap low = {}
      BY <1>2
    <2> QED
      BY <2>1, <2>2, FS_Subset
  <1>4. Cardinality(out \union low) = Cardinality(out) + Cardinality(low) - Cardinality(out \cap low)
    BY <1>3, FS_Union
  <1>5. PICK a \in Nat, b \in Nat, n \in Nat :
            a = Cardinality(out) /\ b = Cardinality(low) /\ n = Cardinality(products) /\ a + b <= n
    <2>1. Cardinality(out) \in Nat /\ Cardinality(low) \in Nat /\ Cardinality(products) \in Nat
      BY <1>3, FS_CardinalityType
    <2>2. Cardinality(out \union low) <= Cardinality(products)
      BY <1>3, FS_Subset
    <2>3. Cardinality(out \cap low) = 0
      BY <1>3, FS_EmptySet
    <2> QED
      BY <1>4, <2>1, <2>2, <2>3
  <1>6. PICK stock : stock = Reports!InventorySummary(products, asked)
    OBVIOUS
  <1>7. /\ stock.totalProducts = n /\ stock.totalAlerts = a + b
        /\ stock.outOfStock = a /\ stock.lowStock = b
        /\ stock.outOfStockRate = Reports!Percent(a, n)
        /\ stock.lowStockRate = Reports!Percent(b, n)
        /\ stock.alertRate = Reports!Percent(a + b, n)
    BY <1>1, <1>2, <1>5, <1>6, ReportCounts DEF Reports!InventorySummary
  <1>8. Reports!Percent(a + b, n) \in 0 .. 100
    <2>1. PICK c \in Nat : c = a + b
      OBVIOUS
    <2> QED
      BY <1>5, <2>1, PercentFacts
  <1>9. Reports!Percent(a, n) + Reports!Percent(b, n) - Reports!Percent(a + b, n) \in -1 .. 1
    BY PercentsAddUp
  <1>10. /\ Reports!Rounds(Reports!Percent(a, n), 100 * a, n)
         /\ Reports!Rounds(Reports!Percent(b, n), 100 * b, n)
    <2>1. n = 0 => a = 0 /\ b = 0
      BY <1>5
    <2> QED
      BY <2>1, PercentWithin
  <1>11. Reports!Rounds(Reports!Percent(a + b, n), 100 * (a + b), n)
    <2>1. PICK c \in Nat : c = a + b /\ (n = 0 => c = 0)
      BY <1>5
    <2>2. Reports!Rounds(Reports!Percent(c, n), 100 * c, n)
      BY <2>1, PercentWithin
    <2> QED
      BY <2>1, <2>2
  <1> QED
    BY <1>5, <1>6, <1>7, <1>8, <1>9, <1>10, <1>11

\* The statistics of coupons, shipments and stock agree with the rows they are made of, for any
\* rows and any range of dates: groups add up to totals, rates are percentages, and
\* rounding moves no rate and no coupon's average by more than half a unit (coupon.service.ts:642 and shipping.service.ts:385,
\* getAnalytics, and product.repository.ts:174, getInventorySummary).
THEOREM StatisticsAlwaysAgree ==
    ASSUME NEW usages, IsFiniteSet(usages), \A u \in usages : u.discount \in Nat,
           NEW shipments, IsFiniteSet(shipments), \A s \in shipments : s.fee \in Int,
           NEW products, IsFiniteSet(products), \A p \in products : p.stock \in Int,
           NEW range
    PROVE  Reports!StatisticsAgree(usages, shipments, products, range)
  <1>1. PICK coupons : coupons = Reports!CouponAnalytics(usages, range)
    OBVIOUS
  <1>2. PICK shipping : shipping = Reports!ShippingAnalytics(shipments, range)
    OBVIOUS
  <1>3. PICK stock : stock = Reports!InventorySummary(products, 0)
    OBVIOUS
  <1>4. /\ Reports!Sum([c \in DOMAIN coupons |-> coupons[c].totalUsage])
             = Reports!Cardinality(Reports!RowsIn(usages, range))
        /\ \A c \in DOMAIN coupons :
             Reports!Rounds(coupons[c].avgOrderDiscount, coupons[c].totalDiscount, coupons[c].totalUsage)
    BY <1>1, CouponFigures, ReportCounts
  <1>5. /\ Reports!Sum([p \in DOMAIN shipping.byProvider |-> shipping.byProvider[p].count]) = shipping.totalOrders
        /\ Reports!Sum([p \in DOMAIN shipping.byProvider |-> shipping.byProvider[p].totalFee]) = shipping.totalFee
        /\ \A p \in DOMAIN shipping.byProvider :
             /\ shipping.byProvider[p].successRate \in 0 .. 100
             /\ Reports!Rounds(shipping.byProvider[p].successRate,
                    100 * Reports!Cardinality({s \in Reports!RowsIn(shipments, range) :
                                                  s.provider = p /\ s.status = "delivered"}),
                    shipping.byProvider[p].count)
    BY <1>2, ShippingFigures, ReportCounts
  <1>6. /\ stock.alertRate \in 0 .. 100
        /\ Reports!Rounds(stock.outOfStockRate, 100 * stock.outOfStock, stock.totalProducts)
        /\ Reports!Rounds(stock.lowStockRate, 100 * stock.lowStock, stock.totalProducts)
        /\ Reports!Rounds(stock.alertRate, 100 * stock.totalAlerts, stock.totalProducts)
        /\ stock.outOfStockRate + stock.lowStockRate - stock.alertRate \in -1 .. 1
        /\ stock.totalAlerts <= stock.totalProducts
    BY <1>3, StockFigures
  <1> QED
    BY <1>1, <1>2, <1>3, <1>4, <1>5, <1>6, Zenon DEF Reports!StatisticsAgree

LEMMA CountByAddsUp ==
    ASSUME NEW rows, IsFiniteSet(rows), NEW column
    PROVE  Reports!Sum(Reports!CountBy(rows, column)) = Cardinality(rows)
  <1>1. PICK G : G = Reports!CountBy(rows, column)
    OBVIOUS
  <1>2. DOMAIN G = Groups(rows, column)
    BY <1>1 DEF Reports!CountBy, Groups
  <1>3. \A k \in Groups(rows, column) : G[k] = Cardinality(Group(rows, column, k))
    BY <1>1, ReportCounts DEF Reports!CountBy, Groups, Group
  <1> QED
    BY <1>1, <1>2, <1>3, CountsAddUp

\* What the dashboard shows by status adds up.
LEMMA OverviewAddsUp ==
    ASSUME NEW tables, NEW range, NEW limit,
           IsFiniteSet(tables.orders), IsFiniteSet(tables.payments), IsFiniteSet(tables.tickets)
    PROVE  LET o == Reports!Overview(tables, range, limit) IN
           /\ Reports!CountOf(o.revenueByStatus, "success") = o.totalRevenue
           /\ Reports!Sum(o.ordersByStatus) = o.orderCount
           /\ Reports!Sum(o.warrantyByStatus) = o.warrantyCount
  <1>1. PICK o : o = Reports!Overview(tables, range, limit)
    OBVIOUS
  <1>2. /\ o.totalRevenue = Reports!TotalRevenue(tables.payments, range)
        /\ o.revenueByStatus = Reports!RevenueByPaymentStatus(tables.payments, range)
        /\ o.orderCount = Cardinality(Reports!RowsIn(tables.orders, range))
        /\ o.ordersByStatus = Reports!OrdersByStatus(tables.orders, range)
        /\ o.warrantyCount = Cardinality(Reports!RowsIn(tables.tickets, range))
        /\ o.warrantyByStatus = Reports!CountBy(Reports!RowsIn(tables.tickets, range), "status")
    BY <1>1, ReportCounts DEF Reports!Overview
  <1>3. Reports!Sum(o.ordersByStatus) = o.orderCount
    <2>1. IsFiniteSet(Reports!RowsIn(tables.orders, range))
      BY RowsInFacts
    <2>2. o.ordersByStatus = Reports!CountBy(Reports!RowsIn(tables.orders, range), "status")
      BY <1>2 DEF Reports!OrdersByStatus
    <2> QED
      BY <1>2, <2>1, <2>2, CountByAddsUp
  <1>4. Reports!Sum(o.warrantyByStatus) = o.warrantyCount
    <2>1. IsFiniteSet(Reports!RowsIn(tables.tickets, range))
      BY RowsInFacts
    <2> QED
      BY <1>2, <2>1, CountByAddsUp
  <1>5. Reports!CountOf(o.revenueByStatus, "success") = o.totalRevenue
    <2>1. PICK rows : rows = Reports!RowsIn(tables.payments, range)
      OBVIOUS
    <2>2. PICK paid : paid = {p \in rows : p.status = "success"}
      OBVIOUS
    <2>3. o.totalRevenue = Reports!Total(paid, "amount")
      BY <1>2, <2>1, <2>2 DEF Reports!TotalRevenue
    <2>4. o.revenueByStatus = [s \in {p.status : p \in rows} |-> Reports!Total({p \in rows : p.status = s}, "amount")]
      BY <1>2, <2>1 DEF Reports!RevenueByPaymentStatus
    <2>5. CASE "success" \in {p.status : p \in rows}
      BY <2>2, <2>3, <2>4, <2>5 DEF Reports!CountOf
    <2>6. CASE "success" \notin {p.status : p \in rows}
      <3>1. paid = {}
        BY <2>2, <2>6
      <3>2. Reports!Total({}, "amount") = 0
        <4>1. PICK f : f = [r \in {} |-> 0]
          OBVIOUS
        <4>2. Reports!Total({}, "amount") = SumFunctionOnSet(f, {})
          BY TotalSum
        <4> QED
          BY <4>2, SumEmpty
      <3> QED
        BY <2>3, <2>4, <2>6, <3>1, <3>2 DEF Reports!CountOf
    <2> QED
      BY <2>5, <2>6
  <1> QED
    BY <1>1, <1>3, <1>4, <1>5

-----------------------------------------------------------------------------
(***************************************************************************)
(* A sorted sequence of rows whose keys are different has each row at its  *)
(* rank, the number of rows with a key not above its own.                  *)
(***************************************************************************)
\* The place of a row among the rows, by its key.
RankOf(rows, key, p) == Cardinality({q \in rows : key[q] <= key[p]})

IsSorting(s, rows, key) ==
    /\ s \in [1 .. Cardinality(rows) -> rows]
    /\ \A i, j \in 1 .. Cardinality(rows) : i # j => s[i] # s[j]
    /\ \A i \in 1 .. Cardinality(rows) - 1 : key[s[i]] <= key[s[i + 1]]

LEMMA RanksGrow ==
    ASSUME NEW rows, IsFiniteSet(rows), NEW key \in [rows -> Int]
    PROVE  /\ Cardinality(rows) \in Nat
           /\ \A p \in rows : RankOf(rows, key, p) \in 1 .. Cardinality(rows)
           /\ \A p, q \in rows : key[p] < key[q] => RankOf(rows, key, p) < RankOf(rows, key, q)
  <1> DEFINE Below(p) == {q \in rows : key[q] <= key[p]}
  <1>1. \A p \in rows : Below(p) \subseteq rows /\ p \in Below(p)
    OBVIOUS
  <1>2. \A p, q \in rows : key[p] < key[q] => Below(p) \subseteq Below(q) /\ q \notin Below(p)
    OBVIOUS
  <1>3. \A p \in rows : RankOf(rows, key, p) = Cardinality(Below(p))
    BY DEF RankOf
  <1> HIDE DEF Below
  <1>4. \A p \in rows : /\ IsFiniteSet(Below(p))
                        /\ Cardinality(Below(p)) \in Nat /\ Cardinality(Below(p)) <= Cardinality(rows)
                        /\ Cardinality(Below(p)) # 0
    <2> TAKE p \in rows
    <2>1. IsFiniteSet(Below(p)) /\ Cardinality(Below(p)) <= Cardinality(rows)
      BY <1>1, FS_Subset
    <2>2. Cardinality(Below(p)) \in Nat /\ Cardinality(Below(p)) # 0
      BY <1>1, <2>1, FS_CardinalityType, FS_EmptySet
    <2> QED
      BY <2>1, <2>2
  <1>5. Cardinality(rows) \in Nat
    BY FS_CardinalityType
  <1>6. ASSUME NEW p \in rows, NEW q \in rows, key[p] < key[q]
        PROVE  Cardinality(Below(p)) < Cardinality(Below(q))
    <2>1. Below(p) \in SUBSET Below(q) /\ Below(p) # Below(q)
      BY <1>1, <1>2, <1>6
    <2>2. Cardinality(Below(p)) <= Cardinality(Below(q)) /\ Cardinality(Below(p)) # Cardinality(Below(q))
      BY <1>4, <2>1, FS_Subset
    <2> QED
      BY <1>4, <2>2
  <1> QED
    BY <1>3, <1>4, <1>5, <1>6

LEMMA SortingExists ==
    ASSUME NEW rows, IsFiniteSet(rows), NEW key \in [rows -> Int],
           \A p, q \in rows : key[p] = key[q] => p = q
    PROVE  \E s : IsSorting(s, rows, key)
  <1> DEFINE N == Cardinality(rows)
             r == [p \in rows |-> RankOf(rows, key, p)]
  <1>1. N \in Nat /\ r \in [rows -> 1 .. N] /\ \A p, q \in rows : key[p] < key[q] => r[p] < r[q]
    BY RanksGrow
  <1>2. r \in Injection(rows, 1 .. N)
    <2>1. ASSUME NEW p \in rows, NEW q \in rows, r[p] = r[q]
          PROVE  p = q
      <3>1. r[p] \in Int /\ r[q] \in Int /\ key[p] \in Int /\ key[q] \in Int
        BY <1>1
      <3>2. ~(key[p] < key[q]) /\ ~(key[q] < key[p])
        BY <1>1, <2>1, <3>1
      <3> QED
        BY <3>1, <3>2
    <2> HIDE DEF r
    <2> QED
      BY <1>1, <2>1 DEF Injection, IsInjective
  <1> HIDE DEF r
  <1>3. r \in Surjection(rows, 1 .. N)
    <2>1. IsFiniteSet(1 .. N) /\ Cardinality(1 .. N) = N
      BY <1>1, FS_Interval
    <2> QED
      BY <1>2, <2>1, FS_Injection
  <1>4. PICK s : s = [i \in 1 .. N |-> CHOOSE p \in rows : r[p] = i]
    OBVIOUS
  <1>5. \A i \in 1 .. N : s[i] \in rows /\ r[s[i]] = i
    <2>1. \A i \in 1 .. N : \E p \in rows : r[p] = i
      BY <1>3 DEF Surjection
    <2> QED
      BY <1>4, <2>1
  <1>6. ASSUME NEW i \in 1 .. N - 1
        PROVE  key[s[i]] <= key[s[i + 1]]
    <2>1. i \in 1 .. N /\ i + 1 \in 1 .. N
      BY <1>1
    <2>2. r[s[i]] = i /\ r[s[i + 1]] = i + 1 /\ s[i] \in rows /\ s[i + 1] \in rows
      BY <1>5, <2>1
    <2>3. ~(key[s[i + 1]] < key[s[i]])
      BY <1>1, <2>2
    <2> QED
      BY <2>2, <2>3
  <1>7. \A i, j \in 1 .. N : i # j => s[i] # s[j]
    BY <1>5
  <1>8. s \in [1 .. N -> rows]
    BY <1>4, <1>5
  <1> QED
    BY <1>6, <1>7, <1>8 DEF IsSorting

LEMMA LeastNumber ==
    ASSUME NEW N \in Nat, NEW A, A \subseteq 1 .. N, A # {}
    PROVE  \E k \in A : \A l \in A : k <= l
  <1>1. PICK S : S = 1 .. N
    OBVIOUS
  <1>2. PICK B : B = {1 .. l : l \in A}
    OBVIOUS
  <1>3. IsFiniteSet(S)
    BY <1>1, FS_Interval
  <1>4. B \subseteq SUBSET S /\ B # {}
    <2>1. \A l \in A : 1 .. l \subseteq 1 .. N
      OBVIOUS
    <2>2. \A l \in A : 1 .. l \in SUBSET S
      BY <1>1, <2>1
    <2> QED
      BY <1>2, <2>2
  <1>5. PICK T \in B : \A U \in B : U \subseteq T => U = T
    BY <1>3, <1>4, SmallestSet
  <1>6. PICK k \in A : T = 1 .. k
    BY <1>2
  <1>7. ASSUME NEW l \in A
        PROVE  k <= l
    <2>1. k \in Nat \ {0} /\ l \in Nat \ {0}
      OBVIOUS
    <2>2. SUFFICES ASSUME l < k PROVE FALSE
      BY <2>1
    <2>3. 1 .. l \in B /\ 1 .. l \subseteq 1 .. k /\ k \in 1 .. k /\ k \notin 1 .. l
      BY <1>2, <2>1, <2>2
    <2> QED
      BY <1>5, <1>6, <2>3
  <1> QED
    BY <1>7

LEMMA SortingGrows ==
    ASSUME NEW rows, IsFiniteSet(rows), NEW key \in [rows -> Int],
           \A p, q \in rows : key[p] = key[q] => p = q,
           NEW s, IsSorting(s, rows, key),
           NEW i \in 1 .. Cardinality(rows), NEW j \in 1 .. Cardinality(rows), i < j
    PROVE  key[s[i]] < key[s[j]]
  <1>1. PICK N \in Nat : N = Cardinality(rows)
    BY FS_CardinalityType
  <1> DEFINE Bad == {k \in 1 .. N : i < k /\ ~(key[s[i]] < key[s[k]])}
  <1>2. SUFFICES ASSUME Bad # {} PROVE FALSE
    BY <1>1
  <1>3. PICK k \in Bad : \A l \in Bad : k <= l
    <2>1. Bad \subseteq 1 .. N
      OBVIOUS
    <2> HIDE DEF Bad
    <2> QED
      BY <1>2, <2>1, LeastNumber
  <1>4. k \in 2 .. N /\ i < k /\ ~(key[s[i]] < key[s[k]]) /\ k - 1 \in 1 .. N - 1 /\ i \in 1 .. N
    BY <1>1, <1>3
  <1>5. /\ s[i] \in rows /\ s[k] \in rows /\ s[k - 1] \in rows
        /\ s[k - 1] # s[k] /\ key[s[k - 1]] <= key[s[k]]
    <2>1. (k - 1) + 1 = k /\ k \in 1 .. N /\ k - 1 \in 1 .. N /\ k # k - 1
      BY <1>4
    <2> QED
      BY <1>1, <1>4, <2>1 DEF IsSorting
  <1>6. key[s[k - 1]] < key[s[k]]
    BY <1>5
  <1>7. key[s[i]] <= key[s[k - 1]]
    <2>1. CASE i = k - 1
      BY <1>5, <2>1
    <2>2. CASE i < k - 1
      <3>1. k - 1 \notin Bad
        BY <1>3, <1>4
      <3>2. key[s[i]] < key[s[k - 1]]
        BY <1>4, <2>2, <3>1
      <3> QED
        BY <1>5, <3>2
    <2> QED
      BY <1>4, <2>1, <2>2
  <1> QED
    BY <1>4, <1>5, <1>6, <1>7

LEMMA PlacesAreRanks ==
    ASSUME NEW rows, IsFiniteSet(rows), NEW key \in [rows -> Int],
           \A p, q \in rows : key[p] = key[q] => p = q,
           NEW s, IsSorting(s, rows, key), NEW p \in rows
    PROVE  s[RankOf(rows, key, p)] = p /\ \A i \in 1 .. Cardinality(rows) : s[i] = p => i = RankOf(rows, key, p)
  <1>1. PICK N \in Nat : N = Cardinality(rows)
    BY FS_CardinalityType
  <1>2. \A i, j \in 1 .. N : i < j => key[s[i]] < key[s[j]]
    BY <1>1, SortingGrows
  <1>3. \A i \in 1 .. N : s[i] \in rows
    BY <1>1 DEF IsSorting
  <1>4. s \in Injection(1 .. N, rows)
    BY <1>1 DEF IsSorting, Injection, IsInjective
  <1>5. s \in Surjection(1 .. N, rows)
    <2>1. Cardinality(1 .. N) = N
      BY FS_Interval
    <2> QED
      BY <1>1, <1>4, <2>1, FS_Injection
  <1>6. ASSUME NEW i \in 1 .. N
        PROVE  RankOf(rows, key, s[i]) = i
    <2>1. PICK B : B = {q \in rows : key[q] <= key[s[i]]}
      OBVIOUS
    <2>2. PICK f : f = [j \in 1 .. i |-> s[j]]
      OBVIOUS
    <2>3. \A j \in 1 .. N : s[j] \in B <=> j <= i
      <3> TAKE j \in 1 .. N
      <3>1. key[s[i]] \in Int /\ key[s[j]] \in Int /\ s[j] \in rows
        BY <1>3
      <3>2. CASE j <= i
        <4>1. j = i \/ key[s[j]] < key[s[i]]
          BY <1>2, <3>2
        <4> QED
          BY <2>1, <3>1, <3>2, <4>1
      <3>3. CASE i < j
        BY <1>2, <2>1, <3>1, <3>3
      <3> QED
        BY <3>2, <3>3
    <2>4. f \in [1 .. i -> B]
      BY <2>2, <2>3
    <2>5. f \in Injection(1 .. i, B)
      <3>1. \A j, k \in 1 .. i : f[j] = f[k] => j = k
        BY <1>4, <2>2 DEF Injection, IsInjective
      <3> QED
        BY <2>4, <3>1 DEF Injection, IsInjective
    <2>6. f \in Surjection(1 .. i, B)
      <3>1. ASSUME NEW q \in B
            PROVE  \E j \in 1 .. i : f[j] = q
        <4>1. PICK j \in 1 .. N : s[j] = q
          BY <1>5, <2>1 DEF Surjection
        <4> QED
          BY <2>2, <2>3, <4>1
      <3> QED
        BY <2>4, <3>1 DEF Surjection
    <2>7. Cardinality(B) = Cardinality(1 .. i)
      <3>1. IsFiniteSet(B)
        BY <2>1, FS_Subset
      <3> QED
        BY <2>5, <2>6, <3>1, FS_Injection
    <2>8. Cardinality(1 .. i) = i
      BY FS_Interval
    <2> QED
      BY <2>1, <2>7, <2>8 DEF RankOf
  <1>7. PICK i \in 1 .. N : s[i] = p
    BY <1>5 DEF Surjection
  <1> QED
    BY <1>1, <1>6, <1>7

-----------------------------------------------------------------------------
(***************************************************************************)
(* Rows whose keys may be the same can be put in descending order too.     *)
(***************************************************************************)
IsDescending(s, rows, key) ==
    /\ s \in [1 .. Cardinality(rows) -> rows]
    /\ \A i, j \in 1 .. Cardinality(rows) : i # j => s[i] # s[j]
    /\ \A i \in 1 .. Cardinality(rows) - 1 : key[s[i]] >= key[s[i + 1]]

\* The key and then the place in a list that tells rows with the same key apart.
LEMMA PairOrder ==
    ASSUME NEW M \in Nat \ {0}, NEW a \in Int, NEW b \in Int, NEW i \in 0 .. M - 1, NEW j \in 0 .. M - 1,
           i - a * M <= j - b * M
    PROVE  a >= b /\ (i - a * M = j - b * M => i = j)
  <1>1. PICK d \in Int : d = b - a
    OBVIOUS
  <1>2. d * M = b * M - a * M
    BY <1>1
  <1>3. d * M < M
    BY <1>2
  <1>4. ~(d >= 1)
    <2>1. SUFFICES ASSUME d >= 1 PROVE FALSE
      OBVIOUS
    <2>2. PICK e \in Nat : d = e + 1
      <3>1. d - 1 \in Nat /\ d = (d - 1) + 1
        BY <2>1
      <3> QED
        BY <3>1
    <2>3. d * M = e * M + M /\ e * M \in Nat
      BY <2>2
    <2> QED
      BY <1>3, <2>3
  <1>5. a >= b
    BY <1>1, <1>4
  <1>6. ASSUME i - a * M = j - b * M
        PROVE  i = j
    <2>1. d * M > 0 - M
      BY <1>2, <1>6
    <2>2. PICK e \in Nat : d = 0 - e
      <3>1. 0 - d \in Nat /\ d = 0 - (0 - d)
        BY <1>4
      <3> QED
        BY <3>1
    <2>3. d * M = 0 - e * M
      BY <2>2
    <2>4. ~(e >= 1)
      <3>1. SUFFICES ASSUME e >= 1 PROVE FALSE
        OBVIOUS
      <3>2. PICK c \in Nat : e = c + 1
        <4>1. e - 1 \in Nat /\ e = (e - 1) + 1
          BY <3>1
        <4> QED
          BY <4>1
      <3>3. e * M = c * M + M /\ c * M \in Nat
        BY <3>2
      <3> QED
        BY <2>1, <2>3, <3>3
    <2>5. d = 0
      BY <2>2, <2>4
    <2>6. d * M = 0
      BY <2>5
    <2> QED
      BY <1>2, <1>6, <2>6
  <1> QED
    BY <1>5, <1>6

LEMMA DescendingExists ==
    ASSUME NEW rows, IsFiniteSet(rows), NEW key \in [rows -> Int]
    PROVE  \E s : IsDescending(s, rows, key)
  <1>1. PICK N \in Nat : N = Cardinality(rows)
    BY FS_CardinalityType
  <1>2. PICK M \in Nat \ {0} : M = N + 1
    OBVIOUS
  <1>3. PICK b : b \in Bijection(1 .. N, rows)
    BY <1>1, FS_CardinalityType DEF ExistsBijection
  <1>4. b \in [1 .. N -> rows] /\ \A p \in rows : \E i \in 1 .. N : b[i] = p
    BY <1>3 DEF Bijection, Surjection
  <1>5. PICK place : place = [p \in rows |-> CHOOSE i \in 1 .. N : b[i] = p]
    OBVIOUS
  <1>6. \A p \in rows : place[p] \in 0 .. M - 1 /\ b[place[p]] = p
    <2>1. \A p \in rows : place[p] \in 1 .. N /\ b[place[p]] = p
      BY <1>4, <1>5
    <2> QED
      BY <1>2, <2>1
  <1>7. PICK k : k = [p \in rows |-> place[p] - key[p] * M]
    OBVIOUS
  <1>8. k \in [rows -> Int]
    <2>1. \A p \in rows : place[p] \in Int /\ key[p] * M \in Int
      BY <1>6
    <2>2. \A p \in rows : place[p] - key[p] * M \in Int
      BY <2>1
    <2> QED
      BY <1>7, <2>2
  <1>9. ASSUME NEW p \in rows, NEW q \in rows, k[p] <= k[q]
        PROVE  key[p] >= key[q] /\ (k[p] = k[q] => p = q)
    <2>1. PICK x \in Int, y \in Int : x = key[p] /\ y = key[q]
      OBVIOUS
    <2>2. PICK i \in 0 .. M - 1, j \in 0 .. M - 1 : i = place[p] /\ j = place[q]
      BY <1>6
    <2>3. k[p] = i - x * M /\ k[q] = j - y * M
      BY <1>7, <2>1, <2>2
    <2>4. i - x * M <= j - y * M
      BY <1>9, <2>3
    <2>5. x >= y /\ (i - x * M = j - y * M => i = j)
      BY ONLY <2>4, PairOrder
    <2> QED
      BY <1>6, <2>1, <2>2, <2>3, <2>5
  <1>10. \A p, q \in rows : k[p] = k[q] => p = q
    <2> TAKE p, q \in rows
    <2>1. k[p] \in Int /\ k[q] \in Int
      BY <1>8
    <2> QED
      BY <1>9, <2>1
  <1>11. PICK s : IsSorting(s, rows, k)
    BY <1>8, <1>10, SortingExists
  <1>12. ASSUME NEW i \in 1 .. N - 1
         PROVE  key[s[i]] >= key[s[i + 1]]
    <2>1. i \in 1 .. N /\ i + 1 \in 1 .. N
      OBVIOUS
    <2>2. s[i] \in rows /\ s[i + 1] \in rows /\ k[s[i]] <= k[s[i + 1]]
      BY <1>1, <1>11, <2>1 DEF IsSorting
    <2> QED
      BY <1>9, <2>2
  <1> QED
    BY <1>1, <1>11, <1>12 DEF IsSorting, IsDescending

LEMMA DescendingFalls ==
    ASSUME NEW rows, IsFiniteSet(rows), NEW key \in [rows -> Int],
           NEW s, IsDescending(s, rows, key),
           NEW i \in 1 .. Cardinality(rows), NEW j \in 1 .. Cardinality(rows), i <= j
    PROVE  key[s[i]] >= key[s[j]]
  <1>1. PICK N \in Nat : N = Cardinality(rows)
    BY FS_CardinalityType
  <1> DEFINE Bad == {k \in 1 .. N : i <= k /\ ~(key[s[i]] >= key[s[k]])}
  <1>2. SUFFICES ASSUME Bad # {} PROVE FALSE
    BY <1>1
  <1>3. PICK k \in Bad : \A l \in Bad : k <= l
    <2>1. Bad \subseteq 1 .. N
      OBVIOUS
    <2> HIDE DEF Bad
    <2> QED
      BY <1>2, <2>1, LeastNumber
  <1>4. k \in 1 .. N /\ i <= k /\ ~(key[s[i]] >= key[s[k]]) /\ i \in 1 .. N
    BY <1>1, <1>3
  <1>5. s[i] \in rows /\ s[k] \in rows
    BY <1>1, <1>4 DEF IsDescending
  <1>6. k # i
    <2>1. key[s[i]] \in Int
      BY <1>5
    <2> QED
      BY <1>4, <2>1
  <1>7. k - 1 \in 1 .. N - 1 /\ i <= k - 1 /\ k - 1 \in 1 .. N /\ (k - 1) + 1 = k
    BY <1>4, <1>6
  <1>8. key[s[k - 1]] >= key[s[k]] /\ s[k - 1] \in rows
    BY <1>1, <1>7 DEF IsDescending
  <1>9. key[s[i]] >= key[s[k - 1]]
    <2>1. k - 1 \notin Bad
      BY <1>3, <1>7
    <2> QED
      BY <1>7, <2>1
  <1>10. key[s[i]] \in Int /\ key[s[k]] \in Int /\ key[s[k - 1]] \in Int
    BY <1>5, <1>8
  <1> QED
    BY <1>4, <1>8, <1>9, <1>10

\* No row that is left out of the first m has a greater key than one of them.
LEMMA FirstAreGreatest ==
    ASSUME NEW rows, IsFiniteSet(rows), NEW key \in [rows -> Int],
           NEW s, IsDescending(s, rows, key), NEW m \in 0 .. Cardinality(rows),
           NEW i \in 1 .. m, NEW p \in rows, \A j \in 1 .. m : s[j] # p
    PROVE  key[s[i]] >= key[p]
  <1>1. PICK N \in Nat : N = Cardinality(rows)
    BY FS_CardinalityType
  <1>2. s \in Injection(1 .. N, rows)
    BY <1>1 DEF IsDescending, Injection, IsInjective
  <1>3. s \in Surjection(1 .. N, rows)
    <2>1. Cardinality(1 .. N) = N /\ IsFiniteSet(1 .. N)
      BY FS_Interval
    <2> QED
      BY <1>1, <1>2, <2>1, FS_Injection
  <1>4. PICK j \in 1 .. N : s[j] = p
    BY <1>3 DEF Surjection
  <1>5. i \in 1 .. N /\ i <= j
    BY <1>1, <1>4
  <1> QED
    BY <1>1, <1>4, <1>5, DescendingFalls

-----------------------------------------------------------------------------
(***************************************************************************)
(* The products of a report: the items counted, their products and names,  *)
(* and a figure for each.                                                  *)
(***************************************************************************)
Counted(items, orders, range) ==
    {i \in items : \E o \in {r \in Reports!RowsIn(orders, range) : r.status # "cancelled"} : o.id = i.order}

Named(rows) == {<<i.product, i.name>> : i \in rows}
OfProduct(rows, k) == {i \in rows : <<i.product, i.name>> = k}

Figure(rows, k) ==
    [product |-> k[1], name |-> k[2],
     totalSold |-> Reports!Total(OfProduct(rows, k), "quantity"),
     revenue |-> Reports!Total(OfProduct(rows, k), "lineTotal")]

Figures(rows) == {Figure(rows, k) : k \in Named(rows)}

LEMMA FiguresFacts ==
    ASSUME NEW rows, IsFiniteSet(rows), \A i \in rows : i.quantity \in Int
    PROVE  /\ IsFiniteSet(Figures(rows))
           /\ Cardinality(Figures(rows)) <= Cardinality(rows)
           /\ \A f \in Figures(rows) : f.totalSold \in Int
           /\ \A sold : (\A f \in Figures(rows) : sold[f] = f.totalSold)
                          => SumFunctionOnSet(sold, Figures(rows)) = Reports!Total(rows, "quantity")
  <1>1. PICK key : key = [i \in rows |-> <<i.product, i.name>>]
    OBVIOUS
  <1>2. key \in Surjection(rows, Named(rows))
    BY <1>1 DEF Surjection, Named
  <1>3. \A k : Having(rows, key, k) = OfProduct(rows, k)
    BY <1>1 DEF Having, OfProduct
  <1>4. IsFiniteSet(Named(rows)) /\ Cardinality(Named(rows)) <= Cardinality(rows)
    BY <1>2, FS_Surjection
  <1>5. PICK fig : fig = [k \in Named(rows) |-> Figure(rows, k)]
    OBVIOUS
  <1>6. fig \in Bijection(Named(rows), Figures(rows))
    <2>1. fig \in Surjection(Named(rows), Figures(rows))
      BY <1>5 DEF Surjection, Figures
    <2>2. \A j, k \in Named(rows) : fig[j] = fig[k] => j = k
      <3>1. \A k \in Named(rows) : k = <<k[1], k[2]>>
        BY DEF Named
      <3>2. \A k \in Named(rows) : fig[k].product = k[1] /\ fig[k].name = k[2]
        BY <1>5 DEF Figure
      <3> QED
        BY <3>1, <3>2
    <2>3. fig \in Injection(Named(rows), Figures(rows))
      BY <2>1, <2>2 DEF Surjection, Injection, IsInjective
    <2> QED
      BY <2>1, <2>3 DEF Bijection
  <1>7. IsFiniteSet(Figures(rows)) /\ Cardinality(Figures(rows)) = Cardinality(Named(rows))
    BY <1>4, <1>6, FS_Bijection DEF ExistsBijection
  <1>8. ASSUME NEW k \in Named(rows)
        PROVE  fig[k].totalSold = Reports!Total(OfProduct(rows, k), "quantity") /\ fig[k].totalSold \in Int
    <2>1. fig[k].totalSold = Reports!Total(OfProduct(rows, k), "quantity")
      BY <1>5 DEF Figure
    <2>2. IsFiniteSet(OfProduct(rows, k)) /\ \A i \in OfProduct(rows, k) : i.quantity \in Int
      <3>1. OfProduct(rows, k) \subseteq rows
        BY DEF OfProduct
      <3> QED
        BY <3>1, FS_Subset
    <2>3. Reports!Total(OfProduct(rows, k), "quantity") \in Int
      BY <2>2, TotalInt
    <2> QED
      BY <2>1, <2>3
  <1>9. \A f \in Figures(rows) : f.totalSold \in Int
    BY <1>6, <1>8 DEF Bijection, Surjection
  <1>10. ASSUME NEW sold, \A f \in Figures(rows) : sold[f] = f.totalSold
         PROVE  SumFunctionOnSet(sold, Figures(rows)) = Reports!Total(rows, "quantity")
    <2>1. PICK w : w = [i \in rows |-> i.quantity]
      OBVIOUS
    <2>2. \A i \in rows : w[i] = i.quantity /\ w[i] \in Int
      BY <2>1
    <2>3. PICK G : G = [k \in Named(rows) |-> fig[k].totalSold]
      OBVIOUS
    <2>4. \A k \in Named(rows) : G[k] \in Int /\ sold[fig[k]] = G[k]
      <3>1. \A k \in Named(rows) : fig[k] \in Figures(rows)
        BY <1>5 DEF Figures
      <3> QED
        BY <1>8, <1>10, <2>3, <3>1
    <2>5. \A k \in Named(rows) : G[k] = SumFunctionOnSet(w, Having(rows, key, k))
      <3> TAKE k \in Named(rows)
      <3>1. \A i \in OfProduct(rows, k) : w[i] = i.quantity
        BY <2>2 DEF OfProduct
      <3>2. Reports!Total(OfProduct(rows, k), "quantity") = SumFunctionOnSet(w, OfProduct(rows, k))
        BY <3>1, TotalSum
      <3> QED
        BY <1>3, <1>8, <2>3, <3>2
    <2>6. SumFunctionOnSet(G, Named(rows)) = SumFunctionOnSet(w, rows)
      BY <1>2, <2>2, <2>5, SumOverKeys
    <2>7. SumFunctionOnSet(sold, Figures(rows)) = SumFunctionOnSet(G, Named(rows))
      BY <1>4, <1>6, <2>4, SumRenamed
    <2>8. Reports!Total(rows, "quantity") = SumFunctionOnSet(w, rows)
      BY <2>2, TotalSum
    <2> QED
      BY <2>6, <2>7, <2>8
  <1> QED
    BY <1>4, <1>7, <1>9, <1>10

Sorted(figures) ==
    CHOOSE s \in Reports!SetToSeqs(figures) : \A i \in 1 .. Len(s) - 1 : s[i].totalSold >= s[i + 1].totalSold

FirstOf(s, limit) == SubSeq(s, 1, IF limit < Len(s) THEN limit ELSE Len(s))

LEMMA TopProductsSorted ==
    ASSUME NEW items, NEW orders, NEW range, NEW limit
    PROVE  Reports!TopProducts(items, orders, range, limit)
              = FirstOf(Sorted(Figures(Counted(items, orders, range))), limit)
  BY Zenon DEF Reports!TopProducts, FirstOf, Sorted, Figures, Figure, Named, OfProduct, Counted

\* The top products are the first of the figures in descending order.
LEMMA TopProductsShape ==
    ASSUME NEW items, IsFiniteSet(items), \A i \in items : i.quantity \in Int,
           NEW orders, NEW range, NEW rows, rows = Counted(items, orders, range),
           NEW sold, sold = [f \in Figures(rows) |-> f.totalSold]
    PROVE  \E s : /\ IsDescending(s, Figures(rows), sold)
                  /\ \A limit \in Nat : Reports!TopProducts(items, orders, range, limit)
                        = SubSeq(s, 1, IF limit < Cardinality(Figures(rows)) THEN limit ELSE Cardinality(Figures(rows)))
  <1>1. IsFiniteSet(rows) /\ \A i \in rows : i.quantity \in Int
    <2>1. rows \subseteq items
      BY DEF Counted
    <2> QED
      BY <2>1, FS_Subset
  <1>2. PICK figures : figures = Figures(rows)
    OBVIOUS
  <1>3. IsFiniteSet(figures) /\ sold \in [figures -> Int] /\ \A f \in figures : sold[f] = f.totalSold
    BY <1>1, <1>2, FiguresFacts
  <1>4. PICK N \in Nat : N = Cardinality(figures)
    BY <1>3, FS_CardinalityType
  <1> DEFINE Ordered(s) == \A i \in 1 .. Len(s) - 1 : s[i].totalSold >= s[i + 1].totalSold
  <1>5. Reports!SetToSeqs(figures) = {f \in [1 .. N -> figures] : \A i, j \in 1 .. N : i # j => f[i] # f[j]}
    BY <1>4, ReportCounts DEF Reports!SetToSeqs
  <1>6. \A s : s \in Reports!SetToSeqs(figures) /\ Ordered(s) <=> IsDescending(s, figures, sold)
    <2>1. ASSUME NEW s \in [1 .. N -> figures]
          PROVE  Ordered(s) <=> \A i \in 1 .. N - 1 : sold[s[i]] >= sold[s[i + 1]]
      <3>1. Len(s) = N
        OBVIOUS
      <3>2. \A i \in 1 .. N - 1 : s[i] \in figures /\ s[i + 1] \in figures
        OBVIOUS
      <3> QED
        BY <1>3, <3>1, <3>2
    <2> HIDE DEF Ordered
    <2> QED
      BY <1>4, <1>5, <2>1 DEF IsDescending
  <1>7. PICK s : s = Sorted(figures)
    OBVIOUS
  <1>8. ASSUME NEW limit
        PROVE  Reports!TopProducts(items, orders, range, limit)
                  = SubSeq(s, 1, IF limit < Len(s) THEN limit ELSE Len(s))
    BY <1>2, <1>7, TopProductsSorted DEF FirstOf
  <1>9. s = CHOOSE f \in Reports!SetToSeqs(figures) : Ordered(f)
    BY <1>7, Zenon DEF Sorted
  <1> HIDE DEF Ordered
  <1>10. IsDescending(s, figures, sold)
    <2>1. \E f \in Reports!SetToSeqs(figures) : Ordered(f)
      BY <1>3, <1>6, DescendingExists
    <2>2. s \in Reports!SetToSeqs(figures) /\ Ordered(s)
      BY <1>9, <2>1
    <2> QED
      BY <1>6, <2>2
  <1>11. Len(s) = N
    <2>1. s \in [1 .. N -> figures]
      BY <1>4, <1>10 DEF IsDescending
    <2> QED
      BY <2>1
  <1> QED
    BY <1>2, <1>4, <1>8, <1>10, <1>11

\* Nothing that is left out sold more than what is shown, and what is sold adds up.
LEMMA TopProductsFacts ==
    ASSUME NEW items, IsFiniteSet(items), \A i \in items : i.quantity \in Int,
           NEW orders, NEW range, NEW limit \in Nat,
           NEW all, all = Reports!TopProducts(items, orders, range, Cardinality(items)),
           NEW top, top = Reports!TopProducts(items, orders, range, limit)
    PROVE  /\ \A i \in DOMAIN top, f \in Reports!Range(all) \ Reports!Range(top) : f.totalSold <= top[i].totalSold
           /\ Reports!Sum([i \in DOMAIN all |-> all[i].totalSold])
                = Reports!Total(Counted(items, orders, range), "quantity")
  <1>1. PICK rows : rows = Counted(items, orders, range)
    OBVIOUS
  <1>2. rows \subseteq items /\ IsFiniteSet(rows) /\ Cardinality(rows) <= Cardinality(items)
    <2>1. rows \subseteq items
      BY <1>1 DEF Counted
    <2> QED
      BY <2>1, FS_Subset
  <1>3. PICK figures : figures = Figures(rows)
    OBVIOUS
  <1>4. PICK sold : sold = [f \in figures |-> f.totalSold]
    OBVIOUS
  <1>5. /\ IsFiniteSet(figures) /\ Cardinality(figures) <= Cardinality(rows)
        /\ \A f \in figures : f.totalSold \in Int
        /\ SumFunctionOnSet(sold, figures) = Reports!Total(rows, "quantity")
    <2>1. \A i \in rows : i.quantity \in Int
      BY <1>2
    <2> QED
      BY <1>2, <1>3, <1>4, <2>1, FiguresFacts
  <1>6. sold \in [figures -> Int] /\ \A f \in figures : sold[f] = f.totalSold
    BY <1>4, <1>5
  <1>7. PICK N \in Nat : N = Cardinality(figures) /\ N <= Cardinality(items)
    <2>1. Cardinality(figures) \in Nat /\ Cardinality(rows) \in Nat /\ Cardinality(items) \in Nat
      BY <1>2, <1>5, FS_CardinalityType
    <2> QED
      BY <1>2, <1>5, <2>1
  <1>8. PICK s : /\ IsDescending(s, figures, sold)
                 /\ \A n \in Nat : Reports!TopProducts(items, orders, range, n) = SubSeq(s, 1, IF n < N THEN n ELSE N)
    <2>1. sold = [f \in Figures(rows) |-> f.totalSold]
      BY <1>3, <1>4
    <2>2. PICK s : /\ IsDescending(s, Figures(rows), sold)
                   /\ \A n \in Nat : Reports!TopProducts(items, orders, range, n)
                         = SubSeq(s, 1, IF n < Cardinality(Figures(rows)) THEN n ELSE Cardinality(Figures(rows)))
      BY <1>1, <2>1, TopProductsShape
    <2> QED
      BY <1>3, <1>7, <2>2
  <1>9. s \in [1 .. N -> figures] /\ \A i, j \in 1 .. N : i # j => s[i] # s[j]
    BY <1>7, <1>8 DEF IsDescending
  <1>10. PICK m \in 0 .. N : m = IF limit < N THEN limit ELSE N
    OBVIOUS
  <1>11. DOMAIN top = 1 .. m /\ \A i \in 1 .. m : top[i] = s[i]
    <2>1. top = SubSeq(s, 1, m)
      BY <1>8, <1>10
    <2> QED
      BY <1>9, <1>10, <2>1
  <1>12. DOMAIN all = 1 .. N /\ \A i \in 1 .. N : all[i] = s[i]
    <2>1. PICK c \in Nat : c = Cardinality(items)
      BY FS_CardinalityType
    <2>2. all = SubSeq(s, 1, IF c < N THEN c ELSE N)
      BY <1>8, <2>1
    <2>3. all = SubSeq(s, 1, N)
      BY <1>7, <2>1, <2>2
    <2> QED
      BY <1>9, <2>3
  <1>13. ASSUME NEW i \in DOMAIN top, NEW f \in Reports!Range(all) \ Reports!Range(top)
         PROVE  f.totalSold <= top[i].totalSold
    <2>1. f \in figures
      BY <1>9, <1>12 DEF Reports!Range
    <2>2. \A j \in 1 .. m : s[j] # f
      BY <1>11 DEF Reports!Range
    <2>3. i \in 1 .. m /\ top[i] = s[i] /\ s[i] \in figures
      BY <1>9, <1>10, <1>11
    <2>4. sold[s[i]] >= sold[f]
      BY <1>5, <1>6, <1>7, <1>8, <1>10, <2>1, <2>2, <2>3, FirstAreGreatest
    <2> QED
      BY <1>5, <1>6, <2>1, <2>3, <2>4
  <1>14. Reports!Sum([i \in DOMAIN all |-> all[i].totalSold]) = Reports!Total(rows, "quantity")
    <2>1. PICK w : w = [i \in DOMAIN all |-> all[i].totalSold]
      OBVIOUS
    <2>2. DOMAIN w = 1 .. N
      BY <1>12, <2>1
    <2>3. \A i \in 1 .. N : w[i] \in Int /\ sold[s[i]] = w[i]
      BY <1>5, <1>6, <1>9, <1>12, <2>1
    <2>4. IsFiniteSet(1 .. N) /\ Cardinality(1 .. N) = N
      BY FS_Interval
    <2>5. s \in Injection(1 .. N, figures)
      BY <1>9 DEF Injection, IsInjective
    <2>6. s \in Surjection(1 .. N, figures)
      BY <1>5, <1>7, <2>4, <2>5, FS_Injection
    <2>7. s \in Bijection(1 .. N, figures)
      BY <2>5, <2>6 DEF Bijection
    <2>8. SumFunctionOnSet(sold, figures) = SumFunctionOnSet(w, 1 .. N)
      BY <2>3, <2>4, <2>7, SumRenamed
    <2>9. Reports!Sum(w) = SumFunctionOnSet(w, 1 .. N)
      BY <2>2, ReportSum
    <2> QED
      BY <1>5, <2>1, <2>8, <2>9
  <1> QED
    BY <1>1, <1>13, <1>14

\* Everything the dashboard shows agrees, for any rows, any range of dates and any limit: the
\* revenue shown for the status success is the total revenue, the orders and tickets shown by
\* status are all there are, no product that is left out of the top sold more than one that is
\* in it, and what all products sold is what the orders that were not cancelled ordered
\* (dashboard.service.ts:41, getOverview, and :228, getTopProducts).
THEOREM OverviewAlwaysAgrees ==
    ASSUME NEW tables, NEW range, NEW limit \in Nat,
           IsFiniteSet(tables.orders), IsFiniteSet(tables.payments), IsFiniteSet(tables.tickets),
           IsFiniteSet(tables.items), \A i \in tables.items : i.quantity \in Int
    PROVE  Reports!OverviewAgrees(tables, range, limit)
  <1>1. PICK o : o = Reports!Overview(tables, range, limit)
    OBVIOUS
  <1>2. PICK all : all = Reports!TopProducts(tables.items, tables.orders, range, Cardinality(tables.items))
    OBVIOUS
  <1>3. PICK top : top = Reports!TopProducts(tables.items, tables.orders, range, limit)
    OBVIOUS
  <1>4. /\ \A i \in DOMAIN top, f \in Reports!Range(all) \ Reports!Range(top) : f.totalSold <= top[i].totalSold
        /\ Reports!Sum([i \in DOMAIN all |-> all[i].totalSold])
             = Reports!Total(Counted(tables.items, tables.orders, range), "quantity")
    BY <1>2, <1>3, TopProductsFacts
  <1>5. Counted(tables.items, tables.orders, range)
           = {i \in tables.items : \E r \in Reports!RowsIn(tables.orders, range) : r.id = i.order /\ r.status # "cancelled"}
    BY DEF Counted
  <1>6. o.topProducts = top
    BY <1>1, <1>3 DEF Reports!Overview
  <1>7. /\ Reports!CountOf(o.revenueByStatus, "success") = o.totalRevenue
        /\ Reports!Sum(o.ordersByStatus) = o.orderCount
        /\ Reports!Sum(o.warrantyByStatus) = o.warrantyCount
    BY <1>1, OverviewAddsUp
  <1> QED
    BY <1>1, <1>2, <1>4, <1>5, <1>6, <1>7, ReportCounts DEF Reports!OverviewAgrees

-----------------------------------------------------------------------------
(***************************************************************************)
(* Coupons.                                                                *)
(***************************************************************************)
LEMMA CouponCounts == \A S : Coupons!Cardinality(S) = Cardinality(S)
  BY DEF Coupons!Cardinality, Cardinality

LEMMA DiscountType ==
    ASSUME NEW c, c.type \in Coupons!DiscountTypes, c.value \in Int, c.cap \in Int, NEW subtotal \in Nat
    PROVE  Coupons!CalcDiscountAmount(c, subtotal, <<>>) \in Int
  <1>1. Coupons!FixedDiscount(c, subtotal) \in Int
    BY DEF Coupons!FixedDiscount
  <1>2. Coupons!PercentageDiscount(c, subtotal) \in Int
    <2>1. subtotal * c.value \in Int
      OBVIOUS
    <2>2. (subtotal * c.value) \div 100 \in Int
      BY <2>1
    <2> QED
      BY <2>2 DEF Coupons!PercentageDiscount, Coupons!Smaller
  <1>3. Coupons!BuyGetDiscount(c, subtotal, <<>>) = 0
    BY DEF Coupons!BuyGetDiscount
  <1> QED
    BY <1>1, <1>2, <1>3 DEF Coupons!CalcDiscountAmount, Coupons!DiscountTypes

\* For any coupons a customer may use, no coupon that is not suggested would leave less to pay
\* than one that is (coupon.service.ts:512, getBestForCart).
THEOREM BestAlwaysSuggested ==
    ASSUME NEW usable, IsFiniteSet(usable),
           \A c \in usable : c.type \in Coupons!DiscountTypes /\ c.value \in Int /\ c.cap \in Int,
           NEW subtotal \in Nat
    PROVE  LET suggested == Coupons!Suggestions(usable, subtotal) IN
           \A i \in DOMAIN suggested, c \in usable \ Coupons!Range(suggested) :
              Coupons!TotalWith(suggested[i], subtotal) <= Coupons!TotalWith(c, subtotal)
  <1>1. PICK N \in Nat : N = Cardinality(usable)
    BY FS_CardinalityType
  <1>2. PICK d : d = [c \in usable |-> Coupons!CalcDiscountAmount(c, subtotal, <<>>)]
    OBVIOUS
  <1>3. d \in [usable -> Int]
    BY <1>2, DiscountType
  <1> DEFINE Ordered(s) == \A i \in 1 .. Len(s) - 1 :
                              Coupons!CalcDiscountAmount(s[i], subtotal, <<>>)
                                >= Coupons!CalcDiscountAmount(s[i + 1], subtotal, <<>>)
  <1>4. Coupons!SetToSeqs(usable) = {f \in [1 .. N -> usable] : \A i, j \in 1 .. N : i # j => f[i] # f[j]}
    BY <1>1, CouponCounts DEF Coupons!SetToSeqs
  <1>5. \A s : s \in Coupons!SetToSeqs(usable) /\ Ordered(s) <=> IsDescending(s, usable, d)
    <2>1. ASSUME NEW s \in [1 .. N -> usable]
          PROVE  Ordered(s) <=> \A i \in 1 .. N - 1 : d[s[i]] >= d[s[i + 1]]
      <3>1. Len(s) = N
        OBVIOUS
      <3>2. \A i \in 1 .. N - 1 : s[i] \in usable /\ s[i + 1] \in usable
        OBVIOUS
      <3> QED
        BY <1>2, <3>1, <3>2
    <2> HIDE DEF Ordered
    <2> QED
      BY <1>1, <1>4, <2>1 DEF IsDescending
  <1>6. PICK s : s = CHOOSE f \in Coupons!SetToSeqs(usable) : Ordered(f)
    OBVIOUS
  <1>7. Coupons!Suggestions(usable, subtotal) = SubSeq(s, 1, Coupons!Smaller(5, Len(s)))
    BY <1>6, Zenon DEF Coupons!Suggestions
  <1> HIDE DEF Ordered
  <1>8. IsDescending(s, usable, d)
    <2>1. \E f \in Coupons!SetToSeqs(usable) : Ordered(f)
      BY <1>3, <1>5, DescendingExists
    <2>2. s \in Coupons!SetToSeqs(usable) /\ Ordered(s)
      BY <1>6, <2>1
    <2> QED
      BY <1>5, <2>2
  <1>9. s \in [1 .. N -> usable] /\ Len(s) = N
    BY <1>1, <1>8 DEF IsDescending
  <1>10. PICK m \in 0 .. N : m = Coupons!Smaller(5, Len(s))
    BY <1>9 DEF Coupons!Smaller
  <1>11. PICK suggested : suggested = SubSeq(s, 1, m)
    OBVIOUS
  <1>12. DOMAIN suggested = 1 .. m /\ \A j \in 1 .. m : suggested[j] = s[j]
    BY <1>9, <1>10, <1>11
  <1>13. ASSUME NEW i \in DOMAIN suggested, NEW c \in usable \ Coupons!Range(suggested)
         PROVE  Coupons!TotalWith(suggested[i], subtotal) <= Coupons!TotalWith(c, subtotal)
    <2>1. \A j \in 1 .. m : s[j] # c
      BY <1>12 DEF Coupons!Range
    <2>2. i \in 1 .. m /\ suggested[i] = s[i] /\ s[i] \in usable
      BY <1>9, <1>10, <1>12
    <2>3. d[s[i]] >= d[c]
      BY <1>1, <1>3, <1>8, <1>10, <2>1, <2>2, FirstAreGreatest
    <2>4. d[s[i]] \in Int /\ d[c] \in Int
      BY <1>3, <2>2
    <2>5. /\ Coupons!TotalWith(s[i], subtotal) = IF subtotal - d[s[i]] > 0 THEN subtotal - d[s[i]] ELSE 0
          /\ Coupons!TotalWith(c, subtotal) = IF subtotal - d[c] > 0 THEN subtotal - d[c] ELSE 0
      BY <1>2, <2>2 DEF Coupons!TotalWith
    <2> QED
      BY <2>2, <2>3, <2>4, <2>5
  <1> QED
    BY <1>7, <1>10, <1>11, <1>13

-----------------------------------------------------------------------------
(***************************************************************************)
(* Pages.                                                                  *)
(***************************************************************************)
LEMMA PageOfPlace ==
    ASSUME NEW L \in Nat \ {0}, NEW N \in Nat, NEW i \in 1 .. N, NEW n \in Nat \ {0}
    PROVE  /\ (i - 1) \div L + 1 \in 1 .. ((N + L - 1) \div L)
           /\ i \in (n - 1) * L + 1 .. (n - 1) * L + L <=> n = (i - 1) \div L + 1
  <1>1. \A a \in Nat : /\ a \div L \in Nat
                       /\ (a \div L) * L <= a /\ a < (a \div L) * L + L
    OBVIOUS
  <1>2. \A x, y \in Nat : x <= y => x * L <= y * L
    OBVIOUS
  <1>3. \A x \in Nat : x * L \in Nat /\ (x + 1) * L = x * L + L
    OBVIOUS
  <1>4. PICK q \in Nat : q = (i - 1) \div L /\ q * L <= i - 1 /\ i - 1 < q * L + L
    BY <1>1
  <1>5. PICK t \in Nat : t = (N + L - 1) \div L /\ t * L <= N + L - 1 /\ N + L - 1 < t * L + L
    BY <1>1
  <1>6. q + 1 <= t
    <2>1. SUFFICES ASSUME t <= q PROVE FALSE
      OBVIOUS
    <2>2. t * L <= q * L
      BY <1>2, <2>1
    <2> QED
      BY <1>3, <1>4, <1>5, <2>2
  <1>7. ASSUME i \in (n - 1) * L + 1 .. (n - 1) * L + L
        PROVE  n = q + 1
    <2>1. PICK m \in Nat : m = n - 1
      OBVIOUS
    <2>2. m * L <= i - 1 /\ i - 1 < m * L + L
      BY <1>3, <1>7, <2>1
    <2>3. ~(m + 1 <= q)
      BY <1>2, <1>3, <1>4, <2>2
    <2>4. ~(q + 1 <= m)
      BY <1>2, <1>3, <1>4, <2>2
    <2> QED
      BY <2>1, <2>3, <2>4
  <1>8. ASSUME n = q + 1
        PROVE  i \in (n - 1) * L + 1 .. (n - 1) * L + L
    <2>1. (n - 1) * L = q * L
      BY <1>8
    <2> QED
      BY <1>3, <1>4, <2>1
  <1> QED
    BY <1>4, <1>5, <1>6, <1>7, <1>8

Columns == {"search", "category", "brand", "status", "minPrice", "maxPrice", "sortBy", "sortOrder", "page", "limit"}

Rows(query, products) == Listing!Found(query, products)

\* The keys in the direction of the query.
Keys(query, products) ==
    [p \in Rows(query, products) |->
        IF query.sortOrder = "ASC" THEN p[Listing!SortColumn(query)] ELSE 0 - p[Listing!SortColumn(query)]]

LEMMA ListingCounts == \A S : Listing!Cardinality(S) = Cardinality(S)
  BY DEF Listing!Cardinality, Cardinality

LEMMA OrdersAreSortings ==
    ASSUME NEW query, NEW products, IsFiniteSet(products),
           \A p \in Rows(query, products) : p[Listing!SortColumn(query)] \in Int
    PROVE  /\ IsFiniteSet(Rows(query, products))
           /\ Keys(query, products) \in [Rows(query, products) -> Int]
           /\ \A s : s \in Listing!Orders(query, products) <=> IsSorting(s, Rows(query, products), Keys(query, products))
  <1>1. PICK rows : rows = Rows(query, products)
    OBVIOUS
  <1>2. PICK key : key = Keys(query, products)
    OBVIOUS
  <1>3. PICK c : c = Listing!SortColumn(query)
    OBVIOUS
  <1>4. IsFiniteSet(rows)
    <2>1. rows \subseteq products
      BY <1>1 DEF Rows, Listing!Found
    <2> QED
      BY <2>1, FS_Subset
  <1>5. \A p \in rows : p[c] \in Int
    BY <1>1, <1>3
  <1>6. key = [p \in rows |-> IF query.sortOrder = "ASC" THEN p[c] ELSE 0 - p[c]]
    BY <1>1, <1>2, <1>3 DEF Keys
  <1>7. key \in [rows -> Int]
    BY <1>5, <1>6
  <1>8. PICK N \in Nat : N = Cardinality(rows)
    BY <1>4, FS_CardinalityType
  <1>9. Listing!SetToSeqs(rows) = {f \in [1 .. N -> rows] : \A i, j \in 1 .. N : i # j => f[i] # f[j]}
    BY <1>8, ListingCounts DEF Listing!SetToSeqs
  <1>10. \A s \in Listing!SetToSeqs(rows) : Len(s) = N
    BY <1>9
  <1>11. Listing!Orders(query, products) =
            {s \in Listing!SetToSeqs(rows) : \A i \in 1 .. Len(s) - 1 :
                IF query.sortOrder = "ASC" THEN s[i][c] <= s[i + 1][c] ELSE s[i][c] >= s[i + 1][c]}
    BY <1>1, <1>3 DEF Listing!Orders, Rows
  <1>12. ASSUME NEW s \in [1 .. N -> rows]
         PROVE  (\A i \in 1 .. N - 1 : IF query.sortOrder = "ASC" THEN s[i][c] <= s[i + 1][c] ELSE s[i][c] >= s[i + 1][c])
                    <=> (\A i \in 1 .. N - 1 : key[s[i]] <= key[s[i + 1]])
    <2>1. \A i \in 1 .. N - 1 : s[i] \in rows /\ s[i + 1] \in rows
      OBVIOUS
    <2>2. \A p, q \in rows : (IF query.sortOrder = "ASC" THEN p[c] <= q[c] ELSE p[c] >= q[c]) <=> key[p] <= key[q]
      BY <1>5, <1>6
    <2> QED
      BY <2>1, <2>2
  <1>13. \A s : s \in Listing!Orders(query, products) <=> IsSorting(s, rows, key)
    BY <1>8, <1>9, <1>10, <1>11, <1>12 DEF IsSorting
  <1> QED
    BY <1>1, <1>2, <1>4, <1>7, <1>13

LEMMA NextPage ==
    ASSUME None \notin Nat, NEW V, NEW query \in [Columns -> V], NEW products, NEW n \in Nat
    PROVE  LET q == [query EXCEPT !.page = n] IN
           /\ Listing!Found(q, products) = Listing!Found(query, products)
           /\ Listing!Orders(q, products) = Listing!Orders(query, products)
           /\ Listing!Limit(q) = Listing!Limit(query)
           /\ Listing!Page(q) = n
  <1>1. PICK q : q = [query EXCEPT !.page = n]
    OBVIOUS
  <1>2. /\ q.search = query.search /\ q.category = query.category /\ q.brand = query.brand
        /\ q.status = query.status /\ q.minPrice = query.minPrice /\ q.maxPrice = query.maxPrice
        /\ q.sortBy = query.sortBy /\ q.sortOrder = query.sortOrder /\ q.limit = query.limit /\ q.page = n
    BY <1>1 DEF Columns
  <1>3. Listing!Found(q, products) = Listing!Found(query, products)
    BY <1>2 DEF Listing!Found
  <1>4. Listing!SortColumn(q) = Listing!SortColumn(query)
    BY <1>2 DEF Listing!SortColumn
  <1>5. Listing!Orders(q, products) = Listing!Orders(query, products)
    BY <1>2, <1>3, <1>4 DEF Listing!Orders
  <1> QED
    BY <1>1, <1>2, <1>3, <1>5 DEF Listing!Limit, Listing!Page

\* A page of n rows of a sorting s of the rows.
LEMMA AnswerShape ==
    ASSUME NEW query, NEW products, NEW a \in Listing!Answers(query, products)
    PROVE  LET L == Listing!Limit(query)
               N == Cardinality(Listing!Found(query, products))
               first == (Listing!Page(query) - 1) * L + 1
           IN
           /\ a.totalPages = (N + L - 1) \div L
           /\ \E s \in Listing!Orders(query, products) :
                a.data = SubSeq(s, first, IF first + L - 1 < N THEN first + L - 1 ELSE N)
  <1>1. PICK L, N, first : /\ L = Listing!Limit(query)
                           /\ N = Cardinality(Listing!Found(query, products))
                           /\ first = (Listing!Page(query) - 1) * L + 1
    OBVIOUS
  <1>2. PICK last, total : last = (IF first + L - 1 < N THEN first + L - 1 ELSE N) /\ total = (N + L - 1) \div L
    OBVIOUS
  <1>3. Listing!Answers(query, products) =
           {[data |-> SubSeq(s, first, last), total |-> N, totalPages |-> total] : s \in Listing!Orders(query, products)}
    BY <1>1, <1>2, ListingCounts DEF Listing!Answers
  <1>4. PICK s \in Listing!Orders(query, products) : a = [data |-> SubSeq(s, first, last), total |-> N, totalPages |-> total]
    BY <1>3
  <1>5. a.totalPages = total /\ a.data = SubSeq(s, first, last)
    BY <1>4
  <1> QED
    BY <1>1, <1>2, <1>5

LEMMA AnswerExists ==
    ASSUME NEW query, NEW products, Listing!Orders(query, products) # {}
    PROVE  Listing!Answers(query, products) # {}
  BY DEF Listing!Answers

\* A client that asks for one page of a search after the other sees every product it searches
\* for exactly once, whatever MySQL answers each time, for any catalogue, any filters, any page
\* size and both directions, if no two of the products have the same sort key
\* (product.repository.ts:30, findWithQuery).
THEOREM PagesAlwaysCover ==
    ASSUME None \notin Nat,
           NEW V, NEW query \in [Columns -> V], query.page = None,
           query.limit = None \/ query.limit \in Nat \ {0},
           NEW products, IsFiniteSet(products),
           \A p \in products : p[Listing!SortColumn(query)] \in Int
    PROVE  Listing!PagesCover(query, products)
  <1>1. PICK rows : rows = Listing!Found(query, products)
    OBVIOUS
  <1>2. PICK L \in Nat \ {0} : L = Listing!Limit(query)
    BY DEF Listing!Limit
  <1>3. rows \subseteq products /\ IsFiniteSet(rows)
    <2>1. rows \subseteq products
      BY <1>1 DEF Listing!Found
    <2> QED
      BY <2>1, FS_Subset
  <1>4. PICK N \in Nat : N = Cardinality(rows)
    BY <1>3, FS_CardinalityType
  <1>5. PICK key : key = Keys(query, products)
    OBVIOUS
  <1>6. /\ key \in [rows -> Int]
        /\ \A s : s \in Listing!Orders(query, products) <=> IsSorting(s, rows, key)
    <2>1. rows = Rows(query, products)
      BY <1>1 DEF Rows
    <2> QED
      BY <1>3, <1>5, <2>1, OrdersAreSortings
  <1>7. PICK c : c = Listing!SortColumn(query)
    OBVIOUS
  <1>8. PICK pages : pages = 1 .. (CHOOSE a \in Listing!Answers(query, products) : TRUE).totalPages
    OBVIOUS
  <1>9. SUFFICES ASSUME \A p, q \in rows : p[c] = q[c] => p = q
                  PROVE  \A answer : (\A n \in pages : answer[n] \in Listing!Answers([query EXCEPT !.page = n], products)) =>
                            \A p \in rows : Cardinality({n \in pages : p \in Listing!Range(answer[n].data)}) = 1
    BY <1>1, <1>7, <1>8, ListingCounts, Zenon DEF Listing!PagesCover
  <1>10. SUFFICES ASSUME NEW answer,
                        \A n \in pages : answer[n] \in Listing!Answers([query EXCEPT !.page = n], products),
                        NEW p \in rows
                 PROVE  Cardinality({n \in pages : p \in Listing!Range(answer[n].data)}) = 1
    OBVIOUS
  <1>11. \A q, r \in rows : key[q] = key[r] => q = r
    <2>1. \A q \in rows : /\ q[c] \in Int
                          /\ key[q] = IF query.sortOrder = "ASC" THEN q[c] ELSE 0 - q[c]
      BY <1>1, <1>3, <1>5, <1>7 DEF Keys, Rows
    <2> QED
      BY <1>9, <2>1
  <1>12. pages = 1 .. ((N + L - 1) \div L)
    <2>1. Listing!Answers(query, products) # {}
      BY <1>3, <1>6, <1>11, SortingExists, AnswerExists
    <2>2. PICK a \in Listing!Answers(query, products) : a = CHOOSE x \in Listing!Answers(query, products) : TRUE
      BY <2>1
    <2>3. a.totalPages = (N + L - 1) \div L
      BY <1>1, <1>2, <1>4, AnswerShape
    <2> QED
      BY <1>8, <2>2, <2>3
  <1>13. PICK i \in 1 .. N : i = RankOf(rows, key, p)
    BY <1>3, <1>4, <1>6, RanksGrow
  <1>14. PICK here \in pages : here = (i - 1) \div L + 1
    BY <1>12, PageOfPlace
  <1>15. ASSUME NEW n \in pages
         PROVE  p \in Listing!Range(answer[n].data) <=> n = here
    <2>1. n \in Nat \ {0} /\ n <= (N + L - 1) \div L
      BY <1>12
    <2>2. PICK q : q = [query EXCEPT !.page = n]
      OBVIOUS
    <2>3. /\ Listing!Found(q, products) = rows
          /\ Listing!Orders(q, products) = Listing!Orders(query, products)
          /\ Listing!Limit(q) = L /\ Listing!Page(q) = n
      BY <1>1, <1>2, <2>1, <2>2, NextPage
    <2>4. PICK m \in Nat : m = (n - 1) * L
      BY <2>1
    <2>5. PICK a \in Nat \ {0}, b \in 0 .. N : a = m + 1 /\ b = IF a + L - 1 < N THEN a + L - 1 ELSE N
      OBVIOUS
    <2>6. PICK s \in Listing!Orders(q, products) : answer[n].data = SubSeq(s, a, b)
      <3>1. answer[n] \in Listing!Answers(q, products)
        BY <1>10, <2>2
      <3>2. PICK d : d = answer[n]
        OBVIOUS
      <3>3. PICK s \in Listing!Orders(q, products) :
               d.data = SubSeq(s, (Listing!Page(q) - 1) * Listing!Limit(q) + 1,
                               IF (Listing!Page(q) - 1) * Listing!Limit(q) + 1 + Listing!Limit(q) - 1
                                    < Cardinality(Listing!Found(q, products))
                               THEN (Listing!Page(q) - 1) * Listing!Limit(q) + 1 + Listing!Limit(q) - 1
                               ELSE Cardinality(Listing!Found(q, products)))
        BY <3>1, <3>2, AnswerShape
      <3>4. (Listing!Page(q) - 1) * Listing!Limit(q) = m
        BY <2>3, <2>4
      <3>5. Cardinality(Listing!Found(q, products)) = N
        BY <1>4, <2>3
      <3>6. d.data = SubSeq(s, a, b)
        BY <2>3, <2>5, <3>3, <3>4, <3>5
      <3> QED
        BY <3>2, <3>6
    <2>7. IsSorting(s, rows, key)
      BY <1>6, <2>3, <2>6
    <2>8. p \in Listing!Range(answer[n].data) <=> \E k \in a .. b : s[k] = p
      <3>1. PICK d : d = answer[n].data
        OBVIOUS
      <3>2. DOMAIN d = 1 .. (1 + b - a) /\ \A k \in 1 .. (1 + b - a) : d[k] = s[k + a - 1]
        BY <2>6, <3>1
      <3>3. p \in Listing!Range(d) <=> \E k \in 1 .. (1 + b - a) : s[k + a - 1] = p
        BY <3>2 DEF Listing!Range
      <3>4. ASSUME NEW k \in a .. b, s[k] = p
            PROVE  \E l \in 1 .. (1 + b - a) : s[l + a - 1] = p
        <4>1. k - a + 1 \in 1 .. (1 + b - a) /\ (k - a + 1) + a - 1 = k
          OBVIOUS
        <4> QED
          BY <3>4, <4>1
      <3>5. ASSUME NEW l \in 1 .. (1 + b - a), s[l + a - 1] = p
            PROVE  \E k \in a .. b : s[k] = p
        <4>1. l + a - 1 \in a .. b
          OBVIOUS
        <4> QED
          BY <3>5, <4>1
      <3> QED
        BY <3>1, <3>3, <3>4, <3>5
    <2>9. s[i] = p /\ \A k \in 1 .. N : s[k] = p => k = i
      BY <1>3, <1>4, <1>6, <1>11, <1>13, <2>7, PlacesAreRanks
    <2>10. (\E k \in a .. b : s[k] = p) <=> i \in a .. b
      BY <2>5, <2>9
    <2>11. i \in a .. b <=> i \in (n - 1) * L + 1 .. (n - 1) * L + L
      BY <2>4, <2>5
    <2> QED
      BY <1>14, <2>1, <2>8, <2>10, <2>11, PageOfPlace
  <1>16. {n \in pages : p \in Listing!Range(answer[n].data)} = {here}
    BY <1>14, <1>15
  <1> QED
    BY <1>16, FS_Singleton
=============================================================================
