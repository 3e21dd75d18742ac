----------------------- MODULE CalibrationCorpusProofs -----------------------
(***************************************************************************)
(* Proofs about CalibrationCorpus for every bank of rows, order of the     *)
(* digests, choice of held-out groups, budget and bounds of a prompt.      *)
(*                                                                         *)
(* What a recursive definition computes is proved by its least             *)
(* counterexample: of a set of naturals that is not empty one is the least *)
(* (LeastExists), and it is neither 0 nor the successor of a good one.     *)
(***************************************************************************)
EXTENDS CalibrationCorpus, TLAPS, WellFoundedInduction, FiniteSetTheorems, SequenceTheorems

-----------------------------------------------------------------------------
(* Least elements.                                                           *)

\* Of some naturals one is the least.
LEMMA LeastExists ==
  ASSUME NEW S \in SUBSET Nat, S # {}
  PROVE  \E m \in S : \A n \in S : m <= n
<1>1. IsWellFoundedOn(OpToRel(<, Nat), Nat)
  BY NatLessThanWellFounded
<1>2. PICK m \in S : \A n \in S : <<n, m>> \notin OpToRel(<, Nat)
  BY <1>1, WFMin
<1>3. ASSUME NEW n \in S PROVE m <= n
  <2>1. m \in Nat /\ n \in Nat
    OBVIOUS
  <2>2. ~ (n < m)
    BY <1>2, <2>1 DEF OpToRel
  <2> QED
    BY <2>1, <2>2
<1> QED
  BY <1>3

\* Min picks it.
LEMMA MinIs ==
  ASSUME NEW S \in SUBSET Nat, S # {}
  PROVE  Min(S) \in S /\ \A n \in S : Min(S) <= n
BY LeastExists DEF Min

-----------------------------------------------------------------------------
(* The calls of take_round_robin.                                            *)

LEMMA AxesAre ==
  Range(Axes) = {"code_agentic", "general", "math_reasoning", "reasoning_termination",
                 "structured_output"}
BY DEF Range, Axes

\* Two sequences, one after the other.
LEMMA Concatenated ==
  ASSUME NEW m \in Nat, NEW n \in Nat, NEW s, NEW t,
         s = [i \in 1..m |-> s[i]], t = [i \in 1..n |-> t[i]]
  PROVE  /\ s \o t = [i \in 1..(m + n) |-> (s \o t)[i]]
         /\ \A i \in 1..m : (s \o t)[i] = s[i]
         /\ \A j \in 1..n : (s \o t)[m + j] = t[j]
         /\ Len(s \o t) = m + n
<1> DEFINE S == {s[i] : i \in 1..m} \cup {t[i] : i \in 1..n}
<1>1. s \in [1..m -> S] /\ t \in [1..n -> S]
  OBVIOUS
<1> HIDE DEF S
<1>2. s \in Seq(S) /\ t \in Seq(S) /\ Len(s) = m /\ Len(t) = n
  BY <1>1
<1>3. /\ s \o t \in Seq(S)
      /\ Len(s \o t) = m + n
      /\ \A i \in 1..(m + n) : (s \o t)[i] = IF i <= m THEN s[i] ELSE t[i - m]
  BY <1>2, ConcatProperties
<1>4. m + n \in Nat
  OBVIOUS
<1> DEFINE u == s \o t
<1> HIDE DEF u
<1>5. u \in Seq(S) /\ Len(u) = m + n
  BY <1>3 DEF u
<1>6. u = [i \in 1..(m + n) |-> u[i]]
  BY <1>4, <1>5
<1>7. \A i \in 1..m : (s \o t)[i] = s[i]
  BY <1>3
<1>8. ASSUME NEW j \in 1..n PROVE (s \o t)[m + j] = t[j]
  <2> DEFINE k == m + j
  <2>1. k \in 1..(m + n) /\ ~ (k <= m) /\ k - m = j
    OBVIOUS
  <2> HIDE DEF k
  <2>2. (s \o t)[k] = t[k - m]
    BY <1>3, <2>1
  <2> QED
    BY <2>1, <2>2 DEF k
<1> QED
  BY <1>3, <1>6, <1>7, <1>8 DEF u

\* How many languages the calls for code start with.
First(s) ==
  LET wanted == CeilDiv(AxisBudget(s, "code_agentic"), TargetTokens)
  IN IF wanted < Len(CodePriority) THEN wanted ELSE Len(CodePriority)

\* What a call asks for.
IsCall(c, domain, axis, by, limit, unique, required) ==
  /\ c.domain = domain /\ c.axis = axis
  /\ c.by = by /\ c.limit = limit
  /\ c.unique = unique /\ c.required = required

\* Whatever languages, topics and families it is about.
Like(domain, axis, limit, unique) ==
  [domain : {domain}, axis : {axis}, by : {"tokens"}, limit : {limit},
   languages : SUBSET {row.language : row \in Rows}, topics : SUBSET ({row.topic : row \in Rows} \cup {"reasoning"}),
   families : SUBSET ({row.family : row \in Rows} \cup ReasoningFamilies),
   unique : {unique}, required : {TRUE}]

\* The calls for articles.
LEMMA WikiDrawsAre ==
  ASSUME NEW domain, NEW axis, NEW limit, NEW unique \in BOOLEAN, NEW call \in Like(domain, axis, limit, unique)
  PROVE  /\ WikiDraws(call) = [i \in 1..3 |-> WikiDraws(call)[i]]
         /\ \A i \in 1..3 : IsCall(WikiDraws(call)[i], domain, axis, "records",
                                   WikiQuotas(limit)[i], unique, TRUE)
<1>1. WikiDraws(call) = <<WikiDraws(call)[1], WikiDraws(call)[2], WikiDraws(call)[3]>>
  BY DEF WikiDraws
<1>2. IsCall(WikiDraws(call)[1], domain, axis, "records", WikiQuotas(limit)[1], unique, TRUE)
  BY DEF WikiDraws, Only, IsCall, Like
<1>3. IsCall(WikiDraws(call)[2], domain, axis, "records", WikiQuotas(limit)[2], unique, TRUE)
  BY DEF WikiDraws, Only, IsCall, Like
<1>4. IsCall(WikiDraws(call)[3], domain, axis, "records", WikiQuotas(limit)[3], unique, TRUE)
  BY DEF WikiDraws, Except, IsCall, Like
<1>5. WikiDraws(call) = [i \in 1..3 |-> WikiDraws(call)[i]]
  BY <1>1
<1>6. ASSUME NEW i \in 1..3
      PROVE  IsCall(WikiDraws(call)[i], domain, axis, "records", WikiQuotas(limit)[i], unique, TRUE)
  <2>1. i = 1 \/ i = 2 \/ i = 3
    OBVIOUS
  <2> QED
    BY <2>1, <1>2, <1>3, <1>4 DEF IsCall
<1> QED
  BY <1>5, <1>6

LEMMA GeneralDrawsAre ==
  ASSUME NEW s
  PROVE  /\ GeneralDraws(s) = [i \in 1..3 |-> GeneralDraws(s)[i]]
         /\ \A i \in 1..3 :
              IsCall(GeneralDraws(s)[i], "wiki", "general", "records",
                     WikiQuotas(AxisBudget(s, "general"))[i], TRUE, TRUE)
<1> DEFINE call == [Call("wiki", "general", "tokens", AxisBudget(s, "general"))
                      EXCEPT !.topics = @ \ {"legal", "reasoning"}]
<1>1. call \in Like("wiki", "general", AxisBudget(s, "general"), TRUE)
  BY DEF Call, Like
<1>2. GeneralDraws(s) = WikiDraws(call)
  BY DEF GeneralDraws
<1> HIDE DEF call
<1>3. /\ WikiDraws(call) = [i \in 1..3 |-> WikiDraws(call)[i]]
      /\ \A i \in 1..3 : IsCall(WikiDraws(call)[i], "wiki", "general", "records",
                                WikiQuotas(AxisBudget(s, "general"))[i], TRUE, TRUE)
  BY <1>1, WikiDrawsAre
<1> QED
  BY <1>2, <1>3

LEMMA ReasoningDrawsAre ==
  ASSUME NEW s
  PROVE  /\ ReasoningDraws(s) = [i \in 1..3 |-> ReasoningDraws(s)[i]]
         /\ \A i \in 1..3 :
              IsCall(ReasoningDraws(s)[i], "wiki", "reasoning_termination", "records",
                     WikiQuotas(AxisBudget(s, "reasoning_termination"))[i], FALSE, TRUE)
<1> DEFINE call == [Call("wiki", "reasoning_termination", "tokens",
                         AxisBudget(s, "reasoning_termination"))
                      EXCEPT !.topics = {"reasoning"}, !.families = ReasoningFamilies,
                             !.unique = FALSE]
<1>1. call \in Like("wiki", "reasoning_termination", AxisBudget(s, "reasoning_termination"), FALSE)
  BY DEF Call, Like
<1>2. ReasoningDraws(s) = WikiDraws(call)
  BY DEF ReasoningDraws
<1> HIDE DEF call
<1>3. /\ WikiDraws(call) = [i \in 1..3 |-> WikiDraws(call)[i]]
      /\ \A i \in 1..3 : IsCall(WikiDraws(call)[i], "wiki", "reasoning_termination", "records",
                                WikiQuotas(AxisBudget(s, "reasoning_termination"))[i], FALSE, TRUE)
  BY <1>1, WikiDrawsAre
<1> QED
  BY <1>2, <1>3

LEMMA CodeDrawsAre ==
  ASSUME NEW s, First(s) \in Nat
  PROVE  /\ CodeDraws(s) = [i \in 1..(First(s) + 1) |-> CodeDraws(s)[i]]
         /\ \A i \in 1..First(s) :
              IsCall(CodeDraws(s)[i], "code", "code_agentic", "records", 1, FALSE, FALSE)
         /\ IsCall(CodeDraws(s)[First(s) + 1], "code", "code_agentic", "rest",
                   AxisBudget(s, "code_agentic"), FALSE, TRUE)
<1> DEFINE budget == AxisBudget(s, "code_agentic")
           Of(by, limit) == [Call("code", "code_agentic", by, limit) EXCEPT !.unique = FALSE]
           P == [i \in 1..First(s) |->
                   [Only(Of("records", 1), {CodePriority[i]}) EXCEPT !.required = FALSE]]
           Q == <<Of("rest", budget)>>
<1>1. CodeDraws(s) = P \o Q
  BY DEF CodeDraws, First
<1>2. P = [i \in 1..First(s) |-> P[i]] /\ Q = [i \in 1..1 |-> Q[i]]
  OBVIOUS
<1>3. \A i \in 1..First(s) :
        IsCall(P[i], "code", "code_agentic", "records", 1, FALSE, FALSE)
  BY DEF Call, Only, IsCall
<1>4. IsCall(Q[1], "code", "code_agentic", "rest", budget, FALSE, TRUE)
  BY DEF Call, Only, IsCall
<1> HIDE DEF P, Q
<1>5. /\ P \o Q = [i \in 1..(First(s) + 1) |-> (P \o Q)[i]]
      /\ \A i \in 1..First(s) : (P \o Q)[i] = P[i]
      /\ \A j \in 1..1 : (P \o Q)[First(s) + j] = Q[j]
  BY <1>2, 1 \in Nat, Concatenated
<1>6. \A i \in 1..First(s) : CodeDraws(s)[i] = P[i]
  BY <1>1, <1>5
<1>7. CodeDraws(s)[First(s) + 1] = Q[1]
  BY <1>1, <1>5
<1>8. IsCall(CodeDraws(s)[First(s) + 1], "code", "code_agentic", "rest", budget, FALSE, TRUE)
  BY <1>4, <1>7
<1> QED
  BY <1>1, <1>3, <1>5, <1>6, <1>8 DEF budget

-----------------------------------------------------------------------------
(* Budgets.                                                                  *)

LEMMA CeilDivIs ==
  ASSUME NEW n \in Nat, NEW d \in Nat \ {0}
  PROVE  CeilDiv(n, d) \in Nat
BY DEF CeilDiv

\* Rounding moves a quotient by at most a half.
LEMMA RoundIs ==
  ASSUME NEW n \in Nat, NEW d \in {10, 100, 108}
  PROVE  /\ Round(n, d) \in Nat
         /\ 2 * d * Round(n, d) <= 2 * n + d
         /\ 2 * d * Round(n, d) >= 2 * n - d
<1>1. CASE d = 10
  BY <1>1 DEF Round
<1>2. CASE d = 100
  BY <1>2 DEF Round
<1>3. CASE d = 108
  BY <1>3 DEF Round
<1> QED
  BY <1>1, <1>2, <1>3

\* Four rounded parts leave something for the fifth.
LEMMA LeftOver ==
  ASSUME NEW b \in Nat
  PROVE  b - Round(b * 36, 108) - Round(b * 26, 108) - Round(b * 22, 108)
           - Round(b * 13, 108) >= 0
<1>1. CASE b < 20
  BY <1>1 DEF Round
<1>2. CASE b >= 20
  <2>1. /\ b * 36 \in Nat /\ b * 26 \in Nat /\ b * 22 \in Nat /\ b * 13 \in Nat
    OBVIOUS
  <2>2. /\ Round(b * 36, 108) \in Nat /\ 216 * Round(b * 36, 108) <= 2 * (b * 36) + 108
        /\ Round(b * 26, 108) \in Nat /\ 216 * Round(b * 26, 108) <= 2 * (b * 26) + 108
        /\ Round(b * 22, 108) \in Nat /\ 216 * Round(b * 22, 108) <= 2 * (b * 22) + 108
        /\ Round(b * 13, 108) \in Nat /\ 216 * Round(b * 13, 108) <= 2 * (b * 13) + 108
    BY <2>1, RoundIs
  <2> QED
    BY <1>2, <2>2
<1> QED
  BY <1>1, <1>2

LEMMA BudgetsAre ==
  ASSUME NEW s \in Corpora
  PROVE  /\ BudgetOf(s) \in Nat \ {0}
         /\ AxisBudget(s, "code_agentic") = Round(BudgetOf(s) * 36, 108)
         /\ AxisBudget(s, "general") = Round(BudgetOf(s) * 26, 108)
         /\ AxisBudget(s, "math_reasoning") = Round(BudgetOf(s) * 22, 108)
         /\ AxisBudget(s, "reasoning_termination") = Round(BudgetOf(s) * 13, 108)
         /\ AxisBudget(s, "structured_output") =
              BudgetOf(s) - Round(BudgetOf(s) * 36, 108) - Round(BudgetOf(s) * 26, 108)
                - Round(BudgetOf(s) * 22, 108) - Round(BudgetOf(s) * 13, 108)
<1>1. BudgetOf(s) \in Nat \ {0}
  BY TokenBounds DEF BudgetOf, Corpora
<1>2. TotalWeight = 108
  BY DEF TotalWeight, AxisWeights
<1>3. /\ Rounded(s, 1) = Round(BudgetOf(s) * 36, 108)
      /\ Rounded(s, 2) = Round(BudgetOf(s) * 26, 108)
      /\ Rounded(s, 3) = Round(BudgetOf(s) * 22, 108)
      /\ Rounded(s, 4) = Round(BudgetOf(s) * 13, 108)
  BY <1>2 DEF Rounded, AxisWeights
<1>4. /\ DOMAIN Axes = 1..5 /\ Len(Axes) = 5
      /\ Axes[1] = "code_agentic" /\ Axes[2] = "general" /\ Axes[3] = "math_reasoning"
      /\ Axes[4] = "reasoning_termination" /\ Axes[5] = "structured_output"
  BY DEF Axes
<1> DEFINE At(axis) == CHOOSE j \in DOMAIN Axes : Axes[j] = axis
<1>5. /\ At("code_agentic") = 1 /\ At("general") = 2 /\ At("math_reasoning") = 3
      /\ At("reasoning_termination") = 4 /\ At("structured_output") = 5
  BY <1>4
<1> QED
  BY <1>1, <1>3, <1>4, <1>5 DEF AxisBudget

LEMMA BudgetsAreNat ==
  ASSUME NEW s \in Corpora, NEW axis \in Range(Axes)
  PROVE  AxisBudget(s, axis) \in Nat
<1> DEFINE b == BudgetOf(s)
<1>1. b \in Nat /\ b * 36 \in Nat /\ b * 26 \in Nat /\ b * 22 \in Nat /\ b * 13 \in Nat
  BY BudgetsAre
<1>2. /\ Round(b * 36, 108) \in Nat /\ Round(b * 26, 108) \in Nat
      /\ Round(b * 22, 108) \in Nat /\ Round(b * 13, 108) \in Nat
  BY <1>1, RoundIs
<1> HIDE DEF b
<1>3. b - Round(b * 36, 108) - Round(b * 26, 108) - Round(b * 22, 108) - Round(b * 13, 108) \in Nat
  BY <1>1, <1>2, LeftOver
<1> QED
  BY <1>2, <1>3, BudgetsAre, AxesAre DEF b

-----------------------------------------------------------------------------
(* All calls for a corpus, in their order.                                   *)

LEMMA FirstIs ==
  ASSUME NEW s \in Corpora
  PROVE  First(s) \in Nat
<1>1. AxisBudget(s, "code_agentic") \in Nat
  BY BudgetsAreNat, AxesAre
<1>2. CeilDiv(AxisBudget(s, "code_agentic"), TargetTokens) \in Nat
  BY <1>1, CeilDivIs, TokenBounds
<1>3. Len(CodePriority) \in Nat
  BY BankRows
<1> QED
  BY <1>2, <1>3 DEF First

LEMMA MathDrawsAre ==
  ASSUME NEW s
  PROVE  /\ MathDraws(s) = [i \in 1..2 |-> MathDraws(s)[i]]
         /\ IsCall(MathDraws(s)[1], "math", "math_reasoning", "tokens",
                   Round(AxisBudget(s, "math_reasoning") * 20, 100), TRUE, FALSE)
         /\ IsCall(MathDraws(s)[2], "math", "math_reasoning", "rest",
                   AxisBudget(s, "math_reasoning"), TRUE, TRUE)
<1>1. MathDraws(s) = <<MathDraws(s)[1], MathDraws(s)[2]>>
  BY DEF MathDraws
<1>2. MathDraws(s) = [i \in 1..2 |-> MathDraws(s)[i]]
  BY <1>1
<1>3. IsCall(MathDraws(s)[1], "math", "math_reasoning", "tokens",
             Round(AxisBudget(s, "math_reasoning") * 20, 100), TRUE, FALSE)
  BY DEF MathDraws, Call, Only, IsCall
<1>4. IsCall(MathDraws(s)[2], "math", "math_reasoning", "rest",
             AxisBudget(s, "math_reasoning"), TRUE, TRUE)
  BY DEF MathDraws, Call, Except, IsCall
<1> QED
  BY <1>2, <1>3, <1>4

LEMMA StructuredDrawsAre ==
  ASSUME NEW s
  PROVE  /\ StructuredDraws(s) = [i \in 1..1 |-> StructuredDraws(s)[i]]
         /\ IsCall(StructuredDraws(s)[1], "structured", "structured_output", "tokens",
                   AxisBudget(s, "structured_output"), TRUE, TRUE)
<1>1. StructuredDraws(s) = <<StructuredDraws(s)[1]>>
  BY DEF StructuredDraws
<1>2. StructuredDraws(s) = [i \in 1..1 |-> StructuredDraws(s)[i]]
  BY <1>1
<1>3. IsCall(StructuredDraws(s)[1], "structured", "structured_output", "tokens",
             AxisBudget(s, "structured_output"), TRUE, TRUE)
  BY DEF StructuredDraws, Call, IsCall
<1> QED
  BY <1>2, <1>3

LEMMA DrawsAre ==
  ASSUME NEW s \in Corpora
  PROVE  /\ Len(Draws[s]) = First(s) + 10
         /\ \A d \in 1..3 :
              IsCall(Draws[s][d], "wiki", "reasoning_termination", "records",
                     WikiQuotas(AxisBudget(s, "reasoning_termination"))[d], FALSE, TRUE)
         /\ \A d \in 4..6 :
              IsCall(Draws[s][d], "wiki", "general", "records",
                     WikiQuotas(AxisBudget(s, "general"))[d - 3], TRUE, TRUE)
         /\ \A d \in 7..(First(s) + 6) :
              IsCall(Draws[s][d], "code", "code_agentic", "records", 1, FALSE, FALSE)
         /\ IsCall(Draws[s][First(s) + 7], "code", "code_agentic", "rest",
                   AxisBudget(s, "code_agentic"), FALSE, TRUE)
         /\ IsCall(Draws[s][First(s) + 8], "math", "math_reasoning", "tokens",
                   Round(AxisBudget(s, "math_reasoning") * 20, 100), TRUE, FALSE)
         /\ IsCall(Draws[s][First(s) + 9], "math", "math_reasoning", "rest",
                   AxisBudget(s, "math_reasoning"), TRUE, TRUE)
         /\ IsCall(Draws[s][First(s) + 10], "structured", "structured_output", "tokens",
                   AxisBudget(s, "structured_output"), TRUE, TRUE)
<1> DEFINE A == ReasoningDraws(s)
           B == GeneralDraws(s)
           C == CodeDraws(s)
           D == MathDraws(s)
           E == StructuredDraws(s)
           f == First(s)
<1>1. Draws[s] = A \o B \o C \o D \o E
  BY DEF Draws
<1>2. f \in Nat /\ f + 1 \in Nat /\ 3 \in Nat /\ 2 \in Nat /\ 1 \in Nat
  BY FirstIs
<1>3. /\ A = [i \in 1..3 |-> A[i]] /\ B = [i \in 1..3 |-> B[i]]
      /\ C = [i \in 1..(f + 1) |-> C[i]] /\ D = [i \in 1..2 |-> D[i]]
      /\ E = [i \in 1..1 |-> E[i]]
  BY <1>2, ReasoningDrawsAre, GeneralDrawsAre, CodeDrawsAre, MathDrawsAre, StructuredDrawsAre
<1> HIDE DEF A, B, C, D, E, f
<1> DEFINE AB == A \o B
           ABC == AB \o C
           ABCD == ABC \o D
           all == ABCD \o E
<1>4. /\ AB = [i \in 1..6 |-> AB[i]]
      /\ \A i \in 1..3 : AB[i] = A[i]
      /\ \A j \in 1..3 : AB[3 + j] = B[j]
  <2>1. 3 + 3 = 6
    OBVIOUS
  <2> QED
    BY <1>2, <1>3, <2>1, Concatenated
<1> HIDE DEF AB
<1>5. /\ ABC = [i \in 1..(f + 7) |-> ABC[i]]
      /\ \A i \in 1..6 : ABC[i] = AB[i]
      /\ \A j \in 1..(f + 1) : ABC[6 + j] = C[j]
  <2>1. 6 + (f + 1) = f + 7 /\ 6 \in Nat
    BY <1>2
  <2> QED
    BY <1>2, <1>3, <1>4, <2>1, Concatenated, SMTT(40)
<1> HIDE DEF ABC
<1>6. /\ ABCD = [i \in 1..(f + 9) |-> ABCD[i]]
      /\ \A i \in 1..(f + 7) : ABCD[i] = ABC[i]
      /\ \A j \in 1..2 : ABCD[f + 7 + j] = D[j]
  <2> DEFINE m == f + 7
  <2>1. m + 2 = f + 9 /\ m \in Nat
    BY <1>2
  <2>2. ABC = [i \in 1..m |-> ABC[i]]
    BY <1>5
  <2> HIDE DEF m
  <2>3. /\ ABCD = [i \in 1..(m + 2) |-> ABCD[i]]
        /\ \A i \in 1..m : ABCD[i] = ABC[i]
        /\ \A j \in 1..2 : ABCD[m + j] = D[j]
    BY <1>2, <1>3, <2>1, <2>2, Concatenated, SMTT(40)
  <2> QED
    BY <2>1, <2>3 DEF m
<1> HIDE DEF ABCD
<1>7. /\ Len(all) = f + 10
      /\ \A i \in 1..(f + 9) : all[i] = ABCD[i]
      /\ \A j \in 1..1 : all[f + 9 + j] = E[j]
  <2>1. (f + 9) + 1 = f + 10 /\ f + 9 \in Nat
    BY <1>2
  <2> QED
    BY <1>2, <1>3, <1>6, <2>1, Concatenated
<1>8. Draws[s] = all
  BY <1>1 DEF AB, ABC, ABCD
<1> HIDE DEF all
<1>9. /\ \A i \in 1..(f + 7) : all[i] = ABC[i]
      /\ \A i \in 1..6 : all[i] = AB[i]
  <2>1. /\ \A i \in 1..(f + 7) : i \in 1..(f + 9)
        /\ \A i \in 1..6 : i \in 1..(f + 7)
    BY <1>2
  <2> QED
    BY <1>5, <1>6, <1>7, <2>1
<1>10. /\ \A i \in 1..3 : all[i] = A[i]
       /\ \A i \in 4..6 : all[i] = B[i - 3] /\ i - 3 \in 1..3
  <2>1. \A i \in 4..6 : AB[i] = B[i - 3]
    BY <1>4
  <2> QED
    BY <1>4, <1>9, <2>1
<1>11. ASSUME NEW i \in 7..(f + 7)
       PROVE  all[i] = C[i - 6] /\ i - 6 \in 1..(f + 1)
  <2>1. i \in 1..(f + 7) /\ i - 6 \in 1..(f + 1) /\ 6 + (i - 6) = i
    BY <1>2
  <2> QED
    BY <1>5, <1>9, <2>1
<1>12. all[f + 8] = D[1] /\ all[f + 9] = D[2]
  <2>1. /\ f + 7 + 1 = f + 8 /\ f + 7 + 2 = f + 9
        /\ f + 8 \in 1..(f + 9) /\ f + 9 \in 1..(f + 9)
    BY <1>2
  <2> QED
    BY <1>6, <1>7, <2>1
<1>13. all[f + 10] = E[1]
  <2>1. f + 9 + 1 = f + 10
    BY <1>2
  <2> QED
    BY <1>7, <2>1
<1>14. \A d \in 1..3 :
         IsCall(Draws[s][d], "wiki", "reasoning_termination", "records",
                WikiQuotas(AxisBudget(s, "reasoning_termination"))[d], FALSE, TRUE)
  BY <1>8, <1>10, ReasoningDrawsAre DEF A
<1>15. \A d \in 4..6 :
         IsCall(Draws[s][d], "wiki", "general", "records",
                WikiQuotas(AxisBudget(s, "general"))[d - 3], TRUE, TRUE)
  BY <1>8, <1>10, GeneralDrawsAre DEF B
<1>16. \A d \in 7..(f + 6) :
         IsCall(Draws[s][d], "code", "code_agentic", "records", 1, FALSE, FALSE)
  <2>1. \A d \in 7..(f + 6) : d - 6 \in 1..f /\ Draws[s][d] = C[d - 6]
    BY <1>2, <1>8, <1>11
  <2> QED
    BY <1>2, <2>1, CodeDrawsAre DEF C, f
<1>17. IsCall(Draws[s][f + 7], "code", "code_agentic", "rest",
              AxisBudget(s, "code_agentic"), FALSE, TRUE)
  <2>1. 6 + (f + 1) = f + 7 /\ f + 1 \in 1..(f + 1) /\ f + 7 \in 1..(f + 7)
    BY <1>2
  <2>2. all[f + 7] = C[f + 1]
    BY <1>5, <1>9, <2>1
  <2>3. Draws[s][f + 7] = C[f + 1]
    BY <1>8, <2>2
  <2> QED
    BY <1>2, <2>3, CodeDrawsAre DEF C, f
<1>18. IsCall(Draws[s][f + 8], "math", "math_reasoning", "tokens",
              Round(AxisBudget(s, "math_reasoning") * 20, 100), TRUE, FALSE)
  BY <1>8, <1>12, MathDrawsAre DEF D
<1>19. IsCall(Draws[s][f + 9], "math", "math_reasoning", "rest",
              AxisBudget(s, "math_reasoning"), TRUE, TRUE)
  BY <1>8, <1>12, MathDrawsAre DEF D
<1>20. IsCall(Draws[s][f + 10], "structured", "structured_output", "tokens",
              AxisBudget(s, "structured_output"), TRUE, TRUE)
  BY <1>8, <1>13, StructuredDrawsAre DEF E
<1>21. Len(Draws[s]) = f + 10
  BY <1>7, <1>8
<1> QED
  BY <1>14, <1>15, <1>16, <1>17, <1>18, <1>19, <1>20, <1>21 DEF f

-----------------------------------------------------------------------------
(* Where build is, and what the queues hold.                                 *)

Stages == {"start", "refused", "select", "draw", "failed", "screen", "stage", "check",
           "overlap", "done"}
Seeds == [orders : [Corpora \cup {"strata", "screening"} -> Orders], buckets : HeldoutChoices]

TypeOK ==
  /\ pc \in Stages
  /\ seed \in Seeds
  /\ split \in Corpora \cup {"screening"}
  /\ draw \in Nat
  /\ got \in Seq(Rows)
  /\ selected \in [Corpora -> [Range(Axes) -> Seq(Rows)]]

\* A call is running or comes next, or all have been made.
AtCall ==
  /\ pc \in {"start", "refused"} =>
       split = "calibration" /\ draw = 1 /\ selected = Nothing /\ screening = {}
  /\ pc \in {"select", "draw"} =>
       split \in Corpora /\ 1 <= draw /\ draw <= Len(Draws[split]) + 1
  /\ pc = "draw" => draw <= Len(Draws[split])

\* A queue holds rows of its stratum that the call is about.
Queued ==
  /\ pc # "draw" => queues = <<>> /\ pass = {} /\ got = <<>>
  /\ queues = [s \in DOMAIN queues |-> queues[s]]
  /\ DOMAIN queues \subseteq {Stratum(row) : row \in Rows}
  /\ \A s \in DOMAIN queues : queues[s] \subseteq Queue(s)
  /\ pass \subseteq Open

Bookkeeping == TypeOK /\ AtCall /\ Queued

LEMMA LengthIs ==
  ASSUME NEW s \in Corpora
  PROVE  First(s) \in Nat /\ Len(Draws[s]) = First(s) + 10
BY DrawsAre, FirstIs DEF IsCall

LEMMA OrdersAre ==
  ASSUME seed \in Seeds, NEW o \in Corpora \cup {"strata", "screening"}
  PROVE  /\ seed.orders[o] \in Seq(Rows)
         /\ Range(seed.orders[o]) = Rows
         /\ DOMAIN seed.orders[o] \subseteq Nat
<1>1. seed.orders[o] \in Orders
  BY DEF Seeds
<1> DEFINE order == seed.orders[o]
<1> HIDE DEF order
<1>2. order \in Seq(Rows) /\ Range(order) = Rows
  BY <1>1, BankRows DEF order
<1>3. DOMAIN order \subseteq Nat
  BY <1>2
<1> QED
  BY <1>2, <1>3 DEF order

\* Each call is one of these.
CallAt(s, d) ==
  LET c == Draws[s][d]
      budget == AxisBudget(s, c.axis)
  IN \/ /\ d \in 1..3
        /\ IsCall(c, "wiki", "reasoning_termination", "records", WikiQuotas(budget)[d], FALSE, TRUE)
     \/ /\ d \in 4..6
        /\ IsCall(c, "wiki", "general", "records", WikiQuotas(budget)[d - 3], TRUE, TRUE)
     \/ /\ d \in 7..(First(s) + 6)
        /\ IsCall(c, "code", "code_agentic", "records", 1, FALSE, FALSE)
     \/ /\ d = First(s) + 7
        /\ IsCall(c, "code", "code_agentic", "rest", budget, FALSE, TRUE)
     \/ /\ d = First(s) + 8
        /\ IsCall(c, "math", "math_reasoning", "tokens", Round(budget * 20, 100), TRUE, FALSE)
     \/ /\ d = First(s) + 9
        /\ IsCall(c, "math", "math_reasoning", "rest", budget, TRUE, TRUE)
     \/ /\ d = First(s) + 10
        /\ IsCall(c, "structured", "structured_output", "tokens", budget, TRUE, TRUE)

LEMMA CallsAre ==
  ASSUME NEW s \in Corpora, NEW d \in 1..Len(Draws[s])
  PROVE  CallAt(s, d)
<1>1. \/ d \in 1..3 \/ d \in 4..6 \/ d \in 7..(First(s) + 6) \/ d = First(s) + 7
      \/ d = First(s) + 8 \/ d = First(s) + 9 \/ d = First(s) + 10
  BY LengthIs
<1>2. CASE d \in 1..3
  <2>1. IsCall(Draws[s][d], "wiki", "reasoning_termination", "records",
               WikiQuotas(AxisBudget(s, "reasoning_termination"))[d], FALSE, TRUE)
    BY <1>2, DrawsAre, Zenon
  <2> QED
    BY <1>2, <2>1 DEF CallAt, IsCall
<1>3. CASE d \in 4..6
  <2>1. IsCall(Draws[s][d], "wiki", "general", "records",
               WikiQuotas(AxisBudget(s, "general"))[d - 3], TRUE, TRUE)
    BY <1>3, DrawsAre, Zenon
  <2> QED
    BY <1>3, <2>1 DEF CallAt, IsCall
<1>4. CASE d \in 7..(First(s) + 6)
  <2>1. IsCall(Draws[s][d], "code", "code_agentic", "records", 1, FALSE, FALSE)
    BY <1>4, DrawsAre, Zenon
  <2> QED
    BY <1>4, <2>1 DEF CallAt, IsCall
<1>5. CASE d = First(s) + 7
  <2>1. IsCall(Draws[s][d], "code", "code_agentic", "rest",
               AxisBudget(s, "code_agentic"), FALSE, TRUE)
    BY <1>5, DrawsAre, Zenon
  <2> QED
    BY <1>5, <2>1 DEF CallAt, IsCall
<1>6. CASE d = First(s) + 8
  <2>1. IsCall(Draws[s][d], "math", "math_reasoning", "tokens",
               Round(AxisBudget(s, "math_reasoning") * 20, 100), TRUE, FALSE)
    BY <1>6, DrawsAre, Zenon
  <2> QED
    BY <1>6, <2>1 DEF CallAt, IsCall
<1>7. CASE d = First(s) + 9
  <2>1. IsCall(Draws[s][d], "math", "math_reasoning", "rest",
               AxisBudget(s, "math_reasoning"), TRUE, TRUE)
    BY <1>7, DrawsAre, Zenon
  <2> QED
    BY <1>7, <2>1 DEF CallAt, IsCall
<1>8. CASE d = First(s) + 10
  <2>1. IsCall(Draws[s][d], "structured", "structured_output", "tokens",
               AxisBudget(s, "structured_output"), TRUE, TRUE)
    BY <1>8, DrawsAre, Zenon
  <2> QED
    BY <1>8, <2>1 DEF CallAt, IsCall
<1> QED
  BY <1>1, <1>2, <1>3, <1>4, <1>5, <1>6, <1>7, <1>8

\* The axis of a call is one, and its domain.
LEMMA CallsAxis ==
  ASSUME NEW s \in Corpora, NEW d \in 1..Len(Draws[s])
  PROVE  Draws[s][d].axis \in Range(Axes) /\ Draws[s][d].domain \in Domains
BY CallsAre, AxesAre DEF CallAt, IsCall, Domains

LEMMA InitBookkeeping ==
  ASSUME Init
  PROVE  Bookkeeping
<1>1. TypeOK
  BY DEF Init, TypeOK, Stages, Seeds, Nothing, Corpora
<1>2. AtCall
  BY DEF Init, AtCall
<1>3. Queued
  BY DEF Init, Queued, Open
<1> QED
  BY <1>1, <1>2, <1>3 DEF Bookkeeping

\* The row an order holds at the least usable place.
LEMMA FoundIs ==
  ASSUME Bookkeeping, pc = "draw", NEW s \in DOMAIN queues, UsableIn(queues[s]) # {}
  PROVE  LET i == Min(UsableIn(queues[s]))
             row == seed.orders[split][i]
         IN /\ i \in queues[s]
            /\ row \in Rows
            /\ Matches(row) /\ Stratum(row) = s /\ Usable(row)
<1> DEFINE i == Min(UsableIn(queues[s]))
<1>1. /\ split \in Corpora /\ seed \in Seeds /\ queues[s] \subseteq Queue(s)
  BY DEF Bookkeeping, TypeOK, AtCall, Queued
<1>2. /\ seed.orders[split] \in Seq(Rows)
      /\ DOMAIN seed.orders[split] \subseteq Nat
  BY <1>1, OrdersAre
<1>3. UsableIn(queues[s]) \subseteq queues[s] /\ queues[s] \subseteq DOMAIN seed.orders[split]
  BY <1>1 DEF UsableIn, Queue
<1>4. UsableIn(queues[s]) \in SUBSET Nat
  BY <1>2, <1>3
<1>5. i \in UsableIn(queues[s])
  BY <1>4, MinIs
<1> HIDE DEF i
<1>6. i \in queues[s] /\ Usable(seed.orders[split][i])
  BY <1>5 DEF UsableIn
<1>7. i \in Queue(s)
  BY <1>1, <1>6
<1>8. i \in DOMAIN seed.orders[split] /\ Matches(seed.orders[split][i])
      /\ Stratum(seed.orders[split][i]) = s
  BY <1>7 DEF Queue
<1>9. seed.orders[split][i] \in Rows
  BY <1>2, <1>8
<1> QED
  BY <1>6, <1>8, <1>9 DEF i

\* The stratum whose turn it is is one of this pass.
LEMMA TurnIs ==
  ASSUME Bookkeeping, pass # {}
  PROVE  NextStratum \in pass
<1>1. seed \in Seeds /\ pass \subseteq {Stratum(row) : row \in Rows}
  BY DEF Bookkeeping, TypeOK, Queued, Open
<1>2. /\ Range(seed.orders.strata) = Rows /\ DOMAIN seed.orders.strata \subseteq Nat
  BY <1>1, OrdersAre DEF Seeds
<1>3. ASSUME NEW s \in pass PROVE Place(s) \in Nat
  <2> DEFINE places == {i \in DOMAIN seed.orders.strata : Stratum(seed.orders.strata[i]) = s}
  <2>1. PICK row \in Rows : Stratum(row) = s
    BY <1>1
  <2>2. PICK i \in DOMAIN seed.orders.strata : seed.orders.strata[i] = row
    BY <1>2, <2>1 DEF Range
  <2>3. i \in places
    BY <2>1, <2>2
  <2>4. places \in SUBSET Nat /\ places # {}
    BY <1>2, <2>3
  <2> HIDE DEF places
  <2>5. Min(places) \in Nat
    BY <2>4, MinIs
  <2> QED
    BY <2>5 DEF Place, places
<1> DEFINE S == {Place(s) : s \in pass}
<1>4. S \in SUBSET Nat /\ S # {}
  BY <1>3
<1> HIDE DEF S
<1>5. PICK m \in S : \A n \in S : m <= n
  BY <1>4, LeastExists
<1>6. PICK s \in pass : m = Place(s)
  BY <1>5 DEF S
<1>7. \A other \in pass : Place(s) <= Place(other)
  BY <1>5, <1>6 DEF S
<1> QED
  BY <1>6, <1>7 DEF NextStratum

\* What a call is about does not change while it runs.
LEMMA QueueFixed ==
  ASSUME UNCHANGED <<seed, split, draw>>, NEW s
  PROVE  Queue(s)' = Queue(s)
BY DEF Queue, Matches, Current, SplitOf

LEMMA BeginKeeps ==
  ASSUME Bookkeeping, BeginDraw
  PROVE  Bookkeeping'
<1> USE DEF Bookkeeping, BeginDraw
<1>1. TypeOK'
  BY DEF TypeOK, Stages
<1>2. AtCall'
  BY DEF AtCall
<1>3. Queued'
  <2>1. DOMAIN queues' \subseteq {Stratum(row) : row \in Rows}
    BY DEF Strata
  <2>2. \A s \in DOMAIN queues' : queues'[s] = Queue(s)
    OBVIOUS
  <2>3. \A s : Queue(s)' = Queue(s)
    BY QueueFixed
  <2>4. queues' = [s \in DOMAIN queues' |-> queues'[s]]
    OBVIOUS
  <2> QED
    BY <2>1, <2>2, <2>3, <2>4 DEF Queued
<1> QED
  BY <1>1, <1>2, <1>3

LEMMA PassKeeps ==
  ASSUME Bookkeeping, NextPass
  PROVE  Bookkeeping'
<1> USE DEF Bookkeeping, NextPass
<1>1. TypeOK'
  BY DEF TypeOK
<1>2. AtCall'
  BY DEF AtCall
<1>3. Queued'
  <2>1. \A s : Queue(s)' = Queue(s)
    BY QueueFixed
  <2>2. Open' = Open
    BY DEF Open
  <2> QED
    BY <2>1, <2>2 DEF Queued
<1> QED
  BY <1>1, <1>2, <1>3

\* What a visit does: the stratum's queue is emptied with nothing found, or a
\* row is found that it held.
Dropped(s) ==
  /\ queues' = [queues EXCEPT ![s] = {}]
  /\ pass' = pass \ {s}
  /\ UsableIn(queues[s]) = {}
  /\ got' = got
Found(s, row) ==
  /\ queues' = [queues EXCEPT ![s] = queues'[s]]
  /\ queues'[s] \subseteq queues[s]
  /\ got' = Append(got, row)
  /\ pass' = pass \ {s}

LEMMA VisitIs ==
  ASSUME Bookkeeping, Visit
  PROVE  \E s \in pass :
           /\ s \in DOMAIN queues /\ queues[s] # {}
           /\ \/ Dropped(s)
              \/ \E row \in Rows : Matches(row) /\ Stratum(row) = s /\ Usable(row) /\ Found(s, row)
<1> DEFINE s == NextStratum
           usable == UsableIn(queues[s])
<1>1. s \in pass
  BY TurnIs DEF Visit
<1>2. s \in DOMAIN queues /\ queues[s] # {}
  BY <1>1 DEF Bookkeeping, Queued, Open
<1>3. queues = [t \in DOMAIN queues |-> queues[t]]
  BY DEF Bookkeeping, Queued
<1> HIDE DEF s
<1>4. CASE usable = {}
  <2>1. Dropped(s)
    BY <1>4 DEF Visit, Dropped, s
  <2> QED
    BY <1>1, <1>2, <2>1
<1>5. CASE usable # {}
  <2> DEFINE row == seed.orders[split][Min(usable)]
             rest == {i \in queues[s] : i > Min(usable)}
  <2>1. row \in Rows /\ Matches(row) /\ Stratum(row) = s /\ Usable(row)
    BY <1>2, <1>5, FoundIs DEF Visit
  <2>2. /\ queues' = [queues EXCEPT ![s] = rest]
        /\ got' = Append(got, row)
        /\ pass' = pass \ {s}
    BY <1>5 DEF Visit, s
  <2>3. rest \subseteq queues[s]
    OBVIOUS
  <2> HIDE DEF row, rest
  <2>4. Found(s, row)
    BY <1>2, <1>3, <2>2, <2>3 DEF Found
  <2> QED
    BY <1>1, <1>2, <2>1, <2>4
<1> QED
  BY <1>4, <1>5

LEMMA VisitKeeps ==
  ASSUME Bookkeeping, Visit
  PROVE  Bookkeeping'
<1>1. PICK s \in pass :
           /\ s \in DOMAIN queues /\ queues[s] # {}
           /\ \/ Dropped(s)
              \/ \E row \in Rows : Matches(row) /\ Stratum(row) = s /\ Usable(row) /\ Found(s, row)
  BY VisitIs
<1>2. pc' = pc /\ UNCHANGED <<seed, split, draw, selected, screening>> /\ pc = "draw"
  BY DEF Visit
<1>3. /\ got' \in Seq(Rows)
      /\ queues' = [queues EXCEPT ![s] = queues'[s]]
      /\ queues'[s] \subseteq queues[s]
      /\ pass' = pass \ {s}
  <2>1. s \in DOMAIN queues /\ queues = [t \in DOMAIN queues |-> queues[t]] /\ got \in Seq(Rows)
    BY <1>1 DEF Bookkeeping, TypeOK, Queued
  <2>2. CASE Dropped(s)
    BY <2>1, <2>2 DEF Dropped
  <2>3. ASSUME NEW row \in Rows, Found(s, row)
        PROVE  got' \in Seq(Rows)
    BY <2>1, <2>3 DEF Found
  <2> QED
    BY <1>1, <2>2, <2>3 DEF Found
<1>4. TypeOK'
  BY <1>2, <1>3 DEF Bookkeeping, TypeOK
<1>5. AtCall'
  BY <1>2 DEF Bookkeeping, AtCall
<1>6. Queued'
  <2>1. \A t : Queue(t)' = Queue(t)
    BY <1>2, QueueFixed
  <2>2. queues = [t \in DOMAIN queues |-> queues[t]] /\ s \in DOMAIN queues
    BY <1>1 DEF Bookkeeping, Queued
  <2>3. /\ DOMAIN queues' = DOMAIN queues
        /\ queues' = [t \in DOMAIN queues' |-> queues'[t]]
        /\ \A t \in DOMAIN queues : queues'[t] \subseteq queues[t] /\ (t # s => queues'[t] = queues[t])
    BY <1>3, <2>2
  <2>4. pass' \subseteq Open'
    BY <1>3, <2>3 DEF Bookkeeping, Queued, Open
  <2> QED
    BY <1>2, <2>1, <2>3, <2>4 DEF Bookkeeping, Queued
<1> QED
  BY <1>4, <1>5, <1>6 DEF Bookkeeping

\* One entry of a table is replaced.
LEMMA TableEntry ==
  ASSUME NEW A, NEW B, NEW C, NEW f \in [A -> [B -> C]], NEW a \in A, NEW b \in B, NEW c \in C
  PROVE  /\ [f EXCEPT ![a][b] = c] \in [A -> [B -> C]]
         /\ \A x \in A, y \in B :
              [f EXCEPT ![a][b] = c][x][y] = IF x = a /\ y = b THEN c ELSE f[x][y]
<1>1. f[a] \in [B -> C]
  OBVIOUS
<1> DEFINE row == [f[a] EXCEPT ![b] = c]
<1>2. row \in [B -> C] /\ \A y \in B : row[y] = IF y = b THEN c ELSE f[a][y]
  BY <1>1
<1>3. [f EXCEPT ![a][b] = c] = [f EXCEPT ![a] = row]
  OBVIOUS
<1> HIDE DEF row
<1> QED
  BY <1>2, <1>3

LEMMA EndKeeps ==
  ASSUME Bookkeeping, EndDraw
  PROVE  Bookkeeping'
<1> USE DEF Bookkeeping, EndDraw
<1>1. split \in Corpora /\ draw \in 1..Len(Draws[split]) /\ Len(Draws[split]) \in Nat
  BY LengthIs DEF TypeOK, AtCall
<1>2. Current.axis \in Range(Axes)
  BY <1>1, CallsAxis DEF Current
<1>3. selected' \in [Corpora -> [Range(Axes) -> Seq(Rows)]]
  <2>1. selected[split][Current.axis] \o got \in Seq(Rows)
    BY <1>1, <1>2 DEF TypeOK
  <2> DEFINE axis == Current.axis
             rows == selected[split][axis] \o got
  <2>2. selected' = [selected EXCEPT ![split][axis] = rows] \/ selected' = selected
    OBVIOUS
  <2>3. rows \in Seq(Rows) /\ axis \in Range(Axes)
    BY <1>2, <2>1
  <2> HIDE DEF axis, rows
  <2> QED
    <3>1. selected \in [Corpora -> [Range(Axes) -> Seq(Rows)]] /\ split \in Corpora
      BY <1>1 DEF TypeOK
    <3>2. [selected EXCEPT ![split][axis] = rows] \in [Corpora -> [Range(Axes) -> Seq(Rows)]]
      BY <2>3, <3>1, TableEntry, Zenon
    <3> QED
      BY <2>2, <3>1, <3>2
<1>4. TypeOK'
  BY <1>3 DEF TypeOK, Stages
<1>5. AtCall'
  BY <1>1 DEF AtCall
<1>6. Queued'
  <2>1. DOMAIN queues' = {} /\ queues' = [t \in DOMAIN queues' |-> queues'[t]]
    OBVIOUS
  <2> QED
    BY <2>1 DEF Queued, Open
<1> QED
  BY <1>4, <1>5, <1>6

\* No other step touches a queue.
LEMMA OthersKeep ==
  ASSUME Bookkeeping,
         EndSplit \/ Screen \/ StageFile \/ PromoteFile \/ CheckSplits \/ Crash \/ Start
           \/ ClearOutput \/ UNCHANGED vars
  PROVE  Bookkeeping'
<1>1. TypeOK'
  <2>1. Nothing \in [Corpora -> [Range(Axes) -> Seq(Rows)]]
    BY DEF Nothing
  <2>2. TypeOK
    BY DEF Bookkeeping
  <2>3. CASE EndSplit
    BY <2>2, <2>3 DEF TypeOK, Stages, Corpora, EndSplit, drawVars
  <2>4. CASE Screen
    BY <2>2, <2>4 DEF TypeOK, Stages, Screen, drawVars
  <2>5. CASE StageFile \/ CheckSplits \/ UNCHANGED vars
    BY <2>2, <2>5 DEF TypeOK, Stages, StageFile, CheckSplits, vars, drawVars
  <2>6. CASE PromoteFile
    BY <2>2, <2>6 DEF TypeOK, Stages, PromoteFile, drawVars
  <2>7. CASE Crash
    BY <2>1, <2>2, <2>7 DEF TypeOK, Stages, Corpora, Crash
  <2>8. CASE Start \/ ClearOutput
    BY <2>2, <2>8 DEF TypeOK, Stages, Start, ClearOutput, drawVars
  <2> QED
    BY <2>3, <2>4, <2>5, <2>6, <2>7, <2>8
<1>2. AtCall'
  BY LengthIs DEF Bookkeeping, AtCall, TypeOK, Stages, Corpora, EndSplit, Screen, StageFile, PromoteFile,
         CheckSplits, Crash, Start, ClearOutput, vars, drawVars
<1>3. Queued'
  <2>1. CASE UNCHANGED vars
    <3>1. \A t : Queue(t)' = Queue(t)
      BY <2>1, QueueFixed DEF vars
    <3> QED
      BY <2>1, <3>1 DEF Bookkeeping, Queued, Open, vars
  <2>2. CASE ~ UNCHANGED vars
    <3>1. /\ queues' = <<>> /\ pass' = {} /\ got' = <<>> /\ pc' # "draw"
      BY <2>2 DEF Bookkeeping, Queued, AtCall, EndSplit, Screen, StageFile, PromoteFile,
         CheckSplits, Crash, Start, ClearOutput, drawVars
    <3>2. DOMAIN queues' = {} /\ queues' = [t \in DOMAIN queues' |-> queues'[t]]
      BY <3>1
    <3> QED
      BY <3>1, <3>2 DEF Queued, Open
  <2> QED
    BY <2>1, <2>2
<1> QED
  BY <1>1, <1>2, <1>3 DEF Bookkeeping

\* What build is about and has selected is well formed, and its queues hold
\* rows of their strata.
THEOREM QueuesAreOfTheirStrata == Spec => []Bookkeeping
<1>1. Bookkeeping /\ [Next]_vars => Bookkeeping'
  BY BeginKeeps, PassKeeps, VisitKeeps, EndKeeps, OthersKeep DEF Next, Build
<1> QED
  BY <1>1, InitBookkeeping, PTL DEF Spec

-----------------------------------------------------------------------------
(* The strata take turns.                                                    *)

CountIn(rows, s) == Cardinality({i \in DOMAIN rows : Stratum(rows[i]) = s})

LEMMA CountIsNat ==
  ASSUME NEW rows \in Seq(Rows), NEW s
  PROVE  CountIn(rows, s) \in Nat
<1> DEFINE S == {i \in DOMAIN rows : Stratum(rows[i]) = s}
<1>1. Len(rows) \in Nat /\ S \in SUBSET (1..Len(rows))
  OBVIOUS
<1>2. IsFiniteSet(1..Len(rows))
  BY <1>1, FS_Interval
<1> HIDE DEF S
<1>3. IsFiniteSet(S)
  BY <1>1, <1>2, FS_Subset
<1> QED
  BY <1>3, FS_CardinalityType DEF CountIn, S

LEMMA CountGrows ==
  ASSUME NEW rows \in Seq(Rows), NEW row \in Rows, NEW s
  PROVE  CountIn(Append(rows, row), s) =
           IF Stratum(row) = s THEN CountIn(rows, s) + 1 ELSE CountIn(rows, s)
<1> DEFINE more == Append(rows, row)
           n == Len(rows)
           S == {i \in DOMAIN rows : Stratum(rows[i]) = s}
           T == {i \in DOMAIN more : Stratum(more[i]) = s}
<1>1. /\ n \in Nat /\ DOMAIN rows = 1..n /\ DOMAIN more = 1..(n + 1)
      /\ more[n + 1] = row /\ \A i \in 1..n : more[i] = rows[i]
  OBVIOUS
<1> HIDE DEF more, n
<1>2. T = IF Stratum(row) = s THEN S \cup {n + 1} ELSE S
  BY <1>1
<1>3. S \in SUBSET (1..n) /\ n + 1 \notin S
  BY <1>1
<1>4. IsFiniteSet(1..n)
  BY <1>1, FS_Interval
<1> HIDE DEF S, T
<1>5. IsFiniteSet(S)
  BY <1>3, <1>4, FS_Subset
<1>6. Cardinality(S \cup {n + 1}) = Cardinality(S) + 1
  BY <1>3, <1>5, FS_AddElement
<1> QED
  BY <1>2, <1>6 DEF CountIn, S, T, more

\* How many turns a stratum has had or will have had after this pass.
Turns(s) == CountIn(got, s) + (IF s \in pass THEN 1 ELSE 0)

\* A stratum with a row left has as many turns as any other.
InTurn == \A a, b \in DOMAIN queues : queues[b] # {} => Turns(a) <= Turns(b)

LEMMA TurnsAre ==
  ASSUME Bookkeeping, NEW s
  PROVE  CountIn(got, s) \in Nat /\ Turns(s) \in Nat
BY CountIsNat DEF Bookkeeping, TypeOK, Turns

LEMMA PassInTurn ==
  ASSUME Bookkeeping, InTurn, NextPass
  PROVE  InTurn'
<1> SUFFICES ASSUME NEW a \in DOMAIN queues, NEW b \in DOMAIN queues, queues[b] # {}
             PROVE  Turns(a)' <= Turns(b)'
  BY DEF InTurn, NextPass
<1>1. CountIn(got, a) <= CountIn(got, b)
  BY TurnsAre DEF InTurn, Turns, NextPass
<1>2. b \in pass'
  BY DEF NextPass, Open
<1> QED
  BY <1>1, <1>2, TurnsAre DEF Turns, NextPass

LEMMA VisitInTurn ==
  ASSUME Bookkeeping, InTurn, Visit
  PROVE  InTurn'
<1>1. PICK s \in pass :
           /\ s \in DOMAIN queues /\ queues[s] # {}
           /\ \/ Dropped(s)
              \/ \E row \in Rows : Matches(row) /\ Stratum(row) = s /\ Usable(row) /\ Found(s, row)
  BY VisitIs
<1>2. got \in Seq(Rows) /\ queues = [t \in DOMAIN queues |-> queues[t]]
  BY DEF Bookkeeping, TypeOK, Queued
<1>3. CASE Dropped(s)
  <2>1. /\ DOMAIN queues' = DOMAIN queues /\ queues'[s] = {}
        /\ \A t \in DOMAIN queues \ {s} : queues'[t] = queues[t]
    BY <1>1, <1>2, <1>3 DEF Dropped
  <2>2. \A t : Turns(t)' = IF t = s THEN Turns(t) - 1 ELSE Turns(t)
    BY <1>1, <1>3, TurnsAre DEF Dropped, Turns
  <2> QED
    BY <1>1, <2>1, <2>2, TurnsAre DEF InTurn
<1>4. ASSUME NEW row \in Rows, Stratum(row) = s, Found(s, row)
      PROVE  InTurn'
  <2>1. /\ DOMAIN queues' = DOMAIN queues /\ queues'[s] \subseteq queues[s]
        /\ \A t \in DOMAIN queues \ {s} : queues'[t] = queues[t]
    BY <1>1, <1>2, <1>4 DEF Found
  <2>2. \A t : CountIn(got', t) = IF t = s THEN CountIn(got, t) + 1 ELSE CountIn(got, t)
    BY <1>2, <1>4, CountGrows DEF Found
  <2>3. \A t : Turns(t)' = Turns(t)
    BY <1>1, <1>4, <2>2, TurnsAre DEF Found, Turns
  <2> QED
    BY <1>1, <2>1, <2>3 DEF InTurn
<1> QED
  BY <1>1, <1>3, <1>4

\* A pass gives every stratum that has a row left one turn: none is two rows
\* ahead of a stratum that has rows, at any moment of any call.
THEOREM StrataTakeTurns == Spec => []FairRounds
<1>1. Init => InTurn
  BY DEF Init, InTurn
<1>2. Bookkeeping /\ Bookkeeping' /\ InTurn /\ [Next]_vars => InTurn'
  <2> SUFFICES ASSUME Bookkeeping, Bookkeeping', InTurn, [Next]_vars
               PROVE  InTurn'
    OBVIOUS
  <2>1. CASE BeginDraw
    <3>1. \A t : CountIn(got', t) = CountIn(<<>>, t)
      BY <2>1 DEF BeginDraw
    <3>2. \A t : CountIn(<<>>, t) = 0
      BY FS_EmptySet DEF CountIn
    <3>3. pass' = {}
      BY <2>1 DEF BeginDraw
    <3> QED
      BY <3>1, <3>2, <3>3 DEF InTurn, Turns
  <2>2. CASE NextPass
    BY <2>2, PassInTurn
  <2>3. CASE Visit
    BY <2>3, VisitInTurn
  <2>4. CASE EndDraw
    BY <2>4 DEF EndDraw, InTurn
  <2>5. CASE EndSplit \/ Screen \/ StageFile \/ PromoteFile \/ CheckSplits \/ Start
             \/ ClearOutput \/ UNCHANGED vars
    <3>1. UNCHANGED <<queues, pass, got>>
      BY <2>5 DEF EndSplit, Screen, StageFile, PromoteFile, CheckSplits, Start, ClearOutput,
                  vars, drawVars
    <3> QED
      BY <3>1 DEF InTurn, Turns
  <2>6. CASE Crash
    BY <2>6 DEF Crash, InTurn
  <2> QED
    BY <2>1, <2>2, <2>3, <2>4, <2>5, <2>6 DEF Next, Build
<1>3. Bookkeeping /\ InTurn => FairRounds
  <2> SUFFICES ASSUME Bookkeeping, InTurn, NEW a \in DOMAIN queues, NEW b \in DOMAIN queues,
                      queues[b] # {}
               PROVE  ~ (Count(a) > Count(b) + 1)
    BY DEF FairRounds
  <2>1. Turns(a) <= Turns(b)
    BY DEF InTurn
  <2>2. Count(a) = CountIn(got, a) /\ Count(b) = CountIn(got, b)
    BY DEF Count, CountIn
  <2> QED
    BY <2>1, <2>2, TurnsAre DEF Turns
<1> QED
  BY <1>1, <1>2, <1>3, QueuesAreOfTheirStrata, PTL DEF Spec

-----------------------------------------------------------------------------
(* What is drawn.                                                            *)

DomainOf(axis) ==
  CASE axis = "code_agentic" -> "code"
    [] axis \in {"general", "reasoning_termination"} -> "wiki"
    [] axis = "math_reasoning" -> "math"
    [] axis = "structured_output" -> "structured"
FirstCall(s, axis) ==
  CASE axis = "reasoning_termination" -> 1
    [] axis = "general" -> 4
    [] axis = "code_agentic" -> 7
    [] axis = "math_reasoning" -> First(s) + 8
    [] axis = "structured_output" -> First(s) + 10
Shared == {"reasoning_termination", "code_agentic"}

\* Two draws of a corpus, for these axes.
Apart(row, other, a, b) ==
  /\ Identity(row) # Identity(other)
  /\ Group(row) = Group(other) => a = b /\ a \in Shared

\* A row is of its corpus' groups and of its axis' bank, and it fits.
Fits(row, s, axis) == SplitOf(row) = s /\ row.domain = DomainOf(axis) /\ Eligible(row)
AllFit ==
  /\ \A s \in Corpora, a \in Range(Axes) :
       \A i \in DOMAIN selected[s][a] : Fits(selected[s][a][i], s, a)
  /\ pc = "draw" => \A i \in DOMAIN got : Fits(got[i], split, Current.axis)

\* What the running call has drawn is new.
AllNew ==
  pc = "draw" =>
    /\ \A i, j \in DOMAIN got : i # j => Apart(got[i], got[j], Current.axis, Current.axis)
    /\ \A a \in Range(Axes) : \A i \in DOMAIN got, j \in DOMAIN selected[split][a] :
         Apart(got[i], selected[split][a][j], Current.axis, a)

\* Nothing is there ahead of the first call for it.
Pending ==
  /\ pc \in {"select", "draw"} => \A a \in Range(Axes) :
       draw <= FirstCall(split, a) => selected[split][a] = <<>>
  /\ pc \in {"select", "draw"} /\ split = "calibration" =>
       \A a \in Range(Axes) : selected["heldout"][a] = <<>>

Drawn == AllFit /\ AllNew /\ Pending /\ DrawnOnce

\* What a call's axis says of the call.
LEMMA CallsOwnAxis ==
  ASSUME NEW s \in Corpora, NEW d \in 1..Len(Draws[s])
  PROVE  LET c == Draws[s][d]
         IN /\ c.axis \in Range(Axes)
            /\ c.domain = DomainOf(c.axis)
            /\ d >= FirstCall(s, c.axis)
            /\ ~ c.unique => c.axis \in Shared
            /\ c.axis = "reasoning_termination" => d <= 3
<1> DEFINE c == Draws[s][d]
<1>0. CallAt(s, d) /\ First(s) \in Nat
  BY CallsAre, FirstIs
<1>1. CASE c.axis = "reasoning_termination"
  BY <1>0, <1>1, AxesAre DEF CallAt, IsCall, DomainOf, FirstCall, Shared
<1>2. CASE c.axis = "general"
  BY <1>0, <1>2, AxesAre DEF CallAt, IsCall, DomainOf, FirstCall, Shared
<1>3. CASE c.axis = "code_agentic"
  BY <1>0, <1>3, AxesAre DEF CallAt, IsCall, DomainOf, FirstCall, Shared
<1>4. CASE c.axis = "math_reasoning"
  BY <1>0, <1>4, AxesAre DEF CallAt, IsCall, DomainOf, FirstCall, Shared
<1>5. CASE c.axis = "structured_output"
  BY <1>0, <1>5, AxesAre DEF CallAt, IsCall, DomainOf, FirstCall, Shared
<1> QED
  BY <1>1, <1>2, <1>3, <1>4, <1>5, CallsAxis, AxesAre

LEMMA CurrentIs ==
  ASSUME Bookkeeping, pc = "draw"
  PROVE  /\ split \in Corpora /\ Current = Draws[split][draw] /\ draw \in 1..Len(Draws[split])
         /\ Current.axis \in Range(Axes)
         /\ Current.domain = DomainOf(Current.axis)
         /\ draw >= FirstCall(split, Current.axis)
         /\ ~ Current.unique => Current.axis \in Shared
         /\ Current.axis = "reasoning_termination" => draw <= 3
<1>1. split \in Corpora /\ draw \in 1..Len(Draws[split])
  BY LengthIs DEF Bookkeeping, TypeOK, AtCall
<1> QED
  BY <1>1, CallsOwnAxis DEF Current

\* A usable row has none taken beside it that it could be confused with.
LEMMA UsableIsApart ==
  ASSUME Bookkeeping, Drawn, pc = "draw", NEW row \in Rows, Matches(row), Usable(row)
  PROVE  /\ Fits(row, split, Current.axis)
         /\ \A j \in DOMAIN got : Apart(row, got[j], Current.axis, Current.axis)
         /\ \A a \in Range(Axes) : \A j \in DOMAIN selected[split][a] :
              Apart(row, selected[split][a][j], Current.axis, a)
<1>1. Fits(row, split, Current.axis)
  BY CurrentIs DEF Fits, Matches, Usable
<1>2. ASSUME NEW j \in DOMAIN got
      PROVE  Apart(row, got[j], Current.axis, Current.axis)
  <2>1. got[j] \in Taken
    BY DEF Taken, Range
  <2> QED
    BY <2>1, CurrentIs DEF Usable, Apart
<1>3. ASSUME NEW a \in Range(Axes), NEW j \in DOMAIN selected[split][a]
      PROVE  Apart(row, selected[split][a][j], Current.axis, a)
  <2> DEFINE other == selected[split][a][j]
  <2>1. other \in Taken
    BY DEF Taken, Range
  <2>2. Identity(row) # Identity(other)
    BY <2>1 DEF Usable
  <2>3. ASSUME Group(row) = Group(other)
        PROVE  a = Current.axis /\ a \in Shared
    <3>1. Current.axis \in Shared
      BY <2>1, <2>3, CurrentIs DEF Usable
    <3>2. row.domain = other.domain
      BY <2>3 DEF Group
    <3>3. DomainOf(a) = DomainOf(Current.axis)
      BY <1>1, <3>2, CurrentIs DEF Drawn, AllFit, Fits
    <3>4. ~ (Current.axis = "reasoning_termination" /\ a = "general")
      <4> SUFFICES ASSUME Current.axis = "reasoning_termination", a = "general"
                   PROVE  FALSE
        OBVIOUS
      <4>1. draw <= FirstCall(split, "general") /\ split \in Corpora
        BY CurrentIs DEF FirstCall
      <4>2. selected[split][a] = <<>>
        BY <4>1 DEF Drawn, Pending
      <4> QED
        BY <4>2
    <3> QED
      BY <3>1, <3>3, <3>4, AxesAre DEF DomainOf, Shared
  <2> QED
    BY <2>2, <2>3 DEF Apart
<1> QED
  BY <1>1, <1>2, <1>3

\* The seed never changes.
LEMMA FitsFixed ==
  ASSUME seed' = seed
  PROVE  \A row, s, a : Fits(row, s, a)' <=> Fits(row, s, a)
BY DEF Fits, SplitOf

LEMMA SeedFixed ==
  ASSUME [Next]_vars
  PROVE  seed' = seed
BY DEF Next, Build, Start, BeginDraw, NextPass, Visit, EndDraw, EndSplit, Screen, StageFile,
       PromoteFile, CheckSplits, Crash, ClearOutput, vars

LEMMA BeginDrawn ==
  ASSUME Bookkeeping, Drawn, BeginDraw
  PROVE  Drawn'
<1> USE DEF BeginDraw
<1>1. AllFit'
  BY FitsFixed DEF Drawn, AllFit
<1>2. AllNew'
  BY DEF AllNew
<1>3. Pending'
  BY DEF Drawn, Pending
<1>4. DrawnOnce'
  BY DEF Drawn, DrawnOnce
<1> QED
  BY <1>1, <1>2, <1>3, <1>4 DEF Drawn

\* A visit that finds nothing, and the next pass, draw nothing.
LEMMA SameDrawn ==
  ASSUME Bookkeeping, Drawn, pc = "draw", UNCHANGED <<pc, seed, split, draw, got, selected>>
  PROVE  Drawn'
<1>0. Current' = Current
  BY DEF Current
<1>1. AllFit'
  BY <1>0, FitsFixed DEF Drawn, AllFit
<1>2. AllNew'
  BY <1>0 DEF Drawn, AllNew
<1>3. Pending'
  BY DEF Drawn, Pending
<1>4. DrawnOnce'
  BY DEF Drawn, DrawnOnce
<1> QED
  BY <1>1, <1>2, <1>3, <1>4 DEF Drawn

\* A visit that finds a row.
LEMMA MoreDrawn ==
  ASSUME Bookkeeping, Drawn, pc = "draw", UNCHANGED <<pc, seed, split, draw, selected>>,
         NEW row \in Rows, Matches(row), Usable(row), got' = Append(got, row)
  PROVE  Drawn'
<1>0. Current' = Current
  BY DEF Current
<1>1. /\ Len(got) \in Nat /\ DOMAIN got = 1..Len(got) /\ DOMAIN got' = 1..(Len(got) + 1)
      /\ \A i \in 1..Len(got) : got'[i] = got[i]
      /\ got'[Len(got) + 1] = row
  BY DEF Bookkeeping, TypeOK
<1> DEFINE axis == Current.axis
<1>2. /\ Fits(row, split, axis)
      /\ \A j \in DOMAIN got : Apart(row, got[j], axis, axis) /\ Apart(got[j], row, axis, axis)
      /\ \A a \in Range(Axes) : \A j \in DOMAIN selected[split][a] :
           Apart(row, selected[split][a][j], axis, a)
  BY UsableIsApart DEF Apart
<1>3. AllFit'
  <2>1. \A i \in DOMAIN got' : Fits(got'[i], split, axis)
    BY <1>1, <1>2 DEF Drawn, AllFit
  <2> QED
    BY <1>0, <2>1, FitsFixed DEF Drawn, AllFit
<1>4. AllNew'
  <2>1. \A i, j \in DOMAIN got' : i # j => Apart(got'[i], got'[j], axis, axis)
    BY <1>1, <1>2 DEF Drawn, AllNew
  <2>2. \A a \in Range(Axes) : \A i \in DOMAIN got', j \in DOMAIN selected[split][a] :
          Apart(got'[i], selected[split][a][j], axis, a)
    BY <1>1, <1>2 DEF Drawn, AllNew
  <2> QED
    BY <1>0, <2>1, <2>2 DEF AllNew
<1>5. Pending'
  BY DEF Drawn, Pending
<1>6. DrawnOnce'
  BY DEF Drawn, DrawnOnce
<1> QED
  BY <1>3, <1>4, <1>5, <1>6 DEF Drawn

LEMMA VisitDrawn ==
  ASSUME Bookkeeping, Drawn, Visit
  PROVE  Drawn'
<1>1. pc = "draw" /\ UNCHANGED <<pc, seed, split, draw, selected>>
  BY DEF Visit
<1>2. PICK s \in pass :
        \/ Dropped(s)
        \/ \E row \in Rows : Matches(row) /\ Stratum(row) = s /\ Usable(row) /\ Found(s, row)
  BY VisitIs
<1>3. CASE Dropped(s)
  BY <1>1, <1>3, SameDrawn DEF Dropped
<1>4. ASSUME NEW row \in Rows, Matches(row), Usable(row), Found(s, row)
      PROVE  Drawn'
  BY <1>1, <1>4, MoreDrawn DEF Found
<1> QED
  BY <1>2, <1>3, <1>4

\* What a call has drawn joins its axis, or the build fails.
Joined ==
  /\ pc = "draw" /\ pc' = "select"
  /\ draw' = draw + 1
  /\ selected' \in [Corpora -> [Range(Axes) -> Seq(Rows)]]
  /\ \A s \in Corpora, a \in Range(Axes) :
       selected'[s][a] = IF s = split /\ a = Current.axis THEN selected[s][a] \o got
                                                          ELSE selected[s][a]
Failed == pc' = "failed" /\ UNCHANGED <<draw, selected>>

LEMMA EndIs ==
  ASSUME Bookkeeping, EndDraw
  PROVE  /\ pc = "draw" /\ got' = <<>> /\ UNCHANGED <<seed, split, screening>>
         /\ Joined \/ Failed
<1>1. /\ split \in Corpora /\ Current.axis \in Range(Axes)
      /\ selected \in [Corpora -> [Range(Axes) -> Seq(Rows)]] /\ got \in Seq(Rows)
  BY CurrentIs DEF EndDraw, Bookkeeping, TypeOK
<1> DEFINE axis == Current.axis
           rows == selected[split][axis] \o got
<1>2. rows \in Seq(Rows)
  BY <1>1
<1>3. Failed \/ (pc' = "select" /\ draw' = draw + 1 /\ selected' = [selected EXCEPT ![split][axis] = rows])
  BY DEF EndDraw, Failed
<1>4. ASSUME pc' = "select", draw' = draw + 1, selected' = [selected EXCEPT ![split][axis] = rows]
      PROVE  Joined
  <2>1. pc = "draw"
    BY DEF EndDraw
  <2> HIDE DEF rows
  <2>2. axis \in Range(Axes)
    BY <1>1
  <2> HIDE DEF axis
  <2>3. /\ selected' \in [Corpora -> [Range(Axes) -> Seq(Rows)]]
        /\ \A s \in Corpora, a \in Range(Axes) :
             selected'[s][a] = IF s = split /\ a = axis THEN rows ELSE selected[s][a]
    <3>1. /\ [selected EXCEPT ![split][axis] = rows] \in [Corpora -> [Range(Axes) -> Seq(Rows)]]
          /\ \A s \in Corpora, a \in Range(Axes) :
               [selected EXCEPT ![split][axis] = rows][s][a] =
                 IF s = split /\ a = axis THEN rows ELSE selected[s][a]
      BY <1>1, <1>2, <2>2, TableEntry, Zenon
    <3> QED
      BY <1>4, <3>1, Zenon
  <2> QED
    BY <1>4, <2>1, <2>3 DEF Joined, rows, axis
<1> QED
  BY <1>3, <1>4 DEF EndDraw

\* Each row of two sequences put together is of one of them.
LEMMA PartsOf ==
  ASSUME NEW s \in Seq(Rows), NEW t \in Seq(Rows), NEW i \in DOMAIN (s \o t)
  PROVE  \/ i \in DOMAIN s /\ (s \o t)[i] = s[i]
         \/ \E k \in DOMAIN t : i = Len(s) + k /\ (s \o t)[i] = t[k]
<1>1. /\ Len(s) \in Nat /\ Len(t) \in Nat /\ i \in 1..(Len(s) + Len(t))
      /\ (s \o t)[i] = IF i <= Len(s) THEN s[i] ELSE t[i - Len(s)]
      /\ DOMAIN s = 1..Len(s) /\ DOMAIN t = 1..Len(t)
  BY ConcatProperties
<1>2. CASE i <= Len(s)
  BY <1>1, <1>2
<1>3. CASE ~ (i <= Len(s))
  <2> DEFINE k == i - Len(s)
  <2>1. k \in DOMAIN t /\ i = Len(s) + k
    BY <1>1, <1>3
  <2> QED
    BY <1>1, <1>3, <2>1
<1> QED
  BY <1>2, <1>3

LEMMA JoinDrawn ==
  ASSUME Bookkeeping, Drawn, Joined, UNCHANGED <<seed, split>>, got' = <<>>
  PROVE  Drawn'
<1> DEFINE axis == Current.axis
           old == selected[split][axis]
           all == old \o got
<1>1. /\ split \in Corpora /\ axis \in Range(Axes) /\ old \in Seq(Rows) /\ got \in Seq(Rows)
      /\ draw >= FirstCall(split, axis) /\ draw \in Nat
  BY CurrentIs DEF Joined, Bookkeeping, TypeOK
<1>2. /\ \A s \in Corpora, a \in Range(Axes) :
           ~ (s = split /\ a = axis) => selected'[s][a] = selected[s][a]
      /\ selected'[split][axis] = all
  BY <1>1 DEF Joined
<1>3. ASSUME NEW i \in DOMAIN all
      PROVE  \/ i \in DOMAIN old /\ all[i] = old[i]
             \/ \E k \in DOMAIN got : i = Len(old) + k /\ all[i] = got[k]
  BY <1>1, PartsOf
<1>4. pc = "draw" /\ pc' = "select" /\ draw' = draw + 1
  BY DEF Joined
<1>5. Current.axis = axis
  OBVIOUS
<1> HIDE DEF axis, all, old
<1>6. AllFit'
  <2>1. ASSUME NEW s \in Corpora, NEW a \in Range(Axes), NEW i \in DOMAIN selected'[s][a]
        PROVE  Fits(selected'[s][a][i], s, a)
    <3>1. CASE s = split /\ a = axis
      BY <1>2, <1>3, <1>4, <1>5, <3>1 DEF Drawn, AllFit, old
    <3>2. CASE ~ (s = split /\ a = axis)
      BY <1>2, <3>2 DEF Drawn, AllFit
    <3> QED
      BY <3>1, <3>2
  <2> QED
    BY <1>4, <2>1, FitsFixed DEF AllFit
<1>7. AllNew'
  BY <1>4 DEF AllNew
<1>8. Pending'
  <2>1. ASSUME NEW a \in Range(Axes), draw' <= FirstCall(split, a)
        PROVE  selected'[split][a] = <<>>
    <3>1. FirstCall(split, a) \in Nat
      BY <1>1, AxesAre, FirstIs DEF FirstCall
    <3>2. a # axis /\ draw <= FirstCall(split, a)
      BY <1>1, <1>4, <2>1, <3>1
    <3> QED
      BY <1>1, <1>2, <1>4, <3>2 DEF Drawn, Pending
  <2>2. ASSUME split = "calibration", NEW a \in Range(Axes)
        PROVE  selected'["heldout"][a] = <<>>
    BY <1>2, <1>4, <2>2 DEF Drawn, Pending, Corpora
  <2> QED
    BY <2>1, <2>2 DEF Pending
<1>9. DrawnOnce'
  <2> SUFFICES ASSUME NEW s \in Corpora, NEW a \in Range(Axes), NEW b \in Range(Axes),
                      NEW i \in DOMAIN selected'[s][a], NEW j \in DOMAIN selected'[s][b],
                      <<a, i>> # <<b, j>>
               PROVE  Apart(selected'[s][a][i], selected'[s][b][j], a, b)
    BY DEF DrawnOnce, Apart, Shared
  <2>1. ASSUME NEW c \in Range(Axes), NEW d \in Range(Axes),
               NEW k \in DOMAIN selected[s][c], NEW l \in DOMAIN selected[s][d],
               <<c, k>> # <<d, l>>
        PROVE  Apart(selected[s][c][k], selected[s][d][l], c, d)
    BY <2>1 DEF Drawn, DrawnOnce, Apart, Shared
  <2>2. ASSUME s = split, NEW c \in Range(Axes), NEW k \in DOMAIN got, NEW l \in DOMAIN selected[s][c]
        PROVE  Apart(got[k], selected[s][c][l], axis, c) /\ Apart(selected[s][c][l], got[k], c, axis)
    BY <1>4, <1>5, <2>2 DEF Drawn, AllNew, Apart
  <2>3. CASE s # split \/ (a # axis /\ b # axis)
    BY <1>2, <2>1, <2>3
  <2>4. CASE s = split /\ a = axis /\ b = axis
    <3>1. i \in DOMAIN all /\ j \in DOMAIN all /\ i # j
      BY <1>2, <2>4
    <3>2. CASE i \in DOMAIN old /\ all[i] = old[i] /\ j \in DOMAIN old /\ all[j] = old[j]
      BY <1>2, <2>1, <2>4, <3>1, <3>2 DEF old
    <3>3. ASSUME NEW k \in DOMAIN got, i = Len(old) + k, all[i] = got[k],
                 j \in DOMAIN old, all[j] = old[j]
          PROVE  Apart(all[i], all[j], axis, axis)
      BY <1>1, <2>2, <2>4, <3>3 DEF old
    <3>4. ASSUME NEW k \in DOMAIN got, j = Len(old) + k, all[j] = got[k],
                 i \in DOMAIN old, all[i] = old[i]
          PROVE  Apart(all[i], all[j], axis, axis)
      BY <1>1, <2>2, <2>4, <3>4 DEF old
    <3>5. ASSUME NEW k \in DOMAIN got, j = Len(old) + k, all[j] = got[k],
                 NEW l \in DOMAIN got, i = Len(old) + l, all[i] = got[l]
          PROVE  Apart(all[i], all[j], axis, axis)
      BY <1>4, <1>5, <3>1, <3>5 DEF Drawn, AllNew
    <3> QED
      BY <1>2, <1>3, <2>4, <3>1, <3>2, <3>3, <3>4, <3>5
  <2>5. CASE s = split /\ a = axis /\ b # axis
    <3>1. i \in DOMAIN all /\ selected'[s][b] = selected[s][b] /\ selected'[s][a] = all
      BY <1>2, <2>5
    <3>2. CASE i \in DOMAIN old /\ all[i] = old[i]
      BY <2>1, <2>5, <3>1, <3>2 DEF old
    <3>3. ASSUME NEW k \in DOMAIN got, all[i] = got[k]
          PROVE  Apart(all[i], selected[s][b][j], a, b)
      BY <2>2, <2>5, <3>1, <3>3
    <3> QED
      BY <1>3, <3>1, <3>2, <3>3
  <2>6. CASE s = split /\ a # axis /\ b = axis
    <3>1. j \in DOMAIN all /\ selected'[s][a] = selected[s][a] /\ selected'[s][b] = all
      BY <1>2, <2>6
    <3>2. CASE j \in DOMAIN old /\ all[j] = old[j]
      BY <2>1, <2>6, <3>1, <3>2 DEF old
    <3>3. ASSUME NEW k \in DOMAIN got, all[j] = got[k]
          PROVE  Apart(selected[s][a][i], all[j], a, b)
      BY <2>2, <2>6, <3>1, <3>3
    <3> QED
      BY <1>3, <3>1, <3>2, <3>3
  <2> QED
    BY <2>3, <2>4, <2>5, <2>6
<1> QED
  BY <1>6, <1>7, <1>8, <1>9 DEF Drawn

LEMMA EndDrawn ==
  ASSUME Bookkeeping, Drawn, EndDraw
  PROVE  Drawn'
<1>1. /\ pc = "draw" /\ got' = <<>> /\ UNCHANGED <<seed, split>>
      /\ Joined \/ Failed
  BY EndIs
<1>2. CASE Joined
  BY <1>1, <1>2, JoinDrawn
<1>3. CASE Failed
  <2>1. AllFit' /\ AllNew' /\ Pending'
    BY <1>1, <1>3, FitsFixed DEF Failed, Drawn, AllFit, AllNew, Pending
  <2>2. DrawnOnce'
    BY <1>3 DEF Failed, Drawn, DrawnOnce
  <2> QED
    BY <2>1, <2>2 DEF Drawn
<1> QED
  BY <1>1, <1>2, <1>3

\* Nothing is drawn yet.
LEMMA NothingDrawn ==
  ASSUME selected = Nothing, pc = "start"
  PROVE  Drawn
<1>1. \A s \in Corpora, a \in Range(Axes) : selected[s][a] = <<>>
  BY DEF Nothing
<1>2. \A s \in Corpora, a \in Range(Axes) : DOMAIN selected[s][a] = {}
  BY <1>1
<1>3. AllFit /\ AllNew /\ Pending
  BY <1>1, <1>2 DEF AllFit, AllNew, Pending
<1>4. DrawnOnce
  BY <1>2 DEF DrawnOnce
<1> QED
  BY <1>3, <1>4 DEF Drawn

LEMMA OthersDrawn ==
  ASSUME Bookkeeping, Drawn,
         EndSplit \/ Screen \/ StageFile \/ PromoteFile \/ CheckSplits \/ Start \/ ClearOutput
           \/ UNCHANGED vars
  PROVE  Drawn'
<1>1. CASE UNCHANGED vars
  <2>1. AllFit' /\ AllNew' /\ Pending'
    BY <1>1, FitsFixed DEF vars, Current, Drawn, AllFit, AllNew, Pending
  <2>2. DrawnOnce'
    BY <1>1 DEF vars, Drawn, DrawnOnce
  <2> QED
    BY <2>1, <2>2 DEF Drawn
<1>2. CASE ~ UNCHANGED vars
  <2>1. pc' # "draw" /\ seed' = seed /\ selected' = selected
    BY <1>2 DEF EndSplit, Screen, StageFile, PromoteFile, CheckSplits, Start, ClearOutput
  <2>2. AllFit' /\ AllNew'
    BY <2>1, FitsFixed DEF Drawn, AllFit, AllNew
  <2>3. DrawnOnce'
    BY <2>1 DEF Drawn, DrawnOnce
  <2>4. Pending'
    <3>1. CASE EndSplit /\ pc' = "select"
      <4>1. split' = "heldout" /\ pc = "select" /\ split = "calibration"
        BY <3>1 DEF EndSplit
      <4> QED
        BY <2>1, <4>1 DEF Drawn, Pending
    <3>2. CASE Start /\ pc' = "select"
      <4>1. selected = Nothing /\ split \in Corpora
        BY <3>2 DEF Start, Bookkeeping, AtCall, Corpora
      <4> QED
        BY <2>1, <3>2, <4>1 DEF Nothing, Pending, Corpora, Start
    <3>3. CASE pc' # "select"
      BY <2>1, <3>3 DEF Pending
    <3>4. pc' = "select" => EndSplit \/ Start
      BY <1>2 DEF EndSplit, Screen, StageFile, PromoteFile, CheckSplits, Start, ClearOutput
    <3> QED
      BY <3>1, <3>2, <3>3, <3>4
  <2> QED
    BY <2>2, <2>3, <2>4 DEF Drawn
<1> QED
  BY <1>1, <1>2

\* And every drawn row is of its corpus' groups and of its axis' bank, and fits.
LEMMA DrawnInvariant == Spec => []Drawn
<1>1. Init => Drawn
  BY NothingDrawn DEF Init
<1>2. Bookkeeping /\ Drawn /\ [Next]_vars => Drawn'
  <2> SUFFICES ASSUME Bookkeeping, Drawn, [Next]_vars
               PROVE  Drawn'
    OBVIOUS
  <2>1. CASE BeginDraw
    BY <2>1, BeginDrawn
  <2>2. CASE NextPass
    BY <2>2, SameDrawn DEF NextPass
  <2>3. CASE Visit
    BY <2>3, VisitDrawn
  <2>4. CASE EndDraw
    BY <2>4, EndDrawn
  <2>5. CASE EndSplit \/ Screen \/ StageFile \/ PromoteFile \/ CheckSplits \/ Start
             \/ ClearOutput \/ UNCHANGED vars
    BY <2>5, OthersDrawn
  <2>6. CASE Crash
    <3>1. selected' = Nothing /\ pc' = "start"
      BY <2>6 DEF Crash
    <3>2. (selected = Nothing /\ pc = "start" => Drawn)'
      BY NothingDrawn, PTL
    <3> QED
      BY <3>1, <3>2 DEF Nothing
  <2> QED
    BY <2>1, <2>2, <2>3, <2>4, <2>5, <2>6 DEF Next, Build
<1> QED
  BY <1>1, <1>2, QueuesAreOfTheirStrata, PTL DEF Spec

\* No row is drawn twice for a corpus, and no group where it must not be.
THEOREM NoRowIsDrawnTwice == Spec => []DrawnOnce
BY DrawnInvariant, PTL DEF Drawn

\* What is screened is of the calibration corpus.
Screened ==
  /\ pc \in {"start", "refused", "select", "draw", "screen"} => screening = {}
  /\ screening \subseteq RowsOf("calibration")
  /\ pc # "overlap"

\* Rows of the two corpora are of different groups.
LEMMA GroupsDiffer ==
  ASSUME Drawn
  PROVE  GroupsOf("calibration") \cap GroupsOf("heldout") = {}
<1> SUFFICES ASSUME NEW row \in RowsOf("calibration"), NEW other \in RowsOf("heldout"),
                    Group(row) = Group(other)
             PROVE  FALSE
  BY DEF GroupsOf
<1>1. \A s \in Corpora : \A r \in RowsOf(s) : SplitOf(r) = s
  BY DEF Drawn, AllFit, Fits, RowsOf, Range
<1>2. SplitOf(row) = "calibration" /\ SplitOf(other) = "heldout"
  BY <1>1 DEF Corpora
<1> QED
  BY <1>2 DEF SplitOf

LEMMA ScreenedIsDrawn ==
  ASSUME NEW axis \in Range(Axes)
  PROVE  ScreeningOf(axis) \subseteq RowsOf("calibration")
<1> DEFINE order == seed.orders.screening
           places == {i \in DOMAIN order : order[i] \in Range(selected["calibration"][axis])}
<1>1. \A row \in ScreeningOf(axis) : \E i \in places : row = order[i]
  BY DEF ScreeningOf
<1>2. \A row \in ScreeningOf(axis) : row \in Range(selected["calibration"][axis])
  BY <1>1
<1> QED
  BY <1>2 DEF RowsOf

\* The check for a group that both corpora hold, which comes when their files
\* are written, never fires.
THEOREM CorporaShareNothing == Spec => [](pc # "overlap")
<1>1. Init => Screened
  BY DEF Init, Screened
<1>2. Bookkeeping /\ Drawn /\ Screened /\ [Next]_vars => Screened'
  <2> SUFFICES ASSUME Bookkeeping, Drawn, Screened, [Next]_vars
               PROVE  Screened'
    OBVIOUS
  <2>0. RowsOf("calibration")' = RowsOf("calibration") \/ selected' # selected
    BY DEF RowsOf
  <2>1. CASE Start \/ BeginDraw \/ NextPass \/ Visit \/ EndSplit \/ StageFile \/ PromoteFile
             \/ ClearOutput \/ UNCHANGED vars
    <3>1. UNCHANGED <<selected, screening>>
      BY <2>1 DEF Start, BeginDraw, NextPass, Visit, EndSplit, StageFile, PromoteFile,
                  ClearOutput, vars
    <3>2. /\ pc' # "overlap"
          /\ pc' \in {"start", "refused", "select", "draw", "screen"} =>
               pc \in {"start", "refused", "select", "draw", "screen"}
      BY <2>1 DEF Start, BeginDraw, NextPass, Visit, EndSplit, StageFile, PromoteFile,
                  ClearOutput, vars, Screened
    <3> QED
      BY <2>0, <3>1, <3>2 DEF Screened
  <2>2. CASE EndDraw
    <3>1. screening' = {} /\ pc' # "overlap"
      BY <2>2 DEF EndDraw, Screened
    <3> QED
      BY <3>1 DEF Screened
  <2>3. CASE Crash
    BY <2>3 DEF Crash, Screened
  <2>4. CASE Screen
    <3>1. selected' = selected /\ pc' \in {"failed", "stage"}
          /\ (screening' = screening
              \/ screening' = UNION {ScreeningOf(axis) : axis \in Range(Axes)})
      BY <2>4 DEF Screen
    <3>2. screening' \subseteq RowsOf("calibration")
      BY <3>1, ScreenedIsDrawn DEF Screened
    <3> QED
      BY <2>0, <3>1, <3>2 DEF Screened
  <2>5. CASE CheckSplits
    <3>1. UNCHANGED <<selected, screening>> /\ pc' \in {"overlap", "stage"}
      BY <2>5 DEF CheckSplits
    <3>2. GroupsOf("calibration") \cap GroupsOf("heldout") = {}
      BY GroupsDiffer
    <3>3. IdentitiesOf(screening) \subseteq IdentitiesOf(RowsOf("calibration"))
      BY DEF Screened, IdentitiesOf
    <3>4. pc' = "stage"
      BY <2>5, <3>2, <3>3 DEF CheckSplits
    <3> QED
      BY <2>0, <3>1, <3>4 DEF Screened
  <2> QED
    BY <2>1, <2>2, <2>3, <2>4, <2>5 DEF Next, Build
<1>3. Screened => pc # "overlap"
  BY DEF Screened
<1> QED
  BY <1>1, <1>2, <1>3, QueuesAreOfTheirStrata, DrawnInvariant, PTL DEF Spec

-----------------------------------------------------------------------------
(* The search for an excerpt.                                                *)

\* The cuts still to be looked at, with no more than m of them, and the best
\* length so far.
Searching(counts, s, m) ==
  /\ s.low \in 0..Len(counts) /\ s.high \in -1..(Len(counts) - 1)
  /\ s.low <= s.high + 1 /\ s.high - s.low + 1 <= m
  /\ s.best \in Nat
  /\ s.best # NoFit => s.best \in Range(counts) /\ s.best <= MaxTokens
\* No cut that is out of the search would be better.
Exact(counts, s) ==
  \A k \in 0..(Len(counts) - 1) :
    ~ (s.low <= k /\ k <= s.high) /\ counts[k + 1] <= MaxTokens =>
      s.best # NoFit /\ ~ Nearer(counts[k + 1], s.best)

LEMMA NearerIs ==
  ASSUME NEW a \in Nat, NEW b \in Nat, NEW c \in Nat
  PROVE  /\ a <= b /\ b < TargetTokens => ~ Nearer(a, b)
         /\ TargetTokens < b /\ b <= a => ~ Nearer(a, b)
         /\ b = TargetTokens => ~ Nearer(a, b)
         /\ ~ Nearer(a, a)
         /\ ~ Nearer(a, b) /\ ~ Nearer(b, c) => ~ Nearer(a, c)
         /\ ~ Nearer(a, b) /\ Nearer(c, b) => ~ Nearer(a, c)
BY TokenBounds DEF Nearer, Distance

LEMMA ProbeSearches ==
  ASSUME NEW counts \in Seq(Nat), NEW m \in Nat,
         NEW low, NEW high, NEW best,
         Searching(counts, [low |-> low, high |-> high, best |-> best], m)
  PROVE  LET s == [low |-> low, high |-> high, best |-> best]
             t == Probe(counts, s)
         IN /\ t = [low |-> t.low, high |-> t.high, best |-> t.best]
            /\ Searching(counts, t, IF m = 0 THEN 0 ELSE m - 1)
            /\ Grows(counts) /\ Exact(counts, s) => Exact(counts, t)
<1> DEFINE s == [low |-> low, high |-> high, best |-> best]
           t == Probe(counts, s)
           middle == (low + high) \div 2
           n == counts[middle + 1]
           b == IF n <= MaxTokens /\ (best = NoFit \/ Nearer(n, best)) THEN n ELSE best
<1>1. /\ Len(counts) \in Nat /\ low \in 0..Len(counts) /\ high \in -1..(Len(counts) - 1)
      /\ low <= high + 1 /\ high - low + 1 <= m
      /\ best \in Nat /\ (best # NoFit => best \in Range(counts) /\ best <= MaxTokens)
      /\ DOMAIN counts = 1..Len(counts)
  BY DEF Searching
<1>2. CASE low > high
  <2>1. t = s
    BY <1>2 DEF Probe
  <2>2. high - low + 1 <= (IF m = 0 THEN 0 ELSE m - 1)
    BY <1>1, <1>2
  <2> QED
    BY <1>1, <2>1, <2>2 DEF Searching
<1>3. CASE ~ (low > high)
  <2>1. middle \in Int /\ low <= middle /\ middle <= high /\ middle \in 0..(Len(counts) - 1)
    BY <1>1, <1>3
  <2> HIDE DEF middle
  <2>2. n \in Nat /\ middle + 1 \in 1..Len(counts) /\ n \in Range(counts)
    <3>1. middle + 1 \in 1..Len(counts)
      BY <1>1, <2>1
    <3>2. middle + 1 \in DOMAIN counts
      BY <1>1, <3>1
    <3> QED
      BY <3>1, <3>2 DEF Range
  <2>3. b \in Nat /\ (b # NoFit => b \in Range(counts) /\ b <= MaxTokens)
    BY <1>1, <2>2
  <2>4. /\ n <= MaxTokens => b # NoFit /\ ~ Nearer(n, b)
        /\ best # NoFit => b # NoFit /\ (\A k \in Nat : ~ Nearer(k, best) => ~ Nearer(k, b))
    BY <1>1, <2>2, NearerIs, TokenBounds DEF NoFit
  <2>5. t = IF n < TargetTokens THEN [low |-> middle + 1, high |-> high, best |-> b]
            ELSE IF n > TargetTokens THEN [low |-> low, high |-> middle - 1, best |-> b]
            ELSE [low |-> low, high |-> low - 1, best |-> b]
    BY <1>3 DEF Probe, middle
  <2>6. Grows(counts) => \A k \in 0..(Len(counts) - 1) :
          /\ counts[k + 1] \in Nat
          /\ k <= middle => counts[k + 1] <= n
          /\ k >= middle => counts[k + 1] >= n
    <3> SUFFICES ASSUME Grows(counts), NEW k \in 0..(Len(counts) - 1)
                 PROVE  /\ counts[k + 1] \in Nat
                        /\ k <= middle => counts[k + 1] <= n
                        /\ k >= middle => counts[k + 1] >= n
      OBVIOUS
    <3>1. k + 1 \in 1..Len(counts) /\ middle + 1 \in 1..Len(counts)
      BY <1>1, <2>1
    <3>2. counts[k + 1] \in Nat
      BY <1>1, <3>1
    <3>3. k + 1 <= middle + 1 => counts[k + 1] <= counts[middle + 1]
      BY <1>1, <3>1 DEF Grows
    <3>4. middle + 1 <= k + 1 => counts[middle + 1] <= counts[k + 1]
      BY <1>1, <3>1 DEF Grows
    <3> QED
      BY <1>1, <2>1, <2>2, <3>1, <3>2, <3>3, <3>4
  <2> HIDE DEF n, b
  <2>7. ASSUME Grows(counts), Exact(counts, s), NEW k \in 0..(Len(counts) - 1),
               ~ (low <= k /\ k <= high), counts[k + 1] <= MaxTokens
        PROVE  b # NoFit /\ ~ Nearer(counts[k + 1], b)
    <3>1. best # NoFit /\ ~ Nearer(counts[k + 1], best)
      BY <2>7 DEF Exact
    <3> QED
      BY <2>4, <2>6, <2>7, <3>1
  <2>8. CASE n < TargetTokens
    <3>1. t = [low |-> middle + 1, high |-> high, best |-> b]
      BY <2>5, <2>8
    <3>2. Searching(counts, t, IF m = 0 THEN 0 ELSE m - 1)
      BY <1>1, <2>1, <2>3, <3>1, SMTT(40) DEF Searching
    <3>3. ASSUME Grows(counts), Exact(counts, s), NEW k \in 0..(Len(counts) - 1),
                 ~ (middle + 1 <= k /\ k <= high), counts[k + 1] <= MaxTokens
          PROVE  b # NoFit /\ ~ Nearer(counts[k + 1], b)
      <4>1. CASE ~ (low <= k /\ k <= high)
        BY <2>7, <3>3, <4>1
      <4>2. CASE low <= k /\ k <= middle
        <5>1. counts[k + 1] \in Nat /\ counts[k + 1] <= n
          BY <2>6, <3>3, <4>2
        <5>2. ~ Nearer(counts[k + 1], n) /\ n <= MaxTokens
          BY <2>2, <2>8, <5>1, NearerIs, TokenBounds
        <5> QED
          BY <2>2, <2>3, <2>4, <5>1, <5>2, NearerIs
      <4> QED
        BY <2>1, <3>3, <4>1, <4>2
    <3> QED
      BY <3>1, <3>2, <3>3 DEF Exact
  <2>9. CASE n > TargetTokens
    <3>1. t = [low |-> low, high |-> middle - 1, best |-> b]
      BY <2>2, <2>5, <2>9, TokenBounds
    <3>2. Searching(counts, t, IF m = 0 THEN 0 ELSE m - 1)
      BY <1>1, <2>1, <2>3, <3>1, SMTT(40) DEF Searching
    <3>3. ASSUME Grows(counts), Exact(counts, s), NEW k \in 0..(Len(counts) - 1),
                 ~ (low <= k /\ k <= middle - 1), counts[k + 1] <= MaxTokens
          PROVE  b # NoFit /\ ~ Nearer(counts[k + 1], b)
      <4>1. CASE ~ (low <= k /\ k <= high)
        BY <2>7, <3>3, <4>1
      <4>2. CASE middle <= k /\ k <= high
        <5>1. counts[k + 1] \in Nat /\ counts[k + 1] >= n
          BY <2>6, <3>3, <4>2
        <5>2. ~ Nearer(counts[k + 1], n) /\ n <= MaxTokens
          BY <2>2, <2>9, <3>3, <5>1, NearerIs, TokenBounds
        <5> QED
          BY <2>2, <2>3, <2>4, <5>1, <5>2, NearerIs
      <4> QED
        BY <2>1, <3>3, <4>1, <4>2
    <3> QED
      BY <3>1, <3>2, <3>3 DEF Exact
  <2>10. CASE n = TargetTokens
    <3>1. t = [low |-> low, high |-> low - 1, best |-> b]
      BY <2>5, <2>10, TokenBounds
    <3>2. Searching(counts, t, IF m = 0 THEN 0 ELSE m - 1)
      BY <1>1, <1>3, <2>1, <2>3, <3>1, SMTT(40) DEF Searching
    <3>3. ASSUME Grows(counts), NEW k \in 0..(Len(counts) - 1)
          PROVE  b # NoFit /\ ~ Nearer(counts[k + 1], b)
      <4>1. counts[k + 1] \in Nat
        BY <2>6, <3>3
      <4>2. ~ Nearer(counts[k + 1], n) /\ n <= MaxTokens
        BY <2>2, <2>10, <4>1, NearerIs, TokenBounds
      <4> QED
        BY <2>2, <2>3, <2>4, <4>1, <4>2, NearerIs
    <3> QED
      BY <3>1, <3>2, <3>3 DEF Exact
  <2> QED
    BY <2>2, <2>8, <2>9, <2>10, TokenBounds
<1> QED
  BY <1>2, <1>3

\* The rounds of a search.
Rounds(counts, f, m) ==
  f = [k \in 0..m |-> IF k = 0 THEN [low |-> 0, high |-> Len(counts) - 1, best |-> NoFit]
                      ELSE Probe(counts, f[k - 1])]

LEMMA RoundsExist ==
  ASSUME NEW counts \in Seq(Nat), NEW m \in Nat
  PROVE  \E f : Rounds(counts, f, m)
<1> DEFINE Bad == {n \in Nat : ~ \E f : Rounds(counts, f, n)}
<1> SUFFICES ASSUME Bad # {}
             PROVE  FALSE
  OBVIOUS
<1>1. PICK n \in Bad : \A k \in Bad : n <= k
  BY LeastExists
<1>2. CASE n = 0
  <2> DEFINE f == [k \in 0..0 |-> [low |-> 0, high |-> Len(counts) - 1, best |-> NoFit]]
  <2>1. Rounds(counts, f, 0)
    BY DEF Rounds
  <2> QED
    BY <1>1, <1>2, <2>1
<1>3. CASE n # 0
  <2>1. n \in Nat /\ n - 1 \in Nat /\ ~ (n <= n - 1)
    BY <1>1, <1>3
  <2>2. PICK f : Rounds(counts, f, n - 1)
    BY <1>1, <2>1
  <2> DEFINE g == [k \in 0..n |-> IF k < n THEN f[k] ELSE Probe(counts, f[n - 1])]
  <2>3. Rounds(counts, g, n)
    BY <2>1, <2>2 DEF Rounds
  <2> QED
    BY <1>1, <2>3
<1> QED
  BY <1>2, <1>3

\* What is left after so many rounds.
Left(counts, k) == IF k < Len(counts) THEN Len(counts) - k ELSE 0

LEMMA RoundsSearch ==
  ASSUME NEW counts \in Seq(Nat), Len(counts) > 0, NEW m \in Nat, NEW f, Rounds(counts, f, m),
         NEW k \in 0..m
  PROVE  /\ Searching(counts, f[k], Left(counts, k))
         /\ Grows(counts) => Exact(counts, f[k])
<1> DEFINE Good(i) == /\ f[i] = [low |-> f[i].low, high |-> f[i].high, best |-> f[i].best]
                      /\ Searching(counts, f[i], Left(counts, i))
                      /\ Grows(counts) => Exact(counts, f[i])
           Bad == {i \in 0..m : ~ Good(i)}
<1>0. Len(counts) \in Nat
  OBVIOUS
<1> SUFFICES ASSUME Bad # {}
             PROVE  FALSE
  OBVIOUS
<1>1. PICK n \in Bad : \A i \in Bad : n <= i
  <2>1. Bad \in SUBSET Nat
    OBVIOUS
  <2> HIDE DEF Bad
  <2> QED
    BY <2>1, LeastExists
<1>2. CASE n = 0
  <2>1. f[0] = [low |-> 0, high |-> Len(counts) - 1, best |-> NoFit]
    BY DEF Rounds
  <2>2. Searching(counts, f[0], Left(counts, 0))
    BY <1>0, <2>1, TokenBounds DEF Searching, Left, NoFit
  <2>3. Exact(counts, f[0])
    BY <1>0, <2>1 DEF Exact
  <2> QED
    BY <1>1, <1>2, <2>1, <2>2, <2>3
<1>3. CASE n # 0
  <2>1. n \in 0..m /\ n - 1 \in 0..m /\ ~ (n <= n - 1)
    BY <1>1, <1>3
  <2>2. Good(n - 1)
    BY <1>1, <2>1
  <2>3. f[n] = Probe(counts, f[n - 1])
    BY <1>3, <2>1 DEF Rounds
  <2>4. Left(counts, n - 1) \in Nat
        /\ Left(counts, n) = IF Left(counts, n - 1) = 0 THEN 0 ELSE Left(counts, n - 1) - 1
    BY <1>0, <2>1 DEF Left
  <2> DEFINE low == f[n - 1].low
             high == f[n - 1].high
             best == f[n - 1].best
             left == Left(counts, n - 1)
  <2>5. f[n - 1] = [low |-> low, high |-> high, best |-> best]
    BY <2>2
  <2>6. Searching(counts, [low |-> low, high |-> high, best |-> best], left)
    BY <2>2, <2>5
  <2>7. Grows(counts) => Exact(counts, [low |-> low, high |-> high, best |-> best])
    BY <2>2, <2>5
  <2>8. f[n] = Probe(counts, [low |-> low, high |-> high, best |-> best])
    BY <2>3, <2>5
  <2> HIDE DEF low, high, best, left
  <2>9. left \in Nat
    BY <2>4 DEF left
  <2>10. /\ f[n] = [low |-> f[n].low, high |-> f[n].high, best |-> f[n].best]
         /\ Searching(counts, f[n], IF left = 0 THEN 0 ELSE left - 1)
         /\ Grows(counts) => Exact(counts, f[n])
    BY <2>6, <2>7, <2>8, <2>9, ProbeSearches
  <2> QED
    BY <1>1, <2>4, <2>10 DEF left
<1> QED
  BY <1>2, <1>3

\* The search finds a cut that fits if there is one, and where longer cuts
\* never render shorter no cut that fits is nearer the target.
LEMMA FitIs ==
  ASSUME NEW counts \in Seq(Nat), Len(counts) > 0
  PROVE  /\ Fit(counts) \in Nat
         /\ Fit(counts) # NoFit => Fit(counts) \in Range(counts) /\ Fit(counts) <= MaxTokens
         /\ Grows(counts) => \A n \in Range(counts) :
              n <= MaxTokens => Fit(counts) # NoFit /\ ~ Nearer(n, Fit(counts))
<1> DEFINE m == Len(counts)
<1>1. m \in Nat /\ m \in 0..m
  OBVIOUS
<1>2. PICK f : Rounds(counts, f, m) /\ Fit(counts) = f[m].best
  <2>1. \E f : f = [k \in 0..m |-> IF k = 0 THEN [low |-> 0, high |-> m - 1, best |-> NoFit]
                                   ELSE Probe(counts, f[k - 1])]
    BY <1>1, RoundsExist DEF Rounds
  <2> QED
    BY <2>1 DEF Fit, Rounds
<1>3. /\ Searching(counts, f[m], Left(counts, m))
      /\ Grows(counts) => Exact(counts, f[m])
  BY <1>1, <1>2, RoundsSearch
<1>4. f[m].low > f[m].high
  BY <1>1, <1>3 DEF Searching, Left
<1>5. ASSUME Grows(counts), NEW n \in Range(counts), n <= MaxTokens
      PROVE  Fit(counts) # NoFit /\ ~ Nearer(n, Fit(counts))
  <2>1. PICK i \in DOMAIN counts : n = counts[i]
    BY DEF Range
  <2>2. i - 1 \in 0..(Len(counts) - 1) /\ n = counts[(i - 1) + 1]
    BY <2>1
  <2>3. ~ (f[m].low <= i - 1 /\ i - 1 <= f[m].high)
    BY <1>1, <1>3, <1>4, <2>2, SMTT(40) DEF Searching
  <2> QED
    BY <1>2, <1>3, <1>5, <2>2, <2>3 DEF Exact
<1> QED
  BY <1>2, <1>3, <1>5 DEF Searching

LEMMA PromptTokensAre ==
  ASSUME NEW row \in Rows
  PROVE  PromptTokens[row] = PreparedTokens(row) /\ PromptTokens[row] \in Nat
<1>1. PromptTokens[row] = PreparedTokens(row)
  BY DEF PromptTokens
<1>2. /\ row.counts \in Seq(Nat) /\ Len(row.counts) > 0
      /\ row.counts[1] \in Nat /\ row.counts[Len(row.counts)] \in Nat
      /\ Fit(row.counts) \in Nat
  <2>1. row.counts \in Seq(Nat) /\ Len(row.counts) > 0
    BY BankRows
  <2>2. 1 \in DOMAIN row.counts /\ Len(row.counts) \in DOMAIN row.counts
    BY <2>1
  <2> QED
    BY <2>1, <2>2, FitIs
<1>3. row.domain = "code" => row.plain[1] \in Nat /\ Fit(row.plain) \in Nat
  <2>1. row.domain = "code" => row.plain \in Seq(Nat) /\ Len(row.plain) > 0
    BY BankRows
  <2> QED
    BY <2>1, FitIs
<1> QED
  BY <1>1, <1>2, <1>3 DEF PreparedTokens

\* Where a longer excerpt never renders shorter, no excerpt of a drawn article
\* that fits is nearer the target than the one that was taken.
THEOREM ExcerptsAreBest == Spec => []FitIsBest
<1>1. Bookkeeping => FitIsBest
  <2> SUFFICES ASSUME Bookkeeping, NEW s \in Corpora, NEW row \in RowsOf(s),
                      row.domain = "wiki", Grows(row.counts),
                      NEW n \in Range(row.counts), n <= MaxTokens
               PROVE  ~ Nearer(n, PromptTokens[row])
    BY DEF FitIsBest
  <2>1. row \in Rows
    <3>1. PICK axis \in Range(Axes) : row \in Range(selected[s][axis])
      BY DEF RowsOf
    <3>2. selected[s][axis] \in Seq(Rows)
      BY DEF Bookkeeping, TypeOK
    <3> QED
      BY <3>1, <3>2 DEF Range
  <2>2. row.counts \in Seq(Nat) /\ Len(row.counts) > 0
    BY <2>1, BankRows
  <2>3. Fit(row.counts) # NoFit /\ ~ Nearer(n, Fit(row.counts))
    BY <2>2, FitIs
  <2>4. PromptTokens[row] = Fit(row.counts)
    BY <2>1, <2>3, PromptTokensAre DEF PreparedTokens
  <2> QED
    BY <2>3, <2>4
<1> QED
  BY <1>1, QueuesAreOfTheirStrata, PTL

-----------------------------------------------------------------------------
(* Sums of tokens.                                                           *)

Totals(rows, f, m) ==
  f = [i \in 0..m |-> IF i = 0 THEN 0 ELSE f[i - 1] + PromptTokens[rows[i]]]

LEMMA TotalsExist ==
  ASSUME NEW rows \in Seq(Rows), NEW m \in Nat
  PROVE  \E f : Totals(rows, f, m)
<1> DEFINE Bad == {n \in Nat : ~ \E f : Totals(rows, f, n)}
<1> SUFFICES ASSUME Bad # {}
             PROVE  FALSE
  OBVIOUS
<1>1. PICK n \in Bad : \A k \in Bad : n <= k
  BY LeastExists
<1>2. CASE n = 0
  <2> DEFINE f == [i \in 0..0 |-> 0]
  <2>1. Totals(rows, f, 0)
    BY DEF Totals
  <2> QED
    BY <1>1, <1>2, <2>1
<1>3. CASE n # 0
  <2>1. n \in Nat /\ n - 1 \in Nat /\ ~ (n <= n - 1)
    BY <1>1, <1>3
  <2>2. PICK f : Totals(rows, f, n - 1)
    BY <1>1, <2>1
  <2> DEFINE g == [i \in 0..n |-> IF i < n THEN f[i] ELSE f[n - 1] + PromptTokens[rows[n]]]
  <2>3. Totals(rows, g, n)
    BY <2>1, <2>2 DEF Totals
  <2> QED
    BY <1>1, <2>3
<1> QED
  BY <1>2, <1>3

\* They are naturals, whatever comes after the rows they count.
LEMMA TotalsAre ==
  ASSUME NEW rows \in Seq(Rows), NEW m \in 0..Len(rows), NEW f, Totals(rows, f, m)
  PROVE  \A i \in 0..m : f[i] \in Nat
<1> DEFINE Bad == {i \in 0..m : f[i] \notin Nat}
<1>0. Len(rows) \in Nat /\ m \in Nat /\ DOMAIN rows = 1..Len(rows)
  OBVIOUS
<1> SUFFICES ASSUME Bad # {}
             PROVE  FALSE
  OBVIOUS
<1>1. PICK n \in Bad : \A i \in Bad : n <= i
  <2>1. Bad \in SUBSET Nat
    BY <1>0
  <2> HIDE DEF Bad
  <2> QED
    BY <2>1, LeastExists
<1>2. n # 0
  BY <1>0, <1>1 DEF Totals
<1>3. n \in 1..m /\ n - 1 \in 0..m /\ ~ (n <= n - 1)
  BY <1>0, <1>1, <1>2
<1>4. f[n - 1] \in Nat
  BY <1>1, <1>3
<1>5. rows[n] \in Rows
  BY <1>0, <1>3
<1>6. f[n] = f[n - 1] + PromptTokens[rows[n]]
  BY <1>0, <1>2, <1>3 DEF Totals
<1> QED
  BY <1>1, <1>4, <1>5, <1>6, PromptTokensAre

LEMMA TokensAre ==
  ASSUME NEW rows \in Seq(Rows)
  PROVE  /\ TokensOf(rows) \in Nat
         /\ \E f : Totals(rows, f, Len(rows)) /\ TokensOf(rows) = f[Len(rows)]
<1>1. Len(rows) \in Nat /\ Len(rows) \in 0..Len(rows)
  OBVIOUS
<1>2. PICK f : Totals(rows, f, Len(rows)) /\ TokensOf(rows) = f[Len(rows)]
  BY <1>1, TotalsExist DEF TokensOf, Totals
<1> QED
  BY <1>1, <1>2, TotalsAre

LEMMA TokensAdd ==
  ASSUME NEW s \in Seq(Rows), NEW t \in Seq(Rows)
  PROVE  TokensOf(s \o t) = TokensOf(s) + TokensOf(t)
<1> DEFINE m == Len(s)
           n == Len(t)
           u == s \o t
<1>1. m \in Nat /\ n \in Nat /\ m + n \in Nat
  OBVIOUS
<1>2. /\ u \in Seq(Rows) /\ Len(u) = m + n
      /\ \A i \in 1..m : u[i] = s[i]
      /\ \A j \in 1..n : u[m + j] = t[j]
  <2>1. \A j \in 1..n : m + j \in 1..(m + n) /\ ~ (m + j <= m) /\ (m + j) - m = j
    BY <1>1
  <2> QED
    BY <2>1, ConcatProperties
<1>3. PICK f : Totals(s, f, m) /\ TokensOf(s) = f[m]
  BY TokensAre
<1>4. PICK g : Totals(t, g, n) /\ TokensOf(t) = g[n]
  BY TokensAre
<1>5. PICK h : Totals(u, h, m + n) /\ TokensOf(u) = h[m + n]
  BY <1>2, TokensAre
<1>6. /\ \A i \in 0..m : f[i] \in Nat
      /\ \A j \in 0..n : g[j] \in Nat
  BY <1>1, <1>3, <1>4, TotalsAre
<1> HIDE DEF m, n, u
<1>7. \A i \in 0..m : h[i] = f[i]
  <2> DEFINE Bad == {i \in 0..m : h[i] # f[i]}
  <2> SUFFICES ASSUME Bad # {}
               PROVE  FALSE
    OBVIOUS
  <2>1. PICK i \in Bad : \A k \in Bad : i <= k
    <3>1. Bad \in SUBSET Nat
      BY <1>1
    <3> HIDE DEF Bad
    <3> QED
      BY <3>1, LeastExists
  <2>2. h[0] = 0 /\ f[0] = 0
    BY <1>1, <1>3, <1>5 DEF Totals
  <2>3. i \in 1..m /\ i - 1 \in 0..m /\ ~ (i <= i - 1)
    BY <1>1, <2>1, <2>2
  <2>4. h[i - 1] = f[i - 1]
    BY <2>1, <2>3
  <2>5. h[i] = h[i - 1] + PromptTokens[u[i]] /\ f[i] = f[i - 1] + PromptTokens[s[i]]
    BY <1>1, <1>3, <1>5, <2>3 DEF Totals
  <2> QED
    BY <1>2, <2>1, <2>3, <2>4, <2>5
<1>8. \A j \in 0..n : h[m + j] = f[m] + g[j]
  <2> DEFINE Bad == {j \in 0..n : h[m + j] # f[m] + g[j]}
  <2> SUFFICES ASSUME Bad # {}
               PROVE  FALSE
    OBVIOUS
  <2>1. PICK j \in Bad : \A k \in Bad : j <= k
    <3>1. Bad \in SUBSET Nat
      BY <1>1
    <3> HIDE DEF Bad
    <3> QED
      BY <3>1, LeastExists
  <2>2. f[m] \in Nat /\ j # 0
    <3>1. g[0] = 0 /\ h[m] = f[m] /\ f[m] \in Nat /\ m + 0 = m
      BY <1>1, <1>4, <1>6, <1>7 DEF Totals
    <3>2. ASSUME j = 0 PROVE FALSE
      <4>1. m + j = m /\ g[j] = 0
        BY <1>1, <3>1, <3>2
      <4> QED
        BY <2>1, <3>1, <4>1
    <3> QED
      BY <3>1, <3>2
  <2>3. j \in 1..n /\ j - 1 \in 0..n /\ ~ (j <= j - 1)
    BY <1>1, <2>1, <2>2
  <2>4. h[m + (j - 1)] = f[m] + g[j - 1]
    BY <2>1, <2>3
  <2>5. g[j] = g[j - 1] + PromptTokens[t[j]]
    BY <1>1, <1>4, <2>3 DEF Totals
  <2>6. h[m + j] = h[m + (j - 1)] + PromptTokens[t[j]]
    <3> DEFINE k == m + j
    <3>1. k \in 1..(m + n) /\ k - 1 = m + (j - 1)
      BY <1>1, <2>3
    <3>2. u[k] = t[j]
      BY <1>2, <2>3
    <3> HIDE DEF k
    <3>3. h[k] = h[k - 1] + PromptTokens[u[k]]
      BY <1>1, <1>5, <3>1 DEF Totals
    <3> QED
      BY <3>1, <3>2, <3>3 DEF k
  <2>7. t[j] \in Rows
    BY <2>3 DEF n
  <2>8. PromptTokens[t[j]] \in Nat /\ g[j - 1] \in Nat
    BY <1>6, <2>3, <2>7, PromptTokensAre
  <2> QED
    BY <2>1, <2>2, <2>4, <2>5, <2>6, <2>8
<1> QED
  BY <1>1, <1>3, <1>4, <1>5, <1>8 DEF u

LEMMA TokensOfFew ==
  /\ TokensOf(<<>>) = 0
  /\ \A row \in Rows : TokensOf(<<row>>) = PromptTokens[row]
<1>1. TokensOf(<<>>) = 0
  <2>1. <<>> \in Seq(Rows) /\ Len(<<>>) = 0
    OBVIOUS
  <2>2. PICK f : Totals(<<>>, f, 0) /\ TokensOf(<<>>) = f[0]
    BY <2>1, TokensAre
  <2> QED
    BY <2>2 DEF Totals
<1>2. ASSUME NEW row \in Rows PROVE TokensOf(<<row>>) = PromptTokens[row]
  <2>1. <<row>> \in Seq(Rows) /\ Len(<<row>>) = 1 /\ <<row>>[1] = row
    OBVIOUS
  <2>2. PICK f : Totals(<<row>>, f, 1) /\ TokensOf(<<row>>) = f[1]
    BY <2>1, TokensAre
  <2>3. f[0] = 0 /\ f[1] = f[0] + PromptTokens[<<row>>[1]]
    BY <2>2 DEF Totals
  <2> QED
    BY <2>1, <2>2, <2>3, PromptTokensAre
<1> QED
  BY <1>1, <1>2

LEMMA TokensGrow ==
  ASSUME NEW rows \in Seq(Rows), NEW row \in Rows
  PROVE  TokensOf(Append(rows, row)) = TokensOf(rows) + PromptTokens[row]
<1>1. Append(rows, row) = rows \o <<row>> /\ <<row>> \in Seq(Rows)
  OBVIOUS
<1> QED
  BY <1>1, TokensAdd, TokensOfFew

-----------------------------------------------------------------------------
(* The budgets.                                                              *)

\* The records of three kinds of language add up.
LEMMA QuotasAre ==
  ASSUME NEW b \in Nat
  PROVE  LET q == WikiQuotas(b)
         IN /\ q[1] \in Nat /\ q[2] \in Nat /\ q[3] \in Nat
            /\ q[1] + q[2] + q[3] = AtLeast(2, CeilDiv(b, TargetTokens))
<1> DEFINE n == CeilDiv(b, TargetTokens)
           en == AtLeast(1, Round(n * 40, 100))
           zh == AtLeast(1, Round(n * 35, 100))
           q == IF n - en - zh >= 1 THEN <<en, zh, n - en - zh>>
                ELSE IF en >= zh THEN <<en - 1, zh, 1>> ELSE <<en, zh - 1, 1>>
<1>1. n \in Nat
  BY CeilDivIs, TokenBounds
<1>2. WikiQuotas(b) = q
  BY DEF WikiQuotas
<1> HIDE DEF n
<1>3. /\ en \in Nat /\ zh \in Nat /\ en >= 1 /\ zh >= 1
      /\ n - en - zh >= 1 \/ en + zh = AtLeast(2, n)
      /\ n - en - zh >= 1 => n >= 2
  <2>1. CASE n < 8
    BY <1>1, <2>1 DEF Round, AtLeast
  <2>2. CASE n >= 8
    <3>1. n * 40 \in Nat /\ n * 35 \in Nat
      BY <1>1
    <3>2. /\ Round(n * 40, 100) \in Nat /\ 200 * Round(n * 40, 100) <= 2 * (n * 40) + 100
          /\ Round(n * 35, 100) \in Nat /\ 200 * Round(n * 35, 100) <= 2 * (n * 35) + 100
      <4>1. \A x \in Nat : Round(x, 100) \in Nat /\ 200 * Round(x, 100) <= 2 * x + 100
        BY RoundIs
      <4> QED
        BY <3>1, <4>1
    <3> QED
      BY <1>1, <2>2, <3>2 DEF AtLeast
  <2> QED
    BY <1>1, <2>1, <2>2
<1> HIDE DEF en, zh
<1>4. /\ q[1] \in Nat /\ q[2] \in Nat /\ q[3] \in Nat
      /\ q[1] + q[2] + q[3] = AtLeast(2, n)
  <2>1. CASE n - en - zh >= 1
    <3>1. q[1] = en /\ q[2] = zh /\ q[3] = n - en - zh
      BY <2>1
    <3> HIDE DEF q
    <3> QED
      BY <1>1, <1>3, <2>1, <3>1 DEF AtLeast
  <2>2. CASE ~ (n - en - zh >= 1) /\ en >= zh
    <3>1. q[1] = en - 1 /\ q[2] = zh /\ q[3] = 1
      BY <2>2
    <3> HIDE DEF q
    <3> QED
      BY <1>1, <1>3, <2>2, <3>1
  <2>3. CASE ~ (n - en - zh >= 1) /\ ~ (en >= zh)
    <3>1. q[1] = en /\ q[2] = zh - 1 /\ q[3] = 1
      BY <2>3
    <3> HIDE DEF q
    <3> QED
      BY <1>1, <1>3, <2>3, <3>1
  <2> QED
    BY <2>1, <2>2, <2>3
<1> QED
  BY <1>2, <1>4 DEF n

\* The first so many of them.
Upto(q, i) == (IF i >= 1 THEN q[1] ELSE 0) + (IF i >= 2 THEN q[2] ELSE 0)
              + (IF i >= 3 THEN q[3] ELSE 0)
QuotasOf(s, axis) == WikiQuotas(AxisBudget(s, axis))
MathShare(s) == Round(AxisBudget(s, "math_reasoning") * 20, 100)

\* What a corpus' axes hold after so many of its calls.
ArticlesMet(rows, s, d) ==
  /\ Len(rows["reasoning_termination"]) = Upto(QuotasOf(s, "reasoning_termination"), d)
  /\ Len(rows["general"]) = Upto(QuotasOf(s, "general"), d - 3)
CodeMet(rows, s, d) ==
  d >= First(s) + 7 => TokensOf(rows["code_agentic"]) >= AxisBudget(s, "code_agentic")
MathMet(rows, s, d) ==
  LET tokens == TokensOf(rows["math_reasoning"])
      budget == AxisBudget(s, "math_reasoning")
  IN /\ d = First(s) + 8 => tokens < MathShare(s) + MaxTokens
     /\ d >= First(s) + 9 => budget <= tokens /\ tokens < budget + MaxTokens
StructuredMet(rows, s, d) ==
  LET tokens == TokensOf(rows["structured_output"])
      budget == AxisBudget(s, "structured_output")
  IN d >= First(s) + 10 => budget <= tokens /\ tokens < budget + MaxTokens
Met(s, d) ==
  /\ ArticlesMet(selected[s], s, d) /\ CodeMet(selected[s], s, d)
  /\ MathMet(selected[s], s, d) /\ StructuredMet(selected[s], s, d)

AllMet ==
  /\ pc \in {"select", "draw"} => Met(split, draw - 1)
  /\ pc \in {"select", "draw"} /\ split = "heldout" =>
       Met("calibration", Len(Draws["calibration"]))
  /\ pc \in {"screen", "stage", "check", "done"} =>
       \A s \in Corpora : Met(s, Len(Draws[s]))

\* A running call is short of its limit, or its last row met it.
Within ==
  pc = "draw" => IF Current.by = "records" THEN Len(got) <= Current.limit
                 ELSE got = <<>> \/ TokensOf(got) < TokenBudget + MaxTokens

LEMMA LimitIsNat ==
  ASSUME NEW s \in Corpora, NEW d \in 1..Len(Draws[s])
  PROVE  Draws[s][d].limit \in Nat
<1> DEFINE c == Draws[s][d]
           b == AxisBudget(s, c.axis)
<1>1. b \in Nat
  BY CallsAxis, BudgetsAreNat
<1>2. /\ WikiQuotas(b)[1] \in Nat /\ WikiQuotas(b)[2] \in Nat /\ WikiQuotas(b)[3] \in Nat
      /\ Round(b * 20, 100) \in Nat
  <2>1. b * 20 \in Nat
    BY <1>1
  <2> HIDE DEF b
  <2> QED
    BY <1>1, <2>1, QuotasAre, RoundIs
<1>3. \A i \in 1..3 : WikiQuotas(b)[i] \in Nat
  <2>1. \A i \in 1..3 : i = 1 \/ i = 2 \/ i = 3
    OBVIOUS
  <2> QED
    BY <1>2, <2>1
<1>4. \A i \in 4..6 : i - 3 \in 1..3
  OBVIOUS
<1>5. \/ d \in 1..3 /\ c.limit = WikiQuotas(b)[d]
      \/ d \in 4..6 /\ c.limit = WikiQuotas(b)[d - 3]
      \/ c.limit \in {1, b, Round(b * 20, 100)}
  BY CallsAre DEF CallAt, IsCall
<1> DEFINE q == WikiQuotas(b)
           limit == c.limit
<1>6. CASE d \in 4..6 /\ limit = q[d - 3]
  <2>1. q[d - 3] \in Nat
    BY <1>3, <1>4, <1>6
  <2> QED
    BY <1>6, <2>1
<1>7. CASE d \in 1..3 /\ limit = q[d]
  BY <1>3, <1>7
<1> QED
  BY <1>1, <1>2, <1>5, <1>6, <1>7

LEMMA LimitsAre ==
  ASSUME Bookkeeping, pc = "draw"
  PROVE  Current.limit \in Nat /\ TokenBudget \in Int
<1>1. /\ split \in Corpora /\ Current = Draws[split][draw] /\ draw \in 1..Len(Draws[split])
      /\ Current.axis \in Range(Axes)
  BY CurrentIs
<1>2. Current.limit \in Nat
  BY <1>1, LimitIsNat
<1>3. TokensOf(selected[split][Current.axis]) \in Nat
  BY <1>1, TokensAre DEF Bookkeeping, TypeOK
<1> QED
  BY <1>2, <1>3 DEF TokenBudget

\* A visit keeps a call within its limit, since it comes only short of it.
LEMMA VisitWithin ==
  ASSUME Bookkeeping, Drawn, Within, Visit
  PROVE  Within'
<1>1. /\ pc = "draw" /\ UNCHANGED <<pc, seed, split, draw, selected>> /\ ~ LimitReached
      /\ got \in Seq(Rows) /\ got' \in Seq(Rows)
  BY VisitKeeps DEF Visit, Bookkeeping, TypeOK
<1>2. Current' = Current /\ TokenBudget' = TokenBudget
  BY <1>1 DEF Current, TokenBudget
<1>3. Current.limit \in Nat /\ TokenBudget \in Int /\ TokensOf(got) \in Nat
  BY <1>1, LimitsAre, TokensAre
<1>4. PICK s \in pass :
        \/ Dropped(s)
        \/ \E row \in Rows : Matches(row) /\ Stratum(row) = s /\ Usable(row) /\ Found(s, row)
  BY VisitIs
<1>5. CASE Dropped(s)
  BY <1>1, <1>2, <1>5 DEF Dropped, Within
<1>6. ASSUME NEW row \in Rows, Usable(row), Found(s, row)
      PROVE  Within'
  <2>1. PromptTokens[row] \in Nat /\ PromptTokens[row] <= MaxTokens
    BY <1>6, PromptTokensAre, TokenBounds DEF Usable, Eligible
  <2>2. TokensOf(got') = TokensOf(got) + PromptTokens[row] /\ Len(got') = Len(got) + 1
    BY <1>1, <1>6, TokensGrow DEF Found
  <2>3. IF Current.by = "records" THEN Len(got) < Current.limit ELSE TokensOf(got) < TokenBudget
    BY <1>1, <1>3 DEF LimitReached
  <2> QED
    BY <1>1, <1>2, <1>3, <2>1, <2>2, <2>3, TokenBounds DEF Within
<1> QED
  BY <1>4, <1>5, <1>6

\* What a call adds to its axis.
Adds(s, d, old, new, rows) ==
  LET c == Draws[s][d]
      budget == IF c.by = "rest" THEN c.limit - TokensOf(old[c.axis]) ELSE c.limit
  IN /\ s \in Corpora /\ d \in 1..Len(Draws[s])
     /\ old \in [Range(Axes) -> Seq(Rows)] /\ rows \in Seq(Rows)
     /\ new[c.axis] = old[c.axis] \o rows
     /\ \A a \in Range(Axes) : a # c.axis => new[a] = old[a]
     /\ \A a \in Range(Axes) : d <= FirstCall(s, a) => old[a] = <<>>
     /\ IF c.by = "records" THEN Len(rows) <= c.limit
        ELSE rows = <<>> \/ TokensOf(rows) < budget + MaxTokens
     /\ c.required => IF c.by = "records" THEN Len(rows) >= c.limit ELSE TokensOf(rows) >= budget

LEMMA UptoIs ==
  ASSUME NEW b \in Nat, NEW i \in 1..3
  PROVE  LET q == WikiQuotas(b) IN /\ Upto(q, i) = Upto(q, i - 1) + q[i]
                                   /\ q[i] \in Nat /\ Upto(q, i - 1) \in Nat
<1> DEFINE q == WikiQuotas(b)
<1>1. q[1] \in Nat /\ q[2] \in Nat /\ q[3] \in Nat
  BY QuotasAre
<1> HIDE DEF q
<1>2. i = 1 \/ i = 2 \/ i = 3
  OBVIOUS
<1> QED
  BY <1>1, <1>2 DEF Upto, q

\* An axis' length and tokens after a call for it.
LEMMA AddsOwn ==
  ASSUME NEW s, NEW d, NEW old, NEW new, NEW rows, Adds(s, d, old, new, rows),
         NEW axis, axis = Draws[s][d].axis
  PROVE  /\ Len(new[axis]) = Len(old[axis]) + Len(rows)
         /\ TokensOf(new[axis]) = TokensOf(old[axis]) + TokensOf(rows)
         /\ Len(old[axis]) \in Nat /\ TokensOf(old[axis]) \in Nat
         /\ Len(rows) \in Nat /\ TokensOf(rows) \in Nat
         /\ \A a \in Range(Axes) : a # axis => new[a] = old[a]
<1>1. axis \in Range(Axes) /\ old[axis] \in Seq(Rows)
  BY CallsAxis, SMTT(40) DEF Adds
<1>2. new[axis] = old[axis] \o rows
  BY DEF Adds
<1>3. \A a \in Range(Axes) : a # axis => new[a] = old[a]
  BY DEF Adds
<1>4. /\ Len(old[axis] \o rows) = Len(old[axis]) + Len(rows)
      /\ TokensOf(old[axis] \o rows) = TokensOf(old[axis]) + TokensOf(rows)
      /\ Len(old[axis]) \in Nat /\ TokensOf(old[axis]) \in Nat
      /\ Len(rows) \in Nat /\ TokensOf(rows) \in Nat
  <2>1. rows \in Seq(Rows)
    BY DEF Adds
  <2> QED
    BY <1>1, <2>1, ConcatProperties, TokensAdd, TokensAre
<1> QED
  BY <1>1, <1>2, <1>3, <1>4

\* A call for so many records adds as many.
LEMMA AddsRecords ==
  ASSUME NEW s, NEW d, NEW old, NEW new, NEW rows, Adds(s, d, old, new, rows),
         NEW axis, NEW limit \in Nat,
         Draws[s][d].axis = axis, Draws[s][d].by = "records", Draws[s][d].limit = limit,
         Draws[s][d].required
  PROVE  /\ Len(new[axis]) = Len(old[axis]) + limit
         /\ \A a \in Range(Axes) : a # axis => new[a] = old[a]
<1>1. IF Draws[s][d].by = "records" THEN Len(rows) <= limit /\ Len(rows) >= limit ELSE TRUE
  BY DEF Adds
<1>3. Len(rows) <= limit /\ Len(rows) >= limit
  BY <1>1
<1>5. /\ Len(new[axis]) = Len(old[axis]) + Len(rows) /\ Len(rows) \in Nat
      /\ \A a \in Range(Axes) : a # axis => new[a] = old[a]
  BY AddsOwn, SMTT(40)
<1> QED
  BY <1>3, <1>5

LEMMA AddsArticles ==
  ASSUME NEW s, NEW d, NEW old, NEW new, NEW rows, Adds(s, d, old, new, rows), ArticlesMet(old, s, d - 1)
  PROVE  ArticlesMet(new, s, d)
<1> DEFINE R == "reasoning_termination"
           G == "general"
           r == QuotasOf(s, R)
           g == QuotasOf(s, G)
<1>a. s \in Corpora /\ d \in 1..Len(Draws[s])
  BY DEF Adds
<1>0. /\ CallAt(s, d) /\ First(s) \in Nat /\ d \in Nat /\ d >= 1
      /\ R \in Range(Axes) /\ G \in Range(Axes)
  BY <1>a, CallsAre, LengthIs, AxesAre
<1>1. /\ \A i \in 1..3 : Upto(r, i) = Upto(r, i - 1) + r[i] /\ r[i] \in Nat
      /\ \A i \in 1..3 : Upto(g, i) = Upto(g, i - 1) + g[i] /\ g[i] \in Nat
  <2>1. AxisBudget(s, R) \in Nat /\ AxisBudget(s, G) \in Nat
    BY <1>0, <1>a, BudgetsAreNat
  <2> QED
    BY <2>1, UptoIs DEF QuotasOf
<1>2. Len(old[R]) = Upto(r, d - 1) /\ Len(old[G]) = Upto(g, d - 1 - 3)
  BY DEF ArticlesMet
<1>3. /\ \A i \in Int : i >= 4 => Upto(r, i) = Upto(r, i - 1)
      /\ \A i \in Int : i <= 0 => Upto(g, i) = Upto(g, i - 1)
      /\ \A i \in Int : i >= 4 => Upto(g, i) = Upto(g, i - 1)
  BY DEF Upto
<1>4. CASE d \in 1..3
  <2>1. IsCall(Draws[s][d], "wiki", R, "records", r[d], FALSE, TRUE)
    BY <1>a, <1>4, DrawsAre, Zenon DEF QuotasOf
  <2>2. r[d] \in Nat
    BY <1>1, <1>4
  <2>3. /\ Len(new[R]) = Len(old[R]) + r[d]
        /\ \A a \in Range(Axes) : a # R => new[a] = old[a]
    BY <2>1, <2>2, AddsRecords DEF IsCall
  <2>4. new[G] = old[G]
    BY <1>0, <2>3
  <2>5. Len(new[R]) = Upto(r, d)
    BY <1>1, <1>2, <1>4, <2>3
  <2>6. Len(new[G]) = Upto(g, d - 3)
    <3>1. d - 3 \in Int /\ d - 3 <= 0 /\ d - 3 - 1 = d - 1 - 3
      BY <1>4
    <3> QED
      BY <1>2, <1>3, <2>4, <3>1
  <2> QED
    BY <2>5, <2>6 DEF ArticlesMet
<1>5. CASE d \in 4..6
  <2>1. IsCall(Draws[s][d], "wiki", G, "records", g[d - 3], TRUE, TRUE)
    BY <1>a, <1>5, DrawsAre, Zenon DEF QuotasOf
  <2>2. d - 3 \in 1..3 /\ d - 3 - 1 = d - 1 - 3
    BY <1>5
  <2>3. g[d - 3] \in Nat /\ Upto(g, d - 3) = Upto(g, d - 1 - 3) + g[d - 3]
    BY <1>1, <2>2
  <2>4. /\ Len(new[G]) = Len(old[G]) + g[d - 3]
        /\ \A a \in Range(Axes) : a # G => new[a] = old[a]
    BY <2>1, <2>3, AddsRecords DEF IsCall
  <2>5. new[R] = old[R]
    BY <1>0, <2>4
  <2>6. Len(new[G]) = Upto(g, d - 3)
    BY <1>2, <2>3, <2>4
  <2>7. Len(new[R]) = Upto(r, d)
    BY <1>0, <1>2, <1>3, <1>5, <2>5
  <2> QED
    BY <2>6, <2>7 DEF ArticlesMet
<1>6. CASE d >= 7
  <2>1. Draws[s][d].axis # R /\ Draws[s][d].axis # G
    BY <1>0, <1>6 DEF CallAt, IsCall
  <2>2. new[R] = old[R] /\ new[G] = old[G]
    <3>1. \A a \in Range(Axes) : a # Draws[s][d].axis => new[a] = old[a]
      BY AddsOwn
    <3> QED
      BY <1>0, <2>1, <3>1
  <2>3. Upto(r, d) = Upto(r, d - 1) /\ Upto(g, d - 3) = Upto(g, d - 1 - 3)
    <3>1. d \in Int /\ d >= 4 /\ d - 3 \in Int /\ d - 3 >= 4 /\ d - 3 - 1 = d - 1 - 3
      BY <1>0, <1>6
    <3> QED
      BY <1>3, <3>1
  <2> QED
    BY <1>2, <2>2, <2>3 DEF ArticlesMet
<1> QED
  BY <1>0, <1>4, <1>5, <1>6

\* An axis no call is for stays as it is.
LEMMA AddsElsewhere ==
  ASSUME NEW s, NEW d, NEW old, NEW new, NEW rows, Adds(s, d, old, new, rows),
         NEW axis \in Range(Axes), Draws[s][d].axis # axis
  PROVE  new[axis] = old[axis]
BY DEF Adds

LEMMA AddsCode ==
  ASSUME NEW s, NEW d, NEW old, NEW new, NEW rows, Adds(s, d, old, new, rows),
         CodeMet(old, s, d - 1)
  PROVE  CodeMet(new, s, d)
<1> DEFINE C == "code_agentic"
           b == AxisBudget(s, C)
<1>a. s \in Corpora /\ d \in 1..Len(Draws[s])
  BY DEF Adds
<1>0. CallAt(s, d) /\ First(s) \in Nat /\ d \in Nat /\ C \in Range(Axes) /\ b \in Nat
  BY <1>a, CallsAre, LengthIs, AxesAre, BudgetsAreNat
<1>1. CASE d < First(s) + 7
  BY <1>0, <1>1 DEF CodeMet
<1>2. CASE d = First(s) + 7
  <2>1. IsCall(Draws[s][d], "code", C, "rest", b, FALSE, TRUE)
    BY <1>a, <1>2, DrawsAre, Zenon
  <2>2. Draws[s][d].axis = C /\ Draws[s][d].by = "rest" /\ Draws[s][d].limit = b
        /\ Draws[s][d].required
    BY <2>1 DEF IsCall
  <2>3. TokensOf(rows) >= b - TokensOf(old[C])
    BY <2>2 DEF Adds
  <2>4. /\ TokensOf(new[C]) = TokensOf(old[C]) + TokensOf(rows)
        /\ TokensOf(old[C]) \in Nat /\ TokensOf(rows) \in Nat
    BY <2>2, AddsOwn
  <2> QED
    BY <1>0, <2>3, <2>4 DEF CodeMet
<1>3. CASE d > First(s) + 7
  <2>1. Draws[s][d].axis # C
    BY <1>0, <1>3 DEF CallAt, IsCall
  <2>2. new[C] = old[C]
    BY <1>0, <2>1, AddsElsewhere
  <2> QED
    BY <1>0, <1>3, <2>2 DEF CodeMet
<1> QED
  BY <1>0, <1>1, <1>2, <1>3

\* What a call for tokens has at its end: its budget and no whole prompt more.
LEMMA AddsTokens ==
  ASSUME NEW s, NEW d, NEW old, NEW new, NEW rows, Adds(s, d, old, new, rows),
         NEW axis \in Range(Axes), NEW budget \in Int,
         Draws[s][d].axis = axis, Draws[s][d].by # "records",
         budget = IF Draws[s][d].by = "rest" THEN Draws[s][d].limit - TokensOf(old[axis])
                  ELSE Draws[s][d].limit
  PROVE  /\ TokensOf(old[axis]) \in Nat
         /\ \/ TokensOf(new[axis]) = TokensOf(old[axis])
            \/ TokensOf(new[axis]) < TokensOf(old[axis]) + budget + MaxTokens
         /\ Draws[s][d].required => TokensOf(new[axis]) >= TokensOf(old[axis]) + budget
<1>1. /\ rows = <<>> \/ TokensOf(rows) < budget + MaxTokens
      /\ Draws[s][d].required => TokensOf(rows) >= budget
  BY DEF Adds
<1>2. /\ TokensOf(new[axis]) = TokensOf(old[axis]) + TokensOf(rows)
      /\ TokensOf(old[axis]) \in Nat /\ TokensOf(rows) \in Nat
  BY AddsOwn
<1>3. rows = <<>> => TokensOf(rows) = 0
  BY TokensOfFew
<1> QED
  BY <1>1, <1>2, <1>3, TokenBounds

LEMMA ShareIs ==
  ASSUME NEW b \in Nat
  PROVE  Round(b * 20, 100) \in Nat /\ Round(b * 20, 100) <= b
<1>1. b * 20 \in Nat
  OBVIOUS
<1>2. Round(b * 20, 100) \in Nat /\ 200 * Round(b * 20, 100) <= 2 * (b * 20) + 100
  <2>1. \A x \in Nat : Round(x, 100) \in Nat /\ 200 * Round(x, 100) <= 2 * x + 100
    BY RoundIs
  <2> QED
    BY <1>1, <2>1
<1>3. CASE b = 0
  BY <1>3 DEF Round
<1> QED
  BY <1>2, <1>3

LEMMA AddsMath ==
  ASSUME NEW s, NEW d, NEW old, NEW new, NEW rows, Adds(s, d, old, new, rows),
         MathMet(old, s, d - 1)
  PROVE  MathMet(new, s, d)
<1> DEFINE M == "math_reasoning"
           b == AxisBudget(s, M)
<1>a. s \in Corpora /\ d \in 1..Len(Draws[s])
  BY DEF Adds
<1>0. CallAt(s, d) /\ First(s) \in Nat /\ d \in Nat /\ M \in Range(Axes) /\ b \in Nat
  BY <1>a, CallsAre, LengthIs, AxesAre, BudgetsAreNat
<1>b. MathShare(s) \in Nat /\ MathShare(s) <= b
  BY <1>0, ShareIs DEF MathShare
<1>1. CASE d < First(s) + 8
  BY <1>0, <1>1 DEF MathMet
<1>2. CASE d = First(s) + 8
  <2>1. IsCall(Draws[s][d], "math", M, "tokens", MathShare(s), TRUE, FALSE)
    BY <1>a, <1>2, DrawsAre, Zenon DEF MathShare
  <2>2. Draws[s][d].axis = M /\ Draws[s][d].by = "tokens" /\ Draws[s][d].limit = MathShare(s)
    BY <2>1 DEF IsCall
  <2>3. old[M] = <<>>
    <3>1. FirstCall(s, M) = First(s) + 8
      BY DEF FirstCall
    <3> QED
      BY <1>0, <1>2, <3>1 DEF Adds
  <2>4. TokensOf(old[M]) = 0
    BY <2>3, TokensOfFew
  <2>5. \/ TokensOf(new[M]) = TokensOf(old[M])
        \/ TokensOf(new[M]) < TokensOf(old[M]) + MathShare(s) + MaxTokens
    <3>1. MathShare(s) \in Int
      BY <1>b
    <3> QED
      BY <1>0, <2>2, <3>1, AddsTokens
  <2>6. TokensOf(new[M]) < MathShare(s) + MaxTokens
    BY <1>b, <2>4, <2>5, TokenBounds
  <2> QED
    BY <1>0, <1>2, <2>6 DEF MathMet
<1>3. CASE d = First(s) + 9
  <2>1. IsCall(Draws[s][d], "math", M, "rest", b, TRUE, TRUE)
    BY <1>a, <1>3, DrawsAre, Zenon
  <2>2. Draws[s][d].axis = M /\ Draws[s][d].by = "rest" /\ Draws[s][d].limit = b
        /\ Draws[s][d].required
    BY <2>1 DEF IsCall
  <2>3. TokensOf(old[M]) < MathShare(s) + MaxTokens
    BY <1>0, <1>3 DEF MathMet
  <2> DEFINE budget == b - TokensOf(old[M])
  <2>4. TokensOf(old[M]) \in Nat
    BY <2>2, AddsOwn
  <2>5. budget \in Int
    BY <1>0, <2>4
  <2>6. TokensOf(old[M]) + budget = b
    BY <1>0, <2>4
  <2>7. budget = IF Draws[s][d].by = "rest" THEN Draws[s][d].limit - TokensOf(old[M])
                 ELSE Draws[s][d].limit
    BY <2>2
  <2> HIDE DEF budget
  <2>8. /\ \/ TokensOf(new[M]) = TokensOf(old[M])
           \/ TokensOf(new[M]) < TokensOf(old[M]) + budget + MaxTokens
        /\ TokensOf(new[M]) >= TokensOf(old[M]) + budget
    BY <1>0, <2>2, <2>5, <2>7, AddsTokens
  <2>9. b <= TokensOf(new[M]) /\ TokensOf(new[M]) < b + MaxTokens
    BY <1>0, <1>b, <2>3, <2>4, <2>5, <2>6, <2>8, TokenBounds
  <2> QED
    BY <1>0, <1>3, <2>9 DEF MathMet
<1>4. CASE d > First(s) + 9
  <2>1. Draws[s][d].axis # M
    BY <1>0, <1>4 DEF CallAt, IsCall
  <2>2. new[M] = old[M]
    BY <1>0, <2>1, AddsElsewhere
  <2> QED
    BY <1>0, <1>4, <2>2 DEF MathMet
<1> QED
  BY <1>0, <1>1, <1>2, <1>3, <1>4

LEMMA AddsStructured ==
  ASSUME NEW s, NEW d, NEW old, NEW new, NEW rows, Adds(s, d, old, new, rows)
  PROVE  StructuredMet(new, s, d)
<1> DEFINE S == "structured_output"
           b == AxisBudget(s, S)
<1>a. s \in Corpora /\ d \in 1..Len(Draws[s])
  BY DEF Adds
<1>0. First(s) \in Nat /\ d \in Nat /\ d <= First(s) + 10 /\ S \in Range(Axes) /\ b \in Nat
  BY <1>a, LengthIs, AxesAre, BudgetsAreNat
<1>1. CASE d < First(s) + 10
  BY <1>0, <1>1 DEF StructuredMet
<1>2. CASE d = First(s) + 10
  <2>1. IsCall(Draws[s][d], "structured", S, "tokens", b, TRUE, TRUE)
    BY <1>a, <1>2, DrawsAre, Zenon
  <2>2. Draws[s][d].axis = S /\ Draws[s][d].by = "tokens" /\ Draws[s][d].limit = b
        /\ Draws[s][d].required
    BY <2>1 DEF IsCall
  <2>3. old[S] = <<>>
    <3>1. FirstCall(s, S) = First(s) + 10
      BY DEF FirstCall
    <3> QED
      BY <1>0, <1>2, <3>1 DEF Adds
  <2>4. TokensOf(old[S]) = 0
    BY <2>3, TokensOfFew
  <2>5. /\ \/ TokensOf(new[S]) = TokensOf(old[S])
           \/ TokensOf(new[S]) < TokensOf(old[S]) + b + MaxTokens
        /\ TokensOf(new[S]) >= TokensOf(old[S]) + b
    <3>1. b \in Int
      BY <1>0
    <3> QED
      BY <1>0, <2>2, <3>1, AddsTokens
  <2>6. b <= TokensOf(new[S]) /\ TokensOf(new[S]) < b + MaxTokens
    BY <1>0, <2>4, <2>5, TokenBounds, SMTT(40)
  <2> QED
    BY <2>6 DEF StructuredMet
<1> QED
  BY <1>0, <1>1, <1>2

\* What the running call, when it returns, adds to its corpus.
LEMMA EndAdds ==
  ASSUME Bookkeeping, Drawn, Within, EndDraw, pc' = "select"
  PROVE  Adds(split, draw, selected[split], selected'[split], got)
<1>1. /\ split \in Corpora /\ Current = Draws[split][draw] /\ draw \in 1..Len(Draws[split])
      /\ Current.axis \in Range(Axes) /\ pc = "draw"
      /\ selected[split] \in [Range(Axes) -> Seq(Rows)] /\ got \in Seq(Rows)
  BY CurrentIs DEF EndDraw, Bookkeeping, TypeOK
<1>2. Joined
  BY EndIs DEF Failed
<1>3. /\ selected'[split][Current.axis] = selected[split][Current.axis] \o got
      /\ \A a \in Range(Axes) : a # Current.axis => selected'[split][a] = selected[split][a]
  BY <1>1, <1>2 DEF Joined
<1>4. \A a \in Range(Axes) : draw <= FirstCall(split, a) => selected[split][a] = <<>>
  BY <1>1 DEF Drawn, Pending
<1>5. Current.required => LimitReached
  BY DEF EndDraw
<1>6. IF Current.by = "records" THEN Len(got) <= Current.limit
      ELSE got = <<>> \/ TokensOf(got) < TokenBudget + MaxTokens
  BY <1>1 DEF Within
<1> QED
  BY <1>1, <1>3, <1>4, <1>5, <1>6 DEF Adds, LimitReached, TokenBudget

LEMMA MetFixed ==
  ASSUME UNCHANGED selected
  PROVE  \A s, d : Met(s, d)' <=> Met(s, d)
BY DEF Met

LEMMA NothingMet ==
  ASSUME NEW s \in Corpora, \A a \in Range(Axes) : selected[s][a] = <<>>
  PROVE  Met(s, 0)
<1>1. First(s) \in Nat /\ Len(<<>>) = 0
  BY FirstIs
<1>2. ArticlesMet(selected[s], s, 0)
  BY <1>1, AxesAre DEF ArticlesMet, Upto
<1>3. CodeMet(selected[s], s, 0) /\ MathMet(selected[s], s, 0) /\ StructuredMet(selected[s], s, 0)
  BY <1>1 DEF CodeMet, MathMet, StructuredMet
<1> QED
  BY <1>2, <1>3 DEF Met

LEMMA EndMet ==
  ASSUME Bookkeeping, Drawn, Within, AllMet, EndDraw
  PROVE  AllMet'
<1>0. /\ pc = "draw" /\ UNCHANGED split /\ (Joined \/ Failed)
      /\ split \in Corpora /\ draw \in Nat /\ Current.axis \in Range(Axes)
      /\ selected \in [Corpora -> [Range(Axes) -> Seq(Rows)]]
  BY EndIs, CurrentIs DEF Bookkeeping, TypeOK
<1>1. CASE Failed
  BY <1>1 DEF Failed, AllMet
<1>2. CASE Joined
  <2>1. pc' = "select" /\ draw' = draw + 1 /\ draw' - 1 = draw
    BY <1>0, <1>2 DEF Joined
  <2>2. Adds(split, draw, selected[split], selected'[split], got)
    BY <2>1, EndAdds
  <2>3. Met(split, draw - 1)
    BY <1>0 DEF AllMet
  <2>4. /\ ArticlesMet(selected'[split], split, draw) /\ CodeMet(selected'[split], split, draw)
        /\ MathMet(selected'[split], split, draw) /\ StructuredMet(selected'[split], split, draw)
    BY <2>2, <2>3, AddsArticles, AddsCode, AddsMath, AddsStructured DEF Met
  <2>5. Met(split, draw - 1)'
    BY <1>0, <2>1, <2>4 DEF Met
  <2>6. ASSUME split = "heldout"
        PROVE  Met("calibration", Len(Draws["calibration"]))'
    <3>1. Met("calibration", Len(Draws["calibration"]))
      BY <1>0, <2>6 DEF AllMet
    <3>2. selected'["calibration"] = selected["calibration"]
      <4>1. /\ selected'["calibration"] \in [Range(Axes) -> Seq(Rows)]
            /\ selected["calibration"] \in [Range(Axes) -> Seq(Rows)]
        BY <1>0, <1>2 DEF Joined, Corpora
      <4>2. \A a \in Range(Axes) : selected'["calibration"][a] = selected["calibration"][a]
        BY <1>2, <2>6 DEF Joined, Corpora
      <4> QED
        BY <4>1, <4>2
    <3> QED
      BY <3>1, <3>2 DEF Met
  <2> QED
    BY <1>0, <2>1, <2>5, <2>6 DEF AllMet
<1> QED
  BY <1>0, <1>1, <1>2

LEMMA SplitMet ==
  ASSUME Bookkeeping, Drawn, AllMet, EndSplit
  PROVE  AllMet'
<1>1. /\ split \in Corpora /\ draw - 1 = Len(Draws[split]) /\ pc = "select" /\ draw' - 1 = 0
      /\ UNCHANGED selected
  BY LengthIs DEF EndSplit, Bookkeeping, TypeOK, AtCall
<1>2. Met(split, Len(Draws[split]))
  BY <1>1 DEF AllMet
<1>3. CASE split = "calibration"
  <2>1. split' = "heldout" /\ pc' = "select"
    BY <1>3 DEF EndSplit
  <2>2. Met("heldout", 0)
    <3>1. \A a \in Range(Axes) : selected["heldout"][a] = <<>>
      BY <1>1, <1>3 DEF Drawn, Pending
    <3> QED
      BY <3>1, NothingMet DEF Corpora
  <2>3. Met("heldout", 0)' /\ Met("calibration", Len(Draws["calibration"]))'
    BY <1>1, <1>2, <1>3, <2>2, MetFixed
  <2> QED
    BY <1>1, <2>1, <2>3 DEF AllMet
<1>4. CASE split = "heldout"
  <2>1. pc' = "screen"
    BY <1>4 DEF EndSplit
  <2>2. Met("calibration", Len(Draws["calibration"]))
    BY <1>1, <1>4 DEF AllMet
  <2>3. \A s \in Corpora : Met(s, Len(Draws[s]))'
    BY <1>1, <1>2, <1>4, <2>2, MetFixed DEF Corpora
  <2> QED
    BY <2>1, <2>3 DEF AllMet
<1> QED
  BY <1>1, <1>3, <1>4 DEF Corpora

LEMMA OthersMet ==
  ASSUME Bookkeeping, AllMet,
         BeginDraw \/ NextPass \/ Visit \/ Screen \/ StageFile \/ PromoteFile \/ CheckSplits
           \/ Crash \/ ClearOutput \/ UNCHANGED vars
  PROVE  AllMet'
<1>1. CASE BeginDraw \/ NextPass \/ Visit
  <2>1. /\ UNCHANGED <<selected, split, draw>>
        /\ pc \in {"select", "draw"} /\ pc' = "draw"
    BY <1>1 DEF BeginDraw, NextPass, Visit
  <2> QED
    BY <2>1, MetFixed DEF AllMet
<1>2. CASE Screen \/ StageFile \/ PromoteFile \/ CheckSplits
  <2>1. /\ UNCHANGED selected
        /\ pc \in {"screen", "stage", "check", "done"} /\ pc' \notin {"select", "draw"}
    BY <1>2 DEF Screen, StageFile, PromoteFile, CheckSplits
  <2> QED
    BY <2>1, MetFixed DEF AllMet
<1>3. CASE Crash \/ ClearOutput
  BY <1>3 DEF AllMet, Crash, ClearOutput
<1>4. CASE UNCHANGED vars
  BY <1>4, MetFixed DEF AllMet, vars
<1> QED
  BY <1>1, <1>2, <1>3, <1>4

LEMMA StartMet ==
  ASSUME Bookkeeping, AllMet, Start
  PROVE  AllMet'
<1>1. /\ split = "calibration" /\ draw - 1 = 0 /\ selected = Nothing
      /\ UNCHANGED <<selected, split, draw>> /\ pc' \in {"refused", "select"}
  BY DEF Start, Bookkeeping, AtCall
<1>2. Met("calibration", 0)
  BY <1>1, NothingMet DEF Nothing, Corpora
<1>3. Met("calibration", 0)'
  BY <1>1, <1>2, MetFixed
<1> QED
  BY <1>1, <1>3 DEF AllMet

\* A call begins with nothing; only a running call draws.
LEMMA StepWithin ==
  ASSUME Bookkeeping, Drawn, Within, [Next]_vars
  PROVE  Within'
<1>1. CASE BeginDraw
  <2>1. /\ split \in Corpora /\ draw \in 1..Len(Draws[split]) /\ pc' = "draw" /\ got' = <<>>
        /\ Current' = Draws[split][draw]
    BY <1>1, LengthIs DEF BeginDraw, Bookkeeping, TypeOK, AtCall, Current
  <2>2. Current'.limit \in Nat /\ Len(got') = 0
    BY <2>1, LimitIsNat
  <2> QED
    BY <2>1, <2>2 DEF Within
<1>2. CASE Visit
  BY <1>2, VisitWithin
<1>3. CASE NextPass \/ UNCHANGED vars
  <2>1. UNCHANGED <<pc, split, draw, got, selected>>
    BY <1>3 DEF NextPass, vars
  <2>2. Current' = Current /\ TokenBudget' = TokenBudget
    BY <2>1 DEF Current, TokenBudget
  <2> QED
    BY <2>1, <2>2 DEF Within
<1>4. CASE EndDraw \/ EndSplit \/ Screen \/ StageFile \/ PromoteFile \/ CheckSplits \/ Start
           \/ Crash \/ ClearOutput
  <2>1. pc' # "draw"
    BY <1>4 DEF EndDraw, EndSplit, Screen, StageFile, PromoteFile, CheckSplits, Start, Crash,
                ClearOutput
  <2> QED
    BY <2>1 DEF Within
<1> QED
  BY <1>1, <1>2, <1>3, <1>4 DEF Next, Build

LEMMA BudgetInvariant == Spec => [](AllMet /\ Within)
<1>1. Init => AllMet /\ Within
  BY DEF Init, AllMet, Within
<1>2. Bookkeeping /\ Drawn /\ AllMet /\ Within /\ [Next]_vars => (AllMet /\ Within)'
  <2> SUFFICES ASSUME Bookkeeping, Drawn, AllMet, Within, [Next]_vars
               PROVE  AllMet' /\ Within'
    OBVIOUS
  <2>1. Within'
    BY StepWithin
  <2>2. AllMet'
    BY EndMet, SplitMet, OthersMet, StartMet DEF Next, Build
  <2> QED
    BY <2>1, <2>2
<1> QED
  BY <1>1, <1>2, QueuesAreOfTheirStrata, DrawnInvariant, PTL DEF Spec

\* When the files are written every axis has its budget, and where a call for
\* tokens ends it not a whole prompt more.
THEOREM BudgetsAreFilled == Spec => [](pc \in {"stage", "check", "done"} => BudgetsMet)
<1>1. AllMet /\ pc \in {"stage", "check", "done"} => BudgetsMet
  <2> SUFFICES ASSUME AllMet, pc \in {"stage", "check", "done"}, NEW s \in Corpora
               PROVE  /\ \A axis \in {"code_agentic", "math_reasoning", "structured_output"} :
                           TokensOf(selected[s][axis]) >= AxisBudget(s, axis)
                      /\ \A axis \in {"math_reasoning", "structured_output"} :
                           TokensOf(selected[s][axis]) < AxisBudget(s, axis) + MaxTokens
                      /\ \A axis \in {"general", "reasoning_termination"} :
                           Len(selected[s][axis])
                             = AtLeast(2, CeilDiv(AxisBudget(s, axis), TargetTokens))
    BY DEF BudgetsMet
  <2> DEFINE d == Len(Draws[s])
  <2>1. Met(s, d)
    BY DEF AllMet
  <2>2. d = First(s) + 10 /\ First(s) \in Nat
    BY LengthIs
  <2> HIDE DEF d
  <2>3. TokensOf(selected[s]["code_agentic"]) >= AxisBudget(s, "code_agentic")
    BY <2>1, <2>2 DEF Met, CodeMet
  <2>4. /\ AxisBudget(s, "math_reasoning") <= TokensOf(selected[s]["math_reasoning"])
        /\ TokensOf(selected[s]["math_reasoning"]) < AxisBudget(s, "math_reasoning") + MaxTokens
    BY <2>1, <2>2 DEF Met, MathMet
  <2>5. /\ AxisBudget(s, "structured_output") <= TokensOf(selected[s]["structured_output"])
        /\ TokensOf(selected[s]["structured_output"])
             < AxisBudget(s, "structured_output") + MaxTokens
    BY <2>1, <2>2 DEF Met, StructuredMet
  <2>6. /\ Len(selected[s]["reasoning_termination"]) = Upto(QuotasOf(s, "reasoning_termination"), d)
        /\ Len(selected[s]["general"]) = Upto(QuotasOf(s, "general"), d - 3)
    BY <2>1 DEF Met, ArticlesMet
  <2>7. ASSUME NEW axis \in {"general", "reasoning_termination"}, NEW i \in Int, i >= 3
        PROVE  Upto(QuotasOf(s, axis), i) = AtLeast(2, CeilDiv(AxisBudget(s, axis), TargetTokens))
    <3> DEFINE b == AxisBudget(s, axis)
               q == WikiQuotas(b)
    <3>1. b \in Nat
      BY AxesAre, BudgetsAreNat
    <3>2. /\ q[1] \in Nat /\ q[2] \in Nat /\ q[3] \in Nat
          /\ q[1] + q[2] + q[3] = AtLeast(2, CeilDiv(b, TargetTokens))
      BY <3>1, QuotasAre
    <3> HIDE DEF q
    <3>3. Upto(q, i) = q[1] + q[2] + q[3]
      BY <2>7, <3>2 DEF Upto
    <3> QED
      BY <3>2, <3>3 DEF q, QuotasOf
  <2>8. d \in Int /\ d >= 3 /\ d - 3 \in Int /\ d - 3 >= 3
    BY <2>2
  <2>9. \A axis \in {"general", "reasoning_termination"} :
          Len(selected[s][axis]) = AtLeast(2, CeilDiv(AxisBudget(s, axis), TargetTokens))
    BY <2>6, <2>7, <2>8
  <2>10. \A axis \in {"math_reasoning", "structured_output"} :
           TokensOf(selected[s][axis]) < AxisBudget(s, axis) + MaxTokens
    BY <2>4, <2>5
  <2>11. \A axis \in {"code_agentic", "math_reasoning", "structured_output"} :
           TokensOf(selected[s][axis]) >= AxisBudget(s, axis)
    BY <2>3, <2>4, <2>5
  <2> QED
    BY <2>9, <2>10, <2>11
<1> QED
  BY <1>1, BudgetInvariant, PTL

\* Nothing is shared by the corpora or drawn twice, and all budgets are met: what
\* build_calibration_corpus promises of the corpora it writes.
THEOREM CorpusIsSound == Spec => []CorpusSound
<1>1. (pc # "overlap") /\ DrawnOnce /\ (pc \in {"stage", "check", "done"} => BudgetsMet) => CorpusSound
  BY DEF CorpusSound
<1> QED
  BY <1>1, CorporaShareNothing, NoRowIsDrawnTwice, BudgetsAreFilled, PTL
=============================================================================
