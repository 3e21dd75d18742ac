-------------------------- MODULE CalibrationCorpus --------------------------
(* quantization/build_calibration_corpus.py: the prompts the model is         *)
(* quantized with and those held out, drawn from four prompt banks.           *)
(*                                                                            *)
(* A source row is a record of what its bank says of it and of what the       *)
(* tokenizer makes of its excerpts: counts[k + 1] is the length of the        *)
(* rendered prompt when k tokens of the article, of the code window or of the *)
(* prompt are kept. Digests are orders and buckets that a seed fixes: `seed`  *)
(* holds them. The order of the output lines is left out. A queue is the set  *)
(* of the places its rows have in the order of their digests.                 *)
EXTENDS Integers, Sequences, FiniteSets, FiniteSetsExt, Functions

CONSTANTS
  Rows,                \* the rows of the banks
  Orders,              \* the orders of the rows the digests may give
  HeldoutChoices,      \* the sets of groups whose bucket may be 0
  CalibrationTokens, HeldoutTokens,
  MinTokens, TargetTokens, MaxTokens,
  CodePriority         \* CODE_PRIORITY_LANGUAGES, in order

ASSUME TokenBounds ==
  /\ CalibrationTokens \in Nat \ {0}
  /\ HeldoutTokens \in Nat \ {0}
  /\ MinTokens \in Nat /\ TargetTokens \in Nat /\ MaxTokens \in Nat
  /\ 1 <= MinTokens /\ MinTokens <= TargetTokens /\ TargetTokens <= MaxTokens

Domains == {"wiki", "code", "math", "structured"}

ASSUME BankRows ==
  /\ \A row \in Rows : /\ row.domain \in Domains
                       /\ row.counts \in Seq(Nat) /\ Len(row.counts) > 0
                       /\ row.domain = "code" => row.plain \in Seq(Nat) /\ Len(row.plain) > 0
  /\ Orders \subseteq Seq(Rows)
  /\ \A order \in Orders : Range(order) = Rows
  /\ CodePriority \in Seq(STRING)

Corpora == {"calibration", "heldout"}
Files == <<"calibration", "heldout", "screening">>
Axes == <<"code_agentic", "general", "math_reasoning", "reasoning_termination",
          "structured_output">>
AxisWeights == <<36, 26, 22, 13, 11>>          \* in units of 10_000 tokens

VARIABLES
  pc,          \* where build is
  seed,        \* the orders and the held-out groups of args.seed
  split,       \* the corpus being selected
  draw,        \* which call of take_round_robin is next or running
  queues,      \* its queue of each stratum
  pass,        \* the strata of this pass that have not had their turn
  progress,    \* made_progress
  got,         \* what this call has selected
  selected,    \* what earlier calls have selected, per split and axis
  screening,   \* the rows of the screening file
  files,       \* complete files of the output directory
  staged       \* a temporary file is in it

vars == <<pc, seed, split, draw, queues, pass, progress, got, selected,
          screening, files, staged>>
drawVars == <<queues, pass, progress, got>>
Nothing == [s \in Corpora |-> [axis \in Range(Axes) |-> <<>>]]

-----------------------------------------------------------------------------
(* Rows.                                                                      *)

Group(row) == <<row.domain, row.item>>
Identity(row) ==
  <<row.domain, row.item, row.family, row.bank, row.text,
    IF row.domain = "math" THEN row.language ELSE "">>
Stratum(row) ==
  CASE row.domain \in {"wiki", "code"} -> <<row.family, row.language>>
    [] row.domain = "math"             -> <<row.bank, row.language>>
    [] row.domain = "structured"       -> <<row.bank, row.family, row.language>>

SplitOf(row) == IF Group(row) \in seed.buckets THEN "heldout" ELSE "calibration"

(* a is nearer the target than b; of two as near, the shorter is.             *)
Distance(n) == IF n < TargetTokens THEN TargetTokens - n ELSE n - TargetTokens
Nearer(a, b) == Distance(a) < Distance(b) \/ (Distance(a) = Distance(b) /\ a < b)

NoFit == MaxTokens + 1

(* One round of the binary search for the target: the cut in the middle.      *)
(* Mutant: after a short cut the search goes on one cut too far.              *)
ProbeSkipping(counts, s) ==
  LET middle == (s.low + s.high) \div 2
      n == counts[middle + 1]
      best == IF n <= MaxTokens /\ (s.best = NoFit \/ Nearer(n, s.best)) THEN n ELSE s.best
  IN IF s.low > s.high THEN s
     ELSE IF n < TargetTokens THEN [low |-> middle + 2, high |-> s.high, best |-> best]
     ELSE IF n > TargetTokens THEN [low |-> s.low, high |-> middle - 1, best |-> best]
     ELSE [low |-> s.low, high |-> s.low - 1, best |-> best]

(* A cut on the target ends the search.                                       *)
Probe(counts, s) ==
  LET middle == (s.low + s.high) \div 2
      n == counts[middle + 1]
      best == IF n <= MaxTokens /\ (s.best = NoFit \/ Nearer(n, s.best)) THEN n ELSE s.best
  IN IF s.low > s.high THEN s
     ELSE IF n < TargetTokens THEN [low |-> middle + 1, high |-> s.high, best |-> best]
     ELSE IF n > TargetTokens THEN [low |-> s.low, high |-> middle - 1, best |-> best]
     ELSE [low |-> s.low, high |-> s.low - 1, best |-> best]

(* Each round leaves fewer cuts.                                              *)
Fit(counts) ==
  LET round[k \in 0..Len(counts)] ==
        IF k = 0 THEN [low |-> 0, high |-> Len(counts) - 1, best |-> NoFit]
        ELSE Probe(counts, round[k - 1])
  IN round[Len(counts)].best

(* The length prepare_record gives a row's prompt: an article with no fitting *)
(* excerpt keeps only its frame, a code prompt falls back to a prefix of      *)
(* itself, the other domains are taken whole.                                 *)
PreparedTokens(row) ==
  CASE row.domain = "wiki" ->
         IF Fit(row.counts) = NoFit THEN row.counts[1] ELSE Fit(row.counts)
    [] row.domain = "code" ->
         IF row.fenced /\ Fit(row.counts) # NoFit THEN Fit(row.counts)
         ELSE IF Fit(row.plain) = NoFit THEN row.plain[1] ELSE Fit(row.plain)
    [] OTHER -> row.counts[Len(row.counts)]
PromptTokens == [row \in Rows |-> PreparedTokens(row)]

Eligible(row) == PromptTokens[row] \in MinTokens..MaxTokens

TokensOf(rows) ==
  LET total[i \in 0..Len(rows)] ==
        IF i = 0 THEN 0 ELSE total[i - 1] + PromptTokens[rows[i]]
  IN total[Len(rows)]

-----------------------------------------------------------------------------
(* Budgets and the calls of take_round_robin one split makes.                 *)

(* round(n / d): halves go to the even neighbour.                             *)
Round(n, d) ==
  LET floor == n \div d
      twice == 2 * (n % d)
  IN IF twice > d \/ (twice = d /\ floor % 2 = 1) THEN floor + 1 ELSE floor
CeilDiv(n, d) == (n + d - 1) \div d
AtLeast(a, b) == IF a < b THEN b ELSE a

BudgetOf(s) == IF s = "calibration" THEN CalibrationTokens ELSE HeldoutTokens
TotalWeight == AxisWeights[1] + AxisWeights[2] + AxisWeights[3] + AxisWeights[4] + AxisWeights[5]
Rounded(s, i) == Round(BudgetOf(s) * AxisWeights[i], TotalWeight)
AxisBudget(s, axis) ==
  LET i == CHOOSE j \in DOMAIN Axes : Axes[j] = axis
  IN IF i < Len(Axes) THEN Rounded(s, i)
     ELSE BudgetOf(s) - Rounded(s, 1) - Rounded(s, 2) - Rounded(s, 3) - Rounded(s, 4)

(* Records of English, of Chinese and of any other language.                  *)
WikiQuotas(budget) ==
  LET n == CeilDiv(budget, TargetTokens)
      en == AtLeast(1, Round(n * 40, 100))
      zh == AtLeast(1, Round(n * 35, 100))
  IN IF n - en - zh >= 1 THEN <<en, zh, n - en - zh>>
     ELSE IF en >= zh THEN <<en - 1, zh, 1>> ELSE <<en, zh - 1, 1>>

(* The parameters of a call, with their defaults; a limit is of records, of   *)
(* tokens, or of the tokens the axis has left.                                *)
Call(domain, axis, by, limit) ==
  [domain |-> domain, axis |-> axis, by |-> by, limit |-> limit,
   languages |-> {row.language : row \in Rows}, topics |-> {row.topic : row \in Rows},
   families |-> {row.family : row \in Rows}, unique |-> TRUE, required |-> TRUE]
Focus == {"en", "zh"}
ReasoningFamilies == {"mc", "relate"}

Except(c, languages) == [c EXCEPT !.languages = @ \ languages]
Only(c, languages) == [c EXCEPT !.languages = languages]

(* A call for so many tokens of articles, as one for each kind of language.   *)
WikiDraws(call) ==
  LET quotas == WikiQuotas(call.limit)
      Of(i) == [call EXCEPT !.by = "records", !.limit = quotas[i]]
  IN <<Only(Of(1), {"en"}), Only(Of(2), {"zh"}), Except(Of(3), Focus)>>

ReasoningDraws(s) ==
  WikiDraws([Call("wiki", "reasoning_termination", "tokens",
                  AxisBudget(s, "reasoning_termination"))
               EXCEPT !.topics = {"reasoning"}, !.families = ReasoningFamilies,
                      !.unique = FALSE])
GeneralDraws(s) ==
  WikiDraws([Call("wiki", "general", "tokens", AxisBudget(s, "general"))
               EXCEPT !.topics = @ \ {"legal", "reasoning"}])
CodeDraws(s) ==
  LET budget == AxisBudget(s, "code_agentic")
      wanted == CeilDiv(budget, TargetTokens)
      first == IF wanted < Len(CodePriority) THEN wanted ELSE Len(CodePriority)
      Of(by, limit) == [Call("code", "code_agentic", by, limit) EXCEPT !.unique = FALSE]
  IN [i \in 1..first |-> [Only(Of("records", 1), {CodePriority[i]}) EXCEPT !.required = FALSE]]
     \o <<Of("rest", budget)>>
MathDraws(s) ==
  LET budget == AxisBudget(s, "math_reasoning")
      Of(by, limit) == Call("math", "math_reasoning", by, limit)
  IN <<[Only(Of("tokens", Round(budget * 20, 100)), {"zh"}) EXCEPT !.required = FALSE],
       Except(Of("rest", budget), {"zh"})>>
StructuredDraws(s) ==
  <<Call("structured", "structured_output", "tokens", AxisBudget(s, "structured_output"))>>

Draws == [s \in Corpora |-> ReasoningDraws(s) \o GeneralDraws(s) \o CodeDraws(s)
                              \o MathDraws(s) \o StructuredDraws(s)]
Current == Draws[split][draw]

(* The budget of a call: the last call of code and math takes what the axis   *)
(* has left.                                                                  *)
TokenBudget ==
  IF Current.by = "rest" THEN Current.limit - TokensOf(selected[split][Current.axis])
  ELSE Current.limit

LimitReached ==
  IF Current.by = "records" THEN Len(got) >= Current.limit ELSE TokensOf(got) >= TokenBudget

-----------------------------------------------------------------------------
(* take_round_robin.                                                          *)

Matches(row) ==
  /\ row.domain = Current.domain
  /\ SplitOf(row) = split
  /\ row.language \in Current.languages
  /\ row.topic \in Current.topics
  /\ row.family \in Current.families

(* Each select_ function starts with empty sets of what is taken, except that *)
(* the two on wiki share theirs. The domain is part of identity and group, so *)
(* this is what was selected so far for the split.                            *)
Taken == Range(got) \cup UNION {Range(selected[split][axis]) : axis \in Range(Axes)}
(* Mutant: unique_groups is not looked at.                                    *)
UsableByIdentity(row) ==
  /\ \A other \in Taken : Identity(other) # Identity(row)
  /\ Eligible(row)

Usable(row) ==
  /\ \A other \in Taken : Identity(other) # Identity(row)
  /\ Current.unique => \A other \in Taken : Group(other) # Group(row)
  /\ Eligible(row)

Queue(s) == {i \in DOMAIN seed.orders[split] :
               Matches(seed.orders[split][i]) /\ Stratum(seed.orders[split][i]) = s}
Strata == {s \in {Stratum(row) : row \in Rows} : Queue(s) # {}}

(* The rows that pass the filters, queued by stratum in the digests' order.   *)
BeginDraw ==
  /\ pc = "select"
  /\ draw <= Len(Draws[split])
  /\ queues' = [s \in Strata |-> Queue(s)]
  /\ pass' = {}
  /\ progress' = TRUE
  /\ got' = <<>>
  /\ pc' = "draw"
  /\ UNCHANGED <<seed, split, draw, selected, screening, files, staged>>

(* stratum_order: a stratum leaves it when its queue is empty.                *)
Open == {s \in DOMAIN queues : queues[s] # {}}

NextPass ==
  /\ pc = "draw"
  /\ pass = {} /\ Open # {} /\ progress /\ ~LimitReached
  /\ pass' = Open
  /\ progress' = FALSE
  /\ UNCHANGED <<pc, seed, split, draw, queues, got, selected, screening, files, staged>>

(* The strata, too, have an order of digests.                                 *)
Place(s) == Min({i \in DOMAIN seed.orders.strata : Stratum(seed.orders.strata[i]) = s})
NextStratum == CHOOSE s \in pass : \A other \in pass : Place(s) <= Place(other)

UsableIn(queue) == {i \in queue : Usable(seed.orders[split][i])}
(* Mutant: a stratum keeps its turn until it is empty.                        *)
VisitAgain ==
  /\ pc = "draw"
  /\ pass # {} /\ ~LimitReached
  /\ LET stratum == NextStratum
         usable == UsableIn(queues[stratum])
         rest == IF usable = {} THEN {} ELSE {i \in queues[stratum] : i > Min(usable)}
     IN /\ queues' = [queues EXCEPT ![stratum] = rest]
        /\ got' = IF usable = {} THEN got ELSE Append(got, seed.orders[split][Min(usable)])
        /\ progress' = (progress \/ usable # {})
        /\ pass' = IF rest = {} THEN pass \ {stratum} ELSE pass
  /\ UNCHANGED <<pc, seed, split, draw, selected, screening, files, staged>>

(* One stratum's turn: rows are dropped until one can be used.                *)
Visit ==
  /\ pc = "draw"
  /\ pass # {} /\ ~LimitReached
  /\ LET stratum == NextStratum
         usable == UsableIn(queues[stratum])
         rest == IF usable = {} THEN {} ELSE {i \in queues[stratum] : i > Min(usable)}
     IN /\ queues' = [queues EXCEPT ![stratum] = rest]
        /\ got' = IF usable = {} THEN got ELSE Append(got, seed.orders[split][Min(usable)])
        /\ progress' = (progress \/ usable # {})
        /\ pass' = pass \ {stratum}
  /\ UNCHANGED <<pc, seed, split, draw, selected, screening, files, staged>>

(* The call returns or, short of a limit it had to reach, raises.             *)
EndDraw ==
  /\ pc = "draw"
  /\ LimitReached \/ (pass = {} /\ (Open = {} \/ ~progress))
  /\ IF Current.required /\ ~LimitReached
     THEN /\ pc' = "failed"
          /\ UNCHANGED <<draw, selected>>
     ELSE /\ pc' = "select"
          /\ selected' = [selected EXCEPT ![split][Current.axis] = @ \o got]
          /\ draw' = draw + 1
  /\ queues' = <<>> /\ pass' = {} /\ progress' = FALSE /\ got' = <<>>
  /\ UNCHANGED <<seed, split, screening, files, staged>>

EndSplit ==
  /\ pc = "select"
  /\ draw > Len(Draws[split])
  /\ draw' = 1
  /\ IF split = "calibration" THEN split' = "heldout" /\ pc' = "select"
                              ELSE split' = "screening" /\ pc' = "screen"
  /\ UNCHANGED <<seed, drawVars, selected, screening, files, staged>>

-----------------------------------------------------------------------------
(* select_screening_records: of each axis the first rows that hold a tenth of *)
(* its tokens, at least one.                                                  *)

ScreeningTarget(axis) == Round(TokensOf(selected["calibration"][axis]), 10)
ScreeningOf(axis) ==
  LET order == seed.orders.screening
      places == {i \in DOMAIN order : order[i] \in Range(selected["calibration"][axis])}
      Upto(k) == {i \in places : i <= k}
      enough == {k \in places : MapThenSumSet(LAMBDA i : PromptTokens[order[i]], Upto(k))
                                  >= ScreeningTarget(axis)}
  IN {order[i] : i \in Upto(Min(enough))}

Screen ==
  /\ pc = "screen"
  /\ IF \E axis \in Range(Axes) : selected["calibration"][axis] = <<>>
     THEN pc' = "failed" /\ UNCHANGED screening
     ELSE pc' = "stage" /\ screening' = UNION {ScreeningOf(axis) : axis \in Range(Axes)}
  /\ UNCHANGED <<seed, split, draw, drawVars, selected, files, staged>>

-----------------------------------------------------------------------------
(* The output directory: write_atomic per file, the checks, the manifest.     *)

RowsOf(s) == UNION {Range(selected[s][axis]) : axis \in Range(Axes)}
GroupsOf(s) == {Group(row) : row \in RowsOf(s)}
IdentitiesOf(rows) == {Identity(row) : row \in rows}
NextFile == CHOOSE i \in 1..4 : (i = 4 \/ Files[i] \notin files)
                                /\ \A j \in 1..i - 1 : Files[j] \in files

StageFile ==
  /\ pc = "stage" /\ ~staged
  /\ staged' = TRUE
  /\ UNCHANGED <<pc, seed, split, draw, drawVars, selected, screening, files>>

PromoteFile ==
  /\ pc = "stage" /\ staged
  /\ staged' = FALSE
  /\ files' = files \cup {IF NextFile = 4 THEN "manifest" ELSE Files[NextFile]}
  /\ pc' = CASE NextFile < 3 -> "stage" [] NextFile = 3 -> "check" [] OTHER -> "done"
  /\ UNCHANGED <<seed, split, draw, drawVars, selected, screening>>

CheckSplits ==
  /\ pc = "check"
  /\ pc' = IF \/ GroupsOf("calibration") \cap GroupsOf("heldout") # {}
              \/ ~ IdentitiesOf(screening) \subseteq IdentitiesOf(RowsOf("calibration"))
           THEN "overlap" ELSE "stage"
  /\ UNCHANGED <<seed, split, draw, drawVars, selected, screening, files, staged>>

(* The process dies. A file write_atomic was writing stays beside the others. *)
Crash ==
  /\ pc \notin {"start", "done", "failed", "overlap", "refused"}
  /\ pc' = "start"
  /\ split' = "calibration" /\ draw' = 1
  /\ queues' = <<>> /\ pass' = {} /\ progress' = FALSE /\ got' = <<>>
  /\ selected' = Nothing /\ screening' = {}
  /\ UNCHANGED <<seed, files, staged>>

(* build's first lines: an output directory must be new or empty.             *)
Start ==
  /\ pc = "start"
  /\ pc' = IF files # {} \/ staged THEN "refused" ELSE "select"
  /\ UNCHANGED <<seed, split, draw, drawVars, selected, screening, files, staged>>

(* The operator empties the directory that was refused.                       *)
ClearOutput ==
  /\ pc = "refused"
  /\ pc' = "start"
  /\ files' = {} /\ staged' = FALSE
  /\ UNCHANGED <<seed, split, draw, drawVars, selected, screening>>

-----------------------------------------------------------------------------
Init ==
  /\ seed \in [orders : [Corpora \cup {"strata", "screening"} -> Orders],
               buckets : HeldoutChoices]
  /\ pc = "start"
  /\ split = "calibration" /\ draw = 1
  /\ queues = <<>> /\ pass = {} /\ progress = FALSE /\ got = <<>>
  /\ selected = Nothing /\ screening = {}
  /\ files = {} /\ staged = FALSE

Build == \/ Start \/ BeginDraw \/ NextPass \/ Visit \/ EndDraw \/ EndSplit \/ Screen
         \/ StageFile \/ PromoteFile \/ CheckSplits
Next == Build \/ Crash \/ ClearOutput

Spec == Init /\ [][Next]_vars

-----------------------------------------------------------------------------
(* Properties.                                                                *)

Count(stratum) == Cardinality({i \in DOMAIN got : Stratum(got[i]) = stratum})

(* Selection is fair among strata at every moment: one is two rows ahead of   *)
(* another only when the other has no row left.                               *)
FairRounds ==
  \A a, b \in DOMAIN queues : Count(a) > Count(b) + 1 => queues[b] = {}

(* No row is drawn twice for a corpus and, where its axis asks for it, no     *)
(* group either; the general axis takes no article the reasoning axis took.   *)
DrawnOnce ==
  \A s \in Corpora : \A a, b \in Range(Axes) :
    \A i \in DOMAIN selected[s][a], j \in DOMAIN selected[s][b] :
      LET row == selected[s][a][i]
          other == selected[s][b][j]
      IN <<a, i>> # <<b, j>> =>
           /\ Identity(row) # Identity(other)
           /\ Group(row) = Group(other) => a = b /\ a \in {"reasoning_termination", "code_agentic"}

(* Every axis has its budget, and not a whole prompt more where the budget is *)
(* what ends its last call.                                                   *)
BudgetsMet ==
  \A s \in Corpora :
    /\ \A axis \in {"code_agentic", "math_reasoning", "structured_output"} :
         TokensOf(selected[s][axis]) >= AxisBudget(s, axis)
    /\ \A axis \in {"math_reasoning", "structured_output"} :
         TokensOf(selected[s][axis]) < AxisBudget(s, axis) + MaxTokens
    /\ \A axis \in {"general", "reasoning_termination"} :
         Len(selected[s][axis]) = AtLeast(2, CeilDiv(AxisBudget(s, axis), TargetTokens))

(* What the finished corpora promise. The check for a shared group, which     *)
(* runs when the files are already written, never fires.                      *)
CorpusSound ==
  /\ pc # "overlap"
  /\ DrawnOnce
  /\ pc \in {"stage", "check", "done"} => BudgetsMet

(* The search for an excerpt is exact where longer excerpts never render      *)
(* shorter: no cut of a selected row that fits is nearer the target.          *)
Grows(counts) == \A i, j \in DOMAIN counts : i <= j => counts[i] <= counts[j]
FitIsBest ==
  \A row \in UNION {RowsOf(s) : s \in Corpora} :
    row.domain = "wiki" /\ Grows(row.counts) =>
      \A n \in Range(row.counts) : n <= MaxTokens => ~Nearer(n, PromptTokens[row])
=============================================================================
