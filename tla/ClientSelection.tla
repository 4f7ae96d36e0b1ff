--------------------------- MODULE ClientSelection ---------------------------
(***************************************************************************)
(* The communication-limited client selection (experiments/robustness.py,  *)
(* run_communication_limited_client_selection, over certification/         *)
(* selection.py).  For every budget four comparators choose clients: the   *)
(* greedy D-optimal one, the one with the largest support, the greedy one  *)
(* on the width of the action intervals, and random draws.                 *)
(*                                                                         *)
(* Clients are numbered in the lexical order of their identifiers;         *)
(* Position is their place in clients.json.  Information matrices are      *)
(* diagonal, so the determinant is a product and the smallest eigenvalue a *)
(* minimum.  A width is kept as its multiple by the number of actions, and *)
(* a random reduction as the sum over the seeds, to stay in the integers.  *)
(***************************************************************************)
EXTENDS Integers, SequencesExt

CONSTANTS Clients,          \* identifiers, as numbers in lexical order
          Position,         \* [Clients -> Nat], place in clients.json
          Informations,     \* [Directions -> Nat] a client may have observed
          Supports,         \* <<historical, later>> malicious counts it may have
          Directions,       \* the coordinates of the features
          Ridge,            \* client_selection.d_optimal_ridge
          RadiusOf,         \* 1 / sqrt(smallest eigenvalue + Ridge), scaled
          ActionNorms,      \* norms of the candidate action directions
          BallRadius,       \* historical_plausibility_radius
          BudgetFractions,  \* client_selection.budget_fractions, over FractionUnit
          FractionUnit,
          SelectionSeeds    \* number of seeds of the random comparator

Smallest(information) == Min(Range(information))

\* A radius shrinks as the information grows, and is never zero.
ASSUME ClientSelectionAssumption ==
  /\ Clients \subseteq Nat /\ IsFiniteSet(Clients)
  /\ Position \in [Clients -> Nat] /\ IsInjective(Position)
  /\ IsFiniteSet(Directions) /\ Informations \subseteq [Directions -> Nat]
  /\ Supports \subseteq Nat \X Nat
  /\ Ridge \in Nat \ {0} /\ SelectionSeeds \in Nat \ {0} /\ FractionUnit \in Nat \ {0}
  /\ BallRadius \in Nat /\ ActionNorms \in Seq(Nat)
  /\ BudgetFractions \in Seq(0 .. FractionUnit)
  /\ \A h \in Informations : RadiusOf[Smallest(h)] \in Nat \ {0}
  /\ \A g, h \in Informations :
        Smallest(g) < Smallest(h) => RadiusOf[Smallest(g)] > RadiusOf[Smallest(h)]

VARIABLES clients,      \* the clients of clients.json
          information,  \* [clients -> Informations]
          support,      \* [clients -> Supports]
          pc, round,
          selected,     \* picks of the running comparator, in order
          accumulated,  \* information of the picks of greedy_d_optimal
          reductions,   \* width reductions of the random draws of this round
          episodes,     \* [Comparators -> Seq([reduction, chosen])]
          verified,     \* d_optimal at least as good, per round
          outcome

selectionVars == <<clients, information, support, pc, round, selected, accumulated,
                   reductions, episodes, verified, outcome>>
input == <<clients, information, support>>

Comparators == {"global", "largest", "contraction", "random"}
NoInformation == [d \in Directions |-> 0]

-----------------------------------------------------------------------------
\* Budgets, widths and gains.

CeilDiv(a, b) == (a + b - 1) \div b

\* SelectionBudget.selected_count
SelectedCount(fraction, eligible) ==
  Max({1, Min({eligible, CeilDiv(fraction * eligible, FractionUnit)})})

Budget(i) == SelectedCount(BudgetFractions[i], Cardinality(clients))

UncertaintyRadii == [c \in clients |-> RadiusOf[Smallest(information[c])]]

\* intersect_constraints keeps the radii, solve_action_interval adds them up.
SummedRadii(chosen) == SumFunctionOnSet(UncertaintyRadii, chosen)

\* weighted_action_width: twice the plausibility ball without constraints.
WeightedActionWidth(chosen) ==
  IF chosen = {}
  THEN 2 * BallRadius * SumFunction(ActionNorms)
  ELSE 2 * Len(ActionNorms) * SummedRadii(chosen)

WidthReduction(chosen) == WeightedActionWidth({}) - WeightedActionWidth(chosen)

Add(g, h) == [d \in Directions |-> g[d] + h[d]]

\* det(current + candidate + Ridge I): the base of the gain is the same for every candidate.
Determinant(h) == FoldFunction(LAMBDA x, y : x * y, 1, [d \in Directions |-> h[d] + Ridge])

Remaining == clients \ Range(selected)

\* greedy_d_optimal: the largest gain, then the smallest identifier.
GlobalBest ==
  LET gain(c) == Determinant(Add(accumulated, information[c]))
  IN  CHOOSE c \in Remaining : \A e \in Remaining \ {c} :
        \/ gain(c) > gain(e)
        \/ gain(c) = gain(e) /\ c < e

\* Defective variant: the comparison of contractions turned round.
ContractionBestWidest ==
  LET width(c) == WeightedActionWidth(Range(selected) \cup {c})
  IN  CHOOSE c \in Remaining : \A e \in Remaining \ {c} :
        \/ width(c) > width(e)
        \/ width(c) = width(e) /\ Position[c] > Position[e]

\* greedy_action_interval_contraction_selection: the smallest width, then the last position.
ContractionBest ==
  LET width(c) == WeightedActionWidth(Range(selected) \cup {c})
  IN  CHOOSE c \in Remaining : \A e \in Remaining \ {c} :
        \/ width(c) < width(e)
        \/ width(c) = width(e) /\ Position[c] > Position[e]

\* effective_support as a fraction; a client without one of the counts ranks below all.
EffectiveSupport(c) ==
  LET n == support[c][1]
      m == support[c][2]
  IN  IF n = 0 \/ m = 0 THEN <<-1, 1>> ELSE <<n * m, n + m>>

RanksBefore(c, e) ==
  LET a == EffectiveSupport(c)
      b == EffectiveSupport(e)
  IN  a[1] * b[2] > b[1] * a[2] \/ (a[1] * b[2] = b[1] * a[2] /\ c < e)

\* largest_sample_count_selection: the first of the ranking.
LargestSampleCount(budget) ==
  [k \in 1 .. budget |->
     CHOOSE c \in clients : Cardinality({e \in clients : RanksBefore(e, c)}) = k - 1]

-----------------------------------------------------------------------------
\* The command.

SelectionInit ==
  /\ clients \in SUBSET Clients
  /\ information \in [clients -> Informations]
  /\ support \in [clients -> Supports]
  /\ pc = "start" /\ round = 1
  /\ selected = <<>> /\ accumulated = NoInformation /\ reductions = <<>>
  /\ episodes = [m \in Comparators |-> <<>>]
  /\ verified = <<>> /\ outcome = "none"

\* clients.json has clients to choose from and actions to judge them by.
IsComparable == Cardinality(clients) >= 2 /\ ActionNorms # <<>>

\* clients.json missing or not comparable; or no budget to compare under.
Refuse ==
  /\ pc = "start"
  /\ ~ IsComparable \/ BudgetFractions = <<>>
  /\ pc' = "done" /\ outcome' = "INSUFFICIENT_EVIDENCE"
  /\ UNCHANGED <<input, round, selected, accumulated, reductions, episodes, verified>>

StartRounds ==
  /\ pc = "start"
  /\ IsComparable /\ BudgetFractions # <<>>
  /\ pc' = "global"
  /\ UNCHANGED <<input, round, selected, accumulated, reductions, episodes, verified, outcome>>

PickGlobal ==
  /\ pc = "global" /\ Len(selected) < Budget(round)
  /\ selected' = Append(selected, GlobalBest)
  /\ accumulated' = Add(accumulated, information[GlobalBest])
  /\ UNCHANGED <<input, pc, round, reductions, episodes, verified, outcome>>

RecordEpisode(comparator, chosen) ==
  episodes' = [episodes EXCEPT ![comparator] =
    Append(@, [reduction |-> WidthReduction(Range(chosen)), chosen |-> chosen])]

\* Defective variant: the information accumulated for one budget is still there at the next.
RecordGlobalAccumulating ==
  /\ pc = "global" /\ Len(selected) = Budget(round)
  /\ RecordEpisode("global", selected)
  /\ pc' = "largest" /\ selected' = <<>>
  /\ UNCHANGED <<input, round, accumulated, reductions, verified, outcome>>

RecordGlobal ==
  /\ pc = "global" /\ Len(selected) = Budget(round)
  /\ RecordEpisode("global", selected)
  /\ pc' = "largest" /\ selected' = <<>> /\ accumulated' = NoInformation
  /\ UNCHANGED <<input, round, reductions, verified, outcome>>

SelectLargest ==
  /\ pc = "largest"
  /\ RecordEpisode("largest", LargestSampleCount(Budget(round)))
  /\ pc' = "contraction"
  /\ UNCHANGED <<input, round, selected, accumulated, reductions, verified, outcome>>

PickContraction ==
  /\ pc = "contraction" /\ Len(selected) < Budget(round)
  /\ selected' = Append(selected, ContractionBest)
  /\ UNCHANGED <<input, pc, round, accumulated, reductions, episodes, verified, outcome>>

RecordContraction ==
  /\ pc = "contraction" /\ Len(selected) = Budget(round)
  /\ RecordEpisode("contraction", selected)
  /\ pc' = "random" /\ selected' = <<>>
  /\ UNCHANGED <<input, round, accumulated, reductions, verified, outcome>>

\* random_selection with the next seed: any set of the size of the budget.
DrawRandom ==
  /\ pc = "random" /\ Len(reductions) < SelectionSeeds
  /\ \E chosen \in kSubset(Budget(round), clients) :
        reductions' = Append(reductions, WidthReduction(chosen))
  /\ UNCHANGED <<input, pc, round, selected, accumulated, episodes, verified, outcome>>

LastReduction(comparator) == Last(episodes[comparator]).reduction

DrawnTotal == SumFunction(reductions)

VerifyRound ==
  /\ pc = "random" /\ Len(reductions) = SelectionSeeds
  /\ episodes' = [episodes EXCEPT !["random"] =
                    Append(@, [reduction |-> DrawnTotal, chosen |-> <<>>])]
  /\ verified' = Append(verified,
        /\ LastReduction("global") >= LastReduction("largest")
        /\ LastReduction("global") * SelectionSeeds >= DrawnTotal)
  /\ reductions' = <<>>
  /\ IF round < Len(BudgetFractions)
     THEN round' = round + 1 /\ pc' = "global" /\ outcome' = outcome
     ELSE round' = round /\ pc' = "done" /\ outcome' = "PASS"
  /\ UNCHANGED <<input, selected, accumulated>>

SelectionNext ==
  \/ Refuse \/ StartRounds
  \/ PickGlobal \/ RecordGlobal \/ SelectLargest
  \/ PickContraction \/ RecordContraction
  \/ DrawRandom \/ VerifyRound

SelectionSpec == SelectionInit /\ [][SelectionNext]_selectionVars

-----------------------------------------------------------------------------
\* Properties.

\* Rounds all four comparators have been through.
Rounds == DOMAIN verified

\* Every comparator answers the question it is compared on: at equal budgets the greedy
\* contraction is never beaten, neither by the other selectors nor by a draw, although it
\* looks one client ahead only.
ContractionIsOptimal ==
  \A i \in Rounds :
    LET best == episodes["contraction"][i].reduction
    IN  /\ best >= episodes["global"][i].reduction
        /\ best >= episodes["largest"][i].reduction
        /\ best * SelectionSeeds >= episodes["random"][i].reduction

\* Rounds are independent of each other, so a larger budget extends what a smaller one
\* chose; and every selector chooses exactly as many clients as the budget allows.
SelectionsAreNested ==
  \A m \in {"global", "largest", "contraction"} : \A i, j \in Rounds :
    LET chosen(k) == episodes[m][k].chosen
    IN  /\ Len(chosen(i)) = Budget(i) /\ IsInjective(chosen(i))
        /\ Budget(i) <= Budget(j) => IsPrefix(chosen(i), chosen(j))

\* "Interval contraction is monotone under added constraints" (docs/Roadmap.md): a client
\* added to a selection cannot widen the intervals.
AddedClientsNeverWiden ==
  [][Len(selected') > Len(selected)
       => WeightedActionWidth(Range(selected'))
            <= WeightedActionWidth(Range(selected))]_selectionVars

=============================================================================
