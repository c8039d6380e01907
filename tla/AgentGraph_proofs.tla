-------------------------- MODULE AgentGraph_proofs --------------------------
(***************************************************************************)
(* For every iteration budget: what the Router keeps of the contexts, and  *)
(* how a run ends whose budget is gone.                                    *)
(***************************************************************************)
EXTENDS AgentGraph, SequenceTheorems, TLAPS

-----------------------------------------------------------------------------
(* The conditional edge *)

\* The edge taken for a node's phase leads to that node.
LEMMA EdgeOfPhase ==
  ASSUME NEW node \in ActionNodes \cup {"END"}
  PROVE  NodeOf(Phase[node]) = node
<1>1. \A n \in ActionNodes \cup {"END"} : Phase[n] = Phase[node] => n = node
  BY DEF Phase, ActionNodes
<1> QED BY <1>1 DEF NodeOf

-----------------------------------------------------------------------------
(* The inductive invariant *)

\* Before a visit the phase is the node's; past the budget the node is the
\* Evaluator, and the visit the only one.
BeforeVisit ==
    at \in ActionNodes =>
        /\ current_phase = Phase[at]
        /\ iteration_count <= MaxIterations + 1
        /\ iteration_count > MaxIterations => at = "Evaluator"

\* Before the Router the phase is that of the node that ran.
BeforeRouter ==
    at = "Router_Brain" =>
        /\ last \in ActionNodes
        /\ current_phase = Phase[last]
        /\ iteration_count <= MaxIterations + 1
        /\ iteration_count > MaxIterations => last = "Evaluator"

AtEnd ==
    at \in Ends =>
        /\ iteration_count <= MaxIterations + 2
        /\ at = "END" /\ iteration_count > MaxIterations => last = "Evaluator"

Typed ==
    /\ at \in ActionNodes \cup {"Router_Brain"} \cup Ends
    /\ iteration_count \in Nat
    /\ current_phase \in Phases

BudgetInv == Typed /\ BeforeVisit /\ BeforeRouter /\ AtEnd

LEMMA BudgetInit == Init => BudgetInv
  BY BudgetAssumption
  DEF Init, BudgetInv, Typed, BeforeVisit, BeforeRouter, AtEnd, ActionNodes, Ends, Phases, Phase

LEMMA BudgetStep == BudgetInv /\ [Next]_vars => BudgetInv'
<1> SUFFICES ASSUME Typed, BeforeVisit, BeforeRouter, AtEnd, [Next]_vars PROVE BudgetInv'
  BY DEF BudgetInv
<1> USE BudgetAssumption
<1> USE DEF BudgetInv, Typed, BeforeVisit, BeforeRouter, AtEnd
<1>1. ASSUME NEW node \in ActionNodes, VisitReturns(node) PROVE BudgetInv'
  <2>1. /\ at = node /\ at' = "Router_Brain" /\ last' = node
        /\ UNCHANGED <<current_phase, iteration_count>>
    BY <1>1 DEF VisitReturns, decision
  <2> QED BY <2>1 DEF ActionNodes, Ends
<1>2. ASSUME NEW node \in ActionNodes, VisitRaises(node) PROVE BudgetInv'
  <2>1. at = node /\ at' = "raised" /\ UNCHANGED <<last, current_phase, iteration_count>>
    BY <1>2 DEF VisitRaises, decision
  <2> QED BY <2>1 DEF ActionNodes, Ends
<1>3. CASE RouterRaises
  <2>1. /\ at = "Router_Brain" /\ at' = "raised"
        /\ UNCHANGED <<last, current_phase, iteration_count>>
    BY <1>3 DEF RouterRaises, decision
  <2> QED BY <2>1 DEF ActionNodes, Ends
<1>4. ASSUME NEW node \in ActionNodes \cup {"END"}, NEW model,
             RouteTo(Phase[node], model)
      PROVE  /\ at = "Router_Brain" /\ at' = node /\ last' = last
             /\ current_phase' = Phase[node]
             /\ iteration_count' = iteration_count + 1
  BY <1>4, EdgeOfPhase DEF RouteTo, Cleansed
<1>5. CASE RouteLastPass
  <2>1. PICK node \in {"Evaluator", "END"} :
           /\ RouteTo(Phase[node], "sonnet")
           /\ node = "END" <=> current_phase = "evaluation"
    <3>1. CASE current_phase = "evaluation"
      BY <1>5, <3>1 DEF RouteLastPass, Phase
    <3>2. CASE current_phase # "evaluation"
      BY <1>5, <3>2 DEF RouteLastPass, Phase
    <3> QED BY <3>1, <3>2
  <2>2. /\ at = "Router_Brain" /\ at' = node /\ last' = last
        /\ current_phase' = Phase[node]
        /\ iteration_count' = iteration_count + 1
    BY <1>4, <2>1 DEF ActionNodes
  <2>3. iteration_count + 1 > MaxIterations
    BY <1>5 DEF RouteLastPass, OverBudget
  <2>4. node = "END" => last = "Evaluator"
    BY <2>1, <2>2 DEF ActionNodes, Phase
  <2>5. Phase[node] \in Phases
    BY DEF Phases, ActionNodes
  <2>6. CASE node = "Evaluator"
    <3>1. iteration_count <= MaxIterations
      BY <2>1, <2>2, <2>6 DEF Phase
    <3> QED BY <2>2, <2>3, <2>5, <2>6, <3>1 DEF ActionNodes, Ends
  <2>7. CASE node = "END"
    BY <2>2, <2>3, <2>4, <2>5, <2>7 DEF ActionNodes, Ends
  <2> QED BY <2>6, <2>7
<1>6. CASE RouteByLLM
  <2>1. PICK phase \in Phases, model \in Tiers : RouteTo(phase, model)
    BY <1>6 DEF RouteByLLM
  <2>2. PICK node \in ActionNodes \cup {"END"} : phase = Phase[node]
    BY DEF Phases
  <2>3. /\ at = "Router_Brain" /\ at' = node /\ last' = last
        /\ current_phase' = Phase[node]
        /\ iteration_count' = iteration_count + 1
    BY <1>4, <2>1, <2>2
  <2>4. iteration_count + 1 <= MaxIterations
    BY <1>6 DEF RouteByLLM, OverBudget
  <2> QED BY <2>2, <2>3, <2>4 DEF ActionNodes, Ends
<1>7. CASE UNCHANGED vars
  BY <1>7 DEF vars, decision
<1> QED
  BY <1>1, <1>2, <1>3, <1>5, <1>6, <1>7
  DEF Next, GraphStep, Ended, ArchitectReturns, ActionReturns, ActionNodes

-----------------------------------------------------------------------------
(* The contexts *)

\* The number of the latest visit, and of the messages kept.
Visited == visits \in Nat /\ messages \in Seq(Nat) /\ all_messages \in Seq(Nat)

MessagesInv == Visited /\ NoMessageLost

LEMMA MessagesInit == Init => MessagesInv
<1> SUFFICES ASSUME Init PROVE MessagesInv
  OBVIOUS
<1>1. messages = <<0>> /\ all_messages = <<>> /\ visits = 0
  BY DEF Init
<1>2. messages \in Seq(Nat) /\ all_messages \in Seq(Nat)
  BY <1>1
<1>3. all_messages \o messages = <<0>>
  BY <1>1, <1>2, ConcatEmptySeq
<1> QED BY <1>1, <1>2, <1>3 DEF MessagesInv, Visited, NoMessageLost

LEMMA MessagesStep == MessagesInv /\ [Next]_vars => MessagesInv'
<1> SUFFICES ASSUME Visited, NoMessageLost, [Next]_vars PROVE MessagesInv'
  BY DEF MessagesInv
<1> USE DEF Visited
<1>1. ASSUME messages' = Append(messages, visits + 1), visits' = visits + 1,
             all_messages' = all_messages
      PROVE  MessagesInv'
  <2>1. messages' \in Seq(Nat) /\ messages' = messages \o <<visits + 1>>
    <3>1. visits + 1 \in Nat
      OBVIOUS
    <3> QED BY <1>1, <3>1, AppendProperties, AppendIsConcat
  <2>2. all_messages' \o messages' = (all_messages \o messages) \o <<visits + 1>>
    BY <1>1, <2>1, ConcatAssociative
  <2>3. all_messages \o messages \in Seq(Nat)
    BY ConcatProperties
  <2>4. (all_messages \o messages) \o <<visits + 1>> = Append(all_messages \o messages, visits + 1)
    BY <2>3, AppendIsConcat
  <2>5. Append([i \in 1..(visits + 1) |-> i - 1], visits + 1)
          = [i \in 1..(visits + 1 + 1) |-> i - 1]
    <3> DEFINE s == [i \in 1..(visits + 1) |-> i - 1]
               t == [i \in 1..(visits + 1 + 1) |-> i - 1]
    <3>1. s \in Seq(Nat) /\ Len(s) = visits + 1 /\ t \in Seq(Nat) /\ Len(t) = visits + 2
      OBVIOUS
    <3>2. /\ Append(s, visits + 1) \in Seq(Nat)
          /\ Len(Append(s, visits + 1)) = visits + 2
          /\ \A i \in 1..(visits + 1) : Append(s, visits + 1)[i] = s[i]
          /\ Append(s, visits + 1)[visits + 2] = visits + 1
      BY <3>1, AppendProperties, visits + 1 \in Nat
    <3>3. \A i \in 1..(visits + 2) : Append(s, visits + 1)[i] = t[i]
      BY <3>2
    <3> HIDE DEF s, t
    <3>4. Append(s, visits + 1) = t
      BY <3>1, <3>2, <3>3, SeqEqual
    <3> QED BY <3>4 DEF s, t
  <2>6. all_messages' \o messages' = [i \in 1..(visits + 1 + 1) |-> i - 1]
    BY <2>2, <2>4, <2>5, Zenon DEF NoMessageLost
  <2>7. NoMessageLost'
    BY <1>1, <2>6, Zenon DEF NoMessageLost
  <2> QED BY <1>1, <2>1, <2>7 DEF MessagesInv
<1>2. ASSUME all_messages' = all_messages \o messages, messages' = <<>>, visits' = visits
      PROVE  MessagesInv'
  <2>1. all_messages' \in Seq(Nat) /\ messages' \in Seq(Nat)
    BY <1>2, ConcatProperties
  <2>2. all_messages' \o messages' = all_messages \o messages
    BY <1>2, <2>1, ConcatEmptySeq
  <2> QED BY <1>2, <2>1, <2>2 DEF MessagesInv, NoMessageLost
<1>3. ASSUME UNCHANGED <<messages, all_messages, visits>> PROVE MessagesInv'
  BY <1>3 DEF MessagesInv, NoMessageLost
<1>4. ASSUME NEW node \in ActionNodes, VisitReturns(node) PROVE MessagesInv'
  BY <1>1, <1>4 DEF VisitReturns
<1>5. ASSUME NEW phase, NEW model, RouteTo(phase, model) PROVE MessagesInv'
  BY <1>2, <1>5 DEF RouteTo, Cleansed, place
<1>6. ASSUME NEW node \in ActionNodes, VisitRaises(node) PROVE MessagesInv'
  BY <1>3, <1>6 DEF VisitRaises, context, place
<1>7. CASE RouterRaises
  BY <1>3, <1>7 DEF RouterRaises, context, place
<1>8. CASE UNCHANGED vars
  BY <1>3, <1>8 DEF vars, context, place
<1> QED
  BY <1>4, <1>5, <1>6, <1>7, <1>8
  DEF Next, GraphStep, Ended, ArchitectReturns, ActionReturns, ActionNodes,
      RouteLastPass, RouteByLLM

-----------------------------------------------------------------------------
(* Theorems *)

\* Whatever the Router's LLM answers, and for every budget: at most one visit
\* follows the exhaustion of the budget, it is the Evaluator's, and a run that
\* then reaches END ends on it.
THEOREM BudgetEnds == Spec => []BudgetEndsInEvaluator
<1>1. BudgetInv => BudgetEndsInEvaluator
  BY BudgetAssumption
  DEF BudgetInv, Typed, BeforeVisit, BeforeRouter, AtEnd, BudgetEndsInEvaluator,
      ActionNodes, Ends
<1> QED
  BY <1>1, BudgetInit, BudgetStep, PTL DEF Spec

\* A bound on the nodes that can still run: one and the Router per iteration.
NodesLeft ==
    2 * (MaxIterations + 2 - iteration_count)
        + (IF at \in ActionNodes THEN 2 ELSE IF at = "Router_Brain" THEN 1 ELSE 0)

\* Every node that runs uses up some of the budget, the last pass through the
\* Evaluator included, whatever the Router's LLM answers.
GraphRunsDown == [][GraphStep => NodesLeft \in Nat /\ NodesLeft' < NodesLeft]_vars

\* What the budget counts at the places from which a node can still run.
LEMMA BudgetCounted ==
  BudgetInv => /\ iteration_count \in Nat
               /\ at \in ActionNodes \cup {"Router_Brain"} => iteration_count <= MaxIterations + 1
               /\ at \in Ends => iteration_count <= MaxIterations + 2
  BY BudgetAssumption DEF BudgetInv, Typed, BeforeVisit, BeforeRouter, AtEnd

\* A node that runs leaves less of the budget.
LEMMA StepRunsDown ==
  BudgetInv /\ BudgetInv' /\ GraphStep => NodesLeft \in Nat /\ NodesLeft' < NodesLeft
<1> SUFFICES ASSUME BudgetInv, BudgetInv', GraphStep
             PROVE  NodesLeft \in Nat /\ NodesLeft' < NodesLeft
  OBVIOUS
<1> USE BudgetAssumption
<1> DEFINE left == MaxIterations + 2 - iteration_count
<1>1. /\ iteration_count \in Nat /\ iteration_count' \in Nat
      /\ at \in ActionNodes \cup {"Router_Brain"} => iteration_count <= MaxIterations + 1
      /\ at' \in ActionNodes \cup {"Router_Brain"} \cup Ends
  BY BudgetCounted DEF BudgetInv, Typed
<1>2. CASE at \in ActionNodes /\ at' \in {"Router_Brain", "raised"} /\ iteration_count' = iteration_count
  <2>1. NodesLeft = 2 * left + 2 /\ left \in Nat
    BY <1>1, <1>2 DEF NodesLeft
  <2>2. NodesLeft' \in {2 * left, 2 * left + 1}
    BY <1>1, <1>2 DEF NodesLeft, ActionNodes
  <2> QED
    BY <2>1, <2>2
<1>3. CASE at = "Router_Brain" /\ iteration_count' = iteration_count + 1 /\ at' # "Router_Brain"
  <2>1. NodesLeft = 2 * left + 1 /\ left \in Nat
    BY <1>1, <1>3 DEF NodesLeft, ActionNodes
  <2>2. NodesLeft' \in {2 * left - 2, 2 * left}
    BY <1>1, <1>3 DEF NodesLeft
  <2> QED
    BY <2>1, <2>2
<1>4. CASE at = "Router_Brain" /\ at' = "raised" /\ iteration_count' = iteration_count
  <2>1. NodesLeft = 2 * left + 1 /\ left \in Nat
    BY <1>1, <1>4 DEF NodesLeft, ActionNodes
  <2>2. NodesLeft' = 2 * left
    BY <1>1, <1>4 DEF NodesLeft, ActionNodes
  <2> QED
    BY <2>1, <2>2
<1>5. ASSUME NEW phase \in Phases, NEW model, RouteTo(phase, model)
      PROVE  at = "Router_Brain" /\ iteration_count' = iteration_count + 1 /\ at' # "Router_Brain"
  <2>1. PICK node \in ActionNodes \cup {"END"} : phase = Phase[node]
    BY DEF Phases
  <2>2. at' = node
    BY <1>5, <2>1, EdgeOfPhase DEF RouteTo
  <2> QED
    BY <1>5, <2>2 DEF RouteTo, Cleansed, ActionNodes
<1>6. CASE RouteLastPass
  <2>1. "evaluation" \in Phases /\ "END" \in Phases
    BY DEF Phases, Phase, ActionNodes
  <2>2. PICK phase \in Phases : RouteTo(phase, "sonnet")
    BY <1>6, <2>1 DEF RouteLastPass
  <2> QED
    BY <1>3, <1>5, <2>2
<1>7. CASE RouteByLLM
  <2>1. current_phase \in Phases
    BY DEF BudgetInv, Typed
  <2>2. PICK phase \in Phases, model \in Tiers : RouteTo(phase, model)
    BY <1>7, <2>1 DEF RouteByLLM
  <2> QED
    BY <1>3, <1>5, <2>2
<1>8. CASE RouterRaises
  BY <1>4, <1>8 DEF RouterRaises, decision
<1>9. ASSUME NEW node \in ActionNodes, VisitReturns(node) \/ VisitRaises(node)
      PROVE  at \in ActionNodes /\ at' \in {"Router_Brain", "raised"} /\ iteration_count' = iteration_count
  BY <1>9 DEF VisitReturns, VisitRaises, decision
<1>10. CASE RouteLastPass \/ RouteByLLM \/ RouterRaises
  BY <1>6, <1>7, <1>8, <1>10
<1>11. CASE ~(RouteLastPass \/ RouteByLLM \/ RouterRaises)
  <2>1. PICK node \in ActionNodes : VisitReturns(node) \/ VisitRaises(node)
    BY <1>11 DEF GraphStep, ArchitectReturns, ActionReturns, ActionNodes
  <2> QED
    BY <1>2, <1>9, <2>1
<1> QED
  BY <1>10, <1>11

\* For every budget, a run has run its last node once the budget is used up.
THEOREM GraphComesToAnEnd == Spec => GraphRunsDown
<1>1. BudgetInv /\ BudgetInv' /\ [Next]_vars =>
         [GraphStep => NodesLeft \in Nat /\ NodesLeft' < NodesLeft]_vars
  BY StepRunsDown
<1> QED
  BY <1>1, BudgetInit, BudgetStep, PTL DEF Spec, GraphRunsDown

\* A visit begins in an empty context, but for the first, and before each the
\* visits are as many as the iterations counted.
Fresh ==
    /\ visits \in Nat /\ micro_tasks \in BOOLEAN
    /\ at \in ActionNodes =>
          (messages = <<>> <=> visits > 0) /\ ~micro_tasks /\ visits = iteration_count
    /\ at = "Router_Brain" => visits = iteration_count + 1
    /\ at \in Ends => visits <= iteration_count + 1 /\ visits <= MaxIterations + 2

LEMMA FreshStep == BudgetInv /\ BudgetInv' /\ Fresh /\ [Next]_vars => Fresh'
<1> SUFFICES ASSUME BudgetInv, BudgetInv', Fresh, [Next]_vars PROVE Fresh'
  OBVIOUS
<1> USE BudgetAssumption
<1> USE DEF BudgetInv, Typed, Fresh, ActionNodes, Ends
<1>1. ASSUME NEW node \in ActionNodes, VisitReturns(node) PROVE Fresh'
  BY <1>1 DEF VisitReturns, decision
<1>2. ASSUME NEW node \in ActionNodes, VisitRaises(node) PROVE Fresh'
  BY <1>2 DEF VisitRaises, context, decision, place, BeforeVisit
<1>3. CASE RouterRaises
  BY <1>3 DEF RouterRaises, OverBudget, context, decision, place
<1>4. ASSUME NEW phase \in Phases, NEW model, RouteTo(phase, model) PROVE Fresh'
  <2>0. PICK node \in ActionNodes \cup {"END"} : phase = Phase[node]
    BY DEF Phases
  <2>1. /\ at = "Router_Brain" /\ messages' = <<>> /\ micro_tasks' = FALSE
        /\ visits' = visits /\ iteration_count' = iteration_count + 1
    BY <1>4 DEF RouteTo, Cleansed, place
  <2>2. visits = iteration_count + 1 /\ iteration_count <= MaxIterations + 1
    BY <2>1 DEF BeforeRouter
  <2>3. micro_tasks' \in BOOLEAN /\ ~micro_tasks'
    BY <2>1
  <2>4. at' \in ActionNodes \cup {"END"}
    BY <1>4, <2>0, EdgeOfPhase DEF RouteTo
  <2> QED
    BY <2>1, <2>2, <2>3, <2>4
<1>5. CASE RouteLastPass
  <2>1. "evaluation" \in Phases /\ "END" \in Phases
    BY DEF Phases, Phase
  <2> QED
    BY <1>4, <1>5, <2>1 DEF RouteLastPass
<1>7. CASE RouteByLLM
  BY <1>4, <1>7 DEF RouteByLLM
<1>6. CASE UNCHANGED vars
  BY <1>6 DEF vars, context, decision, place
<1> QED
  BY <1>1, <1>2, <1>3, <1>5, <1>6, <1>7
  DEF Next, GraphStep, Ended, ArchitectReturns, ActionReturns

LEMMA FreshInvariance == Spec => [](BudgetInv /\ Fresh)
<1>1. Init => Fresh
  <2> SUFFICES ASSUME Init PROVE Fresh
    OBVIOUS
  <2>1. /\ at = "System_Architect" /\ messages = <<0>> /\ visits = 0
        /\ iteration_count = 0 /\ micro_tasks = FALSE
    BY DEF Init
  <2>2. messages # <<>>
    BY <2>1
  <2>3. micro_tasks \in BOOLEAN /\ ~micro_tasks
    BY <2>1
  <2> QED
    BY <2>1, <2>2, <2>3 DEF Fresh, ActionNodes, Ends
<1> QED
  BY <1>1, BudgetInit, BudgetStep, FreshStep, PTL DEF Spec

\* Whatever the Router decides, a node finds neither messages nor micro-tasks of
\* another, and only the first visit of a run finds any messages at all.
THEOREM ContextIsFresh == Spec => []FreshContext
<1>1. BudgetInv /\ Fresh => FreshContext
  BY DEF Fresh, FreshContext
<1> QED
  BY <1>1, FreshInvariance, PTL

\* The Router always judges the node that ran last, by its own phase.
THEOREM RouterJudgesLastNode == Spec => []PhaseOfLastNode
<1>1. BudgetInv => PhaseOfLastNode
  BY DEF BudgetInv, BeforeRouter, PhaseOfLastNode, ActionNodes
<1> QED
  BY <1>1, BudgetInit, BudgetStep, PTL DEF Spec

\* The wipes of the Router lose, repeat and reorder no message of any visit.
THEOREM MessagesAreKept == Spec => []NoMessageLost
<1>1. MessagesInv => NoMessageLost
  BY DEF MessagesInv
<1> QED
  BY <1>1, MessagesInit, MessagesStep, PTL DEF Spec

-----------------------------------------------------------------------------
(* Types *)

\* A run has one workspace, bootstrapped at most once.
Placed ==
    /\ last \in ActionNodes \cup {"none"}
    /\ target_model \in Tiers
    /\ tier \in Tiers \cup {"none"}
    /\ workspace_dir \in 0..1
    /\ workspaces = workspace_dir

LEMMA PlacedStep == Placed /\ [Next]_vars => Placed'
<1> SUFFICES ASSUME Placed, [Next]_vars PROVE Placed'
  OBVIOUS
<1> USE DEF Placed
<1>1. CASE ArchitectReturns
  BY <1>1 DEF ArchitectReturns, VisitReturns, Bootstrap, decision, ActionNodes, Tiers
<1>2. ASSUME NEW node \in ActionNodes, ActionReturns(node) PROVE Placed'
  BY <1>2 DEF ActionReturns, VisitReturns, decision
<1>3. ASSUME NEW node \in ActionNodes, VisitRaises(node) PROVE Placed'
  BY <1>3 DEF VisitRaises, decision, place
<1>4. CASE RouterRaises
  BY <1>4 DEF RouterRaises, decision, place
<1>5. ASSUME NEW phase, NEW model \in Tiers, RouteTo(phase, model) PROVE Placed'
  BY <1>5 DEF RouteTo, place
<1>6. CASE RouteLastPass \/ RouteByLLM
  BY <1>5, <1>6 DEF RouteLastPass, RouteByLLM, Tiers
<1>7. CASE UNCHANGED vars
  BY <1>7 DEF vars, decision, place
<1> QED
  BY <1>1, <1>2, <1>3, <1>4, <1>6, <1>7 DEF Next, GraphStep, Ended

\* Type correctness, with it: a run bootstraps one workspace at most, and makes
\* at most two visits more than its budget.
THEOREM TypeCorrect == Spec => []TypeOK
<1>1. Init => Placed
  BY DEF Init, Placed, Tiers
<1>2. BudgetInv /\ Fresh /\ MessagesInv /\ Placed => TypeOK
  <2> SUFFICES ASSUME BudgetInv, Fresh, MessagesInv, Placed PROVE TypeOK
    OBVIOUS
  <2>1. iteration_count \in 0..(MaxIterations + 2) /\ visits \in 0..(MaxIterations + 2)
    BY BudgetAssumption
    DEF BudgetInv, Typed, BeforeVisit, BeforeRouter, AtEnd, Fresh, ActionNodes, Ends
  <2> QED
    BY <2>1 DEF TypeOK, BudgetInv, Typed, Fresh, MessagesInv, Visited, Placed
<1> QED
  BY <1>1, <1>2, PlacedStep, FreshInvariance, MessagesInit, MessagesStep, PTL DEF Spec

=============================================================================
