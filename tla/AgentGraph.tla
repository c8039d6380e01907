----------------------------- MODULE AgentGraph -----------------------------
(***************************************************************************)
(* One graph run: the StateGraph of src/graph.py with the nodes of         *)
(* src/nodes.py, from the initial state of agent.py to END.                *)
(*                                                                         *)
(* A visit to an Action Node is one step: ReactLoop shows that it returns  *)
(* or raises.  What it adds to the context is one batch, the number of the *)
(* visit; batch 0 is the instructions.  Every answer of the LLM that makes *)
(* a difference to the Router is a choice.                                 *)
(***************************************************************************)
EXTENDS Naturals, Sequences

CONSTANT MaxIterations  \* MAX_ITERATIONS, from MLE_AGENT_MAX_ITERATIONS

ASSUME BudgetAssumption == MaxIterations \in Nat

VARIABLES
    at,               \* the node to run next, or how the run ended
    last,             \* the Action Node that ran last (history)
    messages,         \* AgentState.messages
    all_messages,     \* AgentState.all_messages
    micro_tasks,      \* whether AgentState.micro_tasks holds any
    current_phase,
    target_model,
    iteration_count,
    workspace_dir,    \* number of the workspace, 0 for ""
    workspaces,       \* workspaces bootstrapped so far (history)
    visits,           \* visits to Action Nodes so far (history)
    tier              \* the tier the last visit asked the LLM for (history)

context == <<messages, all_messages, micro_tasks>>
decision == <<current_phase, target_model, iteration_count>>
place == <<workspace_dir, workspaces, visits, tier>>
vars == <<at, last, context, decision, place>>

ActionNodes == {"System_Architect", "Data_Engineer", "Model_Engineer", "Evaluator"}
Ends == {"END", "raised"}
Tiers == {"opus", "sonnet", "haiku"}

\* _PHASE_MAP, and _route_from_router its inverse.
Phase == [System_Architect |-> "architecture",
          Data_Engineer |-> "data_engineering",
          Model_Engineer |-> "model_engineering",
          Evaluator |-> "evaluation",
          END |-> "END"]
NodeOf(phase) == CHOOSE n \in ActionNodes \cup {"END"} : Phase[n] = phase
Phases == {Phase[n] : n \in ActionNodes \cup {"END"}}

\* initial_state of agent.py, at the entry point of the graph.
Init ==
    /\ at = "System_Architect"
    /\ last = "none"
    /\ messages = <<0>>
    /\ all_messages = <<>>
    /\ micro_tasks = FALSE
    /\ current_phase = "architecture"
    /\ target_model = "opus"
    /\ iteration_count = 0
    /\ workspace_dir = 0
    /\ workspaces = 0
    /\ visits = 0
    /\ tier = "none"

-----------------------------------------------------------------------------
\* system_architect_node before its loop: first_entry is the empty
\* workspace_dir, which bootstraps one and forces the opus tier.
Bootstrap ==
    IF workspace_dir = 0
      THEN /\ workspaces' = workspaces + 1
           /\ workspace_dir' = workspaces + 1
           /\ tier' = "opus"
      ELSE /\ tier' = target_model
           /\ UNCHANGED <<workspace_dir, workspaces>>

\* The state update a visit returns: its context and the tasks left in it.
VisitReturns(node) ==
    /\ at = node
    /\ at' = "Router_Brain"
    /\ last' = node
    /\ visits' = visits + 1
    /\ messages' = Append(messages, visits + 1)
    /\ micro_tasks' \in BOOLEAN
    /\ UNCHANGED <<all_messages, decision>>

ArchitectReturns == VisitReturns("System_Architect") /\ Bootstrap

\* Nodes made by make_action_node: no bootstrap, the tier the Router chose.
ActionReturns(node) ==
    /\ VisitReturns(node)
    /\ tier' = target_model
    /\ UNCHANGED <<workspace_dir, workspaces>>

\* Mutant: the exception caught, and the visit tried again on another tier.
VisitRetried(node) ==
    /\ at = node
    /\ target_model' \in Tiers \ {target_model}
    /\ UNCHANGED <<at, last, context, current_phase, iteration_count, place>>

\* An exception in a node ends app.invoke; its update is lost.
VisitRaises(node) ==
    /\ at = node
    /\ at' = "raised"
    /\ UNCHANGED <<last, context, decision, place>>

\* Mutant: the wipe before the copy.
CleansedWipesFirst ==
    /\ messages' = <<>>
    /\ all_messages' = all_messages \o messages'
    /\ micro_tasks' = FALSE
    /\ iteration_count' = iteration_count + 1

\* Mutant: the micro-tasks left to the next node.
CleansedKeepsTasks ==
    /\ all_messages' = all_messages \o messages
    /\ messages' = <<>>
    /\ UNCHANGED micro_tasks
    /\ iteration_count' = iteration_count + 1

\* Mutant: iteration_count not part of the update.
CleansedUncounted ==
    /\ all_messages' = all_messages \o messages
    /\ messages' = <<>>
    /\ micro_tasks' = FALSE
    /\ UNCHANGED iteration_count

\* What every invocation of router_brain_node writes.
Cleansed ==
    /\ all_messages' = all_messages \o messages
    /\ messages' = <<>>
    /\ micro_tasks' = FALSE
    /\ iteration_count' = iteration_count + 1

\* Mutant: the edge taken on the decision, which is not written to the state.
RouteToUnwritten(phase, model) ==
    /\ at = "Router_Brain"
    /\ Cleansed
    /\ target_model' = model
    /\ at' = NodeOf(phase)
    /\ UNCHANGED <<current_phase, last, place>>

\* The Router's update, and the conditional edge taken on its phase.
RouteTo(phase, model) ==
    /\ at = "Router_Brain"
    /\ Cleansed
    /\ current_phase' = phase
    /\ target_model' = model
    /\ at' = NodeOf(phase)
    /\ UNCHANGED <<last, place>>

OverBudget == iteration_count + 1 > MaxIterations

\* Mutant: at the budget straight to END.
RouteLastPassToEnd ==
    /\ OverBudget
    /\ RouteTo("END", "sonnet")

\* The circuit breaker: the Evaluator once more, then END.
RouteLastPass ==
    /\ OverBudget
    /\ RouteTo(IF current_phase # "evaluation" THEN "evaluation" ELSE "END", "sonnet")

\* The LLM decides: a known next_node (END too when no JSON is found) sets the
\* phase, an unknown one keeps it.
RouteByLLM ==
    /\ ~OverBudget
    /\ \E phase \in Phases \cup {current_phase}, model \in Tiers : RouteTo(phase, model)

\* call_llm raises, or the JSON found is no object.
RouterRaises ==
    /\ at = "Router_Brain"
    /\ ~OverBudget
    /\ at' = "raised"
    /\ UNCHANGED <<last, context, decision, place>>

-----------------------------------------------------------------------------
GraphStep ==
    \/ ArchitectReturns
    \/ \E node \in ActionNodes \ {"System_Architect"} : ActionReturns(node)
    \/ \E node \in ActionNodes : VisitRaises(node)
    \/ RouteLastPass
    \/ RouteByLLM
    \/ RouterRaises

Ended == at \in Ends /\ UNCHANGED vars

Next == GraphStep \/ Ended

\* LangGraph runs the next node as long as there is one; visits end (ReactLoop).
Spec == Init /\ [][Next]_vars
FairSpec == Spec /\ WF_vars(GraphStep)

-----------------------------------------------------------------------------
(* Properties *)

TypeOK ==
    /\ at \in ActionNodes \cup {"Router_Brain"} \cup Ends
    /\ last \in ActionNodes \cup {"none"}
    /\ messages \in Seq(Nat)
    /\ all_messages \in Seq(Nat)
    /\ micro_tasks \in BOOLEAN
    /\ current_phase \in Phases
    /\ target_model \in Tiers
    /\ iteration_count \in 0..(MaxIterations + 2)
    /\ workspace_dir \in 0..1
    /\ workspaces \in 0..1
    /\ visits \in 0..(MaxIterations + 2)
    /\ tier \in Tiers \cup {"none"}

\* Context cleansing loses, repeats and reorders nothing: what the wiped
\* contexts and the active one hold is the instructions, then every visit.
NoMessageLost ==
    all_messages \o messages = [i \in 1..(visits + 1) |-> i - 1]

\* A node never starts in the context of another: at its entry only the first
\* visit has messages, and no visit finds micro-tasks of an earlier one.
FreshContext ==
    at \in ActionNodes => (messages = <<>> <=> visits > 0) /\ ~micro_tasks

\* The Router judges the node that ran: current_phase is its phase, though the
\* LLM may have named a node that does not exist.
PhaseOfLastNode ==
    at = "Router_Brain" => last # "none" /\ current_phase = Phase[last]

\* A run whose budget ran out ends on a visit to the Evaluator, and makes at
\* most one visit after the Router found the budget gone.
BudgetEndsInEvaluator ==
    iteration_count > MaxIterations =>
        /\ at = "END" => last = "Evaluator"
        /\ at \in {"END", "Evaluator", "Router_Brain", "raised"}
        /\ iteration_count <= MaxIterations + 2

\* Every run ends, whatever the Router's LLM answers.
GraphEnds == <>(at \in Ends)

=============================================================================
