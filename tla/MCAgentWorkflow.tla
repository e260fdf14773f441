--------------------------- MODULE MCAgentWorkflow ---------------------------
(***************************************************************************)
(* The workflow of the agents, and the process of the adapter a run talks  *)
(* to, each by itself: a behaviour belongs to one part, chosen at its      *)
(* start, and leaves the variables of the other alone.                     *)
(***************************************************************************)
EXTENDS AgentWorkflow, AdapterProcess, TLC

CONSTANTS s1, s2, t1, base

VARIABLE part

SuiteInit == part \in {"workflow", "adapter"} /\ Init /\ AdapterInit

(* Bound: a chat is begun after the first run, that of an agent, and not   *)
(* before it.                                                              *)
ChatComesLater == \A s \in Servers : call'[s].op = "chat" => call[s].op = "chat" \/ nextRun = 2

SuiteNext ==
  /\ UNCHANGED part
  /\ \/ part = "workflow" /\ Next /\ ChatComesLater /\ UNCHANGED adapterVars
     \/ part = "adapter" /\ AdapterNext /\ UNCHANGED vars

(* The fairness of each component, for the behaviours of its part.         *)
WorkflowPartFair == \A s \in Servers : WF_vars(part = "workflow" /\ CallStep(s))

AdapterPartFair ==
  /\ WF_adapterVars(part = "adapter" /\ GoesOn("cancel"))
  /\ WF_adapterVars(part = "adapter" /\ ChildEnds)

SuiteSpec == SuiteInit /\ [][SuiteNext]_<<part, vars, adapterVars>> /\ WorkflowPartFair /\ AdapterPartFair
=============================================================================
