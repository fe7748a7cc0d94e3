----------------------------- MODULE MCServices -----------------------------
(* Instances of the services the rest of the code calls: a model client, a *)
(* collection of market data, the desk's quote solver.  They share no      *)
(* state, so each is explored by itself, with the other two at rest.       *)
EXTENDS ModelClient, MarketBatch, QuoteSolver

ServicesInit == ClientInit /\ CollectInit /\ SolverInit

ClientRests  == chat = "idle"
CollectRests == activity = "off" /\ answers = 0 /\ spec = 1 /\ attempt = 0 /\ ~ stopped
SolverRests  == quotes_left = Quotes

ServicesNext ==
  \/ CollectRests /\ SolverRests /\ ClientNext /\ UNCHANGED <<collection, solver>>
  \/ ClientRests /\ SolverRests /\ CollectNext /\ UNCHANGED <<client_vars, solver>>
  \/ ClientRests /\ CollectRests /\ SolverNext /\ UNCHANGED <<client_vars, collection>>

ServicesSpec ==
  ServicesInit /\ [][ServicesNext]_<<client_vars, collection, solver>>

\* Budgets on either side of the ceiling's quarter, half and whole.
MCBudgets == {3, 4, 7, 16, 20}

=============================================================================
