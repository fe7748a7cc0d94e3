---------------------------- MODULE AgentRollout ----------------------------
(***************************************************************************)
(* run_agent_episode (stochopia/environment/agent_runner.py) and the       *)
(* TrajectoryRecorder it fills: one external policy is asked for an action *)
(* per step, the step is recorded in a chain of state hashes, and at the   *)
(* end the trajectory is verified and put in its place by a rename.        *)
(*                                                                         *)
(* The environment is the one EpisodeProtocol specifies.  A hash is the    *)
(* state it is computed from; record hashes only repeat the chain of state *)
(* hashes and are not modelled.  The policy may answer anything, fail,     *)
(* time out or be cancelled; the process may die at any moment.            *)
(***************************************************************************)
EXTENDS EpisodeProtocol, SequencesExt

VARIABLES
  runner,             \* what the loop is doing, or how it stopped
  action,             \* the action of the current step
  before,             \* state_hash_before of the current step
  entries,            \* TrajectoryRecorder._entries
  outcome,            \* TrajectoryRecorder._run_outcome
  counters,           \* the counters of AgentEpisodeResult
  temp,               \* the temporary file of save() exists
  file                \* what stands at trajectory_path: nothing, or one payload

tally   == <<outcome, counters>>
storage == <<temp, file>>
rollout == <<protocol, runner, action, before, entries, tally, storage>>

Stopped == {"returned", "raised", "killed"}
Over == stage \in {"terminated", "truncated"}

\* _state_hash: the preimage includes every counter of the episode state.
StateHash == protocol

\* Observation.available_actions
Available ==
  {"skip"} \cup (IF queries < MaxQueries THEN {"ask_client"} ELSE {})
           \cup (IF quoted < MaxQuotes THEN {"request_quote", "submit_product"} ELSE {})
           \cup (IF offers > 0 THEN {"submit_design"} ELSE {})

Kinds == {"skip", "ask_client", "request_quote", "submit_product", "submit_design"}

RolloutInit ==
  /\ EpisodeInit
  /\ runner = "asking"
  /\ action = "none"
  /\ before = StateHash
  /\ entries = << >>
  /\ outcome = "none"
  /\ counters = [invalid |-> 0, parser |-> 0, invocation |-> 0, submissions |-> 0]
  /\ temp = FALSE
  /\ file = {}

-----------------------------------------------------------------------------
(* policy.act().                                                           *)

\* Output that cannot be parsed becomes an InvalidAction.
Parsed(output) == IF output = "malformed" THEN "invalid" ELSE output

\* And so does an action that is not on offer.
Answer(output) ==
  /\ runner = "asking"
  /\ action' = IF Parsed(output) \in Available THEN output ELSE "invalid"
  /\ counters' = [counters EXCEPT !.parser  = @ + (IF output = "malformed" THEN 1 ELSE 0),
                                  !.invalid = @ + (IF output \in Available THEN 0 ELSE 1)]
  /\ before' = StateHash
  /\ runner' = "calling"
  /\ UNCHANGED <<protocol, entries, outcome, storage>>

\* Mutant: the loop goes on after a failure of the policy.
PolicyFailsGoingOn ==
  /\ runner = "asking"
  /\ counters.invocation = 0
  /\ counters' = [counters EXCEPT !.invocation = @ + 1]
  /\ outcome' = "infrastructure_error"
  /\ UNCHANGED <<protocol, runner, action, before, entries, storage>>

\* An error, a timeout, or something that is not an AgentDecision.
PolicyFails ==
  /\ runner = "asking"
  /\ counters' = [counters EXCEPT !.invocation = @ + 1]
  /\ outcome' = "infrastructure_error"
  /\ runner' = "saving"
  /\ UNCHANGED <<protocol, action, before, entries, storage>>

Cancelled ==
  /\ runner = "asking"
  /\ runner' = "raised"
  /\ UNCHANGED <<protocol, action, before, entries, tally, storage>>

-----------------------------------------------------------------------------
(* environment.step(), and the record of it.                               *)

\* What the environment may make of the action, an InvalidAction or one whose
\* arguments it refuses included.
Serve ==
  \/ action = "ask_client" /\ AskClient
  \/ action = "request_quote" /\ RequestQuote(TRUE)
  \/ action \in {"request_quote", "submit_product"} /\ RequestQuote(FALSE)
  \/ action = "submit_product" /\ \E accept \in BOOLEAN : QuoteAndSubmit(accept)
  \/ action = "submit_design" /\ \E accept \in BOOLEAN : Submit(accept)
  \/ action = "skip" /\ Skip
  \/ action # "skip" /\ Refuse

CallStep ==
  /\ runner = "calling"
  /\ Serve
  /\ runner' = "stepping"
  /\ UNCHANGED <<action, before, entries, tally, storage>>

StepContinues ==
  /\ runner = "stepping"
  /\ NextRound \/ Terminate
  /\ UNCHANGED <<runner, action, before, entries, tally, storage>>

\* Nothing catches what step() raises: the trajectory is not saved.
StepRaises ==
  /\ runner = "stepping"
  /\ Fail
  /\ runner' = "raised"
  /\ UNCHANGED <<action, before, entries, tally, storage>>

Entry(hash) ==
  [before |-> hash, after |-> StateHash, over |-> Over, action |-> action]

\* The submissions accepted before the step: `accepted` in the hash's preimage.
AcceptedBefore == before[4]

Record ==
  /\ runner = "stepping"
  /\ stage # "finishing"
  /\ entries' = Append(entries, Entry(before))
  /\ counters' = [counters EXCEPT !.submissions =
                  @ + (IF accepted > AcceptedBefore THEN 1 ELSE 0)]
  /\ runner' = IF Over THEN "saving" ELSE "asking"
  /\ UNCHANGED <<protocol, action, before, outcome, storage>>

-----------------------------------------------------------------------------
(* TrajectoryRecorder.save and verify_payload.                             *)

\* to_dict
Payload ==
  [ entries |-> entries,
    outcome |-> outcome,
    status  |-> IF entries # << >> /\ Last(entries).over THEN "complete" ELSE "partial" ]

InitialHash == << 1, <<0, 0>>, <<0, 0, 0>>, 0, "deciding" >>

Continuous(chain) ==
  \A i \in DOMAIN chain :
    /\ chain[i].before = (IF i = 1 THEN InitialHash ELSE chain[i - 1].after)
    /\ chain[i].over => i = Len(chain)

\* What save() demands and every reader of the file checks.
Verifies(payload) ==
  LET ended == payload.entries # << >> /\ Last(payload.entries).over
  IN  /\ Continuous(payload.entries)
      /\ payload.status = "complete" => ended /\ payload.outcome = "none"
      /\ payload.status = "partial" => ~ ended

\* Mutant: the file is written in place.
WriteInPlace ==
  /\ runner = "saving"
  /\ Verifies(Payload)
  /\ file' = {[Payload EXCEPT !.entries = << >>]}
  /\ runner' = "replacing"
  /\ UNCHANGED <<protocol, action, before, entries, tally, temp>>

WriteTemp ==
  /\ runner = "saving"
  /\ Verifies(Payload)
  /\ temp' = TRUE
  /\ runner' = "replacing"
  /\ UNCHANGED <<protocol, action, before, entries, tally, file>>

Replace ==
  /\ runner = "replacing"
  /\ file' = {Payload}
  /\ temp' = FALSE
  /\ runner' = "returned"
  /\ UNCHANGED <<protocol, action, before, entries, tally>>

\* The disk is full, the rename is refused: the temporary file is removed.
SaveFails ==
  /\ runner \in {"saving", "replacing"}
  /\ temp' = FALSE
  /\ runner' = "raised"
  /\ UNCHANGED <<protocol, action, before, entries, tally, file>>

Killed ==
  /\ runner \notin Stopped
  /\ runner' = "killed"
  /\ UNCHANGED <<protocol, action, before, entries, tally, storage>>

-----------------------------------------------------------------------------
Ask ==
  \/ \E output \in Kinds \cup {"malformed"} : Answer(output)
  \/ PolicyFails
  \/ Cancelled

Save == WriteTemp \/ Replace \/ SaveFails

Runs == Ask \/ CallStep \/ StepContinues \/ StepRaises \/ Record \/ Save

RolloutNext == Runs \/ Killed

RolloutSpec == RolloutInit /\ [][RolloutNext]_rollout

-----------------------------------------------------------------------------
(* Properties.                                                             *)

\* The runner never refuses to save its own trajectory: in whatever order
\* steps, refusals and failures of the policy came, it verifies.
TrajectoryCanBeSaved == runner \in {"saving", "replacing"} => Verifies(Payload)

\* Whatever stands at the destination, also after the process was killed or
\* the disk failed, is a whole trajectory that verifies: all the steps of an
\* episode that ended, or those up to a failure of the policy.
FileIsWhole ==
  \A saved \in file :
    /\ Verifies(saved)
    /\ saved.entries = entries
    /\ saved.status = "complete" <=> saved.outcome = "none"

=============================================================================
