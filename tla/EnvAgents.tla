----------------------------- MODULE EnvAgents -----------------------------
(***************************************************************************)
(* One role-playing environment agent, a FrozenEnvAgent, and the           *)
(* EnvResponseCache it shares with the agents of other jobs                *)
(* (stochopia/env_agents.py).  Every job of a batch plays the same         *)
(* episode: its agent is new, the cache and its file are not.              *)
(*                                                                         *)
(* The model behind the role is any model: it may fail, answer something   *)
(* that does not parse ("garbled") or that names numbers it was not given  *)
(* ("ungrounded"), or give one of several good answers.  Its transport     *)
(* retries are inside one call.  The role's model and settings, which the  *)
(* cache key includes, do not change; the key is the rest of it.           *)
(***************************************************************************)
EXTENDS Naturals, SequencesExt

CONSTANTS
  Script,       \* the round of each request of an episode
  Scopes,       \* what history_scope may be
  Contents,     \* what a tested model may ask
  Good,         \* answers that parse and are grounded
  DiskMayFail,  \* appending to the cache's file may fail
  MaxJobs       \* bound of the model: jobs of the batch

ASSUME EnvAgentsAssumption ==
  /\ Script \in Seq(Nat \ {0})
  /\ Scopes \subseteq {"round", "episode"}
  /\ Good \cap {"garbled", "ungrounded", "none"} = {}
  /\ DiskMayFail \in BOOLEAN
  /\ MaxJobs \in Nat \ {0}

VARIABLES
  scope,          \* history_scope of the role
  stage,          \* what respond() is doing
  key,            \* cache_key: the seed's turn and the messages
  raw,            \* the answer at hand
  calls,          \* answers the model gave to this request
  history,        \* FrozenEnvAgent.history
  round,          \* FrozenEnvAgent._current_round
  store,          \* EnvResponseCache._store
  file,           \* the entries of the cache's file that can be read
  torn,           \* the file ends in an unfinished line
  legible,        \* no character of the file was cut in two
  conversation,   \* responses of this job
  earlier         \* conversations of the jobs before it

agent  == <<stage, key, raw, calls, history, round>>
cache  == <<store, file, torn, legible>>
record == <<conversation, earlier>>
vars   == <<scope, agent, cache, record>>

Answers == Good \cup {"garbled", "ungrounded"}

Turn == Len(conversation) + 1

EnvAgentsInit ==
  /\ scope \in Scopes
  /\ stage = "idle" /\ key = << >> /\ raw = "none" /\ calls = 0
  /\ history = << >> /\ round = 0
  /\ store = {} /\ file = {} /\ torn = FALSE /\ legible = TRUE
  /\ conversation = << >> /\ earlier = << >>

-----------------------------------------------------------------------------
(* respond().                                                              *)

User(content)     == <<"user", content>>
Assistant(answer) == <<"assistant", answer>>

\* What is to be done with an answer.
Judged(answer) ==
  CASE answer = "garbled"    -> "reformatting"
    [] answer = "ungrounded" -> "regrounding"
    [] OTHER                 -> "accepting"

\* _reset_history_if_needed
Remembered ==
  IF scope = "round" /\ round # Script[Turn] THEN << >> ELSE history

Request(content) ==
  /\ stage = "idle"
  /\ Turn <= Len(Script)
  /\ round' = Script[Turn]
  /\ key' = <<Turn, Append(Remembered, User(content))>>
  /\ calls' = 0

Hit(content) ==
  /\ Request(content)
  /\ \E entry \in store :
       /\ entry.key = key'
       /\ raw' = entry.value
       /\ history' = key'[2] \o <<Assistant(entry.value)>>
       /\ stage' = Judged(entry.value)
  /\ UNCHANGED <<cache, record>>

Miss(content) ==
  /\ Request(content)
  /\ \A entry \in store : entry.key # key'
  /\ raw' = "none"
  /\ history' = Remembered
  /\ stage' = "calling"
  /\ UNCHANGED <<cache, record>>

Response(reply) ==
  [content |-> Last(key[2])[2], key |-> key, reply |-> reply, calls |-> calls']

\* Degraded or not, what was exchanged stays in the history.
Return(reply) ==
  /\ stage' = "idle"
  /\ conversation' = Append(conversation, Response(reply))
  /\ UNCHANGED <<key, round, earlier>>

Degrade == Return("degraded") /\ UNCHANGED cache

Exchange(message, answer) ==
  /\ raw' = answer
  /\ calls' = calls + 1
  /\ history' = history \o <<User(message), Assistant(answer)>>

Continue(next) ==
  /\ stage' = next
  /\ UNCHANGED <<key, round, cache, record>>

ModelAnswers(answer) ==
  /\ stage = "calling"
  /\ Exchange(Last(key[2])[2], answer)
  /\ Continue(Judged(answer))

Reformat(answer) ==
  /\ stage = "reformatting"
  /\ Exchange("reformat", answer)
  /\ IF answer = "garbled" THEN Degrade ELSE Continue(Judged(answer))

Reground(answer) ==
  /\ stage = "regrounding"
  /\ Exchange("reground", answer)
  /\ IF answer \in Good THEN Continue("accepting") ELSE Degrade

\* The model cannot be reached, or not again.
ModelFails ==
  /\ stage \in {"calling", "reformatting", "regrounding"}
  /\ UNCHANGED <<raw, calls, history>>
  /\ Degrade

\* Mutant: the answer is stored as it first came.
EntryAsFirstCame ==
  [key |-> key, value |-> history[Len(key[2]) + 1][2]]

Entry == [key |-> key, value |-> raw]

Found == calls = 0

AcceptFound ==
  /\ stage = "accepting"
  /\ Found
  /\ UNCHANGED <<raw, calls, history, cache>>
  /\ Return(raw)

\* A line appended to an unfinished one cannot be read, nor can that one.
AcceptNew ==
  /\ stage = "accepting"
  /\ ~ Found
  /\ store' = store \cup {Entry}
  /\ file' = IF torn THEN file ELSE file \cup {Entry}
  /\ torn' = FALSE
  /\ UNCHANGED <<raw, calls, history, legible>>
  /\ Return(raw)

\* put() raises, out of respond() and of the episode.
StoreFails ==
  /\ DiskMayFail
  /\ stage = "accepting"
  /\ ~ Found
  /\ store' = store \cup {Entry}
  /\ \/ UNCHANGED <<torn, legible>>
     \/ torn' = TRUE /\ legible' \in {legible, FALSE}
  /\ stage' = "raised"
  /\ UNCHANGED <<key, raw, calls, history, round, file, record>>

-----------------------------------------------------------------------------
(* The batch.                                                              *)

\* An exception ends the job, not the batch.
JobOver ==
  \/ stage = "raised"
  \/ stage = "idle" /\ Turn > Len(Script)

\* Mutants: the agent of the last job is used again; a new process does not read
\* a file that ends in an unfinished line.
NextJobSameAgent(restart) ==
  /\ JobOver
  /\ restart => legible
  /\ Len(earlier) + 1 < MaxJobs
  /\ stage' = "idle" /\ key' = << >> /\ raw' = "none" /\ calls' = 0
  /\ store' = IF restart THEN file ELSE store
  /\ earlier' = Append(earlier, conversation)
  /\ conversation' = << >>
  /\ UNCHANGED <<history, round, file, torn, legible>>
NextJobTornUnread(restart) ==
  /\ JobOver
  /\ restart => legible
  /\ Len(earlier) + 1 < MaxJobs
  /\ stage' = "idle" /\ key' = << >> /\ raw' = "none" /\ calls' = 0
  /\ history' = << >> /\ round' = 0
  /\ store' = IF restart THEN (IF torn THEN {} ELSE file) ELSE store
  /\ earlier' = Append(earlier, conversation)
  /\ conversation' = << >>
  /\ UNCHANGED <<file, torn, legible>>

\* A new job, in this process or in a new one.  A process that cannot decode the
\* cache's file does not start.
NextJob(restart) ==
  /\ JobOver
  /\ restart => legible
  /\ Len(earlier) + 1 < MaxJobs
  /\ stage' = "idle" /\ key' = << >> /\ raw' = "none" /\ calls' = 0
  /\ history' = << >> /\ round' = 0
  /\ store' = IF restart THEN file ELSE store
  /\ earlier' = Append(earlier, conversation)
  /\ conversation' = << >>
  /\ UNCHANGED <<file, torn, legible>>

EnvAgentsNext ==
  /\ \/ \E content \in Contents : Hit(content) \/ Miss(content)
     \/ \E answer \in Answers : ModelAnswers(answer) \/ Reformat(answer) \/ Reground(answer)
     \/ ModelFails
     \/ AcceptFound
     \/ AcceptNew
     \/ StoreFails
     \/ \E restart \in BOOLEAN : NextJob(restart)
  /\ UNCHANGED scope

EnvAgentsSpec == EnvAgentsInit /\ [][EnvAgentsNext]_vars

-----------------------------------------------------------------------------
(* Properties.                                                             *)

Jobs == Append(earlier, conversation)

Accepted(response) == response.reply # "degraded"

\* An answer found in the cache is returned without asking the model again:
\* what is stored for a request needs no repair.
FoundNeedsNoModel ==
  stage \in {"reformatting", "regrounding"} => ~ Found

\* "An identical request hits the same frozen reply", in this process and in the
\* next: whatever the disk lost, a request has at most one reply in the cache's
\* file and in memory, and memory holds all that the file does.
OneFrozenReply ==
  /\ file \subseteq store
  /\ \A one, other \in store : one.key = other.key => one = other

SameRequests(i, j, t) == \A s \in 1 .. t : Jobs[i][s].content = Jobs[j][s].content

InScope(s, t) == s < t /\ (scope = "episode" \/ Script[s] = Script[t])

Replays(i, j, t) ==
  /\ Jobs[j][t].reply = Jobs[i][t].reply
  /\ Jobs[j][t].calls = 0

\* The part of the replay promise that holds: a job that repeats the requests of
\* an earlier one gets its reply, without a model, unless a reply that the role
\* still remembers was repaired or degraded, or the file lost one.
ReplaysUntilRepair ==
  (\A j \in DOMAIN earlier : Len(earlier[j]) = Len(Script)) =>
  \A i, j \in DOMAIN Jobs : i < j =>
    \A t \in DOMAIN Jobs[i] \cap DOMAIN Jobs[j] :
      /\ SameRequests(i, j, t)
      /\ Accepted(Jobs[i][t])
      /\ \A s \in 1 .. t : InScope(s, t) => Accepted(Jobs[i][s]) /\ Jobs[i][s].calls <= 1
      => Replays(i, j, t)

\* "replaying the same request sequence against the same cache file reproduces
\* the exact same NPC replies byte-for-byte, without re-calling any model"
\* (docs/BENCHMARK_PROTOCOL.md): at least where every reply was accepted.
ConversationReplay ==
  \A i, j \in DOMAIN Jobs : i < j =>
    \A t \in DOMAIN Jobs[i] \cap DOMAIN Jobs[j] :
      /\ SameRequests(i, j, t)
      /\ \A s \in 1 .. t : Accepted(Jobs[i][s])
      => Replays(i, j, t)

=============================================================================
