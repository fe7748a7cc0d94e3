----------------------------- MODULE ModelClient -----------------------------
(***************************************************************************)
(* One call of chat in the clients of stochopia/llm.py: one loop that      *)
(* posts the request, with two retry counters of their own.  A lost or     *)
(* refused request is repeated after a delay, as often as there are        *)
(* delays; an answer cut off at max_tokens is asked for again at once with *)
(* twice the tokens.  Both clients share the shape of the loop.            *)
(***************************************************************************)
EXTENDS Integers

CONSTANTS
  RetryDelays,        \* Len(RETRY_DELAYS)
  TruncationRetries,  \* TRUNCATION_RETRIES
  Ceiling,            \* TRUNCATION_MAX_TOKENS_CEILING
  Budgets             \* what a caller or the registry may give as max_tokens

ASSUME ClientAssumption == /\ RetryDelays \in Nat
                           /\ TruncationRetries \in Nat
                           /\ Ceiling \in Nat \ {0}
                           /\ Budgets \subseteq Nat \ {0}

VARIABLES
  chat,           \* what the call is doing, and how it ended
  net_attempt,    \* delays used up
  trunc_attempt,  \* raised budgets
  max_tokens,     \* payload["max_tokens"]
  asked,          \* history: what the call was first allowed
  lost,           \* history: requests without a usable response
  cut,            \* history: answers that were cut off
  calls           \* total_usage["calls"] of this call

client_vars == <<chat, net_attempt, trunc_attempt, max_tokens, asked, lost, cut, calls>>

Ends == {"answered", "truncated", "unreachable", "refused"}

ClientInit ==
  /\ chat = "idle"
  /\ net_attempt = 0
  /\ trunc_attempt = 0
  /\ max_tokens = 0
  /\ asked = 0
  /\ lost = 0
  /\ cut = 0
  /\ calls = 0

Chat(budget) ==
  /\ chat = "idle"
  /\ chat' = "posting"
  /\ max_tokens' = budget
  /\ asked' = budget
  /\ UNCHANGED <<net_attempt, trunc_attempt, lost, cut, calls>>

\* A timeout, a broken connection, 429 and 5xx.
RequestLost ==
  /\ chat = "posting"
  /\ lost' = lost + 1
  /\ IF net_attempt < RetryDelays
     THEN net_attempt' = net_attempt + 1 /\ UNCHANGED chat
     ELSE chat' = "unreachable" /\ UNCHANGED net_attempt
  /\ UNCHANGED <<trunc_attempt, max_tokens, asked, cut, calls>>

\* Any other error of the request, and a body that is not what it should be.
RequestRefused ==
  /\ chat = "posting"
  /\ chat' = "refused"
  /\ UNCHANGED <<net_attempt, trunc_attempt, max_tokens, asked, lost, cut, calls>>

Answered ==
  /\ chat = "posting"
  /\ calls' = calls + 1
  /\ chat' = "answered"
  /\ UNCHANGED <<net_attempt, trunc_attempt, max_tokens, asked, lost, cut>>

\* Mutant: a cut answer uses up a delay like a lost request.
AnswerCutSharingDelays ==
  /\ chat = "posting"
  /\ calls' = calls + 1
  /\ cut' = cut + 1
  /\ IF trunc_attempt < TruncationRetries /\ max_tokens < Ceiling
     THEN /\ trunc_attempt' = trunc_attempt + 1
          /\ net_attempt' = net_attempt + 1
          /\ max_tokens' = IF 2 * max_tokens < Ceiling THEN 2 * max_tokens ELSE Ceiling
          /\ UNCHANGED chat
     ELSE /\ chat' = "truncated"
          /\ UNCHANGED <<net_attempt, trunc_attempt, max_tokens>>
  /\ UNCHANGED <<asked, lost>>

\* The usage is counted before the answer is found to be cut off.
AnswerCut ==
  /\ chat = "posting"
  /\ calls' = calls + 1
  /\ cut' = cut + 1
  /\ IF trunc_attempt < TruncationRetries /\ max_tokens < Ceiling
     THEN /\ trunc_attempt' = trunc_attempt + 1
          /\ max_tokens' = IF 2 * max_tokens < Ceiling THEN 2 * max_tokens ELSE Ceiling
          /\ UNCHANGED chat
     ELSE /\ chat' = "truncated"
          /\ UNCHANGED <<trunc_attempt, max_tokens>>
  /\ UNCHANGED <<net_attempt, asked, lost>>

ClientNext ==
  \/ \E budget \in Budgets : Chat(budget)
  \/ RequestLost \/ RequestRefused \/ Answered \/ AnswerCut

ClientSpec == ClientInit /\ [][ClientNext]_client_vars

-----------------------------------------------------------------------------
ClientTypeOK ==
  /\ chat \in {"idle", "posting"} \cup Ends
  /\ net_attempt \in 0 .. RetryDelays
  /\ trunc_attempt \in 0 .. TruncationRetries
  /\ max_tokens \in Nat
  /\ asked \in Nat
  /\ lost \in Nat /\ cut \in Nat /\ calls \in Nat

\* The two kinds of retry do not eat into each other: a call gives up on the
\* network only after every delay and one more request were lost to the
\* network, gives up on a cut answer only after all the raises or at the
\* ceiling, and whatever happened, every answer that came in was counted.
\* So a call posts at most RetryDelays + TruncationRetries + 2 requests, and
\* never asks for more tokens than the ceiling unless its caller did.
ChatKeepsItsBudgets ==
  /\ chat = "unreachable" => lost = RetryDelays + 1
  /\ lost <= RetryDelays + 1
  /\ chat = "truncated" => cut = TruncationRetries + 1 \/ max_tokens >= Ceiling
  /\ cut <= TruncationRetries + 1
  /\ calls = cut + (IF chat = "answered" THEN 1 ELSE 0)
  /\ max_tokens <= Ceiling \/ max_tokens = asked

=============================================================================
