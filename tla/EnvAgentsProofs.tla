--------------------------- MODULE EnvAgentsProofs ---------------------------
(***************************************************************************)
(* Theorems about EnvAgents: whatever the models answer and whatever the   *)
(* disk loses, a request has one frozen reply, what is found in the cache  *)
(* is returned without a model, and a job that repeats the requests of an  *)
(* earlier one replays it until a remembered reply was repaired.           *)
(***************************************************************************)
EXTENDS EnvAgents, SequenceTheorems, TLAPS

Repairing == {"reformatting", "regrounding"}

\* A model is only asked what the cache does not hold, only good answers are
\* accepted, and a request that is being repaired was not found.
CacheInv ==
  /\ OneFrozenReply
  /\ \A entry \in store : entry.value \in Good
  /\ stage = "accepting" => raw \in Good
  /\ stage = "calling" \/ (stage \in Repairing \cup {"accepting"} /\ ~ Found)
       => \A entry \in store : entry.key # key
  /\ stage \in Repairing => ~ Found
  /\ calls \in Nat

-----------------------------------------------------------------------------
\* A good answer is accepted, another repaired, whatever it is.
LEMMA Judgement ==
  ASSUME NEW answer \in Answers
  PROVE  /\ Judged(answer) \in Repairing \cup {"accepting"}
         /\ Judged(answer) = "accepting" => answer \in Good
         /\ answer \in Good => Judged(answer) = "accepting"
BY EnvAgentsAssumption DEF Judged, Repairing, Answers

\* The invariant holds initially.
LEMMA CacheInit == EnvAgentsInit => CacheInv
BY DEF EnvAgentsInit, CacheInv, OneFrozenReply, Repairing, Found

\* An exchange with the model leaves the cache alone; the request counts as
\* not found from then on.
LEMMA ExchangeKeeps ==
  ASSUME CacheInv, NEW message, NEW answer \in Answers,
         stage = "calling" \/ stage \in Repairing,
         Exchange(message, answer),
         UNCHANGED <<key, cache>>,
         stage' \in Repairing \cup {"accepting", "idle"},
         stage' = "accepting" => answer \in Good
  PROVE  CacheInv'
<1>1. calls' # 0 /\ calls' \in Nat
  BY DEF Exchange, CacheInv
<1>2. \A entry \in store : entry.key # key
  BY DEF CacheInv, Repairing
<1>3. raw' = answer /\ store' = store /\ file' = file /\ key' = key
  BY DEF Exchange, cache
<1> QED
  BY <1>1, <1>2, <1>3 DEF CacheInv, OneFrozenReply, Repairing, Found

\* Storing an accepted answer to a request that was not found keeps one reply
\* per request, whether or not its line gets to the disk.
LEMMA StoringKeeps ==
  ASSUME CacheInv, stage = "accepting", ~ Found,
         store' = store \cup {Entry},
         file' \in {file, file \cup {Entry}},
         stage' \in {"idle", "raised"},
         UNCHANGED calls
  PROVE  CacheInv'
<1>1. raw \in Good /\ \A entry \in store : entry.key # key
  BY DEF CacheInv
<1>2. Entry.key = key /\ Entry.value = raw
  BY DEF Entry
<1>3. OneFrozenReply'
  BY <1>1, <1>2 DEF CacheInv, OneFrozenReply
<1>4. \A entry \in store' : entry.value \in Good
  BY <1>1, <1>2 DEF CacheInv
<1> QED
  BY <1>3, <1>4 DEF CacheInv, Repairing

\* Every step keeps the invariant.
LEMMA CacheStep == CacheInv /\ [EnvAgentsNext]_vars => CacheInv'
<1> SUFFICES ASSUME CacheInv, [EnvAgentsNext]_vars PROVE CacheInv'
  OBVIOUS
<1>1. ASSUME NEW content \in Contents, Hit(content) PROVE CacheInv'
  <2>1. PICK entry \in store : raw' = entry.value /\ stage' = Judged(entry.value)
    BY <1>1 DEF Hit
  <2>2. entry.value \in Good
    BY DEF CacheInv
  <2>3. stage' = "accepting"
    BY <2>1, <2>2, Judgement DEF Answers
  <2>4. calls' = 0 /\ UNCHANGED cache
    BY <1>1 DEF Hit, Request
  <2> QED
    BY <2>1, <2>2, <2>3, <2>4 DEF CacheInv, OneFrozenReply, Repairing, Found, cache
<1>2. ASSUME NEW content \in Contents, Miss(content) PROVE CacheInv'
  <2>1. calls' = 0 /\ UNCHANGED cache /\ stage' = "calling"
        /\ \A entry \in store : entry.key # key'
    BY <1>2 DEF Miss, Request
  <2> QED
    BY <2>1 DEF CacheInv, OneFrozenReply, Repairing, Found, cache
<1>3. ASSUME NEW answer \in Answers, ModelAnswers(answer) PROVE CacheInv'
  <2>1. /\ stage = "calling"
        /\ Exchange(Last(key[2])[2], answer)
        /\ stage' = Judged(answer)
        /\ UNCHANGED <<key, cache>>
    BY <1>3 DEF ModelAnswers, Continue
  <2> QED
    BY <2>1, ExchangeKeeps, Judgement
<1>4. ASSUME NEW answer \in Answers, Reformat(answer) PROVE CacheInv'
  <2>1. /\ stage \in Repairing
        /\ Exchange("reformat", answer)
        /\ UNCHANGED <<key, cache>>
        /\ stage' = "idle" \/ stage' = Judged(answer)
    BY <1>4 DEF Reformat, Degrade, Return, Continue, Repairing
  <2> QED
    BY <2>1, ExchangeKeeps, Judgement
<1>5. ASSUME NEW answer \in Answers, Reground(answer) PROVE CacheInv'
  <2>1. /\ stage \in Repairing
        /\ Exchange("reground", answer)
        /\ UNCHANGED <<key, cache>>
        /\ stage' = "idle" \/ (stage' = "accepting" /\ answer \in Good)
    BY <1>5 DEF Reground, Degrade, Return, Continue, Repairing
  <2> QED
    BY <2>1, ExchangeKeeps
<1>6. CASE ModelFails
  <2>1. stage' = "idle" /\ UNCHANGED <<calls, cache>>
    BY <1>6 DEF ModelFails, Degrade, Return
  <2> QED
    BY <2>1 DEF CacheInv, OneFrozenReply, Repairing, cache
<1>7. CASE AcceptFound
  <2>1. stage' = "idle" /\ UNCHANGED <<calls, cache>>
    BY <1>7 DEF AcceptFound, Return
  <2> QED
    BY <2>1 DEF CacheInv, OneFrozenReply, Repairing, cache
<1>8. CASE AcceptNew
  BY <1>8, StoringKeeps DEF AcceptNew, Return
<1>9. CASE StoreFails
  BY <1>9, StoringKeeps DEF StoreFails
<1>10. ASSUME NEW restart \in BOOLEAN, NextJob(restart) PROVE CacheInv'
  <2>1. stage' = "idle" /\ calls' = 0 /\ file' = file /\ store' \in {file, store}
    BY <1>10 DEF NextJob
  <2> QED
    BY <2>1 DEF CacheInv, OneFrozenReply, Repairing
<1>11. CASE UNCHANGED vars
  BY <1>11 DEF CacheInv, OneFrozenReply, Repairing, Found, vars, agent, cache
<1> QED
  BY <1>1, <1>2, <1>3, <1>4, <1>5, <1>6, <1>7, <1>8, <1>9, <1>10, <1>11
     DEF EnvAgentsNext

\* The cache's invariant, for any script, any answers and any number of jobs.
LEMMA CacheHolds == EnvAgentsSpec => []CacheInv
BY CacheInit, CacheStep, PTL DEF EnvAgentsSpec

-----------------------------------------------------------------------------
\* A request has at most one reply, in the file and in memory, whatever the disk
\* lost: EnvResponseCache.put is never reached for a key the file holds.
THEOREM RepliesAreFrozen == EnvAgentsSpec => []OneFrozenReply
<1>1. CacheInv => OneFrozenReply
  BY DEF CacheInv
<1> QED BY <1>1, CacheHolds, PTL

\* What respond() finds in the cache needs no repair: no model is called for it.
THEOREM FoundIsGood == EnvAgentsSpec => []FoundNeedsNoModel
<1>1. CacheInv => FoundNeedsNoModel
  BY DEF CacheInv, FoundNeedsNoModel, Repairing
<1> QED BY <1>1, CacheHolds, PTL

-----------------------------------------------------------------------------
(* Replay.  What a request's key holds is settled by its own content and,  *)
(* where its turn remembers the one before, by that one's key and reply:   *)
(* if that reply was accepted as it first came.  So the keys of two jobs   *)
(* that ask the same agree turn by turn, and no induction over the         *)
(* conversation is needed.                                                 *)

Message == {"user", "assistant"} \X (Contents \cup Answers \cup {"reformat", "reground"})

Messages == Seq(Message)

ResponseRecord == [ content : Contents, key : Nat \X Messages,
                    reply : Good \cup {"degraded"}, calls : Nat ]

Pending == stage \in {"calling", "accepting"} \cup Repairing

Content == Last(key[2])[2]

JobsOK ==
  /\ scope \in {"round", "episode"}
  /\ stage \in {"idle", "raised", "calling", "accepting"} \cup Repairing
  /\ conversation \in Seq(ResponseRecord)
  /\ earlier \in Seq(Seq(ResponseRecord))
  /\ history \in Messages
  /\ stage # "idle" => Turn <= Len(Script)
  /\ Pending => key \in Nat \X Messages /\ Content \in Contents /\ round = Script[Turn]

\* A turn that remembers nothing.
Opens(t) == t = 1 \/ (scope = "round" /\ Script[t - 1] # Script[t])

AsItCame(r) == Accepted(r) /\ r.calls <= 1

\* The key k of turn t is what the turn before it left, and what is asked now.
Chained(c, t, k, content) ==
  /\ Opens(t) => k = <<t, <<User(content)>>>>
  /\ ~ Opens(t) /\ AsItCame(c[t - 1])
       => k = <<t, Append(Append(c[t - 1].key[2], Assistant(c[t - 1].reply)), User(content))>>

Chain(c) == \A t \in DOMAIN c : Chained(c, t, c[t].key, c[t].content)

HistoryInv ==
  /\ Chain(conversation)
  /\ \A j \in DOMAIN earlier : Chain(earlier[j])
  /\ Pending => Chained(conversation, Turn, key, Content)
  /\ stage = "calling" => calls = 0 /\ key[2] = Append(history, User(Content))
  /\ stage = "accepting" /\ calls <= 1 => history = Append(key[2], Assistant(raw))
  /\ stage = "idle" /\ conversation = << >> => history = << >> /\ round = 0
  /\ stage = "idle" /\ conversation # << >> =>
       LET r == conversation[Len(conversation)]
       IN  /\ round = Script[Len(conversation)]
           /\ AsItCame(r) => history = Append(r.key[2], Assistant(r.reply))

\* As long as no job was cut short by the disk, nothing accepted is lost.
AllComplete == \A j \in DOMAIN earlier : Len(earlier[j]) = Len(Script)

Kept(r) == Accepted(r) => [key |-> r.key, value |-> r.reply] \in store

StoredInv ==
  /\ \A entry \in store : entry = [key |-> entry.key, value |-> entry.value]
  /\ stage = "accepting" /\ Found => Entry \in store
  /\ AllComplete =>
       /\ \A t \in DOMAIN conversation : Kept(conversation[t])
       /\ \A j \in DOMAIN earlier : \A t \in DOMAIN earlier[j] : Kept(earlier[j][t])
       /\ stage # "raised" => ~ torn /\ file = store

\* Job d repeats what job c asked up to turn t, which c had as it first came.
Repeats(c, d, t) ==
  /\ \A s \in 1 .. t : c[s].content = d[s].content
  /\ Accepted(c[t])
  /\ \A s \in 1 .. t : InScope(s, t) => AsItCame(c[s])

Agree(c, d) ==
  \A t \in DOMAIN c \cap DOMAIN d :
    Repeats(c, d, t) => d[t].reply = c[t].reply /\ d[t].calls = 0 /\ d[t].key = c[t].key

AgreeInv ==
  AllComplete =>
    \A i \in DOMAIN earlier :
      /\ Agree(earlier[i], conversation)
      /\ \A j \in DOMAIN earlier : i < j => Agree(earlier[i], earlier[j])

\* What is appended to a sequence, and what stays.
LEMMA Appended ==
  ASSUME NEW S, NEW s \in Seq(S), NEW x \in S
  PROVE  /\ Append(s, x) \in Seq(S)
         /\ Len(s) \in Nat /\ Len(Append(s, x)) = Len(s) + 1
         /\ DOMAIN s = 1 .. Len(s) /\ DOMAIN Append(s, x) = 1 .. Len(s) + 1
         /\ \A i \in 1 .. Len(s) : Append(s, x)[i] = s[i]
         /\ Append(s, x)[Len(s) + 1] = x
         /\ Last(Append(s, x)) = x
  BY DEF Last

\* The scope of a role does not change, so neither does what its turns remember.
LEMMA ScopeStays ==
  ASSUME UNCHANGED scope
  PROVE  /\ \A c, t, k, content : Chained(c, t, k, content)' <=> Chained(c, t, k, content)
         /\ \A c : Chain(c)' <=> Chain(c)
         /\ \A c, d : Agree(c, d)' <=> Agree(c, d)
<1>1. \A t : Opens(t)' <=> Opens(t)
  BY DEF Opens
<1>2. \A r : AsItCame(r)' <=> AsItCame(r)
  BY DEF AsItCame, Accepted
<1>3. \A c, t, k, content : Chained(c, t, k, content)' <=> Chained(c, t, k, content)
  BY <1>1, <1>2 DEF Chained, User, Assistant
<1>4. \A c : Chain(c)' <=> Chain(c)
  BY <1>3 DEF Chain
<1>5. \A s, t : InScope(s, t)' <=> InScope(s, t)
  BY DEF InScope
<1>6. \A c, d, t : Repeats(c, d, t)' <=> Repeats(c, d, t)
  BY <1>2, <1>5 DEF Repeats, Accepted
<1>7. \A c, d : Agree(c, d)' <=> Agree(c, d)
  BY <1>6 DEF Agree
<1> QED BY <1>3, <1>4, <1>7

\* A conversation one response longer is chained if that response is,
LEMMA ChainAppended ==
  ASSUME NEW c \in Seq(ResponseRecord), NEW r \in ResponseRecord, Chain(c),
         Chained(c, Len(c) + 1, r.key, r.content)
  PROVE  Chain(Append(c, r))
<1> DEFINE d == Append(c, r)
<1>1. /\ Len(c) \in Nat /\ DOMAIN c = 1 .. Len(c) /\ DOMAIN d = 1 .. Len(c) + 1
      /\ \A i \in 1 .. Len(c) : d[i] = c[i]
      /\ d[Len(c) + 1] = r
  BY Appended
<1> HIDE DEF d
<1>2. ASSUME NEW t \in DOMAIN d PROVE Chained(d, t, d[t].key, d[t].content)
  <2>1. t # 1 => t - 1 \in 1 .. Len(c)
    BY <1>1
  <2>2. t # 1 => d[t - 1] = c[t - 1]
    BY <1>1, <2>1
  <2>3. Chained(c, t, d[t].key, d[t].content)
    <3>1. CASE t = Len(c) + 1
      BY <1>1, <3>1
    <3>2. CASE t # Len(c) + 1
      <4>1. t \in DOMAIN c /\ d[t] = c[t]
        BY <1>1, <3>2
      <4> QED BY <4>1 DEF Chain
    <3> QED BY <3>1, <3>2
  <2>4. Opens(1)
    BY DEF Opens
  <2>5. CASE t = 1
    BY <2>3, <2>4, <2>5 DEF Chained
  <2>6. CASE t # 1
    BY <2>2, <2>3, <2>6 DEF Chained
  <2> QED BY <2>5, <2>6
<1> QED BY <1>2 DEF Chain, d

\* and agrees with an earlier one if it agreed before and the response does.
LEMMA AgreeAppended ==
  ASSUME NEW c \in Seq(ResponseRecord), NEW d \in Seq(ResponseRecord),
         NEW r \in ResponseRecord, Agree(c, d),
         /\ Len(d) + 1 \in DOMAIN c
         /\ Repeats(c, Append(d, r), Len(d) + 1)
         => /\ r.reply = c[Len(d) + 1].reply
            /\ r.calls = 0
            /\ r.key = c[Len(d) + 1].key
  PROVE  Agree(c, Append(d, r))
<1> DEFINE e == Append(d, r)
           n == Len(d)
<1>1. /\ n \in Nat /\ DOMAIN d = 1 .. n /\ DOMAIN e = 1 .. n + 1
      /\ \A i \in 1 .. n : e[i] = d[i]
      /\ e[n + 1] = r
  BY Appended
<1>2. n + 1 \in DOMAIN c /\ Repeats(c, e, n + 1)
        => r.reply = c[n + 1].reply /\ r.calls = 0 /\ r.key = c[n + 1].key
  OBVIOUS
<1> HIDE DEF e, n
<1>3. ASSUME NEW t \in DOMAIN c \cap DOMAIN e, Repeats(c, e, t)
      PROVE  e[t].reply = c[t].reply /\ e[t].calls = 0 /\ e[t].key = c[t].key
  <2>1. CASE t = n + 1
    BY <1>1, <1>2, <1>3, <2>1
  <2>2. CASE t # n + 1
    <3>1. t \in 1 .. n
      BY <1>1, <2>2
    <3>2. \A s \in 1 .. t : s \in 1 .. n
      BY <1>1, <3>1
    <3>3. Repeats(c, d, t)
      BY <1>1, <1>3, <3>1, <3>2 DEF Repeats
    <3> QED BY <1>1, <3>1, <3>3 DEF Agree
  <2> QED BY <2>1, <2>2
<1> QED BY <1>3 DEF Agree, e

\* The key of a repeated request is that of the request it repeats: the turn
\* before it, if it remembers one, had the same key and the same reply.
LEMMA RepeatedKey ==
  ASSUME scope \in {"round", "episode"},
         NEW c \in Seq(ResponseRecord), NEW d \in Seq(ResponseRecord), NEW k, NEW content,
         Chain(c), Chained(d, Len(d) + 1, k, content), Chain(d), Agree(c, d),
         Len(d) + 1 \in DOMAIN c, c[Len(d) + 1].content = content,
         \A s \in 1 .. Len(d) : c[s].content = d[s].content,
         \A s \in 1 .. Len(d) + 1 : InScope(s, Len(d) + 1) => AsItCame(c[s])
  PROVE  k = c[Len(d) + 1].key
<1> DEFINE t == Len(d) + 1
<1>1. /\ t \in Nat \ {0} /\ DOMAIN d = 1 .. t - 1 /\ DOMAIN c = 1 .. Len(c) /\ Len(c) \in Nat
  BY LenProperties
<1>2. /\ Chained(c, t, c[t].key, content) /\ Chained(d, t, k, content) /\ t \in DOMAIN c
      /\ \A s \in 1 .. t - 1 : c[s].content = d[s].content
      /\ \A s \in 1 .. t : InScope(s, t) => AsItCame(c[s])
  BY DEF Chain
<1> HIDE DEF t
<1>3. Opens(t) => k = c[t].key
  BY <1>2 DEF Chained
<1>4. ASSUME ~ Opens(t) PROVE k = c[t].key
  <2>1. t - 1 \in 1 .. t - 1 /\ t - 1 \in DOMAIN c \cap DOMAIN d /\ t - 1 \in 1 .. t
    BY <1>1, <1>2, <1>4 DEF Opens
  <2>2. InScope(t - 1, t)
    BY <1>1, <1>4 DEF Opens, InScope
  <2>3. AsItCame(c[t - 1])
    BY <1>2, <2>1, <2>2
  <2>4. \A s \in 1 .. t - 1 : InScope(s, t - 1) => InScope(s, t)
    BY <1>1, <2>2 DEF InScope
  <2>5. Repeats(c, d, t - 1)
    <3>1. \A s \in 1 .. t - 1 : s \in 1 .. t
      BY <1>1
    <3> QED BY <1>2, <2>3, <2>4, <3>1 DEF Repeats, AsItCame
  <2>6. /\ d[t - 1].reply = c[t - 1].reply
        /\ d[t - 1].calls = 0
        /\ d[t - 1].key = c[t - 1].key
    BY <2>1, <2>5 DEF Agree
  <2>7. AsItCame(d[t - 1])
    BY <2>3, <2>6 DEF AsItCame, Accepted
  <2> QED BY <1>2, <1>4, <2>3, <2>6, <2>7 DEF Chained
<1> QED BY <1>3, <1>4 DEF t

\* What a response is made of.
LEMMA ResponseType ==
  ASSUME JobsOK, Pending, NEW reply \in Good \cup {"degraded"}, calls' \in Nat
  PROVE  /\ Response(reply) \in ResponseRecord
         /\ Response(reply).content = Content
         /\ Response(reply).key = key
         /\ Response(reply).reply = reply
         /\ Response(reply).calls = calls'
  BY DEF JobsOK, Pending, Response, ResponseRecord, Content

\* Where the response to a request that repeats an earlier one comes from: the
\* request's key is in memory with the earlier reply, so it was found there.
LEMMA ReturnRepeats ==
  ASSUME JobsOK, HistoryInv, StoredInv, CacheInv, AllComplete, Pending,
         NEW i \in DOMAIN earlier, Agree(earlier[i], conversation),
         Turn \in DOMAIN earlier[i],
         \A s \in 1 .. Len(conversation) : earlier[i][s].content = conversation[s].content,
         earlier[i][Turn].content = Content, Accepted(earlier[i][Turn]),
         \A s \in 1 .. Turn : InScope(s, Turn) => AsItCame(earlier[i][s])
  PROVE  /\ stage = "accepting" /\ calls = 0
         /\ raw = earlier[i][Turn].reply
         /\ key = earlier[i][Turn].key
<1>1. earlier[i] \in Seq(ResponseRecord) /\ Chain(earlier[i])
  BY ElementOfSeq DEF JobsOK, HistoryInv
<1>2. key = earlier[i][Turn].key
  BY <1>1, RepeatedKey DEF JobsOK, HistoryInv, Turn
<1> DEFINE entry == [key |-> key, value |-> earlier[i][Turn].reply]
<1>3. entry \in store
  BY <1>2 DEF StoredInv, Kept
<1>4. entry.key = key /\ entry.value = earlier[i][Turn].reply
  OBVIOUS
<1> HIDE DEF entry
<1>5. stage = "accepting" /\ Found
  BY <1>3, <1>4 DEF CacheInv, Pending, Repairing
<1>6. Entry \in store /\ Entry.key = key /\ Entry.value = raw
  BY <1>5 DEF StoredInv, Entry
<1>7. Entry = entry
  BY <1>3, <1>4, <1>6 DEF CacheInv, OneFrozenReply
<1> QED BY <1>2, <1>4, <1>5, <1>6, <1>7 DEF Found

ReplayInv == JobsOK /\ HistoryInv /\ StoredInv /\ AgreeInv

\* A response that is returned keeps the invariant: if it was accepted it is in
\* memory, and if it was accepted as it first came, the history ends with it.
LEMMA ReturnKeeps ==
  ASSUME ReplayInv, CacheInv, Pending, UNCHANGED scope,
         NEW reply \in Good \cup {"degraded"}, Return(reply),
         calls' \in Nat, history' \in Messages, store' \subseteq store \cup {Entry},
         stage = "accepting" /\ Found => reply = raw /\ calls' = calls,
         AllComplete => ~ torn' /\ file' = store' /\ store \subseteq store',
         reply # "degraded" => /\ [key |-> key, value |-> reply] \in store'
                               /\ calls' <= 1 => history' = Append(key[2], Assistant(reply))
  PROVE  ReplayInv'
<1> USE DEF ReplayInv
<1>0. PICK r \in ResponseRecord : r = Response(reply)
  BY ResponseType
<1>1. /\ r \in ResponseRecord /\ r.content = Content /\ r.key = key /\ r.reply = reply
      /\ r.calls = calls'
  BY <1>0, ResponseType
<1>2. /\ stage' = "idle" /\ conversation' = Append(conversation, r)
      /\ UNCHANGED <<key, round, earlier>>
  BY <1>0 DEF Return
<1>3. /\ conversation' \in Seq(ResponseRecord)
      /\ Len(conversation) \in Nat /\ Len(conversation') = Turn
      /\ DOMAIN conversation = 1 .. Len(conversation) /\ DOMAIN conversation' = 1 .. Turn
      /\ \A s \in 1 .. Len(conversation) : conversation'[s] = conversation[s]
      /\ conversation'[Turn] = r
  BY <1>1, <1>2, Appended DEF JobsOK, Turn
<1>4. JobsOK'
  BY <1>2, <1>3 DEF JobsOK, Pending, Repairing
<1>5. Chain(conversation')
  BY <1>1, <1>2, ChainAppended DEF JobsOK, HistoryInv, Turn
<1>6. HistoryInv'
  <2>1. Chain(conversation)' /\ \A j \in DOMAIN earlier' : Chain(earlier[j])'
    BY <1>2, <1>5, ScopeStays DEF HistoryInv
  <2>2. conversation' # << >>
    BY <1>3 DEF Turn
  <2>3. /\ round' = Script[Len(conversation')]
        /\ conversation'[Len(conversation')] = r
    BY <1>2, <1>3 DEF JobsOK
  <2>4. AsItCame(r)' => history' = Append(r.key[2], Assistant(r.reply))
    BY <1>1 DEF AsItCame, Accepted
  <2>5. (AsItCame(conversation[Len(conversation)]))'
           => history' = Append(conversation'[Len(conversation')].key[2],
                                Assistant(conversation'[Len(conversation')].reply))
    BY <2>3, <2>4 DEF AsItCame, Accepted
  <2> QED BY <1>2, <2>1, <2>2, <2>3, <2>5 DEF HistoryInv, Pending, Repairing, Assistant
<1>7. AllComplete' <=> AllComplete
  BY <1>2 DEF AllComplete
<1>8. StoredInv'
  <2>0. \A entry \in store' : entry = [key |-> entry.key, value |-> entry.value]
    BY DEF StoredInv, Entry
  <2>1. CASE ~ AllComplete
    BY <1>2, <1>7, <2>0, <2>1 DEF StoredInv
  <2>2. CASE AllComplete
    <3> DEFINE Stays(x) == x.reply # "degraded" => [key |-> x.key, value |-> x.reply] \in store'
    <3>1. \A x : Kept(x) => Stays(x)
      BY <2>2 DEF Kept, Accepted
    <3>2. Stays(r)
      BY <1>1
    <3>3. \A t \in DOMAIN conversation : Stays(conversation[t])
      BY <2>2, <3>1 DEF StoredInv
    <3>4. \A j \in DOMAIN earlier' : \A t \in DOMAIN earlier'[j] : Stays(earlier'[j][t])
      BY <1>2, <2>2, <3>1 DEF StoredInv
    <3> HIDE DEF Stays
    <3>5. ASSUME NEW t \in DOMAIN conversation' PROVE Stays(conversation'[t])
      <4>1. CASE t = Turn
        BY <1>3, <3>2, <4>1
      <4>2. CASE t # Turn
        <5>1. t \in DOMAIN conversation /\ conversation'[t] = conversation[t]
          BY <1>3, <4>2 DEF Turn
        <5> QED BY <3>3, <5>1
      <4> QED BY <4>1, <4>2
    <3>6. \A t \in DOMAIN conversation' : Kept(conversation[t])'
      BY <3>5 DEF Stays, Kept, Accepted
    <3>7. \A j \in DOMAIN earlier' : \A t \in DOMAIN earlier'[j] : Kept(earlier[j][t])'
      BY <3>4 DEF Stays, Kept, Accepted
    <3> QED BY <1>2, <2>0, <2>2, <3>6, <3>7 DEF StoredInv
  <2> QED BY <2>1, <2>2
<1>9. AgreeInv'
  <2> SUFFICES ASSUME AllComplete PROVE AgreeInv'
    BY <1>7 DEF AgreeInv
  <2>1. ASSUME NEW i \in DOMAIN earlier PROVE Agree(earlier[i], conversation')
    <3> DEFINE c == earlier[i]
    <3>1. c \in Seq(ResponseRecord) /\ Agree(c, conversation)
      BY ElementOfSeq DEF JobsOK, AgreeInv
    <3>2. ASSUME Turn \in DOMAIN c, Repeats(c, conversation', Turn)
          PROVE  r.reply = c[Turn].reply /\ r.calls = 0 /\ r.key = c[Turn].key
      <4>1. \A s \in 1 .. Len(conversation) : c[s].content = conversation[s].content
        BY <1>3, <3>2 DEF Repeats, Turn
      <4>2. c[Turn].content = Content
        BY <1>1, <1>3, <3>2 DEF Repeats, Turn
      <4>3. Accepted(c[Turn]) /\ \A s \in 1 .. Turn : InScope(s, Turn) => AsItCame(c[s])
        BY <3>2 DEF Repeats
      <4>4. /\ stage = "accepting" /\ calls = 0
            /\ raw = c[Turn].reply
            /\ key = c[Turn].key
        BY <3>1, <3>2, <4>1, <4>2, <4>3, ReturnRepeats
      <4> QED BY <1>1, <4>4 DEF Found
    <3> HIDE DEF c
    <3>3. Agree(c, Append(conversation, r))
      BY <1>1, <1>2, <3>1, <3>2, AgreeAppended DEF JobsOK, Turn
    <3> QED BY <1>2, <3>3 DEF c
  <2> QED BY <1>2, <2>1, ScopeStays DEF AgreeInv
<1> QED BY <1>4, <1>6, <1>8, <1>9

\* What is said is a message, and an exchange adds two.
LEMMA Said ==
  /\ \A content \in Contents \cup {"reformat", "reground"} : User(content) \in Message
  /\ \A answer \in Answers : Assistant(answer) \in Message
  /\ \A s \in Messages, x, y \in Message :
       s \o <<x, y>> = Append(Append(s, x), y) /\ s \o <<x, y>> \in Messages
  /\ \A s \in Messages, x \in Message : s \o <<x>> = Append(s, x)
<1>1. ASSUME NEW s \in Messages, NEW x \in Message, NEW y \in Message
      PROVE  /\ s \o <<x, y>> = Append(Append(s, x), y)
             /\ s \o <<x, y>> \in Messages
             /\ s \o <<x>> = Append(s, x)
  BY DEF Messages
<1> QED BY <1>1 DEF User, Assistant, Message

\* A request remembers what the turn before left, if it is in its scope.
LEMMA RequestChains ==
  ASSUME ReplayInv, NEW content \in Contents, Request(content)
  PROVE  /\ Remembered \in Messages
         /\ key' \in Nat \X Messages /\ key'[2] = Append(Remembered, User(content))
         /\ Content' = content
         /\ Chained(conversation, Turn, key', content)
<1> USE DEF ReplayInv
<1>1. /\ stage = "idle" /\ key' = <<Turn, Append(Remembered, User(content))>>
      /\ Turn <= Len(Script)
  BY DEF Request
<1>2. << >> \in Messages /\ Remembered \in Messages
  BY DEF Remembered, JobsOK, Messages
<1>3. Len(conversation) \in Nat /\ DOMAIN conversation = 1 .. Len(conversation)
  BY LenProperties DEF JobsOK
<1>4. conversation = << >> <=> Turn = 1
  BY <1>3 DEF Turn, JobsOK
<1>5. Turn \in Nat \ {0} /\ Turn - 1 = Len(conversation)
  BY <1>3 DEF Turn
<1>6. Opens(Turn) => Remembered = << >>
  BY <1>1, <1>4, <1>5 DEF Opens, Remembered, HistoryInv
<1>7. ASSUME ~ Opens(Turn), AsItCame(conversation[Turn - 1])
      PROVE  Remembered = Append(conversation[Turn - 1].key[2],
                                 Assistant(conversation[Turn - 1].reply))
  <2>1. /\ Turn # 1 /\ round = Script[Turn - 1]
        /\ history = Append(conversation[Turn - 1].key[2],
                            Assistant(conversation[Turn - 1].reply))
    BY <1>1, <1>4, <1>5, <1>7 DEF Opens, HistoryInv
  <2>2. Remembered = history
    BY <1>7, <2>1 DEF Opens, Remembered
  <2> QED BY <2>1, <2>2
<1>8. Append(<< >>, User(content)) = <<User(content)>>
  OBVIOUS
<1>9. Chained(conversation, Turn, key', content)
  BY <1>1, <1>6, <1>7, <1>8 DEF Chained
<1>10. User(content) \in Message
  BY Said
<1>11. /\ Append(Remembered, User(content)) \in Messages
       /\ Last(Append(Remembered, User(content))) = User(content)
  BY <1>2, <1>10, Appended DEF Messages
<1>12. key'[2] = Append(Remembered, User(content)) /\ key' \in Nat \X Messages
  BY <1>1, <1>5, <1>11
<1>13. Content' = content
  BY <1>11, <1>12 DEF Content, User
<1> QED BY <1>2, <1>9, <1>12, <1>13

\* A step that returns nothing keeps the invariant if what it makes of the
\* request at hand is right.
LEMMA PendingKeeps ==
  ASSUME ReplayInv, UNCHANGED <<scope, cache, record>>, stage # "raised",
         JobsOK', stage' \in {"calling", "accepting"} \cup Repairing,
         Chained(conversation, Turn, key', Content'),
         stage' = "calling" => calls' = 0 /\ key'[2] = Append(history', User(Content')),
         stage' = "accepting" /\ calls' <= 1 => history' = Append(key'[2], Assistant(raw')),
         stage' = "accepting" /\ calls' = 0 => Entry' \in store
  PROVE  ReplayInv'
<1> USE DEF ReplayInv, cache, record
<1>1. Turn' = Turn /\ (AllComplete' <=> AllComplete)
  BY DEF Turn, AllComplete
<1>2. Chain(conversation)' /\ \A j \in DOMAIN earlier' : Chain(earlier[j])'
  BY ScopeStays DEF HistoryInv
<1>3. Chained(conversation, Turn, key, Content)'
  BY <1>1, ScopeStays
<1>4. HistoryInv'
  BY <1>2, <1>3 DEF HistoryInv, Repairing, User, Assistant
<1>5. AgreeInv'
  BY <1>1, ScopeStays DEF AgreeInv
<1>6. StoredInv'
  BY <1>1 DEF StoredInv, Kept, Accepted, Found
<1> QED BY <1>4, <1>5, <1>6

\* Every step keeps the invariant.
LEMMA NextReplay ==
  ASSUME CacheInv, ReplayInv, [EnvAgentsNext]_vars
  PROVE  ReplayInv'
<1> USE DEF ReplayInv, agent, cache, record
<1>0. UNCHANGED scope
  BY DEF EnvAgentsNext, vars
<1>1. ASSUME NEW content \in Contents, Hit(content) PROVE ReplayInv'
  <2>1. Request(content) /\ stage = "idle" /\ calls' = 0 /\ round' = Script[Turn]
        /\ Turn <= Len(Script) /\ UNCHANGED <<cache, record>>
    BY <1>1 DEF Hit, Request
  <2>2. PICK entry \in store :
          /\ entry.key = key' /\ raw' = entry.value
          /\ history' = key'[2] \o <<Assistant(entry.value)>>
          /\ stage' = Judged(entry.value)
    BY <1>1 DEF Hit
  <2>3. entry.value \in Good /\ stage' = "accepting"
    BY <2>2, Judgement DEF CacheInv, Answers
  <2>4. /\ key' \in Nat \X Messages /\ Content' = content
        /\ Chained(conversation, Turn, key', content)
    BY <2>1, RequestChains
  <2>5. key'[2] \in Messages /\ Assistant(entry.value) \in Message
    BY <2>3, <2>4, Said DEF Answers
  <2>6. history' = Append(key'[2], Assistant(raw')) /\ history' \in Messages
    BY <2>2, <2>5, Said, Appended DEF Messages
  <2>7. JobsOK'
    BY <1>0, <2>1, <2>3, <2>4, <2>6 DEF JobsOK, Pending, Turn
  <2>8. Entry' \in store
    <3>1. entry = [key |-> entry.key, value |-> entry.value]
      BY DEF StoredInv
    <3> QED BY <2>2, <3>1 DEF Entry
  <2> QED BY <1>0, <2>1, <2>3, <2>4, <2>6, <2>7, <2>8, PendingKeeps
<1>2. ASSUME NEW content \in Contents, Miss(content) PROVE ReplayInv'
  <2>1. Request(content) /\ stage = "idle" /\ calls' = 0 /\ round' = Script[Turn]
        /\ Turn <= Len(Script) /\ UNCHANGED <<cache, record>>
        /\ stage' = "calling" /\ history' = Remembered
    BY <1>2 DEF Miss, Request
  <2>2. /\ Remembered \in Messages
        /\ key' \in Nat \X Messages /\ key'[2] = Append(Remembered, User(content))
        /\ Content' = content
        /\ Chained(conversation, Turn, key', content)
    BY <2>1, RequestChains
  <2>3. JobsOK'
    BY <1>0, <2>1, <2>2 DEF JobsOK, Pending, Turn, Repairing
  <2> QED BY <1>0, <2>1, <2>2, <2>3, PendingKeeps
<1>3. ASSUME NEW message \in Contents \cup {"reformat", "reground"}, NEW answer \in Answers,
             Exchange(message, answer)
      PROVE  /\ history' = Append(Append(history, User(message)), Assistant(answer))
             /\ history' \in Messages
             /\ calls' = calls + 1 /\ calls' \in Nat /\ raw' = answer
  BY <1>3, Said DEF Exchange, JobsOK, CacheInv
<1>4. ASSUME NEW message \in Contents \cup {"reformat", "reground"}, NEW answer \in Answers,
             Exchange(message, answer), Pending, stage' \in {"accepting"} \cup Repairing,
             UNCHANGED <<key, round, cache, record>>,
             calls' <= 1 => stage = "calling" /\ message = Content
      PROVE  ReplayInv'
  <2>1. JobsOK'
    BY <1>0, <1>3, <1>4 DEF JobsOK, Pending, Turn, Content, Repairing
  <2>2. calls' # 0 /\ stage # "raised"
    BY <1>3, <1>4 DEF CacheInv, Pending, Repairing
  <2>3. Chained(conversation, Turn, key', Content')
    BY <1>4 DEF HistoryInv, Content
  <2>4. calls' <= 1 => history' = Append(key'[2], Assistant(raw'))
    BY <1>3, <1>4 DEF HistoryInv, Repairing
  <2> QED BY <1>0, <1>4, <2>1, <2>2, <2>3, <2>4, PendingKeeps DEF Repairing
<1>5. ASSUME Degrade, Pending, calls' \in Nat, history' \in Messages, stage # "accepting"
      PROVE  ReplayInv'
  <2>1. Return("degraded") /\ UNCHANGED cache
    BY <1>5 DEF Degrade
  <2>2. AllComplete => ~ torn' /\ file' = store' /\ store \subseteq store'
    BY <1>5, <2>1 DEF StoredInv, Pending, Repairing
  <2> QED BY <1>0, <1>5, <2>1, <2>2, ReturnKeeps
<1>6. ASSUME NEW answer \in Answers, ModelAnswers(answer) PROVE ReplayInv'
  <2>1. /\ stage = "calling" /\ Pending /\ Exchange(Content, answer)
        /\ stage' = Judged(answer) /\ UNCHANGED <<key, round, cache, record>>
    BY <1>6 DEF ModelAnswers, Continue, Content, Pending
  <2>2. Content \in Contents /\ Judged(answer) \in Repairing \cup {"accepting"}
    BY <2>1, Judgement DEF JobsOK
  <2> QED BY <1>4, <2>1, <2>2
<1>7. ASSUME NEW answer \in Answers, Reformat(answer) PROVE ReplayInv'
  <2>1. /\ stage = "reformatting" /\ Pending /\ Exchange("reformat", answer)
    BY <1>7 DEF Reformat, Pending, Repairing
  <2>2. calls' > 1 /\ calls' \in Nat /\ history' \in Messages
    BY <1>3, <2>1 DEF CacheInv, Repairing, Found
  <2>3. CASE Degrade
    BY <1>5, <2>1, <2>2, <2>3
  <2>4. CASE Continue(Judged(answer))
    <3>1. stage' \in Repairing \cup {"accepting"} /\ UNCHANGED <<key, round, cache, record>>
      BY <2>4, Judgement DEF Continue
    <3> QED BY <1>4, <2>1, <2>2, <3>1
  <2> QED BY <1>7, <2>3, <2>4 DEF Reformat
<1>8. ASSUME NEW answer \in Answers, Reground(answer) PROVE ReplayInv'
  <2>1. /\ stage = "regrounding" /\ Pending /\ Exchange("reground", answer)
    BY <1>8 DEF Reground, Pending, Repairing
  <2>2. calls' > 1 /\ calls' \in Nat /\ history' \in Messages
    BY <1>3, <2>1 DEF CacheInv, Repairing, Found
  <2>3. CASE Degrade
    BY <1>5, <2>1, <2>2, <2>3
  <2>4. CASE Continue("accepting")
    <3>1. stage' = "accepting" /\ UNCHANGED <<key, round, cache, record>>
      BY <2>4 DEF Continue
    <3> QED BY <1>4, <2>1, <2>2, <3>1
  <2> QED BY <1>8, <2>3, <2>4 DEF Reground
<1>9. CASE ModelFails
  <2>1. Pending /\ stage # "accepting" /\ Degrade /\ calls' = calls /\ history' = history
    BY <1>9 DEF ModelFails, Pending, Repairing
  <2> QED BY <1>5, <2>1 DEF JobsOK, CacheInv
<1>10. CASE AcceptFound
  <2>1. /\ stage = "accepting" /\ Pending /\ Found /\ Return(raw)
        /\ UNCHANGED <<raw, calls, history, cache>>
    BY <1>10 DEF AcceptFound, Pending
  <2>2. raw \in Good /\ Entry \in store
    BY <2>1 DEF CacheInv, StoredInv
  <2>3. [key |-> key, value |-> raw] \in store'
    BY <2>1, <2>2 DEF Entry
  <2>4. calls' \in Nat /\ history' \in Messages
    BY <2>1 DEF CacheInv, JobsOK
  <2>5. calls' <= 1 => history' = Append(key[2], Assistant(raw))
    BY <2>1 DEF HistoryInv
  <2>6. AllComplete => ~ torn' /\ file' = store' /\ store \subseteq store'
    BY <2>1 DEF StoredInv
  <2> QED BY <1>0, <2>1, <2>2, <2>3, <2>4, <2>5, <2>6, ReturnKeeps
<1>11. CASE AcceptNew
  <2>1. /\ stage = "accepting" /\ Pending /\ ~ Found /\ Return(raw)
        /\ store' = store \cup {Entry} /\ torn' = FALSE
        /\ file' = IF torn THEN file ELSE file \cup {Entry}
        /\ UNCHANGED <<raw, calls, history>>
    BY <1>11 DEF AcceptNew, Pending
  <2>2. raw \in Good
    BY <2>1 DEF CacheInv
  <2>3. [key |-> key, value |-> raw] \in store'
    BY <2>1 DEF Entry
  <2>4. calls' \in Nat /\ history' \in Messages
    BY <2>1 DEF CacheInv, JobsOK
  <2>5. calls' <= 1 => history' = Append(key[2], Assistant(raw))
    BY <2>1 DEF HistoryInv
  <2>6. AllComplete => ~ torn' /\ file' = store' /\ store \subseteq store'
    BY <2>1 DEF StoredInv
  <2> QED BY <1>0, <2>1, <2>2, <2>3, <2>4, <2>5, <2>6, ReturnKeeps
<1>12. CASE StoreFails
  <2>1. /\ stage = "accepting" /\ stage' = "raised" /\ store' = store \cup {Entry}
        /\ UNCHANGED <<key, raw, calls, history, round, conversation, earlier>>
    BY <1>12 DEF StoreFails
  <2>2. JobsOK'
    BY <1>0, <2>1 DEF JobsOK, Pending, Repairing, Turn
  <2>3. Chain(conversation)' /\ \A j \in DOMAIN earlier' : Chain(earlier[j])'
    BY <1>0, <2>1, ScopeStays DEF HistoryInv
  <2>4. HistoryInv'
    BY <2>1, <2>3 DEF HistoryInv, Pending, Repairing
  <2>5. AllComplete' <=> AllComplete
    BY <2>1 DEF AllComplete
  <2>6. AgreeInv'
    BY <1>0, <2>1, <2>5, ScopeStays DEF AgreeInv
  <2>7. StoredInv'
    BY <2>1, <2>5 DEF StoredInv, Kept, Accepted, Entry
  <2> QED BY <2>2, <2>4, <2>6, <2>7
<1>13. ASSUME NEW restart \in BOOLEAN, NextJob(restart) PROVE ReplayInv'
  <2>1. /\ JobOver /\ stage' = "idle" /\ history' = << >> /\ round' = 0 /\ calls' = 0
        /\ store' = IF restart THEN file ELSE store
        /\ earlier' = Append(earlier, conversation) /\ conversation' = << >>
        /\ file' = file /\ torn' = torn
    BY <1>13 DEF NextJob
  <2>2. /\ earlier' \in Seq(Seq(ResponseRecord)) /\ Len(earlier) \in Nat
        /\ DOMAIN earlier = 1 .. Len(earlier) /\ DOMAIN earlier' = 1 .. Len(earlier) + 1
        /\ \A j \in 1 .. Len(earlier) : earlier'[j] = earlier[j]
        /\ earlier'[Len(earlier) + 1] = conversation
    BY <2>1, Appended DEF JobsOK
  <2> DEFINE n == Len(earlier)
  <2>3. /\ n \in Nat /\ DOMAIN earlier = 1 .. n /\ DOMAIN earlier' = 1 .. n + 1
        /\ \A j \in 1 .. n : earlier'[j] = earlier[j]
        /\ earlier'[n + 1] = conversation
    BY <2>2
  <2> HIDE DEF n
  <2>4. \A j \in DOMAIN earlier' : j = n + 1 \/ j \in DOMAIN earlier
    BY <2>3
  <2>5. << >> \in Seq(ResponseRecord) /\ << >> \in Messages /\ DOMAIN << >> = {}
    BY DEF Messages
  <2>6. JobsOK'
    BY <1>0, <2>1, <2>2, <2>5 DEF JobsOK, Pending, Repairing
  <2>7. \A j \in DOMAIN earlier' : Chain(earlier'[j])
    BY <2>3, <2>4 DEF HistoryInv
  <2>8. HistoryInv'
    <3>1. \A j \in DOMAIN earlier' : Chain(earlier[j])'
      BY <1>0, <2>7, ScopeStays
    <3>2. Chain(conversation)'
      BY <2>1, <2>5 DEF Chain
    <3> QED BY <2>1, <3>1, <3>2 DEF HistoryInv, Pending, Repairing
  <2>9. ASSUME AllComplete'
        PROVE  AllComplete /\ ~ torn /\ file = store
    <3>1. AllComplete
      BY <2>3, <2>9 DEF AllComplete
    <3>2. Len(conversation) = Len(Script)
      BY <2>3, <2>9 DEF AllComplete
    <3>3. Len(Script) \in Nat
      BY EnvAgentsAssumption, LenProperties
    <3>4. stage # "raised"
      BY <3>2, <3>3 DEF JobsOK, Turn
    <3> QED BY <3>1, <3>4 DEF StoredInv
  <2>10. AgreeInv'
    <3> SUFFICES ASSUME AllComplete' PROVE AgreeInv'
      BY DEF AgreeInv
    <3>1. /\ \A i \in DOMAIN earlier : Agree(earlier[i], conversation)
          /\ \A i, j \in DOMAIN earlier : i < j => Agree(earlier[i], earlier[j])
      BY <2>9 DEF AgreeInv
    <3>2. \A c : Agree(c, << >>)
      BY <2>5 DEF Agree
    <3>3. ASSUME NEW i \in DOMAIN earlier', NEW j \in DOMAIN earlier', i < j
          PROVE  Agree(earlier'[i], earlier'[j])
      <4>1. i \in DOMAIN earlier /\ earlier'[i] = earlier[i]
        BY <2>3, <3>3
      <4>2. CASE j = n + 1
        BY <2>3, <3>1, <4>1, <4>2
      <4>3. CASE j # n + 1
        <5>1. j \in DOMAIN earlier /\ earlier'[j] = earlier[j]
          BY <2>3, <2>4, <4>3
        <5> QED BY <3>1, <3>3, <4>1, <5>1
      <4> QED BY <4>2, <4>3
    <3>4. \A i \in DOMAIN earlier' : Agree(earlier'[i], conversation')
      BY <2>1, <3>2
    <3> QED BY <1>0, <3>3, <3>4, ScopeStays DEF AgreeInv
  <2>11. StoredInv'
    <3>1. stage' # "accepting"
      BY <2>1
    <3>2. ASSUME AllComplete'
          PROVE  /\ \A t \in DOMAIN conversation' : Kept(conversation[t])'
                 /\ \A j \in DOMAIN earlier' : \A t \in DOMAIN earlier'[j] : Kept(earlier[j][t])'
                 /\ ~ torn' /\ file' = store'
      <4>1. store' = store /\ file' = store' /\ ~ torn'
        BY <2>1, <2>9, <3>2
      <4>2. \A j \in DOMAIN earlier' : \A t \in DOMAIN earlier'[j] : Kept(earlier'[j][t])
        BY <2>3, <2>4, <2>9, <3>2 DEF StoredInv
      <4>3. \A j \in DOMAIN earlier' : \A t \in DOMAIN earlier'[j] : Kept(earlier[j][t])'
        BY <4>1, <4>2 DEF Kept, Accepted
      <4>4. DOMAIN conversation' = {}
        BY <2>1, <2>5
      <4> QED BY <4>1, <4>3, <4>4
    <3>3. \A entry \in store' : entry = [key |-> entry.key, value |-> entry.value]
      BY <2>1 DEF StoredInv, CacheInv, OneFrozenReply
    <3> QED BY <3>1, <3>2, <3>3 DEF StoredInv
  <2> QED BY <2>6, <2>8, <2>10, <2>11
<1>14. CASE UNCHANGED vars
  <2>1. UNCHANGED <<scope, stage, key, raw, calls, history, round, store, file, torn, conversation,
                    earlier>>
    BY <1>14 DEF vars
  <2>2. /\ Chain(conversation)' /\ \A j \in DOMAIN earlier' : Chain(earlier[j])'
        /\ (Pending' => Chained(conversation, Turn, key, Content)')
    BY <2>1, ScopeStays DEF HistoryInv, Pending, Turn, Content
  <2>3. AllComplete' <=> AllComplete
    BY <2>1 DEF AllComplete
  <2>4. AgreeInv'
    BY <2>1, <2>3, ScopeStays DEF AgreeInv
  <2>5. JobsOK' /\ StoredInv'
    BY <2>1, <2>3 DEF JobsOK, StoredInv, Pending, Turn, Content, Kept, Accepted, Found, Entry
  <2>6. HistoryInv'
    BY <2>1, <2>2 DEF HistoryInv, Content, AsItCame, Accepted, User, Assistant
  <2> QED BY <2>4, <2>5, <2>6
<1> QED
  BY <1>1, <1>2, <1>6, <1>7, <1>8, <1>9, <1>10, <1>11, <1>12, <1>13, <1>14 DEF EnvAgentsNext

\* A batch starts with nothing stored, said or remembered.
LEMMA InitReplay == EnvAgentsInit => ReplayInv
<1> SUFFICES ASSUME EnvAgentsInit PROVE ReplayInv
  OBVIOUS
<1>1. DOMAIN << >> = {} /\ << >> \in Seq(ResponseRecord) /\ << >> \in Seq(Seq(ResponseRecord))
      /\ << >> \in Messages
  BY DEF Messages
<1>2. JobsOK
  BY <1>1, EnvAgentsAssumption DEF EnvAgentsInit, JobsOK, Pending, Repairing
<1>3. HistoryInv /\ StoredInv /\ AgreeInv
  BY <1>1 DEF EnvAgentsInit, HistoryInv, StoredInv, AgreeInv, Chain, Pending, Repairing
<1> QED BY <1>2, <1>3 DEF ReplayInv

\* Jobs that agree replay each other.
LEMMA AgreeingJobsReplay == ReplayInv => ReplaysUntilRepair
<1> SUFFICES ASSUME ReplayInv, AllComplete,
                    NEW i \in DOMAIN Jobs, NEW j \in DOMAIN Jobs, i < j,
                    NEW t \in DOMAIN Jobs[i] \cap DOMAIN Jobs[j],
                    SameRequests(i, j, t), Accepted(Jobs[i][t]),
                    \A s \in 1 .. t : InScope(s, t) =>
                      Accepted(Jobs[i][s]) /\ Jobs[i][s].calls <= 1
             PROVE  Replays(i, j, t)
  BY DEF ReplaysUntilRepair, AllComplete
<1> USE DEF ReplayInv
<1> DEFINE n == Len(earlier)
<1>1. /\ n \in Nat /\ DOMAIN earlier = 1 .. n /\ DOMAIN Jobs = 1 .. n + 1
      /\ \A k \in 1 .. n : Jobs[k] = earlier[k]
      /\ Jobs[n + 1] = conversation
  BY Appended DEF JobsOK, Jobs
<1> HIDE DEF n
<1>2. i \in DOMAIN earlier /\ Jobs[i] = earlier[i]
  BY <1>1
<1>3. Agree(Jobs[i], Jobs[j])
  <2>1. CASE j = n + 1
    BY <1>1, <1>2, <2>1 DEF AgreeInv
  <2>2. CASE j # n + 1
    <3>1. j \in DOMAIN earlier /\ Jobs[j] = earlier[j]
      BY <1>1, <2>2
    <3> QED BY <1>2, <3>1 DEF AgreeInv
  <2> QED BY <2>1, <2>2
<1>4. Repeats(Jobs[i], Jobs[j], t)
  BY DEF Repeats, SameRequests, AsItCame
<1> QED BY <1>3, <1>4 DEF Agree, Replays

\* A job that repeats the requests of an earlier one gets its replies, without
\* a model, up to the first reply its turns remember that was repaired: for
\* any script and any number of jobs and processes, whatever was asked, failed
\* and stored in between, as long as the disk cut no job short.
THEOREM RepeatedJobsReplay == EnvAgentsSpec => []ReplaysUntilRepair
<1>1. EnvAgentsInit => CacheInv /\ ReplayInv
  BY CacheInit, InitReplay
<1>2. (CacheInv /\ ReplayInv) /\ [EnvAgentsNext]_vars => (CacheInv /\ ReplayInv)'
  BY CacheStep, NextReplay
<1>3. ReplayInv => ReplaysUntilRepair
  BY AgreeingJobsReplay
<1> QED BY <1>1, <1>2, <1>3, PTL DEF EnvAgentsSpec

=============================================================================
