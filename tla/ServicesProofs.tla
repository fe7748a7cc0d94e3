--------------------------- MODULE ServicesProofs ---------------------------
(***************************************************************************)
(* What surrounds an episode, proved for all constants: a call of a model  *)
(* client, the collection of market data, the quote solver and the batch   *)
(* commands.  They share no state.                                         *)
(***************************************************************************)
EXTENDS ModelClient, MarketBatch, QuoteSolver, Batch, FiniteSetTheorems,
        SequenceTheorems, TLAPS

-----------------------------------------------------------------------------
(* The model client.                                                       *)

\* What the loop has counted is what happened to it.
ClientInv ==
  /\ ClientTypeOK
  /\ ChatKeepsItsBudgets
  /\ chat = "idle" => lost = 0 /\ cut = 0 /\ calls = 0 /\ net_attempt = 0 /\ trunc_attempt = 0
  /\ chat = "posting" => lost = net_attempt /\ cut = trunc_attempt

\* Every step of the loop keeps its counts.
LEMMA NextClient == ClientInv /\ [ClientNext]_client_vars => ClientInv'
<1> SUFFICES ASSUME ClientInv, [ClientNext]_client_vars PROVE ClientInv'
  OBVIOUS
<1> USE ClientAssumption DEF ClientInv, ClientTypeOK, ChatKeepsItsBudgets, Ends
<1>1. ASSUME NEW budget \in Budgets, Chat(budget) PROVE ClientInv'
  BY <1>1 DEF Chat
<1>2. CASE RequestLost
  BY <1>2 DEF RequestLost
<1>3. CASE RequestRefused
  BY <1>3 DEF RequestRefused
<1>4. CASE Answered
  BY <1>4 DEF Answered
<1>5. CASE AnswerCut
  BY <1>5 DEF AnswerCut
<1>6. CASE UNCHANGED client_vars
  BY <1>6 DEF client_vars
<1> QED BY <1>1, <1>2, <1>3, <1>4, <1>5, <1>6 DEF ClientNext

\* The two kinds of retry never eat into each other, whatever the service
\* does, however many delays and raises there are and wherever the ceiling is.
THEOREM ChatBudgetsKept == ClientSpec => []ChatKeepsItsBudgets
<1>1. ClientInit => ClientInv
  BY ClientAssumption DEF ClientInit, ClientInv, ClientTypeOK, ChatKeepsItsBudgets, Ends
<1>2. ClientInv => ChatKeepsItsBudgets
  BY DEF ClientInv
<1> QED BY <1>1, <1>2, NextClient, PTL DEF ClientSpec

-----------------------------------------------------------------------------
(* The collection of market data.                                          *)

\* No answer on the disk is newer than the last one received; a request that
\* was tried and is not served yet has no complete entry; what this run served
\* or gave up lies behind it, and what it served is on the disk.
CollectInv ==
  /\ CollectTypeOK
  /\ \A s \in Spec : table[s] <= answers /\ metadata[s] <= answers
  /\ activity = "storing" => table[spec] # 0
  /\ activity = "storing" \/ (activity = "fetching" /\ attempt > 0) =>
       spec \in Spec /\ ~ Complete(spec)
  /\ activity \in {"fetching", "storing", "done"} =>
       \A s \in Spec : s < spec => s \in skipped \/ (Complete(s) /\ served[s] = table[s])
  /\ activity = "done" => spec > Specs /\ manifest = <<table, metadata>>

\* Each request of an empty cache has no answer.
LEMMA NothingHeld == Nothing \in [Spec -> Nat] /\ \A s \in Spec : Nothing[s] = 0
  BY DEF Nothing

\* Every step keeps the types.
LEMMA NextCollectTypeOK == CollectInv /\ [CollectNext]_collection => CollectTypeOK'
<1> SUFFICES ASSUME CollectInv, [CollectNext]_collection PROVE CollectTypeOK'
  OBVIOUS
<1>0. activity = "storing" => spec <= Specs
  BY DEF CollectInv, Spec
<1>a. CollectTypeOK
  BY DEF CollectInv
<1> USE CollectAssumption, NothingHeld, <1>a
    DEF CollectTypeOK, CollectNext, StartCollecting, ServeCached, Serve, StoreTable,
        StoreMetadata, FetchFails, RateLimited, WriteManifest, KillCollector,
        MustAsk, Fetching, collection, files, fetch
<1>1. activity' \in {"off", "fetching", "storing", "closing", "done", "ended"}
  OBVIOUS
<1>2. spec' \in 1 .. Specs + 1
  BY <1>0
<1>3. attempt' \in 0 .. Retries
  OBVIOUS
<1>4. stopped' \in BOOLEAN
  OBVIOUS
<1>5. answers' \in Nat
  OBVIOUS
<1>6. table' \in [Spec -> Nat]
  OBVIOUS
<1>7. metadata' \in [Spec -> Nat]
  OBVIOUS
<1>8. served' \in [Spec -> Nat]
  OBVIOUS
<1>9. skipped' \subseteq Optional
  OBVIOUS
<1> QED BY <1>1, <1>2, <1>3, <1>4, <1>5, <1>6, <1>7, <1>8, <1>9 DEF CollectTypeOK

\* Every step of the collection keeps that.
LEMMA NextCollect == CollectInv /\ [CollectNext]_collection => CollectInv'
<1> SUFFICES ASSUME CollectInv, [CollectNext]_collection PROVE CollectInv'
  OBVIOUS
<1>0. Spec = 1 .. Specs
  BY DEF Spec
<1>t. CollectTypeOK /\ CollectTypeOK'
  BY NextCollectTypeOK DEF CollectInv
<1>i. /\ spec \in Nat /\ attempt \in Nat /\ answers \in Nat
      /\ table \in [Spec -> Nat] /\ metadata \in [Spec -> Nat] /\ served \in [Spec -> Nat]
  BY <1>t, CollectAssumption DEF CollectTypeOK
<1> USE CollectAssumption, <1>0, <1>t, <1>i DEF CollectInv, Complete
<1>1. CASE StartCollecting
  BY <1>1 DEF StartCollecting, files
<1>2. CASE ServeCached
  <2>1. spec \in Spec /\ Complete(spec) /\ activity = "fetching"
    BY <1>2 DEF ServeCached, Fetching, CollectTypeOK
  <2>2. spec' = spec + 1 /\ attempt' = 0 /\ served' = [served EXCEPT ![spec] = table[spec]]
    BY <1>2 DEF ServeCached, Serve
  <2>3. UNCHANGED <<activity, answers, table, metadata, manifest, skipped>>
    BY <1>2 DEF ServeCached, files
  <2>4. served'[spec] = table[spec] /\ \A s \in Spec : s # spec => served'[s] = served[s]
    BY <2>1, <2>2
  <2> QED BY <2>1, <2>2, <2>3, <2>4
<1>3. CASE StoreTable
  <2>1. spec \in Spec /\ activity = "fetching"
    BY <1>3 DEF StoreTable, MustAsk, Fetching, CollectTypeOK
  <2>2. answers' = answers + 1 /\ table' = [table EXCEPT ![spec] = answers + 1]
    BY <1>3 DEF StoreTable
  <2>3. activity' = "storing" /\ UNCHANGED <<metadata, manifest, spec, attempt, served, skipped>>
    BY <1>3 DEF StoreTable, fetch
  <2>4. table'[spec] = answers + 1 /\ \A s \in Spec : s # spec => table'[s] = table[s]
    BY <2>1, <2>2
  <2> QED BY <2>1, <2>2, <2>3, <2>4
<1>4. CASE StoreMetadata
  <2>1. activity = "storing" /\ activity' = "fetching"
    BY <1>4 DEF StoreMetadata
  <2>2. metadata' = [metadata EXCEPT ![spec] = table[spec]]
    BY <1>4 DEF StoreMetadata
  <2>3. spec' = spec + 1 /\ attempt' = 0 /\ served' = [served EXCEPT ![spec] = table[spec]]
    BY <1>4 DEF StoreMetadata, Serve
  <2>4. UNCHANGED <<answers, table, manifest, skipped>>
    BY <1>4 DEF StoreMetadata
  <2>5. spec \in Spec
    BY <2>1
  <2>6. /\ metadata'[spec] = table[spec] /\ served'[spec] = table[spec]
        /\ \A s \in Spec : s # spec => metadata'[s] = metadata[s] /\ served'[s] = served[s]
    BY <2>2, <2>3, <2>5
  <2>7. table[spec] \in Nat \ {0} /\ table[spec] <= answers
    BY <2>1, <2>5
  <2>8. CollectInv!2'
    BY <2>4, <2>6, <2>7
  <2>9. CollectInv!5'
    BY <2>1, <2>3, <2>4, <2>5, <2>6, <2>7
  <2> QED BY <2>1, <2>3, <2>8, <2>9
<1>5. CASE FetchFails
  <2>1. spec \in Spec /\ activity \in {"fetching", "storing"}
    BY <1>5 DEF FetchFails, MustAsk, Fetching, CollectTypeOK
  <2>2. ~ Complete(spec)
    BY <1>5, <2>1 DEF FetchFails, MustAsk, Fetching
  <2>3. UNCHANGED <<answers, table, metadata, manifest, served>>
    BY <1>5 DEF FetchFails, files
  <2>4. \/ activity' = "fetching" /\ UNCHANGED <<spec, skipped>>
        \/ /\ activity' = "fetching" /\ attempt' = 0
           /\ spec' = spec + 1 /\ skipped' = skipped \cup {spec}
        \/ activity' = "closing"
    BY <1>5 DEF FetchFails
  <2> QED BY <2>1, <2>2, <2>3, <2>4
<1>6. CASE RateLimited
  BY <1>6 DEF RateLimited, files
<1>7. CASE WriteManifest
  <2>1. UNCHANGED <<answers, table, metadata, spec, attempt, served, skipped>>
    BY <1>7 DEF WriteManifest, fetch
  <2>2. manifest' = <<table, metadata>>
    BY <1>7 DEF WriteManifest
  <2>3. \/ activity' = "ended"
        \/ activity' = "done" /\ activity = "fetching" /\ spec > Specs
    BY <1>7 DEF WriteManifest
  <2> QED BY <2>1, <2>2, <2>3
<1>8. CASE KillCollector
  BY <1>8 DEF KillCollector, files
<1>9. CASE UNCHANGED collection
  BY <1>9 DEF collection, files, fetch
<1> QED BY <1>1, <1>2, <1>3, <1>4, <1>5, <1>6, <1>7, <1>8, <1>9 DEF CollectNext

\* The collection starts that way and stays so.
LEMMA CollectInvariant == CollectSpec => []CollectInv
<1>1. CollectInit => CollectInv
  <2> SUFFICES ASSUME CollectInit PROVE CollectInv
    OBVIOUS
  <2>1. CollectTypeOK
    <3> USE CollectAssumption, NothingHeld DEF CollectInit
    <3>1. spec \in 1 .. Specs + 1 /\ attempt \in 0 .. Retries /\ answers \in Nat
      OBVIOUS
    <3>2. table \in [Spec -> Nat] /\ metadata \in [Spec -> Nat] /\ served \in [Spec -> Nat]
      OBVIOUS
    <3>3. stopped \in BOOLEAN /\ skipped \subseteq Optional
      OBVIOUS
    <3> QED BY <3>1, <3>2, <3>3 DEF CollectTypeOK
  <2>2. activity = "off" /\ answers = 0 /\ \A s \in Spec : table[s] = 0 /\ metadata[s] = 0
    BY NothingHeld DEF CollectInit
  <2> QED BY <2>1, <2>2 DEF CollectInv
<1> QED BY <1>1, NextCollect, PTL DEF CollectSpec

\* Only a request without a complete entry is asked for, and its table is
\* replaced by one the old metadata cannot describe.
LEMMA CompletedUntouched ==
  ASSUME CollectInv, [CollectNext]_collection, NEW s \in Spec, Complete(s)
  PROVE  table'[s] = table[s] /\ metadata'[s] = metadata[s]
<1> USE CollectAssumption DEF CollectInv, CollectTypeOK, Complete, Spec
<1>1. CASE StoreTable
  BY <1>1 DEF StoreTable, MustAsk, Fetching
<1>2. CASE StoreMetadata
  BY <1>2 DEF StoreMetadata
<1>3. CASE UNCHANGED <<table, metadata>>
  BY <1>3
<1> QED
  BY <1>1, <1>2, <1>3 DEF CollectNext, StartCollecting, ServeCached, FetchFails,
     RateLimited, WriteManifest, KillCollector, collection, files

\* Completed entries outlive every failure, rate limit, kill and rerun, for a
\* plan of any length and any number of retries.
THEOREM CompletedWorkIsKept == CollectSpec => CompletedEntriesStay
<1>1. CollectInv /\ [CollectNext]_collection
        => [ \A s \in Spec : Complete(s) => table'[s] = table[s] /\ metadata'[s] = metadata[s] ]_collection
  BY CompletedUntouched
<1> QED BY <1>1, CollectInvariant, PTL DEF CollectSpec, CompletedEntriesStay

\* A run that got through has the whole plan on the disk, as it returned it
\* and as its manifest lists it.
THEOREM FinishedRunsAreOnDisk == CollectSpec => []FinishedRunIsOnDisk
<1>1. CollectInv => FinishedRunIsOnDisk
  BY CollectAssumption DEF CollectInv, CollectTypeOK, FinishedRunIsOnDisk, Spec
<1> QED BY <1>1, CollectInvariant, PTL

-----------------------------------------------------------------------------
(* The quote solver.                                                       *)

\* No quote counts as converged before there was one, and the market is only
\* replaced before the first.
SolverInv ==
  /\ quotes_left \in 0 .. Quotes
  /\ solving # "idle" => quotes_left < Quotes
  /\ quotes_left = Quotes => ~ outcome.converged
  /\ ConvergedIsFixedPoint

\* A converged quote is set by the last step of the refinement alone.
LEMMA NextSolver == SolverInv /\ [SolverNext]_solver => SolverInv'
<1> SUFFICES ASSUME SolverInv, [SolverNext]_solver PROVE SolverInv'
  OBVIOUS
<1> USE SolverAssumption DEF SolverInv, ConvergedIsFixedPoint, Probability, Asked
<1>1. CASE Quoted
  BY <1>1 DEF Quoted
<1>2. CASE QuotedAgain
  BY <1>2 DEF QuotedAgain
<1>3. CASE Bracket
  BY <1>3 DEF Bracket
<1>4. CASE Halve
  BY <1>4 DEF Halve
<1>5. CASE Refine
  <2>1. market' = market /\ quotes_left' = quotes_left /\ solving = "refining"
    BY <1>5 DEF Refine
  <2>2. CASE outcome' = outcome
    BY <2>1, <2>2
  <2>3. CASE outcome' # outcome
    <3> DEFINE price == market.asked[market.probability[anchor]]
    <3>1. PICK b \in BOOLEAN :
            outcome' = [ price |-> price, probability |-> market.probability[price],
                         converged |-> Reproduces(anchor, price) /\ b ]
      BY <1>5, <2>3 DEF Refine
    <3>2. outcome'.converged => Reproduces(anchor, price)
      BY <3>1
    <3> QED BY <2>1, <3>1, <3>2 DEF Reproduces
  <2> QED BY <2>2, <2>3
<1>6. CASE UNCHANGED solver
  BY <1>6 DEF solver
<1> QED BY <1>1, <1>2, <1>3, <1>4, <1>5, <1>6 DEF SolverNext

\* What is reported as converged is a fixed point, in every market of every
\* size and whatever the tolerance and the numbers of iterations.
THEOREM ConvergedQuotesAreFixed == SolverSpec => []ConvergedIsFixedPoint
<1>1. SolverInit => SolverInv
  BY SolverAssumption DEF SolverInit, SolverInv, ConvergedIsFixedPoint, NoQuote
<1>2. SolverInv => ConvergedIsFixedPoint
  BY DEF SolverInv
<1> QED BY <1>1, <1>2, NextSolver, PTL DEF SolverSpec

-----------------------------------------------------------------------------
(* Its cache.                                                              *)

\* r is s with its j-th element taken out and x put at the end.
Moved(s, r, j, x) ==
  /\ Len(r) = Len(s) /\ r[Len(s)] = x
  /\ \A k \in 1 .. Len(s) - 1 : r[k] = IF k < j THEN s[k] ELSE s[k + 1]

\* r is s with x put at the end.
Extended(s, r, x) ==
  /\ Len(r) = Len(s) + 1 /\ r[Len(s) + 1] = x
  /\ \A k \in 1 .. Len(s) : r[k] = s[k]

\* What a sequence ends with, from a place on.
LEMMA Ending ==
  ASSUME NEW S, NEW s \in Seq(S), NEW a \in Nat \ {0}, NEW b \in Nat, b = Len(s), a <= b + 1
  PROVE  /\ SubSeq(s, a, b) \in Seq(S) /\ Len(SubSeq(s, a, b)) = (b - a) + 1
         /\ \A i \in 1 .. (b - a) + 1 : SubSeq(s, a, b)[i] = s[(a - 1) + i]
<1>1. \A i \in a .. b : s[i] \in S
  BY LenProperties
<1>2. /\ SubSeq(s, a, b) \in Seq(S)
      /\ Len(SubSeq(s, a, b)) = IF a <= b THEN b - a + 1 ELSE 0
      /\ \A i \in 1 .. b - a + 1 : SubSeq(s, a, b)[i] = s[a + i - 1]
  BY <1>1, SubSeqProperties
<1> DEFINE r == SubSeq(s, a, b)
<1>3. /\ r \in Seq(S)
      /\ Len(r) = IF a <= b THEN b - a + 1 ELSE 0
      /\ \A i \in 1 .. b - a + 1 : r[i] = s[a + i - 1]
  BY <1>2
<1> HIDE DEF r
<1>4. Len(r) = (b - a) + 1
  BY <1>3
<1>5. ASSUME NEW i \in 1 .. (b - a) + 1 PROVE r[i] = s[(a - 1) + i]
  <2>1. a + i - 1 = (a - 1) + i
    OBVIOUS
  <2> QED BY <1>3, <2>1
<1> QED BY <1>3, <1>4, <1>5 DEF r

\* Taking an element out of a sequence and putting one at its end.
LEMMA TakenOut ==
  ASSUME NEW S, NEW s \in Seq(S), NEW j \in 1 .. Len(s), NEW x \in S
  PROVE  /\ Append(RemoveAt(s, j), x) \in Seq(S)
         /\ Moved(s, Append(RemoveAt(s, j), x), j, x)
<1> DEFINE a == SubSeq(s, 1, j - 1)
           b == SubSeq(s, j + 1, Len(s))
           r == a \o b
           n == Len(s)
<1>1. n \in Nat /\ \A k \in 1 .. n : s[k] \in S
  BY LenProperties
<1>2. j \in 1 .. n
  OBVIOUS
<1> HIDE DEF n
<1>3. a \in Seq(S) /\ Len(a) = j - 1 /\ \A k \in 1 .. j - 1 : a[k] = s[k]
  <2>1. \A k \in 1 .. j - 1 : s[k] \in S
    BY <1>1, <1>2
  <2>2. /\ SubSeq(s, 1, j - 1) \in Seq(S)
        /\ Len(SubSeq(s, 1, j - 1)) = IF 1 <= j - 1 THEN (j - 1) - 1 + 1 ELSE 0
        /\ \A k \in 1 .. (j - 1) - 1 + 1 : SubSeq(s, 1, j - 1)[k] = s[1 + k - 1]
    BY <1>2, <2>1, SubSeqProperties
  <2> QED BY <1>1, <1>2, <2>2
<1>4. b \in Seq(S) /\ Len(b) = n - j /\ \A k \in 1 .. n - j : b[k] = s[j + k]
  <2>1. \A k \in j + 1 .. n : s[k] \in S
    BY <1>1, <1>2
  <2>2. /\ SubSeq(s, j + 1, n) \in Seq(S)
        /\ Len(SubSeq(s, j + 1, n)) = IF j + 1 <= n THEN n - (j + 1) + 1 ELSE 0
        /\ \A k \in 1 .. n - (j + 1) + 1 : SubSeq(s, j + 1, n)[k] = s[(j + 1) + k - 1]
    BY <1>1, <1>2, <2>1, SubSeqProperties
  <2> QED BY <1>1, <1>2, <2>2 DEF n
<1> HIDE DEF a, b
<1>5. r \in Seq(S) /\ Len(r) = n - 1
  <2>1. a \in Seq(S) /\ b \in Seq(S)
    BY <1>3, <1>4
  <2>2. r \in Seq(S) /\ Len(r) = Len(a) + Len(b)
    BY <2>1, ConcatProperties
  <2>3. Len(a) + Len(b) = n - 1
    BY <1>1, <1>2, <1>3, <1>4
  <2> QED BY <2>2, <2>3
<1>6. \A k \in 1 .. n - 1 : r[k] = IF k < j THEN s[k] ELSE s[k + 1]
  <2> SUFFICES ASSUME NEW k \in 1 .. n - 1
               PROVE  r[k] = IF k < j THEN s[k] ELSE s[k + 1]
    OBVIOUS
  <2>1. r[k] = IF k <= Len(a) THEN a[k] ELSE b[k - Len(a)]
    BY <1>1, <1>2, <1>3, <1>4, ConcatProperties
  <2>2. CASE k < j
    BY <1>1, <1>2, <1>3, <2>1, <2>2
  <2>3. CASE k >= j
    <3>1. k - (j - 1) \in 1 .. n - j /\ j + (k - (j - 1)) = k + 1
      BY <1>1, <1>2, <2>3
    <3> QED BY <1>1, <1>2, <1>3, <1>4, <2>1, <2>3, <3>1
  <2>4. k < j \/ k >= j
    BY <1>1, <1>2
  <2> QED BY <2>2, <2>3, <2>4
<1>7. RemoveAt(s, j) = r
  BY DEF RemoveAt, a, b, n
<1> HIDE DEF r
<1>8. /\ Append(r, x) \in Seq(S) /\ Len(Append(r, x)) = n
      /\ Append(r, x)[n] = x /\ \A k \in 1 .. n - 1 : Append(r, x)[k] = r[k]
  BY <1>1, <1>2, <1>5, AppendProperties
<1> QED BY <1>6, <1>7, <1>8 DEF Moved, n

\* A price used is last in the history, the others in the order they were.
LEMMA UsedFacts ==
  ASSUME NEW u \in Seq(Price), NEW price \in Price
  PROVE  /\ Used(u, price) \in Seq(Price)
         /\ \/ /\ \A i \in 1 .. Len(u) : u[i] # price
               /\ Extended(u, Used(u, price), price)
            \/ \E j \in 1 .. Len(u) : u[j] = price /\ Moved(u, Used(u, price), j, price)
<1> DEFINE before == { i \in DOMAIN u : u[i] = price }
           j == CHOOSE i \in before : TRUE
<1>1. DOMAIN u = 1 .. Len(u) /\ Len(u) \in Nat
  BY LenProperties
<1>2. CASE before = {}
  <2>1. Used(u, price) = Append(u, price)
    BY <1>2 DEF Used
  <2>2. Append(u, price) \in Seq(Price) /\ Extended(u, Append(u, price), price)
    BY AppendProperties DEF Extended
  <2>3. \A i \in 1 .. Len(u) : u[i] # price
    BY <1>1, <1>2
  <2> QED BY <2>1, <2>2, <2>3
<1>3. CASE before # {}
  <2>1. Used(u, price) = Append(RemoveAt(u, j), price)
    BY <1>3 DEF Used
  <2>2. j \in before
    BY <1>3
  <2>3. j \in 1 .. Len(u) /\ u[j] = price
    BY <1>1, <2>2
  <2> HIDE DEF j
  <2> QED BY <2>1, <2>3, TakenOut
<1> QED BY <1>2, <1>3

\* No element comes twice.
Distinct(s) == \A i, k \in 1 .. Len(s) : s[i] = s[k] => i = k

\* No price comes twice in the history.
LEMMA UsedOnce ==
  ASSUME NEW u \in Seq(Price), Distinct(u), NEW price \in Price
  PROVE  Distinct(Used(u, price))
<1> DEFINE v == Used(u, price)
           n == Len(u)
<1>1. n \in Nat
  BY LenProperties
<1>2. \A i, k \in 1 .. n : u[i] = u[k] => i = k
  BY DEF Distinct
<1>3. \/ (\A i \in 1 .. n : u[i] # price) /\ Extended(u, v, price)
      \/ \E j \in 1 .. n : u[j] = price /\ Moved(u, v, j, price)
  BY UsedFacts
<1> HIDE DEF v, n
<1>4. CASE (\A i \in 1 .. n : u[i] # price) /\ Extended(u, v, price)
  <2>1. /\ Len(v) = n + 1 /\ v[n + 1] = price
        /\ \A k \in 1 .. n : v[k] = u[k] /\ v[k] # price
    BY <1>4 DEF Extended, n
  <2>2. ASSUME NEW i \in 1 .. n + 1, NEW k \in 1 .. n + 1, v[i] = v[k] PROVE i = k
    <3>1. CASE i \in 1 .. n /\ k \in 1 .. n
      BY <1>2, <2>1, <2>2, <3>1
    <3>2. CASE i = n + 1 /\ k \in 1 .. n
      BY <2>1, <2>2, <3>2
    <3>3. CASE i \in 1 .. n /\ k = n + 1
      BY <2>1, <2>2, <3>3
    <3>4. (i \in 1 .. n \/ i = n + 1) /\ (k \in 1 .. n \/ k = n + 1)
      BY <1>1
    <3> QED BY <3>1, <3>2, <3>3, <3>4
  <2> QED BY <2>1, <2>2 DEF Distinct, v
<1>5. ASSUME NEW j \in 1 .. n, u[j] = price, Moved(u, v, j, price) PROVE Distinct(v)
  <2> DEFINE Old(k) == IF k = n THEN j ELSE IF k < j THEN k ELSE k + 1
  <2>1. /\ Len(v) = n /\ v[n] = price
        /\ \A k \in 1 .. n - 1 : v[k] = IF k < j THEN u[k] ELSE u[k + 1]
    BY <1>5 DEF Moved, n
  <2>2. \A k \in 1 .. n : Old(k) \in 1 .. n
    BY <1>1
  <2>3. \A k \in 1 .. n : v[k] = u[Old(k)]
    BY <1>1, <1>5, <2>1
  <2>4. \A i, k \in 1 .. n : Old(i) = Old(k) => i = k
    BY <1>1
  <2> HIDE DEF Old
  <2>5. ASSUME NEW i \in 1 .. n, NEW k \in 1 .. n, v[i] = v[k] PROVE i = k
    <3>1. u[Old(i)] = u[Old(k)]
      BY <2>3, <2>5
    <3>2. Old(i) = Old(k)
      BY <1>2, <2>2, <3>1
    <3> QED BY <2>4, <3>2
  <2> QED BY <2>1, <2>5 DEF Distinct
<1> QED BY <1>3, <1>4, <1>5 DEF v

\* The cache c holds what the history u ends with, with the probability
\* measured there.
Recent(f, c, u) ==
  /\ u \in Seq(Price) /\ Distinct(u)
  /\ c \in Seq([key : Price, value : Level])
  /\ Len(c) = IF Len(u) < CacheSize THEN Len(u) ELSE CacheSize
  /\ \A i \in 1 .. Len(c) :
       c[i].key = u[(Len(u) - Len(c)) + i] /\ c[i].value = f[c[i].key]

\* A lookup keeps it so, whether the price is held or computed and stored.
LEMMA LookupRecent ==
  ASSUME NEW c, NEW u, Recent(market.probability, c, u),
         market.probability \in [Price -> Level], NEW price \in Price
  PROVE  Recent(market.probability, Lookup(c, price), Used(u, price))
<1> DEFINE f == market.probability
           v == Used(u, price)
           r == Lookup(c, price)
           n == Len(c)
           m == Len(u)
           E == [key : Price, value : Level]
<1> USE SolverAssumption
<1>1. /\ u \in Seq(Price) /\ Distinct(u) /\ c \in Seq(E)
      /\ n \in Nat /\ m \in Nat
      /\ n = IF m < CacheSize THEN m ELSE CacheSize
      /\ \A i \in 1 .. n : c[i].key = u[(m - n) + i] /\ c[i].value = f[c[i].key]
  BY LenProperties DEF Recent
<1> HIDE DEF E
<1>2. /\ DOMAIN c = 1 .. n
      /\ \A i \in 1 .. n : c[i] \in E
  BY <1>1, LenProperties
<1>3. v \in Seq(Price) /\ Distinct(v)
  BY <1>1, UsedFacts, UsedOnce
<1>4. \/ (\A i \in 1 .. m : u[i] # price) /\ Extended(u, v, price)
      \/ \E j \in 1 .. m : u[j] = price /\ Moved(u, v, j, price)
  BY <1>1, UsedFacts
<1>5. Entry(price, f[price]) \in E
  BY DEF Entry, E
<1>6. Holds(c, price) <=> \E i \in 1 .. n : c[i].key = price
  BY <1>2 DEF Holds
<1>7. \A i, k \in 1 .. m : u[i] = u[k] => i = k
  BY <1>1 DEF Distinct
<1>8. SUFFICES /\ r \in Seq(E)
               /\ Len(r) = IF Len(v) < CacheSize THEN Len(v) ELSE CacheSize
               /\ \A k \in 1 .. Len(r) :
                    r[k].key = v[(Len(v) - Len(r)) + k] /\ r[k].value = f[r[k].key]
  BY <1>3 DEF Recent, E
<1> HIDE DEF v, n, m, f
<1>9. CASE Holds(c, price)
  <2> DEFINE i == Place(c, price)
             x == c[i]
  <2>1. i \in 1 .. n /\ c[i].key = price
    BY <1>2, <1>6, <1>9 DEF Place
  <2>2. r = Append(RemoveAt(c, i), x)
    BY <1>9 DEF Lookup, Touch, Without
  <2> HIDE DEF i, r
  <2>3. r \in Seq(E) /\ Moved(c, r, i, x)
    BY <1>1, <1>2, <2>1, <2>2, TakenOut DEF n
  <2>4. /\ Len(r) = n /\ r[n] = x
        /\ \A k \in 1 .. n - 1 : r[k] = IF k < i THEN c[k] ELSE c[k + 1]
    BY <2>3 DEF Moved, n
  <2>5. (m - n) + i \in 1 .. m /\ u[(m - n) + i] = price
    BY <1>1, <2>1
  <2>6. Moved(u, v, (m - n) + i, price)
    BY <1>4, <1>7, <2>5
  <2>7. /\ Len(v) = m /\ v[m] = price
        /\ \A k \in 1 .. m - 1 : v[k] = IF k < (m - n) + i THEN u[k] ELSE u[k + 1]
    BY <2>6 DEF Moved, m
  <2>8. ASSUME NEW k \in 1 .. n
        PROVE  r[k].key = v[(m - n) + k] /\ r[k].value = f[r[k].key]
    <3>1. CASE k = n
      <4>1. (m - n) + k = m
        BY <1>1, <3>1
      <4> QED BY <1>1, <2>1, <2>4, <2>7, <3>1, <4>1
    <3>2. CASE k # n /\ k < i
      <4>1. k \in 1 .. n - 1 /\ (m - n) + k \in 1 .. m - 1 /\ (m - n) + k < (m - n) + i
        BY <1>1, <2>1, <3>2
      <4>2. r[k] = c[k] /\ v[(m - n) + k] = u[(m - n) + k]
        BY <2>4, <2>7, <3>2, <4>1
      <4> QED BY <1>1, <4>2
    <3>3. CASE k # n /\ ~ (k < i)
      <4>1. /\ k \in 1 .. n - 1 /\ (m - n) + k \in 1 .. m - 1
            /\ ~ ((m - n) + k < (m - n) + i)
            /\ k + 1 \in 1 .. n /\ (m - n) + (k + 1) = ((m - n) + k) + 1
        <5>1. n \in Nat /\ m \in Nat /\ n <= m /\ i \in 1 .. n
          BY <1>1, <2>1
        <5>2. k \in Nat /\ i \in Nat /\ 1 <= i /\ i <= k /\ k < n
          BY <3>3, <5>1
        <5> QED BY <5>1, <5>2
      <4>2. r[k] = c[k + 1] /\ v[(m - n) + k] = u[((m - n) + k) + 1]
        BY <2>4, <2>7, <3>3, <4>1
      <4> QED BY <1>1, <4>1, <4>2
    <3> QED BY <3>1, <3>2, <3>3
  <2> QED BY <1>1, <2>3, <2>4, <2>7, <2>8
<1>10. CASE ~ Holds(c, price)
  <2> DEFINE longer == Append(c, Entry(price, f[price]))
  <2>1. /\ longer \in Seq(E) /\ Len(longer) = n + 1 /\ longer[n + 1] = Entry(price, f[price])
        /\ \A k \in 1 .. n : longer[k] = c[k]
    BY <1>1, <1>5, AppendProperties DEF n
  <2>2. longer[n + 1].key = price /\ longer[n + 1].value = f[longer[n + 1].key]
    BY <2>1 DEF Entry
  <2>3. r = IF (n + 1) - CacheSize <= 0 THEN longer
            ELSE SubSeq(longer, ((n + 1) - CacheSize) + 1, n + 1)
    BY <1>10, <2>1 DEF Lookup, Store, Without, Probability, f
  <2> HIDE DEF longer, r
  <2>4. \A k \in 1 .. n : c[k].key # price
    BY <1>6, <1>10
  <2>5. CASE n < CacheSize
    <3>1. n = m /\ r = longer
      BY <1>1, <2>3, <2>5
    <3>2. \A k \in 1 .. m : u[k] # price
      <4> SUFFICES ASSUME NEW k \in 1 .. m PROVE u[k] # price
        OBVIOUS
      <4>1. (m - n) + k = k /\ k \in 1 .. n
        BY <1>1, <3>1
      <4>2. c[k].key = u[k]
        BY <1>1, <4>1
      <4> QED BY <2>4, <4>1, <4>2
    <3>3. /\ Len(v) = m + 1 /\ v[m + 1] = price
          /\ \A k \in 1 .. m : v[k] = u[k]
      BY <1>4, <3>2 DEF Extended, m
    <3>4. ASSUME NEW k \in 1 .. n + 1
          PROVE  r[k].key = v[k] /\ r[k].value = f[r[k].key]
      <4>1. CASE k = n + 1
        BY <2>2, <3>1, <3>3, <4>1
      <4>2. CASE k # n + 1
        <5>1. k \in 1 .. n /\ (m - n) + k = k
          BY <1>1, <3>1, <4>2
        <5>2. r[k] = c[k] /\ v[k] = u[k] /\ c[k].key = u[k]
          BY <1>1, <2>1, <3>1, <3>3, <5>1
        <5> QED BY <1>1, <5>1, <5>2
      <4> QED BY <4>1, <4>2
    <3>5. Len(r) = n + 1 /\ Len(v) = n + 1 /\ n + 1 <= CacheSize
      BY <1>1, <2>1, <2>5, <3>1, <3>3
    <3>6. \A k \in 1 .. n + 1 : ((n + 1) - (n + 1)) + k = k
      BY <1>1
    <3> QED BY <1>1, <2>1, <3>1, <3>4, <3>5, <3>6
  <2>6. CASE ~ (n < CacheSize)
    <3>1. n = CacheSize /\ m >= n
      BY <1>1, <2>6
    <3>2. r = SubSeq(longer, 2, n + 1)
      BY <1>1, <2>3, <3>1
    <3>3. r \in Seq(E) /\ Len(r) = n /\ \A k \in 1 .. n : r[k] = longer[k + 1]
      <4> DEFINE g == SubSeq(longer, 2, n + 1)
                 l == n + 1
      <4>1. n \in Nat /\ 2 \in Nat \ {0} /\ l \in Nat /\ l = Len(longer) /\ 2 <= l + 1
        BY <1>1, <2>1
      <4> HIDE DEF l
      <4>2. /\ SubSeq(longer, 2, l) \in Seq(E) /\ Len(SubSeq(longer, 2, l)) = (l - 2) + 1
            /\ \A k \in 1 .. (l - 2) + 1 : SubSeq(longer, 2, l)[k] = longer[(2 - 1) + k]
        BY <2>1, <4>1, Ending
      <4>3. g \in Seq(E) /\ Len(g) = (l - 2) + 1 /\ \A k \in 1 .. (l - 2) + 1 : g[k] = longer[(2 - 1) + k]
        BY <4>2 DEF l
      <4>4. r = g
        BY <3>2
      <4> HIDE DEF g
      <4>5. (l - 2) + 1 = n /\ \A k \in 1 .. n : (2 - 1) + k = k + 1
        BY <4>1 DEF l
      <4> QED BY <4>3, <4>4, <4>5
    <3>4. /\ Len(v) >= n /\ Len(v) \in Nat /\ v[Len(v)] = price
          /\ \A k \in 1 .. n - 1 : v[(Len(v) - n) + k] = u[(m - n) + (k + 1)]
      <4>1. CASE (\A i \in 1 .. m : u[i] # price) /\ Extended(u, v, price)
        <5>1. /\ Len(v) = m + 1 /\ v[m + 1] = price
              /\ \A k \in 1 .. m : v[k] = u[k]
          BY <4>1 DEF Extended, m
        <5>2. ASSUME NEW k \in 1 .. n - 1 PROVE v[(Len(v) - n) + k] = u[(m - n) + (k + 1)]
          <6>1. (Len(v) - n) + k = (m - n) + (k + 1) /\ (m - n) + (k + 1) \in 1 .. m
            BY <1>1, <3>1, <5>1
          <6> QED BY <5>1, <6>1
        <5> QED BY <1>1, <3>1, <5>1, <5>2
      <4>2. ASSUME NEW j \in 1 .. m, u[j] = price, Moved(u, v, j, price)
            PROVE  /\ Len(v) >= n /\ Len(v) \in Nat /\ v[Len(v)] = price
                   /\ \A k \in 1 .. n - 1 : v[(Len(v) - n) + k] = u[(m - n) + (k + 1)]
        <5>1. /\ Len(v) = m /\ v[m] = price
              /\ \A k \in 1 .. m - 1 : v[k] = IF k < j THEN u[k] ELSE u[k + 1]
          BY <4>2 DEF Moved, m
        <5>2. j <= m - n
          <6> SUFFICES ASSUME ~ (j <= m - n) PROVE FALSE
            OBVIOUS
          <6>1. j - (m - n) \in 1 .. n /\ (m - n) + (j - (m - n)) = j
            BY <1>1, <3>1
          <6>2. c[j - (m - n)].key = u[j]
            BY <1>1, <6>1
          <6> QED BY <2>4, <4>2, <6>1, <6>2
        <5>3. ASSUME NEW k \in 1 .. n - 1 PROVE v[(Len(v) - n) + k] = u[(m - n) + (k + 1)]
          <6>1. /\ (m - n) + k \in 1 .. m - 1 /\ ~ ((m - n) + k < j)
                /\ (m - n) + (k + 1) = ((m - n) + k) + 1
            BY <1>1, <3>1, <5>2
          <6> QED BY <5>1, <6>1
        <5> QED BY <1>1, <3>1, <5>1, <5>3
      <4> QED BY <1>4, <4>1, <4>2
    <3>5. ASSUME NEW k \in 1 .. n
          PROVE  r[k].key = v[(Len(v) - n) + k] /\ r[k].value = f[r[k].key]
      <4>1. CASE k = n
        <5>1. (Len(v) - n) + k = Len(v)
          BY <1>1, <3>4, <4>1
        <5> QED BY <2>2, <3>3, <3>4, <4>1, <5>1
      <4>2. CASE k # n
        <5>1. k \in 1 .. n - 1 /\ k + 1 \in 1 .. n
          BY <1>1, <4>2
        <5>2. r[k] = c[k + 1] /\ c[k + 1].key = u[(m - n) + (k + 1)]
          BY <1>1, <2>1, <3>3, <5>1
        <5> QED BY <1>1, <3>4, <5>1, <5>2
      <4> QED BY <4>1, <4>2
    <3>6. Len(r) = IF Len(v) < CacheSize THEN Len(v) ELSE CacheSize
      BY <1>1, <3>1, <3>3, <3>4
    <3> QED BY <3>3, <3>5, <3>6
  <2> QED BY <2>5, <2>6
<1> QED BY <1>9, <1>10

\* The market is a step function both ways, the prices at hand are prices,
\* nothing is cached before the first quote, and what is cached is recent.
CacheInv ==
  /\ market.probability \in [Price -> Level] /\ market.asked \in [Level -> Price]
  /\ lower \in Price /\ upper \in Price /\ anchor \in Price
  /\ quotes_left = Quotes => cache = << >> /\ uses = << >>
  /\ Recent(market.probability, cache, uses)

\* An empty cache holds what an empty history ends with.
LEMMA NothingRecent == ASSUME NEW f PROVE Recent(f, << >>, << >>)
  BY SolverAssumption DEF Recent, Distinct

\* The midpoint of two prices, and what a level asks for, are prices.
LEMMA PricesAtHand ==
  CacheInv => /\ (lower + upper) \div 2 \in Price
              /\ \A p \in Price : Asked(Probability(p)) \in Price
<1> SUFFICES ASSUME CacheInv
             PROVE  /\ (lower + upper) \div 2 \in Price
                    /\ \A p \in Price : Asked(Probability(p)) \in Price
  OBVIOUS
<1>1. (lower + upper) \div 2 \in Price
  BY SolverAssumption DEF CacheInv, Price
<1>2. \A p \in Price : Asked(Probability(p)) \in Price
  BY DEF CacheInv, Asked, Probability
<1> QED BY <1>1, <1>2

\* Each step of the solver looks at one price or at two, in its market.
LEMMA NextCache == SolverInv /\ CacheInv /\ [SolverNext]_solver => CacheInv'
<1> SUFFICES ASSUME SolverInv, CacheInv, [SolverNext]_solver PROVE CacheInv'
  OBVIOUS
<1> DEFINE f == market.probability
<1>1. /\ f \in [Price -> Level] /\ market.asked \in [Level -> Price]
      /\ lower \in Price /\ upper \in Price /\ anchor \in Price
      /\ Recent(f, cache, uses)
  BY DEF CacheInv
<1>2. (lower + upper) \div 2 \in Price /\ \A p \in Price : Asked(Probability(p)) \in Price
  BY PricesAtHand
<1>3. solving # "idle" => quotes_left # Quotes
  BY SolverAssumption DEF SolverInv
<1>4. ASSUME NEW p \in Price, NEW q \in Price
      PROVE  /\ Recent(f, Lookup(cache, p), Used(uses, p))
             /\ Recent(f, Lookup(Lookup(cache, p), q), Used(Used(uses, p), q))
  <2>1. Recent(f, Lookup(cache, p), Used(uses, p))
    BY <1>1, LookupRecent
  <2> QED BY <1>1, <2>1, LookupRecent
<1>5. CASE Quoted
  <2>1. cache = << >> /\ uses = << >> /\ cache' = cache /\ uses' = uses
    BY <1>5 DEF Quoted, CacheInv, caching
  <2>2. market'.probability \in [Price -> Level] /\ market'.asked \in [Level -> Price]
    BY <1>5 DEF Quoted, Samples, Markups
  <2>3. lower' = 0 /\ upper' = Cap /\ anchor' = anchor
    BY <1>5 DEF Quoted
  <2>4. 0 \in Price /\ Cap \in Price
    BY SolverAssumption DEF Price
  <2>5. Recent(market'.probability, << >>, << >>)
    BY SolverAssumption DEF Recent, Distinct
  <2> QED BY <1>1, <2>1, <2>2, <2>3, <2>4, <2>5 DEF CacheInv, Recent, Distinct
<1>6. CASE QuotedAgain
  <2>1. /\ market' = market /\ cache' = cache /\ uses' = uses /\ anchor' = anchor
        /\ lower' = 0 /\ upper' = Cap
    BY <1>6 DEF QuotedAgain, caching
  <2>2. 0 \in Price /\ Cap \in Price
    BY SolverAssumption DEF Price
  <2>3. quotes_left' # Quotes
    BY <1>6, SolverAssumption DEF QuotedAgain
  <2> QED BY <1>1, <2>1, <2>2, <2>3 DEF CacheInv, Recent, Distinct
<1>7. CASE Bracket
  <2> DEFINE c == Lookup(Lookup(cache, lower), upper)
             u == Used(Used(uses, lower), upper)
  <2>1. /\ market' = market /\ cache' = c /\ uses' = u /\ anchor' = anchor
        /\ lower' = lower /\ upper' = upper /\ quotes_left' = quotes_left
        /\ solving # "idle"
    BY <1>7 DEF Bracket, bracket, EvaluateBoth
  <2>2. Recent(f, c, u)
    BY <1>1, <1>4
  <2> HIDE DEF c, u
  <2> QED BY <1>1, <1>3, <2>1, <2>2 DEF CacheInv, Recent, Distinct
<1>8. CASE Halve
  <2> DEFINE mid == (lower + upper) \div 2
             c == Lookup(cache, mid)
             u == Used(uses, mid)
  <2>1. /\ market' = market /\ cache' = c /\ uses' = u /\ quotes_left' = quotes_left
        /\ lower' \in {mid, lower} /\ upper' \in {mid, upper}
        /\ anchor' \in {Asked(Probability(mid)), anchor}
        /\ solving # "idle"
    BY <1>8 DEF Halve, Evaluate
  <2>2. Recent(f, c, u)
    BY <1>2, <1>4
  <2>3. lower' \in Price /\ upper' \in Price /\ anchor' \in Price
    BY <1>1, <1>2, <2>1
  <2> HIDE DEF c, u
  <2> QED BY <1>1, <1>3, <2>1, <2>2, <2>3 DEF CacheInv, Recent, Distinct
<1>9. CASE Refine
  <2> DEFINE price == Asked(Probability(anchor))
             c == Lookup(Lookup(cache, anchor), price)
             u == Used(Used(uses, anchor), price)
  <2>1. /\ market' = market /\ cache' = c /\ uses' = u /\ quotes_left' = quotes_left
        /\ lower' = lower /\ upper' = upper /\ anchor' \in {anchor, price}
        /\ solving # "idle"
    BY <1>9 DEF Refine, EvaluateBoth, bracket
  <2>2. price \in Price
    BY <1>1, <1>2
  <2>3. Recent(f, c, u)
    BY <1>1, <1>4, <2>2
  <2>4. anchor' \in Price
    BY <1>1, <2>1, <2>2
  <2> HIDE DEF c, u
  <2> QED BY <1>1, <1>3, <2>1, <2>3, <2>4 DEF CacheInv, Recent, Distinct
<1>10. CASE UNCHANGED solver
  BY <1>10 DEF solver, bracket, caching, CacheInv, Recent, Distinct
<1> QED BY <1>5, <1>6, <1>7, <1>8, <1>9, <1>10 DEF SolverNext

\* What is recent is the end of the history.
LEMMA RecentIsEnd == CacheInv => CacheKeepsRecent
<1> SUFFICES ASSUME CacheInv PROVE CacheKeepsRecent
  OBVIOUS
<1> USE SolverAssumption
<1> DEFINE n == Len(cache)
           m == Len(uses)
           E == [key : Price, value : Level]
           tail == SubSeq(uses, m - n + 1, m)
           kept == IF Len(uses) < CacheSize THEN Len(uses) ELSE CacheSize
<1>1. /\ uses \in Seq(Price) /\ cache \in Seq(E) /\ n \in Nat /\ m \in Nat
      /\ n = kept
      /\ \A i \in 1 .. n : cache[i].key = uses[(m - n) + i] /\ cache[i].value = market.probability[cache[i].key]
  BY LenProperties DEF CacheInv, Recent
<1>2. n <= m
  BY <1>1
<1> HIDE DEF E
<1>3. DOMAIN cache = 1 .. n
  BY <1>1, LenProperties
<1>4. tail \in Seq(Price) /\ Len(tail) = n /\ \A i \in 1 .. n : tail[i] = uses[(m - n) + i]
  <2> DEFINE a == (m - n) + 1
             g == SubSeq(uses, a, m)
  <2>1. tail = g
    OBVIOUS
  <2>2. a \in Nat \ {0} /\ m \in Nat /\ m = Len(uses) /\ a <= m + 1
    <3>1. m = Len(uses) /\ m \in Nat /\ n \in Nat /\ n <= m
      BY <1>1, <1>2
    <3> HIDE DEF n, m
    <3> QED BY <3>1
  <2> HIDE DEF a
  <2>3. /\ SubSeq(uses, a, m) \in Seq(Price) /\ Len(SubSeq(uses, a, m)) = (m - a) + 1
        /\ \A i \in 1 .. (m - a) + 1 : SubSeq(uses, a, m)[i] = uses[(a - 1) + i]
    BY <1>1, <2>2, Ending
  <2>4. /\ g \in Seq(Price) /\ Len(g) = (m - a) + 1
        /\ \A i \in 1 .. (m - a) + 1 : g[i] = uses[(a - 1) + i]
    BY <2>3
  <2> HIDE DEF g, n, m, tail
  <2>5. (m - a) + 1 = n /\ \A i \in 1 .. n : (a - 1) + i = (m - n) + i
    BY <1>1, <1>2 DEF a
  <2> QED BY <2>1, <2>4, <2>5
<1> HIDE DEF tail
<1>5. tail = [i \in 1 .. n |-> tail[i]]
  <2>1. tail = [i \in 1 .. Len(tail) |-> tail[i]]
    BY <1>4, LenProperties
  <2> QED BY <1>4, <2>1
<1>6. Keys(cache) = [i \in 1 .. n |-> cache[i].key]
  BY <1>3 DEF Keys
<1> HIDE DEF n, m
<1>7. Keys(cache) = tail
  BY <1>1, <1>4, <1>5, <1>6
<1>8. \A i \in DOMAIN cache : cache[i].value = Probability(cache[i].key)
  BY <1>1, <1>3 DEF Probability
<1>9. kept = n
  BY <1>1
<1> QED BY <1>7, <1>8, <1>9 DEF CacheKeepsRecent, tail, n, m

\* However the quotes of a market follow each other, for a cache and a market
\* of any size.
THEOREM CacheIsRecent == SolverSpec => []CacheKeepsRecent
<1>1. SolverInit => SolverInv /\ CacheInv
  <2>1. SolverInit => SolverInv
    BY SolverAssumption DEF SolverInit, SolverInv, ConvergedIsFixedPoint, NoQuote
  <2>2. SolverInit => CacheInv
    <3> SUFFICES ASSUME SolverInit PROVE CacheInv
      OBVIOUS
    <3>1. Recent(market.probability, cache, uses)
      BY NothingRecent DEF SolverInit
    <3> QED BY <3>1, SolverAssumption DEF SolverInit, CacheInv, Price, Level
  <2> QED BY <2>1, <2>2
<1> QED BY <1>1, NextSolver, NextCache, RecentIsEnd, PTL DEF SolverSpec

-----------------------------------------------------------------------------
(* The batch commands.                                                     *)

\* The directory holds a file or none for each job, and no result is lost.
FilesInv == outputs = [j \in Job |-> outputs[j]] /\ NoResultLost

\* The steps that leave the outputs, what was moved aside and what was
\* written alone.
ResultsStand ==
  \/ Aggregate \/ Kill \/ Judging \/ EndManifest \/ UNCHANGED batch
  \/ \E mark \in Fingerprints, kept \in SUBSET Job : StartManifest(mark, kept)
  \/ \E job \in Job : SkipJob(job) \/ JobFails(job)

\* They do leave them alone.
LEMMA StandingResults == ResultsStand => UNCHANGED results
  BY DEF ResultsStand, Aggregate, Kill, Judging, EndManifest, batch, StartManifest,
     SkipJob, JobFails, StartJudging, SkipSelf, JudgeAnswers, JudgeFails, OpenGrading,
     WriteGrading, EndJudging, Close

\* A result leaves its job's file only when it is moved aside, and a new one
\* is written only where there is no file.
LEMMA NextFiles == FilesInv /\ [BatchNext]_batch => FilesInv'
<1> SUFFICES ASSUME FilesInv, [BatchNext]_batch PROVE FilesInv'
  OBVIOUS
<1> USE DEF FilesInv, NoResultLost, Rows, NoFile
<1>1. CASE ResultsStand
  BY <1>1, StandingResults DEF results
<1>2. ASSUME NEW job \in Job, QuarantineOutput(job) PROVE FilesInv'
  <2>1. /\ outputs' = [outputs EXCEPT ![job] = {}]
        /\ quarantine' = quarantine \cup outputs[job]
        /\ written' = written
    BY <1>2 DEF QuarantineOutput
  <2> QED BY <2>1
<1>3. ASSUME NEW job \in Job, NEW voluntary \in BOOLEAN, RunJob(job, voluntary) PROVE FilesInv'
  <2>1. PICK result : /\ outputs' = [outputs EXCEPT ![job] = {result}]
                      /\ written' = written \cup {result}
    BY <1>3 DEF RunJob
  <2>2. outputs[job] = {} /\ quarantine' = quarantine
    BY <1>3 DEF RunJob
  <2> QED BY <2>1, <2>2
<1> QED BY <1>1, <1>2, <1>3 DEF ResultsStand, BatchNext, Manifest

\* Whatever is rerun and wherever a command is killed, for any number of jobs,
\* settings and commands.
THEOREM ResultsAreKept == BatchSpec => []NoResultLost
<1>1. BatchInit => FilesInv
  BY DEF BatchInit, FilesInv, NoResultLost, Rows
<1>2. FilesInv => NoResultLost
  BY DEF FilesInv
<1> QED BY <1>1, <1>2, NextFiles, PTL DEF BatchSpec

\* While a run is in progress its claim is open, and as long as no job failed
\* each job it has dealt with has an output of this run.
ClaimInv ==
  /\ outputs = [j \in Job |-> outputs[j]]
  /\ last = [exit |-> last.exit, kept |-> last.kept, fingerprint |-> last.fingerprint]
  /\ command = "manifest" =>
       /\ last.exit = "none" /\ last.fingerprint = fingerprint /\ last.kept \subseteq Job
       /\ ~ failed => \A j \in last.kept \ queue :
                        \E result \in outputs[j] : result.fingerprint = fingerprint
  /\ CleanRunIsComplete

\* The steps of the other commands leave run-manifest's claim alone.
LEMMA OtherCommands ==
  ASSUME Judging \/ Aggregate
  PROVE  /\ UNCHANGED <<last, outputs>>
         /\ command' # "manifest" \/ UNCHANGED <<command, queue, run>>
  BY DEF Judging, Aggregate, StartJudging, Begin, SkipSelf, JudgeAnswers, JudgeFails, Close,
     OpenGrading, WriteGrading, EndJudging, results, run, Grading, CanCall

\* Only run-manifest touches outputs, and it withdraws its claim first.
LEMMA NextClaim == ClaimInv /\ [BatchNext]_batch => ClaimInv'
<1> SUFFICES ASSUME ClaimInv, [BatchNext]_batch PROVE ClaimInv'
  OBVIOUS
<1> USE DEF ClaimInv, CleanRunIsComplete
<1>1. CASE Judging \/ Aggregate
  BY <1>1, OtherCommands DEF run
<1>2. CASE UNCHANGED batch
  BY <1>2 DEF batch, run, results
<1>3. CASE Kill
  <2>1. command' = "idle" /\ outputs' = outputs
    BY <1>3 DEF Kill, results
  <2>2. CASE last' = last
    BY <2>1, <2>2
  <2>3. CASE last' = NoClaim
    BY <2>1, <2>3 DEF NoClaim
  <2> QED BY <1>3, <2>2, <2>3 DEF Kill
<1>4. ASSUME NEW mark \in Fingerprints, NEW kept \in SUBSET Job, StartManifest(mark, kept)
      PROVE ClaimInv'
  BY <1>4 DEF StartManifest, Begin, results
<1>5. ASSUME NEW job \in Job, SkipJob(job) PROVE ClaimInv'
  <2>1. UNCHANGED <<command, last, failed, fingerprint, outputs>> /\ queue' = queue \ {job}
    BY <1>5 DEF SkipJob, run, results
  <2>2. command = "manifest" /\ \E result \in outputs[job] : result.fingerprint = fingerprint
    BY <1>5 DEF SkipJob, Running, Matches
  <2> QED BY <2>1, <2>2
<1>6. ASSUME NEW job \in Job, JobFails(job) PROVE ClaimInv'
  BY <1>6 DEF JobFails, Running, results
<1>7. ASSUME NEW job \in Job, QuarantineOutput(job) PROVE ClaimInv'
  <2>1. UNCHANGED <<command, last, failed, fingerprint, queue>>
    BY <1>7 DEF QuarantineOutput, run
  <2>2. command = "manifest" /\ job \in queue /\ outputs' = [outputs EXCEPT ![job] = NoFile]
    BY <1>7 DEF QuarantineOutput, Running, Due
  <2> QED BY <2>1, <2>2
<1>8. ASSUME NEW job \in Job, NEW voluntary \in BOOLEAN, RunJob(job, voluntary) PROVE ClaimInv'
  <2>1. UNCHANGED <<command, last, failed, fingerprint>> /\ queue' = queue \ {job}
    BY <1>8 DEF RunJob
  <2> DEFINE result == Result(job, fingerprint, rollouts + 1, voluntary)
  <2>2. outputs' = [outputs EXCEPT ![job] = {result}] /\ result.fingerprint = fingerprint
    BY <1>8 DEF RunJob, Result
  <2> HIDE DEF result
  <2>3. command = "manifest"
    BY <1>8 DEF RunJob, Running
  <2> QED BY <2>1, <2>2, <2>3
<1>9. CASE EndManifest
  <2>1. command = "manifest" /\ queue = {} /\ command' = "idle" /\ outputs' = outputs
    BY <1>9 DEF EndManifest, results
  <2>2. last' = [last EXCEPT !.exit = IF failed THEN "failed" ELSE "clean"]
    BY <1>9 DEF EndManifest
  <2> QED BY <2>1, <2>2
<1> QED BY <1>1, <1>2, <1>3, <1>4, <1>5, <1>6, <1>7, <1>8, <1>9 DEF BatchNext, Manifest

\* Status 0 means every job asked for has an output of this run, for any
\* number of jobs and settings and through any kills before it.
THEOREM CleanRunsAreComplete == BatchSpec => []CleanRunIsComplete
<1>1. BatchInit => ClaimInv
  BY DEF BatchInit, ClaimInv, CleanRunIsComplete, NoClaim
<1>2. ClaimInv => CleanRunIsComplete
  BY DEF ClaimInv
<1> QED BY <1>1, <1>2, NextClaim, PTL DEF BatchSpec

-----------------------------------------------------------------------------
(* The gradings.                                                           *)

\* What PooledGradingsAreWhole says of one file of gradings.
Whole(grading_file) ==
  /\ Cardinality(grading_file.graded) = 1
  /\ \A result \in grading_file.graded :
       /\ result \in written /\ result.voluntary
       /\ Grade(Author[result.job], "ok") \notin grading_file.entries
  /\ { entry.judge : entry \in grading_file.entries } = ToSet(Judges)
  /\ Cardinality(grading_file.entries) = Len(Judges)

\* An output is one result of its own job, and was written.
OutputsInv ==
  /\ outputs = [j \in Job |-> outputs[j]]
  /\ \A j \in Job :
       outputs[j] = {} \/ \E r \in written : outputs[j] = {r} /\ r.job = j

\* Each file of gradings is torn or whole, and so is all a report has pooled.
GradedInv ==
  /\ judges = [j \in Job |-> judges[j]]
  /\ \A j \in Job : \A g \in judges[j] : g = Torn \/ Whole(g)
  /\ \A g \in report.entries : Whole(g)

JudgingNow == command \in {"judge", "writing"}

Called == Len(Judges) - Len(pending)

\* The judges still to be called are the last of the list; those before them
\* have one entry each, and the author of the file at hand has no grade.
UnderwayInv ==
  JudgingNow =>
    /\ queue \subseteq Voluntary
    /\ pending \in Seq(STRING) /\ Called \in 0 .. Len(Judges)
    /\ \A i \in 1 .. Len(pending) : pending[i] = Judges[Called + i]
    /\ IsFiniteSet(entries) /\ Cardinality(entries) = Called
    /\ { entry.judge : entry \in entries } = { Judges[i] : i \in 1 .. Called }
    /\ \A file \in Job : Due(file) => Grade(Author[file], "ok") \notin entries
    /\ command = "writing" => pending = << >>

JudgeInv == OutputsInv /\ GradedInv /\ UnderwayInv

\* Only one file is at hand.
LEMMA OneIsDue ==
  ASSUME NEW a \in Job, NEW b \in Job, Due(a), Due(b)
  PROVE  a = b
  BY BatchAssumption DEF Due, Job

\* What was written stays written, so what is whole stays whole.
LEMMA WholeStays ==
  ASSUME written \subseteq written'
  PROVE  \A g : Whole(g) => Whole(g)'
  BY DEF Whole

\* Every step of a command keeps the outputs.
LEMMA NextOutputs == OutputsInv /\ [BatchNext]_batch => OutputsInv' /\ written \subseteq written'
<1> SUFFICES ASSUME OutputsInv, [BatchNext]_batch PROVE OutputsInv' /\ written \subseteq written'
  OBVIOUS
<1> USE DEF OutputsInv
<1>1. CASE ResultsStand
  BY <1>1, StandingResults DEF results
<1>2. ASSUME NEW job \in Job, QuarantineOutput(job)
      PROVE  OutputsInv' /\ written \subseteq written'
  <2>1. outputs' = [outputs EXCEPT ![job] = {}] /\ written' = written
    BY <1>2 DEF QuarantineOutput, NoFile
  <2> QED BY <2>1
<1>3. ASSUME NEW job \in Job, NEW voluntary \in BOOLEAN, RunJob(job, voluntary)
      PROVE  OutputsInv' /\ written \subseteq written'
  <2> DEFINE result == Result(job, fingerprint, rollouts + 1, voluntary)
  <2>1. /\ outputs' = [outputs EXCEPT ![job] = {result}]
        /\ written' = written \cup {result}
    BY <1>3 DEF RunJob
  <2>2. result.job = job
    BY DEF Result
  <2> HIDE DEF result
  <2> QED BY <2>1, <2>2
<1> QED BY <1>1, <1>2, <1>3 DEF ResultsStand, BatchNext, Manifest

\* Where the commands leave the files of gradings and the report alone, these
\* stay torn or whole.
LEMMA GradedStays ==
  ASSUME GradedInv, written \subseteq written', UNCHANGED <<judges, report>>
  PROVE  GradedInv'
<1> DEFINE W(g) == Whole(g)
<1>1. \A g : W(g) => W(g)'
  BY WholeStays
<1> QED BY <1>1 DEF GradedInv

\* An entry of the judge whose turn it is, and not a grade by the author,
\* brings the file at hand one judge further.
LEMMA ClosingKeepsPace ==
  ASSUME OutputsInv, UnderwayInv, NEW file \in Job, Grading(file), NEW status, Close(status),
         Head(pending) = Author[file] => status # "ok"
  PROVE  UnderwayInv'
<1> DEFINE judge == Head(pending)
           entry == Grade(judge, status)
           done  == Called
<1> USE BatchAssumption
<1>1. command = "judge" /\ Due(file) /\ pending # << >>
  BY DEF Grading
<1>2. JudgingNow /\ UnderwayInv!2
  BY <1>1 DEF UnderwayInv, JudgingNow
<1>3. /\ entries' = entries \cup {entry} /\ pending' = Tail(pending)
      /\ UNCHANGED <<command, queue, outputs>>
  BY DEF Close, results
<1>4. /\ Len(pending) \in Nat \ {0} /\ Len(Judges) \in Nat /\ done \in Nat
      /\ done = Len(Judges) - Len(pending) /\ done < Len(Judges)
      /\ judge = pending[1] /\ pending[1] = Judges[done + 1]
  BY <1>1, <1>2 DEF Called
<1>5. /\ pending' \in Seq(STRING) /\ Len(pending') = Len(pending) - 1 /\ Called' = done + 1
      /\ \A i \in 1 .. Len(pending') : pending'[i] = pending[i + 1]
  BY <1>1, <1>2, <1>3, <1>4 DEF Called
<1>6. entry.judge = judge /\ entry.status = status
  BY DEF Grade
<1>7. \A i \in 1 .. done : Judges[i] # judge
  BY <1>4
<1> HIDE DEF entry, judge, done
<1>8. entry \notin entries
  <2> SUFFICES ASSUME entry \in entries PROVE FALSE
    OBVIOUS
  <2>1. entry.judge \in { e.judge : e \in entries }
    OBVIOUS
  <2>2. entry.judge \in { Judges[i] : i \in 1 .. done }
    BY <2>1, <1>2 DEF done
  <2> QED BY <2>2, <1>6, <1>7
<1>9. IsFiniteSet(entries') /\ Cardinality(entries') = done + 1
  BY <1>2, <1>3, <1>8, FS_AddElement DEF done
<1>10. { e.judge : e \in entries' } = { Judges[i] : i \in 1 .. done + 1 }
  <2>1. { e.judge : e \in entries' } = { e.judge : e \in entries } \cup {judge}
    BY <1>3, <1>6
  <2>2. { Judges[i] : i \in 1 .. done + 1 } = { Judges[i] : i \in 1 .. done } \cup {Judges[done + 1]}
    BY <1>4
  <2> QED BY <2>1, <2>2, <1>2, <1>4 DEF done
<1>11. \A f \in Job : Due(f) => Grade(Author[f], "ok") \notin entries'
  <2> SUFFICES ASSUME NEW f \in Job, Due(f) PROVE Grade(Author[f], "ok") \notin entries'
    OBVIOUS
  <2>1. f = file
    BY <1>1, OneIsDue
  <2>2. Grade(Author[f], "ok") # entry
    BY <2>1, <1>6 DEF Grade, judge
  <2> QED BY <2>2, <1>2, <1>3
<1>12. queue' \subseteq Voluntary'
  BY <1>2, <1>3 DEF Voluntary
<1>13. \A f \in Job : Due(f)' => Due(f)
  BY <1>3 DEF Due
<1>14. \A i \in 1 .. Len(pending') : pending'[i] = Judges[Called' + i]
  BY <1>2, <1>4, <1>5 DEF done
<1>15. Called' \in 0 .. Len(Judges)
  BY <1>4, <1>5
<1>16. command' # "writing"
  BY <1>1, <1>3
<1> QED BY <1>5, <1>9, <1>10, <1>11, <1>12, <1>13, <1>14, <1>15, <1>16 DEF UnderwayInv

\* Before the first call for a file nothing is entered.
LEMMA NothingEntered ==
  ASSUME pending' = Judges, entries' = {}, queue' \subseteq Voluntary', command' # "writing"
  PROVE  UnderwayInv'
<1>1. Called' = 0 /\ Len(Judges) \in Nat /\ Judges \in Seq(STRING)
  BY BatchAssumption DEF Called
<1>2. IsFiniteSet(entries') /\ Cardinality(entries') = 0
  BY FS_EmptySet
<1> QED BY <1>1, <1>2 DEF UnderwayInv

\* The steps that neither judge nor report leave the gradings alone.
LEMMA OtherSteps ==
  ASSUME Manifest
  PROVE  UNCHANGED <<judges, report>> /\ command' \in {"manifest", "idle"}
  BY DEF Manifest, StartManifest, Begin, SkipJob, QuarantineOutput, RunJob, JobFails,
     EndManifest, Running, grading

\* Every step keeps the gradings.
LEMMA NextJudge == JudgeInv /\ [BatchNext]_batch => JudgeInv'
<1> SUFFICES ASSUME JudgeInv, [BatchNext]_batch PROVE JudgeInv'
  OBVIOUS
<1>1. OutputsInv /\ GradedInv /\ UnderwayInv
  BY DEF JudgeInv
<1>2. OutputsInv' /\ written \subseteq written'
  BY <1>1, NextOutputs
<1>3. UNCHANGED <<judges, report>> => GradedInv'
  BY <1>1, <1>2, GradedStays
<1> SUFFICES GradedInv' /\ UnderwayInv'
  BY <1>2 DEF JudgeInv
<1>a. CASE Manifest
  BY <1>a, <1>3, OtherSteps DEF UnderwayInv, JudgingNow
<1>b. CASE Kill
  <2>1. UNCHANGED <<judges, report>> /\ command' = "idle"
    BY <1>b DEF Kill
  <2> QED BY <2>1, <1>3 DEF UnderwayInv, JudgingNow
<1>c. CASE UNCHANGED batch
  <2>1. UNCHANGED <<command, queue, outputs, judges, pending, entries, report>>
    BY <1>c DEF batch, results, grading
  <2> QED BY <2>1, <1>1, <1>3 DEF UnderwayInv, JudgingNow, Called, Voluntary, Due
<1>d. CASE Aggregate
  <2>1. UNCHANGED <<command, queue, written, outputs, judges, pending, entries>>
    BY <1>d DEF Aggregate, results, grading
  <2>2. UnderwayInv'
    BY <2>1, <1>1 DEF UnderwayInv, JudgingNow, Called, Voluntary, Due
  <2>3. Torns = {} /\ report'.entries = UNION { judges[j] : j \in Job }
    BY <1>d DEF Aggregate
  <2>4. \A g \in report'.entries : Whole(g)
    BY <2>3, <1>1 DEF Torns, GradedInv
  <2> DEFINE W(g) == Whole(g)
  <2>5. \A g : W(g) => W(g)'
    BY <1>2, WholeStays
  <2>6. GradedInv'
    BY <2>1, <2>4, <2>5, <1>1 DEF GradedInv
  <2> QED BY <2>2, <2>6
<1>e. ASSUME NEW jobs \in SUBSET Job, StartJudging(jobs) PROVE GradedInv' /\ UnderwayInv'
  <2>1. /\ pending' = Judges /\ entries' = {} /\ queue' = jobs /\ command' = "judge"
        /\ UNCHANGED <<outputs, judges, report>>
    BY <1>e DEF StartJudging, Begin, results
  <2>2. queue' \subseteq Voluntary'
    BY <1>e, <2>1 DEF StartJudging, Sampled, Voluntary
  <2> QED BY <2>1, <2>2, <1>3, NothingEntered
<1>f. ASSUME NEW file \in Job, NEW status, Grading(file), Close(status),
             Head(pending) = Author[file] => status # "ok"
      PROVE  GradedInv' /\ UnderwayInv'
  <2>1. UNCHANGED <<judges, report>>
    BY <1>f DEF Close
  <2> QED BY <1>f, <2>1, <1>1, <1>3, ClosingKeepsPace
<1>g. ASSUME NEW file \in Job, SkipSelf(file) \/ JudgeAnswers(file)
      PROVE  GradedInv' /\ UnderwayInv'
  <2>1. CASE SkipSelf(file)
    <3> DEFINE status == "skipped_self_judge"
    <3>1. Grading(file) /\ Close(status)
      BY <2>1, Zenon DEF SkipSelf
    <3>2. status # "ok"
      OBVIOUS
    <3> HIDE DEF status
    <3> QED BY <3>1, <3>2, <1>f, <1>g
  <2>2. CASE JudgeAnswers(file)
    <3> DEFINE status == "ok"
    <3>1. Grading(file) /\ Head(pending) # Author[file] /\ Close(status)
      BY <2>2, Zenon DEF JudgeAnswers, CanCall
    <3> HIDE DEF status
    <3> QED BY <3>1, <1>f, <1>g
  <2> QED BY <1>g, <2>1, <2>2
<1>h. ASSUME NEW file \in Job, JudgeFails(file) PROVE GradedInv' /\ UnderwayInv'
  <2>1. CASE tries < JudgeRetries
    <3>1. UNCHANGED <<command, queue, outputs, judges, pending, entries, report>>
      BY <1>h, <2>1 DEF JudgeFails, results
    <3> QED BY <3>1, <1>1, <1>3 DEF UnderwayInv, JudgingNow, Called, Voluntary, Due
  <2>2. CASE ~ (tries < JudgeRetries)
    <3> DEFINE status == "missing"
    <3>1. Grading(file) /\ Head(pending) # Author[file] /\ Close(status)
      BY <1>h, <2>2, Zenon DEF JudgeFails, CanCall
    <3> HIDE DEF status
    <3> QED BY <3>1, <1>f, <1>h
  <2> QED BY <2>1, <2>2
<1>i. ASSUME NEW file \in Job, OpenGrading(file) PROVE GradedInv' /\ UnderwayInv'
  <2>1. /\ command = "judge" /\ command' = "writing" /\ pending = << >>
        /\ judges' = [judges EXCEPT ![file] = {Torn}]
        /\ UNCHANGED <<queue, outputs, pending, entries, report>>
    BY <1>i DEF OpenGrading, results
  <2>2. UnderwayInv'
    BY <2>1, <1>1 DEF UnderwayInv, JudgingNow, Called, Voluntary, Due
  <2> DEFINE W(g) == Whole(g)
  <2>3. \A g : W(g) => W(g)'
    BY <1>2, WholeStays
  <2>4. \A j \in Job : \A g \in judges'[j] : g = Torn \/ W(g)
    BY <2>1, <1>1 DEF GradedInv
  <2>5. judges' = [j \in Job |-> judges'[j]] /\ \A g \in report'.entries : W(g)
    BY <2>1, <1>1 DEF GradedInv
  <2>6. Torn' = Torn
    BY DEF Torn
  <2>7. GradedInv'
    BY <2>3, <2>4, <2>5, <2>6 DEF GradedInv
  <2> QED BY <2>2, <2>7
<1>j. ASSUME NEW file \in Job, WriteGrading(file) PROVE GradedInv' /\ UnderwayInv'
  <2> DEFINE new == [graded |-> outputs[file], entries |-> entries]
  <2>1. /\ command = "writing" /\ Due(file) /\ command' = "judge"
        /\ judges' = [judges EXCEPT ![file] = {new}]
        /\ pending' = Judges /\ entries' = {} /\ queue' = queue \ {file}
        /\ UNCHANGED <<outputs, report>>
    BY <1>j DEF WriteGrading, results
  <2>2. file \in Voluntary /\ queue \subseteq Voluntary /\ UnderwayInv!2
    BY <2>1, <1>1 DEF UnderwayInv, JudgingNow, Due
  <2>3. UnderwayInv'
    <3>1. queue' \subseteq Voluntary'
      BY <2>1, <2>2 DEF Voluntary
    <3> QED BY <3>1, <2>1, NothingEntered
  <2>4. Whole(new)
    <3>1. PICK r \in written : outputs[file] = {r} /\ r.job = file /\ r.voluntary
      BY <2>2, <1>1 DEF OutputsInv, Voluntary
    <3>2. Cardinality({r}) = 1
      BY FS_Singleton
    <3>3. Grade(Author[file], "ok") \notin entries
      BY <2>1, <2>2
    <3>4. Called = Len(Judges) /\ Len(Judges) \in Nat
      BY <2>1, <2>2, BatchAssumption DEF Called
    <3>5. { entry.judge : entry \in entries } = ToSet(Judges)
      <4>1. { entry.judge : entry \in entries } = { Judges[i] : i \in 1 .. Len(Judges) }
        BY <2>2, <3>4
      <4>2. DOMAIN Judges = 1 .. Len(Judges)
        BY BatchAssumption
      <4> QED BY <4>1, <4>2 DEF ToSet
    <3>6. Cardinality(entries) = Len(Judges)
      BY <2>2, <3>4
    <3> QED BY <3>1, <3>2, <3>3, <3>5, <3>6 DEF Whole
  <2> HIDE DEF new
  <2> DEFINE W(g) == Whole(g)
  <2>5. \A g : W(g) => W(g)'
    BY <1>2, WholeStays
  <2>6. \A j \in Job : \A g \in judges'[j] : g = Torn \/ W(g)
    BY <2>1, <2>4, <1>1 DEF GradedInv
  <2>7. judges' = [j \in Job |-> judges'[j]] /\ \A g \in report'.entries : W(g)
    BY <2>1, <1>1 DEF GradedInv
  <2>8. Torn' = Torn
    BY DEF Torn
  <2>9. GradedInv'
    BY <2>5, <2>6, <2>7, <2>8 DEF GradedInv
  <2> QED BY <2>3, <2>9
<1>k. CASE EndJudging
  <2>1. command' = "idle" /\ UNCHANGED <<judges, report>>
    BY <1>k DEF EndJudging, grading
  <2> QED BY <2>1, <1>3 DEF UnderwayInv, JudgingNow
<1> QED
  BY <1>a, <1>b, <1>c, <1>d, <1>e, <1>g, <1>h, <1>i, <1>j, <1>k DEF BatchNext, Judging

\* Whatever a report pools was graded once by each judge and by no author,
\* for any number of jobs, judges and retries, however calls failed, commands
\* were killed and results were replaced in between.
THEOREM GradingsAreWhole == BatchSpec => []PooledGradingsAreWhole
<1>1. BatchInit => JudgeInv
  <2> SUFFICES ASSUME BatchInit PROVE JudgeInv
    OBVIOUS
  <2>1. UnderwayInv
    BY DEF BatchInit, UnderwayInv, JudgingNow
  <2>2. GradedInv
    BY DEF BatchInit, GradedInv, NoFile
  <2>3. OutputsInv
    <3>1. outputs = [j \in Job |-> outputs[j]] /\ written = UNION { outputs[j] : j \in Job }
      BY DEF BatchInit
    <3>2. \A j \in Job : outputs[j] = {} \/ outputs[j] = {Result(j, Unmarked, 0, TRUE)}
      BY DEF BatchInit, NoFile, OldOutput
    <3>3. \A j \in Job : Result(j, Unmarked, 0, TRUE).job = j
      BY DEF Result
    <3> QED BY <3>1, <3>2, <3>3 DEF OutputsInv
  <2> QED BY <2>1, <2>2, <2>3 DEF JudgeInv
<1>2. JudgeInv => PooledGradingsAreWhole
  BY DEF JudgeInv, GradedInv, Whole, PooledGradingsAreWhole
<1> QED BY <1>1, <1>2, NextJudge, PTL DEF BatchSpec
=============================================================================
