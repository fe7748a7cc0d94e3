----------------------------- MODULE MarketBatch -----------------------------
(***************************************************************************)
(* The resumable collection of market data, stochopia/tushare_batch.py:    *)
(* a plan of requests fetched one after the other into a cache of table    *)
(* and metadata files.  A rerun serves what is complete from the cache.    *)
(* The process may be killed between any two file operations.              *)
(*                                                                         *)
(* The service may answer the same request differently another day: a      *)
(* table is known by the number of the answer it holds.                    *)
(***************************************************************************)
EXTENDS Integers, FiniteSets

CONSTANTS
  Specs,       \* the length of the plan
  Optional,    \* the requests whose failure does not end the run
  Retries,     \* --retries
  MaxAnswers   \* bound: answers of the service in a behaviour

ASSUME CollectAssumption == /\ Specs \in Nat \ {0}
                            /\ Optional \subseteq 1 .. Specs
                            /\ Retries \in Nat
                            /\ MaxAnswers \in Nat

VARIABLES
  activity,   \* what the process is doing
  spec,       \* the request of the plan it is at
  attempt,    \* failed attempts of this request
  stopped,    \* the service asked to cool down
  answers,    \* answers received so far
  table,      \* <key>.csv: the answer it holds, 0 if there is none
  metadata,   \* <key>.json: the answer it describes, 0 if there is none
  served,     \* what this run returned for each request, 0 if nothing
  skipped,    \* optional requests this run gave up
  manifest    \* what manifest.sha256 lists: the tables and the metadata

files == <<table, metadata, manifest>>
fetch == <<spec, attempt, stopped, served, skipped>>
collection == <<activity, answers, files, fetch>>

Spec == 1 .. Specs
Nothing == [s \in Spec |-> 0]

CollectInit ==
  /\ activity = "off"
  /\ spec = 1
  /\ attempt = 0
  /\ stopped = FALSE
  /\ answers = 0
  /\ table = Nothing
  /\ metadata = Nothing
  /\ served = Nothing
  /\ skipped = {}
  /\ manifest = <<Nothing, Nothing>>

\* A new process: the flag of the last one is gone, its files are not.
StartCollecting ==
  /\ activity \in {"off", "done", "ended"}
  /\ activity' = "fetching"
  /\ spec' = 1
  /\ attempt' = 0
  /\ stopped' = FALSE
  /\ served' = Nothing
  /\ skipped' = {}
  /\ UNCHANGED <<answers, files>>

Complete(s) == table[s] # 0 /\ metadata[s] = table[s]

Fetching == activity = "fetching" /\ spec <= Specs

Serve(answer) ==
  /\ served' = [served EXCEPT ![spec] = answer]
  /\ spec' = spec + 1
  /\ attempt' = 0

\* _cached_result: the table is there and is the one the metadata describes.
ServeCached ==
  /\ Fetching
  /\ attempt = 0
  /\ Complete(spec)
  /\ Serve(table[spec])
  /\ UNCHANGED <<activity, answers, files, stopped, skipped>>

\* Mutant: a request is made whatever is in the cache.
MustAskAlways == Fetching /\ ~ stopped

MustAsk == Fetching /\ ~ stopped /\ (attempt > 0 \/ ~ Complete(spec))

\* The answer is stored: first the table replaces the old one ...
StoreTable ==
  /\ MustAsk
  /\ answers < MaxAnswers
  /\ answers' = answers + 1
  /\ table' = [table EXCEPT ![spec] = answers + 1]
  /\ activity' = "storing"
  /\ UNCHANGED <<metadata, manifest, fetch>>

\* ... then the metadata.
StoreMetadata ==
  /\ activity = "storing"
  /\ metadata' = [metadata EXCEPT ![spec] = table[spec]]
  /\ Serve(table[spec])
  /\ activity' = "fetching"
  /\ UNCHANGED <<answers, table, manifest, stopped, skipped>>

\* The request, or storing what it brought, fails; retried at most Retries
\* times, then the run goes on only without an optional request.
FetchFails ==
  /\ MustAsk \/ activity = "storing"
  /\ IF attempt < Retries
     THEN /\ attempt' = attempt + 1
          /\ activity' = "fetching"
          /\ UNCHANGED <<spec, skipped>>
     ELSE IF spec \in Optional
     THEN /\ skipped' = skipped \cup {spec}
          /\ spec' = spec + 1
          /\ attempt' = 0
          /\ activity' = "fetching"
     ELSE /\ activity' = "closing"
          /\ UNCHANGED <<spec, attempt, skipped>>
  /\ UNCHANGED <<answers, files, stopped, served>>

\* The service asks to cool down: nothing is retried, the run ends.
RateLimited ==
  /\ MustAsk
  /\ stopped' = TRUE
  /\ activity' = "closing"
  /\ UNCHANGED <<spec, attempt, answers, files, served, skipped>>

\* The manifest is written whether the plan was finished or not.
WriteManifest ==
  /\ activity = "closing" \/ (activity = "fetching" /\ spec > Specs)
  /\ manifest' = <<table, metadata>>
  /\ activity' = IF activity = "closing" THEN "ended" ELSE "done"
  /\ UNCHANGED <<answers, table, metadata, fetch>>

KillCollector ==
  /\ activity \in {"fetching", "storing", "closing"}
  /\ activity' = "off"
  /\ UNCHANGED <<answers, files, fetch>>

CollectNext ==
  \/ StartCollecting \/ ServeCached \/ StoreTable \/ StoreMetadata
  \/ FetchFails \/ RateLimited \/ WriteManifest \/ KillCollector

CollectSpec == CollectInit /\ [][CollectNext]_collection

-----------------------------------------------------------------------------
CollectTypeOK ==
  /\ activity \in {"off", "fetching", "storing", "closing", "done", "ended"}
  /\ spec \in 1 .. Specs + 1
  /\ attempt \in 0 .. Retries
  /\ stopped \in BOOLEAN
  /\ answers \in Nat
  /\ table \in [Spec -> Nat]
  /\ metadata \in [Spec -> Nat]
  /\ served \in [Spec -> Nat]
  /\ skipped \subseteq Optional

\* What a run that got through returned is what lies on the disk, complete,
\* and is what the manifest lists: every request of the plan was served or
\* was optional, although files are replaced one at a time, storing may fail
\* half way and be retried, and earlier runs were killed (fetch, run_specs).
FinishedRunIsOnDisk ==
  activity = "done" =>
    /\ manifest = <<table, metadata>>
    /\ \A s \in Spec : s \in skipped \/ (Complete(s) /\ served[s] = table[s])

\* Completed work is kept: once an entry is complete it stays so, and holds
\* the same answer, through every failure, rate limit, kill and rerun
\* ("completed cache was preserved").
CompletedEntriesStay ==
  [][ \A s \in Spec : Complete(s) => table'[s] = table[s] /\ metadata'[s] = metadata[s] ]_collection

=============================================================================
