------------------------------ MODULE SuiteRun ------------------------------
(***************************************************************************)
(* run-v3-suite (_cmd_run_v3_suite, stochopia/benchmark_cli.py) over one   *)
(* output directory that outlives the process: every job, a task with a    *)
(* replicate, has a trajectory, a summary and an evaluation there, each    *)
(* replaced atomically but one after the other.  The command may be        *)
(* stopped between any two writes and started again, with the same         *)
(* settings or with others: another suite that shares tasks, another       *)
(* policy, another build of the package, or --force.                       *)
(*                                                                         *)
(* A rollout is AgentRollout; here it leaves a verified trajectory that is *)
(* complete or partial, or nothing.  Replaying a trajectory under the      *)
(* build that made it succeeds; under another build it may diverge.        *)
(***************************************************************************)
EXTENDS Naturals, FiniteSets, SequencesExt

CONSTANTS
  Jobs,               \* jobs of the suite, tasks times replicates
  Settings,           \* what the command may be started with
  MaxRollouts,        \* bound of the model: rollouts of all invocations
  MaxInterruptions    \* bound of the model: commands that did not get to their end

ASSUME SuiteAssumption ==
  /\ Jobs \in Nat \ {0}
  /\ \A s \in Settings : DOMAIN s = {"suite", "policy", "build", "force"} /\ s.force \in BOOLEAN
  /\ MaxRollouts \in Nat
  /\ MaxInterruptions \in Nat

VARIABLES
  disk,            \* job -> its three files, each a set of at most one content
  reports,         \* aggregate.v3.json, aggregate.v3.csv and run-manifest.v3.json
  command,         \* what the command is doing, "none" when it is not running
  settings,        \* what it was started with
  collected,       \* evaluations, in the order of the jobs
  counts,          \* failures and resumed
  rollouts,        \* all so far, and the complete ones since the settings changed
  interruptions    \* commands stopped before their end

store   == <<disk, reports>>
process == <<command, settings, collected, counts>>
vars    == <<store, process, rollouts, interruptions>>

Job == Len(collected) + 1

Files == disk[Job]

NoFiles == [trajectory |-> {}, summary |-> {}, evaluation |-> {}]

SuiteInit ==
  /\ disk = [job \in 1 .. Jobs |-> NoFiles]
  /\ reports = [aggregate |-> {}, table |-> {}, manifest |-> {}]
  /\ command = "none"
  /\ settings \in Settings
  /\ collected = << >>
  /\ counts = [failures |-> 0, resumed |-> 0]
  /\ rollouts = [all |-> 0, complete |-> 0]
  /\ interruptions = 0

Start(chosen) ==
  /\ command \in {"none", "done"}
  /\ command' = "choosing"
  /\ settings' = chosen
  /\ collected' = << >>
  /\ counts' = [failures |-> 0, resumed |-> 0]
  /\ rollouts' = IF chosen = settings /\ ~ chosen.force THEN rollouts
                 ELSE [rollouts EXCEPT !.complete = 0]
  /\ UNCHANGED <<store, interruptions>>

-----------------------------------------------------------------------------
(* One job.                                                                *)

\* What replay_and_evaluate makes of a trajectory whose replay succeeds.
Evaluation(trajectory) ==
  [run |-> trajectory.run, policy |-> trajectory.policy, suite |-> settings.suite]

\* Mutants: the status of the trajectory is not compared; only a suite that was
\* reported is resumed.
MatchesPartial(trajectory) ==
  /\ trajectory.policy = settings.policy
  /\ \E summary \in Files.summary : summary.suite = settings.suite
MatchesReported(trajectory) ==
  /\ trajectory.complete
  /\ trajectory.policy = settings.policy
  /\ \E manifest \in reports.manifest : manifest.suite = settings.suite

Matches(trajectory) ==
  /\ trajectory.complete
  /\ trajectory.policy = settings.policy
  /\ \E summary \in Files.summary : summary.suite = settings.suite

Resumable(trajectory) == ~ settings.force /\ Matches(trajectory)

Collect(trajectory, failed, again) ==
  /\ disk' = [disk EXCEPT ![Job].evaluation = {Evaluation(trajectory)}]
  /\ collected' = Append(collected, Evaluation(trajectory))
  /\ counts' = [ failures |-> counts.failures + (IF failed THEN 1 ELSE 0),
                 resumed  |-> counts.resumed + (IF again THEN 1 ELSE 0) ]
  /\ command' = IF Job = Jobs THEN "aggregating" ELSE "choosing"

\* Mutant: the evaluation found on disk is taken as it is.
ResumeUnreplayed ==
  /\ command = "choosing"
  /\ \E trajectory \in Files.trajectory, evaluation \in Files.evaluation :
       /\ Resumable(trajectory)
       /\ collected' = Append(collected, evaluation)
       /\ counts' = [counts EXCEPT !.resumed = @ + 1]
       /\ command' = IF Job = Jobs THEN "aggregating" ELSE "choosing"
       /\ UNCHANGED <<store, settings, rollouts, interruptions>>

Resume ==
  /\ command = "choosing"
  /\ \E trajectory \in Files.trajectory :
       /\ Resumable(trajectory)
       /\ Collect(trajectory, FALSE, TRUE)
       /\ UNCHANGED <<reports, settings, rollouts, interruptions>>

\* Nothing to resume, or a replay that diverges under this build.
DecideToRun ==
  /\ command = "choosing"
  /\ \A trajectory \in Files.trajectory :
       Resumable(trajectory) => trajectory.build # settings.build
  /\ command' = "rolling"
  /\ UNCHANGED <<store, settings, collected, counts, rollouts, interruptions>>

\* Reading the files or writing the evaluation failed: the job runs again.
ResumeFails ==
  /\ command = "choosing"
  /\ \E trajectory \in Files.trajectory : Resumable(trajectory)
  /\ interruptions < MaxInterruptions
  /\ interruptions' = interruptions + 1
  /\ command' = "rolling"
  /\ UNCHANGED <<store, settings, collected, counts, rollouts>>

Rollout(complete) ==
  /\ command = "rolling"
  /\ rollouts.all < MaxRollouts
  /\ rollouts' = [ all      |-> rollouts.all + 1,
                   complete |-> rollouts.complete + (IF complete THEN 1 ELSE 0) ]
  /\ disk' = [disk EXCEPT ![Job].trajectory =
                {[ run      |-> rollouts.all + 1,
                   policy   |-> settings.policy,
                   build    |-> settings.build,
                   complete |-> complete ]}]
  /\ command' = "summarising"
  /\ UNCHANGED <<reports, settings, collected, counts, interruptions>>

WriteSummary ==
  /\ command = "summarising"
  /\ \E trajectory \in Files.trajectory :
       /\ disk' = [disk EXCEPT ![Job].summary =
                     {[run |-> trajectory.run, suite |-> settings.suite]}]
       /\ command' = "evaluating"
       /\ UNCHANGED <<reports, settings, collected, counts, rollouts, interruptions>>

\* Mutant: only a complete trajectory can be evaluated.
EvaluateComplete ==
  /\ command = "evaluating"
  /\ \E trajectory \in Files.trajectory :
       /\ trajectory.complete
       /\ Collect(trajectory, ~ trajectory.complete, FALSE)
       /\ UNCHANGED <<reports, settings, rollouts, interruptions>>

\* A fresh trajectory is replayed by the build that made it.
Evaluate ==
  /\ command = "evaluating"
  /\ \E trajectory \in Files.trajectory :
       /\ Collect(trajectory, ~ trajectory.complete, FALSE)
       /\ UNCHANGED <<reports, settings, rollouts, interruptions>>

-----------------------------------------------------------------------------
(* The reports.                                                            *)

\* aggregate_evaluations: one suite, one configuration per policy.
Aggregable ==
  /\ collected # << >>
  /\ \A i, j \in DOMAIN collected :
       collected[i].suite = collected[j].suite /\ collected[i].policy = collected[j].policy

SaveAggregate ==
  /\ command = "aggregating"
  /\ Aggregable
  /\ reports' = [reports EXCEPT !.aggregate = {collected}]
  /\ command' = "tabulating"
  /\ UNCHANGED <<disk, settings, collected, counts, rollouts, interruptions>>

SaveTable ==
  /\ command = "tabulating"
  /\ reports' = [reports EXCEPT !.table = {collected}]
  /\ command' = "reporting"
  /\ UNCHANGED <<disk, settings, collected, counts, rollouts, interruptions>>

SaveManifest ==
  /\ command = "reporting"
  /\ reports' = [reports EXCEPT !.manifest =
                   {[ suite       |-> settings.suite,
                      run_count   |-> Jobs,
                      evaluations |-> Len(collected),
                      failures    |-> counts.failures,
                      resumed     |-> counts.resumed,
                      aggregate   |-> collected ]}]
  /\ command' = "done"
  /\ UNCHANGED <<disk, settings, collected, counts, rollouts, interruptions>>

\* A kill, a full disk, or an exception: of the environment in a rollout, of
\* a replay under another build, of a policy that cannot be constructed.
Interrupt ==
  /\ command \notin {"none", "done"}
  /\ interruptions < MaxInterruptions
  /\ interruptions' = interruptions + 1
  /\ command' = "none"
  /\ UNCHANGED <<store, settings, collected, counts, rollouts>>

-----------------------------------------------------------------------------
RunJob ==
  \/ Resume
  \/ DecideToRun
  \/ \E complete \in BOOLEAN : Rollout(complete)
  \/ WriteSummary
  \/ Evaluate

Report == SaveAggregate \/ SaveTable \/ SaveManifest

SuiteNext ==
  \/ \E chosen \in Settings : Start(chosen)
  \/ RunJob
  \/ ResumeFails
  \/ Report
  \/ Interrupt

SuiteSpec == SuiteInit /\ [][SuiteNext]_vars

\* A command that is not stopped runs to its end, and a stopped one is started
\* again.
FairSuiteSpec ==
  /\ SuiteSpec
  /\ WF_vars(RunJob \/ Report)
  /\ WF_vars(command = "none" /\ \E chosen \in Settings : Start(chosen))

-----------------------------------------------------------------------------
(* Properties.                                                             *)

Running == command \notin {"none"}

\* Nothing stale is collected: in whatever state earlier commands left the
\* directory, every evaluation this one has collected was made, under its
\* suite, of the trajectory that now stands there, and by its policy.  So the
\* aggregation is never refused for evaluations that do not belong together.
CollectedIsCurrent ==
  Running =>
    \A job \in DOMAIN collected :
      /\ disk[job].evaluation = {collected[job]}
      /\ \E trajectory \in disk[job].trajectory :
           /\ collected[job] = Evaluation(trajectory)
           /\ trajectory.policy = settings.policy

\* A finished command tells the truth about the directory: its failures are
\* the partial trajectories there, whoever rolled them out, and aggregate,
\* table and manifest are of the same evaluations, one per job.
ManifestTellsTheDisk ==
  command = "done" =>
    \E manifest \in reports.manifest :
      /\ manifest.evaluations = Jobs
      /\ manifest.failures =
           Cardinality({job \in 1 .. Jobs : \E t \in disk[job].trajectory : ~ t.complete})
      /\ manifest.resumed + manifest.failures <= Jobs
      /\ reports.aggregate = {manifest.aggregate}
      /\ reports.table = {manifest.aggregate}

\* An interruption costs one rollout: while the command is started with the
\* same settings again and again, no complete rollout is repeated but the one
\* whose summary or reading an interruption prevented, whatever commands with
\* other settings had left in the directory.
InterruptionsCostOneRollout == rollouts.complete <= Jobs + interruptions

\* A suite that is started again after every interruption gets to its end.
SuiteFinishes == <>(command = "done")

=============================================================================
