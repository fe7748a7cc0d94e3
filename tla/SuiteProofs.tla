----------------------------- MODULE SuiteProofs -----------------------------
(***************************************************************************)
(* The suite runner, SuiteRun, for any number of jobs and any settings the *)
(* command is started with, in any order: what it collects is current, its *)
(* manifest tells what is on the disk, and an interruption costs one       *)
(* rollout.  And the rollout of one job, AgentRollout: its trajectory can  *)
(* be saved, and is whole once it is.                                      *)
(***************************************************************************)
EXTENDS SuiteRun, AgentRollout, TLAPS, FiniteSetTheorems

Rollouts == [run : Nat, policy : {s.policy : s \in Settings},
             build : {s.build : s \in Settings}, complete : BOOLEAN]

Summaries == [run : Nat, suite : {s.suite : s \in Settings}]

Evaluations == [run : Nat, policy : {s.policy : s \in Settings},
                suite : {s.suite : s \in Settings}]

Directory == [1 .. Jobs -> [ trajectory : SUBSET Rollouts,
                             summary    : SUBSET Summaries,
                             evaluation : SUBSET Evaluations ]]

AtJob == {"choosing", "rolling", "summarising", "evaluating"}

\* While the command is at a job, that job has nothing collected yet; and once
\* it has rolled a job out, what stands there is of its own policy.
SuiteInv ==
  /\ disk \in Directory
  /\ settings \in Settings
  /\ collected \in Seq(Evaluations)
  /\ Len(collected) <= Jobs
  /\ rollouts \in [all : Nat, complete : Nat]
  /\ command \in AtJob => Len(collected) < Jobs
  /\ command \in {"summarising", "evaluating"} =>
       \A trajectory \in disk[Len(collected) + 1].trajectory :
         trajectory.policy = settings.policy
  /\ CollectedIsCurrent

-----------------------------------------------------------------------------
\* Replacing a file leaves a directory of the same shape.
LEMMA Written ==
  ASSUME disk \in Directory, NEW job \in 1 .. Jobs,
         NEW t \in SUBSET Rollouts, NEW s \in SUBSET Summaries
  PROVE  /\ [disk EXCEPT ![job].trajectory = t] \in Directory
         /\ [disk EXCEPT ![job].summary = s] \in Directory
BY DEF Directory

\* A change of the files of the present job leaves those of the jobs collected
\* before it alone.
LEMMA CollectedBefore ==
  ASSUME SuiteInv
  PROVE  \A files, job : job \in DOMAIN collected =>
           [disk EXCEPT ![Job] = files][job] = disk[job]
<1>1. DOMAIN collected = 1 .. Len(collected) /\ Len(collected) \in Nat
  BY DEF SuiteInv
<1>2. \A job \in DOMAIN collected : job # Job /\ job \in 1 .. Jobs
  BY <1>1, SuiteAssumption DEF SuiteInv, Job
<1>3. DOMAIN disk = 1 .. Jobs
  BY DEF SuiteInv, Directory
<1> QED BY <1>2, <1>3

\* Collecting the evaluation of a trajectory of the command's own policy keeps
\* the invariant: Collect touches the files of no job collected before.
LEMMA CollectKeeps ==
  ASSUME SuiteInv,
         command \in AtJob,
         NEW trajectory \in disk[Job].trajectory,
         trajectory.policy = settings.policy,
         NEW failed, NEW again,
         Collect(trajectory, failed, again),
         UNCHANGED <<settings, rollouts>>
  PROVE  SuiteInv'
<1> DEFINE made == Evaluation(trajectory)
<1>1. Job \in 1 .. Jobs /\ Job = Len(collected) + 1
  BY SuiteAssumption DEF SuiteInv, Job
<1>2. trajectory \in Rollouts
  BY <1>1 DEF SuiteInv, Directory
<1>3. made \in Evaluations
  BY <1>2 DEF Evaluation, Evaluations, Rollouts, SuiteInv
<1>4. disk' = [disk EXCEPT ![Job].evaluation = {made}]
      /\ collected' = Append(collected, made)
      /\ command' \in {"aggregating", "choosing"}
      /\ (command' = "choosing" => Job # Jobs)
  BY DEF Collect
<1>5. disk' \in Directory
  BY <1>1, <1>3, <1>4 DEF SuiteInv, Directory
<1>6. /\ collected' \in Seq(Evaluations)
      /\ Len(collected') = Job
      /\ collected'[Job] = made
      /\ \A job \in DOMAIN collected : collected'[job] = collected[job]
      /\ DOMAIN collected' = DOMAIN collected \cup {Job}
  BY <1>1, <1>3, <1>4 DEF SuiteInv
<1>7. \A job \in DOMAIN collected : disk'[job] = disk[job]
  BY <1>1, <1>4, CollectedBefore
<1>8. disk'[Job].trajectory = disk[Job].trajectory /\ disk'[Job].evaluation = {made}
  BY <1>1, <1>4 DEF SuiteInv, Directory
<1>9. CollectedIsCurrent'
  <2> SUFFICES ASSUME NEW job \in DOMAIN collected'
               PROVE  /\ disk'[job].evaluation = {collected'[job]}
                      /\ \E t \in disk'[job].trajectory :
                           collected'[job] = Evaluation(t)' /\ t.policy = settings'.policy
    BY DEF CollectedIsCurrent
  <2>1. CASE job = Job
    BY <2>1, <1>6, <1>8 DEF Evaluation
  <2>2. CASE job \in DOMAIN collected
    <3>1. Running
      BY DEF Running, AtJob
    <3> QED BY <2>2, <3>1, <1>6, <1>7 DEF SuiteInv, CollectedIsCurrent, Evaluation
  <2> QED BY <2>1, <2>2, <1>6
<1>10. command' \in AtJob => Len(collected') < Jobs
  BY <1>1, <1>4, <1>6, SuiteAssumption DEF AtJob
<1>11. command' \notin {"summarising", "evaluating"} /\ Len(collected') <= Jobs
  BY <1>1, <1>4, <1>6, SuiteAssumption
<1> QED BY <1>5, <1>6, <1>9, <1>10, <1>11 DEF SuiteInv

-----------------------------------------------------------------------------
\* An empty directory satisfies the invariant,
LEMMA InitKeeps == SuiteInit => SuiteInv
<1> SUFFICES ASSUME SuiteInit PROVE SuiteInv
  OBVIOUS
<1>1. disk \in Directory
  BY DEF SuiteInit, NoFiles, Directory
<1>2. collected \in Seq(Evaluations) /\ Len(collected) = 0
  BY DEF SuiteInit
<1> QED BY <1>1, <1>2, SuiteAssumption DEF SuiteInit, SuiteInv, AtJob, CollectedIsCurrent, Running

\* and every step keeps it: a job's files change only while that job has nothing
\* collected, and an evaluation is collected together with its file.
LEMMA NextKeeps == SuiteInv /\ [SuiteNext]_vars => SuiteInv'
<1> SUFFICES ASSUME SuiteInv, [SuiteNext]_vars PROVE SuiteInv'
  OBVIOUS
<1> USE SuiteAssumption
<1>1. ASSUME NEW chosen \in Settings, Start(chosen) PROVE SuiteInv'
  BY <1>1 DEF Start, store, SuiteInv, AtJob, CollectedIsCurrent
<1>2. CASE Resume
  <2>1. PICK trajectory \in disk[Job].trajectory :
          Resumable(trajectory) /\ Collect(trajectory, FALSE, TRUE)
          /\ UNCHANGED <<settings, rollouts>>
    BY <1>2 DEF Resume, Files
  <2> QED BY <2>1, <1>2, CollectKeeps DEF Resume, Resumable, Matches, AtJob
<1>3. CASE DecideToRun \/ ResumeFails
  BY <1>3 DEF DecideToRun, ResumeFails, store, SuiteInv, AtJob, CollectedIsCurrent, Running, Evaluation
<1>4. ASSUME NEW complete \in BOOLEAN, Rollout(complete) PROVE SuiteInv'
  <2> DEFINE made == [ run |-> rollouts.all + 1, policy |-> settings.policy,
                       build |-> settings.build, complete |-> complete ]
  <2>1. Job \in 1 .. Jobs /\ Job = Len(collected) + 1 /\ command \in AtJob
    BY <1>4 DEF SuiteInv, Job, Rollout, AtJob
  <2>2. made \in Rollouts
    BY DEF Rollouts, SuiteInv
  <2>3. disk' = [disk EXCEPT ![Job].trajectory = {made}]
    BY <1>4 DEF Rollout
  <2>4. disk' \in Directory
    <3> HIDE DEF made
    <3> QED BY <2>1, <2>2, <2>3, Written DEF SuiteInv
  <2>5. disk'[Job].trajectory = {made} /\ made.policy = settings.policy
    BY <2>1, <2>3 DEF SuiteInv, Directory
  <2>6. \A job \in DOMAIN collected : disk'[job] = disk[job]
    BY <2>1, <2>3, CollectedBefore
  <2>7. UNCHANGED <<settings, collected>> /\ command' = "summarising"
        /\ rollouts' \in [all : Nat, complete : Nat]
    BY <1>4 DEF Rollout, SuiteInv
  <2>8. CollectedIsCurrent'
    BY <2>1, <2>6, <2>7 DEF SuiteInv, CollectedIsCurrent, Running, AtJob, Evaluation
  <2>9. \A t \in disk'[Len(collected') + 1].trajectory : t.policy = settings'.policy
    BY <2>1, <2>5, <2>7
  <2>10. Len(collected') < Jobs
    BY <2>1, <2>7 DEF SuiteInv
  <2> HIDE DEF made
  <2> QED BY <2>4, <2>7, <2>8, <2>9, <2>10 DEF SuiteInv
<1>5. CASE WriteSummary
  <2>1. PICK trajectory \in disk[Job].trajectory :
          disk' = [disk EXCEPT ![Job].summary = {[run |-> trajectory.run, suite |-> settings.suite]}]
    BY <1>5 DEF WriteSummary, Files
  <2>2. Job \in 1 .. Jobs /\ Job = Len(collected) + 1
    BY <1>5 DEF SuiteInv, Job, WriteSummary, AtJob
  <2>3. [run |-> trajectory.run, suite |-> settings.suite] \in Summaries
    BY <2>2 DEF SuiteInv, Directory, Rollouts, Summaries
  <2>4. disk' \in Directory
    BY <2>1, <2>2, <2>3, Written DEF SuiteInv
  <2>5. disk'[Job].trajectory = disk[Job].trajectory
        /\ \A job \in DOMAIN collected : disk'[job] = disk[job]
    BY <2>1, <2>2, CollectedBefore DEF SuiteInv, Directory
  <2>6. UNCHANGED <<settings, collected, rollouts>> /\ command = "summarising" /\ command' = "evaluating"
    BY <1>5 DEF WriteSummary
  <2>7. CollectedIsCurrent'
    BY <2>5, <2>6 DEF SuiteInv, CollectedIsCurrent, Running, Evaluation
  <2>8. \A t \in disk'[Len(collected') + 1].trajectory : t.policy = settings'.policy
    BY <2>2, <2>5, <2>6 DEF SuiteInv
  <2>9. Len(collected') < Jobs
    BY <2>6 DEF SuiteInv, AtJob
  <2> QED BY <2>4, <2>6, <2>7, <2>8, <2>9 DEF SuiteInv
<1>6. CASE Evaluate
  <2>1. PICK trajectory \in disk[Job].trajectory :
          Collect(trajectory, ~ trajectory.complete, FALSE) /\ UNCHANGED <<settings, rollouts>>
    BY <1>6 DEF Evaluate, Files
  <2>2. trajectory.policy = settings.policy
    BY <1>6 DEF Evaluate, SuiteInv, Job
  <2> QED BY <2>1, <2>2, <1>6, CollectKeeps DEF Evaluate, AtJob
<1>7. CASE Report
  BY <1>7 DEF Report, SaveAggregate, SaveTable, SaveManifest, SuiteInv, AtJob,
              CollectedIsCurrent, Running, Evaluation
<1>8. CASE Interrupt
  BY <1>8 DEF Interrupt, store, SuiteInv, AtJob, CollectedIsCurrent, Running
<1>9. CASE UNCHANGED vars
  BY <1>9 DEF vars, store, process, SuiteInv, AtJob, CollectedIsCurrent, Running, Evaluation
<1> QED BY <1>1, <1>2, <1>3, <1>4, <1>5, <1>6, <1>7, <1>8, <1>9 DEF SuiteNext, RunJob

\* Nothing stale is ever collected: whatever suites, policies and builds the
\* command was started with before, and wherever it was stopped.
THEOREM NothingStaleIsCollected == SuiteSpec => []CollectedIsCurrent
<1>1. SuiteInv => CollectedIsCurrent
  BY DEF SuiteInv
<1> QED BY InitKeeps, NextKeeps, <1>1, PTL DEF SuiteSpec

-----------------------------------------------------------------------------
(* What a finished command reports, and what an interruption costs.        *)

PartialUpTo(n) == { job \in 1 .. n : \E t \in disk[job].trajectory : ~ t.complete }

Reporting == {"aggregating", "tabulating", "reporting", "done"}

\* The counters tell the files of the jobs collected so far, and the reports
\* already written are of what was collected.
TellingInv ==
  /\ \A job \in 1 .. Jobs : \A t, u \in disk[job].trajectory : t = u
  /\ counts \in [failures : Nat, resumed : Nat]
  /\ reports = [ aggregate |-> reports.aggregate, table |-> reports.table,
                 manifest |-> reports.manifest ]
  /\ command \in AtJob \cup Reporting \cup {"none"}
  /\ Running => /\ counts.failures = Cardinality(PartialUpTo(Len(collected)))
                /\ counts.resumed + counts.failures <= Len(collected)
  /\ command \in Reporting => Len(collected) = Jobs
  /\ command \in {"tabulating", "reporting", "done"} => reports.aggregate = {collected}
  /\ command \in {"reporting", "done"} => reports.table = {collected}
  /\ command = "done" =>
       \E manifest \in reports.manifest :
         /\ manifest.evaluations = Len(collected) /\ manifest.failures = counts.failures
         /\ manifest.resumed = counts.resumed /\ manifest.aggregate = collected

\* What these settings have rolled out to its end and will resume: a complete
\* trajectory of theirs with its summary, or with the summary still to come.
Keeps(job, files) ==
  \E t \in files.trajectory :
    /\ t.complete /\ t.policy = settings.policy /\ t.build = settings.build
    /\ \/ command = "summarising" /\ job = Job
       \/ \E summary \in files.summary : summary.suite = settings.suite

Kept == { job \in 1 .. Jobs : Keeps(job, disk[job]) }

\* About to roll out once more what is there already.
Redoing == command = "rolling" /\ Job \in Kept

\* Every complete rollout is kept or was paid for by an interruption; what has
\* to be repeated was paid for when that was decided.  Under --force a command
\* rolls out each job once.
CostInv ==
  /\ interruptions \in Nat
  /\ ~ settings.force =>
       rollouts.complete + (IF Redoing THEN 1 ELSE 0) <= Cardinality(Kept) + interruptions
  /\ settings.force =>
       rollouts.complete <= Len(collected)
         + (IF command \in {"summarising", "evaluating"} THEN 1 ELSE 0) + interruptions

\* Sets of jobs are finite; what one job more or less makes of their number.
LEMMA SetsOfJobs ==
  ASSUME NEW S \in SUBSET (1 .. Jobs)
  PROVE  IsFiniteSet(S) /\ Cardinality(S) \in Nat /\ Cardinality(S) <= Jobs
<1>1. IsFiniteSet(1 .. Jobs) /\ Cardinality(1 .. Jobs) = Jobs
  BY SuiteAssumption, FS_Interval
<1> QED BY <1>1, FS_Subset, FS_CardinalityType

\* One job more or less counts one more or less.
LEMMA OneJobMore ==
  ASSUME NEW S \in SUBSET (1 .. Jobs), NEW T \in SUBSET (1 .. Jobs), NEW job
  PROVE  /\ S \subseteq T => Cardinality(S) <= Cardinality(T)
         /\ S \ {job} \subseteq T => Cardinality(S) - 1 <= Cardinality(T)
         /\ job \notin S /\ S \cup {job} \subseteq T => Cardinality(S) + 1 <= Cardinality(T)
<1>1. /\ IsFiniteSet(S) /\ Cardinality(S) \in Nat
      /\ IsFiniteSet(T) /\ Cardinality(T) \in Nat
  BY SetsOfJobs
<1>2. S \subseteq T => Cardinality(S) <= Cardinality(T)
  BY <1>1, FS_Subset
<1>3. ASSUME S \ {job} \subseteq T PROVE Cardinality(S) - 1 <= Cardinality(T)
  <2>1. Cardinality(S \ {job}) >= Cardinality(S) - 1
    <3>1. Cardinality(S \ {job}) = IF job \in S THEN Cardinality(S) - 1 ELSE Cardinality(S)
      BY <1>1, FS_RemoveElement, Zenon
    <3> QED BY <1>1, <3>1
  <2>2. Cardinality(S \ {job}) <= Cardinality(T) /\ Cardinality(S \ {job}) \in Nat
    BY <1>1, <1>3, FS_Subset, SetsOfJobs
  <2> QED BY <1>1, <2>1, <2>2
<1>4. ASSUME job \notin S, S \cup {job} \subseteq T PROVE Cardinality(S) + 1 <= Cardinality(T)
  <2>1. Cardinality(S \cup {job}) = Cardinality(S) + 1
    BY <1>1, <1>4, FS_AddElement
  <2>2. Cardinality(S \cup {job}) <= Cardinality(T)
    BY <1>1, <1>4, FS_Subset
  <2> QED BY <2>1, <2>2
<1> QED BY <1>2, <1>3, <1>4

\* Nothing is kept or lost by a step that writes no trajectory and no summary.
LEMMA SameKept ==
  ASSUME UNCHANGED settings, command # "summarising", command' # "summarising",
         \A job \in 1 .. Jobs : /\ disk'[job].trajectory = disk[job].trajectory
                                /\ disk'[job].summary = disk[job].summary
  PROVE  Kept' = Kept
<1>1. \A job \in 1 .. Jobs : Keeps(job, disk[job])' <=> Keeps(job, disk[job])
  BY DEF Keeps
<1> QED BY <1>1 DEF Kept

\* Collecting changes neither, and the job is no longer under way.
LEMMA CollectingCostsNothing ==
  ASSUME SuiteInv, CostInv, NEW trajectory, NEW failed, NEW again,
         Collect(trajectory, failed, again),
         command \in {"choosing", "evaluating"},
         UNCHANGED <<settings, rollouts, interruptions>>
  PROVE  CostInv'
<1>1. Job \in 1 .. Jobs /\ Job = Len(collected) + 1 /\ Len(collected) \in Nat
  BY SuiteAssumption DEF SuiteInv, Job, AtJob
<1>2. /\ disk' = [disk EXCEPT ![Job].evaluation = {Evaluation(trajectory)}]
      /\ collected' = Append(collected, Evaluation(trajectory))
      /\ command' \in {"aggregating", "choosing"}
  BY DEF Collect
<1>3. \A job \in 1 .. Jobs : /\ disk'[job].trajectory = disk[job].trajectory
                             /\ disk'[job].summary = disk[job].summary
  BY <1>1, <1>2 DEF SuiteInv, Directory
<1>4. Kept' = Kept
  BY <1>2, <1>3, SameKept
<1>5. ~ Redoing /\ ~ Redoing'
  BY <1>2 DEF Redoing
<1>6. Len(collected') = Len(collected) + 1
  BY <1>2 DEF SuiteInv
<1>7. rollouts.complete \in Nat /\ interruptions \in Nat
  BY DEF SuiteInv, CostInv
<1>8. settings.force =>
        rollouts.complete <= Len(collected')
          + (IF command' \in {"summarising", "evaluating"} THEN 1 ELSE 0) + interruptions
  BY <1>1, <1>2, <1>6, <1>7 DEF CostInv
<1> QED
  BY <1>4, <1>5, <1>8 DEF CostInv

\* The bound holds when nothing has been rolled out,
LEMMA InitCost == SuiteInit => CostInv
<1> SUFFICES ASSUME SuiteInit PROVE CostInv
  OBVIOUS
<1>1. /\ rollouts.complete = 0 /\ interruptions = 0 /\ collected = << >> /\ command = "none"
  BY DEF SuiteInit
<1>2. Cardinality(Kept) \in Nat /\ ~ Redoing /\ Len(collected) = 0
  BY <1>1, SetsOfJobs DEF Kept, Redoing
<1> QED BY <1>1, <1>2 DEF CostInv

\* and every step keeps it: a complete rollout adds a job to the kept ones, or
\* repeats one of those, which an interruption had paid for.
LEMMA NextCost == SuiteInv /\ CostInv /\ [SuiteNext]_vars => CostInv'
<1> SUFFICES ASSUME SuiteInv, CostInv, [SuiteNext]_vars PROVE CostInv'
  OBVIOUS
<1> USE SuiteAssumption
<1>0. /\ rollouts.complete \in Nat /\ rollouts.all \in Nat /\ interruptions \in Nat
      /\ Len(collected) \in Nat /\ settings.force \in BOOLEAN
      /\ Kept \in SUBSET (1 .. Jobs) /\ Kept' \in SUBSET (1 .. Jobs)
      /\ Cardinality(Kept) \in Nat /\ Cardinality(Kept') \in Nat
  <2>1. Kept \in SUBSET (1 .. Jobs) /\ Kept' \in SUBSET (1 .. Jobs)
    BY DEF Kept
  <2> QED BY <2>1, SetsOfJobs DEF SuiteInv, CostInv
<1>1. ASSUME NEW chosen \in Settings, Start(chosen) PROVE CostInv'
  <2>1. ~ Redoing /\ ~ Redoing' /\ Len(collected') = 0
        /\ command' = "choosing" /\ UNCHANGED interruptions
        /\ command \in {"none", "done"}
    BY <1>1 DEF Start, Redoing
  <2>2. CASE chosen = settings /\ ~ chosen.force
    <3>1. Kept' = Kept
      BY <1>1, <2>2, SameKept DEF Start, store
    <3>2. UNCHANGED <<settings, rollouts>>
      BY <1>1, <2>2 DEF Start
    <3> QED BY <2>1, <2>2, <3>1, <3>2 DEF CostInv
  <2>3. CASE ~ (chosen = settings /\ ~ chosen.force)
    <3>1. rollouts'.complete = 0
      BY <1>1, <2>3 DEF Start, SuiteInv
    <3> QED BY <1>0, <2>1, <3>1 DEF CostInv
  <2> QED BY <2>2, <2>3
<1>2. CASE Resume
  BY <1>2, CollectingCostsNothing DEF Resume
<1>3. CASE Evaluate
  BY <1>3, CollectingCostsNothing DEF Evaluate
<1>4. CASE DecideToRun
  <2>1. Kept' = Kept /\ UNCHANGED <<settings, rollouts, interruptions, collected>>
        /\ command = "choosing" /\ command' = "rolling"
    BY <1>4, SameKept DEF DecideToRun, store
  <2>2. ~ Redoing
    BY <2>1 DEF Redoing
  <2>3. ~ settings.force => Job \notin Kept
    BY <1>4, <2>1 DEF DecideToRun, Kept, Keeps, Files, Resumable, Matches
  <2>4. ~ settings'.force => ~ Redoing'
    BY <2>1, <2>3 DEF Redoing, Job
  <2> QED BY <1>0, <2>1, <2>2, <2>4 DEF CostInv
<1>5. CASE ResumeFails
  <2>1. Kept' = Kept /\ UNCHANGED <<settings, rollouts, collected>>
        /\ interruptions' = interruptions + 1
        /\ command = "choosing" /\ command' = "rolling"
    BY <1>5, SameKept DEF ResumeFails, store
  <2>2. ~ Redoing
    BY <2>1 DEF Redoing
  <2> QED BY <1>0, <2>1, <2>2 DEF CostInv
<1>6. ASSUME NEW complete \in BOOLEAN, Rollout(complete) PROVE CostInv'
  <2> DEFINE made == [ run |-> rollouts.all + 1, policy |-> settings.policy,
                       build |-> settings.build, complete |-> complete ]
  <2>1. Job \in 1 .. Jobs /\ Job' = Job
    BY <1>6 DEF SuiteInv, Job, Rollout, AtJob
  <2>2. /\ command = "rolling" /\ command' = "summarising"
        /\ disk' = [disk EXCEPT ![Job].trajectory = {made}]
        /\ UNCHANGED <<settings, collected, interruptions>>
        /\ rollouts'.complete = rollouts.complete + (IF complete THEN 1 ELSE 0)
    BY <1>6 DEF Rollout
  <2>3. /\ made.complete = complete /\ made.policy = settings.policy /\ made.build = settings.build
        /\ disk'[Job].trajectory = {made}
        /\ \A job \in 1 .. Jobs : job # Job => disk'[job] = disk[job]
    BY <2>1, <2>2 DEF SuiteInv, Directory
  <2> HIDE DEF made
  <2>4. \A job \in Kept : job # Job => job \in Kept'
    BY <2>1, <2>2, <2>3 DEF Kept, Keeps
  <2>5. complete => Job \in Kept'
    <3>1. complete => Keeps(Job, disk[Job])'
      BY <2>1, <2>2, <2>3 DEF Keeps
    <3> QED BY <2>1, <3>1 DEF Kept
  <2>6. ~ Redoing' /\ (Redoing <=> Job \in Kept)
    BY <2>2 DEF Redoing
  <2>7. ~ settings.force => rollouts'.complete <= Cardinality(Kept') + interruptions
    <3>1. CASE complete /\ Job \in Kept
      <4>1. Kept \subseteq Kept'
        BY <2>4, <2>5, <3>1
      <4>2. Cardinality(Kept) <= Cardinality(Kept')
        BY <1>0, <4>1, OneJobMore
      <4> QED BY <1>0, <2>2, <2>6, <3>1, <4>2 DEF CostInv
    <3>2. CASE complete /\ Job \notin Kept
      <4>1. Kept \cup {Job} \subseteq Kept'
        BY <2>4, <2>5, <3>2
      <4>2. Cardinality(Kept) + 1 <= Cardinality(Kept')
        BY <1>0, <3>2, <4>1, OneJobMore
      <4> QED BY <1>0, <2>2, <2>6, <3>2, <4>2 DEF CostInv
    <3>3. CASE ~ complete /\ Job \in Kept
      <4>1. Kept \ {Job} \subseteq Kept'
        BY <2>4
      <4>2. Cardinality(Kept) - 1 <= Cardinality(Kept')
        BY <1>0, <4>1, OneJobMore
      <4> QED BY <1>0, <2>2, <2>6, <3>3, <4>2 DEF CostInv
    <3>4. CASE ~ complete /\ Job \notin Kept
      <4>1. Kept \subseteq Kept'
        BY <2>4, <3>4
      <4>2. Cardinality(Kept) <= Cardinality(Kept')
        BY <1>0, <4>1, OneJobMore
      <4> QED BY <1>0, <2>2, <2>6, <3>4, <4>2 DEF CostInv
    <3> QED BY <3>1, <3>2, <3>3, <3>4
  <2>8. settings.force => rollouts'.complete <= Len(collected) + 1 + interruptions
    BY <1>0, <2>2 DEF CostInv
  <2> QED BY <1>0, <2>2, <2>6, <2>7, <2>8 DEF CostInv
<1>7. CASE WriteSummary
  <2>1. PICK trajectory \in disk[Job].trajectory :
          disk' = [disk EXCEPT ![Job].summary = {[run |-> trajectory.run, suite |-> settings.suite]}]
    BY <1>7 DEF WriteSummary, Files
  <2>2. /\ command = "summarising" /\ command' = "evaluating"
        /\ UNCHANGED <<settings, collected, rollouts, interruptions>>
    BY <1>7 DEF WriteSummary
  <2>3. Job \in 1 .. Jobs
    BY <2>2 DEF SuiteInv, Job, AtJob
  <2>4. /\ disk'[Job].trajectory = disk[Job].trajectory
        /\ \E summary \in disk'[Job].summary : summary.suite = settings.suite
        /\ \A job \in 1 .. Jobs : job # Job => disk'[job] = disk[job]
    BY <2>1, <2>3 DEF SuiteInv, Directory
  <2>5. Kept \subseteq Kept'
    BY <2>2, <2>4 DEF Kept, Keeps
  <2>6. Cardinality(Kept) <= Cardinality(Kept')
    BY <1>0, <2>5, OneJobMore
  <2>7. ~ Redoing /\ ~ Redoing'
    BY <2>2 DEF Redoing
  <2> QED BY <1>0, <2>2, <2>6, <2>7 DEF CostInv
<1>8. CASE Report
  <2>1. /\ UNCHANGED <<disk, settings, collected, rollouts, interruptions>>
        /\ command \in {"aggregating", "tabulating", "reporting"}
        /\ command' \in {"tabulating", "reporting", "done"}
    BY <1>8 DEF Report, SaveAggregate, SaveTable, SaveManifest
  <2>2. Kept' = Kept /\ ~ Redoing /\ ~ Redoing'
    BY <2>1, SameKept DEF Redoing
  <2> QED BY <1>0, <2>1, <2>2 DEF CostInv
<1>9. CASE Interrupt
  <2>1. /\ UNCHANGED <<disk, settings, collected, rollouts>>
        /\ interruptions' = interruptions + 1 /\ command' = "none"
    BY <1>9 DEF Interrupt, store
  <2>2. Kept \ {Job} \subseteq Kept'
    BY <2>1 DEF Kept, Keeps
  <2>3. Cardinality(Kept) - 1 <= Cardinality(Kept')
    BY <1>0, <2>2, OneJobMore
  <2>4. ~ Redoing'
    BY <2>1 DEF Redoing
  <2> QED BY <1>0, <2>1, <2>3, <2>4 DEF CostInv
<1>10. CASE UNCHANGED vars
  <2>1. UNCHANGED <<disk, settings, collected, rollouts, interruptions, command>>
    BY <1>10 DEF vars, store, process
  <2>2. Kept' = Kept /\ (Redoing' <=> Redoing)
    BY <2>1 DEF Kept, Keeps, Redoing, Job
  <2> QED BY <2>1, <2>2 DEF CostInv
<1> QED
  BY <1>1, <1>2, <1>3, <1>4, <1>5, <1>6, <1>7, <1>8, <1>9, <1>10 DEF SuiteNext, RunJob

\* For any number of jobs, and wherever the command was stopped: an
\* interruption costs at most one complete rollout.
THEOREM RolloutsAreKept == SuiteSpec => []InterruptionsCostOneRollout
<1>1. SuiteInv /\ CostInv => InterruptionsCostOneRollout
  <2> SUFFICES ASSUME SuiteInv, CostInv PROVE rollouts.complete <= Jobs + interruptions
    BY DEF InterruptionsCostOneRollout
  <2>1. /\ rollouts.complete \in Nat /\ interruptions \in Nat /\ Len(collected) \in Nat
        /\ settings.force \in BOOLEAN /\ Jobs \in Nat
        /\ Cardinality(Kept) \in Nat /\ Cardinality(Kept) <= Jobs
    BY SuiteAssumption, SetsOfJobs DEF SuiteInv, CostInv, Kept
  <2>2. Len(collected) + (IF command \in {"summarising", "evaluating"} THEN 1 ELSE 0) <= Jobs
    BY <2>1 DEF SuiteInv, AtJob
  <2> QED BY <2>1, <2>2 DEF CostInv
<1> QED BY <1>1, InitKeeps, NextKeeps, InitCost, NextCost, PTL DEF SuiteSpec

\* The counters after a job has been collected: its trajectory is the only one
\* there, and a failure exactly when it is partial.
LEMMA CollectingTells ==
  ASSUME SuiteInv, TellingInv, NEW trajectory \in disk[Job].trajectory,
         NEW failed \in BOOLEAN, NEW again \in BOOLEAN,
         failed <=> ~ trajectory.complete, ~ (failed /\ again),
         Collect(trajectory, failed, again),
         command \in {"choosing", "evaluating"},
         UNCHANGED reports
  PROVE  TellingInv'
<1>1. Job \in 1 .. Jobs /\ Job = Len(collected) + 1 /\ Len(collected) \in Nat
  BY SuiteAssumption DEF SuiteInv, Job, AtJob
<1>2. /\ disk' = [disk EXCEPT ![Job].evaluation = {Evaluation(trajectory)}]
      /\ collected' = Append(collected, Evaluation(trajectory))
      /\ counts' = [ failures |-> counts.failures + (IF failed THEN 1 ELSE 0),
                     resumed  |-> counts.resumed + (IF again THEN 1 ELSE 0) ]
      /\ command' = IF Job = Jobs THEN "aggregating" ELSE "choosing"
  BY DEF Collect
<1>3. \A job \in 1 .. Jobs : disk'[job].trajectory = disk[job].trajectory
  BY <1>1, <1>2 DEF SuiteInv, Directory
<1>4. Len(collected') = Job
  BY <1>1, <1>2 DEF SuiteInv
<1>5. Running /\ counts.failures \in Nat /\ counts.resumed \in Nat
  BY DEF Running, TellingInv
<1>6. PartialUpTo(Len(collected))'
        = PartialUpTo(Len(collected)) \cup (IF failed THEN {Job} ELSE {})
  <2>1. 1 .. Job = (1 .. Len(collected)) \cup {Job} /\ 1 .. Job \subseteq 1 .. Jobs
    BY <1>1, SuiteAssumption
  <2>2. (\E t \in disk[Job].trajectory : ~ t.complete) <=> failed
    BY <1>1 DEF TellingInv
  <2> QED BY <1>3, <1>4, <2>1, <2>2 DEF PartialUpTo
<1>7. Cardinality(PartialUpTo(Len(collected))')
        = Cardinality(PartialUpTo(Len(collected))) + (IF failed THEN 1 ELSE 0)
  <2>1. PartialUpTo(Len(collected)) \in SUBSET (1 .. Jobs) /\ Job \notin PartialUpTo(Len(collected))
    BY <1>1, SuiteAssumption DEF PartialUpTo
  <2>2. IsFiniteSet(PartialUpTo(Len(collected))) /\ Cardinality(PartialUpTo(Len(collected))) \in Nat
    BY <2>1, SetsOfJobs
  <2>3. Cardinality(PartialUpTo(Len(collected)) \cup {Job})
          = Cardinality(PartialUpTo(Len(collected))) + 1
    <3> DEFINE partial == PartialUpTo(Len(collected))
    <3>1. Job \notin partial /\ IsFiniteSet(partial)
      BY <2>1, <2>2
    <3> HIDE DEF partial
    <3>2. Cardinality(partial \cup {Job}) = Cardinality(partial) + 1
      BY <3>1, FS_AddElement
    <3> QED BY <3>2 DEF partial
  <2>4. CASE failed
    BY <1>6, <2>3, <2>4
  <2>5. CASE ~ failed
    <3>1. PartialUpTo(Len(collected))' = PartialUpTo(Len(collected))
      BY <1>6, <2>5
    <3> QED BY <2>2, <2>5, <3>1
  <2> QED BY <2>4, <2>5
<1>8. /\ counts'.failures = Cardinality(PartialUpTo(Len(collected))')
      /\ counts'.resumed + counts'.failures <= Len(collected')
      /\ counts' \in [failures : Nat, resumed : Nat]
  BY <1>1, <1>2, <1>4, <1>5, <1>7 DEF TellingInv
<1>9. \A job \in 1 .. Jobs : \A t, u \in disk'[job].trajectory : t = u
  BY <1>3 DEF TellingInv
<1>10. /\ command' \in {"aggregating", "choosing"}
       /\ command' = "aggregating" => Len(collected') = Jobs
  BY <1>2, <1>4
<1> QED BY <1>8, <1>9, <1>10 DEF TellingInv, AtJob, Reporting

\* An empty directory, before any command, has nothing to tell.
LEMMA InitTelling == SuiteInit => TellingInv
BY SuiteAssumption DEF SuiteInit, NoFiles, TellingInv, AtJob, Reporting, Running

\* A step that collects nothing and changes no trajectory of a job collected.
LEMMA NothingNewToTell ==
  ASSUME SuiteInv, TellingInv, UNCHANGED <<collected, counts>>,
         \A job \in DOMAIN collected : disk'[job].trajectory = disk[job].trajectory,
         \A job \in 1 .. Jobs : \A t, u \in disk'[job].trajectory : t = u,
         Running
  PROVE  /\ counts'.failures = Cardinality(PartialUpTo(Len(collected))')
         /\ counts'.resumed + counts'.failures <= Len(collected')
<1>1. DOMAIN collected = 1 .. Len(collected)
  BY DEF SuiteInv
<1>2. PartialUpTo(Len(collected))' = PartialUpTo(Len(collected))
  BY <1>1 DEF PartialUpTo
<1> QED BY <1>2 DEF TellingInv

\* Every step keeps counters, reports and files in agreement.
LEMMA NextTelling == SuiteInv /\ TellingInv /\ [SuiteNext]_vars => TellingInv'
<1> SUFFICES ASSUME SuiteInv, TellingInv, [SuiteNext]_vars PROVE TellingInv'
  OBVIOUS
<1> USE SuiteAssumption
<1>1. ASSUME NEW chosen \in Settings, Start(chosen) PROVE TellingInv'
  <2>1. /\ UNCHANGED <<disk, reports>> /\ command' = "choosing"
        /\ collected' = << >> /\ counts' = [failures |-> 0, resumed |-> 0]
    BY <1>1 DEF Start, store
  <2>2. Len(collected') = 0 /\ PartialUpTo(Len(collected))' = {}
    BY <2>1 DEF PartialUpTo
  <2>3. Cardinality(PartialUpTo(Len(collected))') = 0
    BY <2>2, FS_EmptySet
  <2> QED BY <2>1, <2>2, <2>3 DEF TellingInv, AtJob, Reporting
<1>2. CASE Resume
  <2>1. PICK trajectory \in disk[Job].trajectory :
          /\ Resumable(trajectory) /\ Collect(trajectory, FALSE, TRUE) /\ UNCHANGED reports
    BY <1>2 DEF Resume, Files
  <2>2. trajectory.complete
    BY <2>1 DEF Resumable, Matches
  <2> QED BY <1>2, <2>1, <2>2, CollectingTells DEF Resume
<1>3. CASE Evaluate
  <2>1. PICK trajectory \in disk[Job].trajectory :
          Collect(trajectory, ~ trajectory.complete, FALSE) /\ UNCHANGED reports
    BY <1>3 DEF Evaluate, Files
  <2> DEFINE failed == ~ trajectory.complete
  <2>2. failed \in BOOLEAN /\ (failed <=> ~ trajectory.complete)
    OBVIOUS
  <2>3. Collect(trajectory, failed, FALSE)
    BY <2>1
  <2> HIDE DEF failed
  <2> QED BY <1>3, <2>1, <2>2, <2>3, CollectingTells DEF Evaluate
<1>4. CASE DecideToRun \/ ResumeFails
  <2>1. UNCHANGED <<disk, reports, collected, counts>> /\ Running
        /\ command' = "rolling"
    BY <1>4 DEF DecideToRun, ResumeFails, store, Running
  <2>2. \A job \in 1 .. Jobs : \A t, u \in disk'[job].trajectory : t = u
    BY <2>1 DEF TellingInv
  <2>3. /\ counts'.failures = Cardinality(PartialUpTo(Len(collected))')
        /\ counts'.resumed + counts'.failures <= Len(collected')
    BY <2>1, <2>2, NothingNewToTell
  <2> QED BY <2>1, <2>2, <2>3 DEF TellingInv, AtJob, Reporting
<1>5. ASSUME NEW complete \in BOOLEAN, Rollout(complete) PROVE TellingInv'
  <2> DEFINE made == [ run |-> rollouts.all + 1, policy |-> settings.policy,
                       build |-> settings.build, complete |-> complete ]
  <2>1. Job \in 1 .. Jobs
    BY <1>5 DEF SuiteInv, Job, Rollout, AtJob
  <2>2. /\ disk' = [disk EXCEPT ![Job].trajectory = {made}] /\ Running
        /\ UNCHANGED <<reports, collected, counts>> /\ command' = "summarising"
    BY <1>5 DEF Rollout, Running
  <2> HIDE DEF made
  <2>3. /\ disk'[Job].trajectory = {made}
        /\ \A job \in 1 .. Jobs : job # Job => disk'[job] = disk[job]
    BY <2>1, <2>2 DEF SuiteInv, Directory
  <2>4. \A job \in DOMAIN collected : disk'[job].trajectory = disk[job].trajectory
    BY <2>2, CollectedBefore
  <2>5. \A job \in 1 .. Jobs : \A t, u \in disk'[job].trajectory : t = u
    BY <2>3 DEF TellingInv
  <2>6. /\ counts'.failures = Cardinality(PartialUpTo(Len(collected))')
        /\ counts'.resumed + counts'.failures <= Len(collected')
    BY <2>2, <2>4, <2>5, NothingNewToTell
  <2> QED BY <2>2, <2>5, <2>6 DEF TellingInv, AtJob, Reporting
<1>6. CASE WriteSummary
  <2>1. PICK trajectory \in disk[Job].trajectory :
          disk' = [disk EXCEPT ![Job].summary = {[run |-> trajectory.run, suite |-> settings.suite]}]
    BY <1>6 DEF WriteSummary, Files
  <2>2. /\ command = "summarising" /\ command' = "evaluating" /\ Running
        /\ UNCHANGED <<reports, collected, counts>>
    BY <1>6 DEF WriteSummary, Running
  <2>3. Job \in 1 .. Jobs
    BY <2>2 DEF SuiteInv, Job, AtJob
  <2>4. \A job \in 1 .. Jobs : disk'[job].trajectory = disk[job].trajectory
    BY <2>1, <2>3 DEF SuiteInv, Directory
  <2>5. \A job \in 1 .. Jobs : \A t, u \in disk'[job].trajectory : t = u
    BY <2>4 DEF TellingInv
  <2>6. \A job \in DOMAIN collected : disk'[job].trajectory = disk[job].trajectory
    BY <2>1, CollectedBefore
  <2>7. /\ counts'.failures = Cardinality(PartialUpTo(Len(collected))')
        /\ counts'.resumed + counts'.failures <= Len(collected')
    BY <2>2, <2>5, <2>6, NothingNewToTell
  <2> QED BY <2>2, <2>5, <2>7 DEF TellingInv, AtJob, Reporting
<1>7. CASE Report
  <2>1. UNCHANGED <<disk, collected, counts>> /\ Running
    BY <1>7 DEF Report, SaveAggregate, SaveTable, SaveManifest, Running
  <2>2. \A job \in 1 .. Jobs : \A t, u \in disk'[job].trajectory : t = u
    BY <2>1 DEF TellingInv
  <2>3. /\ counts'.failures = Cardinality(PartialUpTo(Len(collected))')
        /\ counts'.resumed + counts'.failures <= Len(collected')
    BY <2>1, <2>2, NothingNewToTell
  <2>4. CASE SaveAggregate
    BY <2>1, <2>2, <2>3, <2>4 DEF SaveAggregate, TellingInv, Reporting
  <2>5. CASE SaveTable
    BY <2>1, <2>2, <2>3, <2>5 DEF SaveTable, TellingInv, Reporting
  <2>6. CASE SaveManifest
    <3> DEFINE manifest == [ suite       |-> settings.suite,
                             run_count   |-> Jobs,
                             evaluations |-> Len(collected),
                             failures    |-> counts.failures,
                             resumed     |-> counts.resumed,
                             aggregate   |-> collected ]
    <3>1. /\ manifest.evaluations = Len(collected) /\ manifest.failures = counts.failures
          /\ manifest.resumed = counts.resumed /\ manifest.aggregate = collected
      OBVIOUS
    <3>2. /\ reports' = [reports EXCEPT !.manifest = {manifest}]
          /\ command = "reporting" /\ command' = "done"
      BY <2>6 DEF SaveManifest
    <3> HIDE DEF manifest
    <3>3. /\ reports'.manifest = {manifest}
          /\ reports'.aggregate = reports.aggregate /\ reports'.table = reports.table
          /\ reports' = [ aggregate |-> reports'.aggregate, table |-> reports'.table,
                          manifest |-> reports'.manifest ]
      BY <3>2 DEF TellingInv
    <3> QED BY <2>1, <2>2, <2>3, <3>1, <3>2, <3>3 DEF TellingInv, Reporting
  <2> QED BY <1>7, <2>4, <2>5, <2>6 DEF Report
<1>8. CASE Interrupt
  BY <1>8 DEF Interrupt, store, TellingInv, AtJob, Reporting, Running
<1>9. CASE UNCHANGED vars
  BY <1>9 DEF vars, store, process, TellingInv, Running, PartialUpTo
<1> QED
  BY <1>1, <1>2, <1>3, <1>4, <1>5, <1>6, <1>7, <1>8, <1>9 DEF SuiteNext, RunJob

\* A finished command tells the truth about the directory, whatever earlier
\* commands had left there.
THEOREM ManifestIsTrue == SuiteSpec => []ManifestTellsTheDisk
<1>1. SuiteInv /\ TellingInv => ManifestTellsTheDisk
  <2> SUFFICES ASSUME SuiteInv, TellingInv, command = "done"
               PROVE  \E manifest \in reports.manifest :
                        /\ manifest.evaluations = Jobs
                        /\ manifest.failures = Cardinality(PartialUpTo(Jobs))
                        /\ manifest.resumed + manifest.failures <= Jobs
                        /\ reports.aggregate = {manifest.aggregate}
                        /\ reports.table = {manifest.aggregate}
    BY DEF ManifestTellsTheDisk, PartialUpTo
  <2>1. Running /\ command \in Reporting
    BY DEF Running, Reporting
  <2> QED BY <2>1 DEF TellingInv
<1> QED BY <1>1, InitKeeps, NextKeeps, InitTelling, NextTelling, PTL DEF SuiteSpec

-----------------------------------------------------------------------------
(* The rollout of one job, AgentRollout.  Its loop and the protocol move   *)
(* together: the chain of recorded states ends where the protocol is, as   *)
(* long as the loop is about to ask or to call.                            *)

Stages == {"deciding", "finishing", "terminated", "truncated", "failed"}

Hashes == Nat \X (Nat \X Nat) \X (Nat \X Nat \X Nat) \X Nat \X Stages

EntryRecord ==
  [before : Hashes, after : Hashes, over : BOOLEAN,
   action : Kinds \cup {"malformed", "invalid", "none"}]

Ended == entries # << >> /\ Last(entries).over

ChainEnd == IF entries = << >> THEN InitialHash ELSE Last(entries).after

RolloutType ==
  /\ StateHash \in Hashes
  /\ before \in Hashes
  /\ action \in Kinds \cup {"malformed", "invalid", "none"}
  /\ entries \in Seq(EntryRecord)

RolloutInv ==
  /\ RolloutType
  /\ Continuous(entries)
  /\ runner = "asking" => stage = "deciding" /\ ChainEnd = StateHash
  /\ runner = "calling" => stage = "deciding" /\ ChainEnd = before
  /\ runner = "stepping" => stage # "failed" /\ ChainEnd = before
  /\ runner \in {"asking", "calling", "stepping"} => outcome = "none" /\ ~ Ended
  /\ runner \in {"saving", "replacing"} => (outcome = "none" <=> Ended)
  /\ runner \in {"asking", "calling", "stepping", "saving", "replacing"} \cup Stopped
  /\ runner # "returned" => file = {}
  /\ runner = "returned" => file = {Payload} /\ (outcome = "none" <=> Ended)

\* Replaying the chain is what a save and every reader of the file check.
LEMMA SavableChain ==
  ASSUME Continuous(entries), outcome = "none" <=> Ended
  PROVE  /\ Verifies(Payload)
         /\ Payload.entries = entries
         /\ Payload.status = "complete" <=> Payload.outcome = "none"
<1>1. /\ Payload.entries = entries /\ Payload.outcome = outcome
      /\ Payload.status = IF Ended THEN "complete" ELSE "partial"
  BY DEF Payload, Ended
<1> QED BY <1>1 DEF Verifies, Ended

\* A step recorded where the chain ends continues it.
LEMMA RecordedStep ==
  ASSUME entries \in Seq(EntryRecord), Continuous(entries), ~ Ended,
         NEW entry \in EntryRecord, entry.before = ChainEnd, entries' = Append(entries, entry)
  PROVE  /\ entries' \in Seq(EntryRecord)
         /\ Continuous(entries')
         /\ entries' # << >> /\ Last(entries') = entry
<1>1. /\ Len(entries) \in Nat /\ DOMAIN entries = 1 .. Len(entries)
      /\ entries' \in Seq(EntryRecord)
      /\ Len(entries') = Len(entries) + 1 /\ DOMAIN entries' = 1 .. Len(entries) + 1
      /\ entries'[Len(entries) + 1] = entry
      /\ \A i \in 1 .. Len(entries) : entries'[i] = entries[i]
  OBVIOUS
<1>2. entries' # << >> /\ Last(entries') = entry
  BY <1>1 DEF Last
<1>3. \A i \in 1 .. Len(entries) : ~ entries[i].over
  BY <1>1 DEF Continuous, Ended, Last
<1>4. ASSUME NEW i \in 1 .. Len(entries) + 1
      PROVE  /\ entries'[i].before = (IF i = 1 THEN InitialHash ELSE entries'[i - 1].after)
             /\ entries'[i].over => i = Len(entries')
  <2>1. CASE i \in 1 .. Len(entries)
    <3>1. i # 1 => i - 1 \in 1 .. Len(entries)
      BY <2>1, <1>1
    <3> QED BY <2>1, <3>1, <1>1, <1>3 DEF Continuous
  <2>2. CASE i = Len(entries) + 1 /\ Len(entries) = 0
    BY <2>2, <1>1 DEF ChainEnd
  <2>3. CASE i = Len(entries) + 1 /\ Len(entries) # 0
    <3>1. entries # << >> /\ ChainEnd = entries[Len(entries)].after
      BY <2>3, <1>1 DEF ChainEnd, Last
    <3>2. i # 1 /\ i - 1 = Len(entries) /\ Len(entries) \in 1 .. Len(entries)
      BY <2>3, <1>1
    <3> QED BY <2>3, <3>1, <3>2, <1>1
  <2> QED BY <2>1, <2>2, <2>3, <1>1
<1> QED BY <1>1, <1>2, <1>4 DEF Continuous

\* The hash of a state of the protocol, and what may happen to it.
LEMMA HashParts ==
  StateHash \in Hashes <=>
    /\ round \in Nat /\ step_index \in Nat /\ round_step \in Nat
    /\ queries \in Nat /\ quoted \in Nat /\ offers \in Nat
    /\ accepted \in Nat /\ stage \in Stages
BY DEF StateHash, Hashes, protocol, steps, budgets

\* A call the protocol serves after one that did not fail ends in one of its states and does not fail,
LEMMA ServedStep ==
  ASSUME StateHash \in Hashes, stage = "deciding", Serve
  PROVE  StateHash' \in Hashes /\ stage' # "failed"
<1> USE DEF Take, Stay, Stages, budgets
<1>1. CASE AskClient \/ Refuse \/ \E named \in BOOLEAN : RequestQuote(named)
  BY <1>1, HashParts DEF AskClient, Refuse, RequestQuote, StateHash, Hashes, protocol, steps
<1>2. CASE Skip \/ \E accept \in BOOLEAN : QuoteAndSubmit(accept) \/ Submit(accept)
  BY <1>2, HashParts DEF Skip, QuoteAndSubmit, Submit, StateHash, Hashes, protocol, steps
<1> QED BY <1>1, <1>2 DEF Serve

\* and so does the end of a round or of the episode.
LEMMA FinishedStep ==
  ASSUME StateHash \in Hashes, NextRound \/ Terminate
  PROVE  StateHash' \in Hashes /\ stage' # "failed"
BY HashParts DEF NextRound, Terminate, Stages, budgets, StateHash, Hashes, protocol, steps

\* The loop begins with an empty chain,
LEMMA InitRollout == RolloutInit => RolloutInv
<1> SUFFICES ASSUME RolloutInit PROVE RolloutInv
  OBVIOUS
<1>1. StateHash = InitialHash
  BY DEF RolloutInit, EpisodeInit, StateHash, InitialHash, protocol, steps, budgets
<1>2. InitialHash \in Hashes
  BY DEF InitialHash, Hashes, Stages
<1>3. entries = << >> /\ entries \in Seq(EntryRecord) /\ DOMAIN entries = {}
  BY DEF RolloutInit
<1> QED
  BY <1>1, <1>2, <1>3
  DEF RolloutInit, EpisodeInit, RolloutInv, RolloutType, Continuous, ChainEnd, Ended, Stopped

\* and every step keeps it whole.
LEMMA NextRollout == RolloutInv /\ [RolloutNext]_rollout => RolloutInv'
<1> SUFFICES ASSUME RolloutInv, [RolloutNext]_rollout PROVE RolloutInv'
  OBVIOUS
<1> USE DEF RolloutType
<1>0. UNCHANGED entries =>
        /\ UNCHANGED <<Ended, ChainEnd>>
        /\ Continuous(entries')
  BY DEF RolloutInv, Ended, ChainEnd
<1>1. UNCHANGED protocol => UNCHANGED <<StateHash, stage>>
  BY DEF StateHash, protocol
<1>2. ASSUME NEW output \in Kinds \cup {"malformed"}, Answer(output) PROVE RolloutInv'
  BY <1>0, <1>1, <1>2 DEF Answer, storage, RolloutInv, Stopped
<1>3. CASE PolicyFails \/ Cancelled
  BY <1>0, <1>1, <1>3 DEF PolicyFails, Cancelled, tally, storage, RolloutInv, Stopped
<1>4. CASE CallStep
  BY <1>0, <1>4, ServedStep DEF CallStep, tally, storage, RolloutInv, Stopped
<1>5. CASE StepContinues
  BY <1>0, <1>5, FinishedStep DEF StepContinues, tally, storage, RolloutInv, Stopped
<1>6. CASE StepRaises
  <2>1. StateHash' \in Hashes
    BY <1>6, HashParts DEF StepRaises, Fail, Stages, RolloutInv, StateHash, Hashes,
                           protocol, steps, budgets
  <2> QED BY <1>0, <1>6, <2>1 DEF StepRaises, tally, storage, RolloutInv, Stopped
<1>7. CASE Record
  <2>1. /\ Entry(before) \in EntryRecord /\ Entry(before).before = before
        /\ Entry(before).after = StateHash /\ Entry(before).over = Over
    BY DEF Entry, EntryRecord, RolloutInv, Over
  <2>2. /\ entries' \in Seq(EntryRecord) /\ Continuous(entries')
        /\ entries' # << >> /\ Last(entries') = Entry(before)
    BY <1>7, <2>1, RecordedStep DEF Record, RolloutInv
  <2>3. (Ended' <=> Over) /\ ChainEnd' = StateHash
    <3>1. Last(entries').over <=> Over
      BY <2>1, <2>2, Zenon
    <3>2. Last(entries').after = StateHash
      BY <2>1, <2>2
    <3> QED BY <2>2, <3>1, <3>2, Zenon DEF Ended, ChainEnd
  <2>4. stage \in {"deciding", "terminated", "truncated"}
    BY <1>7, HashParts DEF Record, RolloutInv, Stages
  <2>5. UNCHANGED <<StateHash, stage, before, action, outcome, file>>
    BY <1>7, <1>1 DEF Record, storage
  <2> QED BY <1>7, <2>2, <2>3, <2>4, <2>5 DEF Record, RolloutInv, Over, Stopped
<1>8. CASE WriteTemp \/ SaveFails \/ Killed
  BY <1>0, <1>1, <1>8 DEF WriteTemp, SaveFails, Killed, tally, storage, RolloutInv, Stopped
<1>9. CASE Replace
  <2>1. Payload' = Payload
    BY <1>9 DEF Replace, Payload, tally
  <2> QED BY <1>0, <1>1, <1>9, <2>1 DEF Replace, tally, RolloutInv, Stopped
<1>10. CASE UNCHANGED rollout
  <2>1. Payload' = Payload
    BY <1>10 DEF rollout, Payload, tally
  <2> QED BY <1>0, <1>1, <1>10, <2>1 DEF rollout, tally, storage, RolloutInv, Stopped
<1> QED
  BY <1>2, <1>3, <1>4, <1>5, <1>6, <1>7, <1>8, <1>9, <1>10
  DEF RolloutNext, Runs, Ask, Save

\* The runner never refuses to save what it recorded, however long the episode
\* and in whatever order steps, refusals and failures of the policy came,
THEOREM TrajectoriesCanBeSaved == RolloutSpec => []TrajectoryCanBeSaved
<1>1. RolloutInv => TrajectoryCanBeSaved
  BY SavableChain DEF RolloutInv, TrajectoryCanBeSaved
<1> QED BY <1>1, InitRollout, NextRollout, PTL DEF RolloutSpec

\* and what stands at the destination is whole, whenever the process dies.
THEOREM FilesAreWhole == RolloutSpec => []FileIsWhole
<1>1. RolloutInv => FileIsWhole
  BY SavableChain DEF RolloutInv, FileIsWhole
<1> QED BY <1>1, InitRollout, NextRollout, PTL DEF RolloutSpec

=============================================================================
