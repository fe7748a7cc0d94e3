-------------------------------- MODULE Batch --------------------------------
(***************************************************************************)
(* The offline batch commands of stochopia/benchmark_cli.py around one     *)
(* directory of results: run-manifest fills it, judge-runs grades what is  *)
(* in it, aggregate reports on it.  They share nothing but the files; any  *)
(* of them may be killed between two steps, and each may be started again  *)
(* with other settings, on a part of the jobs.                             *)
(*                                                                         *)
(* A result is known by its job, the fingerprint of the run it belongs to  *)
(* and the rollout that produced it.  A result of the time before          *)
(* fingerprints carries none.                                              *)
(***************************************************************************)
EXTENDS Integers, Sequences, FiniteSets, SequencesExt

CONSTANTS
  Jobs,          \* the number of jobs of the manifest
  Fingerprints,  \* what the inputs of a run may hash to
  Judges,        \* --judge-models, in the order given and without repetition
  Author,        \* the model whose submissions a job's result holds
  SampleSize,    \* --sample
  JudgeRetries,  \* JUDGE_RETRIES
  MaxRollouts,   \* bound: rollouts in a behaviour
  MaxCommands    \* bound: commands in a behaviour

Job == 1 .. Jobs

ASSUME BatchAssumption == /\ Jobs \in Nat \ {0}
                          /\ Fingerprints \subseteq Nat \ {0}
                          /\ Author \in [Job -> STRING]
                          /\ Judges \in Seq(STRING)
                          /\ \A i, k \in DOMAIN Judges : Judges[i] = Judges[k] => i = k
                          /\ SampleSize \in Nat
                          /\ JudgeRetries \in Nat
                          /\ MaxRollouts \in Nat
                          /\ MaxCommands \in Nat

VARIABLES
  command,      \* the command that is running
  commands,     \* how many were started
  fingerprint,  \* run_fingerprint of the run in progress
  queue,        \* the jobs, or the files, whose turn is still to come
  failed,       \* a job of the run failed
  last,         \* what the last run-manifest claims
  outputs,      \* <job_id>.json
  quarantine,   \* what was moved aside as <job_id>.json.invalid-<digest>
  rollouts,     \* rollouts completed
  written,      \* history: every result that ever was an output
  judges,       \* <job_id>.judges.json
  pending,      \* the judges still to be called for the file at hand
  tries,        \* failed tries of the call in progress
  entries,      \* the entries of the file at hand
  report        \* the last aggregate

run     == <<fingerprint, failed, rollouts>>
results == <<outputs, quarantine, written>>
grading == <<judges, pending, tries, entries>>
batch   == <<command, commands, queue, last, report, run, results, grading>>

NoFile == {}
NoClaim == [exit |-> "none", kept |-> {}, fingerprint |-> 0]
Unmarked == 0

Result(job, mark, number, voluntary) ==
  [job |-> job, fingerprint |-> mark, rollout |-> number, voluntary |-> voluntary]

\* A file that is there is the set of the one thing in it.
OldOutput(job) == { Result(job, Unmarked, 0, TRUE) }

BatchInit ==
  /\ command = "idle"
  /\ commands = 0
  /\ fingerprint = Unmarked
  /\ queue = {}
  /\ failed = FALSE
  /\ last = NoClaim
  /\ outputs \in { f \in [Job -> {NoFile} \cup { OldOutput(j) : j \in Job }] :
                     \A j \in Job : f[j] \in {NoFile, OldOutput(j)} }
  /\ quarantine = {}
  /\ rollouts = 0
  /\ written = UNION { outputs[j] : j \in Job }
  /\ judges = [j \in Job |-> NoFile]
  /\ pending = << >>
  /\ tries = 0
  /\ entries = {}
  /\ report = [rows |-> {}, entries |-> {}]

-----------------------------------------------------------------------------
(* run-manifest                                                            *)

Begin(name, jobs) ==
  /\ command = "idle"
  /\ commands < MaxCommands
  /\ commands' = commands + 1
  /\ command' = name
  /\ queue' = jobs

StartManifest(mark, kept) ==
  /\ Begin("manifest", kept)
  /\ last' = [exit |-> "none", kept |-> kept, fingerprint |-> mark]
  /\ fingerprint' = mark
  /\ failed' = FALSE
  /\ UNCHANGED <<rollouts, results, grading, report>>

\* The next job, or the next file, is the first of those left.
Due(job) == job \in queue /\ \A other \in queue : job <= other

Running(job) == command = "manifest" /\ Due(job)

\* Mutant: a complete output counts whatever run it comes from.
MatchesAnyRun(job) == \E result \in outputs[job] : result.fingerprint # Unmarked

\* _completed_result_matches; every output is whole, as it is replaced at once.
Matches(job) == \E result \in outputs[job] : result.fingerprint = fingerprint

SkipJob(job) ==
  /\ Running(job)
  /\ Matches(job)
  /\ queue' = queue \ {job}
  /\ UNCHANGED <<command, commands, last, run, results, grading, report>>

\* Mutant: the stale output is overwritten instead of moved.
QuarantineByDeleting(job) ==
  /\ Running(job)
  /\ outputs[job] # NoFile
  /\ ~ Matches(job)
  /\ outputs' = [outputs EXCEPT ![job] = NoFile]
  /\ UNCHANGED <<command, commands, queue, last, run, quarantine, written, grading, report>>

\* The stale output gets a name of its own; the job is run after that.
QuarantineOutput(job) ==
  /\ Running(job)
  /\ outputs[job] # NoFile
  /\ ~ Matches(job)
  /\ quarantine' = quarantine \cup outputs[job]
  /\ outputs' = [outputs EXCEPT ![job] = NoFile]
  /\ UNCHANGED <<command, commands, queue, last, run, written, grading, report>>

\* The rollout, its metrics and the replacement of the output.
RunJob(job, voluntary) ==
  LET result == Result(job, fingerprint, rollouts + 1, voluntary)
  IN  /\ Running(job)
      /\ outputs[job] = NoFile
      /\ rollouts < MaxRollouts
      /\ rollouts' = rollouts + 1
      /\ outputs' = [outputs EXCEPT ![job] = {result}]
      /\ written' = written \cup {result}
      /\ queue' = queue \ {job}
      /\ UNCHANGED <<command, commands, last, fingerprint, failed, quarantine, grading, report>>

\* An exception of the rollout is printed and the next job is taken.
JobFails(job) ==
  /\ Running(job)
  /\ outputs[job] = NoFile
  /\ failed' = TRUE
  /\ queue' = queue \ {job}
  /\ UNCHANGED <<command, commands, last, fingerprint, rollouts, results, grading, report>>

\* The exit status is 0 only if no job failed.
EndManifest ==
  /\ command = "manifest"
  /\ queue = {}
  /\ command' = "idle"
  /\ last' = [last EXCEPT !.exit = IF failed THEN "failed" ELSE "clean"]
  /\ UNCHANGED <<commands, queue, run, results, grading, report>>

-----------------------------------------------------------------------------
(* judge-runs                                                              *)

\* Files of gradings are written in place: one may be torn by a kill.
Torn == [graded |-> {}, entries |-> {}]
Torns == { j \in Job : Torn \in judges[j] }

Voluntary == { j \in Job : \E result \in outputs[j] : result.voluntary }

\* _stratified_sample: as many submissions as asked for, if there are so many.
Sampled(jobs) ==
  /\ jobs \subseteq Voluntary
  /\ \/ Cardinality(jobs) = SampleSize
     \/ jobs = Voluntary /\ Cardinality(jobs) < SampleSize

StartJudging(jobs) ==
  /\ Sampled(jobs)
  /\ Begin("judge", jobs)
  /\ pending' = Judges
  /\ tries' = 0
  /\ entries' = {}
  /\ UNCHANGED <<last, report, run, results, judges>>

Grade(judge, status) == [judge |-> judge, status |-> status]

Grading(file) == command = "judge" /\ Due(file) /\ pending # << >>

Close(status) ==
  /\ entries' = entries \cup {Grade(Head(pending), status)}
  /\ pending' = Tail(pending)
  /\ tries' = 0
  /\ UNCHANGED <<command, commands, queue, last, report, run, results, judges>>

\* A model never grades what it wrote.
SkipSelf(file) ==
  /\ Grading(file)
  /\ Head(pending) = Author[file]
  /\ Close("skipped_self_judge")

CanCall(file) == Grading(file) /\ Head(pending) # Author[file]

JudgeAnswers(file) == CanCall(file) /\ Close("ok")

\* Mutant: every failed try leaves an entry.
JudgeFailsRecorded(file) ==
  /\ CanCall(file)
  /\ entries' = entries \cup {Grade(Head(pending), "missing")}
  /\ IF tries < JudgeRetries
     THEN tries' = tries + 1 /\ UNCHANGED pending
     ELSE tries' = 0 /\ pending' = Tail(pending)
  /\ UNCHANGED <<command, commands, queue, last, report, run, results, judges>>

\* No answer, or one that does not parse: the same call is made again, and
\* after the last retry the entry is recorded as missing.
JudgeFails(file) ==
  /\ CanCall(file)
  /\ IF tries < JudgeRetries
     THEN /\ tries' = tries + 1
          /\ UNCHANGED <<command, commands, queue, last, report, run, results,
                         judges, pending, entries>>
     ELSE Close("missing")

\* write_text truncates the file, then fills it.
OpenGrading(file) ==
  /\ command = "judge"
  /\ Due(file)
  /\ pending = << >>
  /\ command' = "writing"
  /\ judges' = [judges EXCEPT ![file] = {Torn}]
  /\ UNCHANGED <<commands, queue, last, report, run, results, pending, tries, entries>>

WriteGrading(file) ==
  /\ command = "writing"
  /\ Due(file)
  /\ judges' = [judges EXCEPT ![file] = {[graded |-> outputs[file], entries |-> entries]}]
  /\ command' = "judge"
  /\ queue' = queue \ {file}
  /\ pending' = Judges
  /\ entries' = {}
  /\ UNCHANGED <<commands, last, report, run, results, tries>>

EndJudging ==
  /\ command = "judge"
  /\ queue = {}
  /\ command' = "idle"
  /\ UNCHANGED <<commands, queue, last, report, run, results, grading>>

-----------------------------------------------------------------------------
(* aggregate                                                               *)

Rows == UNION { outputs[j] : j \in Job }
Marks == { row.fingerprint : row \in Rows }

\* One run, or only results of the time before fingerprints.
OneRun == \E mark \in Marks : Marks = {mark}

\* Every file named *.json is read first: the gradings among them, so that a
\* torn one raises; then all gradings present are pooled.
Aggregate ==
  /\ command = "idle"
  /\ commands < MaxCommands
  /\ commands' = commands + 1
  /\ Torns = {}
  /\ OneRun
  /\ report' = [rows |-> Rows, entries |-> UNION { judges[j] : j \in Job }]
  /\ UNCHANGED <<command, queue, last, run, results, grading>>

-----------------------------------------------------------------------------
\* A kill loses what the process held; the file being filled stays torn.
Kill ==
  /\ command # "idle"
  /\ command' = "idle"
  /\ queue' = {}
  /\ last' = IF command = "manifest" THEN NoClaim ELSE last
  /\ pending' = << >> /\ tries' = 0 /\ entries' = {}
  /\ UNCHANGED <<commands, report, run, results, judges>>

Manifest ==
  \/ \E mark \in Fingerprints, kept \in SUBSET Job : StartManifest(mark, kept)
  \/ \E job \in Job :
       \/ SkipJob(job) \/ QuarantineOutput(job) \/ JobFails(job)
       \/ \E voluntary \in BOOLEAN : RunJob(job, voluntary)
  \/ EndManifest

Judging ==
  \/ \E jobs \in SUBSET Job : StartJudging(jobs)
  \/ \E file \in Job :
       \/ SkipSelf(file) \/ JudgeAnswers(file) \/ JudgeFails(file)
       \/ OpenGrading(file) \/ WriteGrading(file)
  \/ EndJudging

BatchNext == Manifest \/ Judging \/ Aggregate \/ Kill

BatchSpec == BatchInit /\ [][BatchNext]_batch

-----------------------------------------------------------------------------
(* Properties.                                                             *)

\* No result is lost: whatever is rerun, with whatever settings, and wherever
\* a command is killed, every result that was ever written is still an output
\* or has been moved aside (_quarantine_invalid_result, _atomic_write_json).
NoResultLost == written \subseteq Rows \cup quarantine

\* When run-manifest ends with status 0, every job it was asked for has an
\* output of this very run, whether it was run, skipped or run again after a
\* kill and a change of settings; it stays so until run-manifest runs again.
CleanRunIsComplete ==
  last.exit = "clean" =>
    \A j \in last.kept : \E result \in outputs[j] : result.fingerprint = last.fingerprint

\* What a report pools of the gradings is whole: every file grades one result
\* that was once an output of its job, with exactly one entry for each judge
\* and none by the author, however calls failed and commands were killed.  It
\* need not be a result the report has a row of: a grading outlives the output it
\* was made of, and is pooled whichever run that belonged to.
PooledGradingsAreWhole ==
  \A grading_file \in report.entries :
    /\ Cardinality(grading_file.graded) = 1
    /\ \A result \in grading_file.graded :
         /\ result \in written /\ result.voluntary
         /\ Grade(Author[result.job], "ok") \notin grading_file.entries
    /\ { entry.judge : entry \in grading_file.entries } = ToSet(Judges)
    /\ Cardinality(grading_file.entries) = Len(Judges)

=============================================================================
