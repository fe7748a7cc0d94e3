----------------------------- MODULE MCSuiteRun -----------------------------
(* Settings of SuiteRun for TLC.                                           *)
EXTENDS SuiteRun

\* Two suites that share their tasks, two policies, two builds, and --force.
MCChanging ==
  [suite : {"dev", "test"}, policy : {"ask", "trade"}, build : {"b1"}, force : {FALSE}]
    \cup [suite : {"dev"}, policy : {"ask"}, build : {"b1", "b2"}, force : BOOLEAN]

=============================================================================
