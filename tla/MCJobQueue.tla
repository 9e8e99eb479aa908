----------------------------- MODULE MCJobQueue -----------------------------
(***************************************************************************)
(* Instances of JobQueue for TLC.                                          *)
(***************************************************************************)
EXTENDS JobQueue

\* Telemetry may change to anything, or never changes.
AnyReady    == SUBSET Jobs
AlwaysReady == {Jobs}
=============================================================================
