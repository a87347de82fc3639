---------------------------- MODULE MCMediaStream ----------------------------
(* Small instances of MediaStream for TLC.                                 *)
EXTENDS MediaStream, TLC

\* Runs only name threads and pipelines.
RunSymmetry == Permutations(Runs)

\* States are explored up to the first act of a cancelled run, and that act
\* included: the properties promise nothing after it.
UpToLate == ~late

\* GStreamer may block in the teardown (the case the watchdog is for).
TeardownHangs == {"stop", "unref"}

=============================================================================
