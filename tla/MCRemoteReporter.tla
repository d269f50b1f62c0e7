-------------------------- MODULE MCRemoteReporter --------------------------
(* Small instances of RemoteReporter. *)
EXTENDS RemoteReporter, TLC

Symmetry == Permutations(Spans)
=============================================================================
