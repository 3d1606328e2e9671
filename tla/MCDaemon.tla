----------------------------- MODULE MCDaemon -----------------------------
(* The daemon's life on a small instance; processes and clients are alike. *)
EXTENDS Daemon, TLC

Symmetry == Permutations(Procs) \cup Permutations(Clients)
=============================================================================
