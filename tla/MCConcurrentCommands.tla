------------------------ MODULE MCConcurrentCommands ------------------------
(* Instances of ConcurrentCommands for TLC. *)
EXTENDS ConcurrentCommands, TLC

\* No guard or property names a symbol or a process.
Interchangeable == Permutations(Symbols) \cup Permutations(Processes)
=============================================================================
