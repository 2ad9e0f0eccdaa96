-------------------------- MODULE MCSessionMemory --------------------------
(* Small instances of SessionMemory for TLC. *)
EXTENDS SessionMemory, TLC

\* Turns and threads are interchangeable.
Symmetry == Permutations(Turns) \cup Permutations(Threads)

\* A round of tools or a note of the model.
Explored == notes + toolUses <= 1
=============================================================================
