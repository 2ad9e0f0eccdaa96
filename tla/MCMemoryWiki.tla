---------------------------- MODULE MCMemoryWiki ----------------------------
(* Small instances of MemoryWiki for TLC. *)
EXTENDS MemoryWiki

CONSTANTS s1, s2

\* One process alone, with any incidents; or a command, and at most an edit of the first
\* log, while the second is analysed by one process at a time, to one page after an edit.
Explored ==
    \/ commands = 0
    \/ /\ stops + failures = 0 /\ mtime[2] = 1
       /\ overlapped => \A p \in Procs : proc[p].doc # 2
       /\ edits > 0 => \A p \in Procs : proc[p].written <= 1
=============================================================================
