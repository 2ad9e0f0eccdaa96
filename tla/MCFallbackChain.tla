-------------------------- MODULE MCFallbackChain --------------------------
(* Small instances of FallbackChain for TLC. *)
EXTENDS FallbackChain

\* The clock is moved on while a model is banned, or its ban has run out.
Explored == now = 1 \/ \E m \in Models : benchedUntil[m] # 0
=============================================================================
