----------------------------- MODULE MCTPGGraph -----------------------------
(* An instance of TPGGraph for TLC, with the logger that analyses the graph. The addresses
   are interchangeable. *)
EXTENDS CycleDetection, TLC

Addresses == Permutations(Vertex) \cup Permutations(Edge)
=============================================================================
