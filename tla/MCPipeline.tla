------------------------------ MODULE MCPipeline -----------------------------
(* Pipeline for TLC: requests are interchangeable, and so are repositories   *)
(* and installation ids; the symmetry is used in safety runs only.           *)
EXTENDS Pipeline, TLC

Symmetry == Permutations(Handlers) \cup Permutations(Repos) \cup Permutations(Installs)
==============================================================================
