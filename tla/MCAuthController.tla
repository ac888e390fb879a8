-------------------------- MODULE MCAuthController --------------------------
EXTENDS AuthController

\* Roles change in one of them only, which keeps the others small.
SomeEnvironments ==
  {{}, {"demotion", "failure", "loss", "again"}, {"overlap"},
   {"overlap", "failure", "loss", "again"}}

Symmetry == Permutations(Ids) \cup Permutations(Calls) \cup Permutations(Browsers)
=============================================================================
