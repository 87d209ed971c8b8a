----------------------------- MODULE MCTestRun -----------------------------
(* A small instance of TestRun for TLC: a package with a test and an example,
   and a package with one test. *)
EXTENDS TestRun, TLC

CONSTANTS p, q, a, b, c

TwoPackages == (a :> p) @@ (b :> p) @@ (c :> q)
Kinds3 == (a :> "test") @@ (b :> "example") @@ (c :> "test")
=============================================================================
