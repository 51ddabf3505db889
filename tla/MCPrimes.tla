------------------------------ MODULE MCPrimes ------------------------------
(* Model-checking instances of Primes.  TLC evaluates the assumptions of *)
(* Exercises, and of Strings and Format, with them.                      *)
EXTENDS Primes, Exercises, Strings, Format
=============================================================================
