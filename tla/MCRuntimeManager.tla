--------------------------- MODULE MCRuntimeManager ---------------------------
(* The clients of the API are interchangeable, for the runs that check     *)
(* invariants only.                                                        *)
EXTENDS RuntimeManager, TLC

CallersAreAlike == Permutations(Clients)
==============================================================================
