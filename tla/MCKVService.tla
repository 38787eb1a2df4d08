---------------------------- MODULE MCKVService ----------------------------
(***************************************************************************)
(* The key/value service with several clerks, for TLC.                     *)
(***************************************************************************)
EXTENDS KVProps, TLC

\* Clerks are interchangeable: nothing tells one from the other but its name, so a
\* renaming of them maps behaviours to behaviours.
ClerkSymmetry == Permutations(Clients)
=============================================================================
