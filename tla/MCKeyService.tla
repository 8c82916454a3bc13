------------------------------ MODULE MCKeyService ------------------------------
(***************************************************************************)
(* KeyService for one key name.  The calls are interchangeable.             *)
(***************************************************************************)
EXTENDS KeyService, TLC

Interchangeable == Permutations(Calls) \union Permutations(Updates) \union Permutations(Keys)
================================================================================
