---------------------------- MODULE MCConnectionPool ----------------------------
(***************************************************************************)
(* ConnectionPool with two remotes at an address each.                     *)
(***************************************************************************)
EXTENDS ConnectionPool, TLC

CONSTANTS m1, m2, a1, a2

Apart == m1 :> a1 @@ m2 :> a2

\* The first remote moves to the address of the second.
FirstMoves == {<<m1, a2>>}

\* The actions treat requests alike, and connections.
Interchangeable == Permutations(Reqs) \union Permutations(Conns)
================================================================================
