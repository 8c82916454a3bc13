---------------------------- MODULE MCUpdateManager ----------------------------
(***************************************************************************)
(* UpdateService with three releases: 1.9.9, the patch 1.9.10, and         *)
(* 1.10.0-beta.1, which the cfg makes a prerelease.                        *)
(***************************************************************************)
EXTENDS UpdateService

Part(n) == [num |-> n, label |-> NoLabel, build |-> NoBuild]
Beta(n) == [Part(n) EXCEPT !.label = 1]

Tags == [v \in 1..3 |-> <<<<Part(1), Part(9), Part(9)>>,
                          <<Part(1), Part(9), Part(10)>>,
                          <<Part(1), Part(10), Beta(0), Part(1)>>>>[v]]
================================================================================
