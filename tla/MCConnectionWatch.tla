--------------------------- MODULE MCConnectionWatch ---------------------------
(***************************************************************************)
(* ConnectionWatch with one remote.                                        *)
(***************************************************************************)
EXTENDS ConnectionWatch, TLC

CONSTANTS m1, a1

Alone == m1 :> a1
================================================================================
