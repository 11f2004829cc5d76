------------------------------ MODULE MCAppStore ------------------------------
(***************************************************************************)
(* AppStore with two applications, one of which an earlier version of      *)
(* Cognac may have left, and a part of a name that both have in common.    *)
(***************************************************************************)
EXTENDS AppStore

MCMatching == [query \in Query |-> App]
==============================================================================
