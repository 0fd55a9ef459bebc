-------------------------- MODULE MCCollectionScan --------------------------
(***************************************************************************)
(* Small instances of CollectionScan for TLC.                              *)
(***************************************************************************)
EXTENDS CollectionScan
=============================================================================
