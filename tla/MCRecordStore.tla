---------------------------- MODULE MCRecordStore ----------------------------
(***************************************************************************)
(* TLC instances of RecordStore: a handful of requests on one or two       *)
(* records.  Requests are interchangeable, so they form a symmetry set.    *)
(***************************************************************************)
EXTENDS RecordStore, TLC

RequestSymmetry == Permutations(Requests)

EveryOp == AllOps
=============================================================================
