---------------------------- MODULE MCAssetStore ----------------------------
(***************************************************************************)
(* TLC instances of AssetStore.  Requests are interchangeable.             *)
(***************************************************************************)
EXTENDS AssetStore, TLC

CONSTANTS a1, a2, a3

\* What is asked about a stored asset, one that is being uploaded and a fresh one.
Asked == [a \in Assets |-> CASE a = a1 -> {"ref", "unref", "delete"}
                             [] a = a2 -> {"complete", "abort", "delete"}
                             [] OTHER -> {"init", "complete"}]

RequestSymmetry == Permutations(Requests)

\* The assets differ in size, so that an amount released for the wrong one shows.
Sizes == [a \in Assets |-> IF a = a2 THEN 2 ELSE 1]

\* All have the same plaintext: init_upload of the third asset finds the other one,
\* once that is stored.
SameContents == [a \in Assets |-> "h1"]

\* The first asset is stored, or the upload of the second one is under way.
StoredOrStarted ==
    {[uploaded |-> {a1}, started |-> {}], [uploaded |-> {}, started |-> {a2}]}
=============================================================================
