---------------------------- MODULE MCBatchImport ----------------------------
(* Instances of BatchImport for TLC. *)
EXTENDS BatchImport, TLC

CONSTANTS f1, f2, w1, w2, bytes, other

DistinctContent == (f1 :> bytes) @@ (f2 :> other)
SingleContent   == (f1 :> bytes)
=============================================================================
