---------------------------- MODULE MCSnapshotJob ----------------------------
(***************************************************************************)
(* Small instances of SnapshotJob for TLC: a source with one subdirectory, *)
(* or with one that may hold another.                                      *)
(***************************************************************************)
EXTENDS SnapshotJob

FlatTree == [d \in Dirs |-> Root]

\* "inner" lies in "outer", which lies in the source.
NestedTree == [d \in Dirs |-> IF d = "inner" THEN "outer" ELSE Root]
=============================================================================
