---------------------------- MODULE MCDatasetReader ----------------------------
(* DatasetReader with two threads; every document within the bounds.       *)
EXTENDS DatasetReader
CONSTANTS t1, t2
MCThread == {t1, t2}
===============================================================================
