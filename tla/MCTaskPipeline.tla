--------------------------- MODULE MCTaskPipeline ---------------------------
(***************************************************************************)
(* An instance of TaskPipeline for TLC.                                    *)
(***************************************************************************)
EXTENDS TaskPipeline

\* The first backend may cease to answer; the models of the second change, too.
SecondChanges == [id \in Ids |-> IF id = 1 THEN 0 ELSE 1]
=============================================================================
