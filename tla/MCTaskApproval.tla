---------------------------- MODULE MCTaskApproval ----------------------------
(* An instance of TaskApproval for TLC.                                    *)
EXTENDS TaskApproval, TLC

CONSTANT a
=============================================================================
