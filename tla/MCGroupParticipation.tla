------------------------ MODULE MCGroupParticipation ------------------------
(* An instance of GroupParticipation for TLC.                              *)
EXTENDS GroupParticipation, TLC

CONSTANTS e1, e2

(* The events are alike and which of them a row is about never changes, so *)
(* the behaviours whose first message is about e1 stand for all.           *)
FirstIsE1 == event[1] = e1
=============================================================================
