-------------------------- MODULE MCDeliveryOutbox --------------------------
(* Instances of DeliveryOutbox for TLC.                                    *)
EXTENDS DeliveryOutbox, TLC

CONSTANTS d1, d2, d3, t1, r1

(* Every delivery belongs to one conversation.                             *)
OneThread == [d \in Delivery |-> t1]
(* d3 has no thread.                                                       *)
LooseThird == [d \in Delivery |-> IF d = d3 THEN NoThread ELSE t1]

Operational == [d \in Delivery |-> "operational"]
AllSocial == [d \in Delivery |-> "social"]

NoLogicalOf == [d \in Delivery |-> NoLogical]
(* d1 and d3 are two renderings of one logical response.                   *)
SharedLogical == [d \in Delivery |-> IF d \in {d1, d3} THEN r1 ELSE NoLogical]
=============================================================================
