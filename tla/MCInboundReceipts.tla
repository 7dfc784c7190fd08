-------------------------- MODULE MCInboundReceipts --------------------------
(* An instance of InboundReceipts for TLC.                                 *)
EXTENDS InboundReceipts, TLC

CONSTANTS w1, q1, q2, r1, r2, r3, r4, r5, r6, r7, plain, edited

(* Three deliveries of the QQ message q1, one of q2, three calls of a Web  *)
(* message.                                                                *)
Calls == [r \in Request |->
  IF r \in {r1, r2, r3} THEN q1 ELSE IF r = r4 THEN q2 ELSE w1]

(* One call of q1 and one of w1 carry another payload than the others.     *)
Payloads == [r \in Request |-> IF r \in {r3, r7} THEN edited ELSE plain]

(* The first call is a private turn that joined q2 to q1.                  *)
JoinedFirst == [r \in Request |-> IF r = r1 THEN {q1, q2} ELSE {Calls[r]}]

(* Two of the Web calls are alike.                                         *)
AlikeWebCalls == Permutations({r5, r6})

(* QQ and Web messages have no receipt, alias or answer in common, so a    *)
(* run looks at the calls of one kind or of the other.                     *)
OneKindAtATime == \E kind \in BOOLEAN : \A r \in Request : Web(r) = kind => pc[r] = "new"
=============================================================================
