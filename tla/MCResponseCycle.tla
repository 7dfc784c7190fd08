--------------------------- MODULE MCResponseCycle ---------------------------
(* Instances of ResponseCycle for TLC.                                     *)
EXTENDS ResponseCycle, TLC

CONSTANTS h1, h2

AlikeThreads == Permutations(HttpThread)

(* From the third message on, a run looks at settings that stay as they    *)
(* are, at one request thread at a time, and at the last two messages of   *)
(* one version of the protocol.                                            *)
SteadyFromThird ==
  \/ latest <= 2
  \/ /\ \A c \in Made : ~cycles[c].drifted
     /\ \E h \in HttpThread : \A other \in HttpThread \ {h} : job[other].at = "idle"
     /\ 2 \in coordinated <=> 3 \in coordinated
=============================================================================
