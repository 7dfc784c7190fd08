CONSTANTS
  w1 = w1
  q1 = q1
  q2 = q2
  r1 = r1
  r2 = r2
  r3 = r3
  r4 = r4
  r5 = r5
  r6 = r6
  r7 = r7
  plain = plain
  edited = edited
  NoMessage = NoMessage
  Nobody = Nobody
  Request = {r1, r2, r3, r4, r5, r6, r7}
  Message = {w1, q1, q2}
  WebMessage = {w1}
  MessageOf <- Calls
  PayloadOf <- Payloads
  Members <- JoinedFirst
SPECIFICATION ReceiptsSpec
SYMMETRY AlikeWebCalls
CONSTRAINT OneKindAtATime
INVARIANTS RepeatNeedsCause ReplaysAreTruthful
PROPERTIES KeepsOperationPromise
