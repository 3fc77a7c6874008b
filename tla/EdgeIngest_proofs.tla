------------------------- MODULE EdgeIngest_proofs -------------------------
(***************************************************************************)
(* Theorems about EdgeIngest for every number of concurrent handlers,      *)
(* measurements, credentials, faults and lost queues.                      *)
(*                                                                         *)
(* Types first (TypeOK is inductive on its own); IInv then argues about    *)
(* accepted bodies:                                                        *)
(*   - the watermark of a credential only moves up, and everything granted *)
(*     lies at or below it, so a fresh advance never meets an old grant of *)
(*     its number;                                                         *)
(*   - a replay is admitted only on the body the watermark was granted to; *)
(*   - so an admitted handler, hence an answer 2xx, hence a deletion by    *)
(*     the device, always goes with a granted body.                        *)
(***************************************************************************)
EXTENDS EdgeIngest, TLAPS

\* The head of a non-empty queue is one of its records, the rest a queue again.
LEMMA HeadAndTail ==
    ASSUME DeviceTypeOK, queue # <<>>
    PROVE  /\ Head(queue) \in QueueRecord
           /\ Head(queue).payload \in Body
           /\ Head(queue).sequenceNumber \in Sequence
           /\ Tail(queue) \in Seq(QueueRecord)
  <1>1. queue \in Seq(QueueRecord)
    BY DEF DeviceTypeOK
  <1>2. Head(queue) \in QueueRecord /\ Tail(queue) \in Seq(QueueRecord)
    BY <1>1
  <1> QED
    BY <1>2 DEF QueueRecord

\* What a handler works on.
LEMMA HandlerType ==
    ASSUME RequestTypeOK, NEW r \in Requests
    PROVE  /\ request[r] \in Handler
           /\ request[r].stage \in Stage
           /\ request[r].credential \in Credential
           /\ request[r].sequence \in Sequence
           /\ request[r].body \in Body
           /\ request[r].active \in BOOLEAN
  BY DEF RequestTypeOK, Handler

\* Moving one handler to another stage keeps the type of the request table.
LEMMA MoveToType ==
    ASSUME RequestTypeOK, NEW r \in Requests, NEW st \in Stage, MoveTo(r, st)
    PROVE  RequestTypeOK'
  BY DEF RequestTypeOK, MoveTo, Handler

LEMMA InitTypeOK == Init => TypeOK
  <1> SUFFICES ASSUME Init PROVE TypeOK
    OBVIOUS
  <1> USE IngestAssumption DEF Init, Credential, Sequence, Body
  <1>1. DeviceTypeOK
    BY DEF Queue!QueueInit, DeviceTypeOK
  <1>2. RequestTypeOK
    BY DEF Free, Handler, Stage, RequestTypeOK
  <1>3. DatabaseTypeOK
    BY DEF DatabaseTypeOK
  <1>4. HistoryTypeOK
    BY DEF HistoryTypeOK
  <1> QED
    BY <1>1, <1>2, <1>3, <1>4 DEF TypeOK

\* Every step keeps the types.
LEMMA StepTypeOK == TypeOK /\ [Next]_vars => TypeOK'
  <1> SUFFICES ASSUME TypeOK, [Next]_vars PROVE TypeOK'
    OBVIOUS
  <1> USE IngestAssumption DEF TypeOK
  <1>1. CASE Measure
    <2>1. DeviceTypeOK'
      <3>1. [payload |-> measured + 1, sequenceNumber |-> nextSequence] \in QueueRecord
        BY <1>1 DEF Measure, DeviceTypeOK, HistoryTypeOK, QueueRecord, Sequence, Body
      <3>2. queue' \in Seq(QueueRecord)
        BY <1>1, <3>1 DEF Measure, DeviceTypeOK, Queue!Enqueue
      <3> QED
        BY <1>1, <3>2 DEF Measure, DeviceTypeOK, Queue!Enqueue
    <2>2. RequestTypeOK'
      BY <1>1 DEF Measure, RequestTypeOK
    <2>3. DatabaseTypeOK'
      BY <1>1 DEF Measure, DatabaseTypeOK, credentialVars, readingVars
    <2>4. HistoryTypeOK'
      BY <1>1 DEF Measure, HistoryTypeOK, Credential, Sequence, Body
    <2> QED
      BY <2>1, <2>2, <2>3, <2>4
  <1>2. ASSUME NEW r \in Requests, Send(r) PROVE TypeOK'
    <2>1. DeviceTypeOK'
      BY <1>2 DEF Send, DeviceTypeOK
    <2>2. RequestTypeOK'
      BY <1>2, HeadAndTail DEF Send, RequestTypeOK, DeviceTypeOK, Handler, Stage
    <2>3. DatabaseTypeOK'
      BY <1>2 DEF Send, DatabaseTypeOK, credentialVars, readingVars
    <2>4. HistoryTypeOK'
      BY <1>2 DEF Send, HistoryTypeOK, historyVars
    <2> QED
      BY <2>1, <2>2, <2>3, <2>4
  <1>3. ASSUME NEW r \in Requests, Receive(r) PROVE TypeOK'
    <2>1. DeviceTypeOK'
      BY <1>3, HeadAndTail DEF Receive, DeviceTypeOK, Queue!Acknowledge
    <2>2. RequestTypeOK'
      BY <1>3 DEF Receive, RequestTypeOK, Free, Handler, Credential, Sequence, Body, Stage
    <2>3. DatabaseTypeOK'
      BY <1>3 DEF Receive, DatabaseTypeOK, credentialVars, readingVars
    <2>4. HistoryTypeOK'
      BY <1>3 DEF Receive, HistoryTypeOK, RequestTypeOK, Handler
    <2> QED
      BY <2>1, <2>2, <2>3, <2>4
  <1>4. ASSUME NEW r \in Requests, Authenticate(r) PROVE TypeOK'
    <2>1. DeviceTypeOK'
      BY <1>4 DEF Authenticate, DeviceTypeOK, deviceVars
    <2>2. RequestTypeOK'
      <3> DEFINE h == [request[r] EXCEPT !.stage = request'[r].stage,
                                         !.active = request'[r].active]
      <3>1. h \in Handler
        BY <1>4, HandlerType DEF Authenticate, RequestTypeOK, Handler, Stage
      <3>2. request' = [request EXCEPT ![r] = h]
        BY <1>4, HandlerType DEF Authenticate, RequestTypeOK, Handler
      <3> QED
        BY <3>1, <3>2 DEF RequestTypeOK
    <2>3. DatabaseTypeOK'
      BY <1>4 DEF Authenticate, DatabaseTypeOK, credentialVars, readingVars
    <2>4. HistoryTypeOK'
      BY <1>4 DEF Authenticate, HistoryTypeOK, historyVars
    <2> QED
      BY <2>1, <2>2, <2>3, <2>4
  <1>5. ASSUME NEW r \in Requests, Advance(r) PROVE TypeOK'
    <2>1. DeviceTypeOK'
      BY <1>5 DEF Advance, DeviceTypeOK, deviceVars
    <2>2. RequestTypeOK'
      BY <1>5, MoveToType DEF Advance, RequestTypeOK, Stage
    <2>3. DatabaseTypeOK'
      <3> DEFINE c == request[r].credential
                 s == request[r].sequence
      <3>1. c \in Credential /\ s \in 0..MaxMeasurements /\ request[r].body \in Body
        BY HandlerType DEF Sequence
      <3>2. CASE lastSequence[c] < s
        BY <1>5, <3>1, <3>2 DEF Advance, DatabaseTypeOK, readingVars
      <3>3. CASE ~(lastSequence[c] < s)
        BY <1>5, <3>3 DEF Advance, DatabaseTypeOK, readingVars
      <3> QED
        BY <3>2, <3>3
    <2>4. HistoryTypeOK'
      BY <1>5, HandlerType DEF Advance, HistoryTypeOK
    <2> QED
      BY <2>1, <2>2, <2>3, <2>4
  <1>6. ASSUME NEW r \in Requests, Compare(r) PROVE TypeOK'
    <2>1. DeviceTypeOK'
      BY <1>6 DEF Compare, DeviceTypeOK, deviceVars
    <2>2. RequestTypeOK'
      BY <1>6, MoveToType DEF Compare, RequestTypeOK, Stage
    <2>3. DatabaseTypeOK'
      BY <1>6 DEF Compare, DatabaseTypeOK, credentialVars, readingVars
    <2>4. HistoryTypeOK'
      BY <1>6 DEF Compare, HistoryTypeOK, historyVars
    <2> QED
      BY <2>1, <2>2, <2>3, <2>4
  <1>7. ASSUME NEW r \in Requests, Rotate(r) PROVE TypeOK'
    <2>1. DeviceTypeOK'
      BY <1>7 DEF Rotate, DeviceTypeOK, deviceVars
    <2>2. RequestTypeOK'
      BY <1>7, MoveToType DEF Rotate, RequestTypeOK, Stage
    <2>3. DatabaseTypeOK'
      BY <1>7 DEF Rotate, DatabaseTypeOK, readingVars
    <2>4. HistoryTypeOK'
      BY <1>7 DEF Rotate, HistoryTypeOK, historyVars
    <2> QED
      BY <2>1, <2>2, <2>3, <2>4
  <1>8. ASSUME NEW r \in Requests, CreateReading(r) PROVE TypeOK'
    <2>1. DeviceTypeOK'
      BY <1>8 DEF CreateReading, DeviceTypeOK, deviceVars
    <2>2. RequestTypeOK'
      BY <1>8, MoveToType DEF CreateReading, RequestTypeOK, Stage
    <2>3. DatabaseTypeOK'
      BY <1>8 DEF CreateReading, DatabaseTypeOK, credentialVars, RequestTypeOK, Handler
    <2>4. HistoryTypeOK'
      BY <1>8 DEF CreateReading, HistoryTypeOK, historyVars
    <2> QED
      BY <2>1, <2>2, <2>3, <2>4
  <1>9. ASSUME NEW r \in Requests, FindDuplicate(r) PROVE TypeOK'
    <2>1. DeviceTypeOK'
      BY <1>9 DEF FindDuplicate, DeviceTypeOK, deviceVars
    <2>2. RequestTypeOK'
      BY <1>9, MoveToType DEF FindDuplicate, RequestTypeOK, Stage
    <2>3. DatabaseTypeOK'
      BY <1>9 DEF FindDuplicate, DatabaseTypeOK, credentialVars, readingVars
    <2>4. HistoryTypeOK'
      BY <1>9 DEF FindDuplicate, HistoryTypeOK, historyVars
    <2> QED
      BY <2>1, <2>2, <2>3, <2>4
  <1>10. ASSUME NEW r \in Requests, UpsertReceipt(r) PROVE TypeOK'
    <2>1. DeviceTypeOK'
      BY <1>10 DEF UpsertReceipt, DeviceTypeOK, deviceVars
    <2>2. RequestTypeOK'
      BY <1>10, MoveToType DEF UpsertReceipt, RequestTypeOK, Stage
    <2>3. DatabaseTypeOK'
      BY <1>10 DEF UpsertReceipt, DatabaseTypeOK, credentialVars, RequestTypeOK, Handler
    <2>4. HistoryTypeOK'
      BY <1>10 DEF UpsertReceipt, HistoryTypeOK, historyVars
    <2> QED
      BY <2>1, <2>2, <2>3, <2>4
  <1>11. ASSUME NEW r \in Requests, TouchNode(r) PROVE TypeOK'
    <2>1. DeviceTypeOK'
      BY <1>11 DEF TouchNode, DeviceTypeOK, deviceVars
    <2>2. RequestTypeOK'
      BY <1>11, MoveToType DEF TouchNode, RequestTypeOK, Stage
    <2>3. DatabaseTypeOK'
      BY <1>11 DEF TouchNode, DatabaseTypeOK, credentialVars, readingVars
    <2>4. HistoryTypeOK'
      BY <1>11 DEF TouchNode, HistoryTypeOK, historyVars
    <2> QED
      BY <2>1, <2>2, <2>3, <2>4
  <1>12. ASSUME NEW r \in Requests, AcknowledgeReplay(r) PROVE TypeOK'
    <2>1. DeviceTypeOK'
      BY <1>12 DEF AcknowledgeReplay, DeviceTypeOK, deviceVars
    <2>2. RequestTypeOK'
      BY <1>12, MoveToType DEF AcknowledgeReplay, RequestTypeOK, Stage
    <2>3. DatabaseTypeOK'
      BY <1>12 DEF AcknowledgeReplay, DatabaseTypeOK, credentialVars, readingVars
    <2>4. HistoryTypeOK'
      BY <1>12 DEF AcknowledgeReplay, HistoryTypeOK, historyVars
    <2> QED
      BY <2>1, <2>2, <2>3, <2>4
  <1>13. CASE Rewind
    <2>1. DeviceTypeOK'
      BY <1>13 DEF Rewind, DeviceTypeOK
    <2>2. RequestTypeOK'
      BY <1>13 DEF Rewind, RequestTypeOK
    <2>3. DatabaseTypeOK'
      BY <1>13 DEF Rewind, DatabaseTypeOK, credentialVars, readingVars
    <2>4. HistoryTypeOK'
      BY <1>13 DEF Rewind, HistoryTypeOK
    <2> QED
      BY <2>1, <2>2, <2>3, <2>4
  <1>14. CASE ProvisionCredential
    <2>1. DeviceTypeOK'
      BY <1>14 DEF ProvisionCredential, DeviceTypeOK, deviceVars
    <2>2. RequestTypeOK'
      BY <1>14 DEF ProvisionCredential, RequestTypeOK
    <2>3. DatabaseTypeOK'
      BY <1>14 DEF ProvisionCredential, DatabaseTypeOK, readingVars
    <2>4. HistoryTypeOK'
      BY <1>14 DEF ProvisionCredential, HistoryTypeOK, historyVars
    <2> QED
      BY <2>1, <2>2, <2>3, <2>4
  <1>15. CASE Reflash
    <2>1. DeviceTypeOK'
      BY <1>15 DEF Reflash, DeviceTypeOK
    <2>2. RequestTypeOK'
      BY <1>15 DEF Reflash, RequestTypeOK
    <2>3. DatabaseTypeOK'
      BY <1>15 DEF Reflash, DatabaseTypeOK, credentialVars, readingVars
    <2>4. HistoryTypeOK'
      BY <1>15 DEF Reflash, HistoryTypeOK, historyVars
    <2> QED
      BY <2>1, <2>2, <2>3, <2>4
  <1>16. ASSUME NEW r \in Requests, LoseMessage(r) PROVE TypeOK'
    <2>1. DeviceTypeOK'
      BY <1>16 DEF LoseMessage, DeviceTypeOK
    <2>2. RequestTypeOK'
      BY <1>16 DEF LoseMessage, RequestTypeOK, Free, Handler, Credential, Sequence, Body, Stage
    <2>3. DatabaseTypeOK'
      BY <1>16 DEF LoseMessage, DatabaseTypeOK, credentialVars, readingVars
    <2>4. HistoryTypeOK'
      BY <1>16 DEF LoseMessage, HistoryTypeOK, Fault, historyVars
    <2> QED
      BY <2>1, <2>2, <2>3, <2>4
  <1>17. ASSUME NEW r \in Requests, HandlerFails(r) PROVE TypeOK'
    <2>1. DeviceTypeOK'
      BY <1>17 DEF HandlerFails, DeviceTypeOK, deviceVars
    <2>2. RequestTypeOK'
      BY <1>17, MoveToType DEF HandlerFails, RequestTypeOK, Stage
    <2>3. DatabaseTypeOK'
      BY <1>17 DEF HandlerFails, DatabaseTypeOK, credentialVars, readingVars
    <2>4. HistoryTypeOK'
      BY <1>17 DEF HandlerFails, HistoryTypeOK, Fault, Unsettled, RequestTypeOK, Handler
    <2> QED
      BY <2>1, <2>2, <2>3, <2>4
  <1>18. ASSUME NEW r \in Requests, RotateFails(r) PROVE TypeOK'
    <2>1. DeviceTypeOK'
      BY <1>18 DEF RotateFails, DeviceTypeOK, deviceVars
    <2>2. RequestTypeOK'
      BY <1>18, MoveToType DEF RotateFails, RequestTypeOK, Stage
    <2>3. DatabaseTypeOK'
      BY <1>18 DEF RotateFails, DatabaseTypeOK, credentialVars, readingVars
    <2>4. HistoryTypeOK'
      BY <1>18 DEF RotateFails, HistoryTypeOK, Fault, historyVars
    <2> QED
      BY <2>1, <2>2, <2>3, <2>4
  <1>19. CASE GiveUp
    <2>1. DeviceTypeOK'
      BY <1>19 DEF GiveUp, DeviceTypeOK
    <2>2. RequestTypeOK'
      BY <1>19 DEF GiveUp, RequestTypeOK
    <2>3. DatabaseTypeOK'
      BY <1>19 DEF GiveUp, DatabaseTypeOK, credentialVars, readingVars
    <2>4. HistoryTypeOK'
      BY <1>19 DEF GiveUp, HistoryTypeOK, Fault, historyVars
    <2> QED
      BY <2>1, <2>2, <2>3, <2>4
  <1>20. CASE ServerCrash
    <2>1. DeviceTypeOK'
      BY <1>20 DEF ServerCrash, DeviceTypeOK
    <2>2. RequestTypeOK'
      BY <1>20 DEF ServerCrash, RequestTypeOK, Free, Handler, Credential, Sequence, Body, Stage
    <2>3. DatabaseTypeOK'
      BY <1>20 DEF ServerCrash, DatabaseTypeOK, credentialVars, readingVars
    <2>4. HistoryTypeOK'
      BY <1>20 DEF ServerCrash, HistoryTypeOK, Fault, Unsettled, RequestTypeOK, Handler
    <2> QED
      BY <2>1, <2>2, <2>3, <2>4
  <1>21. CASE UNCHANGED vars
    BY <1>21 DEF vars, DeviceTypeOK, RequestTypeOK, DatabaseTypeOK, HistoryTypeOK
  <1> QED
    BY <1>1, <1>2, <1>3, <1>4, <1>5, <1>6, <1>7, <1>8, <1>9, <1>10, <1>11, <1>12, <1>13, <1>14, <1>15, <1>16, <1>17, <1>18, <1>19, <1>20, <1>21 DEF Next, Handle
\* TypeOK: the queue, the handlers, the database rows and the history stay
\* within their types whatever fails or interleaves.
THEOREM TypeCorrect == Spec => []TypeOK
  <1> QED
    BY InitTypeOK, StepTypeOK, PTL DEF Spec

-----------------------------------------------------------------------------
(* IInv                                                                    *)

\* A handler that is admitted after the step was admitted before it, and works
\* for the same credential, number and body.
NoNewAdmission ==
    \A q \in Requests :
        request'[q].stage \in Admitted =>
            /\ request[q].stage \in Admitted
            /\ request'[q].credential = request[q].credential
            /\ request'[q].sequence = request[q].sequence
            /\ request'[q].body = request[q].body

\* Moving an admitted handler on, or any handler out of the admitted stages,
\* admits none.
LEMMA MoveToAdmitsNone ==
    ASSUME RequestTypeOK, NEW r \in Requests, NEW st, MoveTo(r, st),
           st \in Admitted => request[r].stage \in Admitted
    PROVE  NoNewAdmission
  BY DEF RequestTypeOK, MoveTo, Handler, NoNewAdmission

\* A step that admits no handler, moves no watermark and deletes nothing on the
\* device keeps IInv.
LEMMA FrameIInv ==
    ASSUME IInv, TypeOK', NoNewAdmission,
           UNCHANGED <<granted, lastSequence, lastBody, acked>>
    PROVE  IInv'
  BY DEF IInv, NoNewAdmission, GrantedUpToWatermark, WatermarkGranted,
         OneBodyPerSequence, AdmittedGranted, AckedWasAccepted

LEMMA InitIInv == Init => IInv
  <1> SUFFICES ASSUME Init PROVE IInv
    OBVIOUS
  <1>1. TypeOK
    BY InitTypeOK
  <1>2. GrantedUpToWatermark /\ WatermarkGranted /\ OneBodyPerSequence
    BY DEF Init, GrantedUpToWatermark, WatermarkGranted, OneBodyPerSequence
  <1>3. AdmittedGranted /\ AckedWasAccepted
    BY DEF Init, Free, Admitted, AdmittedGranted, AckedWasAccepted
  <1> QED
    BY <1>1, <1>2, <1>3 DEF IInv

\* The step that wins the watermark: its number is above everything granted to
\* the credential so far, so the new grant meets no other body.
LEMMA AdvanceIInv ==
    ASSUME IInv, TypeOK', NEW r \in Requests, Advance(r)
    PROVE  IInv'
  <1> DEFINE c == request[r].credential
             s == request[r].sequence
             b == request[r].body
  <1>1. /\ c \in Credential /\ s \in Nat /\ s # 0
        /\ lastSequence \in [Credential -> Nat]
        /\ DOMAIN lastBody = Credential
        /\ granted \subseteq Credential \X Sequence \X Body
        /\ \A g \in granted : g[1] \in Credential /\ g[2] \in Nat
    <2>1. c \in Credential /\ s \in Sequence
      BY HandlerType DEF IInv, TypeOK
    <2>2. \A g \in granted : g[1] \in Credential /\ g[2] \in Sequence
      BY DEF IInv, TypeOK, HistoryTypeOK
    <2> QED
      BY <2>1, <2>2, IngestAssumption
         DEF IInv, TypeOK, DatabaseTypeOK, HistoryTypeOK, Sequence
  <1>2. CASE lastSequence[c] < s
    <2>1. /\ lastSequence' = [lastSequence EXCEPT ![c] = s]
          /\ lastBody' = [lastBody EXCEPT ![c] = b]
          /\ granted' = granted \cup {<<c, s, b>>}
          /\ acked' = acked
          /\ MoveTo(r, IF request[r].active THEN "rotate" ELSE "ingest")
      BY <1>2 DEF Advance
    <2>2. \A g \in granted : g[1] = c => g[2] < s
      BY <1>1, <1>2 DEF IInv, GrantedUpToWatermark
    <2>3. GrantedUpToWatermark'
      BY <1>1, <2>1, <2>2 DEF IInv, GrantedUpToWatermark
    <2>4. WatermarkGranted'
      BY <1>1, <2>1 DEF IInv, WatermarkGranted
    <2>5. OneBodyPerSequence'
      BY <1>1, <2>1, <2>2 DEF IInv, OneBodyPerSequence
    <2>6. AdmittedGranted'
      <3>1. \A q \in Requests : q # r => request'[q] = request[q]
        BY <2>1 DEF IInv, TypeOK, RequestTypeOK, MoveTo
      <3>2. /\ request'[r].credential = c
            /\ request'[r].sequence = s
            /\ request'[r].body = b
        BY <2>1 DEF IInv, TypeOK, RequestTypeOK, MoveTo, Handler
      <3> QED
        BY <2>1, <3>1, <3>2 DEF IInv, AdmittedGranted
    <2>7. AckedWasAccepted'
      BY <2>1 DEF IInv, AckedWasAccepted
    <2> QED
      BY <2>3, <2>4, <2>5, <2>6, <2>7 DEF IInv
  <1>3. CASE ~(lastSequence[c] < s)
    <2>1. MoveTo(r, "compare") /\ UNCHANGED <<granted, lastSequence, lastBody, acked>>
      BY <1>3 DEF Advance
    <2>2. NoNewAdmission
      BY <2>1, MoveToAdmitsNone DEF IInv, TypeOK, Admitted
    <2> QED
      BY <2>1, <2>2, FrameIInv
  <1> QED
    BY <1>2, <1>3

\* The step that admits a replay: the number and the body are those of the
\* watermark, which was granted.
LEMMA CompareIInv ==
    ASSUME IInv, TypeOK', NEW r \in Requests, Compare(r)
    PROVE  IInv'
  <1> DEFINE c == request[r].credential
             same == lastSequence[c] = request[r].sequence /\ lastBody[c] = request[r].body
  <1>1. c \in Credential /\ request[r].sequence # 0
    BY HandlerType, IngestAssumption DEF IInv, TypeOK, Sequence
  <1>2. UNCHANGED <<granted, lastSequence, lastBody, acked>>
    BY DEF Compare, credentialVars, historyVars
  <1>3. CASE same
    <2>1. <<c, request[r].sequence, request[r].body>> \in granted
      BY <1>1, <1>3 DEF IInv, WatermarkGranted
    <2>2. \A q \in Requests : q # r => request'[q] = request[q]
      BY DEF Compare, IInv, TypeOK, RequestTypeOK, MoveTo
    <2>3. /\ request'[r].credential = c
          /\ request'[r].sequence = request[r].sequence
          /\ request'[r].body = request[r].body
      BY DEF Compare, IInv, TypeOK, RequestTypeOK, MoveTo, Handler
    <2>4. AdmittedGranted'
      BY <1>2, <2>1, <2>2, <2>3 DEF IInv, AdmittedGranted
    <2> QED
      BY <1>2, <2>4 DEF IInv, GrantedUpToWatermark, WatermarkGranted,
                        OneBodyPerSequence, AckedWasAccepted
  <1>4. CASE ~same
    <2>1. NoNewAdmission
      BY <1>4, MoveToAdmitsNone DEF Compare, IInv, TypeOK, Admitted
    <2> QED
      BY <1>2, <2>1, FrameIInv
  <1> QED
    BY <1>3, <1>4

\* The device deletes its head on the answer of an admitted handler only.
LEMMA ReceiveIInv ==
    ASSUME IInv, TypeOK', NEW r \in Requests, Receive(r)
    PROVE  IInv'
  <1>1. UNCHANGED <<granted, lastSequence, lastBody>>
    BY DEF Receive, credentialVars
  <1>2. AdmittedGranted'
    <2>1. request' = [request EXCEPT ![r] = Free]
      BY DEF Receive
    <2> QED
      BY <1>1, <2>1 DEF IInv, TypeOK, RequestTypeOK, AdmittedGranted, Admitted, Free
  <1>3. AckedWasAccepted'
    <2>1. CASE waiting = r /\ request[r].stage = "ok"
      <3>1. <<request[r].credential, request[r].sequence, request[r].body>> \in granted
        BY <2>1 DEF IInv, AdmittedGranted, Admitted
      <3>2. acked' = acked \cup {request[r].body}
        BY <2>1 DEF Receive
      <3> QED
        BY <1>1, <3>1, <3>2 DEF IInv, AckedWasAccepted
    <2>2. CASE ~(waiting = r /\ request[r].stage = "ok")
      BY <1>1, <2>2 DEF Receive, IInv, AckedWasAccepted
    <2> QED
      BY <2>1, <2>2
  <1> QED
    BY <1>1, <1>2, <1>3 DEF IInv, GrantedUpToWatermark, WatermarkGranted, OneBodyPerSequence

\* Every step keeps IInv.
LEMMA StepIInv == IInv /\ [Next]_vars => IInv'
  <1> SUFFICES ASSUME IInv, [Next]_vars PROVE IInv'
    OBVIOUS
  <1>1. TypeOK /\ RequestTypeOK /\ TypeOK'
    BY StepTypeOK DEF IInv, TypeOK
  <1>2. CASE Measure
    <2>1. NoNewAdmission
      BY <1>1, <1>2 DEF Measure, NoNewAdmission
    <2>2. UNCHANGED <<granted, lastSequence, lastBody, acked>>
      BY <1>2 DEF Measure, credentialVars
    <2> QED
      BY <1>1, <2>1, <2>2, FrameIInv
  <1>3. ASSUME NEW r \in Requests, Send(r) PROVE IInv'
    <2>1. NoNewAdmission
      BY <1>1, <1>3 DEF Send, NoNewAdmission, RequestTypeOK, Admitted
    <2>2. UNCHANGED <<granted, lastSequence, lastBody, acked>>
      BY <1>3 DEF Send, credentialVars, historyVars
    <2> QED
      BY <1>1, <2>1, <2>2, FrameIInv
  <1>4. ASSUME NEW r \in Requests, Receive(r) PROVE IInv'
    BY <1>1, <1>4, ReceiveIInv
  <1>5. ASSUME NEW r \in Requests, Authenticate(r) PROVE IInv'
    <2>1. NoNewAdmission
      BY <1>1, <1>5 DEF Authenticate, NoNewAdmission, RequestTypeOK, Admitted
    <2>2. UNCHANGED <<granted, lastSequence, lastBody, acked>>
      BY <1>5 DEF Authenticate, credentialVars, historyVars
    <2> QED
      BY <1>1, <2>1, <2>2, FrameIInv
  <1>6. ASSUME NEW r \in Requests, Advance(r) PROVE IInv'
    BY <1>1, <1>6, AdvanceIInv
  <1>7. ASSUME NEW r \in Requests, Compare(r) PROVE IInv'
    BY <1>1, <1>7, CompareIInv
  <1>8. ASSUME NEW r \in Requests, Rotate(r) PROVE IInv'
    <2>1. NoNewAdmission
      BY <1>1, <1>8, MoveToAdmitsNone DEF Rotate, NoNewAdmission, Admitted
    <2>2. UNCHANGED <<granted, lastSequence, lastBody, acked>>
      BY <1>8 DEF Rotate, historyVars
    <2> QED
      BY <1>1, <2>1, <2>2, FrameIInv
  <1>9. ASSUME NEW r \in Requests, CreateReading(r) PROVE IInv'
    <2>1. NoNewAdmission
      BY <1>1, <1>9, MoveToAdmitsNone DEF CreateReading, NoNewAdmission, Admitted
    <2>2. UNCHANGED <<granted, lastSequence, lastBody, acked>>
      BY <1>9 DEF CreateReading, credentialVars, historyVars
    <2> QED
      BY <1>1, <2>1, <2>2, FrameIInv
  <1>10. ASSUME NEW r \in Requests, FindDuplicate(r) PROVE IInv'
    <2>1. NoNewAdmission
      BY <1>1, <1>10, MoveToAdmitsNone DEF FindDuplicate, NoNewAdmission, Admitted
    <2>2. UNCHANGED <<granted, lastSequence, lastBody, acked>>
      BY <1>10 DEF FindDuplicate, credentialVars, historyVars
    <2> QED
      BY <1>1, <2>1, <2>2, FrameIInv
  <1>11. ASSUME NEW r \in Requests, UpsertReceipt(r) PROVE IInv'
    <2>1. NoNewAdmission
      BY <1>1, <1>11, MoveToAdmitsNone DEF UpsertReceipt, NoNewAdmission, Admitted
    <2>2. UNCHANGED <<granted, lastSequence, lastBody, acked>>
      BY <1>11 DEF UpsertReceipt, credentialVars, historyVars
    <2> QED
      BY <1>1, <2>1, <2>2, FrameIInv
  <1>12. ASSUME NEW r \in Requests, TouchNode(r) PROVE IInv'
    <2>1. NoNewAdmission
      BY <1>1, <1>12, MoveToAdmitsNone DEF TouchNode, NoNewAdmission, Admitted
    <2>2. UNCHANGED <<granted, lastSequence, lastBody, acked>>
      BY <1>12 DEF TouchNode, credentialVars, historyVars
    <2> QED
      BY <1>1, <2>1, <2>2, FrameIInv
  <1>13. ASSUME NEW r \in Requests, AcknowledgeReplay(r) PROVE IInv'
    <2>1. NoNewAdmission
      BY <1>1, <1>13, MoveToAdmitsNone DEF AcknowledgeReplay, NoNewAdmission, Admitted
    <2>2. UNCHANGED <<granted, lastSequence, lastBody, acked>>
      BY <1>13 DEF AcknowledgeReplay, credentialVars, historyVars
    <2> QED
      BY <1>1, <2>1, <2>2, FrameIInv
  <1>14. CASE Rewind
    <2>1. NoNewAdmission
      BY <1>1, <1>14 DEF Rewind, NoNewAdmission
    <2>2. UNCHANGED <<granted, lastSequence, lastBody, acked>>
      BY <1>14 DEF Rewind, credentialVars
    <2> QED
      BY <1>1, <2>1, <2>2, FrameIInv
  <1>15. CASE ProvisionCredential
    <2>1. NoNewAdmission
      BY <1>1, <1>15 DEF ProvisionCredential, NoNewAdmission
    <2>2. UNCHANGED <<granted, lastSequence, lastBody, acked>>
      BY <1>15 DEF ProvisionCredential, historyVars
    <2> QED
      BY <1>1, <2>1, <2>2, FrameIInv
  <1>16. CASE Reflash
    <2>1. NoNewAdmission
      BY <1>1, <1>16 DEF Reflash, NoNewAdmission
    <2>2. UNCHANGED <<granted, lastSequence, lastBody, acked>>
      BY <1>16 DEF Reflash, credentialVars, historyVars
    <2> QED
      BY <1>1, <2>1, <2>2, FrameIInv
  <1>17. ASSUME NEW r \in Requests, LoseMessage(r) PROVE IInv'
    <2>1. NoNewAdmission
      BY <1>1, <1>17 DEF LoseMessage, NoNewAdmission, RequestTypeOK, Admitted, Free
    <2>2. UNCHANGED <<granted, lastSequence, lastBody, acked>>
      BY <1>17 DEF LoseMessage, credentialVars, historyVars
    <2> QED
      BY <1>1, <2>1, <2>2, FrameIInv
  <1>18. ASSUME NEW r \in Requests, HandlerFails(r) PROVE IInv'
    <2>1. NoNewAdmission
      BY <1>1, <1>18, MoveToAdmitsNone DEF HandlerFails, NoNewAdmission, Admitted
    <2>2. UNCHANGED <<granted, lastSequence, lastBody, acked>>
      BY <1>18 DEF HandlerFails, credentialVars
    <2> QED
      BY <1>1, <2>1, <2>2, FrameIInv
  <1>19. ASSUME NEW r \in Requests, RotateFails(r) PROVE IInv'
    <2>1. NoNewAdmission
      BY <1>1, <1>19, MoveToAdmitsNone DEF RotateFails, NoNewAdmission, Admitted
    <2>2. UNCHANGED <<granted, lastSequence, lastBody, acked>>
      BY <1>19 DEF RotateFails, credentialVars, historyVars
    <2> QED
      BY <1>1, <2>1, <2>2, FrameIInv
  <1>20. CASE GiveUp
    <2>1. NoNewAdmission
      BY <1>1, <1>20 DEF GiveUp, NoNewAdmission
    <2>2. UNCHANGED <<granted, lastSequence, lastBody, acked>>
      BY <1>20 DEF GiveUp, credentialVars, historyVars
    <2> QED
      BY <1>1, <2>1, <2>2, FrameIInv
  <1>21. CASE ServerCrash
    <2>1. NoNewAdmission
      BY <1>1, <1>21 DEF ServerCrash, NoNewAdmission, RequestTypeOK, Admitted, Free
    <2>2. UNCHANGED <<granted, lastSequence, lastBody, acked>>
      BY <1>21 DEF ServerCrash, credentialVars
    <2> QED
      BY <1>1, <2>1, <2>2, FrameIInv
  <1>22. CASE UNCHANGED vars
    BY <1>1, <1>22, FrameIInv DEF vars, NoNewAdmission
  <1> QED
    BY <1>2, <1>3, <1>4, <1>5, <1>6, <1>7, <1>8, <1>9, <1>10, <1>11, <1>12, <1>13, <1>14, <1>15, <1>16, <1>17, <1>18, <1>19, <1>20, <1>21, <1>22 DEF Next, Handle

\* IInv, for every value of the constants.
THEOREM Invariance == Spec => []IInv
  <1> QED
    BY InitIInv, StepIInv, PTL DEF Spec

\* OneBodyPerSequence: a credential never accepts two bodies under one number.
THEOREM OneBody == Spec => []OneBodyPerSequence
  <1>1. IInv => OneBodyPerSequence
    BY DEF IInv
  <1> QED
    BY <1>1, Invariance, PTL

\* AckedWasAccepted: what the device deletes, the server accepted.
THEOREM AckedAccepted == Spec => []AckedWasAccepted
  <1>1. IInv => AckedWasAccepted
    BY DEF IInv
  <1> QED
    BY <1>1, Invariance, PTL

\* ReadingsImmutable: sensorReading.create is the only statement that touches a
\* row, and the unique constraint lets it write a new one only.
THEOREM RowsImmutable == Spec => ReadingsImmutable
  <1> DEFINE Immutable == \A s \in Sequence : reading[s] # None => reading'[s] = reading[s]
  <1>1. TypeOK /\ [Next]_vars => [Immutable]_vars
    <2> SUFFICES ASSUME TypeOK, Next PROVE Immutable
      OBVIOUS
    <2>1. reading \in [Sequence -> Body \cup {None}]
      BY DEF TypeOK, DatabaseTypeOK
    <2>2. ASSUME NEW r \in Requests, CreateReading(r) PROVE Immutable
      BY <2>1, <2>2 DEF CreateReading
    <2>3. ASSUME NEW r \in Requests, UpsertReceipt(r) PROVE Immutable
      BY <2>3 DEF UpsertReceipt
    <2>4. ASSUME NEW r \in Requests, Send(r) \/ Receive(r) PROVE Immutable
      BY <2>4 DEF Send, Receive, readingVars
    <2>5. ASSUME NEW r \in Requests,
                 \/ Authenticate(r) \/ Advance(r) \/ Compare(r) \/ Rotate(r)
                 \/ FindDuplicate(r) \/ TouchNode(r) \/ AcknowledgeReplay(r)
          PROVE Immutable
      BY <2>5 DEF Authenticate, Advance, Compare, Rotate, FindDuplicate, TouchNode,
                  AcknowledgeReplay, readingVars
    <2>6. CASE Measure \/ Rewind \/ ProvisionCredential \/ Reflash
      BY <2>6 DEF Measure, Rewind, ProvisionCredential, Reflash, readingVars
    <2>7. ASSUME NEW r \in Requests, LoseMessage(r) \/ HandlerFails(r) \/ RotateFails(r)
          PROVE Immutable
      BY <2>7 DEF LoseMessage, HandlerFails, RotateFails, readingVars
    <2>8. CASE GiveUp \/ ServerCrash
      BY <2>8 DEF GiveUp, ServerCrash, readingVars
    <2> QED
      BY <2>2, <2>3, <2>4, <2>5, <2>6, <2>7, <2>8 DEF Next, Handle
  <1> QED
    BY <1>1, TypeCorrect, PTL DEF Spec, ReadingsImmutable

-----------------------------------------------------------------------------
(* AckedLostOnlyByInterruption.                                            *)

\* While the queue files are kept, the number of a measurement is its body, at
\* the device, on the way and in the row.
NumbersAreBodies ==
    /\ nextSequence = measured + 1
    /\ \A i \in 1..Len(queue) : queue[i].payload = queue[i].sequenceNumber
    /\ \A r \in Requests : request[r].sequence = request[r].body
    /\ \A s \in Sequence : reading[s] # None => reading[s] = s

Accounted(b) == Stored(b) \/ InFlight(b) \/ b \in interrupted

KeptInv == rewinds = 0 => NumbersAreBodies /\ \A g \in granted : Accounted(g[3])

\* What a step leaves of a handler that holds an advance: it still does, or its
\* body is in a row or interrupted.
Continues == \A r \in Requests : request[r].stage \in Committed =>
                \/ request'[r].stage \in Committed /\ request'[r].body = request[r].body
                \/ \E s \in Sequence : reading'[s] = request[r].body
                \/ request[r].body \in interrupted'

SameNumbers == \A r \in Requests : \/ request'[r] = Free
                                   \/ /\ request'[r].sequence = request[r].sequence
                                      /\ request'[r].body = request[r].body

\* Rows stay, interrupted bodies stay, handlers continue: what was accounted for
\* still is.
LEMMA AccountedKept ==
    ASSUME NEW b, Accounted(b), Continues, interrupted \subseteq interrupted',
           \A s \in Sequence : reading[s] # None => reading'[s] = reading[s],
           b # None
    PROVE  Accounted(b)'
  <1>1. CASE Stored(b)
    BY <1>1 DEF Stored, Accounted
  <1>2. CASE InFlight(b)
    BY <1>2 DEF InFlight, Stored, Continues, Accounted
  <1>3. CASE b \in interrupted
    BY <1>3 DEF Accounted
  <1> QED
    BY <1>1, <1>2, <1>3 DEF Accounted

\* A step that takes no measurement, grants nothing and writes no row.
LEMMA FrameKeptInv ==
    ASSUME TypeOK, TypeOK', KeptInv, Continues, SameNumbers,
           interrupted \subseteq interrupted', UNCHANGED <<granted, reading, nextSequence, measured>>,
           queue' = queue \/ (queue # <<>> /\ queue' = Tail(queue)), rewinds' = rewinds
    PROVE  KeptInv'
  <1> SUFFICES ASSUME rewinds = 0 PROVE (NumbersAreBodies /\ \A g \in granted : Accounted(g[3]))'
    BY DEF KeptInv
  <1>1. NumbersAreBodies /\ \A g \in granted : Accounted(g[3])
    BY DEF KeptInv
  <1>2. \A i \in 1..Len(queue') : queue'[i].payload = queue'[i].sequenceNumber
    <2>1. queue \in Seq(QueueRecord)
      BY DEF TypeOK, DeviceTypeOK
    <2>2. CASE queue' = queue
      BY <1>1, <2>2 DEF NumbersAreBodies
    <2>3. CASE queue # <<>> /\ queue' = Tail(queue)
      <3>1. Len(queue') = Len(queue) - 1 /\ \A i \in 1..Len(queue') : queue'[i] = queue[i + 1]
        BY <2>1, <2>3
      <3>2. \A i \in 1..Len(queue') : i + 1 \in 1..Len(queue)
        BY <2>1, <3>1
      <3> QED
        BY <1>1, <3>1, <3>2 DEF NumbersAreBodies
    <2> QED
      BY <2>2, <2>3
  <1>3. \A r \in Requests : request'[r].sequence = request'[r].body
    BY <1>1 DEF NumbersAreBodies, SameNumbers, Free
  <1>4. NumbersAreBodies'
    BY <1>1, <1>2, <1>3 DEF NumbersAreBodies
  <1>5. ASSUME NEW g \in granted' PROVE Accounted(g[3])'
    <2>1. g \in granted /\ Accounted(g[3])
      BY <1>1, <1>5
    <2>2. g[3] # None
      BY <2>1, IngestAssumption DEF TypeOK, HistoryTypeOK, Body
    <2> QED
      BY <2>1, <2>2, AccountedKept
  <1> QED
    BY <1>4, <1>5

LEMMA InitKeptInv == Init => KeptInv
  <1> SUFFICES ASSUME Init PROVE KeptInv
    OBVIOUS
  <1>1. NumbersAreBodies
    BY DEF Init, NumbersAreBodies, Queue!QueueInit, Free
  <1> QED
    BY <1>1 DEF Init, KeptInv

LEMMA MeasureKeptInv == ASSUME TypeOK, KeptInv, Measure PROVE KeptInv'
  <1> SUFFICES ASSUME rewinds = 0 PROVE (NumbersAreBodies /\ \A g \in granted : Accounted(g[3]))'
    BY DEF KeptInv, Measure
  <1>1. NumbersAreBodies /\ \A g \in granted : Accounted(g[3])
    BY DEF KeptInv
  <1>2. /\ queue' = Append(queue, [payload |-> measured + 1, sequenceNumber |-> nextSequence])
        /\ nextSequence' = nextSequence + 1 /\ measured' = measured + 1
        /\ UNCHANGED <<request, reading, granted, interrupted>>
    BY DEF Measure, Queue!Enqueue, readingVars
  <1>3. queue \in Seq(QueueRecord) /\ measured \in Nat
    BY DEF TypeOK, DeviceTypeOK, HistoryTypeOK
  <1>4. \A i \in 1..Len(queue') : queue'[i].payload = queue'[i].sequenceNumber
    <2> DEFINE new == [payload |-> measured + 1, sequenceNumber |-> nextSequence]
    <2>1. new.payload = new.sequenceNumber
      BY <1>1 DEF NumbersAreBodies
    <2>2. queue' = Append(queue, new)
      BY <1>2
    <2> HIDE DEF new
    <2>3. /\ Len(queue') = Len(queue) + 1 /\ queue'[Len(queue) + 1] = new
          /\ \A i \in 1..Len(queue) : queue'[i] = queue[i]
      BY <1>3, <2>2
    <2> QED
      BY <1>1, <1>3, <2>1, <2>3 DEF NumbersAreBodies
  <1>5. NumbersAreBodies'
    BY <1>1, <1>2, <1>3, <1>4 DEF NumbersAreBodies
  <1> QED
    BY <1>1, <1>2, <1>5 DEF Accounted, Stored, InFlight

LEMMA SendKeptInv == ASSUME TypeOK, KeptInv, NEW r \in Requests, Send(r) PROVE KeptInv'
  <1> SUFFICES ASSUME rewinds = 0 PROVE (NumbersAreBodies /\ \A g \in granted : Accounted(g[3]))'
    BY DEF KeptInv, Send, historyVars
  <1>1. NumbersAreBodies /\ \A g \in granted : Accounted(g[3])
    BY DEF KeptInv
  <1>2. /\ request' = [request EXCEPT ![r] =
                     [stage |-> "sent", credential |-> deviceCredential,
                      sequence |-> Head(queue).sequenceNumber,
                      body |-> Head(queue).payload, active |-> FALSE]]
        /\ UNCHANGED <<queue, nextSequence, measured, reading, granted, interrupted>>
        /\ request[r].stage = "free" /\ queue # <<>>
    BY DEF Send, readingVars, historyVars
  <1>3. queue \in Seq(QueueRecord) /\ request \in [Requests -> Handler]
    BY DEF TypeOK, DeviceTypeOK, RequestTypeOK
  <1>4. Head(queue).sequenceNumber = Head(queue).payload
    <2>1. Head(queue) = queue[1] /\ 1 \in 1..Len(queue)
      BY <1>2, <1>3
    <2> QED
      BY <1>1, <2>1 DEF NumbersAreBodies
  <1>5. NumbersAreBodies'
    BY <1>1, <1>2, <1>3, <1>4 DEF NumbersAreBodies
  <1>6. \A q \in Requests : request[q].stage \in Committed => request'[q] = request[q]
    BY <1>2, <1>3 DEF Committed
  <1>7. \A b : Accounted(b) => Accounted(b)'
    BY <1>2, <1>6 DEF Accounted, Stored, InFlight
  <1> QED
    BY <1>1, <1>2, <1>5, <1>7

\* A new grant is of a handler that is committed.
LEMMA AdvanceKeptInv ==
    ASSUME TypeOK, KeptInv, NEW r \in Requests, Advance(r)
    PROVE  KeptInv'
  <1> SUFFICES ASSUME rewinds = 0 PROVE (NumbersAreBodies /\ \A g \in granted : Accounted(g[3]))'
    BY DEF KeptInv, Advance
  <1>1. NumbersAreBodies /\ \A g \in granted : Accounted(g[3])
    BY DEF KeptInv
  <1>2. PICK st \in Stage :
        /\ request' = [request EXCEPT ![r].stage = st]
        /\ \/ granted' = granted
           \/ /\ st \in Committed
              /\ granted' = granted \cup {<<request[r].credential, request[r].sequence,
                                            request[r].body>>}
    BY DEF Advance, MoveTo, Stage, Committed
  <1>3. /\ request[r].stage = "advance"
        /\ UNCHANGED <<queue, nextSequence, measured, reading, interrupted>>
    BY DEF Advance, deviceVars, readingVars
  <1>4. request \in [Requests -> Handler]
    BY DEF TypeOK, RequestTypeOK
  <1>5. /\ request'[r].stage = st /\ \A q \in Requests \ {r} : request'[q] = request[q]
        /\ \A q \in Requests : request'[q].body = request[q].body
                               /\ request'[q].sequence = request[q].sequence
    BY <1>2, <1>4 DEF Handler
  <1>6. NumbersAreBodies'
    BY <1>1, <1>3, <1>5 DEF NumbersAreBodies
  <1>7. \A b : Accounted(b) => Accounted(b)'
    BY <1>3, <1>5 DEF Accounted, Stored, InFlight, Committed
  <1>8. ASSUME NEW g \in granted' PROVE Accounted(g[3])'
    <2>1. CASE g \in granted
      BY <1>1, <1>7, <2>1
    <2>2. CASE g \notin granted
      <3>1. g[3] = request'[r].body /\ request'[r].stage \in Committed
        BY <1>2, <1>5, <1>8, <2>2
      <3> QED
        BY <3>1 DEF Accounted, InFlight
    <2> QED
      BY <2>1, <2>2
  <1> QED
    BY <1>6, <1>8

\* A row that is there already holds the body it has to hold.
LEMMA CreateReadingKeptInv ==
    ASSUME TypeOK, TypeOK', KeptInv, NEW r \in Requests, CreateReading(r)
    PROVE  KeptInv'
  <1> SUFFICES ASSUME rewinds = 0 PROVE (NumbersAreBodies /\ \A g \in granted : Accounted(g[3]))'
    BY DEF KeptInv, CreateReading, historyVars
  <1> DEFINE s == request[r].sequence
  <1>1. NumbersAreBodies /\ \A g \in granted : Accounted(g[3])
    BY DEF KeptInv
  <1>2. /\ request \in [Requests -> Handler] /\ reading \in [Sequence -> Body \cup {None}]
        /\ s \in Sequence /\ s \in Body /\ request[r].body = s /\ s # None
    BY <1>1, HandlerType, IngestAssumption DEF TypeOK, RequestTypeOK, DatabaseTypeOK, NumbersAreBodies,
       Sequence, Body
  <1>3. PICK st \in Stage : request' = [request EXCEPT ![r].stage = st]
    BY DEF CreateReading, MoveTo, Stage
  <1>4. /\ UNCHANGED <<queue, nextSequence, measured, granted, interrupted>>
        /\ reading' = IF reading[s] = None THEN [reading EXCEPT ![s] = request[r].body] ELSE reading
    BY DEF CreateReading, deviceVars, historyVars
  <1>5. /\ reading'[s] = s
        /\ \A q \in Sequence : reading[q] # None => reading'[q] = reading[q]
        /\ \A q \in Sequence : reading'[q] # None => reading'[q] = q
    BY <1>1, <1>2, <1>4 DEF NumbersAreBodies
  <1>6. /\ \A q \in Requests \ {r} : request'[q] = request[q]
        /\ \A q \in Requests : request'[q].body = request[q].body
                               /\ request'[q].sequence = request[q].sequence
    BY <1>2, <1>3 DEF Handler
  <1>7. \A q \in Requests : request'[q].sequence = request'[q].body
    BY <1>1, <1>6 DEF NumbersAreBodies
  <1>8. NumbersAreBodies'
    <2>1. nextSequence' = measured' + 1
          /\ \A i \in 1..Len(queue') : queue'[i].payload = queue'[i].sequenceNumber
      BY <1>1, <1>4 DEF NumbersAreBodies
    <2> QED
      BY <1>5, <1>7, <2>1 DEF NumbersAreBodies
  <1>9. Continues
    BY <1>2, <1>5, <1>6 DEF Continues
  <1>10. ASSUME NEW g \in granted' PROVE Accounted(g[3])'
    <2>1. g \in granted /\ Accounted(g[3]) /\ g[3] # None
      BY <1>1, <1>4, <1>10, IngestAssumption DEF TypeOK, HistoryTypeOK, Body
    <2> QED
      BY <1>4, <1>5, <1>9, <2>1, AccountedKept
  <1> QED
    BY <1>8, <1>10

\* Moving a handler that holds no advance, or to a stage that still does.
LEMMA MovesContinue ==
    ASSUME RequestTypeOK, NEW r \in Requests, NEW st \in Stage, MoveTo(r, st),
           \/ request[r].stage \notin Committed \/ st \in Committed
           \/ request[r].body \in interrupted'
    PROVE  Continues /\ SameNumbers
  <1>1. /\ request'[r].stage = st /\ \A q \in Requests \ {r} : request'[q] = request[q]
        /\ \A q \in Requests : request'[q].body = request[q].body
                               /\ request'[q].sequence = request[q].sequence
    BY DEF MoveTo, RequestTypeOK, Handler
  <1> QED
    BY <1>1 DEF Continues, SameNumbers

\* Every step keeps the account.
LEMMA StepKeptInv == TypeOK /\ TypeOK' /\ KeptInv /\ [Next]_vars => KeptInv'
  <1> SUFFICES ASSUME TypeOK, TypeOK', KeptInv, [Next]_vars PROVE KeptInv'
    OBVIOUS
  <1>1. RequestTypeOK
    BY DEF TypeOK
  <1>2. ASSUME NEW r \in Requests, Receive(r) PROVE KeptInv'
    <2>1. Continues /\ SameNumbers
      BY <1>1, <1>2 DEF Receive, Continues, SameNumbers, RequestTypeOK, Committed
    <2>2. /\ UNCHANGED <<granted, reading, nextSequence, measured, interrupted, rewinds>>
          /\ queue' = queue \/ (queue # <<>> /\ queue' = Tail(queue))
      BY <1>2 DEF Receive, Queue!Acknowledge, readingVars
    <2> QED
      BY <2>1, <2>2, FrameKeptInv
  <1>3. ASSUME NEW r \in Requests, Authenticate(r) PROVE KeptInv'
    <2>1. /\ request[r].stage = "sent" /\ \A q \in Requests \ {r} : request'[q] = request[q]
          /\ request'[r].body = request[r].body /\ request'[r].sequence = request[r].sequence
      BY <1>1, <1>3, HandlerType DEF Authenticate, RequestTypeOK, Handler
    <2>2. Continues /\ SameNumbers
      BY <2>1 DEF Continues, SameNumbers, Committed
    <2>3. UNCHANGED <<granted, reading, nextSequence, measured, interrupted, rewinds, queue>>
      BY <1>3 DEF Authenticate, deviceVars, readingVars, historyVars
    <2> QED
      BY <2>2, <2>3, FrameKeptInv
  <1>4. ASSUME NEW r \in Requests,
               \/ Compare(r) \/ Rotate(r) \/ FindDuplicate(r) \/ UpsertReceipt(r)
               \/ TouchNode(r) \/ AcknowledgeReplay(r) \/ RotateFails(r)
        PROVE KeptInv'
    <2>1. PICK st \in Stage : MoveTo(r, st) /\ (request[r].stage \notin Committed \/ st \in Committed)
      BY <1>4 DEF Compare, Rotate, FindDuplicate, UpsertReceipt, TouchNode, AcknowledgeReplay,
                  RotateFails, Stage, Committed
    <2>2. Continues /\ SameNumbers
      BY <1>1, <2>1, MovesContinue
    <2>3. UNCHANGED <<granted, reading, nextSequence, measured, interrupted, rewinds, queue>>
      BY <1>4 DEF Compare, Rotate, FindDuplicate, UpsertReceipt, TouchNode, AcknowledgeReplay,
                  RotateFails, deviceVars, readingVars, historyVars
    <2> QED
      BY <2>2, <2>3, FrameKeptInv
  <1>5. ASSUME NEW r \in Requests, HandlerFails(r) PROVE KeptInv'
    <2>1. request[r].stage \in Committed => request[r].body \in interrupted'
      BY <1>5 DEF HandlerFails, Unsettled
    <2>2. Continues /\ SameNumbers
      BY <1>1, <1>5, <2>1, MovesContinue DEF HandlerFails, Stage
    <2>3. /\ UNCHANGED <<granted, reading, nextSequence, measured, rewinds, queue>>
          /\ interrupted \subseteq interrupted'
      BY <1>5 DEF HandlerFails, deviceVars, readingVars
    <2> QED
      BY <2>2, <2>3, FrameKeptInv
  <1>6. ASSUME NEW r \in Requests, LoseMessage(r) PROVE KeptInv'
    <2>1. Continues /\ SameNumbers
      BY <1>1, <1>6 DEF LoseMessage, Continues, SameNumbers, RequestTypeOK, Committed
    <2>2. UNCHANGED <<granted, reading, nextSequence, measured, interrupted, rewinds, queue>>
      BY <1>6 DEF LoseMessage, readingVars, historyVars
    <2> QED
      BY <2>1, <2>2, FrameKeptInv
  <1>7. CASE ServerCrash
    <2>1. \A r \in Requests : request[r].stage \in Committed => request[r].body \in interrupted'
      BY <1>7 DEF ServerCrash, Unsettled
    <2>2. Continues /\ SameNumbers
      BY <1>7, <2>1 DEF ServerCrash, Continues, SameNumbers
    <2>3. /\ UNCHANGED <<granted, reading, nextSequence, measured, rewinds, queue>>
          /\ interrupted \subseteq interrupted'
      BY <1>7 DEF ServerCrash, readingVars
    <2> QED
      BY <2>2, <2>3, FrameKeptInv
  <1>8. CASE ProvisionCredential \/ Reflash \/ GiveUp \/ UNCHANGED vars
    <2>1. UNCHANGED <<granted, reading, nextSequence, measured, interrupted, rewinds, queue, request>>
      BY <1>8 DEF ProvisionCredential, Reflash, GiveUp, vars, deviceVars, readingVars, historyVars
    <2>2. Continues /\ SameNumbers
      BY <2>1 DEF Continues, SameNumbers
    <2> QED
      BY <2>1, <2>2, FrameKeptInv
  <1>9. CASE Rewind
    BY <1>9 DEF Rewind, KeptInv, TypeOK, HistoryTypeOK
  <1> QED
    BY <1>2, <1>3, <1>4, <1>5, <1>6, <1>7, <1>8, <1>9, MeasureKeptInv, SendKeptInv,
       AdvanceKeptInv, CreateReadingKeptInv DEF Next, Handle

\* AckedLostOnlyByInterruption: for any number of handlers, retries, crashes and
\* credentials, a measurement deleted by a device that kept its files is stored,
\* under way, or was in a handler that ended between the watermark and the row.
THEOREM LossOnlyByInterruption == Spec => []AckedLostOnlyByInterruption
  <1>1. TypeOK /\ IInv /\ KeptInv => AckedLostOnlyByInterruption
    BY DEF IInv, AckedWasAccepted, KeptInv, Accounted, AckedLostOnlyByInterruption
  <1>2. Spec => []KeptInv
    BY TypeCorrect, InitKeptInv, StepKeptInv, PTL DEF Spec
  <1> QED
    BY <1>1, <1>2, TypeCorrect, Invariance, PTL
=============================================================================
