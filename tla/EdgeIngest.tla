----------------------------- MODULE EdgeIngest -----------------------------
(***************************************************************************)
(* Delivery of queued measurements from one edge device to the backend:    *)
(*                                                                         *)
(*   uploadHead()           src/firmware/GridFlexEdge/GridFlexEdge.ino     *)
(*   verifyEdgeDeviceAuth   src/backend/src/middleware/edgeDeviceAuth.ts   *)
(*   ingestEdgeData,                                                       *)
(*   createReading          src/backend/src/services/reading.service.ts    *)
(*   provision/complete     src/backend/src/services/                      *)
(*   rotation                 device-credential.service.ts                 *)
(*                                                                         *)
(* The device uploads the head of its queue (StoreAndForwardQueue) and     *)
(* waits for one answer at a time, but a request it has given up on may    *)
(* still be running on the server.  A request handler is a sequence of     *)
(* database calls; handlers interleave between any two of them.  Requests  *)
(* and answers are lost, handlers fail, the server crashes (all bounded by *)
(* MaxFaults), operators provision a new credential and reflash the device,*)
(* and the device may lose its queue files and start again from sequence 1.*)
(*                                                                         *)
(* A body is the number of the measurement it carries, so equal bodies are *)
(* equal hashes.  Nonces are fresh for every attempt.  One node: a reading *)
(* is the row of its sequence number (@@unique([nodeId, sequenceNumber])), *)
(* a receipt the row of its sequence number for the device.                *)
(***************************************************************************)
EXTENDS Naturals, Sequences

CONSTANTS Requests,         \* bound: handlers that can exist at a time
          MaxMeasurements,  \* bound: measurements taken
          MaxCredentials,   \* bound: credentials ever provisioned
          MaxFaults,        \* bound: lost messages, errors, time-outs, crashes
          MaxRewinds,       \* bound: times the device loses its queue files
          MaxRecords,       \* capacity of the device's queue
          None

ASSUME IngestAssumption ==
    /\ MaxMeasurements \in Nat \ {0}
    /\ MaxCredentials \in Nat \ {0}
    /\ MaxFaults \in Nat
    /\ MaxRewinds \in Nat
    /\ MaxRecords \in Nat \ {0}
    /\ None \notin Requests
    /\ None \notin Nat

Body == 1..MaxMeasurements
Sequence == 1..MaxMeasurements
Credential == 1..MaxCredentials

VARIABLES
    \* device
    queue, nextSequence,   \* StoreAndForwardQueue
    deviceCredential,      \* CREDENTIAL_ID and KEY_VERSION flashed
    waiting,               \* the request uploadHead() is waiting for, or None
    \* requests and their handlers
    request,               \* [Requests -> Handler]
    \* database
    status,                \* [Credential -> status of the DeviceCredential row]
    lastSequence,          \* [Credential -> lastSequenceNumber; 0 is null]
    lastBody,              \* [Credential -> lastAcceptedBodyHash, or None]
    reading,               \* [Sequence -> body of the SensorReading row, or None]
    receipt,               \* sequence numbers with an EdgeIngestReceipt row
    \* history and bounds
    measured,              \* measurements taken
    faults, rewinds,
    granted,               \* <<credential, sequence, body>> of every watermark advance
    acked,                 \* bodies the device deleted on an acknowledgement
    interrupted            \* bodies whose handler ended between the watermark
                           \* advance and the reading row

deviceVars == <<queue, nextSequence, deviceCredential, waiting>>
credentialVars == <<status, lastSequence, lastBody>>
readingVars == <<reading, receipt>>
historyVars == <<measured, rewinds, granted, acked, interrupted>>
vars == <<queue, nextSequence, deviceCredential, waiting, request, status, lastSequence,
          lastBody, reading, receipt, measured, faults, rewinds, granted, acked, interrupted>>

Queue == INSTANCE StoreAndForwardQueue
           WITH records <- queue, Payloads <- Body

\* Where a handler stands: the next thing it does.
Stage == {"free", "sent", "advance", "compare", "rotate", "ingest", "replay",
          "receipt", "touch", "duplicate", "ok", "error"}

\* Stages at which a handler holds a watermark advance not yet turned into a row.
Committed == {"rotate", "ingest"}

Handler == [stage : Stage, credential : Credential, sequence : Sequence,
            body : Body, active : BOOLEAN]
Free == [stage |-> "free", credential |-> 1, sequence |-> 1, body |-> 1, active |-> FALSE]

Init ==
    /\ Queue!QueueInit
    /\ deviceCredential = 1
    /\ waiting = None
    /\ request = [r \in Requests |-> Free]
    /\ status = [c \in Credential |-> IF c = 1 THEN "active" ELSE "absent"]
    /\ lastSequence = [c \in Credential |-> 0]
    /\ lastBody = [c \in Credential |-> None]
    /\ reading = [s \in Sequence |-> None]
    /\ receipt = {}
    /\ measured = 0
    /\ faults = 0
    /\ rewinds = 0
    /\ granted = {}
    /\ acked = {}
    /\ interrupted = {}

MoveTo(r, stage) == request' = [request EXCEPT ![r].stage = stage]

-----------------------------------------------------------------------------
(* The device.                                                             *)

\* measureAndEnqueue()
Measure ==
    /\ measured < MaxMeasurements
    /\ nextSequence <= MaxMeasurements
    /\ Queue!Enqueue(measured + 1)
    /\ measured' = measured + 1
    /\ UNCHANGED <<deviceCredential, waiting, request, credentialVars, readingVars,
                   faults, rewinds, granted, acked, interrupted>>

\* uploadHead(): sign and POST the head record.
Send(r) ==
    /\ waiting = None
    /\ queue # <<>>
    /\ request[r].stage = "free"
    /\ request' = [request EXCEPT ![r] =
                     [stage |-> "sent", credential |-> deviceCredential,
                      sequence |-> Head(queue).sequenceNumber,
                      body |-> Head(queue).payload, active |-> FALSE]]
    /\ waiting' = r
    /\ UNCHANGED <<queue, nextSequence, deviceCredential, credentialVars, readingVars,
                   faults, historyVars>>

\* Mutant: every answer is taken for an acknowledgement.
ReceiveAnyAnswer(r) ==
    /\ request[r].stage \in {"ok", "error"}
    /\ request' = [request EXCEPT ![r] = Free]
    /\ IF waiting = r
       THEN /\ Queue!Acknowledge(request[r].sequence)
            /\ acked' = acked \cup {request[r].body}
       ELSE UNCHANGED <<queue, nextSequence, acked>>
    /\ waiting' = IF waiting = r THEN None ELSE waiting
    /\ UNCHANGED <<deviceCredential, credentialVars, readingVars, measured, faults,
                   rewinds, granted, interrupted>>

\* 200 or 201 while the device waits for it: delete the record.  Any other
\* answer leaves it at the head for the next attempt.  An answer nobody waits
\* for is dropped.
Receive(r) ==
    /\ request[r].stage \in {"ok", "error"}
    /\ request' = [request EXCEPT ![r] = Free]
    /\ IF waiting = r /\ request[r].stage = "ok"
       THEN /\ Queue!Acknowledge(request[r].sequence)
            /\ acked' = acked \cup {request[r].body}
       ELSE UNCHANGED <<queue, nextSequence, acked>>
    /\ waiting' = IF waiting = r THEN None ELSE waiting
    /\ UNCHANGED <<deviceCredential, credentialVars, readingVars, measured, faults,
                   rewinds, granted, interrupted>>

\* Mutant: the cursor starts again from 0.
RewindToZero ==
    /\ rewinds < MaxRewinds
    /\ waiting = None
    /\ queue' = <<>>
    /\ nextSequence' = 0
    /\ rewinds' = rewinds + 1
    /\ UNCHANGED <<deviceCredential, waiting, request, credentialVars, readingVars,
                   measured, faults, granted, acked, interrupted>>

\* The queue files are gone at boot (rebuildMetaFromSlots() finds none): the
\* cursor starts again from 1.
Rewind ==
    /\ rewinds < MaxRewinds
    /\ waiting = None
    /\ queue' = <<>>
    /\ nextSequence' = 1
    /\ rewinds' = rewinds + 1
    /\ UNCHANGED <<deviceCredential, waiting, request, credentialVars, readingVars,
                   measured, faults, granted, acked, interrupted>>

-----------------------------------------------------------------------------
(* verifyEdgeDeviceAuth                                                    *)

\* The nonce is stored and the credential row read; `active` remembers its
\* status for the rotation step.  A revoked credential is refused, and so is a
\* sequence number below the watermark.
Authenticate(r) ==
    LET c == request[r].credential
        admitted == status[c] \in {"active", "rotating"} /\ request[r].sequence >= lastSequence[c]
    IN
    /\ request[r].stage = "sent"
    /\ request' = [request EXCEPT ![r] = [@ EXCEPT !.stage = IF admitted THEN "advance" ELSE "error",
                                                   !.active = (status[c] = "active")]]
    /\ UNCHANGED <<deviceVars, credentialVars, readingVars, faults, historyVars>>

\* Mutant: the watermark is written whatever it holds (read, then update).
AdvanceUnconditionally(r) ==
    LET c == request[r].credential s == request[r].sequence b == request[r].body IN
    /\ request[r].stage = "advance"
    /\ lastSequence' = [lastSequence EXCEPT ![c] = s]
    /\ lastBody' = [lastBody EXCEPT ![c] = b]
    /\ granted' = granted \cup {<<c, s, b>>}
    /\ MoveTo(r, IF request[r].active THEN "rotate" ELSE "ingest")
    /\ UNCHANGED <<deviceVars, status, readingVars, measured, faults, rewinds, acked, interrupted>>

\* updateMany ... where lastSequenceNumber is null or lt: the atomic advance.
Advance(r) ==
    LET c == request[r].credential s == request[r].sequence b == request[r].body IN
    /\ request[r].stage = "advance"
    /\ IF lastSequence[c] < s
       THEN /\ lastSequence' = [lastSequence EXCEPT ![c] = s]
            /\ lastBody' = [lastBody EXCEPT ![c] = b]
            /\ granted' = granted \cup {<<c, s, b>>}
            /\ MoveTo(r, IF request[r].active THEN "rotate" ELSE "ingest")
       ELSE /\ MoveTo(r, "compare")
            /\ UNCHANGED <<lastSequence, lastBody, granted>>
    /\ UNCHANGED <<deviceVars, status, readingVars, measured, faults, rewinds, acked, interrupted>>

\* Mutant: the body hash is not compared.
CompareSequenceOnly(r) ==
    LET c == request[r].credential IN
    /\ request[r].stage = "compare"
    /\ MoveTo(r, IF lastSequence[c] = request[r].sequence THEN "replay" ELSE "error")
    /\ UNCHANGED <<deviceVars, credentialVars, readingVars, faults, historyVars>>

\* Mutant: a repetition of the accepted request is refused like any other.
RefuseReplay(r) ==
    /\ request[r].stage = "compare"
    /\ MoveTo(r, "error")
    /\ UNCHANGED <<deviceVars, credentialVars, readingVars, faults, historyVars>>

\* The advance matched no row: an equal sequence number with the accepted body
\* is a replay, anything else is refused.
Compare(r) ==
    LET c == request[r].credential
        same == lastSequence[c] = request[r].sequence /\ lastBody[c] = request[r].body
    IN
    /\ request[r].stage = "compare"
    /\ MoveTo(r, IF same THEN "replay" ELSE "error")
    /\ UNCHANGED <<deviceVars, credentialVars, readingVars, faults, historyVars>>

\* completeCredentialRotation(): the overlapping older keys are revoked.
Rotate(r) ==
    /\ request[r].stage = "rotate"
    /\ status' = [c \in Credential |->
                    IF status[c] = "rotating" /\ c # request[r].credential
                    THEN "revoked" ELSE status[c]]
    /\ MoveTo(r, "ingest")
    /\ UNCHANGED <<deviceVars, lastSequence, lastBody, readingVars, faults, historyVars>>

-----------------------------------------------------------------------------
(* ingestEdgeData and createReading                                        *)

\* Mutant: the unique constraint is not enforced; a second row replaces the first.
CreateReadingAnyway(r) ==
    /\ request[r].stage = "ingest"
    /\ reading' = [reading EXCEPT ![request[r].sequence] = request[r].body]
    /\ MoveTo(r, "receipt")
    /\ UNCHANGED <<deviceVars, credentialVars, receipt, faults, historyVars>>

\* sensorReading.create; P2002 when the node already has that sequence number.
CreateReading(r) ==
    LET s == request[r].sequence IN
    /\ request[r].stage = "ingest"
    /\ IF reading[s] = None
       THEN /\ reading' = [reading EXCEPT ![s] = request[r].body]
            /\ MoveTo(r, "receipt")
       ELSE /\ MoveTo(r, "duplicate")
            /\ UNCHANGED reading
    /\ UNCHANGED <<deviceVars, credentialVars, receipt, faults, historyVars>>

\* After P2002: acknowledged when the receipt leads to the row, else rethrown.
FindDuplicate(r) ==
    /\ request[r].stage = "duplicate"
    /\ MoveTo(r, IF request[r].sequence \in receipt THEN "ok" ELSE "error")
    /\ UNCHANGED <<deviceVars, credentialVars, readingVars, faults, historyVars>>

UpsertReceipt(r) ==
    /\ request[r].stage = "receipt"
    /\ receipt' = receipt \cup {request[r].sequence}
    /\ MoveTo(r, "touch")
    /\ UNCHANGED <<deviceVars, credentialVars, reading, faults, historyVars>>

\* edgeNode.update and the status log, then 201.
TouchNode(r) ==
    /\ request[r].stage = "touch"
    /\ MoveTo(r, "ok")
    /\ UNCHANGED <<deviceVars, credentialVars, readingVars, faults, historyVars>>

\* Idempotent replay: 200, whether or not the receipt and its row are found
\* ("receipt missing (legacy) -- still ACK success").
AcknowledgeReplay(r) ==
    /\ request[r].stage = "replay"
    /\ MoveTo(r, "ok")
    /\ UNCHANGED <<deviceVars, credentialVars, readingVars, faults, historyVars>>

-----------------------------------------------------------------------------
(* Operators (device-credential.service.ts, and a reflash of the device).  *)

\* provisionDeviceCredential(): the latest key, if active, starts rotating.
ProvisionCredential ==
    \E c \in Credential :
        /\ status[c] # "absent"
        /\ c + 1 \in Credential
        /\ status[c + 1] = "absent"
        /\ status' = [status EXCEPT ![c] = IF @ = "active" THEN "rotating" ELSE @,
                                    ![c + 1] = "active"]
        /\ UNCHANGED <<deviceVars, request, lastSequence, lastBody, readingVars, faults, historyVars>>

Reflash ==
    /\ waiting = None
    /\ deviceCredential + 1 \in Credential
    /\ status[deviceCredential + 1] # "absent"
    /\ deviceCredential' = deviceCredential + 1
    /\ UNCHANGED <<queue, nextSequence, waiting, request, credentialVars, readingVars,
                   faults, historyVars>>

-----------------------------------------------------------------------------
(* Faults.                                                                 *)

Fault == faults < MaxFaults /\ faults' = faults + 1

\* The bodies of the handlers in S that hold a watermark advance without a row.
Unsettled(S) == {request[r].body : r \in {q \in S : request[q].stage \in Committed}}

\* The connection breaks before the request reaches a handler, or with the answer.
LoseMessage(r) ==
    /\ Fault
    /\ request[r].stage \in {"sent", "ok", "error"}
    /\ request' = [request EXCEPT ![r] = Free]
    /\ waiting' = IF waiting = r THEN None ELSE waiting
    /\ UNCHANGED <<queue, nextSequence, deviceCredential, credentialVars, readingVars, historyVars>>

\* The device gives up; the handler, if any, runs on.
GiveUp ==
    /\ Fault
    /\ waiting # None
    /\ waiting' = None
    /\ UNCHANGED <<queue, nextSequence, deviceCredential, request, credentialVars, readingVars, historyVars>>

\* A handler fails between two database calls: the replay store is not
\* available, a query times out, the node is refused.  The client gets 4xx/5xx.
HandlerFails(r) ==
    /\ Fault
    /\ request[r].stage \notin {"free", "rotate", "ok", "error"}
    /\ MoveTo(r, "error")
    /\ interrupted' = interrupted \cup Unsettled({r})
    /\ UNCHANGED <<deviceVars, credentialVars, readingVars, measured, rewinds, granted, acked>>

\* "Rotation bookkeeping must not fail the ingest."
RotateFails(r) ==
    /\ Fault
    /\ request[r].stage = "rotate"
    /\ MoveTo(r, "ingest")
    /\ UNCHANGED <<deviceVars, credentialVars, readingVars, historyVars>>

\* The process dies with every handler in it.
ServerCrash ==
    /\ Fault
    /\ request' = [r \in Requests |-> IF request[r].stage = "sent" THEN request[r] ELSE Free]
    /\ waiting' = IF waiting # None /\ request[waiting].stage # "sent" THEN None ELSE waiting
    /\ interrupted' = interrupted \cup Unsettled(Requests)
    /\ UNCHANGED <<queue, nextSequence, deviceCredential, credentialVars, readingVars,
                   measured, rewinds, granted, acked>>

-----------------------------------------------------------------------------
Handle(r) ==
    \/ Authenticate(r) \/ Advance(r) \/ Compare(r) \/ Rotate(r)
    \/ CreateReading(r) \/ FindDuplicate(r) \/ UpsertReceipt(r) \/ TouchNode(r)
    \/ AcknowledgeReplay(r)

Next ==
    \/ Measure
    \/ \E r \in Requests : Send(r) \/ Receive(r) \/ Handle(r)
    \/ Rewind
    \/ ProvisionCredential
    \/ Reflash
    \/ \E r \in Requests : LoseMessage(r) \/ HandlerFails(r) \/ RotateFails(r)
    \/ GiveUp
    \/ ServerCrash

\* The firmware loop retries the head for ever, and every answer and every
\* database call completes unless a fault says otherwise.
Fairness ==
    /\ WF_vars(\E r \in Requests : Send(r))
    /\ \A r \in Requests : WF_vars(Receive(r)) /\ WF_vars(Handle(r))

Spec == Init /\ [][Next]_vars /\ Fairness

-----------------------------------------------------------------------------
(* Properties.                                                             *)

QueueRecord == [payload : Body, sequenceNumber : Sequence]

DeviceTypeOK ==
    /\ queue \in Seq(QueueRecord)
    /\ nextSequence \in 1..(MaxMeasurements + 1)
    /\ deviceCredential \in Credential
    /\ waiting \in Requests \cup {None}

RequestTypeOK == request \in [Requests -> Handler]

DatabaseTypeOK ==
    /\ status \in [Credential -> {"absent", "active", "rotating", "revoked"}]
    /\ lastSequence \in [Credential -> 0..MaxMeasurements]
    /\ lastBody \in [Credential -> Body \cup {None}]
    /\ reading \in [Sequence -> Body \cup {None}]
    /\ receipt \in SUBSET Sequence

HistoryTypeOK ==
    /\ measured \in 0..MaxMeasurements
    /\ faults \in 0..MaxFaults
    /\ rewinds \in 0..MaxRewinds
    /\ granted \in SUBSET (Credential \X Sequence \X Body)
    /\ acked \in SUBSET Body
    /\ interrupted \in SUBSET Body

TypeOK == DeviceTypeOK /\ RequestTypeOK /\ DatabaseTypeOK /\ HistoryTypeOK

\* A credential accepts a sequence number for one body only, in whatever order
\* concurrent handlers, retries of a request the device gave up on and reuse
\* of numbers after a lost queue reach the atomic watermark advance.
OneBodyPerSequence ==
    \A g, h \in granted : g[1] = h[1] /\ g[2] = h[2] => g[3] = h[3]

\* The device deletes a measurement only if the server accepted that very
\* measurement: never on the acceptance of another one that carried its number.
AckedWasAccepted == \A b \in acked : \E g \in granted : g[3] = b

\* A reading row is written once: neither a replay, a duplicate, nor a reused
\* number after a credential change replaces the measurement it holds.
ReadingsImmutable == [][\A s \in Sequence : reading[s] # None => reading'[s] = reading[s]]_vars

Stored(b) == \E s \in Sequence : reading[s] = b
InFlight(b) == \E r \in Requests : request[r].body = b /\ request[r].stage \in Committed

\* While the device keeps its queue files, a deleted measurement is in its row,
\* is on its way there, or belongs to a handler that died after the watermark
\* advance: there is no other way to lose one.
AckedLostOnlyByInterruption ==
    rewinds = 0 => \A b \in acked : Stored(b) \/ InFlight(b) \/ b \in interrupted

\* docs/EDGE_RELIABILITY.md: accepting a sequence number is "create reading +
\* receipt; advance watermark", a repetition gets an "idempotent ACK".  So a
\* measurement the device has deleted is stored once no handler is running.
AckedMeasurementsAreStored ==
    (\A r \in Requests : request[r].stage = "free") => \A b \in acked : Stored(b)

\* schema.prisma: lastAcceptedBodyHash "binds idempotent retries to the same
\* payload".  Whoever is told that its reading is already there (200, duplicate
\* acknowledged) sent the payload that the row of that number holds.
IdempotentAckBindsPayload ==
    [][\A r \in Requests :
         /\ request[r].stage \in {"replay", "duplicate"}
         /\ request'[r].stage = "ok"
         /\ reading[request[r].sequence] # None
         => reading[request[r].sequence] = request[r].body]_vars

\* The head of the queue is never stuck: unless the device lost its queue
\* files, or its key was revoked, every queued measurement is acknowledged in
\* the end, whatever (finitely many) faults happen on the way.
QueueDrains ==
    []<>(queue = <<>> \/ rewinds > 0 \/ status[deviceCredential] = "revoked")

-----------------------------------------------------------------------------
(* The inductive invariant behind OneBodyPerSequence and AckedWasAccepted. *)

\* Everything accepted is at or below the watermark, at it only the last body.
GrantedUpToWatermark ==
    \A g \in granted :
        /\ g[2] <= lastSequence[g[1]]
        /\ g[2] = lastSequence[g[1]] => g[3] = lastBody[g[1]]

\* The watermark itself was accepted.
WatermarkGranted ==
    \A c \in Credential :
        lastSequence[c] # 0 => <<c, lastSequence[c], lastBody[c]>> \in granted

\* Past the watermark, a handler works for an accepted body.
Admitted == {"rotate", "ingest", "receipt", "touch", "duplicate", "replay", "ok"}

AdmittedGranted ==
    \A r \in Requests :
        request[r].stage \in Admitted =>
            <<request[r].credential, request[r].sequence, request[r].body>> \in granted

IInv == /\ TypeOK
        /\ GrantedUpToWatermark /\ WatermarkGranted
        /\ OneBodyPerSequence /\ AdmittedGranted /\ AckedWasAccepted
=============================================================================
