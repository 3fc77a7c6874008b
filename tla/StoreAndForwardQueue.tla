------------------------ MODULE StoreAndForwardQueue ------------------------
(***************************************************************************)
(* What the edge device's store-and-forward queue promises, as the backend *)
(* states it in src/backend/src/edge/store-and-forward-queue.ts:           *)
(* measure -> enqueue -> upload -> ACK-only delete, first in first out, no *)
(* overwrite of an unsent record.                                          *)
(*                                                                         *)
(* A payload (measurement, timestamp and message id) is one member of      *)
(* Payloads.  A record's retry counter only feeds the back-off delay and   *)
(* is left out; markUploadFailure then leaves the queue as it is.  Left    *)
(* out too are snapshotForReboot, loadAfterReboot and                      *)
(* restoreSequenceCursor, with which a test simulates a reboot: they load  *)
(* whatever records and cursor the caller passes, and the queues measured  *)
(* against this contract have their own boot.                              *)
(***************************************************************************)
EXTENDS Naturals, Sequences

CONSTANTS Payloads,     \* the measurements that can be enqueued
          MaxRecords    \* capacity of the queue (options.maxRecords)

VARIABLES records,        \* the unsent records, oldest first
          nextSequence    \* sequence number of the next record

queueVars == <<records, nextSequence>>

Record == [payload : Payloads, sequenceNumber : Nat]

QueueTypeOK ==
    /\ records \in Seq(Record)
    /\ nextSequence \in Nat

QueueInit ==
    /\ records = <<>>
    /\ nextSequence = 1

\* enqueue: refused (an exception, no state change) when the queue is full.
Enqueue(p) ==
    /\ Len(records) < MaxRecords
    /\ records' = Append(records, [payload |-> p, sequenceNumber |-> nextSequence])
    /\ nextSequence' = nextSequence + 1

\* acknowledge: removes the head, and only when the acknowledged sequence is
\* the head's.  Any other acknowledgement returns false and changes nothing.
Acknowledge(s) ==
    /\ records # <<>>
    /\ Head(records).sequenceNumber = s
    /\ records' = Tail(records)
    /\ UNCHANGED nextSequence

QueueNext ==
    \/ \E p \in Payloads : Enqueue(p)
    \/ \E s \in 1..nextSequence : Acknowledge(s)

QueueSpec == QueueInit /\ [][QueueNext]_queueVars

\* Unsent records carry consecutive sequence numbers that end just below the
\* cursor: nothing was overwritten, skipped, reordered or numbered twice.
Contiguous ==
    \A i \in 1..Len(records) :
        records[i].sequenceNumber + (Len(records) - i) + 1 = nextSequence
=============================================================================
