--------------------- MODULE StoreAndForwardQueue_proofs ---------------------
(***************************************************************************)
(* The abstract queue keeps its numbering, whatever is enqueued and        *)
(* whatever is acknowledged, for any capacity.  JournaledQueue is checked  *)
(* to implement it, so the same holds of the ring at every power loss.     *)
(***************************************************************************)
EXTENDS StoreAndForwardQueue, TLAPS

QueueInv == QueueTypeOK /\ Contiguous

LEMMA EnqueueContiguous ==
    ASSUME QueueInv, NEW p \in Payloads, Enqueue(p)
    PROVE  QueueInv'
  <1> DEFINE r == [payload |-> p, sequenceNumber |-> nextSequence]
  <1>1. records \in Seq(Record) /\ nextSequence \in Nat /\ r \in Record
    BY DEF QueueInv, QueueTypeOK, Record
  <1>2. records' = Append(records, r) /\ nextSequence' = nextSequence + 1
    BY DEF Enqueue
  <1>3. QueueTypeOK'
    BY <1>1, <1>2 DEF QueueTypeOK
  <1>4. Len(records') = Len(records) + 1 /\ Len(records) \in Nat
    BY <1>1, <1>2
  <1>5. ASSUME NEW i \in 1..Len(records')
        PROVE  records'[i].sequenceNumber + (Len(records') - i) + 1 = nextSequence'
    <2>1. CASE i = Len(records')
      BY <1>1, <1>2, <1>4, <2>1
    <2>2. CASE i # Len(records')
      <3>1. i \in 1..Len(records) /\ records'[i] = records[i] /\ records[i] \in Record
        BY <1>1, <1>2, <1>4, <2>2
      <3>2. records[i].sequenceNumber \in Nat
        BY <3>1 DEF Record
      <3>3. records[i].sequenceNumber + (Len(records) - i) + 1 = nextSequence
        BY <3>1 DEF QueueInv, Contiguous
      <3> QED
        BY <1>1, <1>2, <1>4, <3>1, <3>2, <3>3
    <2> QED
      BY <2>1, <2>2
  <1> QED
    BY <1>3, <1>5 DEF QueueInv, Contiguous

LEMMA AcknowledgeContiguous ==
    ASSUME QueueInv, NEW s, Acknowledge(s)
    PROVE  QueueInv'
  <1>1. records \in Seq(Record) /\ nextSequence \in Nat /\ records # <<>>
    BY DEF QueueInv, QueueTypeOK, Acknowledge
  <1>2. records' = Tail(records) /\ nextSequence' = nextSequence
    BY DEF Acknowledge
  <1>3. /\ records' \in Seq(Record) /\ Len(records') = Len(records) - 1
        /\ Len(records) \in Nat /\ Len(records) # 0
        /\ \A i \in 1..Len(records') : records'[i] = records[i + 1] /\ i + 1 \in 1..Len(records)
    BY <1>1, <1>2
  <1>4. ASSUME NEW i \in 1..Len(records')
        PROVE  records'[i].sequenceNumber + (Len(records') - i) + 1 = nextSequence'
    <2>1. records[i + 1] \in Record /\ i + 1 \in 1..Len(records)
      BY <1>1, <1>3
    <2>2. records[i + 1].sequenceNumber \in Nat
      BY <2>1 DEF Record
    <2>3. records[i + 1].sequenceNumber + (Len(records) - (i + 1)) + 1 = nextSequence
      BY <2>1 DEF QueueInv, Contiguous
    <2> QED
      BY <1>2, <1>3, <2>2, <2>3
  <1> QED
    BY <1>1, <1>2, <1>3, <1>4 DEF QueueInv, QueueTypeOK, Contiguous

\* Contiguous: no unsent record is overwritten, skipped, reordered or numbered
\* twice, for any capacity and any payloads.
THEOREM NumberingContiguous == QueueSpec => []Contiguous
  <1>1. QueueInit => QueueInv
    BY DEF QueueInit, QueueInv, QueueTypeOK, Contiguous
  <1>2. QueueInv /\ [QueueNext]_queueVars => QueueInv'
    <2> SUFFICES ASSUME QueueInv, [QueueNext]_queueVars PROVE QueueInv'
      OBVIOUS
    <2>1. CASE QueueNext
      BY <2>1, EnqueueContiguous, AcknowledgeContiguous DEF QueueNext
    <2>2. CASE UNCHANGED queueVars
      BY <2>2 DEF queueVars, QueueInv, QueueTypeOK, Contiguous
    <2> QED
      BY <2>1, <2>2
  <1>3. QueueInv => Contiguous
    BY DEF QueueInv
  <1> QED
    BY <1>1, <1>2, <1>3, PTL DEF QueueSpec
=============================================================================
