--------------------------- MODULE JournaledQueue ---------------------------
(***************************************************************************)
(* The journaled, dual-meta ring queue of                                  *)
(* src/backend/src/edge/journaled-queue.ts: the host mirror the backend    *)
(* keeps of the firmware queue to test power loss at every stage.          *)
(*                                                                         *)
(* Slots, the two meta buffers and the journal are durable.  Each durable  *)
(* write is one step, so that power can be lost (PowerLoss) between any    *)
(* two of them; recoverAfterCrash then runs before anything else.  The     *)
(* firmware commits an acknowledgement in the same stages, which is why    *)
(* the statements of acknowledge() are steps here too.                     *)
(*                                                                         *)
(* `active` is kept as in the class: the name of the buffer that holds the *)
(* current meta; the inactive one is the next to be written.               *)
(***************************************************************************)
EXTENDS Naturals, Sequences

CONSTANTS Payloads,     \* what can be enqueued
          MaxRecords,   \* ring size
          MaxSequence,  \* bound: last sequence number the model hands out
          MaxGen,       \* bound: last meta generation the model reaches
          None          \* no record in the slot, no meta, no journal

ASSUME MaxRecordsAssumption == MaxRecords \in Nat \ {0}

VARIABLES slots,    \* [ring position -> record or None]
          metas,    \* [{"a","b"} -> meta or None]
          journal,  \* the intended operation, or None
          active,   \* "a" or "b"
          pending,  \* record being enqueued (RAM)
          stage     \* the call in progress: where the next durable write is

vars == <<slots, metas, journal, active, pending, stage>>

Slot == 0..(MaxRecords - 1)
Record == [payload : Payloads, sequenceNumber : Nat]
Meta == [gen : Nat, head : Slot, tail : Slot, count : 0..MaxRecords,
         nextSequence : Nat]
Journal == [op : {"enqueue", "ack"}, slot : Slot, sequence : Nat,
            count : 0..MaxRecords, tail : Slot, nextSequence : Nat, head : Slot]

ASSUME NoneAssumption == None \notin Record /\ None \notin Meta /\ None \notin Journal

Stage == {"idle", "enqueue-data", "enqueue-commit", "enqueue-clear",
          "ack-commit", "ack-remove", "ack-clear", "crashed"}

\* Mutant: a ring position is not wrapped.
Next1Unwrapped(i) == i + 1

Next1(i) == (i + 1) % MaxRecords
Other(w) == IF w = "a" THEN "b" ELSE "a"

\* get meta(): the buffer of the highest generation, "a" on a tie.
CurrentMeta ==
    IF metas["a"] # None /\ (metas["b"] = None \/ metas["a"].gen >= metas["b"].gen)
    THEN metas["a"]
    ELSE IF metas["b"] # None THEN metas["b"]
    ELSE [gen |-> 0, head |-> 0, tail |-> 0, count |-> 0, nextSequence |-> 1]

Init ==
    /\ slots = [i \in Slot |-> None]
    /\ metas = [w \in {"a", "b"} |->
                  IF w = "a"
                  THEN [gen |-> 1, head |-> 0, tail |-> 0, count |-> 0, nextSequence |-> 1]
                  ELSE None]
    /\ journal = None
    /\ active = "a"
    /\ pending = None
    /\ stage = "idle"

-----------------------------------------------------------------------------
(* enqueue(): journal, data, meta, clear.                                  *)

BeginEnqueueJournal(p) ==
    LET m == CurrentMeta IN
    /\ stage = "idle"
    /\ m.nextSequence <= MaxSequence
    /\ m.count < MaxRecords
    /\ journal' = [op |-> "enqueue", slot |-> m.tail, sequence |-> m.nextSequence,
                   count |-> m.count + 1, tail |-> Next1(m.tail),
                   nextSequence |-> m.nextSequence + 1, head |-> m.head]
    /\ pending' = [payload |-> p, sequenceNumber |-> m.nextSequence]
    /\ stage' = "enqueue-data"
    /\ UNCHANGED <<slots, metas, active>>

CompleteEnqueueData ==
    /\ stage = "enqueue-data"
    /\ slots' = [slots EXCEPT ![journal.slot] = pending]
    /\ stage' = "enqueue-commit"
    /\ UNCHANGED <<metas, journal, active, pending>>

\* Mutant: the other buffer is written but the roles are not swapped.
CommitMetaWithoutFlip ==
    /\ metas' = [metas EXCEPT ![Other(active)] =
                   [gen |-> CurrentMeta.gen + 1, head |-> journal.head,
                    tail |-> journal.tail, count |-> journal.count,
                    nextSequence |-> journal.nextSequence]]
    /\ UNCHANGED active

\* commitMetaFromJournal(): write the inactive buffer, then flip.
CommitMeta ==
    /\ metas' = [metas EXCEPT ![Other(active)] =
                   [gen |-> CurrentMeta.gen + 1, head |-> journal.head,
                    tail |-> journal.tail, count |-> journal.count,
                    nextSequence |-> journal.nextSequence]]
    /\ active' = Other(active)

\* clearJournal()
ClearJournal ==
    /\ journal' = None
    /\ pending' = None
    /\ stage' = "idle"

EnqueueCommit ==
    /\ stage = "enqueue-commit"
    /\ CommitMeta
    /\ stage' = "enqueue-clear"
    /\ UNCHANGED <<slots, journal, pending>>

EnqueueClear ==
    /\ stage = "enqueue-clear"
    /\ ClearJournal
    /\ UNCHANGED <<slots, metas, active>>

-----------------------------------------------------------------------------
(* acknowledge(): refused unless the head carries that sequence number.    *)

Peek == IF CurrentMeta.count = 0 THEN None ELSE slots[CurrentMeta.head]

BeginAcknowledge(s) ==
    LET m == CurrentMeta IN
    /\ stage = "idle"
    /\ Peek # None
    /\ Peek.sequenceNumber = s
    /\ journal' = [op |-> "ack", slot |-> m.head, sequence |-> s,
                   count |-> m.count - 1, tail |-> m.tail,
                   nextSequence |-> m.nextSequence, head |-> Next1(m.head)]
    /\ stage' = "ack-commit"
    /\ UNCHANGED <<slots, metas, active, pending>>

AckCommit ==
    /\ stage = "ack-commit"
    /\ CommitMeta
    /\ stage' = "ack-remove"
    /\ UNCHANGED <<slots, journal, pending>>

\* Mutant: the acknowledged record's slot is not deleted.
AckRemoveForgotten ==
    /\ stage = "ack-remove"
    /\ stage' = "ack-clear"
    /\ UNCHANGED <<slots, metas, journal, active, pending>>

AckRemove ==
    /\ stage = "ack-remove"
    /\ slots' = [slots EXCEPT ![journal.slot] = None]
    /\ stage' = "ack-clear"
    /\ UNCHANGED <<metas, journal, active, pending>>

AckClear ==
    /\ stage = "ack-clear"
    /\ ClearJournal
    /\ UNCHANGED <<slots, metas, active>>

-----------------------------------------------------------------------------
(* Power loss, and the boot that follows.                                  *)

\* Every durable write already made survives; the call in progress does not.
PowerLoss ==
    /\ stage \notin {"idle", "crashed"}
    /\ CurrentMeta.gen < MaxGen
    /\ stage' = "crashed"
    /\ UNCHANGED <<slots, metas, journal, active, pending>>

\* Mutant: recovery trusts the journal without looking for the record.
RecoverBlindly ==
    /\ stage = "crashed"
    /\ stage' = IF journal.op = "enqueue" THEN "enqueue-commit" ELSE "ack-commit"
    /\ UNCHANGED <<slots, metas, journal, active, pending>>

\* Mutant: recovery abandons every interrupted call.
RecoverByDropping ==
    /\ stage = "crashed"
    /\ stage' = "enqueue-clear"
    /\ UNCHANGED <<slots, metas, journal, active, pending>>

\* recoverAfterCrash(): an enqueue whose record reached its slot rolls
\* forward through the commit, any other is dropped; an acknowledgement always
\* rolls forward.  The statements that follow (commit, remove, clear) are the
\* ones of the interrupted call, and power can be lost again between them.
RecoverAfterCrash ==
    LET written == /\ slots[journal.slot] # None
                   /\ slots[journal.slot].sequenceNumber = journal.sequence
    IN
    /\ stage = "crashed"
    /\ \/ /\ journal.op = "enqueue" /\ written
          /\ stage' = "enqueue-commit"
          /\ UNCHANGED slots
       \/ /\ journal.op = "enqueue" /\ ~written
          /\ slots' = [slots EXCEPT ![journal.slot] = None]
          /\ stage' = "enqueue-clear"
       \/ /\ journal.op = "ack"
          /\ stage' = "ack-commit"
          /\ UNCHANGED slots
    /\ UNCHANGED <<metas, journal, active, pending>>

Next ==
    \/ \E p \in Payloads : BeginEnqueueJournal(p)
    \/ CompleteEnqueueData
    \/ EnqueueCommit
    \/ EnqueueClear
    \/ \E s \in 1..MaxSequence : BeginAcknowledge(s)
    \/ AckCommit
    \/ AckRemove
    \/ AckClear
    \/ PowerLoss
    \/ RecoverAfterCrash

Spec == Init /\ [][Next]_vars

-----------------------------------------------------------------------------
(* Properties.                                                             *)

TypeOK ==
    /\ slots \in [Slot -> Record \cup {None}]
    /\ metas \in [{"a", "b"} -> Meta \cup {None}]
    /\ journal \in Journal \cup {None}
    /\ active \in {"a", "b"}
    /\ pending \in Record \cup {None}
    /\ stage \in Stage

\* The queue an abstract reader sees: the records from head on, `count` of them.
Logical == [i \in 1..CurrentMeta.count |-> slots[(CurrentMeta.head + i - 1) % MaxRecords]]

Abs == INSTANCE StoreAndForwardQueue
         WITH records <- Logical, nextSequence <- CurrentMeta.nextSequence

\* Whatever stage power is lost at, the ring behaves as the FIFO of
\* store-and-forward-queue.ts: an enqueue or an acknowledgement happens
\* entirely or not at all, at the moment its meta is committed.
ImplementsQueue == Abs!QueueSpec

\* No slot outside the window [head, head + count) still holds a record once
\* a call has ended: a leaked record would be resurrected by a later rebuild
\* of the meta from the slot files.
NoStaleSlots ==
    stage = "idle" =>
        \A i \in Slot :
            slots[i] # None <=>
                \E k \in 0..(MaxRecords - 1) :
                    k < CurrentMeta.count /\ i = (CurrentMeta.head + k) % MaxRecords

\* The buffer about to be overwritten is never the one that holds the
\* current meta, so the live meta survives a torn write of the other one.
LiveMetaNotTarget == metas[active] = CurrentMeta

\* A journal entry is cleared only when its operation is settled: an enqueue
\* whose record reached its slot is counted by the live meta (and not counted
\* otherwise), an acknowledgement has moved the head and freed the slot.
JournalClearedWhenSettled ==
    [][journal # None /\ journal' = None =>
         IF journal.op = "enqueue"
         THEN (slots[journal.slot] = pending) <=>
                (CurrentMeta.nextSequence = journal.nextSequence)
         ELSE /\ CurrentMeta.head = journal.head
              /\ CurrentMeta.count = journal.count
              /\ slots[journal.slot] = None
      ]_vars
=============================================================================
