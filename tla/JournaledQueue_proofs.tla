------------------------ MODULE JournaledQueue_proofs ------------------------
(***************************************************************************)
(* The host mirror implements the FIFO of StoreAndForwardQueue for every   *)
(* ring size and every set of payloads, wherever power is lost.            *)
(*                                                                         *)
(* Positions first: without remainders, the window is the positions whose  *)
(* offset from the head is below the count.  QInv then says, stage by      *)
(* stage, what the journal has to do with the live meta (ahead of it, or   *)
(* committed) and which slots are in use outside the window (none, or the  *)
(* one the journal names).                                                 *)
(***************************************************************************)
EXTENDS JournaledQueue, SequenceTheorems, TLAPS

-----------------------------------------------------------------------------
(* Positions on the ring.                                                  *)

Ring(h, k) == IF h + k < MaxRecords THEN h + k ELSE h + k - MaxRecords
Offset(h, i) == IF i >= h THEN i - h ELSE i + MaxRecords - h

LEMMA RingIsRemainder ==
    ASSUME NEW h \in Slot, NEW k \in 0..MaxRecords
    PROVE  (h + k) % MaxRecords = Ring(h, k)
BY MaxRecordsAssumption DEF Slot, Ring

LEMMA RingFacts ==
    ASSUME NEW h \in Slot, NEW k \in 0..MaxRecords
    PROVE  /\ Ring(h, k) \in Slot
           /\ k < MaxRecords => Offset(h, Ring(h, k)) = k
BY MaxRecordsAssumption DEF Slot, Ring, Offset

LEMMA OffsetFacts ==
    ASSUME NEW h \in Slot, NEW i \in Slot
    PROVE  Offset(h, i) \in 0..(MaxRecords - 1) /\ Ring(h, Offset(h, i)) = i
BY MaxRecordsAssumption DEF Slot, Ring, Offset

LEMMA NextIs ==
    ASSUME NEW i \in Slot
    PROVE  Next1(i) \in Slot /\ Next1(i) = IF i + 1 = MaxRecords THEN 0 ELSE i + 1
BY MaxRecordsAssumption DEF Slot, Next1

\* The window grows by the position of its tail, ...
LEMMA WindowGrows ==
    ASSUME NEW h \in Slot, NEW c \in 0..(MaxRecords - 1)
    PROVE  /\ Next1(Ring(h, c)) = Ring(h, c + 1)
           /\ \A i \in Slot : Offset(h, i) < c + 1 <=> Offset(h, i) < c \/ i = Ring(h, c)
BY MaxRecordsAssumption, NextIs, RingFacts DEF Slot, Ring, Offset

\* ... and shrinks by its head.
LEMMA WindowShrinks ==
    ASSUME NEW h \in Slot, NEW c \in 1..MaxRecords
    PROVE  /\ Ring(Next1(h), c - 1) = Ring(h, c)
           /\ \A i \in Slot : Offset(Next1(h), i) < c - 1 <=> Offset(h, i) < c /\ i # h
BY MaxRecordsAssumption, NextIs DEF Slot, Ring, Offset

-----------------------------------------------------------------------------
(* The inductive invariant.                                                *)

Live == metas[active]

\* The live meta is the newer one.
LiveNewer ==
    /\ Live \in Meta /\ Live.nextSequence > 0
    /\ Live.tail = Ring(Live.head, Live.count)
    /\ metas[Other(active)] = None \/ metas[Other(active)].gen < Live.gen

In(m, i) == Offset(m.head, i) < m.count

\* Every position of the window is in use, with a number handed out.
WindowHeld ==
    /\ \A i \in Slot : In(Live, i) => slots[i] # None
    /\ \A i \in Slot : slots[i] # None => slots[i].sequenceNumber \in 1..Live.nextSequence

\* No other position is, or none but the one in the journal.
Exact == \A i \in Slot : slots[i] # None => In(Live, i)
Loose == \A i \in Slot : slots[i] # None => In(Live, i) \/ i = journal.slot

Committed ==
    /\ Live.head = journal.head /\ Live.tail = journal.tail
    /\ Live.count = journal.count /\ Live.nextSequence = journal.nextSequence

EnqueueOfPending ==
    journal.op = "enqueue" /\ pending \in Record /\ pending.sequenceNumber = journal.sequence

EnqueueAhead ==
    /\ EnqueueOfPending /\ Live.count < MaxRecords
    /\ journal.slot = Live.tail /\ journal.sequence = Live.nextSequence
    /\ journal.count = Live.count + 1 /\ journal.tail = Next1(Live.tail)
    /\ journal.nextSequence = Live.nextSequence + 1 /\ journal.head = Live.head

EnqueueDone ==
    /\ EnqueueOfPending /\ Committed /\ Live.count > 0
    /\ journal.slot = Ring(Live.head, Live.count - 1) /\ slots[journal.slot] = pending

AckAhead ==
    /\ journal.op = "ack" /\ Live.count > 0
    /\ journal.slot = Live.head /\ journal.head = Next1(Live.head)
    /\ journal.count = Live.count - 1 /\ journal.tail = Live.tail
    /\ journal.nextSequence = Live.nextSequence

AckDone ==
    /\ journal.op = "ack" /\ Committed
    /\ Live.count < MaxRecords /\ Next1(journal.slot) = Live.head

StageInv ==
    /\ stage = "idle" => journal = None /\ Exact
    /\ stage # "idle" => journal \in Journal
    /\ stage = "enqueue-data" => EnqueueAhead /\ Exact
    /\ stage = "enqueue-commit" => /\ EnqueueAhead \/ EnqueueDone
                                   /\ Loose /\ slots[journal.slot] = pending
    /\ stage = "enqueue-clear" => (EnqueueAhead \/ EnqueueDone) /\ Exact
    /\ stage = "ack-commit" => (AckAhead /\ Exact) \/ (AckDone /\ Loose)
    /\ stage = "ack-remove" => AckDone /\ Loose
    /\ stage = "ack-clear" => AckDone /\ Exact
    /\ stage = "crashed" => \/ /\ EnqueueAhead /\ Loose
                               /\ slots[journal.slot] \in {None, pending}
                            \/ EnqueueDone /\ Exact
                            \/ AckAhead /\ Exact
                            \/ AckDone /\ Loose

QInv == TypeOK /\ LiveNewer /\ WindowHeld /\ StageInv

-----------------------------------------------------------------------------
\* The getter finds the meta that `active` names.
LEMMA CurrentIsLive == ASSUME TypeOK, LiveNewer PROVE CurrentMeta = Live
<1>1. active \in {"a", "b"} /\ metas \in [{"a", "b"} -> Meta \cup {None}]
    BY DEF TypeOK
<1>2. Live # None /\ Live.gen \in Nat
    BY NoneAssumption DEF LiveNewer, Meta
<1>3. metas[Other(active)] # None => metas[Other(active)].gen \in Nat
    BY <1>1 DEF Other, Meta
<1>4. CASE active = "a"
    BY <1>1, <1>2, <1>3, <1>4 DEF CurrentMeta, LiveNewer, Live, Other
<1>5. CASE active = "b"
    BY <1>1, <1>2, <1>3, <1>5 DEF CurrentMeta, LiveNewer, Live, Other
<1> QED
    BY <1>1, <1>4, <1>5

\* What the fields of the live meta are.
LEMMA LiveFacts ==
    ASSUME QInv
    PROVE  /\ CurrentMeta = Live /\ Live \in Meta
           /\ Live.head \in Slot /\ Live.tail \in Slot /\ Live.count \in 0..MaxRecords
           /\ Live.gen \in Nat /\ Live.nextSequence \in Nat /\ Live.nextSequence > 0
           /\ Live.tail = Ring(Live.head, Live.count)
           /\ MaxRecords \in Nat \ {0}
BY CurrentIsLive, MaxRecordsAssumption DEF QInv, LiveNewer, Meta

LEMMA JournalFacts ==
    ASSUME QInv, stage # "idle"
    PROVE  /\ journal \in Journal /\ journal # None
           /\ journal.slot \in Slot /\ journal.head \in Slot /\ journal.tail \in Slot
           /\ journal.count \in 0..MaxRecords /\ journal.nextSequence \in Nat
           /\ journal.sequence \in Nat /\ journal.op \in {"enqueue", "ack"}
BY NoneAssumption DEF QInv, StageInv, Journal

\* The slot of an enqueue is the one behind the window, or its last; the slot of
\* an acknowledgement is its first, or the one before it.
LEMMA JournalSlot ==
    ASSUME QInv, stage # "idle"
    PROVE  /\ EnqueueAhead => ~In(Live, journal.slot)
           /\ EnqueueDone => In(Live, journal.slot)
           /\ AckAhead => In(Live, journal.slot)
           /\ AckDone => ~In(Live, journal.slot)
<1>1. EnqueueAhead => ~In(Live, journal.slot)
    BY LiveFacts, RingFacts DEF EnqueueAhead, In
<1>2. EnqueueDone => In(Live, journal.slot)
    BY LiveFacts, RingFacts DEF EnqueueDone, In
<1>3. AckAhead => In(Live, journal.slot)
    BY LiveFacts DEF AckAhead, In, Offset, Slot
<1>4. AckDone => ~In(Live, journal.slot)
  <2> DEFINE i == journal.slot
             h == Live.head
  <2>1. i \in Slot /\ h \in Slot
      BY LiveFacts, JournalFacts
  <2>2. Next1(i) = h => Offset(h, i) = MaxRecords - 1
      BY <2>1, NextIs, MaxRecordsAssumption DEF Offset, Slot
  <2> QED
      BY <2>2, LiveFacts DEF AckDone, In
<1> QED
    BY <1>1, <1>2, <1>3, <1>4

LEMMA InitQInv == Init => QInv
<1> SUFFICES ASSUME Init PROVE QInv
    OBVIOUS
<1> DEFINE first == [gen |-> 1, head |-> 0, tail |-> 0, count |-> 0, nextSequence |-> 1]
<1>1. first \in Meta /\ 0 \in Slot
    BY MaxRecordsAssumption DEF Meta, Slot
<1>2. /\ slots = [i \in Slot |-> None] /\ journal = None /\ active = "a" /\ pending = None
      /\ stage = "idle" /\ metas = [w \in {"a", "b"} |-> IF w = "a" THEN first ELSE None]
    BY DEF Init
<1>3. Live = first /\ metas[Other(active)] = None
    BY <1>2 DEF Live, Other
<1>4. TypeOK
    BY <1>1, <1>2 DEF TypeOK, Stage
<1>5. LiveNewer
    BY <1>1, <1>3, MaxRecordsAssumption DEF LiveNewer, Ring
<1>6. WindowHeld /\ Exact
  <2>1. \A i \in Slot : ~In(Live, i)
      BY <1>1, <1>3, OffsetFacts DEF In
  <2> QED
      BY <1>2, <2>1 DEF WindowHeld, Exact
<1> QED
    BY <1>2, <1>4, <1>5, <1>6 DEF QInv, StageInv

-----------------------------------------------------------------------------
(* The steps.                                                              *)

\* A step that leaves the durable state and the record alone.
LEMMA LiveUnchanged ==
    ASSUME QInv, UNCHANGED <<metas, active>>
    PROVE  Live' = Live /\ LiveNewer'
BY DEF QInv, LiveNewer, Live, Other

LEMMA BeginEnqueueKeeps ==
    ASSUME QInv, NEW p \in Payloads, BeginEnqueueJournal(p)
    PROVE  QInv'
<1>1. /\ stage = "idle" /\ stage' = "enqueue-data" /\ Live.count < MaxRecords
      /\ pending' = [payload |-> p, sequenceNumber |-> Live.nextSequence]
      /\ journal' = [op |-> "enqueue", slot |-> Live.tail, sequence |-> Live.nextSequence,
                     count |-> Live.count + 1, tail |-> Next1(Live.tail),
                     nextSequence |-> Live.nextSequence + 1, head |-> Live.head]
      /\ UNCHANGED <<slots, metas, active>>
    BY LiveFacts DEF BeginEnqueueJournal
<1>2. pending' \in Record /\ journal' \in Journal
    BY <1>1, LiveFacts, NextIs DEF Record, Journal
<1>3. TypeOK'
    BY <1>1, <1>2 DEF QInv, TypeOK, Stage
<1>4. Live' = Live /\ LiveNewer'
    BY <1>1, LiveUnchanged
<1>5. EnqueueAhead'
    BY <1>1, <1>2, <1>4 DEF EnqueueAhead, EnqueueOfPending
<1>6. Exact' /\ WindowHeld'
    BY <1>1, <1>4 DEF QInv, StageInv, Exact, WindowHeld
<1> QED
    BY <1>1, <1>2, <1>3, <1>4, <1>5, <1>6 DEF QInv, StageInv

LEMMA EnqueueDataKeeps == ASSUME QInv, CompleteEnqueueData PROVE QInv'
<1>1. /\ stage = "enqueue-data" /\ stage' = "enqueue-commit"
      /\ slots' = [slots EXCEPT ![journal.slot] = pending]
      /\ UNCHANGED <<metas, journal, active, pending>>
    BY DEF CompleteEnqueueData
<1>2. /\ EnqueueAhead /\ Exact /\ journal.slot \in Slot /\ pending \in Record
      /\ slots \in [Slot -> Record \cup {None}]
    BY <1>1, JournalFacts DEF QInv, StageInv, EnqueueAhead, EnqueueOfPending, TypeOK
<1>3. Live' = Live /\ LiveNewer'
    BY <1>1, LiveUnchanged
<1>4. /\ slots' \in [Slot -> Record \cup {None}] /\ slots'[journal.slot] = pending
      /\ \A i \in Slot \ {journal.slot} : slots'[i] = slots[i]
    BY <1>1, <1>2
<1>5. TypeOK'
    BY <1>1, <1>4 DEF QInv, TypeOK, Stage
<1>6. WindowHeld'
  <2>1. pending # None /\ pending.sequenceNumber \in 1..Live.nextSequence
      BY <1>2, LiveFacts, NoneAssumption DEF EnqueueAhead, EnqueueOfPending
  <2> QED
      BY <1>3, <1>4, <2>1 DEF QInv, WindowHeld
<1>7. Loose' /\ EnqueueAhead'
    BY <1>1, <1>2, <1>3, <1>4 DEF Exact, Loose, EnqueueAhead, EnqueueOfPending
<1> QED
    BY <1>1, <1>3, <1>4, <1>5, <1>6, <1>7, JournalFacts DEF QInv, StageInv

\* The other buffer becomes the live meta, and says what the journal says.
LEMMA CommitFacts ==
    ASSUME QInv, stage # "idle", CommitMeta,
           journal.tail = Ring(journal.head, journal.count), journal.nextSequence > 0
    PROVE  /\ Live' \in Meta /\ LiveNewer'
           /\ Live'.head = journal.head /\ Live'.tail = journal.tail
           /\ Live'.count = journal.count /\ Live'.nextSequence = journal.nextSequence
           /\ metas' \in [{"a", "b"} -> Meta \cup {None}] /\ active' \in {"a", "b"}
<1> DEFINE new == [gen |-> CurrentMeta.gen + 1, head |-> journal.head, tail |-> journal.tail,
                   count |-> journal.count, nextSequence |-> journal.nextSequence]
<1>1. /\ new \in Meta /\ new.gen = Live.gen + 1 /\ new.head = journal.head
      /\ new.tail = journal.tail /\ new.count = journal.count
      /\ new.nextSequence = journal.nextSequence
    BY LiveFacts, JournalFacts DEF Meta
<1>2. metas' = [metas EXCEPT ![Other(active)] = new] /\ active' = Other(active)
    BY DEF CommitMeta
<1> HIDE DEF new
<1>3. /\ active \in {"a", "b"} /\ metas \in [{"a", "b"} -> Meta \cup {None}]
      /\ Other(active) \in {"a", "b"} /\ Other(active) # active
      /\ Other(Other(active)) = active
    BY DEF QInv, TypeOK, Other
<1>4. Live' = new /\ metas'[Other(active')] = Live
    BY <1>2, <1>3 DEF Live
<1>5. metas' \in [{"a", "b"} -> Meta \cup {None}]
    BY <1>1, <1>2, <1>3
<1>6. metas[active]' = new /\ metas[Other(active)]' = Live
    BY <1>2, <1>3, <1>4 DEF Live
<1>7. LiveNewer'
  <2>1. Live.gen < new.gen
      BY <1>1, LiveFacts
  <2> QED
      BY <1>1, <1>4, <1>6, <2>1 DEF LiveNewer
<1> QED
    BY <1>1, <1>2, <1>3, <1>4, <1>5, <1>7

\* The commit of an enqueue takes the journal's slot into the window, unless
\* it is in it already.
LEMMA EnqueueCommitKeeps == ASSUME QInv, EnqueueCommit PROVE QInv' /\ EnqueueDone'
<1>1. /\ stage = "enqueue-commit" /\ stage' = "enqueue-clear" /\ CommitMeta
      /\ UNCHANGED <<slots, journal, pending>>
    BY DEF EnqueueCommit
<1>2. /\ EnqueueAhead \/ EnqueueDone
      /\ Loose /\ slots[journal.slot] = pending /\ EnqueueOfPending
    BY <1>1 DEF QInv, StageInv, EnqueueAhead, EnqueueDone
<1>3. /\ journal.tail = Ring(journal.head, journal.count) /\ journal.nextSequence > 0
      /\ journal.nextSequence >= Live.nextSequence
      /\ journal.count > 0 /\ journal.slot = Ring(journal.head, journal.count - 1)
      /\ \A i \in Slot : Offset(journal.head, i) < journal.count
                           <=> In(Live, i) \/ i = journal.slot
  <2>1. CASE EnqueueAhead
    <3>1. /\ Live.head \in Slot /\ Live.count \in 0..(MaxRecords - 1)
          /\ journal.slot = Ring(Live.head, Live.count) /\ journal.tail = Next1(journal.slot)
          /\ journal.head = Live.head /\ journal.count = Live.count + 1
          /\ journal.nextSequence = Live.nextSequence + 1
        BY <2>1, LiveFacts DEF EnqueueAhead
    <3>2. /\ journal.tail = Ring(Live.head, Live.count + 1)
          /\ \A i \in Slot : Offset(Live.head, i) < Live.count + 1
                               <=> Offset(Live.head, i) < Live.count \/ i = journal.slot
        BY <3>1, WindowGrows
    <3>3. journal.count - 1 = Live.count /\ Live.nextSequence \in Nat
        BY <3>1, LiveFacts
    <3> QED
        BY <3>1, <3>2, <3>3 DEF In
  <2>2. CASE EnqueueDone
    <3>1. In(Live, journal.slot)
        BY <1>1, <2>2, JournalSlot
    <3> QED
        BY <2>2, <3>1, LiveFacts DEF EnqueueDone, Committed, In
  <2> QED
      BY <1>2, <2>1, <2>2
<1>4. /\ Live' \in Meta /\ LiveNewer'
      /\ Live'.head = journal.head /\ Live'.tail = journal.tail
      /\ Live'.count = journal.count /\ Live'.nextSequence = journal.nextSequence
      /\ metas' \in [{"a", "b"} -> Meta \cup {None}] /\ active' \in {"a", "b"}
    BY <1>1, <1>3, CommitFacts
<1>5. TypeOK'
    BY <1>1, <1>4 DEF QInv, TypeOK, Stage
<1>6. \A i \in Slot : In(Live', i) <=> In(Live, i) \/ i = journal.slot
    BY <1>3, <1>4 DEF In
<1>7. pending # None
    BY <1>2, NoneAssumption DEF EnqueueOfPending
<1>8. WindowHeld'
  <2>1. \A i \in Slot : In(Live', i) => slots[i] # None
      BY <1>2, <1>6, <1>7 DEF QInv, WindowHeld
  <2>2. \A i \in Slot : slots[i] # None => slots[i].sequenceNumber \in 1..journal.nextSequence
      BY <1>3, LiveFacts, JournalFacts, <1>1 DEF QInv, WindowHeld
  <2> QED
      BY <1>1, <1>4, <2>1, <2>2 DEF WindowHeld
<1>9. Exact'
    BY <1>1, <1>2, <1>6 DEF Loose, Exact
<1>10. EnqueueDone'
    BY <1>1, <1>2, <1>3, <1>4 DEF EnqueueDone, EnqueueOfPending, Committed
<1> QED
    BY <1>1, <1>4, <1>5, <1>8, <1>9, <1>10, JournalFacts DEF QInv, StageInv

\* The commit of an acknowledgement puts the journal's slot out of the window.
LEMMA AckCommitKeeps == ASSUME QInv, AckCommit PROVE QInv' /\ AckDone'
<1>1. /\ stage = "ack-commit" /\ stage' = "ack-remove" /\ CommitMeta
      /\ UNCHANGED <<slots, journal, pending>>
    BY DEF AckCommit
<1>2. (AckAhead /\ Exact) \/ (AckDone /\ Loose)
    BY <1>1 DEF QInv, StageInv
<1>3. /\ journal.tail = Ring(journal.head, journal.count)
      /\ journal.nextSequence = Live.nextSequence
      /\ journal.count < MaxRecords /\ Next1(journal.slot) = journal.head
      /\ \A i \in Slot : Offset(journal.head, i) < journal.count
                           <=> In(Live, i) /\ i # journal.slot
  <2>1. CASE AckAhead
    <3>1. /\ Live.head \in Slot /\ Live.count \in 1..MaxRecords
          /\ journal.slot = Live.head /\ journal.tail = Ring(Live.head, Live.count)
          /\ journal.head = Next1(Live.head) /\ journal.count = Live.count - 1
          /\ journal.nextSequence = Live.nextSequence
        BY <2>1, LiveFacts DEF AckAhead
    <3>2. /\ journal.tail = Ring(Next1(Live.head), Live.count - 1)
          /\ \A i \in Slot : Offset(Next1(Live.head), i) < Live.count - 1
                               <=> Offset(Live.head, i) < Live.count /\ i # Live.head
        BY <3>1, WindowShrinks
    <3>3. journal.count < MaxRecords
        BY <3>1, MaxRecordsAssumption
    <3> QED
        BY <3>1, <3>2, <3>3 DEF In
  <2>2. CASE AckDone
    <3>1. ~In(Live, journal.slot)
        BY <1>1, <2>2, JournalSlot
    <3> QED
        BY <2>2, <3>1, LiveFacts DEF AckDone, Committed, In
  <2> QED
      BY <1>2, <2>1, <2>2
<1>4. /\ Live' \in Meta /\ LiveNewer'
      /\ Live'.head = journal.head /\ Live'.tail = journal.tail
      /\ Live'.count = journal.count /\ Live'.nextSequence = journal.nextSequence
      /\ metas' \in [{"a", "b"} -> Meta \cup {None}] /\ active' \in {"a", "b"}
    BY <1>1, <1>3, LiveFacts, CommitFacts
<1>5. TypeOK'
    BY <1>1, <1>4 DEF QInv, TypeOK, Stage
<1>6. \A i \in Slot : In(Live', i) <=> In(Live, i) /\ i # journal.slot
    BY <1>3, <1>4 DEF In
<1>7. WindowHeld'
    BY <1>1, <1>3, <1>4, <1>6 DEF QInv, WindowHeld
<1>8. Loose'
    BY <1>1, <1>2, <1>6 DEF Exact, Loose
<1>9. AckDone'
    BY <1>1, <1>2, <1>3, <1>4 DEF AckDone, AckAhead, Committed
<1> QED
    BY <1>1, <1>4, <1>5, <1>7, <1>8, <1>9, JournalFacts DEF QInv, StageInv

LEMMA BeginAckKeeps ==
    ASSUME QInv, NEW s \in 1..MaxSequence, BeginAcknowledge(s)
    PROVE  QInv'
<1>1. /\ stage = "idle" /\ stage' = "ack-commit"
      /\ journal' = [op |-> "ack", slot |-> Live.head, sequence |-> s,
                     count |-> Live.count - 1, tail |-> Live.tail,
                     nextSequence |-> Live.nextSequence, head |-> Next1(Live.head)]
      /\ Peek # None /\ UNCHANGED <<slots, metas, active, pending>>
    BY LiveFacts DEF BeginAcknowledge
<1>2. Live.count > 0
    BY <1>1, LiveFacts DEF Peek
<1>3. journal' \in Journal
    BY <1>1, <1>2, LiveFacts, NextIs DEF Journal
<1>4. Live' = Live /\ LiveNewer'
    BY <1>1, LiveUnchanged
<1>5. AckAhead'
    BY <1>1, <1>2, <1>4 DEF AckAhead
<1>6. TypeOK'
    BY <1>1, <1>3 DEF QInv, TypeOK, Stage
<1>7. Exact' /\ WindowHeld'
    BY <1>1, <1>4 DEF QInv, StageInv, Exact, WindowHeld
<1> QED
    BY <1>1, <1>3, <1>4, <1>5, <1>6, <1>7 DEF QInv, StageInv

\* A slot outside the window is freed.
LEMMA FreeingKeeps ==
    ASSUME QInv, stage # "idle", ~In(Live, journal.slot), Loose,
           slots' = [slots EXCEPT ![journal.slot] = None], UNCHANGED <<metas, active, journal>>
    PROVE  /\ slots' \in [Slot -> Record \cup {None}] /\ slots'[journal.slot] = None
           /\ WindowHeld' /\ Exact'
<1>1. slots \in [Slot -> Record \cup {None}] /\ journal.slot \in Slot
    BY JournalFacts DEF QInv, TypeOK
<1>2. /\ slots' \in [Slot -> Record \cup {None}] /\ slots'[journal.slot] = None
      /\ \A i \in Slot \ {journal.slot} : slots'[i] = slots[i]
    BY <1>1
<1>3. Live' = Live
    BY LiveUnchanged
<1> QED
    BY <1>2, <1>3 DEF QInv, WindowHeld, Loose, Exact

LEMMA AckRemoveKeeps == ASSUME QInv, AckRemove PROVE QInv'
<1>1. /\ stage = "ack-remove" /\ stage' = "ack-clear"
      /\ slots' = [slots EXCEPT ![journal.slot] = None]
      /\ UNCHANGED <<metas, journal, active, pending>>
    BY DEF AckRemove
<1>2. AckDone /\ Loose /\ ~In(Live, journal.slot)
    BY <1>1, JournalSlot DEF QInv, StageInv
<1>3. slots' \in [Slot -> Record \cup {None}] /\ WindowHeld' /\ Exact'
    BY <1>1, <1>2, FreeingKeeps
<1>4. Live' = Live /\ LiveNewer'
    BY <1>1, LiveUnchanged
<1>5. AckDone'
    BY <1>1, <1>2, <1>4 DEF AckDone, Committed
<1>6. TypeOK'
    BY <1>1, <1>3 DEF QInv, TypeOK, Stage
<1> QED
    BY <1>1, <1>3, <1>4, <1>5, <1>6, JournalFacts DEF QInv, StageInv

LEMMA ClearKeeps == ASSUME QInv, EnqueueClear \/ AckClear PROVE QInv'
<1>1. /\ stage \in {"enqueue-clear", "ack-clear"} /\ stage' = "idle"
      /\ journal' = None /\ pending' = None /\ UNCHANGED <<slots, metas, active>>
    BY DEF EnqueueClear, AckClear, ClearJournal
<1>2. Live' = Live /\ LiveNewer'
    BY <1>1, LiveUnchanged
<1>3. Exact' /\ WindowHeld'
    BY <1>1, <1>2 DEF QInv, StageInv, Exact, WindowHeld
<1>4. TypeOK'
    BY <1>1 DEF QInv, TypeOK, Stage
<1> QED
    BY <1>1, <1>2, <1>3, <1>4 DEF QInv, StageInv

LEMMA PowerLossKeeps == ASSUME QInv, PowerLoss PROVE QInv'
<1>1. /\ stage # "idle" /\ stage # "crashed" /\ stage' = "crashed" /\ stage \in Stage
      /\ UNCHANGED <<slots, metas, journal, active, pending>>
    BY DEF PowerLoss, QInv, TypeOK
<1>2. Live' = Live /\ LiveNewer'
    BY <1>1, LiveUnchanged
<1>3. TypeOK' /\ WindowHeld'
    BY <1>1, <1>2 DEF QInv, TypeOK, Stage, WindowHeld
<1>4. Exact => Loose
    BY DEF Exact, Loose
<1>5. EnqueueAhead /\ Exact => slots[journal.slot] = None
    BY <1>1, JournalFacts, JournalSlot DEF Exact
<1>6. EnqueueDone /\ Loose => Exact
    BY <1>1, JournalSlot DEF Exact, Loose
<1>7. \/ EnqueueAhead /\ Loose /\ slots[journal.slot] \in {None, pending}
      \/ EnqueueDone /\ Exact
      \/ AckAhead /\ Exact
      \/ AckDone /\ Loose
    BY <1>1, <1>4, <1>5, <1>6 DEF QInv, StageInv, Stage
<1>8. \/ (EnqueueAhead /\ Loose)' /\ slots'[journal'.slot] \in {None, pending'}
      \/ (EnqueueDone /\ Exact)'
      \/ (AckAhead /\ Exact)'
      \/ (AckDone /\ Loose)'
    BY <1>1, <1>2, <1>7 DEF EnqueueAhead, EnqueueDone, AckAhead, AckDone, EnqueueOfPending,
                            Committed, Exact, Loose
<1> QED
    BY <1>1, <1>2, <1>3, <1>8, JournalFacts DEF QInv, StageInv

\* Recovery rolls forward what reached its slot, and every acknowledgement.
LEMMA RecoverKeeps == ASSUME QInv, RecoverAfterCrash PROVE QInv' /\ Live' = Live
<1> DEFINE written == /\ slots[journal.slot] # None
                      /\ slots[journal.slot].sequenceNumber = journal.sequence
<1>1. /\ stage = "crashed" /\ UNCHANGED <<metas, journal, active, pending>>
      /\ \/ /\ journal.op = "enqueue" /\ written
            /\ stage' = "enqueue-commit" /\ slots' = slots
         \/ /\ journal.op = "enqueue" /\ ~written /\ stage' = "enqueue-clear"
            /\ slots' = [slots EXCEPT ![journal.slot] = None]
         \/ journal.op = "ack" /\ stage' = "ack-commit" /\ slots' = slots
    BY DEF RecoverAfterCrash
<1>2. Live' = Live /\ LiveNewer'
    BY <1>1, LiveUnchanged
<1>3. \/ EnqueueAhead /\ Loose /\ slots[journal.slot] \in {None, pending}
      \/ EnqueueDone /\ Exact
      \/ AckAhead /\ Exact
      \/ AckDone /\ Loose
    BY <1>1 DEF QInv, StageInv
<1>4. CASE journal.op = "enqueue" /\ written /\ stage' = "enqueue-commit" /\ slots' = slots
  <2>1. (EnqueueAhead \/ EnqueueDone) /\ Loose /\ slots[journal.slot] = pending
      BY <1>3, <1>4 DEF AckAhead, AckDone, EnqueueDone, Exact, Loose
  <2>2. (EnqueueAhead \/ EnqueueDone)' /\ Loose' /\ slots'[journal'.slot] = pending'
      BY <1>1, <1>2, <1>4, <2>1 DEF EnqueueAhead, EnqueueDone, EnqueueOfPending, Committed, Loose
  <2>3. TypeOK' /\ WindowHeld'
      BY <1>1, <1>2, <1>4 DEF QInv, TypeOK, Stage, WindowHeld
  <2> QED
      BY <1>1, <1>2, <1>4, <2>2, <2>3, JournalFacts DEF QInv, StageInv
<1>5. CASE /\ journal.op = "enqueue" /\ ~written /\ stage' = "enqueue-clear"
           /\ slots' = [slots EXCEPT ![journal.slot] = None]
  <2>1. EnqueueAhead /\ Loose
    <3>1. EnqueueDone => written
        BY NoneAssumption DEF EnqueueDone, EnqueueOfPending
    <3> QED
        BY <1>3, <1>5, <3>1 DEF AckAhead, AckDone
  <2>2. ~In(Live, journal.slot)
      BY <1>1, <2>1, JournalSlot
  <2>3. slots' \in [Slot -> Record \cup {None}] /\ WindowHeld' /\ Exact'
      BY <1>1, <1>5, <2>1, <2>2, FreeingKeeps
  <2>4. EnqueueAhead'
      BY <1>1, <1>2, <2>1 DEF EnqueueAhead, EnqueueOfPending
  <2>5. TypeOK'
      BY <1>1, <1>5, <2>3 DEF QInv, TypeOK, Stage
  <2> QED
      BY <1>1, <1>2, <1>5, <2>3, <2>4, <2>5, JournalFacts DEF QInv, StageInv
<1>6. CASE journal.op = "ack" /\ stage' = "ack-commit" /\ slots' = slots
  <2>1. (AckAhead /\ Exact) \/ (AckDone /\ Loose)
      BY <1>3, <1>6 DEF EnqueueAhead, EnqueueDone, EnqueueOfPending
  <2>2. (AckAhead /\ Exact)' \/ (AckDone /\ Loose)'
      BY <1>1, <1>2, <1>6, <2>1 DEF AckAhead, AckDone, Committed, Exact, Loose
  <2>3. TypeOK' /\ WindowHeld'
      BY <1>1, <1>2, <1>6 DEF QInv, TypeOK, Stage, WindowHeld
  <2> QED
      BY <1>1, <1>2, <1>6, <2>2, <2>3, JournalFacts DEF QInv, StageInv
<1> QED
    BY <1>1, <1>2, <1>4, <1>5, <1>6

LEMMA NextQInv == QInv /\ [Next]_vars => QInv'
<1>1. QInv /\ UNCHANGED vars => QInv'
    BY DEF vars, QInv, TypeOK, LiveNewer, WindowHeld, StageInv, Live, Exact, Loose, Committed,
           EnqueueOfPending, EnqueueAhead, EnqueueDone, AckAhead, AckDone, In
<1> QED
    BY <1>1, BeginEnqueueKeeps, EnqueueDataKeeps, EnqueueCommitKeeps, ClearKeeps, BeginAckKeeps,
       AckCommitKeeps, AckRemoveKeeps, PowerLossKeeps, RecoverKeeps DEF Next

\* QInv, for every ring size, payloads and any sequence of power losses.
THEOREM QueueInvariant == Spec => []QInv
BY InitQInv, NextQInv, PTL DEF Spec

\* Well typed, for every ring size.
THEOREM TypeCorrect == Spec => []TypeOK
<1>1. QInv => TypeOK
    BY DEF QInv
<1> QED
    BY <1>1, QueueInvariant, PTL

\* The buffer written next is never the live one (journaled-queue.ts:80-101).
THEOREM LiveMetaSafe == Spec => []LiveMetaNotTarget
<1>1. QInv => LiveMetaNotTarget
    BY LiveFacts DEF LiveMetaNotTarget, Live
<1> QED
    BY <1>1, QueueInvariant, PTL

\* Between calls the slots in use are exactly those of the window.
THEOREM NoSlotLeaks == Spec => []NoStaleSlots
<1>1. ASSUME QInv, stage = "idle", NEW i \in Slot
      PROVE  slots[i] # None <=>
                \E k \in 0..(MaxRecords - 1) :
                    k < CurrentMeta.count /\ i = (CurrentMeta.head + k) % MaxRecords
  <2>1. slots[i] # None <=> In(Live, i)
      BY <1>1 DEF QInv, WindowHeld, StageInv, Exact
  <2>2. \A k \in 0..(MaxRecords - 1) :
          (Live.head + k) % MaxRecords = Ring(Live.head, k) /\ Offset(Live.head, Ring(Live.head, k)) = k
    <3> SUFFICES ASSUME NEW k \in 0..(MaxRecords - 1)
                 PROVE  (Live.head + k) % MaxRecords = Ring(Live.head, k)
                        /\ Offset(Live.head, Ring(Live.head, k)) = k
        OBVIOUS
    <3>1. k \in 0..MaxRecords /\ k < MaxRecords
        BY MaxRecordsAssumption
    <3> QED
        BY <1>1, <3>1, LiveFacts, RingIsRemainder, RingFacts
  <2>3. Offset(Live.head, i) \in 0..(MaxRecords - 1) /\ Ring(Live.head, Offset(Live.head, i)) = i
      BY <1>1, LiveFacts, OffsetFacts
  <2>4. CurrentMeta = Live
      BY <1>1, LiveFacts
  <2> QED
      BY <2>1, <2>2, <2>3, <2>4 DEF In
<1>2. QInv => NoStaleSlots
    BY <1>1 DEF NoStaleSlots
<1> QED
    BY <1>2, QueueInvariant, PTL

-----------------------------------------------------------------------------
(* The refinement.                                                         *)

\* What the window holds, as a sequence.
LEMMA LogicalFacts ==
    ASSUME QInv
    PROVE  /\ Logical \in Seq(Record) /\ Len(Logical) = Live.count
           /\ \A k \in 1..Live.count : /\ Logical[k] = slots[Ring(Live.head, k - 1)]
                                       /\ Ring(Live.head, k - 1) \in Slot
                                       /\ In(Live, Ring(Live.head, k - 1))
                                       /\ Logical[k] \in Record
<1>1. Logical = [i \in 1..Live.count |-> slots[(Live.head + i - 1) % MaxRecords]]
    BY LiveFacts DEF Logical
<1>2. ASSUME NEW k \in 1..Live.count
      PROVE  /\ Live.head + k - 1 = Live.head + (k - 1)
             /\ (Live.head + (k - 1)) % MaxRecords = Ring(Live.head, k - 1)
             /\ Ring(Live.head, k - 1) \in Slot /\ In(Live, Ring(Live.head, k - 1))
             /\ slots[Ring(Live.head, k - 1)] \in Record
  <2>1. /\ Live.head \in Slot /\ k - 1 \in 0..MaxRecords /\ k - 1 < MaxRecords
        /\ k - 1 < Live.count /\ Live.head \in Nat
      BY LiveFacts DEF Slot
  <2>2. /\ (Live.head + (k - 1)) % MaxRecords = Ring(Live.head, k - 1)
        /\ Ring(Live.head, k - 1) \in Slot /\ In(Live, Ring(Live.head, k - 1))
      BY <2>1, RingIsRemainder, RingFacts DEF In
  <2>3. slots[Ring(Live.head, k - 1)] \in Record
      BY <2>2 DEF QInv, WindowHeld, TypeOK
  <2>4. Live.head + k - 1 = Live.head + (k - 1)
      BY <2>1
  <2> QED
      BY <2>2, <2>3, <2>4
<1>3. \A k \in 1..Live.count : Logical[k] = slots[Ring(Live.head, k - 1)]
    BY <1>1, <1>2
<1>4. Live.count \in Nat
    BY LiveFacts
<1>5. Logical \in Seq(Record) /\ Len(Logical) = Live.count
    BY <1>1, <1>2, <1>4
<1> QED
    BY <1>2, <1>3, <1>5

\* The same of the next state.
LogicalIsWindow ==
    /\ CurrentMeta = Live /\ Logical \in Seq(Record) /\ Len(Logical) = Live.count
    /\ \A k \in 1..Live.count : Logical[k] = slots[Ring(Live.head, k - 1)]

LEMMA LogicalNow == QInv => LogicalIsWindow
BY LogicalFacts, LiveFacts DEF LogicalIsWindow

LEMMA LogicalNext == QInv' => LogicalIsWindow'
BY LogicalNow, PTL

\* The same window over the same records is the same sequence.
LEMMA LogicalKept ==
    ASSUME QInv, QInv', Live'.head = Live.head, Live'.count = Live.count,
           Live'.nextSequence = Live.nextSequence,
           \A i \in Slot : In(Live, i) => slots'[i] = slots[i]
    PROVE  UNCHANGED Abs!queueVars
<1>1. /\ CurrentMeta' = Live' /\ CurrentMeta = Live /\ Live.count \in Nat
      /\ Logical' \in Seq(Record) /\ Len(Logical') = Live.count
      /\ \A k \in 1..Live.count : Logical'[k] = slots'[Ring(Live.head, k - 1)]
    BY LogicalNext, LiveFacts DEF LogicalIsWindow
<1>2. \A k \in 1..Live.count : Logical'[k] = Logical[k]
    BY <1>1, LogicalFacts
<1>3. Logical' = Logical
    BY <1>1, <1>2, LogicalFacts, SeqEqual
<1> QED
    BY <1>1, <1>3 DEF Abs!queueVars

\* The commit of an enqueue appends the record.
LEMMA EnqueueCommitIsEnqueue ==
    ASSUME QInv, QInv', EnqueueCommit, EnqueueAhead, EnqueueDone'
    PROVE  Abs!Enqueue(pending.payload)
<1>1. /\ UNCHANGED <<slots, journal, pending>> /\ slots[journal.slot] = pending
    BY DEF EnqueueCommit, QInv, StageInv
<1>2. /\ Live'.head = Live.head /\ Live'.count = Live.count + 1
      /\ Live'.nextSequence = Live.nextSequence + 1
      /\ journal.slot = Ring(Live.head, Live.count) /\ Live.count < MaxRecords
      /\ Live.count \in Nat
    BY <1>1, LiveFacts DEF EnqueueAhead, EnqueueDone, Committed
<1>3. pending = [payload |-> pending.payload, sequenceNumber |-> Live.nextSequence]
    BY DEF EnqueueAhead, EnqueueOfPending, Record
<1>4. /\ CurrentMeta' = Live' /\ CurrentMeta = Live
      /\ Logical' \in Seq(Record) /\ Len(Logical') = Live.count + 1
      /\ \A k \in 1..Live.count + 1 : Logical'[k] = slots[Ring(Live.head, k - 1)]
    BY <1>1, <1>2, LogicalNext, LiveFacts DEF LogicalIsWindow
<1>5. Logical'[Live.count + 1] = pending
    BY <1>1, <1>2, <1>4
<1>6. pending \in Record
    BY DEF EnqueueAhead, EnqueueOfPending
<1>7. Logical' = Append(Logical, pending)
  <2>1. Append(Logical, pending) \in Seq(Record) /\ Len(Append(Logical, pending)) = Live.count + 1
      BY <1>6, LogicalFacts
  <2>2. \A k \in 1..Live.count + 1 : Append(Logical, pending)[k] = Logical'[k]
    <3>1. \A k \in 1..Live.count + 1 :
            Append(Logical, pending)[k] = IF k <= Live.count THEN Logical[k] ELSE pending
        BY <1>2, <1>6, LogicalFacts
    <3>2. \A k \in 1..Live.count : Logical'[k] = Logical[k]
        BY <1>2, <1>4, LogicalFacts
    <3> SUFFICES ASSUME NEW k \in 1..Live.count + 1
                 PROVE  Append(Logical, pending)[k] = Logical'[k]
        OBVIOUS
    <3>3. CASE k <= Live.count
      <4>1. k \in 1..Live.count
          BY <1>2, <3>3
      <4>2. Append(Logical, pending)[k] = Logical[k]
          BY <3>1, <3>3
      <4>3. Logical'[k] = Logical[k]
          BY <3>2, <4>1
      <4> QED
          BY <4>2, <4>3
    <3>4. CASE ~(k <= Live.count)
      <4>1. k = Live.count + 1
          BY <1>2, <3>4
      <4> QED
          BY <1>5, <3>1, <3>4, <4>1
    <3> QED
        BY <3>3, <3>4
  <2> QED
      BY <1>4, <2>1, <2>2, SeqEqual
<1> QED
    BY <1>2, <1>3, <1>4, <1>7, LogicalFacts DEF Abs!Enqueue

\* The commit of an acknowledgement takes the head.
LEMMA AckCommitIsAcknowledge ==
    ASSUME QInv, QInv', AckCommit, AckAhead, AckDone'
    PROVE  \E s \in 1..CurrentMeta.nextSequence : Abs!Acknowledge(s)
<1>1. UNCHANGED <<slots, journal>>
    BY DEF AckCommit
<1>2. /\ Live'.head = Next1(Live.head) /\ Live'.count = Live.count - 1
      /\ Live'.nextSequence = Live.nextSequence
      /\ Live.count \in 1..MaxRecords /\ Live.head \in Slot
    BY <1>1, LiveFacts DEF AckAhead, AckDone, Committed
<1>3. /\ CurrentMeta' = Live' /\ CurrentMeta = Live
      /\ Logical' \in Seq(Record) /\ Len(Logical') = Live.count - 1
      /\ \A k \in 1..Live.count - 1 : Logical'[k] = slots[Ring(Next1(Live.head), k - 1)]
    BY <1>1, <1>2, LogicalNext, LiveFacts DEF LogicalIsWindow
<1>4. /\ Logical \in Seq(Record) /\ Len(Logical) = Live.count
      /\ \A k \in 1..Live.count : Logical[k] = slots[Ring(Live.head, k - 1)]
    BY LogicalFacts
<1>5. ASSUME NEW k \in 1..Live.count - 1
      PROVE  Logical'[k] = Logical[k + 1]
  <2>1. k \in 1..MaxRecords /\ k + 1 \in 1..Live.count /\ (k + 1) - 1 = k
      BY <1>2, MaxRecordsAssumption
  <2>2. Ring(Next1(Live.head), k - 1) = Ring(Live.head, k)
      BY <1>2, <2>1, WindowShrinks
  <2> QED
      BY <1>3, <1>4, <2>1, <2>2
<1>6. Logical # <<>> /\ Logical' = Tail(Logical) /\ Head(Logical) = Logical[1]
    BY <1>2, <1>3, <1>4, <1>5
<1>7. Head(Logical).sequenceNumber \in 1..Live.nextSequence
  <2>1. 1 \in 1..Live.count
      BY <1>2
  <2>2. /\ Ring(Live.head, 0) \in Slot /\ In(Live, Ring(Live.head, 0))
        /\ Logical[1] = slots[Ring(Live.head, 0)]
      BY <2>1, LogicalFacts
  <2> QED
      BY <1>6, <2>2 DEF QInv, WindowHeld
<1> QED
    BY <1>2, <1>3, <1>6, <1>7 DEF Abs!Acknowledge

\* No other step is seen.
LEMMA OthersKeepLogical ==
    ASSUME QInv, QInv',
           \/ \E p \in Payloads : BeginEnqueueJournal(p)
           \/ CompleteEnqueueData \/ EnqueueClear
           \/ \E s \in 1..MaxSequence : BeginAcknowledge(s)
           \/ AckRemove \/ AckClear \/ PowerLoss \/ RecoverAfterCrash
           \/ UNCHANGED vars
    PROVE  UNCHANGED Abs!queueVars
<1>1. Live' = Live
    BY DEF BeginEnqueueJournal, CompleteEnqueueData, EnqueueClear, BeginAcknowledge, AckRemove,
           AckClear, PowerLoss, RecoverAfterCrash, vars, Live
<1>2. \/ slots' = slots
      \/ /\ stage # "idle" /\ ~In(Live, journal.slot)
         /\ \E v : slots' = [slots EXCEPT ![journal.slot] = v]
  <2>1. CASE CompleteEnqueueData
    <3>1. stage = "enqueue-data" /\ slots' = [slots EXCEPT ![journal.slot] = pending]
        BY <2>1 DEF CompleteEnqueueData
    <3> QED
        BY <3>1, JournalSlot DEF QInv, StageInv
  <2>2. CASE AckRemove
    <3>1. stage = "ack-remove" /\ slots' = [slots EXCEPT ![journal.slot] = None]
        BY <2>2 DEF AckRemove
    <3> QED
        BY <3>1, JournalSlot DEF QInv, StageInv
  <2>3. CASE RecoverAfterCrash
    <3>1. CASE slots' = slots
        BY <3>1
    <3>2. CASE slots' # slots
      <4>1. /\ stage = "crashed" /\ journal.op = "enqueue"
            /\ ~(slots[journal.slot] # None /\ slots[journal.slot].sequenceNumber = journal.sequence)
            /\ slots' = [slots EXCEPT ![journal.slot] = None]
          BY <2>3, <3>2 DEF RecoverAfterCrash
      <4>2. EnqueueAhead
          BY <4>1, NoneAssumption DEF QInv, StageInv, EnqueueDone, EnqueueOfPending, AckAhead, AckDone
      <4> QED
          BY <4>1, <4>2, JournalSlot
    <3> QED
        BY <3>1, <3>2
  <2>4. CASE \/ \E p \in Payloads : BeginEnqueueJournal(p)
             \/ \E s \in 1..MaxSequence : BeginAcknowledge(s)
             \/ EnqueueClear \/ AckClear \/ PowerLoss \/ UNCHANGED vars
      BY <2>4 DEF BeginEnqueueJournal, BeginAcknowledge, EnqueueClear, AckClear, PowerLoss, vars
  <2> QED
      BY <2>1, <2>2, <2>3, <2>4
<1>3. \A i \in Slot : In(Live, i) => slots'[i] = slots[i]
    BY <1>2 DEF QInv, TypeOK
<1> QED
    BY <1>1, <1>3, LogicalKept

LEMMA StepImplements == QInv /\ QInv' /\ [Next]_vars => [Abs!QueueNext]_(Abs!queueVars)
<1> SUFFICES ASSUME QInv, QInv', [Next]_vars PROVE [Abs!QueueNext]_(Abs!queueVars)
    OBVIOUS
<1>1. CASE EnqueueCommit
  <2>1. EnqueueDone' /\ stage = "enqueue-commit"
      BY <1>1, EnqueueCommitKeeps DEF EnqueueCommit
  <2>2. CASE EnqueueAhead
    <3>1. pending.payload \in Payloads
        BY <2>2 DEF EnqueueAhead, EnqueueOfPending, Record
    <3> QED
        BY <1>1, <2>1, <2>2, <3>1, EnqueueCommitIsEnqueue DEF Abs!QueueNext
  <2>3. CASE EnqueueDone
    <3>1. UNCHANGED <<slots, journal>>
        BY <1>1 DEF EnqueueCommit
    <3>2. /\ Live'.head = Live.head /\ Live'.count = Live.count
          /\ Live'.nextSequence = Live.nextSequence
        BY <2>1, <2>3, <3>1 DEF EnqueueDone, Committed
    <3> QED
        BY <3>1, <3>2, LogicalKept
  <2> QED
      BY <2>1, <2>2, <2>3 DEF QInv, StageInv
<1>2. CASE AckCommit
  <2>1. AckDone' /\ stage = "ack-commit"
      BY <1>2, AckCommitKeeps DEF AckCommit
  <2>2. CASE AckAhead
      BY <1>2, <2>1, <2>2, AckCommitIsAcknowledge DEF Abs!QueueNext
  <2>3. CASE AckDone
    <3>1. UNCHANGED <<slots, journal>>
        BY <1>2 DEF AckCommit
    <3>2. /\ Live'.head = Live.head /\ Live'.count = Live.count
          /\ Live'.nextSequence = Live.nextSequence
        BY <2>1, <2>3, <3>1 DEF AckDone, Committed
    <3> QED
        BY <3>1, <3>2, LogicalKept
  <2> QED
      BY <2>1, <2>2, <2>3 DEF QInv, StageInv
<1> QED
    BY <1>1, <1>2, OthersKeepLogical DEF Next

\* Wherever power is lost, the ring is the FIFO: an operation happens entirely or
\* not at all, at the commit of its meta (journaled-queue.ts:80-160).
THEOREM ImplementsFifo == Spec => ImplementsQueue
<1>1. Init => Abs!QueueInit
  <2> SUFFICES ASSUME Init PROVE Abs!QueueInit
      OBVIOUS
  <2>1. QInv
      BY InitQInv
  <2>2. Live.count = 0 /\ Live.nextSequence = 1
      BY DEF Init, Live
  <2>3. Logical = <<>>
      BY <2>1, <2>2, LogicalFacts
  <2> QED
      BY <2>1, <2>2, <2>3, LiveFacts DEF Abs!QueueInit
<1> QED
    BY <1>1, StepImplements, QueueInvariant, PTL DEF Spec, ImplementsQueue, Abs!QueueSpec

\* The journal is cleared only when the call it describes is settled, however
\* often it was interrupted and recovered (journaled-queue.ts:60-160).
THEOREM ClearedWhenSettled == Spec => JournalClearedWhenSettled
<1>1. ASSUME QInv, [Next]_vars, journal # None, journal' = None
      PROVE  IF journal.op = "enqueue"
             THEN (slots[journal.slot] = pending) <=>
                    (CurrentMeta.nextSequence = journal.nextSequence)
             ELSE /\ CurrentMeta.head = journal.head
                  /\ CurrentMeta.count = journal.count
                  /\ slots[journal.slot] = None
  <2>1. stage \in {"enqueue-clear", "ack-clear"}
      BY <1>1, BeginEnqueueKeeps, BeginAckKeeps, NoneAssumption DEF Next, vars,
         CompleteEnqueueData, EnqueueCommit, EnqueueClear, AckCommit, AckRemove, AckClear,
         PowerLoss, RecoverAfterCrash, BeginEnqueueJournal, BeginAcknowledge, QInv, StageInv
  <2>2. CASE stage = "enqueue-clear"
    <3>1. (EnqueueAhead \/ EnqueueDone) /\ Exact
        BY <1>1, <2>2 DEF QInv, StageInv
    <3>2. CASE EnqueueAhead
      <4>1. slots[journal.slot] = None
          BY <1>1, <2>2, <3>1, <3>2, JournalSlot, JournalFacts DEF Exact
      <4>2. pending # None
          BY <3>2, NoneAssumption DEF EnqueueAhead, EnqueueOfPending
      <4> QED
          BY <1>1, <3>2, <4>1, <4>2, LiveFacts DEF EnqueueAhead, EnqueueOfPending
    <3>3. CASE EnqueueDone
        BY <1>1, <3>3, LiveFacts DEF EnqueueDone, Committed, EnqueueOfPending
    <3> QED
        BY <3>1, <3>2, <3>3
  <2>3. CASE stage = "ack-clear"
    <3>1. AckDone /\ Exact /\ ~In(Live, journal.slot)
        BY <1>1, <2>3, JournalSlot DEF QInv, StageInv
    <3> QED
        BY <1>1, <2>3, <3>1, LiveFacts, JournalFacts DEF AckDone, Committed, Exact
  <2> QED
      BY <2>1, <2>2, <2>3
<1>2. QInv /\ [Next]_vars =>
        [journal # None /\ journal' = None =>
         IF journal.op = "enqueue"
         THEN (slots[journal.slot] = pending) <=>
                (CurrentMeta.nextSequence = journal.nextSequence)
         ELSE /\ CurrentMeta.head = journal.head
              /\ CurrentMeta.count = journal.count
              /\ slots[journal.slot] = None
      ]_vars
    BY <1>1
<1> QED
    BY <1>2, QueueInvariant, PTL DEF Spec, JournalClearedWhenSettled
=============================================================================
