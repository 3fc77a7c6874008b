----------------------- MODULE PersistentQueue_proofs -----------------------
(***************************************************************************)
(* Theorems about the queue of the firmware (PersistentQueue), for every   *)
(* size of the ring, every number of measurements and every number of      *)
(* power-ons.                                                              *)
(*                                                                         *)
(* Types and the two meta buffers hold for ever (TypeInv, MetaInv).  What  *)
(* the slots hold is followed until power is first lost (FirstLife): after *)
(* that a boot may take back the number a record was given, which is what  *)
(* the runs power_cycles_keep_the_queue and sequence_numbers_persist show. *)
(***************************************************************************)
EXTENDS PersistentQueue, FiniteSetTheorems, SequenceTheorems, TLAPS

\* Positions on the ring, without remainders: k after h, and how far i is from h.
Ring(h, k) == IF h + k < QUEUE_MAX_RECORDS THEN h + k ELSE h + k - QUEUE_MAX_RECORDS
Offset(h, i) == IF i >= h THEN i - h ELSE i + QUEUE_MAX_RECORDS - h

-----------------------------------------------------------------------------
(* The inductive invariant.                                                *)

\* A count on flash is one the ring can have.
Counted(S) == {m \in S : m.count \in 0..QUEUE_MAX_RECORDS}
KeptMeta == Counted(Meta)
KeptJournal == Counted(Journal)

Content == Record \cup KeptMeta \cup KeptJournal \cup {None}

FlashTypeOK ==
    /\ disk \in [File -> Content]
    /\ \A i \in Slot : disk[SlotFile(i)] \in Record \cup {None}
    /\ \A w \in {0, 1} : disk[MetaFile(w)] \in KeptMeta \cup {None}
    /\ disk[JournalFile] \in KeptJournal \cup {None}

RamTypeOK == ram \in [head : Slot, tail : Slot, count : 0..QUEUE_MAX_RECORDS,
                      nextSequence : Nat, metaGen : Nat, metaActive : {0, 1}]

HistoryTypeOK ==
    /\ boots \in 1..MaxBoots
    /\ measured \in 0..MaxMeasurements
    /\ accepted \in SUBSET Measurement
    /\ highest \in Nat
    /\ stored \in SUBSET Measurement
    /\ headLost \in BOOLEAN

Enqueuing == {"enqueue-journal", "enqueue-data", "enqueue-abort", "enqueue-meta", "enqueue-clear"}
Acking == {"ack-journal", "ack-meta", "ack-remove", "ack-clear"}
Retrying == {"retry-journal", "retry-data", "retry-clear"}
Recovering == {"recover-meta", "recover-remove", "recover-clear"}
WritesJournal == {"enqueue-journal", "ack-journal", "retry-journal"}
WritesSlot == {"enqueue-data", "retry-data"}
WritesMeta == {"enqueue-meta", "ack-meta", "recover-meta", "rebuild-meta"}

\* What the call in progress holds.
JobOK ==
    /\ pc \in Pc
    /\ job \in KeptJournal \cup Counted(Cursors) \cup {None}
    /\ rec \in Record \cup {None}
    /\ pc \in Enqueuing \cup Acking \cup Retrying \cup Recovering => job \in KeptJournal
    /\ pc = "rebuild-meta" => job \in Counted(Cursors)
    /\ pc \in Enqueuing \cup Retrying => rec \in Record
    /\ pc = "off" => boots < MaxBoots

\* A .bak file is there in the middle of a write, and holds what its file held.
BakOK ==
    /\ bak \in Content
    /\ bak # None =>
         \/ pc \in WritesJournal /\ bak \in KeptJournal
         \/ pc \in WritesSlot /\ bak \in Record
         \/ pc \in WritesMeta /\ bak \in KeptMeta
         \/ pc = "off"

TypeInv == FlashTypeOK /\ RamTypeOK /\ HistoryTypeOK /\ JobOK /\ BakOK

\* The cursors in RAM, as a meta file holds them.
RamMeta == [gen |-> ram.metaGen, head |-> ram.head, tail |-> ram.tail,
            count |-> ram.count, nextSequence |-> ram.nextSequence]

\* A boot would not take m, from the other buffer, for the live meta of r.
Older(m, r) == m = None \/ m.gen < r.metaGen \/ (m.gen = r.metaGen /\ r.metaActive = 0)

\* From power-on until the meta is loaded, RAM and flash have nothing to agree on.
BeforeLoad == {"off", "unmounted", "recover", "recover-meta", "recover-remove", "recover-clear", "load"}

\* Once it is: there is no meta at all, or the live buffer holds the cursors in RAM
\* and the next boot would take it and not the other one, even if it finds the other
\* in the middle of its two renames.
MetaInv ==
    pc \notin BeforeLoad =>
      \/ /\ disk[MetaFile(0)] = None /\ disk[MetaFile(1)] = None
         /\ pc \in WritesMeta => bak = None
      \/ /\ disk[MetaFile(ram.metaActive)] = RamMeta
         /\ Older(disk[MetaFile(1 - ram.metaActive)], ram)
         /\ pc \in WritesMeta => Older(bak, ram)

-----------------------------------------------------------------------------
(* Until power is first lost.                                              *)

\* The first boot finds no file, and makes an empty queue.
FirstBoot ==
    /\ pc \in {"unmounted", "recover", "load", "rebuild-meta", "boot-clear"}
    /\ disk[JournalFile] = None /\ \A i \in Slot : disk[SlotFile(i)] = None
    /\ pc = "load" => disk[MetaFile(0)] = None /\ disk[MetaFile(1)] = None
    /\ pc = "recover" => disk[MetaFile(0)] = None /\ disk[MetaFile(1)] = None
    /\ ram.head = 0 /\ ram.tail = 0 /\ ram.count = 0 /\ ram.nextSequence = 1
    /\ pc = "rebuild-meta" => job = [head |-> 0, tail |-> 0, count |-> 0, nextSequence |-> 1]
    /\ accepted = {}

\* Slot i is between head and tail.
In(i) == Offset(ram.head, i) < ram.count

\* Every position of the window holds a record, with a number handed out, and
\* every accepted measurement the server does not have is in the window.
WindowHeld ==
    /\ ram.tail = Ring(ram.head, ram.count) /\ ram.nextSequence > 0
    /\ \A i \in Slot : In(i) => /\ Held(i) \in Record
                                /\ Held(i).sequenceNumber \in 1..(ram.nextSequence - 1)
    /\ \A m \in accepted \ stored : \E i \in Slot : In(i) /\ Held(i).measurement = m

\* An enqueue is ahead of the cursors by one record; an acknowledgement or a retry is
\* about the record at the head.
EnqueueAhead ==
    /\ ram.count < QUEUE_MAX_RECORDS
    /\ rec.sequenceNumber = ram.nextSequence
    /\ job.slot = ram.tail /\ job.head = ram.head /\ job.tail = After(ram.tail)
    /\ job.count = ram.count + 1 /\ job.nextSequence = ram.nextSequence + 1

HeadInHand == ram.count > 0 /\ job.slot = ram.head /\ rec = Held(ram.head)

\* How far the call in progress has come.
StageInv ==
    /\ pc \in Enqueuing \ {"enqueue-clear"} => EnqueueAhead
    /\ pc = "enqueue-meta" => disk[SlotFile(job.slot)] = rec
    /\ pc = "enqueue-clear" => In(job.slot) /\ Held(job.slot) = rec
    /\ pc \in {"ack-journal", "ack-meta"} =>
         /\ HeadInHand /\ rec.measurement \in stored
         /\ job.head = After(ram.head) /\ job.tail = ram.tail
         /\ job.count = ram.count - 1 /\ job.nextSequence = ram.nextSequence
    /\ pc = "ack-remove" => ~In(job.slot)
    /\ pc \in Retrying => HeadInHand
    /\ pc = "retry-data" => (disk[SlotFile(job.slot)] = None <=> bak # None)

\* What SoleCopyKept says, of any life.
Copies ==
    \A m \in accepted \ stored :
        \/ \E i \in Slot : disk[SlotFile(i)] # None /\ disk[SlotFile(i)].measurement = m
        \/ bak \in Record /\ bak.measurement = m

\* Booting, off with every record still on flash, or running with its window held;
\* unless a rewrite of the head could be neither finished nor undone.
FirstLife ==
    boots = 1 /\ ~headLost =>
                 \/ FirstBoot
                 \/ pc = "off" /\ Copies
                 \/ ~Booting /\ WindowHeld /\ StageInv

PInv == TypeInv /\ MetaInv /\ FirstLife

-----------------------------------------------------------------------------
(* Files, and what a write of one does.                                    *)

LEMMA FileFacts ==
    /\ JournalFile \in File
    /\ \A i \in Slot : /\ SlotFile(i) \in File /\ SlotFile(i) # JournalFile
                       /\ \A w \in {0, 1} : SlotFile(i) # MetaFile(w)
                       /\ \A k \in Slot : SlotFile(i) = SlotFile(k) => i = k
    /\ \A w \in {0, 1} : MetaFile(w) \in File /\ MetaFile(w) # JournalFile
    /\ MetaFile(0) # MetaFile(1)
BY DEF File, SlotFile, MetaFile, JournalFile

LEMMA NoneFacts == None \notin Record /\ None \notin KeptMeta /\ None \notin KeptJournal
BY NoneAssumption DEF KeptMeta, KeptJournal, Counted

Writes(f, v) == Put(f, v) \/ MoveAside(f) \/ WriteFails(f) \/ RestoreFails(f)

LEMMA WriteFacts ==
    ASSUME NEW f \in File, NEW v \in Content, disk \in [File -> Content], bak \in Content,
           Writes(f, v)
    PROVE  /\ disk' \in [File -> Content]
           /\ \A g \in File \ {f} : disk'[g] = disk[g]
           /\ \/ disk'[f] = v /\ bak' = None
              \/ disk[f] # None /\ disk'[f] = None /\ bak' = disk[f]
              \/ disk'[f] = (IF bak # None THEN bak ELSE disk[f]) /\ bak' = None
              \/ RestoreFails(f) /\ disk'[f] = disk[f] /\ bak' = None
<1>1. None \in Content
    BY DEF Content
<1>2. \E c \in Content : disk' = [disk EXCEPT ![f] = c]
    BY <1>1 DEF Writes, Put, MoveAside, WriteFails, RestoreFails
<1>3. CASE Put(f, v)
    BY <1>2, <1>3 DEF Put
<1>4. CASE MoveAside(f)
    BY <1>2, <1>4 DEF MoveAside
<1>5. CASE WriteFails(f)
    BY <1>2, <1>5 DEF WriteFails
<1>6. CASE RestoreFails(f)
    BY <1>6 DEF RestoreFails
<1> QED
    BY <1>3, <1>4, <1>5, <1>6 DEF Writes

\* The three kinds of file keep their kinds of contents, and so does .bak.
LEMMA JournalWritten ==
    ASSUME FlashTypeOK, NEW v \in KeptJournal, bak \in KeptJournal \cup {None},
           Writes(JournalFile, v)
    PROVE  FlashTypeOK' /\ bak' \in KeptJournal \cup {None}
<1>1. v \in Content /\ bak \in Content
    BY DEF Content
<1>2. /\ disk' \in [File -> Content] /\ \A g \in File \ {JournalFile} : disk'[g] = disk[g]
      /\ disk'[JournalFile] \in {v, None, bak, disk[JournalFile]}
      /\ bak' \in {None, disk[JournalFile]}
    BY <1>1, FileFacts, WriteFacts DEF FlashTypeOK
<1> QED
    BY <1>2, FileFacts DEF FlashTypeOK

LEMMA SlotWritten ==
    ASSUME FlashTypeOK, NEW i \in Slot, NEW v \in Record, bak \in Record \cup {None},
           Writes(SlotFile(i), v)
    PROVE  FlashTypeOK' /\ bak' \in Record \cup {None}
<1>1. v \in Content /\ bak \in Content
    BY DEF Content
<1>2. /\ disk' \in [File -> Content] /\ \A g \in File \ {SlotFile(i)} : disk'[g] = disk[g]
      /\ disk'[SlotFile(i)] \in {v, None, bak, disk[SlotFile(i)]}
      /\ bak' \in {None, disk[SlotFile(i)]}
    BY <1>1, FileFacts, WriteFacts DEF FlashTypeOK
<1> QED
    BY <1>2, FileFacts DEF FlashTypeOK

LEMMA MetaWritten ==
    ASSUME FlashTypeOK, NEW w \in {0, 1}, NEW v \in KeptMeta, bak \in KeptMeta \cup {None},
           Writes(MetaFile(w), v)
    PROVE  FlashTypeOK' /\ bak' \in KeptMeta \cup {None}
<1>1. v \in Content /\ bak \in Content
    BY DEF Content
<1>2. /\ disk' \in [File -> Content] /\ \A g \in File \ {MetaFile(w)} : disk'[g] = disk[g]
      /\ disk'[MetaFile(w)] \in {v, None, bak, disk[MetaFile(w)]}
      /\ bak' \in {None, disk[MetaFile(w)]}
    BY <1>1, FileFacts, WriteFacts DEF FlashTypeOK
<1> QED
    BY <1>2, FileFacts DEF FlashTypeOK

LEMMA FileRemoved ==
    ASSUME FlashTypeOK, NEW f \in File, RemoveFile(f)
    PROVE  FlashTypeOK' /\ disk'[f] \in {None, disk[f]} /\ \A g \in File \ {f} : disk'[g] = disk[g]
<1>1. /\ disk' \in {[disk EXCEPT ![f] = None], disk} /\ None \in Content
      /\ disk \in [File -> Content]
    BY DEF RemoveFile, Content, FlashTypeOK
<1>2. /\ disk' \in [File -> Content] /\ disk'[f] \in {None, disk[f]}
      /\ \A g \in File \ {f} : disk'[g] = disk[g]
    BY <1>1
<1> QED
    BY <1>2, FileFacts DEF FlashTypeOK

-----------------------------------------------------------------------------
(* Types.                                                                  *)

LEMMA SlotFacts == 0 \in Slot /\ \A i \in Slot : i \in Nat /\ After(i) \in Slot
BY QueueAssumption DEF Slot, After

\* The meta that persistMetaDual() writes, and where.
NewMeta == [gen |-> ram.metaGen + 1, head |-> job.head, tail |-> job.tail,
            count |-> job.count, nextSequence |-> job.nextSequence]
Target == 1 - ram.metaActive

LEMMA MetaStep ==
    ASSUME TypeInv, pc \in WritesMeta, NEW ok, NEW failed, PersistMetaDual(ok, failed)
    PROVE  /\ NewMeta \in KeptMeta /\ Target \in {0, 1} /\ bak \in KeptMeta \cup {None}
           /\ Writes(MetaFile(Target), NewMeta)
           /\ FlashTypeOK' /\ RamTypeOK' /\ bak' \in KeptMeta \cup {None} /\ UNCHANGED <<job, rec>>
           /\ \/ /\ Put(MetaFile(Target), NewMeta) /\ pc' = ok
                 /\ ram' = [head |-> job.head, tail |-> job.tail, count |-> job.count,
                            nextSequence |-> job.nextSequence,
                            metaGen |-> ram.metaGen + 1, metaActive |-> Target]
              \/ MoveAside(MetaFile(Target)) /\ UNCHANGED <<ram, pc>>
              \/ /\ WriteFails(MetaFile(Target)) \/ RestoreFails(MetaFile(Target))
                 /\ UNCHANGED ram /\ pc' = failed
<1>1. job \in KeptJournal \/ job \in Counted(Cursors)
    BY DEF TypeInv, JobOK, WritesMeta, Enqueuing, Acking, Recovering
<1>2. /\ job.head \in Slot /\ job.tail \in Slot /\ job.count \in 0..QUEUE_MAX_RECORDS
      /\ job.nextSequence \in Nat
    BY <1>1 DEF KeptJournal, Counted, Cursors, Journal
<1>3. ram.metaGen \in Nat /\ ram.metaActive \in {0, 1}
    BY DEF TypeInv, RamTypeOK
<1>4. NewMeta \in KeptMeta /\ Target \in {0, 1} /\ NewMeta.gen = ram.metaGen + 1
    BY <1>2, <1>3 DEF NewMeta, Target, KeptMeta, Counted, Meta
<1>5. bak \in KeptMeta \cup {None}
    BY DEF TypeInv, BakOK, WritesMeta, WritesJournal, WritesSlot
<1>6. /\ \/ /\ Put(MetaFile(Target), NewMeta) /\ pc' = ok
            /\ ram' = [head |-> job.head, tail |-> job.tail, count |-> job.count,
                       nextSequence |-> job.nextSequence,
                       metaGen |-> ram.metaGen + 1, metaActive |-> Target]
         \/ MoveAside(MetaFile(Target)) /\ UNCHANGED <<ram, pc>>
         \/ /\ WriteFails(MetaFile(Target)) \/ RestoreFails(MetaFile(Target))
            /\ UNCHANGED ram /\ pc' = failed
      /\ UNCHANGED <<job, rec>>
    BY <1>4 DEF PersistMetaDual, NewMeta, Target
<1>7. Writes(MetaFile(Target), NewMeta)
    BY <1>6 DEF Writes
<1>8. RamTypeOK'
    BY <1>2, <1>3, <1>4, <1>6 DEF TypeInv, RamTypeOK
<1> QED
    BY <1>4, <1>5, <1>6, <1>7, <1>8, MetaWritten DEF TypeInv

LEMMA InitTypeInv == Init => TypeInv
<1> SUFFICES ASSUME Init PROVE TypeInv
    OBVIOUS
<1> USE DEF Init
<1>1. FlashTypeOK
    BY FileFacts DEF FlashTypeOK, Content
<1>2. RamTypeOK
    BY SlotFacts, QueueAssumption DEF RamTypeOK, ColdRam
<1>5. headLost \in BOOLEAN
    BY Zenon
<1>3. HistoryTypeOK
    BY <1>5, QueueAssumption DEF HistoryTypeOK
<1>4. JobOK /\ BakOK
    BY DEF JobOK, BakOK, Pc, Content, Enqueuing, Acking, Retrying, Recovering
<1> QED
    BY <1>1, <1>2, <1>3, <1>4 DEF TypeInv

Stages == Enqueuing \cup Acking \cup Retrying \cup Recovering

\* A step of writing a journal or a slot file, ...
LEMMA WriteToTypes ==
    ASSUME TypeInv, NEW f, NEW v, NEW ok \in Pc, NEW failed \in Pc, WriteTo(f, v, ok, failed),
           HistoryTypeOK',
           \/ pc \in WritesJournal /\ f = JournalFile /\ v \in KeptJournal
           \/ pc \in WritesSlot /\ v \in Record /\ \E i \in Slot : f = SlotFile(i),
           {ok, failed} \subseteq (IF pc \in Enqueuing THEN Enqueuing
                                   ELSE IF pc \in Acking THEN Acking ELSE Retrying) \cup {"idle"}
    PROVE  TypeInv'
<1>1. Writes(f, v) /\ pc' \in {pc, ok, failed} /\ (bak' # None => pc' = pc)
      /\ UNCHANGED <<ram, job, rec>>
    BY DEF WriteTo, Writes, Put, WriteFails, RestoreFails
<1>2. CASE pc \in WritesJournal /\ f = JournalFile /\ v \in KeptJournal
  <2>1. bak \in KeptJournal \cup {None}
      BY <1>2 DEF TypeInv, BakOK, WritesJournal, WritesSlot, WritesMeta
  <2>2. FlashTypeOK' /\ bak' \in KeptJournal \cup {None}
      BY <1>1, <1>2, <2>1, JournalWritten DEF TypeInv
  <2>3. BakOK'
      BY <1>1, <1>2, <2>2 DEF BakOK, Content
  <2> QED
      BY <1>1, <1>2, <2>2, <2>3 DEF TypeInv, RamTypeOK, JobOK,
         WritesJournal, Enqueuing, Acking, Retrying, Recovering
<1>3. CASE pc \in WritesSlot /\ v \in Record /\ \E i \in Slot : f = SlotFile(i)
  <2>1. bak \in Record \cup {None}
      BY <1>3 DEF TypeInv, BakOK, WritesJournal, WritesSlot, WritesMeta
  <2>2. FlashTypeOK' /\ bak' \in Record \cup {None}
      BY <1>1, <1>3, <2>1, SlotWritten DEF TypeInv
  <2>3. BakOK'
      BY <1>1, <1>3, <2>2 DEF BakOK, Content
  <2> QED
      BY <1>1, <1>3, <2>2, <2>3 DEF TypeInv, RamTypeOK, JobOK,
         WritesSlot, Enqueuing, Acking, Retrying, Recovering
<1> QED
    BY <1>2, <1>3

\* ... of writing a meta, ...
LEMMA PersistMetaTypes ==
    ASSUME TypeInv, pc \in WritesMeta, NEW ok \in Pc, NEW failed \in Pc, PersistMetaDual(ok, failed),
           UNCHANGED historyVars,
           {ok, failed} \subseteq (IF pc \in Enqueuing THEN Enqueuing
                                   ELSE IF pc \in Acking THEN Acking
                                   ELSE IF pc \in Recovering THEN Recovering ELSE {"boot-clear"})
                                  \cup {"idle"}
    PROVE  TypeInv'
<1>1. /\ FlashTypeOK' /\ RamTypeOK' /\ bak' \in KeptMeta \cup {None} /\ UNCHANGED <<job, rec>>
      /\ pc' \in {pc, ok, failed} /\ (bak' # None => pc' = pc)
    BY MetaStep DEF Put, WriteFails, RestoreFails
<1>2. BakOK'
    BY <1>1 DEF BakOK, Content
<1> QED
    BY <1>1, <1>2 DEF TypeInv, HistoryTypeOK, historyVars, JobOK, Pc,
       WritesMeta, Enqueuing, Acking, Retrying, Recovering

\* ... and of removing a file.
LEMMA RemoveTypes ==
    ASSUME TypeInv, NEW f \in File, RemoveFile(f), bak = None, UNCHANGED <<bak, ram, job, rec>>,
           HistoryTypeOK', pc' \in {"idle", "load", "ack-clear", "recover-clear"},
           pc' = "ack-clear" => pc \in Acking, pc' = "recover-clear" => pc \in Recovering
    PROVE  TypeInv'
<1>1. FlashTypeOK'
    BY FileRemoved DEF TypeInv
<1>2. JobOK' /\ BakOK' /\ RamTypeOK'
    BY DEF TypeInv, JobOK, BakOK, RamTypeOK, Pc, Enqueuing, Acking, Retrying, Recovering
<1> QED
    BY <1>1, <1>2 DEF TypeInv

LEMMA WritingTypes ==
    ASSUME TypeInv, \/ EnqueueJournal \/ EnqueueData \/ EnqueueMeta \/ AckJournal \/ AckMeta
                    \/ RetryJournal \/ RetryData \/ RecoverMeta \/ RebuildMeta
    PROVE  TypeInv'
<1> USE DEF WritesJournal, WritesSlot, WritesMeta, Enqueuing, Acking, Retrying, Recovering, Pc
<1>1. pc \in Stages => job \in KeptJournal /\ job.slot \in Slot
    BY DEF TypeInv, JobOK, KeptJournal, Counted, Journal, Stages
<1>2. pc \in Enqueuing \cup Retrying => rec \in Record
    BY DEF TypeInv, JobOK
<1>12. HistoryTypeOK'
    BY DEF TypeInv, HistoryTypeOK, historyVars, EnqueueJournal, EnqueueData, EnqueueMeta,
       AckJournal, AckMeta, RetryJournal, RetryData, RecoverMeta, RebuildMeta
<1>3. CASE EnqueueJournal
    BY <1>1, <1>3, <1>12, WriteToTypes DEF EnqueueJournal, Stages
<1>4. CASE EnqueueData
    BY <1>1, <1>2, <1>4, <1>12, WriteToTypes DEF EnqueueData, Stages
<1>5. CASE EnqueueMeta
    BY <1>5, PersistMetaTypes DEF EnqueueMeta
<1>6. CASE AckJournal
    BY <1>1, <1>6, <1>12, WriteToTypes DEF AckJournal, Stages
<1>7. CASE AckMeta
    BY <1>7, PersistMetaTypes DEF AckMeta
<1>8. CASE RetryJournal
    BY <1>1, <1>8, <1>12, WriteToTypes DEF RetryJournal, Stages
<1>9. CASE RetryData
    BY <1>1, <1>2, <1>9, <1>12, WriteToTypes DEF RetryData, Stages
<1>10. CASE RecoverMeta
    BY <1>10, PersistMetaTypes DEF RecoverMeta
<1>11. CASE RebuildMeta
    BY <1>11, PersistMetaTypes DEF RebuildMeta
<1> QED
    BY <1>3, <1>4, <1>5, <1>6, <1>7, <1>8, <1>9, <1>10, <1>11

LEMMA RemovingTypes ==
    ASSUME TypeInv, \/ EnqueueAbort \/ EnqueueClear \/ AckRemove \/ AckClear \/ RetryClear
                    \/ RecoverRemove \/ RecoverClear \/ BootClear
    PROVE  TypeInv'
<1>1. JournalFile \in File /\ (pc \in Stages => SlotFile(job.slot) \in File)
    BY FileFacts DEF TypeInv, JobOK, KeptJournal, Counted, Journal, Stages
<1>2. HistoryTypeOK'
  <2>1. CASE EnqueueClear
    <3>1. rec \in Record
        BY <2>1 DEF EnqueueClear, TypeInv, JobOK, Enqueuing
    <3> QED
        BY <2>1, <3>1 DEF EnqueueClear, TypeInv, HistoryTypeOK, Record
  <2>2. CASE ~EnqueueClear
      BY <2>2 DEF EnqueueAbort, AckRemove, AckClear, RetryClear, RecoverRemove, RecoverClear,
         BootClear, historyVars, TypeInv, HistoryTypeOK
  <2> QED
      BY <2>1, <2>2
<1>3. /\ \E f \in File : RemoveFile(f)
      /\ UNCHANGED <<bak, ram, job, rec>>
      /\ pc' \in {"idle", "load", "ack-clear", "recover-clear"}
      /\ pc' = "ack-clear" => pc \in Acking
      /\ pc' = "recover-clear" => pc \in Recovering
    BY <1>1 DEF EnqueueAbort, EnqueueClear, AckRemove, AckClear, RetryClear, RecoverRemove,
       RecoverClear, BootClear, Stages, Enqueuing, Acking, Retrying, Recovering
<1>4. bak = None
    BY DEF EnqueueAbort, EnqueueClear, AckRemove, AckClear, RetryClear, RecoverRemove,
       RecoverClear, BootClear, TypeInv, BakOK, WritesJournal, WritesSlot, WritesMeta
<1> QED
    BY <1>2, <1>3, <1>4, RemoveTypes

\* What the head and its call look like.
LEMMA PeekFacts ==
    ASSUME TypeInv, Peek # None
    PROVE  /\ Peek \in Record /\ Peek = disk[SlotFile(ram.head)] /\ ram.count > 0
           /\ Peek.measurement \in Measurement
           /\ HeadJob("ack") \in KeptJournal /\ HeadJob("retry") \in KeptJournal
<1>1. /\ ram.head \in Slot /\ ram.tail \in Slot /\ ram.count \in 0..QUEUE_MAX_RECORDS
      /\ ram.nextSequence \in Nat
    BY DEF TypeInv, RamTypeOK
<1>2. ram.count # 0 /\ Peek = disk[SlotFile(ram.head)]
    BY DEF Peek
<1>3. Peek \in Record
    BY <1>1, <1>2 DEF TypeInv, FlashTypeOK
<1>4. Peek.measurement \in Measurement /\ Peek.sequenceNumber \in Nat
    BY <1>3 DEF Record
<1>5. ram.count - 1 \in 0..QUEUE_MAX_RECORDS
    BY <1>1, <1>2, QueueAssumption
<1>6. HeadJob("ack") \in KeptJournal /\ HeadJob("retry") \in KeptJournal
    BY <1>1, <1>4, <1>5, SlotFacts DEF HeadJob, KeptJournal, Counted, Journal
<1> QED
    BY <1>1, <1>2, <1>3, <1>4, <1>6

LEMMA CallTypes ==
    ASSUME TypeInv, Enqueue \/ UploadAcknowledged \/ UploadFailed
    PROVE  TypeInv'
<1> USE DEF Enqueuing, Acking, Retrying, Recovering, Pc
<1>1. /\ FlashTypeOK' /\ RamTypeOK' /\ UNCHANGED bak /\ pc = "idle"
    BY DEF Enqueue, UploadAcknowledged, UploadFailed, TypeInv, FlashTypeOK, RamTypeOK
<1>2. BakOK'
    BY <1>1 DEF TypeInv, BakOK, WritesJournal, WritesSlot, WritesMeta
<1>3. CASE Enqueue
  <2>1. /\ ram.head \in Slot /\ ram.tail \in Slot /\ ram.count \in 0..QUEUE_MAX_RECORDS
        /\ ram.nextSequence \in Nat /\ ram.count < QUEUE_MAX_RECORDS
      BY <1>3 DEF Enqueue, TypeInv, RamTypeOK
  <2>2. job' \in KeptJournal
      BY <1>3, <2>1, SlotFacts, QueueAssumption DEF Enqueue, KeptJournal, Counted, Journal
  <2>3. measured + 1 \in Measurement /\ measured' = measured + 1
      BY <1>3, QueueAssumption DEF Enqueue, TypeInv, HistoryTypeOK, Measurement
  <2>4. rec' \in Record
      BY <1>3, <2>1, <2>3 DEF Enqueue, Record
  <2>5. JobOK'
      BY <1>3, <2>2, <2>4 DEF Enqueue, JobOK
  <2>6. HistoryTypeOK'
      BY <1>3, <2>3 DEF Enqueue, TypeInv, HistoryTypeOK, Measurement
  <2> QED
      BY <1>1, <1>2, <2>5, <2>6 DEF TypeInv
<1>4. CASE UploadAcknowledged
    BY <1>1, <1>2, <1>4, PeekFacts DEF UploadAcknowledged, TypeInv, JobOK, HistoryTypeOK
<1>5. CASE UploadFailed
  <2>1. HistoryTypeOK'
      BY <1>5, PeekFacts DEF UploadFailed, TypeInv, HistoryTypeOK
  <2>2. JobOK'
      BY <1>5, PeekFacts DEF UploadFailed, TypeInv, JobOK
  <2> QED
      BY <1>1, <1>2, <2>1, <2>2 DEF TypeInv
<1> QED
    BY <1>3, <1>4, <1>5

\* Some position holds the lowest, and some the highest, of finitely many numbers.
LEMMA Extremes ==
    ASSUME NEW S, IsFiniteSet(S), S # {}, NEW num \in [S -> Nat]
    PROVE  /\ \E i \in S : \A k \in S : num[i] <= num[k]
           /\ \E i \in S : \A k \in S : num[i] >= num[k]
<1> DEFINE Good(T) == /\ \E i \in T : \A k \in T : num[i] <= num[k]
                      /\ \E i \in T : \A k \in T : num[i] >= num[k]
           bad == {T \in SUBSET S : T # {} /\ ~Good(T)}
<1>1. SUFFICES ASSUME bad # {} PROVE FALSE
  <2>1. S \in SUBSET S
      OBVIOUS
  <2> QED
      BY <1>1, <2>1
<1>2. bad \subseteq FiniteSubsetsOf(S)
    BY FS_Subset DEF FiniteSubsetsOf
<1>3. PICK T \in bad : \A U \in bad : ~(<<U, T>> \in StrictSubsetOrdering(S))
  <2> HIDE DEF bad
  <2> QED
      BY <1>1, <1>2, FS_StrictSubsetOrderingWellFounded, WFMin
<1>4. PICK x \in T : TRUE
    OBVIOUS
<1> DEFINE U == T \ {x}
<1>5. CASE U = {}
  <2>1. T = {x} /\ num[x] \in Nat
      BY <1>4, <1>5
  <2> QED
      BY <2>1
<1>6. CASE U # {}
  <2>1. <<U, T>> \in StrictSubsetOrdering(S)
      BY <1>4 DEF StrictSubsetOrdering
  <2>2. U \notin bad
      BY <1>3, <2>1
  <2>3. Good(U)
      BY <1>6, <2>2
  <2>4. /\ T = U \cup {x} /\ \A k \in T : num[k] \in Nat
      BY <1>4
  <2>5. \E i \in T : \A k \in T : num[i] <= num[k]
    <3>1. PICK i \in U : \A k \in U : num[i] <= num[k]
        BY <2>3
    <3>2. CASE num[i] <= num[x]
        BY <2>4, <3>1, <3>2
    <3>3. CASE ~(num[i] <= num[x])
      <4>1. \A k \in T : num[x] <= num[k]
          BY <2>4, <3>1, <3>3
      <4> QED
          BY <1>4, <4>1
    <3> QED
        BY <3>2, <3>3
  <2>6. \E i \in T : \A k \in T : num[i] >= num[k]
    <3>1. PICK i \in U : \A k \in U : num[i] >= num[k]
        BY <2>3
    <3>2. CASE num[i] >= num[x]
        BY <2>4, <3>1, <3>2
    <3>3. CASE ~(num[i] >= num[x])
      <4>1. \A k \in T : num[x] >= num[k]
          BY <2>4, <3>1, <3>3
      <4> QED
          BY <1>4, <4>1
    <3> QED
        BY <3>2, <3>3
  <2> QED
      BY <2>5, <2>6
<1> QED
    BY <1>5, <1>6

\* What rebuildMetaFromSlots() makes of the slot files.
LEMMA RebuiltFacts ==
    ASSUME FlashTypeOK
    PROVE  /\ Rebuilt \in Counted(Cursors)
           /\ (\A i \in Slot : disk[SlotFile(i)] = None) =>
                Rebuilt = [head |-> 0, tail |-> 0, count |-> 0, nextSequence |-> 1]
<1> DEFINE used == {i \in Slot : disk[SlotFile(i)] # None}
           seq(i) == disk[SlotFile(i)].sequenceNumber
           oldest == CHOOSE i \in used : \A k \in used : seq(i) <= seq(k)
           newest == CHOOSE i \in used : \A k \in used : seq(i) >= seq(k)
<1>1. IsFiniteSet(used) /\ Cardinality(used) \in 0..QUEUE_MAX_RECORDS
  <2>1. IsFiniteSet(Slot) /\ Cardinality(Slot) = QUEUE_MAX_RECORDS
      BY QueueAssumption, FS_Interval DEF Slot
  <2>2. used \in SUBSET Slot
      OBVIOUS
  <2> QED
      BY <2>1, <2>2, FS_Subset, FS_CardinalityType
<1>2. CASE used = {}
  <2>1. Rebuilt = [head |-> 0, tail |-> 0, count |-> 0, nextSequence |-> 1]
      BY <1>2 DEF Rebuilt
  <2> QED
      BY <2>1, SlotFacts, QueueAssumption DEF Counted, Cursors
<1>3. CASE used # {}
  <2>1. \A i \in used : seq(i) \in Nat
      BY DEF FlashTypeOK, Record
  <2> DEFINE num == [i \in used |-> seq(i)]
  <2>2. num \in [used -> Nat]
      BY <2>1
  <2>3. /\ \E i \in used : \A k \in used : num[i] <= num[k]
        /\ \E i \in used : \A k \in used : num[i] >= num[k]
    <3> HIDE DEF num, used
    <3> QED
        BY <1>1, <1>3, <2>2, Extremes
  <2>4. /\ \E i \in used : \A k \in used : seq(i) <= seq(k)
        /\ \E i \in used : \A k \in used : seq(i) >= seq(k)
      BY <2>3
  <2>5. oldest \in used /\ newest \in used
      BY <2>4
  <2>6. Rebuilt = [head |-> oldest, tail |-> After(newest), count |-> Cardinality(used),
                   nextSequence |-> seq(newest) + 1]
      BY <1>3 DEF Rebuilt
  <2> HIDE DEF oldest, newest, seq
  <2>7. oldest \in Slot /\ newest \in Slot /\ seq(newest) \in Nat
      BY <2>1, <2>5
  <2>8. Rebuilt \in Counted(Cursors)
      BY <1>1, <2>6, <2>7, SlotFacts DEF Counted, Cursors
  <2> QED
      BY <1>3, <2>8
<1> QED
    BY <1>2, <1>3

LEMMA BootTypes ==
    ASSUME TypeInv, \/ PowerLoss \/ PowerOn \/ MountFails \/ RefusedUnmounted
                    \/ RecoverJournal \/ LoadMetaDual \/ RebuildMetaFromSlots
                    \/ UNCHANGED vars
    PROVE  TypeInv'
<1> USE DEF Enqueuing, Acking, Retrying, Recovering, WritesJournal, WritesSlot, WritesMeta
<1>1. UNCHANGED disk /\ FlashTypeOK'
    BY DEF PowerLoss, PowerOn, MountFails, RefusedUnmounted, RecoverJournal, LoadMetaDual,
       RebuildMetaFromSlots, vars, TypeInv, FlashTypeOK
<1>2. CASE PowerLoss
    BY <1>1, <1>2 DEF PowerLoss, historyVars, TypeInv, RamTypeOK, HistoryTypeOK, JobOK, BakOK, Pc
<1>3. CASE PowerOn
  <2>1. RamTypeOK'
      BY <1>3, SlotFacts, QueueAssumption DEF PowerOn, RamTypeOK, ColdRam
  <2>2. JobOK' /\ BakOK' /\ HistoryTypeOK'
      BY <1>3, QueueAssumption DEF PowerOn, TypeInv, HistoryTypeOK, JobOK, BakOK, Pc, Content
  <2> QED
      BY <1>1, <2>1, <2>2 DEF TypeInv
<1>4. CASE RecoverJournal
    BY <1>1, <1>4 DEF RecoverJournal, historyVars, TypeInv, RamTypeOK, HistoryTypeOK, JobOK,
       BakOK, Pc, FlashTypeOK
<1>5. CASE LoadMetaDual
  <2> DEFINE l == LoadedMeta
  <2>1. l.which \in {0, 1} /\ l.meta = disk[MetaFile(l.which)]
      BY DEF LoadedMeta
  <2>2. l.meta \in KeptMeta
      BY <1>5, <2>1 DEF LoadMetaDual, TypeInv, FlashTypeOK
  <2>3. ram' = [head |-> l.meta.head, tail |-> l.meta.tail, count |-> l.meta.count,
                nextSequence |-> l.meta.nextSequence,
                metaGen |-> l.meta.gen, metaActive |-> l.which]
        /\ pc' = "boot-clear" /\ UNCHANGED <<bak, job, rec, historyVars>> /\ pc = "load"
      BY <1>5 DEF LoadMetaDual
  <2> HIDE DEF l
  <2>4. RamTypeOK'
      BY <2>1, <2>2, <2>3 DEF RamTypeOK, KeptMeta, Counted, Meta
  <2> QED
      BY <1>1, <2>3, <2>4 DEF historyVars, TypeInv, HistoryTypeOK, JobOK, BakOK, Pc
<1>6. CASE RebuildMetaFromSlots
  <2>1. Rebuilt \in Counted(Cursors)
      BY RebuiltFacts DEF TypeInv
  <2>2. /\ job' = Rebuilt /\ pc' = "rebuild-meta" /\ UNCHANGED <<bak, rec, historyVars>>
        /\ pc = "load"
        /\ ram' = [ram EXCEPT !.head = Rebuilt.head, !.tail = Rebuilt.tail,
                              !.count = Rebuilt.count, !.nextSequence = Rebuilt.nextSequence]
      BY <1>6 DEF RebuildMetaFromSlots
  <2>3. RamTypeOK'
      BY <2>1, <2>2 DEF TypeInv, RamTypeOK, Counted, Cursors
  <2> QED
      BY <1>1, <2>1, <2>2, <2>3 DEF historyVars, TypeInv, HistoryTypeOK, JobOK, BakOK, Pc
<1>7. CASE UNCHANGED vars
    BY <1>1, <1>7 DEF vars, TypeInv, RamTypeOK, HistoryTypeOK, JobOK, BakOK
<1>8. CASE MountFails
    BY <1>1, <1>8 DEF MountFails, historyVars, TypeInv, RamTypeOK, HistoryTypeOK, JobOK, BakOK, Pc
<1>9. CASE RefusedUnmounted
  <2>1. HistoryTypeOK'
      BY <1>9, QueueAssumption DEF RefusedUnmounted, TypeInv, HistoryTypeOK
  <2> QED
      BY <1>1, <1>9, <2>1 DEF RefusedUnmounted, TypeInv, RamTypeOK, JobOK, BakOK
<1> QED
    BY <1>2, <1>3, <1>4, <1>5, <1>6, <1>7, <1>8, <1>9

LEMMA NextTypeInv == TypeInv /\ [Next]_vars => TypeInv'
BY WritingTypes, RemovingTypes, CallTypes, BootTypes DEF Next, Measure, Upload, Begin

\* Every reachable state of the device and its flash, whatever fails and however
\* often power is lost, is well typed (persistent_queue.h:33-376).
THEOREM TypeCorrect == Spec => []TypeOK
<1>1. TypeInv => TypeOK
    BY DEF TypeInv, FlashTypeOK, RamTypeOK, HistoryTypeOK, JobOK, BakOK, TypeOK, Content,
       KeptMeta, KeptJournal, Counted
<1> QED
    BY <1>1, InitTypeInv, NextTypeInv, PTL DEF Spec

-----------------------------------------------------------------------------
(* The two meta buffers.                                                   *)

LEMMA MetaTypes ==
    ASSUME TypeInv
    PROVE  /\ ram.metaGen \in Nat /\ ram.metaActive \in {0, 1} /\ Target \in {0, 1}
           /\ RamMeta \in KeptMeta /\ RamMeta # None /\ RamMeta.gen = ram.metaGen
           /\ \A w \in {0, 1} : disk[MetaFile(w)] = None \/ disk[MetaFile(w)].gen \in Nat
BY NoneFacts DEF TypeInv, RamTypeOK, FlashTypeOK, RamMeta, KeptMeta, Counted, Meta, Target

\* A step that leaves the buffers and the cursors alone.
LEMMA MetaFrame ==
    ASSUME TypeInv, MetaInv, UNCHANGED ram,
           \A w \in {0, 1} : disk'[MetaFile(w)] = disk[MetaFile(w)],
           pc' \in BeforeLoad \/ (pc \notin BeforeLoad /\ (pc' \in WritesMeta => bak' = None))
    PROVE  MetaInv'
<1>1. CASE pc' \in BeforeLoad
    BY <1>1 DEF MetaInv
<1>2. CASE pc' \notin BeforeLoad
  <2>1. ram.metaActive = 0 \/ ram.metaActive = 1
      BY MetaTypes
  <2>2. \/ disk[MetaFile(0)] = None /\ disk[MetaFile(1)] = None
        \/ /\ disk[MetaFile(ram.metaActive)] = RamMeta
           /\ Older(disk[MetaFile(1 - ram.metaActive)], ram)
      BY <1>2 DEF MetaInv
  <2>3. Older(None, ram')
      BY DEF Older
  <2>4. CASE disk[MetaFile(0)] = None /\ disk[MetaFile(1)] = None
      BY <1>2, <2>4 DEF MetaInv
  <2>5. CASE /\ disk[MetaFile(ram.metaActive)] = RamMeta
             /\ Older(disk[MetaFile(1 - ram.metaActive)], ram)
    <3>1. disk'[MetaFile(ram.metaActive)] = disk[MetaFile(ram.metaActive)]
          /\ disk'[MetaFile(1 - ram.metaActive)] = disk[MetaFile(1 - ram.metaActive)]
        BY <2>1
    <3>2. RamMeta' = RamMeta /\ Older(disk'[MetaFile(1 - ram.metaActive)], ram')
        BY <2>5, <3>1 DEF RamMeta, Older
    <3> QED
        BY <1>2, <2>3, <2>5, <3>1, <3>2 DEF MetaInv, Older
  <2> QED
      BY <2>2, <2>4, <2>5
<1> QED
    BY <1>1, <1>2

\* A call of persistMetaDual() once the cursors are loaded.
LEMMA MetaPersisted ==
    ASSUME TypeInv, MetaInv, pc \in WritesMeta \ {"recover-meta"},
           NEW ok \in {"enqueue-clear", "ack-remove", "boot-clear"},
           NEW failed \in {"idle", "boot-clear"}, PersistMetaDual(ok, failed)
    PROVE  MetaInv'
<1> DEFINE active == MetaFile(ram.metaActive)
           other == MetaFile(Target)
<1>1. /\ other \in File /\ active \in File /\ active # other
      /\ {active, other} = {MetaFile(0), MetaFile(1)}
  <2>1. \/ ram.metaActive = 0 /\ Target = 1 - 0
        \/ ram.metaActive = 1 /\ Target = 1 - 1
      BY MetaTypes DEF Target
  <2> QED
      BY <2>1, FileFacts
<1>2. /\ Writes(other, NewMeta) /\ NewMeta \in Content /\ bak \in Content
      /\ disk \in [File -> Content]
    BY MetaStep DEF Content, TypeInv, BakOK, FlashTypeOK
<1>3. disk'[active] = disk[active]
    BY <1>1, <1>2, WriteFacts
<1>4. /\ NewMeta.gen = ram.metaGen + 1 /\ NewMeta # None
    BY MetaStep, NoneFacts DEF NewMeta
<1>5. /\ pc \notin BeforeLoad /\ pc \in WritesMeta /\ pc' \notin BeforeLoad
      /\ pc' # pc => pc' \notin WritesMeta
    BY MetaStep DEF WritesMeta, BeforeLoad
<1>6. \/ disk[active] = None /\ disk[other] = None /\ bak = None
      \/ disk[active] = RamMeta /\ Older(disk[other], ram) /\ Older(bak, ram)
    BY <1>1, <1>5 DEF MetaInv, Target
<1>7. CASE /\ Put(other, NewMeta) /\ pc' = ok
           /\ ram' = [head |-> job.head, tail |-> job.tail, count |-> job.count,
                      nextSequence |-> job.nextSequence,
                      metaGen |-> ram.metaGen + 1, metaActive |-> Target]
  <2>1. /\ disk'[other] = NewMeta /\ bak' = None
        /\ ram' = [head |-> job.head, tail |-> job.tail, count |-> job.count,
                   nextSequence |-> job.nextSequence,
                   metaGen |-> ram.metaGen + 1, metaActive |-> Target]
      BY <1>1, <1>2, <1>7 DEF Put
  <2>2. RamMeta' = NewMeta /\ ram'.metaActive = Target /\ 1 - Target = ram.metaActive
        /\ ram'.metaGen = ram.metaGen + 1
      BY <2>1, MetaTypes DEF RamMeta, NewMeta, Target
  <2>3. disk[active] = None \/ disk[active].gen = ram.metaGen
      BY <1>6, MetaTypes
  <2>4. Older(disk[active], ram')
      BY <1>3, <2>2, <2>3, MetaTypes DEF Older
  <2> QED
      BY <1>3, <2>1, <2>2, <2>4 DEF MetaInv, Older
<1>8. CASE MoveAside(other) /\ UNCHANGED <<ram, pc>>
  <2>1. disk[other] # None /\ disk'[other] = None /\ bak' = disk[other]
      BY <1>1, <1>2, <1>8 DEF MoveAside
  <2>2. disk[active] = RamMeta /\ Older(disk[other], ram)
      BY <1>6, <2>1
  <2>3. RamMeta' = RamMeta /\ disk'[active] = RamMeta' /\ Older(bak', ram') /\ Older(disk'[other], ram')
      BY <1>3, <1>8, <2>1, <2>2 DEF RamMeta, Older
  <2> QED
      BY <1>8, <2>1, <2>3 DEF MetaInv, Older, Target
<1>10. CASE RestoreFails(other) /\ UNCHANGED ram /\ pc' = failed
  <2>1. disk'[other] = disk[other] /\ bak' = None /\ bak # None
      BY <1>10 DEF RestoreFails
  <2>2. disk[active] = RamMeta /\ Older(disk[other], ram)
      BY <1>6, <2>1
  <2>3. Older(disk'[other], ram') /\ RamMeta' = RamMeta
      BY <1>10, <2>1, <2>2 DEF RamMeta, Older
  <2> QED
      BY <1>3, <1>10, <2>1, <2>2, <2>3 DEF MetaInv, Older, Target
<1>9. CASE WriteFails(other) /\ UNCHANGED ram /\ pc' = failed
  <2>1. disk'[other] = (IF bak # None THEN bak ELSE disk[other]) /\ bak' = None
      BY <1>1, <1>2, <1>9 DEF WriteFails
  <2>2. CASE disk[active] = None /\ disk[other] = None /\ bak = None
    <3>1. disk'[MetaFile(0)] = None /\ disk'[MetaFile(1)] = None
        BY <1>1, <1>3, <2>1, <2>2
    <3> QED
        BY <2>1, <3>1 DEF MetaInv
  <2>3. CASE disk[active] = RamMeta /\ Older(disk[other], ram) /\ Older(bak, ram)
    <3>1. Older(disk'[other], ram') /\ RamMeta' = RamMeta
        BY <1>9, <2>1, <2>3 DEF RamMeta, Older
    <3> QED
        BY <1>3, <1>9, <2>1, <2>3, <3>1 DEF MetaInv, Older, Target
  <2> QED
      BY <1>6, <2>2, <2>3
<1> QED
    BY <1>7, <1>8, <1>9, <1>10, MetaStep

LEMMA InitMetaInv == Init => MetaInv
BY DEF Init, MetaInv, BeforeLoad

LEMMA NextMetaInv == TypeInv /\ MetaInv /\ [Next]_vars => MetaInv'
<1> SUFFICES ASSUME TypeInv, MetaInv, [Next]_vars PROVE MetaInv'
    OBVIOUS
<1> DEFINE SameMetas == \A w \in {0, 1} : disk'[MetaFile(w)] = disk[MetaFile(w)]
<1>1. pc \in Stages => SlotFile(job.slot) \in File /\ job.slot \in Slot
    BY FileFacts DEF TypeInv, JobOK, KeptJournal, Counted, Journal, Stages
<1>2. CASE Enqueue \/ UploadAcknowledged \/ UploadFailed
    BY <1>2, MetaFrame DEF Enqueue, UploadAcknowledged, UploadFailed, BeforeLoad, WritesMeta
<1>3. CASE EnqueueJournal \/ AckJournal \/ RetryJournal
  <2>1. Writes(JournalFile, job) /\ UNCHANGED ram
      BY <1>3 DEF EnqueueJournal, AckJournal, RetryJournal, WriteTo, Writes
  <2>2. disk \in [File -> Content] /\ bak \in Content /\ job \in Content
      BY <1>3 DEF EnqueueJournal, AckJournal, RetryJournal, TypeInv, FlashTypeOK, BakOK, JobOK,
         Content, Enqueuing, Acking, Retrying
  <2>3. SameMetas
      BY <2>1, <2>2, WriteFacts, FileFacts
  <2>4. pc \notin BeforeLoad /\ pc' \notin BeforeLoad /\ (pc' \in WritesMeta => bak' = None)
      BY <1>3 DEF EnqueueJournal, AckJournal, RetryJournal, WriteTo, Put, WriteFails, RestoreFails,
         BeforeLoad, WritesMeta
  <2> QED
      BY <2>1, <2>3, <2>4, MetaFrame
<1>4. CASE EnqueueData \/ RetryData
  <2>1. Writes(SlotFile(job.slot), rec) /\ UNCHANGED ram /\ pc \in Stages
      BY <1>4 DEF EnqueueData, RetryData, WriteTo, Writes, Stages, Enqueuing, Retrying
  <2>2. disk \in [File -> Content] /\ bak \in Content /\ rec \in Content
      BY <1>4 DEF EnqueueData, RetryData, TypeInv, FlashTypeOK, BakOK, JobOK,
         Content, Enqueuing, Retrying
  <2>3. SameMetas
      BY <1>1, <2>1, <2>2, WriteFacts, FileFacts
  <2>4. pc \notin BeforeLoad /\ pc' \notin BeforeLoad /\ (pc' \in WritesMeta => bak' = None)
      BY <1>4 DEF EnqueueData, RetryData, WriteTo, Put, WriteFails, RestoreFails, BeforeLoad,
         WritesMeta
  <2> QED
      BY <2>1, <2>3, <2>4, MetaFrame
<1>5. CASE EnqueueMeta \/ AckMeta \/ RebuildMeta
    BY <1>5, MetaPersisted DEF EnqueueMeta, AckMeta, RebuildMeta, WritesMeta
<1>6. CASE \/ EnqueueAbort \/ EnqueueClear \/ AckClear \/ RetryClear \/ RecoverClear \/ BootClear
  <2>1. RemoveFile(JournalFile) /\ UNCHANGED ram
      BY <1>6 DEF EnqueueAbort, EnqueueClear, AckClear, RetryClear, RecoverClear, BootClear
  <2>2. SameMetas
      BY <2>1, FileRemoved, FileFacts DEF TypeInv
  <2>3. pc' \in BeforeLoad \/ (pc \notin BeforeLoad /\ pc' \notin WritesMeta)
      BY <1>6 DEF EnqueueAbort, EnqueueClear, AckClear, RetryClear, RecoverClear, BootClear,
         BeforeLoad, WritesMeta
  <2> QED
      BY <2>1, <2>2, <2>3, MetaFrame
<1>7. CASE AckRemove \/ RecoverRemove
  <2>1. RemoveFile(SlotFile(job.slot)) /\ UNCHANGED ram /\ pc \in Stages
      BY <1>7 DEF AckRemove, RecoverRemove, Stages, Acking, Recovering
  <2>2. SameMetas
      BY <1>1, <2>1, FileRemoved, FileFacts DEF TypeInv
  <2>3. pc' \in BeforeLoad \/ (pc \notin BeforeLoad /\ pc' \notin WritesMeta)
      BY <1>7 DEF AckRemove, RecoverRemove, BeforeLoad, WritesMeta
  <2> QED
      BY <2>1, <2>2, <2>3, MetaFrame
<1>8. CASE PowerLoss \/ PowerOn \/ MountFails \/ RefusedUnmounted \/ RecoverJournal
    BY <1>8 DEF PowerLoss, PowerOn, MountFails, RefusedUnmounted, RecoverJournal, MetaInv,
       BeforeLoad
<1>9. CASE RecoverMeta
  <2>1. pc' \in {"recover-meta", "recover-remove", "recover-clear"}
      BY <1>9 DEF RecoverMeta, PersistMetaDual
  <2> QED
      BY <2>1 DEF MetaInv, BeforeLoad
<1>10. CASE LoadMetaDual
  <2> DEFINE l == LoadedMeta
  <2>1. /\ l.which \in {0, 1} /\ l.meta = disk[MetaFile(l.which)] /\ l.meta # None
        /\ l.which = 0 => disk[MetaFile(1)] = None
                          \/ disk[MetaFile(0)].gen >= disk[MetaFile(1)].gen
        /\ l.which = 1 => disk[MetaFile(0)] = None
                          \/ ~(disk[MetaFile(0)].gen >= disk[MetaFile(1)].gen)
      BY <1>10 DEF LoadMetaDual, LoadedMeta
  <2>2. /\ ram' = [head |-> l.meta.head, tail |-> l.meta.tail, count |-> l.meta.count,
                   nextSequence |-> l.meta.nextSequence,
                   metaGen |-> l.meta.gen, metaActive |-> l.which]
        /\ UNCHANGED disk /\ pc' = "boot-clear"
      BY <1>10 DEF LoadMetaDual
  <2> HIDE DEF l
  <2>3. l.meta \in KeptMeta
      BY <2>1 DEF TypeInv, FlashTypeOK
  <2>4. l.meta = [gen |-> l.meta.gen, head |-> l.meta.head, tail |-> l.meta.tail,
                  count |-> l.meta.count, nextSequence |-> l.meta.nextSequence]
      BY <2>3 DEF KeptMeta, Counted, Meta
  <2>5. /\ RamMeta' = l.meta /\ ram'.metaActive = l.which /\ ram'.metaGen = l.meta.gen
        /\ disk'[MetaFile(l.which)] = RamMeta'
      BY <2>1, <2>2, <2>4 DEF RamMeta
  <2>6. Older(disk'[MetaFile(1 - l.which)], ram')
    <3>1. CASE l.which = 0
        BY <2>1, <2>2, <2>5, <3>1, MetaTypes DEF Older
    <3>2. CASE l.which = 1
        BY <2>1, <2>2, <2>5, <3>2, MetaTypes DEF Older
    <3> QED
        BY <2>1, <3>1, <3>2
  <2> QED
      BY <2>2, <2>5, <2>6 DEF MetaInv, WritesMeta, Older
<1>11. CASE RebuildMetaFromSlots
  <2>1. /\ disk[MetaFile(0)] = None /\ disk[MetaFile(1)] = None /\ UNCHANGED <<disk, bak>>
        /\ pc = "load"
      BY <1>11 DEF RebuildMetaFromSlots, LoadedMeta
  <2>2. bak = None
      BY <2>1 DEF TypeInv, BakOK, WritesJournal, WritesSlot, WritesMeta
  <2> QED
      BY <2>1, <2>2 DEF MetaInv
<1>12. CASE UNCHANGED vars
    BY <1>12 DEF vars, MetaInv, RamMeta, Older
<1> QED
    BY <1>2, <1>3, <1>4, <1>5, <1>6, <1>7, <1>8, <1>9, <1>10, <1>11, <1>12
    DEF Next, Measure, Upload, Begin

\* Between calls the buffer that loadMetaDual() would choose is the live one and
\* holds the cursors in RAM, however often power is lost and whatever write or
\* removal fails: persistMetaDual() writes the buffer that is not live, with a
\* higher generation, and moves the cursors only when the file is in place
\* (persistent_queue.h:243-330).  What recoverJournal() would do first with a
\* journal left behind is no part of it.
THEOREM LoadedMetaIsLive == Spec => []LoadPicksLiveMeta
<1>1. TypeInv /\ MetaInv => LoadPicksLiveMeta
  <2> SUFFICES ASSUME TypeInv, MetaInv, pc = "idle", LoadedMeta.meta # None
               PROVE  LoadedMeta.which = ram.metaActive /\ LoadedMeta.meta = RamMeta
      BY DEF LoadPicksLiveMeta, RamMeta
  <2>1. /\ disk[MetaFile(ram.metaActive)] = RamMeta
        /\ Older(disk[MetaFile(1 - ram.metaActive)], ram)
      BY DEF MetaInv, BeforeLoad, LoadedMeta
  <2>2. CASE ram.metaActive = 0
      BY <2>1, <2>2, MetaTypes DEF LoadedMeta, Older
  <2>3. CASE ram.metaActive = 1
      BY <2>1, <2>3, MetaTypes DEF LoadedMeta, Older
  <2> QED
      BY <2>2, <2>3, MetaTypes
<1> QED
    BY <1>1, InitTypeInv, NextTypeInv, InitMetaInv, NextMetaInv, PTL DEF Spec

-----------------------------------------------------------------------------
(* Positions on the ring.                                                  *)

LEMMA RingIsRemainder ==
    ASSUME NEW h \in Slot, NEW k \in 0..QUEUE_MAX_RECORDS
    PROVE  (h + k) % QUEUE_MAX_RECORDS = Ring(h, k)
BY QueueAssumption DEF Slot, Ring

LEMMA RingFacts ==
    ASSUME NEW h \in Slot, NEW k \in 0..QUEUE_MAX_RECORDS
    PROVE  /\ Ring(h, k) \in Slot
           /\ k < QUEUE_MAX_RECORDS => Offset(h, Ring(h, k)) = k
           /\ Ring(h, 0) = h /\ Offset(h, h) = 0
BY QueueAssumption DEF Slot, Ring, Offset

LEMMA OffsetFacts ==
    ASSUME NEW h \in Slot, NEW i \in Slot
    PROVE  Offset(h, i) \in 0..(QUEUE_MAX_RECORDS - 1) /\ Ring(h, Offset(h, i)) = i
BY QueueAssumption DEF Slot, Ring, Offset

LEMMA AfterIs ==
    ASSUME NEW i \in Slot
    PROVE  After(i) \in Slot /\ After(i) = IF i + 1 = QUEUE_MAX_RECORDS THEN 0 ELSE i + 1
BY QueueAssumption DEF Slot, After

\* The window grows by the position of its tail, ...
LEMMA WindowGrows ==
    ASSUME NEW h \in Slot, NEW c \in 0..(QUEUE_MAX_RECORDS - 1)
    PROVE  /\ After(Ring(h, c)) = Ring(h, c + 1)
           /\ \A i \in Slot : Offset(h, i) < c + 1 <=> Offset(h, i) < c \/ i = Ring(h, c)
BY QueueAssumption, AfterIs, RingFacts DEF Slot, Ring, Offset

\* ... and shrinks by its head.
LEMMA WindowShrinks ==
    ASSUME NEW h \in Slot, NEW c \in 1..QUEUE_MAX_RECORDS
    PROVE  /\ Ring(After(h), c - 1) = Ring(h, c)
           /\ \A i \in Slot : Offset(After(h), i) < c - 1 <=> Offset(h, i) < c /\ i # h
BY QueueAssumption, AfterIs DEF Slot, Ring, Offset

-----------------------------------------------------------------------------
(* Until power is first lost: what a step does to the slots.               *)

SameSlots == \A i \in Slot : disk'[SlotFile(i)] = disk[SlotFile(i)]

LEMMA JournalWrite ==
    ASSUME TypeInv, Writes(JournalFile, job), pc \in WritesJournal
    PROVE  SameSlots
<1>1. disk \in [File -> Content] /\ bak \in Content /\ job \in Content
    BY DEF TypeInv, FlashTypeOK, BakOK, JobOK, Content, WritesJournal, Enqueuing, Acking, Retrying
<1> QED
    BY <1>1, WriteFacts, FileFacts DEF SameSlots

LEMMA JournalRemove == ASSUME TypeInv, RemoveFile(JournalFile) PROVE SameSlots
BY FileRemoved, FileFacts DEF TypeInv, SameSlots

LEMMA MetaWrite ==
    ASSUME TypeInv, pc \in WritesMeta, NEW ok, NEW failed, PersistMetaDual(ok, failed)
    PROVE  SameSlots /\ disk'[JournalFile] = disk[JournalFile]
<1>1. /\ Writes(MetaFile(Target), NewMeta) /\ NewMeta \in Content /\ bak \in Content
      /\ disk \in [File -> Content] /\ Target \in {0, 1}
    BY MetaStep DEF Content, TypeInv, BakOK, FlashTypeOK
<1> QED
    BY <1>1, WriteFacts, FileFacts DEF SameSlots

LEMMA SlotWrite ==
    ASSUME TypeInv, Writes(SlotFile(job.slot), rec), pc \in WritesSlot
    PROVE  /\ job.slot \in Slot /\ rec \in Record
           /\ \A i \in Slot : i # job.slot => disk'[SlotFile(i)] = disk[SlotFile(i)]
           /\ \/ disk'[SlotFile(job.slot)] = rec /\ bak' = None
              \/ /\ disk[SlotFile(job.slot)] # None /\ disk'[SlotFile(job.slot)] = None
                 /\ bak' = disk[SlotFile(job.slot)]
              \/ /\ disk'[SlotFile(job.slot)] = (IF bak # None THEN bak ELSE disk[SlotFile(job.slot)])
                 /\ bak' = None
              \/ RestoreFails(SlotFile(job.slot))
<1>1. disk \in [File -> Content] /\ bak \in Content /\ rec \in Content /\ rec \in Record
    BY DEF TypeInv, FlashTypeOK, BakOK, JobOK, Content, WritesSlot, Enqueuing, Retrying
<1>2. job.slot \in Slot
    BY DEF TypeInv, JobOK, WritesSlot, Enqueuing, Retrying, KeptJournal, Counted, Journal
<1>3. SlotFile(job.slot) \in File /\ \A i \in Slot : i # job.slot => SlotFile(i) # SlotFile(job.slot)
    BY <1>2, FileFacts
<1> QED
    BY <1>1, <1>2, <1>3, WriteFacts, FileFacts

LEMMA CursorFacts ==
    ASSUME TypeInv
    PROVE  /\ ram.head \in Slot /\ ram.head \in Nat /\ ram.tail \in Slot
           /\ ram.count \in 0..QUEUE_MAX_RECORDS /\ ram.nextSequence \in Nat
           /\ QUEUE_MAX_RECORDS \in Nat \ {0}
BY QueueAssumption DEF TypeInv, RamTypeOK, Slot

\* The tail of a ring that is not full is outside the window, the head of one
\* that is not empty inside it.
LEMMA EndsOfWindow ==
    ASSUME TypeInv, WindowHeld
    PROVE  /\ ram.count < QUEUE_MAX_RECORDS => ~In(ram.tail)
           /\ ram.count > 0 => In(ram.head)
BY CursorFacts, RingFacts DEF WindowHeld, In

HeldKept == \A i \in Slot : In(i) => Held(i)' = Held(i)

\* The window is held as long as no step changes what its positions hold.
LEMMA WindowFrame ==
    ASSUME TypeInv, WindowHeld, UNCHANGED ram,
           HeldKept,
           accepted' \ stored' \subseteq accepted \ stored
    PROVE  WindowHeld'
<1>1. /\ ram'.head = ram.head /\ ram'.tail = ram.tail /\ ram'.count = ram.count
      /\ ram'.nextSequence = ram.nextSequence
    OBVIOUS
<1>2. \A i \in Slot : In(i)' <=> In(i)
    BY <1>1 DEF In, Offset
<1>3. \A i \in Slot : In(i)' => /\ Held(i)' \in Record
                                /\ Held(i)'.sequenceNumber \in 1..(ram'.nextSequence - 1)
    BY <1>1, <1>2 DEF WindowHeld, HeldKept
<1>4. \A m \in accepted' \ stored' : \E i \in Slot : In(i)' /\ Held(i)'.measurement = m
    BY <1>2 DEF WindowHeld, HeldKept
<1> QED
    BY <1>1, <1>3, <1>4 DEF WindowHeld, Ring

-----------------------------------------------------------------------------
(* Until power is first lost: every step of a call keeps the window.       *)

Window == ~Booting /\ WindowHeld /\ StageInv

\* Where the record of a position is, but in the middle of the retry rewrite.
LEMMA HeldIsDisk ==
    ASSUME TypeInv, pc # "retry-data" \/ bak = None
    PROVE  \A i \in Slot : Held(i) = disk[SlotFile(i)]
BY DEF Held

LEMMA EnqueueKeeps == ASSUME TypeInv, Window, Enqueue PROVE Window' /\ HeldKept
<1>1. /\ pc = "idle" /\ pc' = "enqueue-journal" /\ UNCHANGED <<disk, bak, ram, accepted, stored>>
      /\ ram.count < QUEUE_MAX_RECORDS
    BY DEF Enqueue
<1>2. \A i \in Slot : Held(i)' = Held(i)
    BY <1>1 DEF Held
<1>3. WindowHeld'
    BY <1>1, <1>2, WindowFrame DEF Window, HeldKept
<1>4. EnqueueAhead'
    BY DEF Enqueue, EnqueueAhead, After
<1> QED
    BY <1>1, <1>2, <1>3, <1>4 DEF HeldKept, Window, Booting, StageInv, Retrying

LEMMA UploadKeeps == ASSUME TypeInv, Window, UploadAcknowledged \/ UploadFailed PROVE Window' /\ HeldKept
<1>1. /\ pc = "idle" /\ pc' \in {"ack-journal", "retry-journal"}
      /\ UNCHANGED <<disk, bak, ram, accepted>> /\ Peek # None /\ rec' = Peek
      /\ stored \subseteq stored'
      /\ job' = HeadJob(IF pc' = "ack-journal" THEN "ack" ELSE "retry")
      /\ pc' = "ack-journal" => rec'.measurement \in stored'
    BY DEF UploadAcknowledged, UploadFailed
<1>2. \A i \in Slot : Held(i)' = Held(i) /\ Held(i) = disk[SlotFile(i)]
    BY <1>1 DEF Held
<1>3. WindowHeld'
    BY <1>1, <1>2, WindowFrame DEF Window, HeldKept
<1>4. Peek = Held(ram.head) /\ ram.count > 0 /\ ram.head \in Slot
    BY <1>1, <1>2, PeekFacts, CursorFacts
<1>5. HeadInHand' /\ job'.slot = ram.head
    BY <1>1, <1>2, <1>4 DEF HeadInHand, HeadJob
<1>6. pc' = "ack-journal" => /\ job'.head = After(ram.head) /\ job'.tail = ram.tail
                             /\ job'.count = ram.count - 1 /\ job'.nextSequence = ram.nextSequence
    BY <1>1 DEF HeadJob
<1> QED
    BY <1>1, <1>2, <1>3, <1>5, <1>6 DEF HeldKept, Window, Booting, StageInv, Enqueuing, Retrying, After

LEMMA JournalKeeps ==
    ASSUME TypeInv, Window, EnqueueJournal \/ AckJournal \/ RetryJournal
    PROVE  Window' /\ HeldKept
<1>1. /\ pc \in WritesJournal /\ Writes(JournalFile, job)
      /\ UNCHANGED <<ram, job, rec, accepted, stored>>
      /\ pc' = pc \/ bak' = None
    BY DEF EnqueueJournal, AckJournal, RetryJournal, WriteTo, Writes, WritesJournal, historyVars,
       Put, WriteFails, RestoreFails
<1>2. SameSlots
    BY <1>1, JournalWrite
<1>3. \A i \in Slot : Held(i)' = Held(i)
    BY <1>1, <1>2 DEF Held, SameSlots, WritesJournal
<1>4. WindowHeld'
    BY <1>1, <1>3, WindowFrame DEF Window, HeldKept
<1>5. CASE EnqueueJournal
  <2>1. pc = "enqueue-journal" /\ pc' \in {"enqueue-journal", "enqueue-data", "idle"}
      BY <1>5 DEF EnqueueJournal, WriteTo
  <2>2. EnqueueAhead'
      BY <1>1, <2>1 DEF Window, StageInv, Enqueuing, EnqueueAhead
  <2> QED
      BY <1>3, <1>4, <2>1, <2>2 DEF HeldKept, Window, Booting, StageInv, Retrying
<1>6. CASE AckJournal
  <2>1. pc = "ack-journal" /\ pc' \in {"ack-journal", "ack-meta", "idle"}
      BY <1>6 DEF AckJournal, WriteTo
  <2>2. HeadInHand
      BY <2>1 DEF Window, StageInv
  <2>3. HeadInHand'
      BY <1>1, <1>3, <2>2, CursorFacts DEF HeadInHand
  <2> QED
      BY <1>1, <1>3, <1>4, <2>1, <2>3 DEF HeldKept, Window, Booting, StageInv, Retrying, Enqueuing
<1>7. CASE RetryJournal
  <2>1. /\ pc = "retry-journal" /\ pc' \in {"retry-journal", "retry-data"}
        /\ pc' = "retry-data" => bak' = None
      BY <1>7 DEF RetryJournal, WriteTo, Put, WriteFails, RestoreFails
  <2>2. HeadInHand
      BY <2>1 DEF Window, StageInv, Retrying
  <2>3. HeadInHand'
      BY <1>1, <1>3, <2>2, CursorFacts DEF HeadInHand
  <2>4. disk[SlotFile(job.slot)] # None
    <3>1. In(ram.head) /\ ram.head \in Slot /\ job.slot = ram.head
        BY <2>2, EndsOfWindow, CursorFacts DEF Window, HeadInHand
    <3>2. Held(ram.head) \in Record /\ Held(ram.head) = disk[SlotFile(ram.head)]
        BY <2>1, <3>1, HeldIsDisk DEF Window, WindowHeld
    <3> QED
        BY <3>1, <3>2, NoneFacts
  <2>5. disk'[SlotFile(job.slot)] # None
    <3>1. job.slot \in Slot
        BY <2>2, CursorFacts DEF HeadInHand
    <3> QED
        BY <1>2, <2>4, <3>1 DEF SameSlots
  <2> QED
      BY <1>1, <1>3, <1>4, <2>1, <2>3, <2>5 DEF HeldKept, Window, Booting, StageInv, Enqueuing
<1> QED
    BY <1>5, <1>6, <1>7

LEMMA EnqueueDataKeeps == ASSUME TypeInv, Window, EnqueueData PROVE Window' /\ HeldKept
<1>1. /\ pc = "enqueue-data" /\ Writes(SlotFile(job.slot), rec)
      /\ UNCHANGED <<ram, job, rec, accepted, stored>>
      /\ pc' \in {"enqueue-data", "enqueue-meta", "enqueue-abort"}
      /\ pc' = "enqueue-meta" => Put(SlotFile(job.slot), rec)
    BY DEF EnqueueData, WriteTo, Writes, historyVars
<1>2. EnqueueAhead
    BY <1>1 DEF Window, StageInv, Enqueuing
<1>3. ~In(job.slot) /\ job.slot \in Slot
    BY <1>2, EndsOfWindow, CursorFacts DEF Window, EnqueueAhead
<1>4. \A i \in Slot : i # job.slot => disk'[SlotFile(i)] = disk[SlotFile(i)]
    BY <1>1, SlotWrite DEF WritesSlot
<1>5. \A i \in Slot : In(i) => Held(i)' = Held(i)
    BY <1>1, <1>3, <1>4 DEF Held
<1>6. WindowHeld'
    BY <1>1, <1>5, WindowFrame DEF Window, HeldKept
<1>7. pc' = "enqueue-meta" => disk'[SlotFile(job.slot)] = rec
  <2>1. SlotFile(job.slot) \in File /\ disk \in [File -> Content]
      BY <1>3, FileFacts DEF TypeInv, FlashTypeOK
  <2> QED
      BY <1>1, <2>1 DEF Put
<1>8. EnqueueAhead'
    BY <1>1, <1>2 DEF EnqueueAhead
<1> QED
    BY <1>1, <1>5, <1>6, <1>7, <1>8 DEF HeldKept, Window, Booting, StageInv, Retrying

LEMMA RemovalKeeps ==
    ASSUME TypeInv, Window, EnqueueAbort \/ AckClear \/ RetryClear \/ AckRemove
    PROVE  Window' /\ HeldKept
<1>1. /\ UNCHANGED <<bak, ram, job, rec, accepted, stored>> /\ pc' \in {"idle", "ack-clear"}
      /\ pc \notin {"retry-data", "idle"}
    BY DEF EnqueueAbort, AckClear, RetryClear, AckRemove, historyVars
<1>2. \A i \in Slot : In(i) => disk'[SlotFile(i)] = disk[SlotFile(i)]
  <2>1. CASE EnqueueAbort \/ AckClear \/ RetryClear
      BY <2>1, JournalRemove DEF EnqueueAbort, AckClear, RetryClear, SameSlots
  <2>2. CASE AckRemove
    <3>1. pc = "ack-remove" /\ RemoveFile(SlotFile(job.slot)) /\ ~In(job.slot)
        BY <2>2 DEF AckRemove, Window, StageInv
    <3>2. job.slot \in Slot
        BY <3>1 DEF TypeInv, JobOK, Acking, KeptJournal, Counted, Journal
    <3>3. \A i \in Slot : i # job.slot => SlotFile(i) \in File \ {SlotFile(job.slot)}
        BY <3>2, FileFacts
    <3> QED
        BY <3>1, <3>2, <3>3, FileRemoved, FileFacts DEF TypeInv
  <2> QED
      BY <2>1, <2>2
<1>3. \A i \in Slot : In(i) => Held(i)' = Held(i)
    BY <1>1, <1>2 DEF Held
<1>4. WindowHeld'
    BY <1>1, <1>3, WindowFrame DEF Window, HeldKept
<1> QED
    BY <1>1, <1>3, <1>4 DEF HeldKept, Window, Booting, StageInv, Enqueuing, Retrying

LEMMA EnqueueClearKeeps == ASSUME TypeInv, Window, EnqueueClear PROVE Window' /\ HeldKept
<1>1. /\ pc = "enqueue-clear" /\ pc' = "idle" /\ UNCHANGED <<bak, ram, job, rec, stored>>
      /\ RemoveFile(JournalFile) /\ accepted' = accepted \cup {rec.measurement}
    BY DEF EnqueueClear
<1>2. \A i \in Slot : Held(i)' = Held(i)
    BY <1>1, JournalRemove DEF Held, SameSlots
<1>3. In(job.slot) /\ Held(job.slot) = rec /\ job.slot \in Slot
    BY <1>1 DEF Window, StageInv, TypeInv, JobOK, Enqueuing, KeptJournal, Counted, Journal
<1>4. \A i \in Slot : In(i)' <=> In(i)
    BY <1>1 DEF In, Offset
<1>5. \A m \in accepted' \ stored' : \E i \in Slot : In(i)' /\ Held(i)'.measurement = m
  <2> SUFFICES ASSUME NEW m \in accepted' \ stored'
               PROVE  \E i \in Slot : In(i)' /\ Held(i)'.measurement = m
      OBVIOUS
  <2>1. CASE m \in accepted
    <3>1. PICK i \in Slot : In(i) /\ Held(i).measurement = m
        BY <1>1, <2>1 DEF Window, WindowHeld
    <3> QED
        BY <1>2, <1>4, <3>1
  <2>2. CASE m = rec.measurement
      BY <1>2, <1>3, <1>4, <2>2
  <2> QED
      BY <1>1, <2>1, <2>2
<1>6. WindowHeld'
    BY <1>1, <1>2, <1>4, <1>5 DEF Window, WindowHeld, Ring
<1> QED
    BY <1>1, <1>2, <1>6 DEF HeldKept, Window, Booting, StageInv, Enqueuing, Retrying

\* What the commits do: the meta is adopted, or nothing of the ring changes.
LEMMA CommitFacts ==
    ASSUME TypeInv, Window, EnqueueMeta \/ AckMeta
    PROVE  /\ SameSlots /\ UNCHANGED <<job, rec, accepted, stored>>
           /\ \A i \in Slot : Held(i) = disk[SlotFile(i)] /\ Held(i)' = Held(i)
           /\ \/ /\ pc' = (IF EnqueueMeta THEN "enqueue-clear" ELSE "ack-remove")
                 /\ ram'.head = job.head /\ ram'.tail = job.tail /\ ram'.count = job.count
                 /\ ram'.nextSequence = job.nextSequence
              \/ UNCHANGED ram /\ pc' \in {pc, "idle"}
<1>1. /\ pc = (IF EnqueueMeta THEN "enqueue-meta" ELSE "ack-meta")
      /\ PersistMetaDual(IF EnqueueMeta THEN "enqueue-clear" ELSE "ack-remove", "idle")
      /\ UNCHANGED <<accepted, stored>>
    BY DEF EnqueueMeta, AckMeta, historyVars
<1>2. pc \in WritesMeta
    BY <1>1 DEF WritesMeta
<1>3. /\ UNCHANGED <<job, rec>>
      /\ \/ /\ pc' = (IF EnqueueMeta THEN "enqueue-clear" ELSE "ack-remove")
            /\ ram' = [head |-> job.head, tail |-> job.tail, count |-> job.count,
                       nextSequence |-> job.nextSequence,
                       metaGen |-> ram.metaGen + 1, metaActive |-> Target]
         \/ UNCHANGED ram /\ pc' \in {pc, "idle"}
    BY <1>1, <1>2, MetaStep
<1>4. SameSlots
    BY <1>1, <1>2, MetaWrite
<1>5. pc' # "retry-data" /\ pc # "retry-data"
    BY <1>1, <1>3
<1> QED
    BY <1>1, <1>3, <1>4, <1>5 DEF Held, SameSlots

LEMMA EnqueueMetaKeeps == ASSUME TypeInv, Window, EnqueueMeta PROVE Window'
<1>1. pc = "enqueue-meta" /\ EnqueueAhead /\ disk[SlotFile(job.slot)] = rec
    BY DEF EnqueueMeta, Window, StageInv, Enqueuing
<1>2. CASE UNCHANGED ram /\ pc' \in {pc, "idle"}
  <2>1. WindowHeld'
      BY <1>2, CommitFacts, WindowFrame DEF Window, HeldKept
  <2>2. EnqueueAhead' /\ disk'[SlotFile(job.slot)] = rec
    <3>1. job.slot \in Slot
        BY <1>1, CursorFacts DEF EnqueueAhead
    <3> QED
        BY <1>1, <1>2, <3>1, CommitFacts DEF EnqueueAhead, SameSlots
  <2> QED
      BY <1>1, <1>2, <2>1, <2>2, CommitFacts DEF Window, Booting, StageInv, Retrying
<1>3. CASE /\ pc' = "enqueue-clear"
           /\ ram'.head = job.head /\ ram'.tail = job.tail /\ ram'.count = job.count
           /\ ram'.nextSequence = job.nextSequence
  <2>1. /\ ram.tail = Ring(ram.head, ram.count) /\ ram.count \in 0..(QUEUE_MAX_RECORDS - 1)
        /\ job.slot = ram.tail /\ job.slot \in Slot /\ job.tail = After(ram.tail)
        /\ job.head = ram.head /\ job.count = ram.count + 1
        /\ job.nextSequence = ram.nextSequence + 1 /\ rec.sequenceNumber = ram.nextSequence
        /\ ram.nextSequence \in Nat \ {0}
      BY <1>1, CursorFacts DEF Window, WindowHeld, EnqueueAhead
  <2>2. /\ After(Ring(ram.head, ram.count)) = Ring(ram.head, ram.count + 1)
        /\ \A i \in Slot : Offset(ram.head, i) < ram.count + 1
                             <=> Offset(ram.head, i) < ram.count \/ i = Ring(ram.head, ram.count)
      BY <2>1, CursorFacts, WindowGrows
  <2>3. \A i \in Slot : In(i)' <=> In(i) \/ i = job.slot
      BY <1>3, <2>1, <2>2 DEF In, Offset
  <2>4. ram'.tail = Ring(ram'.head, ram'.count) /\ ram'.nextSequence > 0
      BY <1>3, <2>1, <2>2
  <2>5. \A i \in Slot : Held(i)' = Held(i)
      BY CommitFacts
  <2>6. Held(job.slot) = rec /\ rec \in Record
      BY <1>1, <2>1, CommitFacts DEF TypeInv, JobOK, Enqueuing
  <2>7. ASSUME NEW i \in Slot, In(i)'
        PROVE  Held(i)' \in Record /\ Held(i)'.sequenceNumber \in 1..(ram'.nextSequence - 1)
    <3>1. CASE i = job.slot
        BY <1>3, <2>1, <2>5, <2>6, <3>1
    <3>2. CASE In(i)
      <4>1. Held(i) \in Record /\ Held(i).sequenceNumber \in 1..(ram.nextSequence - 1)
          BY <3>2 DEF Window, WindowHeld
      <4> QED
          BY <1>3, <2>1, <2>5, <4>1
    <3> QED
        BY <2>3, <2>7, <3>1, <3>2
  <2>8. \A m \in accepted' \ stored' : \E i \in Slot : In(i)' /\ Held(i)'.measurement = m
      BY <2>3, <2>5, CommitFacts DEF Window, WindowHeld
  <2>9. WindowHeld'
      BY <2>4, <2>7, <2>8 DEF WindowHeld, Ring
  <2>10. In(job.slot)' /\ Held(job.slot)' = rec'
    <3>1. job' = job /\ rec' = rec
        BY CommitFacts
    <3>2. Held(job.slot)' = Held(job.slot)
        BY <1>1, <1>3, <2>1, <3>1, CommitFacts DEF Held, SameSlots
    <3>3. In(job.slot)'
        BY <1>3, <2>1, <2>2, <3>1 DEF In, Offset
    <3> QED
        BY <2>6, <3>1, <3>2, <3>3
  <2> QED
      BY <1>3, <2>9, <2>10 DEF Window, Booting, StageInv, Enqueuing, Retrying
<1> QED
    BY <1>2, <1>3, CommitFacts

LEMMA AckMetaKeeps == ASSUME TypeInv, Window, AckMeta PROVE Window'
<1>1. /\ pc = "ack-meta" /\ HeadInHand /\ rec.measurement \in stored
      /\ job.head = After(ram.head) /\ job.tail = ram.tail
      /\ job.count = ram.count - 1 /\ job.nextSequence = ram.nextSequence
    BY DEF AckMeta, Window, StageInv
<1>2. ~EnqueueMeta
    BY <1>1 DEF EnqueueMeta
<1>3. CASE UNCHANGED ram /\ pc' \in {pc, "idle"}
  <2>1. WindowHeld'
      BY <1>3, CommitFacts, WindowFrame DEF Window, HeldKept
  <2>2. HeadInHand'
      BY <1>1, <1>3, CommitFacts, CursorFacts DEF HeadInHand
  <2> QED
      BY <1>1, <1>3, <2>1, <2>2, CommitFacts DEF Window, Booting, StageInv, Enqueuing, Retrying, After
<1>4. CASE /\ pc' = "ack-remove"
           /\ ram'.head = job.head /\ ram'.tail = job.tail /\ ram'.count = job.count
           /\ ram'.nextSequence = job.nextSequence
  <2>1. /\ ram.tail = Ring(ram.head, ram.count) /\ ram.count \in 1..QUEUE_MAX_RECORDS
        /\ job.slot = ram.head /\ ram.head \in Slot /\ rec = Held(ram.head)
      BY <1>1, CursorFacts DEF Window, WindowHeld, HeadInHand
  <2>2. /\ Ring(After(ram.head), ram.count - 1) = Ring(ram.head, ram.count)
        /\ \A i \in Slot : Offset(After(ram.head), i) < ram.count - 1
                             <=> Offset(ram.head, i) < ram.count /\ i # ram.head
      BY <2>1, WindowShrinks
  <2>3. \A i \in Slot : In(i)' <=> In(i) /\ i # ram.head
      BY <1>1, <1>4, <2>2 DEF In, Offset
  <2>4. ram'.tail = Ring(ram'.head, ram'.count) /\ ram'.nextSequence = ram.nextSequence
      BY <1>1, <1>4, <2>1, <2>2
  <2>5. \A i \in Slot : Held(i)' = Held(i)
      BY CommitFacts
  <2>6. \A m \in accepted' \ stored' : \E i \in Slot : In(i)' /\ Held(i)'.measurement = m
    <3> SUFFICES ASSUME NEW m \in accepted' \ stored'
                 PROVE  \E i \in Slot : In(i)' /\ Held(i)'.measurement = m
        OBVIOUS
    <3>1. m \in accepted \ stored
        BY CommitFacts
    <3>2. PICK i \in Slot : In(i) /\ Held(i).measurement = m
        BY <3>1 DEF Window, WindowHeld
    <3>3. i # ram.head
        BY <1>1, <2>1, <3>1, <3>2
    <3> QED
        BY <2>3, <2>5, <3>2, <3>3
  <2>7. \A i \in Slot : In(i)' => /\ Held(i)' \in Record
                                  /\ Held(i)'.sequenceNumber \in 1..(ram'.nextSequence - 1)
      BY <2>3, <2>4, <2>5 DEF Window, WindowHeld
  <2>8. WindowHeld'
      BY <2>4, <2>6, <2>7 DEF Window, WindowHeld, Ring
  <2>9. ~In(job.slot)'
    <3>1. job' = job
        BY CommitFacts
    <3> QED
        BY <1>1, <1>4, <2>1, <2>2, <3>1 DEF In, Offset
  <2> QED
      BY <1>4, <2>8, <2>9 DEF Window, Booting, StageInv, Enqueuing, Retrying
<1> QED
    BY <1>2, <1>3, <1>4, CommitFacts

\* The retry rewrite: the head is in its slot file or in the .bak file.
LEMMA RetryDataKeeps == ASSUME TypeInv, Window, RetryData, ~headLost' PROVE Window' /\ HeldKept
<1>1. /\ pc = "retry-data" /\ Writes(SlotFile(job.slot), rec)
      /\ UNCHANGED <<ram, job, rec, accepted, stored>>
      /\ \/ pc' = "retry-clear" /\ bak' = None
         \/ pc' = "retry-data" /\ MoveAside(SlotFile(job.slot))
      /\ ~RestoreFails(SlotFile(job.slot))
    BY DEF RetryData, WriteTo, Writes, Put, WriteFails, RestoreFails
<1>2. /\ ram.count > 0 /\ job.slot = ram.head /\ rec = Held(ram.head) /\ ram.head \in Slot
      /\ disk[SlotFile(job.slot)] = None <=> bak # None
    BY <1>1, CursorFacts DEF Window, StageInv, HeadInHand, Retrying
<1>3. /\ job.slot \in Slot /\ rec \in Record
      /\ \A i \in Slot : i # job.slot => disk'[SlotFile(i)] = disk[SlotFile(i)]
      /\ \/ disk'[SlotFile(job.slot)] = rec /\ bak' = None
         \/ /\ disk[SlotFile(job.slot)] # None /\ disk'[SlotFile(job.slot)] = None
            /\ bak' = disk[SlotFile(job.slot)]
         \/ /\ disk'[SlotFile(job.slot)] = (IF bak # None THEN bak ELSE disk[SlotFile(job.slot)])
            /\ bak' = None
    BY <1>1, SlotWrite DEF WritesSlot
<1>4. rec = (IF bak # None THEN bak ELSE disk[SlotFile(job.slot)])
    BY <1>1, <1>2 DEF Held
<1>5. \/ disk'[SlotFile(job.slot)] = rec /\ bak' = None
      \/ disk'[SlotFile(job.slot)] = None /\ bak' = rec
    BY <1>2, <1>3, <1>4
<1>6. pc' = "retry-clear" => disk'[SlotFile(job.slot)] = rec /\ bak' = None
    BY <1>1, <1>3, <1>5, NoneFacts
<1>7. \A i \in Slot : Held(i)' = Held(i)
  <2> SUFFICES ASSUME NEW i \in Slot PROVE Held(i)' = Held(i)
      OBVIOUS
  <2>1. CASE i = job.slot
    <3>1. Held(i) = rec
        BY <1>2, <2>1
    <3>2. Held(i)' = rec
        BY <1>1, <1>3, <1>5, <1>6, <2>1, NoneFacts DEF Held
    <3> QED
        BY <3>1, <3>2
  <2>2. CASE i # job.slot
      BY <1>1, <1>3, <2>2 DEF Held
  <2> QED
      BY <2>1, <2>2
<1>8. WindowHeld'
    BY <1>1, <1>7, WindowFrame DEF Window, HeldKept
<1>9. HeadInHand'
    BY <1>1, <1>2, <1>7 DEF HeadInHand
<1>10. disk'[SlotFile(job.slot)] = None <=> bak' # None
    BY <1>3, <1>5, NoneFacts
<1> QED
    BY <1>1, <1>7, <1>8, <1>9, <1>10 DEF HeldKept, Window, Booting, StageInv, Enqueuing

-----------------------------------------------------------------------------
(* Until power is first lost: boot and power loss.                         *)

LEMMA WindowIsCopied == ASSUME TypeInv, Window PROVE Copies
<1> SUFFICES ASSUME NEW m \in accepted \ stored
             PROVE  \/ \E i \in Slot : /\ disk[SlotFile(i)] # None
                                       /\ disk[SlotFile(i)].measurement = m
                    \/ bak \in Record /\ bak.measurement = m
    BY DEF Copies
<1>1. PICK i \in Slot : In(i) /\ Held(i).measurement = m
    BY DEF Window, WindowHeld
<1>2. Held(i) \in Record /\ Held(i) \in {bak, disk[SlotFile(i)]}
    BY <1>1 DEF Window, WindowHeld, Held
<1> QED
    BY <1>1, <1>2, NoneFacts

LEMMA PowerLossKeeps ==
    ASSUME TypeInv, FirstBoot \/ Window, PowerLoss
    PROVE  pc' = "off" /\ Copies'
<1>1. pc' = "off" /\ UNCHANGED <<disk, bak, accepted, stored>>
    BY DEF PowerLoss, historyVars
<1>2. Copies
    BY WindowIsCopied DEF FirstBoot, Copies
<1> QED
    BY <1>1, <1>2 DEF Copies

\* begin() on an empty flash comes to an empty ring.
LEMMA FirstBootKeeps ==
    ASSUME TypeInv, FirstBoot, Begin
    PROVE  FirstBoot' \/ Window'
<1>1. UNCHANGED accepted
    BY DEF Begin, MountFails, RefusedUnmounted, RecoverJournal, RecoverMeta, RecoverRemove,
       RecoverClear, LoadMetaDual, RebuildMetaFromSlots, RebuildMeta, BootClear, historyVars
<1>8. CASE MountFails \/ RefusedUnmounted
    BY <1>1, <1>8 DEF MountFails, RefusedUnmounted, FirstBoot
<1>2. CASE RecoverJournal
    BY <1>1, <1>2 DEF RecoverJournal, FirstBoot
<1>3. CASE RecoverMeta \/ RecoverRemove \/ RecoverClear
    BY <1>3 DEF RecoverMeta, RecoverRemove, RecoverClear, FirstBoot
<1>4. CASE LoadMetaDual
    BY <1>4 DEF LoadMetaDual, LoadedMeta, FirstBoot
<1>5. CASE RebuildMetaFromSlots
  <2>1. Rebuilt = [head |-> 0, tail |-> 0, count |-> 0, nextSequence |-> 1]
      BY RebuiltFacts DEF TypeInv, FirstBoot
  <2>2. /\ job' = Rebuilt /\ pc' = "rebuild-meta" /\ UNCHANGED disk
        /\ ram' = [ram EXCEPT !.head = Rebuilt.head, !.tail = Rebuilt.tail,
                              !.count = Rebuilt.count, !.nextSequence = Rebuilt.nextSequence]
      BY <1>5 DEF RebuildMetaFromSlots
  <2>3. /\ ram'.head = 0 /\ ram'.tail = 0 /\ ram'.count = 0 /\ ram'.nextSequence = 1
      BY <2>1, <2>2 DEF TypeInv, RamTypeOK
  <2> QED
      BY <1>1, <2>1, <2>2, <2>3 DEF FirstBoot
<1>6. CASE RebuildMeta
  <2>1. pc = "rebuild-meta" /\ PersistMetaDual("boot-clear", "boot-clear") /\ pc \in WritesMeta
      BY <1>6 DEF RebuildMeta, WritesMeta
  <2>2. job = [head |-> 0, tail |-> 0, count |-> 0, nextSequence |-> 1]
      BY <2>1 DEF FirstBoot
  <2>3. SameSlots /\ disk'[JournalFile] = disk[JournalFile]
      BY <2>1, MetaWrite
  <2>4. /\ pc' \in {"rebuild-meta", "boot-clear"} /\ UNCHANGED job
        /\ \/ UNCHANGED ram
           \/ ram' = [head |-> job.head, tail |-> job.tail, count |-> job.count,
                      nextSequence |-> job.nextSequence,
                      metaGen |-> ram.metaGen + 1, metaActive |-> Target]
      BY <2>1, MetaStep
  <2>5. /\ ram'.head = 0 /\ ram'.tail = 0 /\ ram'.count = 0 /\ ram'.nextSequence = 1
      BY <2>2, <2>4 DEF FirstBoot
  <2> QED
      BY <1>1, <2>2, <2>3, <2>4, <2>5 DEF FirstBoot, SameSlots
<1>7. CASE BootClear
  <2>1. /\ pc' = "idle" /\ UNCHANGED <<bak, ram>>
      BY <1>7 DEF BootClear
  <2>2. ram'.head = 0 /\ ram'.tail = 0 /\ ram'.count = 0 /\ ram'.nextSequence = 1
      BY <2>1 DEF FirstBoot
  <2>3. Ring(0, 0) = 0 /\ \A i \in Slot : ~(Offset(0, i) < 0)
      BY SlotFacts, RingFacts, OffsetFacts, QueueAssumption
  <2>4. ram'.tail = Ring(ram'.head, ram'.count) /\ \A i \in Slot : ~In(i)'
      BY <2>2, <2>3 DEF In, Offset
  <2>5. WindowHeld'
      BY <1>1, <2>2, <2>4 DEF WindowHeld, FirstBoot, Ring
  <2> QED
      BY <2>1, <2>5 DEF Window, Booting, StageInv, Enqueuing, Retrying
<1> QED
    BY <1>2, <1>3, <1>4, <1>5, <1>6, <1>7, <1>8 DEF Begin

LEMMA InitFirstLife == Init => FirstLife
BY FileFacts DEF Init, FirstLife, FirstBoot, ColdRam

LEMMA NextFirstLife == TypeInv /\ FirstLife /\ [Next]_vars => FirstLife'
<1> SUFFICES ASSUME TypeInv, FirstLife, [Next]_vars, boots' = 1, ~headLost'
             PROVE  FirstBoot' \/ (pc' = "off" /\ Copies') \/ Window'
    BY DEF FirstLife, Window
<1>1. CASE UNCHANGED vars
    BY <1>1 DEF vars, FirstLife, FirstBoot, Copies, Booting, WindowHeld, In, Held, StageInv,
       EnqueueAhead, HeadInHand, Window, Ring, Offset
<1>2. CASE PowerOn
    BY <1>2 DEF PowerOn, TypeInv, HistoryTypeOK
<1>3. CASE Measure \/ Upload \/ PowerLoss \/ Begin
  <2>6. ~headLost
    <3>1. CASE RetryData
        BY <3>1, Zenon DEF RetryData
    <3>2. CASE ~RetryData
      <4>1. UNCHANGED headLost
          BY <1>3, <3>2 DEF Measure, Upload, Begin, Enqueue, EnqueueJournal, EnqueueData,
             EnqueueAbort, EnqueueMeta, EnqueueClear, UploadAcknowledged, UploadFailed, AckJournal,
             AckMeta, AckRemove, AckClear, RetryJournal, RetryClear, PowerLoss, MountFails,
             RefusedUnmounted, RecoverJournal, RecoverMeta, RecoverRemove, RecoverClear,
             LoadMetaDual, RebuildMetaFromSlots, RebuildMeta, BootClear, historyVars
      <4> QED
          BY <4>1, Zenon
    <3> QED
        BY <3>1, <3>2
  <2>1. boots = 1 /\ pc # "off"
      BY <1>3 DEF Measure, Upload, Begin, Enqueue, EnqueueJournal, EnqueueData, EnqueueAbort,
         EnqueueMeta, EnqueueClear, UploadAcknowledged, UploadFailed, AckJournal, AckMeta,
         AckRemove, AckClear, RetryJournal, RetryData, RetryClear, PowerLoss, MountFails,
         RefusedUnmounted, RecoverJournal, RecoverMeta, RecoverRemove, RecoverClear, LoadMetaDual, RebuildMetaFromSlots,
         RebuildMeta, BootClear, historyVars
  <2>2. FirstBoot \/ Window
      BY <2>1, <2>6 DEF FirstLife, Window
  <2>3. CASE PowerLoss
      BY <2>2, <2>3, PowerLossKeeps
  <2>4. CASE Measure \/ Upload
    <3>1. Window
        BY <2>2, <2>4 DEF FirstBoot, Measure, Upload, Enqueue, EnqueueJournal, EnqueueData,
           EnqueueAbort, EnqueueMeta, EnqueueClear, UploadAcknowledged, UploadFailed, AckJournal,
           AckMeta, AckRemove, AckClear, RetryJournal, RetryData, RetryClear
    <3> QED
        BY <2>4, <3>1, EnqueueKeeps, JournalKeeps, EnqueueDataKeeps, RemovalKeeps,
           EnqueueMetaKeeps, EnqueueClearKeeps, UploadKeeps, AckMetaKeeps, RetryDataKeeps
        DEF Measure, Upload
  <2>5. CASE Begin
    <3>1. Booting
        BY <2>5 DEF Booting, Begin, MountFails, RefusedUnmounted, RecoverJournal, RecoverMeta, RecoverRemove, RecoverClear,
           LoadMetaDual, RebuildMetaFromSlots, RebuildMeta, BootClear
    <3> QED
        BY <2>2, <2>5, <3>1, FirstBootKeeps DEF Window
  <2> QED
      BY <1>3, <2>3, <2>4, <2>5
<1> QED
    BY <1>1, <1>2, <1>3 DEF Next

\* The inductive invariant of the four theorems about the firmware's queue.
THEOREM PInvariant == Spec => []PInv
BY InitTypeInv, NextTypeInv, InitMetaInv, NextMetaInv, InitFirstLife, NextFirstLife, PTL
DEF Spec, PInv

\* Wherever power is first lost, an accepted measurement the server does not have
\* is in a slot file or in the .bak of the write replacing it: no step deletes the
\* only copy (persistent_queue.h:153-177, the two renames), but for a rewrite of the
\* head that can be neither finished nor undone (169 and 170 both fail).
THEOREM SoleCopySurvives == Spec => []SoleCopyKept
<1>1. PInv => SoleCopyKept
  <2> SUFFICES ASSUME PInv, boots = 1, ~headLost PROVE Copies
      BY DEF SoleCopyKept, Copies
  <2>1. CASE FirstBoot
      BY <2>1 DEF FirstBoot, Copies
  <2>2. CASE Window
      BY <2>2, WindowIsCopied DEF PInv
  <2> QED
      BY <2>1, <2>2 DEF PInv, FirstLife, Window
<1> QED
    BY <1>1, PInvariant, PTL

-----------------------------------------------------------------------------
(* The refinement, until power is first lost.                              *)

AbsRecord(i) == [payload |-> Held(i).measurement, sequenceNumber |-> Held(i).sequenceNumber]

\* What the window holds, as a sequence.
AbsIsWindow ==
    /\ AbsRecords \in Seq(Abs!Record) /\ Len(AbsRecords) = ram.count
    /\ \A k \in 1..ram.count, i \in Slot :
         i = Ring(ram.head, k - 1) => AbsRecords[k] = AbsRecord(i)

LEMMA RingPosition ==
    ASSUME TypeInv, NEW k \in 1..ram.count
    PROVE  /\ (ram.head + k - 1) % QUEUE_MAX_RECORDS = Ring(ram.head, k - 1)
           /\ Ring(ram.head, k - 1) \in Slot /\ In(Ring(ram.head, k - 1))
<1>1. /\ ram.head \in Slot /\ k - 1 \in 0..QUEUE_MAX_RECORDS /\ k - 1 < QUEUE_MAX_RECORDS
      /\ k - 1 < ram.count /\ ram.head + k - 1 = ram.head + (k - 1)
    BY CursorFacts
<1>2. (ram.head + (k - 1)) % QUEUE_MAX_RECORDS = Ring(ram.head, k - 1)
    BY <1>1, RingIsRemainder
<1> QED
    BY <1>1, <1>2, RingFacts DEF In

LEMMA AbsNow == ASSUME TypeInv, Window PROVE AbsIsWindow
<1>1. ASSUME NEW k \in 1..ram.count
      PROVE  /\ Logical[k] = Held(Ring(ram.head, k - 1)) /\ Logical[k] # None
             /\ AbsRecord(Ring(ram.head, k - 1)) \in Abs!Record
  <2>1. Logical[k] = Held(Ring(ram.head, k - 1))
      BY RingPosition DEF Logical
  <2>2. Held(Ring(ram.head, k - 1)) \in Record
      BY RingPosition DEF Window, WindowHeld
  <2> QED
      BY <2>1, <2>2, NoneFacts DEF AbsRecord, Abs!Record, Record
<1>2. AbsRecords = [k \in 1..ram.count |-> AbsRecord(Ring(ram.head, k - 1))]
    BY <1>1 DEF AbsRecords, AbsRecord
<1>3. ram.count \in Nat
    BY CursorFacts
<1> QED
    BY <1>1, <1>2, <1>3 DEF AbsIsWindow

LEMMA AbsNext == TypeInv' /\ Window' => AbsIsWindow'
BY AbsNow, PTL

\* The same window over the same records is the same sequence.
LEMMA AbsKept ==
    ASSUME TypeInv, Window, TypeInv', Window', ram'.head = ram.head, ram'.count = ram.count,
           ram'.nextSequence = ram.nextSequence,
           HeldKept
    PROVE  UNCHANGED Abs!queueVars
<1>1. /\ AbsRecords \in Seq(Abs!Record) /\ Len(AbsRecords) = ram.count
      /\ AbsRecords' \in Seq(Abs!Record) /\ Len(AbsRecords') = ram.count
    BY AbsNow, AbsNext DEF AbsIsWindow, Abs!Record
<1>2. ASSUME NEW k \in 1..ram.count
      PROVE  AbsRecords'[k] = AbsRecords[k]
  <2>1. PICK i \in Slot : i = Ring(ram.head, k - 1) /\ In(i)
      BY RingPosition
  <2>2. AbsRecords[k] = AbsRecord(i)
      BY <2>1, AbsNow DEF AbsIsWindow
  <2>3. AbsRecords'[k] = AbsRecord(i)'
      BY <2>1, AbsNext DEF AbsIsWindow, Ring
  <2>4. Held(i)' = Held(i)
      BY <2>1 DEF HeldKept
  <2> QED
      BY <2>2, <2>3, <2>4 DEF AbsRecord
<1>3. AbsRecords' = AbsRecords
    BY <1>1, <1>2, SeqEqual
<1> QED
    BY <1>3 DEF Abs!queueVars

\* Adopting the meta of an enqueue appends the record.
LEMMA EnqueueMetaIsEnqueue ==
    ASSUME TypeInv, Window, TypeInv', Window', EnqueueMeta, pc' = "enqueue-clear",
           ram'.head = job.head, ram'.tail = job.tail, ram'.count = job.count,
           ram'.nextSequence = job.nextSequence
    PROVE  Abs!Enqueue(rec.measurement)
<1> DEFINE new == [payload |-> rec.measurement, sequenceNumber |-> ram.nextSequence]
<1>1. /\ ram.count \in Nat /\ ram.count < QUEUE_MAX_RECORDS /\ ram'.count = ram.count + 1
      /\ ram'.head = ram.head /\ ram'.nextSequence = ram.nextSequence + 1
      /\ rec.sequenceNumber = ram.nextSequence
      /\ ram.tail = Ring(ram.head, ram.count) /\ ram.tail \in Slot
      /\ job.slot = ram.tail /\ disk[SlotFile(job.slot)] = rec
    BY CursorFacts DEF EnqueueMeta, Window, StageInv, Enqueuing, EnqueueAhead, WindowHeld
<1>2. /\ AbsRecords \in Seq(Abs!Record) /\ Len(AbsRecords) = ram.count
      /\ AbsRecords' \in Seq(Abs!Record) /\ Len(AbsRecords') = ram.count + 1
    BY <1>1, AbsNow, AbsNext DEF AbsIsWindow, Abs!Record
<1>3. \A i \in Slot : Held(i)' = Held(i)
    BY CommitFacts
<1>4. ASSUME NEW k \in 1..ram.count
      PROVE  AbsRecords'[k] = AbsRecords[k]
  <2>1. PICK i \in Slot : i = Ring(ram.head, k - 1) /\ In(i)
      BY RingPosition
  <2>2. AbsRecords[k] = AbsRecord(i)
      BY <2>1, AbsNow DEF AbsIsWindow
  <2>3. i = Ring(ram'.head, k - 1) /\ k \in 1..ram'.count
      BY <1>1, <2>1
  <2>4. AbsRecords'[k] = AbsRecord(i)'
      BY <2>3, AbsNext DEF AbsIsWindow, Ring
  <2> QED
      BY <1>3, <2>2, <2>4 DEF AbsRecord
<1>5. AbsRecords'[ram.count + 1] = new
  <2>1. PICK i \in Slot : i = ram.tail
      BY <1>1
  <2>2. i = Ring(ram'.head, (ram.count + 1) - 1) /\ ram.count + 1 \in 1..ram'.count
      BY <1>1, <2>1
  <2>3. AbsRecords'[ram.count + 1] = AbsRecord(i)'
      BY <2>2, AbsNext DEF AbsIsWindow, Ring
  <2>4. Held(i)' = rec
      BY <1>1, <1>3, <2>1, CommitFacts
  <2> QED
      BY <1>1, <2>3, <2>4 DEF AbsRecord
<1>6. new \in Abs!Record
    BY CursorFacts DEF EnqueueMeta, TypeInv, JobOK, Enqueuing, Record, Abs!Record
<1>7. AbsRecords' = Append(AbsRecords, new)
  <2> HIDE DEF new
  <2>1. Append(AbsRecords, new) \in Seq(Abs!Record)
        /\ Len(Append(AbsRecords, new)) = ram.count + 1
      BY <1>2, <1>6
  <2>2. ASSUME NEW k \in 1..ram.count + 1
        PROVE  AbsRecords'[k] = Append(AbsRecords, new)[k]
    <3>1. CASE k = ram.count + 1
        BY <1>1, <1>2, <1>5, <1>6, <3>1
    <3>2. CASE k # ram.count + 1
      <4>1. k \in 1..ram.count
          BY <1>1, <3>2
      <4>2. Append(AbsRecords, new)[k] = AbsRecords[k]
          BY <1>1, <1>2, <1>6, <4>1
      <4> QED
          BY <1>4, <4>1, <4>2
    <3> QED
        BY <3>1, <3>2
  <2> QED
      BY <1>2, <2>1, <2>2, SeqEqual
<1> QED
    BY <1>1, <1>2, <1>7 DEF Abs!Enqueue

\* Adopting the meta of an acknowledgement takes the head.
LEMMA AckMetaIsAcknowledge ==
    ASSUME TypeInv, Window, TypeInv', Window', AckMeta, pc' = "ack-remove",
           ram'.head = job.head, ram'.tail = job.tail, ram'.count = job.count,
           ram'.nextSequence = job.nextSequence
    PROVE  \E s \in 1..ram.nextSequence : Abs!Acknowledge(s)
<1>1. /\ ram.count \in 1..QUEUE_MAX_RECORDS /\ ram'.count = ram.count - 1
      /\ ram.head \in Slot /\ ram'.head = After(ram.head)
      /\ ram'.nextSequence = ram.nextSequence
    BY CursorFacts DEF AckMeta, Window, StageInv, HeadInHand
<1>2. /\ AbsRecords \in Seq(Abs!Record) /\ Len(AbsRecords) = ram.count
      /\ AbsRecords' \in Seq(Abs!Record) /\ Len(AbsRecords') = ram.count - 1
    BY <1>1, AbsNow, AbsNext DEF AbsIsWindow, Abs!Record
<1>3. \A i \in Slot : Held(i)' = Held(i)
    BY CommitFacts
<1>4. ASSUME NEW k \in 1..ram.count - 1
      PROVE  AbsRecords'[k] = AbsRecords[k + 1]
  <2>1. k \in 1..QUEUE_MAX_RECORDS /\ k + 1 \in 1..ram.count /\ (k + 1) - 1 = k
        /\ k \in 1..ram'.count
      BY <1>1, QueueAssumption
  <2>2. Ring(After(ram.head), k - 1) = Ring(ram.head, k)
      BY <1>1, <2>1, WindowShrinks
  <2>3. PICK i \in Slot : i = Ring(ram.head, (k + 1) - 1)
      BY <2>1, RingPosition
  <2>4. AbsRecords[k + 1] = AbsRecord(i)
      BY <2>1, <2>3, AbsNow DEF AbsIsWindow
  <2>5. i = Ring(ram'.head, k - 1)
      BY <1>1, <2>1, <2>2, <2>3
  <2>6. AbsRecords'[k] = AbsRecord(i)'
      BY <2>1, <2>5, AbsNext DEF AbsIsWindow, Ring
  <2> QED
      BY <1>3, <2>4, <2>6 DEF AbsRecord
<1>5. AbsRecords # <<>> /\ AbsRecords' = Tail(AbsRecords) /\ Head(AbsRecords) = AbsRecords[1]
    BY <1>1, <1>2, <1>4
<1>6. Head(AbsRecords).sequenceNumber \in 1..ram.nextSequence
  <2>1. 1 \in 1..ram.count
      BY <1>1
  <2>2. PICK i \in Slot : i = Ring(ram.head, 1 - 1) /\ In(i)
      BY <2>1, RingPosition
  <2>3. AbsRecords[1] = AbsRecord(i)
      BY <2>1, <2>2, AbsNow DEF AbsIsWindow
  <2>4. Held(i).sequenceNumber \in 1..(ram.nextSequence - 1)
      BY <2>2 DEF Window, WindowHeld
  <2> QED
      BY <1>5, <2>3, <2>4, CursorFacts DEF AbsRecord
<1> QED
    BY <1>1, <1>5, <1>6 DEF Abs!Acknowledge

\* No other step of a call is seen.
LEMMA OthersKeepAbs ==
    ASSUME TypeInv, Window, TypeInv', Window', ~headLost', Measure \/ Upload, ~EnqueueMeta, ~AckMeta
    PROVE  UNCHANGED Abs!queueVars
<1>1. UNCHANGED ram
    BY DEF Measure, Upload, Enqueue, EnqueueJournal, EnqueueData, EnqueueAbort,
       EnqueueClear, UploadAcknowledged, UploadFailed, AckJournal,
       AckRemove, AckClear, RetryJournal, RetryData, RetryClear, WriteTo
<1>2. HeldKept
    BY EnqueueKeeps, JournalKeeps, EnqueueDataKeeps, RemovalKeeps, EnqueueClearKeeps,
       UploadKeeps, RetryDataKeeps DEF Measure, Upload
<1> QED
    BY <1>1, <1>2, AbsKept

LEMMA StepImplements ==
    ASSUME TypeInv, Window, TypeInv', Window', ~headLost', Measure \/ Upload
    PROVE  Abs!QueueNext \/ UNCHANGED Abs!queueVars
<1>1. CASE EnqueueMeta \/ AckMeta
  <2>1. /\ pc = (IF EnqueueMeta THEN "enqueue-meta" ELSE "ack-meta")
        /\ rec.measurement \in Measurement \/ ~EnqueueMeta
      BY <1>1 DEF EnqueueMeta, AckMeta, TypeInv, JobOK, Enqueuing, Record
  <2>2. CASE UNCHANGED ram
    <3>1. HeldKept
        BY <1>1, CommitFacts DEF HeldKept
    <3> QED
        BY <2>2, <3>1, AbsKept
  <2>3. CASE /\ pc' = (IF EnqueueMeta THEN "enqueue-clear" ELSE "ack-remove")
             /\ ram'.head = job.head /\ ram'.tail = job.tail /\ ram'.count = job.count
             /\ ram'.nextSequence = job.nextSequence
    <3>1. CASE EnqueueMeta
        BY <2>1, <2>3, <3>1, EnqueueMetaIsEnqueue DEF Abs!QueueNext
    <3>2. CASE ~EnqueueMeta
        BY <1>1, <2>3, <3>2, AckMetaIsAcknowledge DEF Abs!QueueNext
    <3> QED
        BY <3>1, <3>2
  <2> QED
      BY <1>1, <2>2, <2>3, CommitFacts
<1> QED
    BY <1>1, OthersKeepAbs

\* From the first power-on until power is first lost the ring is the FIFO of the
\* abstract queue, whatever file-system call fails, until a rewrite of the head can
\* be neither finished nor undone: a call takes effect when its meta is adopted, or
\* not at all (persistent_queue.h:54-127).
THEOREM FifoInFirstLife == Spec => FifoUntilPowerLoss
<1>1. PInv /\ PInv' /\ [Next]_vars =>
        [boots = 1 /\ ~Booting /\ pc' # "off" /\ ~headLost'
           => Abs!QueueNext \/ UNCHANGED Abs!queueVars]_vars
  <2> SUFFICES ASSUME PInv, PInv', Next, boots = 1, ~Booting, pc' # "off", ~headLost'
               PROVE  Abs!QueueNext \/ UNCHANGED Abs!queueVars
      OBVIOUS
  <2>1. Measure \/ Upload
      BY DEF Next, Booting, PowerOn, PowerLoss, Begin, MountFails, RefusedUnmounted,
         RecoverJournal, RecoverMeta, RecoverRemove, RecoverClear, LoadMetaDual, RebuildMetaFromSlots, RebuildMeta, BootClear
  <2>4. ~headLost
      BY <2>1 DEF Measure, Upload, Enqueue, EnqueueJournal, EnqueueData, EnqueueAbort,
         EnqueueMeta, EnqueueClear, UploadAcknowledged, UploadFailed, AckJournal, AckMeta,
         AckRemove, AckClear, RetryJournal, RetryData, RetryClear, historyVars
  <2>2. TypeInv /\ TypeInv' /\ Window
      BY <2>4 DEF PInv, FirstLife, FirstBoot, Window, Booting
  <2>3. Window'
      BY <2>1, <2>2, EnqueueKeeps, JournalKeeps, EnqueueDataKeeps, RemovalKeeps,
         EnqueueMetaKeeps, EnqueueClearKeeps, UploadKeeps, AckMetaKeeps, RetryDataKeeps
      DEF Measure, Upload
  <2> QED
      BY <2>1, <2>2, <2>3, StepImplements
<1> QED
  <2> DEFINE Step == [boots = 1 /\ ~Booting /\ pc' # "off" /\ ~headLost'
                        => Abs!QueueNext \/ UNCHANGED Abs!queueVars]_vars
  <2>1. PInv /\ PInv' /\ [Next]_vars => Step
      BY <1>1
  <2> HIDE DEF Step
  <2>2. Spec => [][Step]_vars
      BY <2>1, PInvariant, PTL DEF Spec
  <2> QED
      BY <2>2, PTL DEF Step, FifoUntilPowerLoss
=============================================================================
