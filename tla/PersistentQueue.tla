--------------------------- MODULE PersistentQueue ---------------------------
(***************************************************************************)
(* The edge device's LittleFS queue, class PersistentQueue of              *)
(* src/firmware/GridFlexEdge/persistent_queue.h, with the two callers that *)
(* drive it in GridFlexEdge.ino: measureAndEnqueue() and uploadHead().     *)
(*                                                                         *)
(* The firmware is one loop, so there is one call in progress at a time    *)
(* (pc); what interrupts it is power.  Every change of the file system is  *)
(* one step and PowerLoss may fall between any two of them; any of these   *)
(* changes may also fail.  A file is replaced in two renames (final ->     *)
(* .bak, .tmp -> final); the .tmp file is invisible to every reader and is *)
(* left out, and so is a .bak file that outlives its write: nobody reads   *)
(* it, and it could come back only if a later write of the same file       *)
(* failed to remove it (167) and to rename anything (168, 169) and then    *)
(* succeeded in renaming it (170).                                         *)
(*                                                                         *)
(* A record is the measurement it carries and its sequence number: the     *)
(* payload text, timestamps and retry counter do not steer the queue.      *)
(***************************************************************************)
EXTENDS Naturals, Sequences, FiniteSets

CONSTANTS QUEUE_MAX_RECORDS,  \* ring size
          MaxMeasurements,    \* bound: measurements taken in a behaviour
          MaxBoots,           \* bound: times the device is powered on
          None                \* no file, nothing in hand

ASSUME QueueAssumption ==
    /\ QUEUE_MAX_RECORDS \in Nat \ {0}
    /\ MaxMeasurements \in Nat
    /\ MaxBoots \in Nat \ {0}

VARIABLES
    \* flash
    disk,       \* [File -> contents or None]
    bak,        \* contents of the .bak file of the write in progress, or None
    \* RAM
    ram,        \* head_, tail_, count_, nextSequence_, metaGen_, metaActive_
    job,        \* arguments of the call in progress, in the journal's shape
    rec,        \* record in hand
    pc,         \* the next statement of the call in progress
    \* history
    boots,      \* times powered on
    measured,   \* measurements taken
    accepted,   \* measurements whose enqueue() returned true
    highest,    \* highest sequence number given to an accepted measurement
    stored,     \* measurements the server has stored
    headLost    \* a rewrite of the head could be neither finished nor undone

flashVars == <<disk, bak>>
historyVars == <<boots, measured, accepted, highest, stored, headLost>>
vars == <<disk, bak, ram, job, rec, pc, boots, measured, accepted, highest, stored, headLost>>

Slot == 0..(QUEUE_MAX_RECORDS - 1)
SlotFile(i) == <<"slot", i>>
MetaFile(w) == <<"meta", w>>
JournalFile == <<"journal", 0>>
File == {SlotFile(i) : i \in Slot} \cup {MetaFile(w) : w \in {0, 1}} \cup {JournalFile}

Measurement == 1..MaxMeasurements
Record == [measurement : Measurement, sequenceNumber : Nat]
Meta == [gen : Nat, head : Slot, tail : Slot, count : Nat, nextSequence : Nat]
Journal == [op : {"enqueue", "ack", "retry"}, slot : Slot, sequence : Nat,
            count : Nat, tail : Slot, nextSequence : Nat, head : Slot]

ASSUME NoneAssumption == None \notin Record /\ None \notin Meta /\ None \notin Journal

\* Mutant: the ring index is not wrapped.
AfterUnwrapped(i) == i + 1

After(i) == (i + 1) % QUEUE_MAX_RECORDS

\* The members' initialisers, in force when begin() starts.
ColdRam == [head |-> 0, tail |-> 0, count |-> 0, nextSequence |-> 1,
            metaGen |-> 0, metaActive |-> 0]

Init ==
    /\ disk = [f \in File |-> None]
    /\ bak = None
    /\ ram = ColdRam
    /\ job = None
    /\ rec = None
    /\ pc = "recover"
    /\ boots = 1
    /\ measured = 0
    /\ accepted = {}
    /\ highest = 0
    /\ stored = {}
    /\ headLost = FALSE

-----------------------------------------------------------------------------
(* atomicWriteJson(): tmp is written first; an existing final is renamed   *)
(* to .bak before tmp takes its place.                                     *)

\* rename tmp -> final.  LittleFS renames over a final that is still there,
\* because the rename to .bak failed, whose result nobody reads.
Put(f, v) ==
    /\ disk' = [disk EXCEPT ![f] = v]
    /\ bak' = None

\* Mutant: the final file is deleted to make room for the new one.
DeleteFirst(f) ==
    /\ disk[f] # None
    /\ bak' = None
    /\ disk' = [disk EXCEPT ![f] = None]

\* rename final -> .bak
MoveAside(f) ==
    /\ disk[f] # None
    /\ bak' = disk[f]
    /\ disk' = [disk EXCEPT ![f] = None]

\* tmp cannot be opened or written, or not be renamed: then .bak, if there is
\* one, is renamed back.
WriteFails(f) ==
    /\ disk' = [disk EXCEPT ![f] = IF bak # None THEN bak ELSE disk[f]]
    /\ bak' = None

\* The second rename fails, and so does renaming .bak back.
RestoreFails(f) ==
    /\ bak # None
    /\ UNCHANGED disk
    /\ bak' = None

\* One step of writing v to f, on the way from pc to `ok` or `failed`.
WriteTo(f, v, ok, failed) ==
    /\ \/ Put(f, v) /\ pc' = ok
       \/ MoveAside(f) /\ UNCHANGED pc
       \/ (WriteFails(f) \/ RestoreFails(f)) /\ pc' = failed
    /\ UNCHANGED <<ram, job, rec>>

\* LittleFS.remove(), whose result nobody reads.
RemoveFile(f) == disk' \in {[disk EXCEPT ![f] = None], disk}

\* Mutant: a new meta carries the generation of the one it replaces.
PersistMetaSameGen(ok, failed) ==
    LET target == 1 - ram.metaActive
        meta   == [gen |-> ram.metaGen, head |-> job.head, tail |-> job.tail,
                   count |-> job.count, nextSequence |-> job.nextSequence]
    IN
    /\ \/ /\ Put(MetaFile(target), meta)
          /\ ram' = [head |-> job.head, tail |-> job.tail, count |-> job.count,
                     nextSequence |-> job.nextSequence,
                     metaGen |-> meta.gen, metaActive |-> target]
          /\ pc' = ok
       \/ MoveAside(MetaFile(target)) /\ UNCHANGED <<ram, pc>>
       \/ /\ WriteFails(MetaFile(target)) \/ RestoreFails(MetaFile(target))
          /\ UNCHANGED ram
          /\ pc' = failed
    /\ UNCHANGED <<job, rec>>

\* persistMetaDual(): write the inactive buffer with the next generation,
\* then adopt the values in RAM.
PersistMetaDual(ok, failed) ==
    LET target == 1 - ram.metaActive
        meta   == [gen |-> ram.metaGen + 1, head |-> job.head, tail |-> job.tail,
                   count |-> job.count, nextSequence |-> job.nextSequence]
    IN
    /\ \/ /\ Put(MetaFile(target), meta)
          /\ ram' = [head |-> job.head, tail |-> job.tail, count |-> job.count,
                     nextSequence |-> job.nextSequence,
                     metaGen |-> meta.gen, metaActive |-> target]
          /\ pc' = ok
       \/ MoveAside(MetaFile(target)) /\ UNCHANGED <<ram, pc>>
       \/ /\ WriteFails(MetaFile(target)) \/ RestoreFails(MetaFile(target))
          /\ UNCHANGED ram
          /\ pc' = failed
    /\ UNCHANGED <<job, rec>>

-----------------------------------------------------------------------------
(* enqueue(), called by measureAndEnqueue() with a new measurement.        *)

\* Mutant: a full ring is not refused.
EnqueueWhenFull ==
    /\ pc = "idle"
    /\ measured < MaxMeasurements
    /\ measured' = measured + 1
    /\ rec' = [measurement |-> measured + 1, sequenceNumber |-> ram.nextSequence]
    /\ job' = [op |-> "enqueue", slot |-> ram.tail, sequence |-> ram.nextSequence,
               count |-> ram.count + 1, tail |-> After(ram.tail),
               nextSequence |-> ram.nextSequence + 1, head |-> ram.head]
    /\ pc' = "enqueue-journal"
    /\ UNCHANGED <<disk, bak, ram, boots, accepted, highest, stored, headLost>>

Enqueue ==
    /\ pc = "idle"
    /\ measured < MaxMeasurements
    /\ ram.count < QUEUE_MAX_RECORDS
    /\ measured' = measured + 1
    /\ rec' = [measurement |-> measured + 1, sequenceNumber |-> ram.nextSequence]
    /\ job' = [op |-> "enqueue", slot |-> ram.tail, sequence |-> ram.nextSequence,
               count |-> ram.count + 1, tail |-> After(ram.tail),
               nextSequence |-> ram.nextSequence + 1, head |-> ram.head]
    /\ pc' = "enqueue-journal"
    /\ UNCHANGED <<disk, bak, ram, boots, accepted, highest, stored, headLost>>

EnqueueJournal ==
    /\ pc = "enqueue-journal"
    /\ WriteTo(JournalFile, job, "enqueue-data", "idle")
    /\ UNCHANGED historyVars

\* A failed data write clears the journal and returns false.
EnqueueData ==
    /\ pc = "enqueue-data"
    /\ WriteTo(SlotFile(job.slot), rec, "enqueue-meta", "enqueue-abort")
    /\ UNCHANGED historyVars

EnqueueAbort ==
    /\ pc = "enqueue-abort"
    /\ RemoveFile(JournalFile)
    /\ pc' = "idle"
    /\ UNCHANGED <<bak, ram, job, rec, historyVars>>

\* A failed meta write returns false and leaves the journal for the next boot.
EnqueueMeta ==
    /\ pc = "enqueue-meta"
    /\ PersistMetaDual("enqueue-clear", "idle")
    /\ UNCHANGED historyVars

EnqueueClear ==
    /\ pc = "enqueue-clear"
    /\ RemoveFile(JournalFile)
    /\ accepted' = accepted \cup {rec.measurement}
    /\ highest' = IF rec.sequenceNumber > highest THEN rec.sequenceNumber ELSE highest
    /\ pc' = "idle"
    /\ UNCHANGED <<bak, ram, job, rec, boots, measured, stored, headLost>>

-----------------------------------------------------------------------------
(* uploadHead(): peek, POST, and acknowledge() or markFailureAndBackoffMs()*)

Peek == IF ram.count = 0 THEN None ELSE disk[SlotFile(ram.head)]

HeadJob(op) ==
    IF op = "ack"
    THEN [op |-> "ack", slot |-> ram.head, sequence |-> Peek.sequenceNumber,
          count |-> ram.count - 1, tail |-> ram.tail,
          nextSequence |-> ram.nextSequence, head |-> After(ram.head)]
    ELSE [op |-> "retry", slot |-> ram.head, sequence |-> Peek.sequenceNumber,
          count |-> ram.count, tail |-> ram.tail,
          nextSequence |-> ram.nextSequence, head |-> ram.head]

\* The POST answered 200 or 201: the server has the measurement.
UploadAcknowledged ==
    /\ pc = "idle"
    /\ Peek # None
    /\ stored' = stored \cup {Peek.measurement}
    /\ rec' = Peek
    /\ job' = HeadJob("ack")
    /\ pc' = "ack-journal"
    /\ UNCHANGED <<disk, bak, ram, boots, measured, accepted, highest, headLost>>

\* Any other answer, or none: the server may have stored it all the same.
UploadFailed ==
    /\ pc = "idle"
    /\ Peek # None
    /\ stored' \in {stored, stored \cup {Peek.measurement}}
    /\ rec' = Peek
    /\ job' = HeadJob("retry")
    /\ pc' = "retry-journal"
    /\ UNCHANGED <<disk, bak, ram, boots, measured, accepted, highest, headLost>>

AckJournal ==
    /\ pc = "ack-journal"
    /\ WriteTo(JournalFile, job, "ack-meta", "idle")
    /\ UNCHANGED historyVars

AckMeta ==
    /\ pc = "ack-meta"
    /\ PersistMetaDual("ack-remove", "idle")
    /\ UNCHANGED historyVars

AckRemove ==
    /\ pc = "ack-remove"
    /\ RemoveFile(SlotFile(job.slot))
    /\ pc' = "ack-clear"
    /\ UNCHANGED <<bak, ram, job, rec, historyVars>>

AckClear ==
    /\ pc = "ack-clear"
    /\ RemoveFile(JournalFile)
    /\ pc' = "idle"
    /\ UNCHANGED <<bak, ram, job, rec, historyVars>>

\* markFailureAndBackoffMs() ignores the results of its writes.
RetryJournal ==
    /\ pc = "retry-journal"
    /\ WriteTo(JournalFile, job, "retry-data", "retry-data")
    /\ UNCHANGED historyVars

RetryData ==
    /\ pc = "retry-data"
    /\ WriteTo(SlotFile(job.slot), rec, "retry-clear", "retry-clear")
    /\ headLost' = (headLost \/ RestoreFails(SlotFile(job.slot)))
    /\ UNCHANGED <<boots, measured, accepted, highest, stored>>

RetryClear ==
    /\ pc = "retry-clear"
    /\ RemoveFile(JournalFile)
    /\ pc' = "idle"
    /\ UNCHANGED <<bak, ram, job, rec, historyVars>>

-----------------------------------------------------------------------------
(* Power loss, and begin().                                                *)

PowerLoss ==
    /\ pc # "off"
    /\ boots < MaxBoots
    /\ pc' = "off"
    /\ UNCHANGED <<disk, bak, ram, job, rec, historyVars>>

\* No reader looks for a .bak file left by an interrupted write.
PowerOn ==
    /\ pc = "off"
    /\ boots' = boots + 1
    /\ ram' = ColdRam
    /\ bak' = None
    /\ job' = None
    /\ rec' = None
    /\ pc' = "recover"
    /\ UNCHANGED <<disk, measured, accepted, highest, stored, headLost>>

\* LittleFS.begin() fails: begin() returns false, and setup() goes on.
MountFails ==
    /\ pc = "recover"
    /\ pc' = "unmounted"
    /\ UNCHANGED <<disk, bak, ram, job, rec, historyVars>>

\* enqueue() then cannot write its journal, and peek() finds no record.
RefusedUnmounted ==
    /\ pc = "unmounted"
    /\ measured < MaxMeasurements
    /\ measured' = measured + 1
    /\ UNCHANGED <<disk, bak, ram, job, rec, pc, boots, accepted, highest, stored, headLost>>

\* recoverJournal(): what to do with the journal, decided on the slot file.
RecoverJournal ==
    LET j == disk[JournalFile]
        written == /\ disk[SlotFile(j.slot)] # None
                   /\ disk[SlotFile(j.slot)].sequenceNumber = j.sequence
    IN
    /\ pc = "recover"
    /\ job' = j
    /\ pc' = IF j = None THEN "load"
             ELSE IF j.op = "ack" \/ (j.op = "enqueue" /\ written) THEN "recover-meta"
             ELSE IF j.op = "enqueue" THEN "recover-remove"
             ELSE "recover-clear"
    /\ UNCHANGED <<disk, bak, ram, rec, historyVars>>

\* persistMetaDual() with whatever metaGen_ and metaActive_ hold at this
\* point; its result is ignored.
RecoverMeta ==
    LET next == IF job.op = "ack" THEN "recover-remove" ELSE "recover-clear" IN
    /\ pc = "recover-meta"
    /\ PersistMetaDual(next, next)
    /\ UNCHANGED historyVars

RecoverRemove ==
    /\ pc = "recover-remove"
    /\ RemoveFile(SlotFile(job.slot))
    /\ pc' = "recover-clear"
    /\ UNCHANGED <<bak, ram, job, rec, historyVars>>

RecoverClear ==
    /\ pc = "recover-clear"
    /\ RemoveFile(JournalFile)
    /\ pc' = "load"
    /\ UNCHANGED <<bak, ram, job, rec, historyVars>>

\* The meta buffer loadMetaDual() chooses: the higher generation, 0 on a tie.
LoadedMeta ==
    LET a == disk[MetaFile(0)]
        b == disk[MetaFile(1)]
    IN IF a # None /\ (b = None \/ a.gen >= b.gen)
       THEN [meta |-> a, which |-> 0]
       ELSE [meta |-> b, which |-> 1]

LoadMetaDual ==
    LET l == LoadedMeta IN
    /\ pc = "load"
    /\ l.meta # None
    /\ ram' = [head |-> l.meta.head, tail |-> l.meta.tail, count |-> l.meta.count,
               nextSequence |-> l.meta.nextSequence,
               metaGen |-> l.meta.gen, metaActive |-> l.which]
    /\ pc' = "boot-clear"
    /\ UNCHANGED <<disk, bak, job, rec, historyVars>>

\* rebuildMetaFromSlots(): cursors from the records found in the slot files.
Rebuilt ==
    LET used == {i \in Slot : disk[SlotFile(i)] # None}
        seq(i) == disk[SlotFile(i)].sequenceNumber
        oldest == CHOOSE i \in used : \A k \in used : seq(i) <= seq(k)
        newest == CHOOSE i \in used : \A k \in used : seq(i) >= seq(k)
    IN IF used = {}
       THEN [head |-> 0, tail |-> 0, count |-> 0, nextSequence |-> 1]
       ELSE [head |-> oldest, tail |-> After(newest), count |-> Cardinality(used),
             nextSequence |-> seq(newest) + 1]

RebuildMetaFromSlots ==
    /\ pc = "load"
    /\ LoadedMeta.meta = None
    /\ job' = Rebuilt
    /\ ram' = [ram EXCEPT !.head = Rebuilt.head, !.tail = Rebuilt.tail,
                          !.count = Rebuilt.count, !.nextSequence = Rebuilt.nextSequence]
    /\ pc' = "rebuild-meta"
    /\ UNCHANGED <<disk, bak, rec, historyVars>>

RebuildMeta ==
    /\ pc = "rebuild-meta"
    /\ PersistMetaDual("boot-clear", "boot-clear")
    /\ UNCHANGED historyVars

BootClear ==
    /\ pc = "boot-clear"
    /\ RemoveFile(JournalFile)
    /\ pc' = "idle"
    /\ UNCHANGED <<bak, ram, job, rec, historyVars>>

-----------------------------------------------------------------------------
Measure == Enqueue \/ EnqueueJournal \/ EnqueueData \/ EnqueueAbort \/ EnqueueMeta \/ EnqueueClear
Upload == UploadAcknowledged \/ UploadFailed \/ AckJournal \/ AckMeta \/ AckRemove \/ AckClear
            \/ RetryJournal \/ RetryData \/ RetryClear
Begin == MountFails \/ RefusedUnmounted \/ RecoverJournal \/ RecoverMeta \/ RecoverRemove \/ RecoverClear \/ LoadMetaDual
            \/ RebuildMetaFromSlots \/ RebuildMeta \/ BootClear

Next == Measure \/ Upload \/ PowerLoss \/ PowerOn \/ Begin

Spec == Init /\ [][Next]_vars

-----------------------------------------------------------------------------
(* Properties.                                                             *)

Pc == {"idle", "off", "unmounted", "recover", "recover-meta", "recover-remove", "recover-clear",
       "load", "rebuild-meta", "boot-clear",
       "enqueue-journal", "enqueue-data", "enqueue-abort", "enqueue-meta", "enqueue-clear",
       "ack-journal", "ack-meta", "ack-remove", "ack-clear",
       "retry-journal", "retry-data", "retry-clear"}

Booting == pc \in {"off", "unmounted", "recover", "recover-meta", "recover-remove", "recover-clear",
                   "load", "rebuild-meta", "boot-clear"}

Cursors == [head : Slot, tail : Slot, count : Nat, nextSequence : Nat]

TypeOK ==
    /\ \A i \in Slot : disk[SlotFile(i)] \in Record \cup {None}
    /\ \A w \in {0, 1} : disk[MetaFile(w)] \in Meta \cup {None}
    /\ disk[JournalFile] \in Journal \cup {None}
    /\ DOMAIN disk = File
    /\ bak \in Record \cup Meta \cup Journal \cup {None}
    /\ ram \in [head : Slot, tail : Slot, count : 0..QUEUE_MAX_RECORDS,
                nextSequence : Nat, metaGen : Nat, metaActive : {0, 1}]
    /\ job \in Journal \cup Cursors \cup {None}
    /\ rec \in Record \cup {None}
    /\ pc \in Pc
    /\ boots \in 1..MaxBoots
    /\ measured \in 0..MaxMeasurements
    /\ accepted \in SUBSET Measurement
    /\ highest \in Nat
    /\ stored \in SUBSET Measurement
    /\ headLost \in BOOLEAN

\* The record the firmware owns for a ring position, or None: during the rewrite
\* of the head after a failed upload it is in the .bak file for a moment.
Held(i) == IF pc = "retry-data" /\ bak # None /\ i = job.slot THEN bak ELSE disk[SlotFile(i)]

Logical == [k \in 1..ram.count |-> Held((ram.head + k - 1) % QUEUE_MAX_RECORDS)]

AbsRecords == [k \in 1..ram.count |->
                 IF Logical[k] = None THEN None
                 ELSE [payload |-> Logical[k].measurement,
                       sequenceNumber |-> Logical[k].sequenceNumber]]

Abs == INSTANCE StoreAndForwardQueue
         WITH records <- AbsRecords, nextSequence <- ram.nextSequence,
              Payloads <- Measurement, MaxRecords <- QUEUE_MAX_RECORDS

\* From the first power-on until power is first lost, whatever file-system
\* calls fail, the ring is the FIFO of store-and-forward-queue.ts; except that
\* a rewrite of the head after a failed upload that can be neither finished nor
\* undone (169 and 170 both fail) leaves the head unreadable.
FifoUntilPowerLoss ==
    [][boots = 1 /\ ~Booting /\ pc' # "off" /\ ~headLost'
         => Abs!QueueNext \/ UNCHANGED Abs!queueVars]_vars

\* Between calls, the buffer loadMetaDual() would choose is the live one, and
\* it holds the cursors in RAM, whichever writes and removals have failed.  So
\* a power cycle that finds no journal changes neither head, tail, count nor
\* the sequence cursor.  One that finds a journal (left by a failed meta write,
\* or by a removal that failed) may: recoverJournal() runs first.
LoadPicksLiveMeta ==
    pc = "idle" /\ LoadedMeta.meta # None =>
        /\ LoadedMeta.which = ram.metaActive
        /\ LoadedMeta.meta = [gen |-> ram.metaGen, head |-> ram.head, tail |-> ram.tail,
                             count |-> ram.count, nextSequence |-> ram.nextSequence]

\* "never delete-before-rename of sole copy": wherever power is first lost,
\* every accepted measurement the server does not have is in a slot file or
\* in the .bak file of the write that is replacing it; unless a rewrite of the
\* head could be neither finished nor undone, which leaves it in a .bak file
\* that no code reads.
SoleCopyKept ==
    boots = 1 /\ ~headLost =>
        \A m \in accepted \ stored :
            \/ \E i \in Slot : disk[SlotFile(i)] # None /\ disk[SlotFile(i)].measurement = m
            \/ bak \in Record /\ bak.measurement = m

\* docs/EDGE_RELIABILITY.md: "power cycles must not lose the queue".  Every
\* accepted measurement the server does not have is in the queue, but for a
\* head lost to failing renames, which takes no power cycle.
PowerCyclesKeepTheQueue ==
    pc = "idle" /\ ~headLost =>
        \A m \in accepted \ stored :
            \E k \in 1..ram.count : Logical[k] # None /\ Logical[k].measurement = m

\* "persistent sequence numbers": the cursor is never moved back to a number
\* an accepted measurement already carries.  The server refuses the reuse of a
\* sequence number with another body, so the queue would be stuck behind it.
SequenceNumbersPersist == pc = "idle" => ram.nextSequence > highest

=============================================================================
