---------------------------- MODULE FirmwareLoop ----------------------------
(***************************************************************************)
(* The main loop of a device and its watchdog: GridFlexEdge.ino and        *)
(* watchdog_health.h.                                                      *)
(*                                                                         *)
(* Time is counted in ticks of half the health timer (15 s).  A turn of    *)
(* the loop takes no time, but for the wait for a bearer, and there are    *)
(* many turns in a tick; two are enough for every task to have had its     *)
(* chance.  The queue is its depth (PersistentQueue has its files).        *)
(* Left out: a secret that does not decode (nothing is uploaded), and the  *)
(* configuration pull, which kicks the Upload task once in ten minutes,    *)
(* twenty times the watchdog's timeout.                                    *)
(***************************************************************************)
EXTENDS Naturals, FiniteSets

CONSTANTS PollTicks,    \* pollingIntervalMs
          BackoffTicks, \* bound: ticks the queue backs off after a failed upload
          MaxDepth      \* QUEUE_MAX_RECORDS

WatchdogTicks == 2      \* WATCHDOG_TIMEOUT_MS

ASSUME LoopAssumption ==
    /\ PollTicks \in Nat \ {0}
    /\ BackoffTicks \in Nat
    /\ MaxDepth \in Nat \ {0}

Tasks == {"Modbus", "Network", "Upload", "Queue", "TimeSync"}

\* What may be out of order around a device.
Outages == {"storage", "meter", "network", "server"}
NotTripped == {"none"}

VARIABLES
    pc,             \* where loop() is
    turns,          \* turns completed since time last passed, up to two
    kicked,         \* [Tasks -> ticks since the task was last kicked]
    fed,            \* ticks since the task watchdog was last fed
    measured,       \* ticks since the last measurement was due
    depth,          \* records in the queue
    backoff,        \* ticks until the next upload
    storageOk,      \* gStorageOk
    outages,        \* history: what was out of order since the device booted
    tripped         \* history: those at its latest reset by the watchdog

firmwareVars == <<pc, turns, kicked, fed, measured, depth, backoff, storageOk, outages, tripped>>

\* Beyond these a timer has run out whatever its value is.
Later(ticks, n, limit) == IF ticks + n > limit THEN limit ELSE ticks + n

\* setup(), all tasks kicked.  A boot without storage is an outage of its own.
Booted(ok) ==
    /\ pc' = "service" /\ turns' = 0
    /\ kicked' = [t \in Tasks |-> 0] /\ fed' = 0
    /\ measured' = 0 /\ backoff' = 0
    /\ storageOk' = ok
    /\ outages' = IF ok THEN {} ELSE {"storage"}

FirmwareInit ==
    /\ pc = "service" /\ turns = 0
    /\ kicked = [t \in Tasks |-> 0] /\ fed = 0
    /\ measured = 0 /\ depth = 0 /\ backoff = 0
    /\ storageOk \in BOOLEAN
    /\ outages = IF storageOk THEN {} ELSE {"storage"}
    /\ tripped = NotTripped

\* The watchdog resets the device.
Trip(behind) ==
    /\ tripped' = behind
    /\ \E ok \in BOOLEAN : Booted(ok)

\* Time passes.
Elapse(n) ==
    /\ fed' = fed + n
    /\ kicked' = [t \in Tasks |-> Later(kicked[t], n, WatchdogTicks + 1)]
    /\ measured' = Later(measured, n, PollTicks)
    /\ backoff' = IF backoff > n THEN backoff - n ELSE 0

\* gWatchdog.service(): fed while every task was kicked within the timeout.  The
\* time synchronisation is kicked by every turn.
Service ==
    /\ pc = "service"
    /\ pc' = "connect"
    /\ fed' = IF \A t \in Tasks : kicked[t] <= WatchdogTicks THEN 0 ELSE fed
    /\ kicked' = [kicked EXCEPT !["TimeSync"] = 0]
    /\ UNCHANGED <<turns, measured, depth, backoff, storageOk, outages, tripped>>

\* ensureConnected(): there is a bearer, ...
Connected ==
    /\ pc = "connect"
    /\ pc' = "measure"
    /\ kicked' = [kicked EXCEPT !["Network"] = 0]
    /\ UNCHANGED <<turns, fed, measured, depth, backoff, storageOk, outages, tripped>>

\* ... or there is none, and an attempt may wait for one: 15 s for Wi-Fi, a minute
\* for LTE.  Nothing else happens in this turn that needs one.
NotConnected(waiting) ==
    /\ pc = "connect"
    /\ outages' = outages \cup {"network"}
    /\ pc' = "measureOnly"
    /\ fed + waiting < WatchdogTicks
    /\ Elapse(waiting)
    /\ UNCHANGED <<storageOk, tripped>>
    /\ UNCHANGED <<turns, depth>>

\* ... for longer than the watchdog waits.
WaitsTooLong ==
    /\ pc = "connect"
    /\ Trip(outages \cup {"network"})
    /\ UNCHANGED depth

AfterMeasure == IF pc = "measure" THEN "upload" ELSE "delay"

NotDue ==
    /\ pc \in {"measure", "measureOnly"}
    /\ measured < PollTicks
    /\ pc' = AfterMeasure
    /\ UNCHANGED <<turns, kicked, fed, measured, depth, backoff, storageOk, outages, tripped>>

\* measureAndEnqueue(): without storage only the Modbus task is kicked; an invalid
\* sample is not queued; a full queue refuses the record.
Measure(valid) ==
    /\ pc \in {"measure", "measureOnly"}
    /\ measured = PollTicks
    /\ measured' = 0
    /\ kicked' = IF storageOk THEN [kicked EXCEPT !["Modbus"] = 0, !["Queue"] = 0]
                 ELSE [kicked EXCEPT !["Modbus"] = 0]
    /\ depth' = IF storageOk /\ valid /\ depth < MaxDepth THEN depth + 1 ELSE depth
    /\ outages' = IF valid THEN outages ELSE outages \cup {"meter"}
    /\ pc' = AfterMeasure
    /\ UNCHANGED <<turns, fed, backoff, storageOk, tripped>>

\* uploadHead() returns before it kicks anything, or is not called.
NothingToUpload ==
    /\ pc = "upload"
    /\ ~storageOk \/ depth = 0 \/ backoff > 0
    /\ pc' = "delay"
    /\ UNCHANGED <<turns, kicked, fed, measured, depth, backoff, storageOk, outages, tripped>>

\* Mutant: the Upload task is not kicked.
UploadedWithoutKick ==
    /\ pc = "upload"
    /\ storageOk /\ depth > 0 /\ backoff = 0
    /\ kicked' = [kicked EXCEPT !["Queue"] = 0]
    /\ depth' = depth - 1
    /\ pc' = "delay"
    /\ UNCHANGED <<turns, fed, measured, backoff, storageOk, outages, tripped>>

Uploaded ==
    /\ pc = "upload"
    /\ storageOk /\ depth > 0 /\ backoff = 0
    /\ kicked' = [kicked EXCEPT !["Upload"] = 0, !["Queue"] = 0]
    /\ depth' = depth - 1
    /\ pc' = "delay"
    /\ UNCHANGED <<turns, fed, measured, backoff, storageOk, outages, tripped>>

\* The server does not accept it; markFailureAndBackoffMs.
UploadRefused(ticks) ==
    /\ pc = "upload"
    /\ storageOk /\ depth > 0 /\ backoff = 0
    /\ kicked' = [kicked EXCEPT !["Upload"] = 0]
    /\ backoff' = ticks
    /\ outages' = outages \cup {"server"}
    /\ pc' = "delay"
    /\ UNCHANGED <<turns, fed, measured, depth, storageOk, tripped>>

\* beginHttps() fails: no kick.
NoRequest ==
    /\ pc = "upload"
    /\ storageOk /\ depth > 0 /\ backoff = 0
    /\ outages' = outages \cup {"network"}
    /\ pc' = "delay"
    /\ UNCHANGED <<turns, kicked, fed, measured, depth, backoff, storageOk, tripped>>

\* The next turn begins at once, ...
Turn ==
    /\ pc = "delay"
    /\ pc' = "service"
    /\ turns' = IF turns < 2 THEN turns + 1 ELSE 2
    /\ UNCHANGED <<kicked, fed, measured, depth, backoff, storageOk, outages, tripped>>

\* ... or after a tick, unless the watchdog has not been fed for its timeout.
Tick ==
    /\ pc = "delay" /\ turns = 2
    /\ fed + 1 < WatchdogTicks
    /\ Elapse(1)
    /\ pc' = "service" /\ turns' = 0
    /\ UNCHANGED <<depth, storageOk, outages, tripped>>

TimeOut ==
    /\ pc = "delay" /\ turns = 2
    /\ fed + 1 >= WatchdogTicks
    /\ Trip(outages)
    /\ UNCHANGED depth

FirmwareNext ==
    \/ Service
    \/ Connected \/ WaitsTooLong
    \/ \E waiting \in 0..1 : NotConnected(waiting)
    \/ NotDue \/ \E valid \in BOOLEAN : Measure(valid)
    \/ NothingToUpload \/ Uploaded \/ NoRequest
    \/ \E ticks \in 0..BackoffTicks : UploadRefused(ticks)
    \/ Turn \/ Tick \/ TimeOut

FirmwareSpec == FirmwareInit /\ [][FirmwareNext]_firmwareVars

-----------------------------------------------------------------------------
FirmwareTypeOK ==
    /\ pc \in {"service", "connect", "measure", "measureOnly", "upload", "delay"}
    /\ turns \in 0..2
    /\ kicked \in [Tasks -> 0..WatchdogTicks + 1]
    /\ fed \in 0..WatchdogTicks
    /\ measured \in 0..PollTicks
    /\ depth \in 0..MaxDepth
    /\ backoff \in 0..BackoffTicks
    /\ storageOk \in BOOLEAN
    /\ outages \in SUBSET Outages
    /\ tripped \in (SUBSET Outages) \cup {NotTripped}

\* A device that polls more often than the two timers together (a minute), with
\* nothing out of order since it booted, is never reset by its watchdog: every
\* measurement is uploaded, and so every task is kicked in time.  (The default
\* is a minute: config.h:26.)
QuietDeviceNotReset == PollTicks < 2 * WatchdogTicks => tripped # {}

\* "Still kick queue health so TWDT does not trip solely from a meter outage"
\* (GridFlexEdge.ino:70).  It does: with nothing to upload uploadHead() returns
\* before it kicks the Upload task (GridFlexEdge.ino:115).
MeterOutageAloneNoReset == PollTicks < 2 * WatchdogTicks => tripped # {"meter"}
=============================================================================
