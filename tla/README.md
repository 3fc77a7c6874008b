# GridFlexAi: specifications, model checks and proofs

GridFlexAi is a grid-flexibility platform: ESP32 edge devices measure a plant
and upload signed telemetry, a Node/Prisma backend stores it, raises alarms,
proposes and executes (simulated) plant commands, and a web frontend shows it.
This directory holds TLA+ modules for the parts of it whose correctness depends
on the *order* of things: power loss, lost messages, retries, timers, two
requests at once. Paths below are relative to the repository.

Contents: [1 Inventory](#1-inventory) ·
[2 Modules and code](#2-modules-and-their-correspondence-with-the-code) ·
[3 Runs](#3-runs-bounds-and-what-they-show) ·
[4 Fairness](#4-fairness) ·
[5 Findings](#5-findings) ·
[6 Proofs](#6-proofs) ·
[7 Not modelled](#7-what-is-not-modelled-and-why) ·
[8 Plan](#8-plan)

## 1. Inventory

### Components

Every component below is modelled, in whole or in part; section 7 says what is not.

| component | state it keeps | operations | what makes it correct |
|---|---|---|---|
| **Edge queue** `firmware/GridFlexEdge/persistent_queue.h` | one LittleFS file per ring slot, two meta files with generations, a journal, `.bak` files; cursors in RAM | `begin` (recover journal, load or rebuild meta), `enqueue`, `peek`, `acknowledge`, `markFailureAndBackoffMs` | FIFO; an accepted measurement survives until the server has it; sequence numbers are never reused |
| **Host queue contract** `backend/src/edge/store-and-forward-queue.ts` | a list and a cursor | `enqueue`, `peek`, `acknowledge` | FIFO of bounded length, consecutive numbers |
| **Host mirror** `backend/src/edge/journaled-queue.ts` | slots, two metas, journal | as the edge queue, each durable write callable on its own | implements the contract across power loss |
| **Edge authentication** `middleware/edgeDeviceAuth.ts` | `DeviceCredential` row: status, `lastSequenceNumber`, `lastAcceptedBodyHash`; nonces | verify signature and nonce, advance the watermark, recognise a replay, complete a key rotation | one body per accepted number; a retry of an accepted body is acknowledged |
| **Ingestion** `services/reading.service.ts` | `SensorReading`, `EdgeIngestReceipt`, node columns | `ingestEdgeData`, `createReading` | what is acknowledged is stored, once, unchanged |
| **Device credentials** `services/device-credential.service.ts` | keys of a node: active, rotating, revoked | provision, complete rotation, revoke | one active key; the key in use is never revoked by an overlap |
| **Command lifecycle** `services/command.service.ts`, `command-validation.ts`, `domain/commands.ts` | `CommandRequest`, `CommandApproval`, `CommandExecution` | propose, submit, approve, reject, cancel, emergency stop, override, execute, expire | only independently approved commands run; terminal is final; no command is left half-executed |
| **Simulated executor** `services/simulated-command-executor.ts` | the settling of both rows | run | command and execution agree |
| **Local safety** `safety/local-safety-controller.ts` | none of its own; the device's setpoint through an adapter | evaluate, write, read back, roll back, safe state | the device stays within limits and ramp, and the report says what happened |
| **Alarms and incidents** `services/alarm.service.ts` | `AlarmEvent`, acknowledgements | raise, acknowledge, assign, escalate, clear, reopen | status and time stamps agree; no escalation is lost |
| **Remote configuration** `services/edge-remote-config.service.ts`, `firmware/.../remote_config.h` | versions, the active one; on the device a version watermark and a last-known-good file | publish, pull, apply, roll back | one active version; the device never goes back to an older one, and can leave a bad one |
| **Firmware loop** `GridFlexEdge.ino`, `watchdog_health.h`, `network_manager.h` | health timers, back-off counters | measure, upload, poll configuration, kick the watchdog | a healthy device is not reset |
| **Node status** `services/node-health.service.ts`, `reading.service.ts`, `node.service.ts` | status and health state of a node | the monitor, each stored reading, operators | maintenance is not undone by the monitor; a silent node ends up offline |
| **Sessions and accounts** `services/auth.service.ts`, `invitation.service.ts`, `team.service.ts`, `src/services/api.ts`, `AuthContext.tsx`, `socket.ts` | refresh tokens, user status, quota of operators, invitations; in the browser a cookie and an access token | login, refresh, logout, suspend, revoke all, create an operator, invite, register | a suspended user has no session; a signed-in browser stays signed in; the quota is kept; an invitation gives one account |
| **Recovery cases, work orders, decisions** `services/recovery-case.service.ts` and siblings | rows, one with a history column | create, update | no history entry disappears; approved and settled orders stay so |
| **Forecasts** `services/forecast.service.ts`, `utils/circuitBreaker.ts` | a circuit per provider, a cache in memory and one in Redis | get, clear the caches | a circuit follows its provider's failures; a cleared cache that was reached holds nothing old |
| **Curtailment detection** `domain/curtailment/engine.ts` | the run under way, the intervals found | detect | every persistent run is reported once, with its cause |
| Simulation runs, optimisation and recovery scoring, plant gateway, telemetry queries, sockets, metrics, administration, chat, the frontend's pages | see `PROJECT.json` | | see section 7 |

### How they interact

    measureAndEnqueue -> edge queue -> uploadHead --HTTP--> verifyEdgeDeviceAuth -> ingestEdgeData
                              ^                                   |  (watermark)         | (reading, receipt)
                              +------ 200 / 201: acknowledge -----+----------------------+
    operators --HTTP--> command.service -> simulated executor -> CommandExecution
    operators --HTTP--> device-credential.service --> DeviceCredential <-- verifyEdgeDeviceAuth
    operators --HTTP--> edge-remote-config.service --> active configuration <-- pullAndApply on the device
    monitor timer, readings, operators -----------> EdgeNode row
    browser (timer, sockets, 401s) --refresh--> auth.service --> RefreshToken rows

The device is one loop with one request outstanding. The backend is a process
in which handlers interleave at every `await`. They share rows of the database,
and no lock: atomic conditional updates and unique constraints are the only
synchronisation. Few operations are transactions; those that are, are one step
in the models.

### Where it is hard

* **Power loss** between two of the several file-system calls of one queue
  operation, and inside the replacement of one file (two renames).
* **Lost or late messages**: the device times out while the handler runs on, and
  its retry races the first attempt.
* **Reuse of sequence numbers** after the device lost its files, and under a
  new credential.
* **Two durable steps that are not one**: watermark and reading, queueing and
  executing, file and version number.
* **Check, then update by id**: most services load a row, check it, and write it
  back whatever it holds by then.
* **Time**: back-off, polling and watchdog periods that were chosen separately.

Each is listed at the line where it bites under `hazards` in `PROJECT.json`,
with the properties that would catch it going wrong.

## 2. Modules and their correspondence with the code

`PROJECT.json` (`map`) names the lines for every definition.

| module | models | its steps |
|---|---|---|
| `StoreAndForwardQueue` | the FIFO contract; an operator library that other modules instantiate | `Enqueue(p)`, `Acknowledge(s)` |
| `JournaledQueue` | the host mirror | one step per durable write |
| `PersistentQueue` | the firmware queue with the loop's calls on it | one step per file-system change |
| `EdgeIngest` | device, network, authentication, ingestion and credentials composed | one step per database call |
| `CommandLifecycle` | commands and their executor | `Load` (read and check), then `Write`, `Cancel`, `Queue`, `CreateExecution`, `Settle` |
| `ServiceCalls` | what the backend services share: a call that has loaded a row and has yet to write it | `Finish`, `GiveUp` |
| `Alarms` | one alarm, and the incidents of its site | `LoadAlarm`, then one of five writes; `CreateIncident`, `AppendTimeline` |
| `OperatorRecords` | one recovery case, one work order, the decisions | load, then write |
| `DeviceProvisioning` | the credentials of a node; the published configurations | one step per database call |
| `Sessions` | a user's sessions on the server and in the browser | one step per database call, send and receive |
| `Accounts` | a manager's quota of operators; an invitation and the registrations with it | one step per database call |
| `NodeStatus` | one node's row and its three writers | evaluate, report, touch, set, grow old |
| `ForecastService` | one site's forecast: circuits and caches | ask, answer, fail, write each cache, clear each cache |
| `LocalSafety` | the controller in front of a device | one step per call of the adapter |
| `Curtailment` | the detection loop, one sample at a time, and the merge | `NotCurtailed`, `Curtailed` |
| `RemoteConfig` | the configuration on a device | one step per durable write |
| `FirmwareLoop` | `loop()`, its timers and the watchdog | one step per call `loop()` makes |
| `Components` | the eleven modules before it, side by side | see below |
| `MC*` | the constants, and symmetry sets, for TLC | |
| `*_proofs` | theorems | |

**StoreAndForwardQueue.** The records are a sequence of payload and number.
`records` of another module is substituted for it: `JournaledQueue` and
`PersistentQueue` through a refinement mapping, and `EdgeIngest` uses it as the
device's queue, so that ingestion is checked against what the queue promises
and not against 400 lines of flash handling. `snapshotForReboot`, `loadAfterReboot`
and `restoreSequenceCursor` are left out: a test simulates a reboot with them.

**JournaledQueue.** `slots`, `metas`, `journal` and `active` are the members of
the class. `stage` says where in `enqueue()`, `acknowledge()` or
`recoverAfterCrash()` the next durable write is; `PowerLoss` moves it to
`"crashed"` and only `RecoverAfterCrash` leaves that. `BeginEnqueueJournal`
takes the abstract step's input; the abstract queue changes at the meta commit.
The refinement mapping reads `count` records from `head` through the live meta.

**PersistentQueue.** `disk` maps files to contents, `bak` is the `.bak` file of the
write in progress, `ram` the class's members, `job` the arguments of the call in
journal shape, `pc` the next statement. `atomicWriteJson` is four alternatives:
`Put` (rename into place), `MoveAside` (final to `.bak`), `WriteFails` (the old file
is there still, or again) and `RestoreFails` (neither rename came through, and
`persistent_queue.h:170` does not look); only renames are visible, since nobody
reads a `.tmp` or `.bak` file. `RemoveFile` may fail too, and so may the mount
(`MountFails`), after which the queue refuses every call. `PowerOn` is a
cold start: RAM at its initialisers, then `recoverJournal`, `loadMetaDual`,
`rebuildMetaFromSlots` in the order `begin()` calls them.
`UploadAcknowledged` and `UploadFailed` are `uploadHead()` up to the queue call;
a failed upload may have reached the server. `accepted`, `stored`, `highest` and
`headLost` (a rewrite of the head could be neither finished nor undone) are history
variables.

**EdgeIngest.** `request[r].stage` is the next database call of handler `r`:
`sent`, `advance` (the conditional `updateMany`), `compare` (the re-read that
recognises a replay), `rotate`, `ingest`, `duplicate` (after P2002), `receipt`,
`touch`, `replay`, and the answer `ok` (200/201) or `error`. The device waits
for one request (`waiting`), and `GiveUp` makes it stop waiting while the handler runs on, so
that the retry races it. A body is a measurement's number; equal bodies are equal hashes.
`granted` records every watermark advance, `acked` what the device deleted,
`interrupted` the bodies whose handler died between the watermark and the row.
Provisioning and the completion of a rotation are one step each here.

**CommandLifecycle.** The three tables are `command`, `approvals` and
`executions`. `Load(h, op, u)` is the load and all its checks (transition table,
expiry, separation of duties, readiness); what the call still needs is kept in
`handler[h]`. The following write is by id, so it has no guard on the row. The
two non-trivial transactions (decision with approval row, command with execution
row) are one step. The emergency stop and safe state block alike, and so do none
and manual override, hence two override states.

**ServiceCalls.** The backend services have one shape: load a row, decide on what
it held, update it by id. A call is a record with what it took from the row and
a flag `overtaken`, which `Finish` sets for every other call in progress when
one writes. The flag is history: no guard reads it. With it the properties can
say what these services do promise: everything, to a call nobody overtook; and
which single thing goes wrong when two overlap.

**Alarms.** `LoadAlarm(c, op)` is the load of all five operations, with the one
guard any of them has (reopening wants a cleared alarm). The five writes
are by id. `metadata` is the set of notes it holds, since every operation writes
the loaded metadata back with one note more.

**OperatorRecords.** `updateRecoveryCase` writes the whole history column back.
`updateWorkOrder` resolves its patch against the loaded row: `forced` marks an
escalation that moves an open order, `carried` an approval that is not in the
patch but comes from the loaded row. A patch may combine status, approval and escalation.

**DeviceProvisioning.** `LoadLatest` reads the key a provisioning starts from,
`Provision` is the transaction that demotes it and adds the next;
`AuthenticateWithActive`, `FindRotating` and `CompleteRotation` are the three
database calls of a rotation that is completed by an upload. `EdgeIngest` has
these as one step each and, in exchange, the device and the network.
Publication is two statements, and may die in between.

**Sessions.** The browser sends (`SendLogin`, `SendRefresh`, `SendLogout`), the
server works (`LoginChecks` to `RevokeAll`), the browser receives, in any order,
or the answer is lost. A changed password revokes all sessions and clears the cookie,
not the access token. Nothing in `api.ts`, `AuthContext.tsx` and `socket.ts`
keeps two refreshes apart, so they overlap. `slipped` marks a token issued to a
call that was past its checks when all sessions were revoked, and what was
refreshed from it.

**Accounts.** `CountOperators` and `CreateOperator` are the two database calls of
`createManagedOperator`. A registration is three: `CheckInvitation` (no such
account, a usable token), `CreateAccount` (which the unique index may refuse) and
`MarkAccepted`; `RegistrationDies` between any two. `CheckResend` and `Resend` replace the token, `Revoke`
and `Expire` end it. The invitation compares addresses without regard to case and
the index with it, so an address has several spellings: that is why a second
account is possible at all.

**NodeStatus.** Time is the age of the last reading against the node's two
limits. The monitor's evaluation loads all nodes at once and updates them one by
one; nothing prevents a second evaluation from starting meanwhile.

**ForecastService.** Of a forecast only its age is kept: `"old"` is one made before the
last clear began. `cooled` says that `openMs` has passed since the circuit opened. A
call asks the providers in order, then writes memory and Redis in two steps; so does
the administrator's clear. `connected` is `redisConnected.value`: each of
the three ways to Redis tries to connect (`EnsureRedisConnection`) and goes on without it
when that fails. For a read that is a miss, for a write nothing more, for a clear a
success (`SkipRedis`, which ends in `"memory only"`); commands on a connected Redis may
fail, and then the call does. An earlier process may have left an entry there.

**LocalSafety.** The adapter is an interface, so each write may take effect or
not, independently of being acknowledged, and each call may throw. The reasons
to refuse a package (identity, signature, expiry, interlock) are one input.

**Curtailment.** The loop over the samples is the state machine; the state is
`pending` and `open`, and `Detected` is what the function would return for the
samples so far. It is compared with `Runs`, the definition of a persistent run.
`Merged[n]` is the list of the second loop after its n-th turn. Samples come at
times of their own, as a series of measurements does; two with one time stamp
would only have to be put in some order first.

**RemoteConfig.** `current`, `previous`, `lastVersion` are the members in RAM,
`lkg` the file and `watermark` the number in NVS; `saving` is the next durable
write. Each write may fail without anybody noticing: the `.tmp` file does not open
(`SaveFails`), the old file is not removed (`RemoveFile`), the new one is cut short or not
renamed (`RenameFile`), NVS does not take the number (`WatermarkLost`). `PowerLoss`
includes the `begin()` that follows it, in which the file system may not mount
(`mounted`), the file may be gone or `Damaged`, and NVS may not open. `setBack` is
history: why a device may now be below its watermark.

**FirmwareLoop.** A tick is half the health timer (15 s). A turn of the loop takes no
time, except for waiting for a bearer; a tick passes after two turns at
least. `kicked[t]` and `fed` are the two levels of the watchdog: the health
timers, and the hardware watchdog that is fed while they are all in time.

**Components.** The modules `Alarms` to `FirmwareLoop` hold fifteen machines that
share no variable in the code either: different tables, a different process, a
different computer. `focus` picks one at the start and the others stand still. Steps of
two machines commute and no property mentions two of them, so every behaviour of
the parallel composition, seen through one property, is a behaviour with one
machine in focus, with stuttering; and the states add up instead of multiplying.
Where components do interact they are composed in full (`EdgeIngest`: device,
network, authentication, ingestion, credentials; `CommandLifecycle`: service and
executor; `PersistentQueue`: loop and queue).

## 3. Runs, bounds and what they show

| run | module, cfg | distinct states | shows |
|---|---|---|---|
| `journaled_queue` | `MCJournaledQueue` | 11,631 | the mirror implements the FIFO (`ImplementsQueue`), leaks no slot, never overwrites its live meta, clears the journal only when the call is settled |
| `firmware_queue` | `MCPersistentQueue` | 747,024 | up to the first power loss the ring is the FIFO whatever writes, renames and removals fail (`FifoUntilPowerLoss`), and at every instant an accepted, unsent record has a copy on flash (`SoleCopyKept`), both unless both renames of a head's rewrite failed; between calls `loadMetaDual` would pick the live meta (`LoadPicksLiveMeta`) |
| `edge_ingest` | `MCEdgeIngest` | 420,188 | one body per number, deletions are of accepted bodies, rows are immutable, loss only by the one interruption, the queue drains |
| `commands` | `MCCommandLifecycle` | 473,588 | executed only if approved by someone entitled to, verified has evidence, a queued command settles unless its call died |
| `components` | `MCComponents` | 968,545 | the properties of the next table |
| `power_cycles_keep_the_queue`, `sequence_numbers_persist`, `acked_measurements_are_stored`, `idempotent_ack_binds_payload`, `terminal_is_final`, `meter_outage_alone_no_reset`, `recoverable_excludes_faults` | violation runs | | section 5 |

What the run `components` shows, machine by machine. "Overtaken" is a call that
loaded a row before another call wrote it.

| module | property | says |
|---|---|---|
| `Alarms` | `EscalationsAndNotesKept` | until an overtaken call writes, the level counts every escalation and the metadata has every note |
| | `ReactivatedOnlyFromCleared` | an alarm becomes active again only by reopening a cleared one |
| `OperatorRecords` | `CaseHistoryComplete` | until two updates overlap, a case's history has every update, and ends with its status |
| | `SettledOrdersStay` | an approval is withdrawn, or a settled order escalated, only when a patch says so, or by an overtaken call |
| `DeviceProvisioning` | `OneActiveKey` | until an overtaken provisioning writes, one active key at most, the latest |
| | `KeysOnlyAdvance` | active, rotating, revoked and never back (but for an overtaken provisioning); a late completion never revokes an active key |
| | `OneConfigServed` | the latest publication is the active one, unless one died half-way or two overlapped |
| `Sessions` | `SuspendedSignedOut` | a suspended user has no live session but one that slipped through the revocation, which can be refreshed for ever |
| | `SessionDroppedOnlyByRace` | the browser loses a live session only by logging out, a lost answer, or a refresh that presented a token another refresh had replaced |
| `Accounts` | `AccountsWithinLimits` | overlapping creations, or a lowered limit, are the only way above the quota; two registrations that overlap, or one that dies before it marks the invitation, are the only way to a second account |
| `NodeStatus` | `MonitorKeepsMaintenance` | the monitor ends maintenance only for a disabled node or on an overtaken snapshot |
| | `SilentNodeReported` | (liveness) a node that stays silent, enabled and out of maintenance is reported offline for good |
| `ForecastService` | `ClosedIffFewFailures` | a circuit is closed exactly while its failures in a row are below the threshold, however late the answers |
| | `ClearedCachesFresh` | when a clear returns without an error, the memory holds nothing old, and Redis nothing old if it was reached, except what a call under way put there |
| `LocalSafety` | `MovesWithinLimits` | the device stays within the limits and moves by more than the ramp only on an overtaken decision |
| | `ReportsHold` | the report of a call nobody overtook is true, except of a rollback the adapter did not carry out |
| `Curtailment` | `EventsAreTheRuns` | each persistent run is in exactly one event, with its cause and its points; equal neighbours are merged |
| `RemoteConfig` | `OldVersionsStayOut` | a device applies only versions above all it ever had, until power is lost before a watermark is written, or NVS loses one |
| | `NotBelowWatermark` | a device at rest runs, and has in its file, a version no older than its watermark, but for a rollback, a save that failed at any call or was cut short by power loss, or a boot without file, file system or watermark |
| `FirmwareLoop` | `QuietDeviceNotReset` | with nothing out of order, and measuring more often than once a minute, no watchdog reset |

Several of these name an overtaken call as their exception. That is what the code
promises, and all it promises: it has no lock and no version column, and an
update of such a call does lose the other one's (`EscalationsAndNotesKept`,
`CaseHistoryComplete`, `OneActiveKey`, `SettledOrdersStay`, `MonitorKeepsMaintenance`). The
property then shows that overlapping is the only way to lose something. Where one
would like to know what overlapping calls may *not* do, another property says so:
`KeysOnlyAdvance`, `SuspendedSignedOut`, `SilentNodeReported`.

Every property of a passing run has a mutant of a modelled definition, defined
next to it in the module under a comment `Mutant:`, that TLC finds to violate it.

**Bounds.**

* Queues: a ring of 3 slots (the firmware's is 2000), 4 to 6 sequence numbers.
  The ring wraps, fills and empties; no operation looks further than one slot
  from head or tail, so larger rings add repetitions. `MaxGen = 16` only stops
  endless power cycling; each crash and recovery costs at most one generation.
  `JournaledQueue` may lose power in every call and during every recovery;
  `PersistentQueue` has one power loss (`MaxBoots = 2`), at any point of any call
  or of the first boot.
* `EdgeIngest`: 2 handlers (an attempt and its retry), 3 measurements, 2
  credentials (a rotation overlap), 2 faults, 1 loss of the queue files. Two
  faults are a time-out of the first attempt and a failure in either. The race
  of a late handler needs two handlers and one fault, reuse of numbers one rewind.
* `CommandLifecycle`: 2 users (a requester and another), 2 calls at once, 1 call
  that dies. Unbounded in time: overrides, readiness and calls repeat for ever,
  and the deadlock check is on.

* `components`: 2 calls at once per service, for ever in most of them
  (`MaxUpdates = 2` bounds only what is counted or appended: escalations, timeline
  entries, updates of a case, keys and configurations (one more), logins,
  ingestions, mails of an invitation). An address has two spellings. A call is overtaken by one other call; a third overtakes it no more. 2
  providers and a threshold of 2: a circuit that opens, cools, is probed, and
  another that does not. Setpoints -1 to 3 with limits 0..2 and ramp 1: below,
  above, within one step and beyond it. 5 samples, persistence 2: two runs with
  one sample between them, at a gap that merges and one that does not (`Gaps`, the
  times between two samples, are 1 and 2); the two
  signs are the one that is never recoverable and the strongest that is. 3
  versions: a rollback and a later publication. `PollTicks = 3` (45 s), back-off up
  to 2 ticks (longer ones only repeat a time-out), a queue of 2.

`CHECK_DEADLOCK FALSE` stands where the bounded model stops: when all
measurements have been delivered, when the last sample has been taken, when
the log of incidents and decisions is full.

## 4. Fairness

Only what the code's loops justify.

* `EdgeIngest`: `WF(\E r : Send(r))`: `loop()` calls `uploadHead()` for ever and any
  answer but 200 or 201 leaves the record at the head. `WF(Receive(r))` and
  `WF(Handle(r))`: an answer arrives, and a database call returns, unless a fault
  (of which there are finitely many) says otherwise. No fairness on measuring,
  operators or faults. Under it `QueueDrains`: the queue is empty again and
  again, unless the device lost its files or its key was revoked, in which cases
  the code does block.
* `CommandLifecycle`: `WF(Proceed(h))`: a call past its checks runs on unless it
  dies. Nobody is obliged to make a call.
* `Components`: `WF` of `EvaluateNode` and of `ReportNode`: the monitor runs on a 60 s
  timer for as long as the server does (`node-health.service.ts:118`), and a run ends. Nothing
  is assumed of readings, operators or the other machines; `SilentNodeReported`
  has its own premise, that the node does stay silent. It needs both: without the
  second a snapshot may wait for ever, without the first nobody looks.
* The queue modules claim safety only and state no fairness.

## 5. Findings

Each is a run in which TLC finds a statement of the repository violated.

1. **A power cycle can lose the head record.** `docs/EDGE_RELIABILITY.md:5`:
   "power cycles must not lose the queue". `atomicWriteJson` renames the slot file
   to `.bak` before `.tmp` takes its place (`persistent_queue.h:168-169`), and
   `markFailureAndBackoffMs` does that to the only copy of the head after every
   failed upload. Power lost in between leaves a `.bak` file no code reads, and a
   queue whose head cannot be peeked. `SoleCopyKept` in the passing run shows
   the bytes are still there: it is the reader that is missing.
2. **Sequence numbers can be reused after a power cycle.** `begin()` recovers the
   journal before it loads the meta (`persistent_queue.h:39-40`), so the recovered
   meta is written with generation 1 and the older meta with a higher generation
   wins. The next measurement gets a number that an accepted one already carries.
3. **An acknowledged measurement may never be stored.** The watermark advances
   (`edgeDeviceAuth.ts:273`) in a statement of its own before the reading is
   created (`reading.service.ts:389`). A handler that ends in between turns the
   device's retry into an idempotent replay, which is acknowledged although no
   receipt and no row exist (`reading.service.ts:583`).
   `AckedLostOnlyByInterruption` in the passing run shows that this is the only
   way, as long as the device keeps its files.
4. **A new measurement can be acknowledged as the duplicate of an old one.**
   `schema.prisma:905`: `lastAcceptedBodyHash` "binds idempotent retries to the same
   payload". Watermark and hash belong to a credential, the reading row and its
   receipt to the device. A device reflashed with a new key, its queue files gone,
   starts again at sequence 1 below no watermark: the insert fails on the unique
   (node, sequence) and the receipt of the old measurement is taken for its own
   (`reading.service.ts:402-437`). `ReadingsImmutable` shows that the old row at
   least is not overwritten.
5. **Terminal command statuses are not final.** `assertTransition` looks at the
   row the call loaded and the update is by id (`command.service.ts:287, 345,
   375, 491`): a submit, decide or execute call that overlaps a cancellation
   overwrites it. A cancelled command may so be executed
   (`ExecutedOnlyIfApproved` shows it was at least approved).
6. **A meter outage alone resets the device.** `GridFlexEdge.ino:70`: "Still kick
   queue health so TWDT does not trip solely from a meter outage". The Queue task
   is kicked; but with nothing to upload `uploadHead()` returns before
   it kicks the Upload task, whose timer then stops the feeding of the watchdog: a
   reset every minute or so. `QuietDeviceNotReset` shows the device without an
   outage is safe if it measures more often than once a minute; the default
   interval (`config.h:26`) is exactly that minute, at the limit.
7. **Energy lost to an equipment fault may be called recoverable.**
   `docs/ARCHITECTURE.md:26`: "recoverable energy excludes equipment faults". Cause and
   recoverability belong to a run and are those of its last sample with a known
   cause (`engine.ts:252-254`). `EventsAreTheRuns` shows that the detection is
   otherwise what it should be.

Smaller things met on the way, visible in the models and not runs of their own:
an acknowledgement or an assignment may overwrite what an overlapping call
noted (`Alarms`); every stored reading ends a node's maintenance
(`reading.service.ts:469`); a report says "rolled back" of a write nobody confirmed
(`local-safety-controller.ts:212`); a refresh that loses against another one clears the
session the other has just renewed (`api.ts:891`); a rollback does not lower the
version watermark, so the version it left cannot be applied again
(`remote_config.h:199`).

## 6. Proofs

Every invariant and every action property that a passing run checks is also a
theorem, checked by the TLA+ proof system for every value of the constants that
satisfies the named assumptions (`MaxRecordsAssumption`, `IngestAssumption`,
`NoneAssumption`, `QueueAssumption`, `CommandAssumption`, `NoRowAssumption`,
`CurtailmentAssumption`, ...): bounds are naturals, capacities positive,
`None` is none of the values it is distinguished from, and a sample is later than
the one before.

| module | theorem | says |
|---|---|---|
| `EdgeIngest_proofs` | `Invariance` | `Spec => []IInv` |
| | `TypeCorrect`, `OneBody`, `AckedAccepted` | its consequences `TypeOK`, `OneBodyPerSequence`, `AckedWasAccepted` |
| | `RowsImmutable` | the action property `ReadingsImmutable` |
| | `LossOnlyByInterruption` | `AckedLostOnlyByInterruption` |
| `JournaledQueue_proofs` | `ImplementsFifo` | the refinement `ImplementsQueue`: the ring is the FIFO |
| | `QueueInvariant` | `Spec => []QInv` |
| | `TypeCorrect`, `NoSlotLeaks`, `LiveMetaSafe`, `ClearedWhenSettled` | `TypeOK`, `NoStaleSlots`, `LiveMetaNotTarget`, `JournalClearedWhenSettled` |
| `CommandLifecycle_proofs` | `Invariance` | `Spec => []IInv` |
| | `TypeCorrect`, `ExecutionApproved`, `VerifiedRecorded` | `TypeOK`, `ExecutedOnlyIfApproved`, `VerifiedHasExecution` |
| `StoreAndForwardQueue_proofs` | `NumberingContiguous` | unsent records carry consecutive numbers ending below the cursor |
| `PersistentQueue_proofs` | `PInvariant` | `Spec => []PInv` |
| | `TypeCorrect`, `LoadedMetaIsLive`, `SoleCopySurvives` | `TypeOK`, `LoadPicksLiveMeta`, `SoleCopyKept` |
| | `FifoInFirstLife` | the refinement `FifoUntilPowerLoss`: until power is first lost the firmware's queue is the FIFO |
| `Records_proofs` | `AlarmUpdatesKept`, `AlarmReopenedNotReactivated` | `EscalationsAndNotesKept`, `ReactivatedOnlyFromCleared` |
| | `CaseHistoriesKept`, `SettledOrdersKept` | `CaseHistoryComplete`, `SettledOrdersStay` |
| | `NodeHasOneActiveKey`, `RetiredKeysStayRetired`, `LatestConfigServed` | `OneActiveKey`, `KeysOnlyAdvance`, `OneConfigServed` |
| | `RestingDeviceNotBelowWatermark`, `DeviceAppliesOnlyNewer` | `NotBelowWatermark`, `OldVersionsStayOut` |
| `Services_proofs` | `MaintenanceKept`, `AccountsLimited` | `MonitorKeepsMaintenance`, `AccountsWithinLimits` |
| | `CircuitsFollowFailures`, `ClearingCachesClears` | `ClosedIffFewFailures`, `ClearedCachesFresh` |
| | `SuspensionSignsOut`, `LiveSessionsDroppedByRaceOnly` | `SuspendedSignedOut`, `SessionDroppedOnlyByRace` |
| | `ReportsAreTrue`, `DeviceMovesWithinLimits` | `ReportsHold`, `MovesWithinLimits` |
| `Components_proofs` | `QuietDevicesRun` | `QuietDeviceNotReset` |
| | `CurtailmentInvariant`, `EventsAreRuns` | `CurtailmentSpec => []CurtailmentInv`, `EventsAreTheRuns` |
| | `ComponentsBehave` | `Spec` implements `AlarmSpec`, `LogSpec`, `CaseSpec`, ..., `FirmwareSpec` |
| | `ComponentsTyped` | `TypeOK` |
| | `ComponentsSafe`, `ComponentsMove` | all invariants and all action properties of the run `components`, of the composition |

The theorems of `Records_proofs` and `Services_proofs` are about each machine's own
specification (`AlarmSpec`, `KeySpec`, ...), in which its steps are all there are.
`ComponentsBehave` carries them over: the composition begins each machine as its
specification does (`InitsAreTheirs`), and each of its steps is a step of the machine
in focus and a stutter of every other (`StepsAreTheirs`). So it implements all
fifteen, and what holds of one of them holds of the whole.

**EdgeIngest.** That a number is accepted for one body only does not follow from
its own truth: the step that could break it is another advance. `IInv` adds
`GrantedUpToWatermark` (everything accepted is at or below the watermark, and at
it only the last body), so that a conditional advance, strictly above, accepts
a new number; `WatermarkGranted` (the watermark itself was accepted), so that a
replay recognised by equality is of an accepted body; and `AdmittedGranted`
(a handler past authentication works for an accepted body), which carries
that from the comparison to the answer and so to `AckedWasAccepted`.
For the losses, `KeptInv` speaks of every accepted body and not only of the deleted
ones: each is stored, held by a handler past the watermark, or interrupted. The
step that could break it is a handler that finds its row taken. While the device
keeps its files a number *is* its body (`NumbersAreBodies`), so that row
holds that same body.

**JournaledQueue.** Remainders go first: `Ring` and `Offset` say the same with a
comparison, the window is the positions whose offset from the head is below the count, and
`WindowGrows` and `WindowShrinks` are all the arithmetic the steps need. `QInv` then says,
stage by stage, how the journal stands to the live meta, *ahead* of it by one
operation or *committed*, and which slots outside the window are in use: none (`Exact`) or only
the journal's (`Loose`). A power loss forgets the stage but neither of these, which is
why recovery may repeat a commit: repeated, it is a stutter of the FIFO. A
commit from *ahead* is the abstract `Enqueue` or `Acknowledge`.

**PersistentQueue.** Two things are proved of different stretches of time.
For ever, over any number of power losses: types (`TypeInv`, where `BakOK` says
which write a `.bak` file belongs to), and `MetaInv`, that the live buffer holds
the cursors in RAM and the other one is `Older`, by generation or by losing the
tie. It must speak of the `.bak` file too: in the middle of its two
renames the buffer being written is missing, put back if the second one fails, and
the next boot has to prefer the live one either way. `LoadPicksLiveMeta` is this at rest,
and speaks of `loadMetaDual` alone: a boot that finds a journal (one is left by a failed
meta write, or a failed removal) writes a meta before it loads one, and what that
does is the second finding.
Until power is first lost, and unless `headLost`: `FirstLife`. A device is booting for the first time
(`FirstBoot`: no file, nothing accepted), or off with every record on flash (`Copies`),
or running with `WindowHeld`, where every position between head and tail holds a record with
a number handed out, and an accepted measurement the server does not have is at one
of them, and with `StageInv`, which follows a call through its durable writes. The
step that could lose the only copy is the retry's replacement of the head's slot;
its `retry-data` clause says that the slot is empty exactly while the `.bak` holds
what it had. From `WindowHeld` the refinement follows: the adoption of a new meta is the abstract
`Enqueue` or `Acknowledge`, everything else a stutter. Past the first power loss neither half
holds, which is what the first two findings are.

**CommandLifecycle.** The hazard is that a write applies to a row that has
changed since it was checked, so the invariant speaks about the calls in
progress: `SignersEntitled` (whoever is about to sign may sign, and the requester
of a command never changes), `ExecutingApproved` (a call on its way to execute
found the command approved, and approvals are never deleted),
`SettlesItsExecution`, and `NothingBeforeProposal`. The conclusion holds although
`TerminalIsFinal` does not.

**The services.** One idea carries the proofs of `Alarms`, `OperatorRecords`,
`DeviceProvisioning`, `NodeStatus`, the quota and `LocalSafety`: *a call nobody
overtook still holds the row it loaded*. `FreshCallsHoldTheRow`,
`FreshCaseCalls`, `FreshOrderCalls`, `FreshKeyCalls`, `FreshSnapshots` and
`FreshCounts` say it for each service, as far as the call depends on the row;
`Finish` marks everybody else whenever somebody writes, which is
all the step lemmas need. Two of them need more. For the keys, "latest" is by
version and not by creation, so `VersionsIncrease` ties the two orders together; and
`FoundNotActive` says that what a completion found rotating never becomes active
again, so that revoking it late is harmless. For the safety controller
`DeviceAsDecided` follows the call through its stages: what the device holds
while the call is between its write and its report.

**RemoteConfig.** `RemoteInductive` ties the three copies of the version together at
every point of the save. The watermark is below the version being applied until
the last write, which is why a power loss leaves the device able to take that
version again, and why only a loss *before* the watermark, or NVS losing it, lets the
device take an older one than it had. `setBack` is set wherever the file and the
configuration part from what was last applied and saved; without it the two and the
watermark are in order at every step of the next save.

**ForecastService.** The equivalence of `ClosedIffFewFailures` is inductive once
typed: success resets both sides, failure counts up to the threshold,
and a half-open circuit has reached it. For the caches, `CachesInv` follows
a clear through its two halves: unless a call under way wrote meanwhile, memory
holds nothing old from its first half on, Redis from its second, if it was reached.

**Sessions and accounts.** `SessionInv` says of every call what its stage implies
(`CallOK`: a session it was refused for has ended, a suspension has yet to revoke),
and of a suspended user that whoever is about to issue a session was overtaken or renews one
that had slipped (`Excused`). The revocation establishes it for all calls at once,
and no later check lets another through. `InviteInv` needs the two facts a
registration relies on between its checks and its writes: `AloneUnlessOverlapped`
and `MarkedOrMarking`.

**FirmwareLoop.** `QuietDeviceNotReset` names a set that is recorded when the watchdog
bites; that it is never empty needs an account of every timer at every step of the
loop. `InTime` is that account for a device with nothing out of order: Modbus, Queue
and (once its upload is over) Upload were kicked no longer ago than the last measurement,
which is less than a polling interval ago when a turn has ended; TimeSync and Network were
kicked in this turn; and after the first turn of a tick the watchdog has been
fed. It holds while `outages = {}`, and
with something out of order there is nothing to show.

**Curtailment.** The first loop is an invariant of the machine: `Lists(open, ...)`
(the list *is* the runs that have ended, in their order, each with its
points and cause) and `UnderWay` (`pending` is everything since the run began).
A sample that is not curtailed moves the latter into the former; one that is
extends the latter and changes nothing of the former, because a run that ended is not
touched by later samples (`SamePrefix`). The second loop is a recursive function,
and `Merges(Merged[n], list, n)` is proved of its every turn: each of the first n intervals is in
an event of its cause, an event begins with its first and ends with its last
interval and has their points, the events are in order, and neighbours of one cause are
further apart than the gap. Uniqueness, minimum and maximum follow from the order.
The library's induction theorems take an operator as a parameter, which the provers
cannot instantiate. What they do take is that strict inclusion of finite sets is well-founded:
`LeastNumber` derives from it that a set of bounded numbers has a least element, and a
least counterexample replaces the induction (`MergingDefined`: the function exists;
`AllMerged`: it does what is said).

**Model-checked only.** Liveness (`QueueDrains`, `QueuedSettles`,
`SilentNodeReported`), out of the proof system's reach. No module uses a recursive
operator; the one recursive function is `Merged`.

## 7. What is not modelled, and why

* In modelled components: the one-off migration of a legacy `meta.json`
  (`persistent_queue.h:249-268`), queue files that are unreadable JSON, and a
  `.bak` file that outlives the write that made it (nobody reads one); back-off
  delays and retry counters; the legacy shared-key ingestion path; the expiry of
  nonces; body validation; audit rows and tenant scope; `revokeDeviceCredential`;
  `expireCommandIfNeeded`, which nothing calls; the arming flags (execution on
  physical plant is refused with and without them).
* In the components of the run `components`: alarm rules (nothing evaluates them);
  requests to restart a node; the browser's tabs (one is modelled) and the lifetime of
  tokens (an expired one is refused like a revoked one); password policy;
  the debug counters and the warming job of the forecasts, and their providers' data; the OTA
  confirmation (`confirmBoot`) and which bearer is tried when; interlocks, signatures and
  limits one by one.
* Numerical code (optimisation, recovery scoring, the numbers of a forecast):
  functions of real-valued series, without state. They are the larger part of
  the lines no definition stands for, together with the next item.
* CRUD, queries, socket fan-out, metrics, chat and the frontend's pages: no protocol
  state anything else relies on.
* Simulation runs: a scheduler of synthetic readings for demonstrations.
* The plant gateway: register decoding, and a transport that only reads.
* Cryptography: a signature is taken to verify exactly when the device made it.

## 8. Plan

What is left, in this order.

1. `EdgeIngest`: body validation after the watermark (`reading.routes.ts:18`) and the
   configuration pull on the same watermark, with sequence 0
   (`GridFlexEdge.ino:193`); the hazards without a property name them.
2. Proofs: what of the firmware's queue survives a second power loss. `FirstLife` ends
   at the first one; a weaker statement, of the records themselves and not of their numbers,
   may hold for longer.
3. Simulation runs: a tick that overlaps a stop.
4. The two bearers of the network manager and their common attempt time.

Abstract specifications worth stating: the FIFO (done), a
register with compare-and-set (the services promise one and implement
less; the flag `overtaken` measures the difference).
