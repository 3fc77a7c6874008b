--------------------------- MODULE Records_proofs ---------------------------
(***************************************************************************)
(* Theorems about the records the services keep (Alarms, OperatorRecords,  *)
(* DeviceProvisioning), for every set of calls and every number of keys    *)
(* and publications, and about the device's side of a configuration        *)
(* (RemoteConfig), for every number of versions.                           *)
(***************************************************************************)
EXTENDS Alarms, OperatorRecords, DeviceProvisioning, RemoteConfig, TLAPS

-----------------------------------------------------------------------------
(* Alarms.                                                                 *)

\* A call nobody overtook holds the row: what both properties rest on.
AlarmInv == AlarmTypeOK /\ FreshCallsHoldTheRow /\ EscalationsAndNotesKept

LEMMA IdleAlarmCall == AlarmIdle \in AlarmCall /\ ~AlarmIdle.overtaken /\ AlarmIdle.op = "idle"
BY DEF AlarmIdle, AlarmCall, Severity

\* When a call has ended, every other call in progress is overtaken.
LEMMA AlarmCallsOvertaken ==
    ASSUME NEW c \in Calls, alarmCalls \in [Calls -> AlarmCall]
    PROVE  /\ Finish(alarmCalls, c, AlarmIdle) \in [Calls -> AlarmCall]
           /\ \A d \in Calls : Finish(alarmCalls, c, AlarmIdle)[d] # AlarmIdle
                                 => Finish(alarmCalls, c, AlarmIdle)[d].overtaken
<1> DEFINE after(d) == IF d = c THEN AlarmIdle
                       ELSE [alarmCalls[d] EXCEPT !.overtaken = alarmCalls[d] # AlarmIdle]
<1>1. ASSUME NEW d \in Calls
      PROVE  after(d) \in AlarmCall /\ (after(d) # AlarmIdle => after(d).overtaken)
  <2>1. CASE d = c
      BY <2>1, IdleAlarmCall
  <2>2. CASE d # c /\ alarmCalls[d] = AlarmIdle
    <3>1. [AlarmIdle EXCEPT !.overtaken = FALSE] = AlarmIdle
        BY IdleAlarmCall DEF AlarmCall
    <3>2. after(d) = [AlarmIdle EXCEPT !.overtaken = FALSE]
        BY <2>2
    <3> HIDE DEF after
    <3> QED
        BY <3>1, <3>2, IdleAlarmCall
  <2>3. CASE d # c /\ alarmCalls[d] # AlarmIdle
    <3>1. alarmCalls[d] \in AlarmCall
        OBVIOUS
    <3> QED
        BY <2>3, <3>1 DEF AlarmCall
  <2> QED
      BY <2>1, <2>2, <2>3
<1> QED
    BY <1>1 DEF Finish

LEMMA AlarmInitInv == AlarmInit => AlarmInv
<1> SUFFICES ASSUME AlarmInit PROVE AlarmInv
    OBVIOUS
<1>1. AlarmTypeOK
  <2>1. alarm \in AlarmRow
      BY DEF AlarmInit, AlarmRow, AlarmStatus, Severity
  <2>2. alarmCalls \in [Calls -> AlarmCall]
      BY IdleAlarmCall DEF AlarmInit
  <2>3. escalations \in Nat /\ noted \in SUBSET AlarmNotes /\ alarmStale \in BOOLEAN
      BY DEF AlarmInit
  <2> QED
      BY <2>1, <2>2, <2>3 DEF AlarmTypeOK
<1>2. FreshCallsHoldTheRow /\ EscalationsAndNotesKept
    BY DEF AlarmInit, FreshCallsHoldTheRow, EscalationsAndNotesKept
<1> QED
    BY <1>1, <1>2 DEF AlarmInv

\* What loading does to the invariant.
LEMMA LoadAlarmKeepsInv ==
    ASSUME AlarmInv, NEW c \in Calls, NEW op \in AlarmOps, LoadAlarm(c, op)
    PROVE  AlarmInv'
<1> DEFINE call == [op |-> op, level |-> alarm.level, severity |-> alarm.severity,
                    metadata |-> alarm.metadata, overtaken |-> FALSE]
<1>1. call \in AlarmCall
    BY DEF AlarmInv, AlarmTypeOK, AlarmRow, AlarmCall, AlarmOps
<1>2. /\ alarmCalls' = [alarmCalls EXCEPT ![c] = call]
      /\ UNCHANGED <<alarm, escalations, noted, alarmStale>>
      /\ op = "reopen" => alarm.status = "cleared"
    BY DEF LoadAlarm
<1>3. AlarmTypeOK'
    BY <1>1, <1>2 DEF AlarmInv, AlarmTypeOK
<1>4. FreshCallsHoldTheRow'
  <2> SUFFICES ASSUME NEW d \in Calls, alarmCalls'[d] # AlarmIdle, ~alarmCalls'[d].overtaken
               PROVE  /\ alarmCalls'[d].level = alarm'.level
                      /\ alarmCalls'[d].severity = alarm'.severity
                      /\ alarmCalls'[d].metadata = alarm'.metadata
                      /\ alarmCalls'[d].op = "reopen" => alarm'.status = "cleared"
      BY DEF FreshCallsHoldTheRow
  <2>1. CASE d = c
      BY <1>2, <2>1 DEF AlarmInv, AlarmTypeOK
  <2>2. CASE d # c
      BY <1>2, <2>2 DEF AlarmInv, AlarmTypeOK, FreshCallsHoldTheRow
  <2> QED
      BY <2>1, <2>2
<1>5. EscalationsAndNotesKept'
    BY <1>2 DEF AlarmInv, EscalationsAndNotesKept
<1> QED
    BY <1>3, <1>4, <1>5 DEF AlarmInv

\* What an update by id does to it.
LEMMA WriteAlarmKeepsInv ==
    ASSUME AlarmInv, NEW c \in Calls, NEW row \in AlarmRow, WriteAlarm(c, row),
           alarmCalls[c].op # "idle", escalations' \in Nat,
           ~alarmStale /\ ~alarmCalls[c].overtaken
              => /\ row.level = escalations'
                 /\ row.metadata = noted \cup ({alarmCalls[c].op} \cap AlarmNotes)
    PROVE  AlarmInv'
<1>1. /\ alarm' = row
      /\ noted' = noted \cup ({alarmCalls[c].op} \cap AlarmNotes)
      /\ alarmStale' = (alarmStale \/ alarmCalls[c].overtaken)
      /\ alarmCalls' = Finish(alarmCalls, c, AlarmIdle)
    BY DEF WriteAlarm
<1>2. alarmCalls[c] \in AlarmCall /\ alarmCalls \in [Calls -> AlarmCall]
    BY DEF AlarmInv, AlarmTypeOK
<1>3. AlarmTypeOK'
  <2>1. alarmCalls' \in [Calls -> AlarmCall]
      BY <1>1, <1>2, AlarmCallsOvertaken
  <2>2. alarmStale' \in BOOLEAN
      BY <1>1
  <2> QED
      BY <1>1, <2>1, <2>2 DEF AlarmInv, AlarmTypeOK
<1>4. FreshCallsHoldTheRow'
    BY <1>1, <1>2, AlarmCallsOvertaken DEF FreshCallsHoldTheRow
<1>5. EscalationsAndNotesKept'
    BY <1>1 DEF EscalationsAndNotesKept
<1> QED
    BY <1>3, <1>4, <1>5 DEF AlarmInv

\* The calls that may write, and what they hold.
LEMMA AlarmCallFacts ==
    ASSUME AlarmInv, NEW c \in Calls, alarmCalls[c].op # "idle"
    PROVE  /\ alarmCalls[c] \in AlarmCall /\ alarm \in AlarmRow
           /\ alarmCalls[c].op \in AlarmOps
           /\ ~alarmStale /\ ~alarmCalls[c].overtaken
                => /\ alarmCalls[c].level = escalations
                   /\ alarm.level = escalations
                   /\ alarm.metadata = noted
                   /\ alarmCalls[c].metadata = noted
<1>1. alarmCalls[c] \in AlarmCall /\ alarm \in AlarmRow
    BY DEF AlarmInv, AlarmTypeOK
<1>2. alarmCalls[c] # AlarmIdle
    BY IdleAlarmCall
<1> QED
    BY <1>1, <1>2 DEF AlarmInv, FreshCallsHoldTheRow, EscalationsAndNotesKept, AlarmCall

LEMMA AlarmNextInv == AlarmInv /\ [AlarmNext]_alarmVars => AlarmInv'
<1> SUFFICES ASSUME AlarmInv, [AlarmNext]_alarmVars PROVE AlarmInv'
    OBVIOUS
<1>1. ASSUME NEW c \in Calls, NEW op \in AlarmOps, LoadAlarm(c, op) PROVE AlarmInv'
    BY <1>1, LoadAlarmKeepsInv
<1>2. ASSUME NEW c \in Calls, Acknowledge(c) PROVE AlarmInv'
  <2> DEFINE row == [alarm EXCEPT !.status = "acknowledged"]
  <2>1. alarmCalls[c].op = "acknowledge" /\ WriteAlarm(c, row) /\ escalations' = escalations
      BY <1>2 DEF Acknowledge
  <2>2. row \in AlarmRow /\ row.level = alarm.level /\ row.metadata = alarm.metadata
      BY <2>1, AlarmCallFacts DEF AlarmRow, AlarmStatus
  <2>3. {"acknowledge"} \cap AlarmNotes = {} /\ escalations' \in Nat
      BY <2>1 DEF AlarmNotes, AlarmInv, AlarmTypeOK
  <2> QED
      BY <2>1, <2>2, <2>3, AlarmCallFacts, WriteAlarmKeepsInv
<1>3. ASSUME NEW c \in Calls, Clear(c) PROVE AlarmInv'
  <2> DEFINE row == [alarm EXCEPT !.status = "cleared", !.clearedAt = TRUE,
                                  !.metadata = Noting(c)]
  <2>1. alarmCalls[c].op = "clear" /\ WriteAlarm(c, row) /\ escalations' = escalations
      BY <1>3 DEF Clear
  <2>2. /\ row \in AlarmRow /\ row.level = alarm.level
        /\ row.metadata = alarmCalls[c].metadata \cup {"clear"}
      BY <2>1, AlarmCallFacts DEF AlarmRow, AlarmStatus, AlarmNotes, AlarmCall, Noting
  <2>3. {"clear"} \cap AlarmNotes = {"clear"} /\ escalations' \in Nat
      BY <2>1 DEF AlarmNotes, AlarmInv, AlarmTypeOK
  <2> QED
      BY <2>1, <2>2, <2>3, AlarmCallFacts, WriteAlarmKeepsInv
<1>4. ASSUME NEW c \in Calls, Assign(c) PROVE AlarmInv'
  <2> DEFINE row == [alarm EXCEPT !.metadata = Noting(c)]
  <2>1. alarmCalls[c].op = "assign" /\ WriteAlarm(c, row) /\ escalations' = escalations
      BY <1>4 DEF Assign
  <2>2. /\ row \in AlarmRow /\ row.level = alarm.level
        /\ row.metadata = alarmCalls[c].metadata \cup {"assign"}
      BY <2>1, AlarmCallFacts DEF AlarmRow, AlarmNotes, AlarmCall, Noting
  <2>3. {"assign"} \cap AlarmNotes = {"assign"} /\ escalations' \in Nat
      BY <2>1 DEF AlarmNotes, AlarmInv, AlarmTypeOK
  <2> QED
      BY <2>1, <2>2, <2>3, AlarmCallFacts, WriteAlarmKeepsInv
<1>5. ASSUME NEW c \in Calls, Escalate(c) PROVE AlarmInv'
  <2> DEFINE severity == IF alarmCalls[c].severity = 4 THEN 4 ELSE alarmCalls[c].severity + 1
             row == [alarm EXCEPT !.level = alarmCalls[c].level + 1,
                                  !.severity = severity, !.metadata = Noting(c)]
  <2>1. alarmCalls[c].op = "escalate" /\ WriteAlarm(c, row) /\ escalations' = escalations + 1
      BY <1>5 DEF Escalate
  <2>2. alarmCalls[c] \in AlarmCall /\ alarm \in AlarmRow
      BY <2>1, AlarmCallFacts
  <2>3. severity \in Severity /\ alarmCalls[c].level + 1 \in Nat
      BY <2>2 DEF AlarmCall, Severity
  <2>4. /\ row \in AlarmRow /\ row.level = alarmCalls[c].level + 1
        /\ row.metadata = alarmCalls[c].metadata \cup {"escalate"}
    <3>1. Noting(c) \in SUBSET AlarmNotes /\ Noting(c) = alarmCalls[c].metadata \cup {"escalate"}
        BY <2>1, <2>2 DEF AlarmNotes, AlarmCall, Noting
    <3> HIDE DEF severity
    <3> QED
        BY <2>2, <2>3, <3>1 DEF AlarmRow
  <2>5. {"escalate"} \cap AlarmNotes = {"escalate"} /\ escalations' \in Nat
      BY <2>1 DEF AlarmNotes, AlarmInv, AlarmTypeOK
  <2> HIDE DEF row
  <2> QED
      BY <2>1, <2>4, <2>5, AlarmCallFacts, WriteAlarmKeepsInv
<1>6. ASSUME NEW c \in Calls, Reopen(c) PROVE AlarmInv'
  <2> DEFINE row == [alarm EXCEPT !.status = "active", !.clearedAt = FALSE,
                                  !.metadata = Noting(c)]
  <2>1. alarmCalls[c].op = "reopen" /\ WriteAlarm(c, row) /\ escalations' = escalations
      BY <1>6 DEF Reopen
  <2>2. /\ row \in AlarmRow /\ row.level = alarm.level
        /\ row.metadata = alarmCalls[c].metadata \cup {"reopen"}
      BY <2>1, AlarmCallFacts DEF AlarmRow, AlarmStatus, AlarmNotes, AlarmCall, Noting
  <2>3. {"reopen"} \cap AlarmNotes = {"reopen"} /\ escalations' \in Nat
      BY <2>1 DEF AlarmNotes, AlarmInv, AlarmTypeOK
  <2> QED
      BY <2>1, <2>2, <2>3, AlarmCallFacts, WriteAlarmKeepsInv
<1>7. CASE UNCHANGED alarmVars
    BY <1>7 DEF alarmVars, AlarmInv, AlarmTypeOK, FreshCallsHoldTheRow, EscalationsAndNotesKept
<1> QED
    BY <1>1, <1>2, <1>3, <1>4, <1>5, <1>6, <1>7 DEF AlarmNext

-----------------------------------------------------------------------------
\* The inductive invariant holds in every reachable state.
THEOREM AlarmInvariant == AlarmSpec => []AlarmInv
<1> QED
    BY AlarmInitInv, AlarmNextInv, PTL DEF AlarmSpec

\* Rows and calls keep their types (alarm.service.ts:208-418).
THEOREM AlarmTypesKept == AlarmSpec => []AlarmTypeOK
<1>1. AlarmInv => AlarmTypeOK
    BY DEF AlarmInv
<1> QED
    BY <1>1, AlarmInvariant, PTL

\* However many calls interleave, levels and notes are lost only to a call that
\* wrote what it had made of a row changed since (alarm.service.ts:329-375).
THEOREM AlarmUpdatesKept == AlarmSpec => []EscalationsAndNotesKept
<1>1. AlarmInv => EscalationsAndNotesKept
    BY DEF AlarmInv
<1> QED
    BY <1>1, AlarmInvariant, PTL

\* An alarm becomes active again only by reopening a cleared one, or by a
\* reopening that another call has overtaken (alarm.service.ts:377-418).
THEOREM AlarmReopenedNotReactivated == AlarmSpec => ReactivatedOnlyFromCleared
<1>1. ASSUME AlarmInv, AlarmNext, Reactivated
      PROVE  ByReopening
  <2>1. PICK c \in Calls : \/ \E op \in AlarmOps : LoadAlarm(c, op)
                           \/ Acknowledge(c) \/ Clear(c) \/ Assign(c) \/ Escalate(c)
                           \/ Reopen(c)
      BY <1>1 DEF AlarmNext
  <2>2. alarm \in AlarmRow /\ alarmCalls \in [Calls -> AlarmCall]
      BY <1>1 DEF AlarmInv, AlarmTypeOK
  <2> USE <1>1 DEF Reactivated, ByReopening
  <2>3. alarm' # alarm
      OBVIOUS
  <2>4. ~Acknowledge(c) /\ ~Clear(c)
      BY <1>1, <2>2 DEF Acknowledge, Clear, WriteAlarm, AlarmRow
  <2>5. ~Assign(c) /\ ~Escalate(c)
      BY <1>1, <2>2 DEF Assign, Escalate, WriteAlarm, AlarmRow
  <2>6. Reopen(c)
      BY <2>1, <2>3, <2>4, <2>5 DEF LoadAlarm
  <2>7. alarmCalls[c].op = "reopen" /\ alarmCalls'[c] = AlarmIdle
      BY <2>6 DEF Reopen, WriteAlarm, Finish
  <2>8. alarmCalls[c].overtaken \/ alarm.status = "cleared"
      BY <1>1, <2>7, IdleAlarmCall DEF AlarmInv, FreshCallsHoldTheRow
  <2> QED
      BY <2>7, <2>8
<1>2. AlarmInv /\ [AlarmNext]_alarmVars => [Reactivated => ByReopening]_alarm
    BY <1>1 DEF alarmVars, Reactivated
<1> QED
    BY <1>2, AlarmInvariant, PTL DEF AlarmSpec, ReactivatedOnlyFromCleared

-----------------------------------------------------------------------------
(* Recovery cases and work orders.                                         *)

CaseTypeOK ==
    /\ case \in [status : CaseStatus, history : Seq(CaseStatus)]
    /\ caseCalls \in [Calls -> CaseCall]
    /\ caseUpdates \in Nat
    /\ caseStale \in BOOLEAN

OrderTypeOK == order \in OrderRow /\ orderCalls \in [Calls -> OrderCall]

\* Calls nobody overtook hold what they decided on: what the properties rest on.
CaseInv == CaseTypeOK /\ FreshCaseCalls /\ CaseHistoryComplete
OrderInv == OrderTypeOK /\ FreshOrderCalls

LEMMA IdleCalls ==
    /\ CaseIdle \in CaseCall /\ ~CaseIdle.overtaken /\ CaseIdle.status = "idle"
    /\ OrderIdle \in OrderCall /\ ~OrderIdle.overtaken /\ ~OrderIdle.busy
<1>1. <<>> \in Seq(CaseStatus)
    OBVIOUS
<1> QED
    BY <1>1 DEF CaseIdle, CaseCall, CaseStatus, OrderIdle, OrderCall, OrderStatus, ApprovalStatus

\* When a call has ended, every other call in progress is overtaken, and
\* nothing else about it has changed.
LEMMA FinishCase ==
    ASSUME NEW c \in Calls, caseCalls \in [Calls -> CaseCall]
    PROVE  /\ Finish(caseCalls, c, CaseIdle) \in [Calls -> CaseCall]
           /\ \A d \in Calls : Finish(caseCalls, c, CaseIdle)[d] # CaseIdle
                                 => Finish(caseCalls, c, CaseIdle)[d].overtaken
<1> DEFINE after(d) == IF d = c THEN CaseIdle
                       ELSE [caseCalls[d] EXCEPT !.overtaken = caseCalls[d] # CaseIdle]
<1>1. ASSUME NEW d \in Calls
      PROVE  after(d) \in CaseCall /\ (after(d) # CaseIdle => after(d).overtaken)
  <2>1. CASE d = c
      BY <2>1, IdleCalls
  <2>2. CASE d # c /\ caseCalls[d] = CaseIdle
    <3>1. [CaseIdle EXCEPT !.overtaken = FALSE] = CaseIdle
        BY IdleCalls DEF CaseCall
    <3>2. after(d) = [CaseIdle EXCEPT !.overtaken = FALSE]
        BY <2>2
    <3> HIDE DEF after
    <3> QED
        BY <3>1, <3>2, IdleCalls
  <2>3. CASE d # c /\ caseCalls[d] # CaseIdle
    <3>1. caseCalls[d] \in CaseCall
        OBVIOUS
    <3> QED
        BY <2>3, <3>1 DEF CaseCall
  <2> QED
      BY <2>1, <2>2, <2>3
<1> QED
    BY <1>1 DEF Finish

LEMMA FinishOrder ==
    ASSUME NEW c \in Calls, orderCalls \in [Calls -> OrderCall]
    PROVE  /\ Finish(orderCalls, c, OrderIdle) \in [Calls -> OrderCall]
           /\ \A d \in Calls : Finish(orderCalls, c, OrderIdle)[d].busy
                                 => Finish(orderCalls, c, OrderIdle)[d].overtaken
<1> DEFINE after(d) == IF d = c THEN OrderIdle
                       ELSE [orderCalls[d] EXCEPT !.overtaken = orderCalls[d] # OrderIdle]
<1>1. ASSUME NEW d \in Calls
      PROVE  after(d) \in OrderCall /\ (after(d).busy => after(d).overtaken)
  <2>1. CASE d = c
      BY <2>1, IdleCalls
  <2>2. CASE d # c
    <3>1. orderCalls[d] \in OrderCall
        OBVIOUS
    <3>2. orderCalls[d].busy => orderCalls[d] # OrderIdle
        BY IdleCalls
    <3>3. (orderCalls[d] # OrderIdle) \in BOOLEAN
        OBVIOUS
    <3> DEFINE late == orderCalls[d] # OrderIdle
    <3>4. after(d) = [orderCalls[d] EXCEPT !.overtaken = late]
        BY <2>2
    <3> HIDE DEF late, after
    <3>5. orderCalls[d].busy => late
        BY <3>2 DEF late
    <3>6. late \in BOOLEAN
        BY DEF late
    <3> QED
        BY <3>1, <3>4, <3>5, <3>6 DEF OrderCall
  <2> QED
      BY <2>1, <2>2
<1> QED
    BY <1>1 DEF Finish

-----------------------------------------------------------------------------
(* Recovery cases.                                                         *)

LEMMA CaseInitInv == CaseInit => CaseInv
<1> SUFFICES ASSUME CaseInit PROVE CaseInv
    OBVIOUS
<1>1. case \in [status : CaseStatus, history : Seq(CaseStatus)]
    BY DEF CaseInit, CaseStatus
<1>2. caseCalls \in [Calls -> CaseCall]
    BY IdleCalls DEF CaseInit
<1>3. CaseTypeOK
    BY <1>1, <1>2 DEF CaseInit, CaseTypeOK
<1>4. FreshCaseCalls /\ CaseHistoryComplete
    BY DEF CaseInit, FreshCaseCalls, CaseHistoryComplete
<1> QED
    BY <1>3, <1>4 DEF CaseInv

LEMMA LoadCaseKeepsInv ==
    ASSUME CaseInv, NEW c \in Calls, NEW patch \in CaseStatus \cup {NoPatch}, LoadCase(c, patch)
    PROVE  CaseInv'
<1> DEFINE next == IF patch = NoPatch THEN case.status ELSE patch
           call == [status |-> patch, next |-> next, history |-> case.history, overtaken |-> FALSE]
<1>1. case.history \in Seq(CaseStatus) /\ case.status \in CaseStatus
    BY DEF CaseInv, CaseTypeOK
<1>2. next \in CaseStatus
    BY <1>1
<1>3. call \in CaseCall
  <2> HIDE DEF next
  <2> QED
      BY <1>1, <1>2 DEF CaseCall
<1>4. /\ caseCalls' = [caseCalls EXCEPT ![c] = call]
      /\ UNCHANGED <<case, caseUpdates, caseStale>>
    BY DEF LoadCase
<1>5. /\ call.history = case.history
      /\ call.next = IF call.status = NoPatch THEN case.status ELSE call.status
    OBVIOUS
<1> HIDE DEF call
<1>6. CaseTypeOK'
    BY <1>3, <1>4 DEF CaseInv, CaseTypeOK
<1>7. FreshCaseCalls'
    BY <1>3, <1>4, <1>5 DEF CaseInv, CaseTypeOK, FreshCaseCalls
<1>8. CaseHistoryComplete'
    BY <1>4 DEF CaseInv, CaseHistoryComplete
<1> QED
    BY <1>6, <1>7, <1>8 DEF CaseInv

LEMMA UpdateCaseKeepsInv ==
    ASSUME CaseInv, NEW c \in Calls, UpdateCase(c)
    PROVE  CaseInv'
<1> DEFINE call == caseCalls[c]
           row == [status |-> IF call.status = NoPatch THEN case.status ELSE call.status,
                   history |-> <<call.next>> \o call.history]
<1>1. /\ call.status # "idle"
      /\ case' = row
      /\ caseUpdates' = caseUpdates + 1
      /\ caseStale' = (caseStale \/ call.overtaken)
      /\ caseCalls' = Finish(caseCalls, c, CaseIdle)
    BY DEF UpdateCase
<1>2. call \in CaseCall /\ case.status \in CaseStatus /\ caseCalls \in [Calls -> CaseCall]
    BY DEF CaseInv, CaseTypeOK
<1>3. call.history \in Seq(CaseStatus) /\ call.next \in CaseStatus
    BY <1>2 DEF CaseCall
<1>4. /\ row.history \in Seq(CaseStatus)
      /\ Len(row.history) = Len(call.history) + 1
      /\ row.history[1] = call.next
    BY <1>3
<1>5. /\ row.status = IF call.status = NoPatch THEN case.status ELSE call.status
      /\ row.status \in CaseStatus
  <2>1. call.status \in CaseStatus \cup {NoPatch, "idle"}
      BY <1>2 DEF CaseCall
  <2> QED
      BY <1>1, <1>2, <2>1
<1>6. CaseTypeOK'
  <2>1. row \in [status : CaseStatus, history : Seq(CaseStatus)]
    <3> DEFINE status == IF call.status = NoPatch THEN case.status ELSE call.status
               history == <<call.next>> \o call.history
    <3>1. status \in CaseStatus /\ history \in Seq(CaseStatus)
        BY <1>4, <1>5
    <3> HIDE DEF status, history
    <3> QED
        BY <3>1 DEF status, history
  <2>2. caseCalls' \in [Calls -> CaseCall]
      BY <1>1, <1>2, FinishCase
  <2>3. caseUpdates' \in Nat /\ caseStale' \in BOOLEAN
      BY <1>1 DEF CaseInv, CaseTypeOK
  <2> QED
      BY <1>1, <2>1, <2>2, <2>3 DEF CaseTypeOK
<1>7. FreshCaseCalls'
    BY <1>1, <1>2, FinishCase DEF FreshCaseCalls
<1>8. CaseHistoryComplete'
  <2> SUFFICES ASSUME ~caseStale, ~call.overtaken
               PROVE  /\ Len(row.history) = caseUpdates + 1 + 1
                      /\ row.history[1] = row.status
      BY <1>1 DEF CaseHistoryComplete
  <2>1. /\ Len(call.history) = caseUpdates + 1
        /\ call.next = IF call.status = NoPatch THEN case.status ELSE call.status
      BY <1>1, IdleCalls DEF CaseInv, FreshCaseCalls, CaseHistoryComplete
  <2> HIDE DEF row, call
  <2> QED
      BY <1>4, <1>5, <2>1
<1> QED
    BY <1>6, <1>7, <1>8 DEF CaseInv

LEMMA CaseNextInv == CaseInv /\ [CaseNext]_caseVars => CaseInv'
<1>1. CaseInv /\ UNCHANGED caseVars => CaseInv'
    BY DEF caseVars, CaseInv, CaseTypeOK, FreshCaseCalls, CaseHistoryComplete
<1> QED
    BY <1>1, LoadCaseKeepsInv, UpdateCaseKeepsInv DEF CaseNext

\* An update nobody overtook holds the history it will write back.
THEOREM CaseInvariant == CaseSpec => []CaseInv
BY CaseInitInv, CaseNextInv, PTL DEF CaseSpec

\* However many updates of a case interleave, its history misses an entry only
\* when one of them was made of a stale history (recovery-case.service.ts:141).
THEOREM CaseHistoriesKept == CaseSpec => []CaseHistoryComplete
<1>1. CaseInv => CaseHistoryComplete
    BY DEF CaseInv
<1> QED
    BY <1>1, CaseInvariant, PTL

-----------------------------------------------------------------------------
(* Work orders.                                                            *)


LEMMA OrderInitInv == OrderInit => OrderInv
<1> SUFFICES ASSUME OrderInit PROVE OrderInv
    OBVIOUS
<1>1. order \in OrderRow
    BY DEF OrderInit, OrderRow, OrderStatus, ApprovalStatus
<1>2. orderCalls \in [Calls -> OrderCall]
    BY IdleCalls DEF OrderInit
<1>3. FreshOrderCalls
    BY IdleCalls DEF OrderInit, FreshOrderCalls
<1> QED
    BY <1>1, <1>2, <1>3 DEF OrderInv, OrderTypeOK

LEMMA LoadOrderKeepsInv ==
    ASSUME OrderInv, NEW c \in Calls, NEW status \in OrderStatus \cup {NoPatch},
           NEW approval \in ApprovalStatus \cup {"unchanged"}, NEW escalate \in BOOLEAN,
           LoadOrder(c, status, approval, escalate)
    PROVE  OrderInv'
<1> DEFINE carried == status = "completed" /\ approval = "unchanged"
           forced == Escalates(escalate) /\ status # "escalated"
           next == IF Escalates(escalate) THEN "escalated" ELSE status
           verdict == IF carried THEN ApprovalOnCompletion ELSE approval
           closing == status \in {"completed", "closed"}
           call == [busy |-> TRUE, status |-> next, forced |-> forced,
                    approvalStatus |-> verdict, carried |-> carried,
                    closing |-> closing, overtaken |-> FALSE]
<1>1. order \in OrderRow /\ orderCalls \in [Calls -> OrderCall]
    BY DEF OrderInv, OrderTypeOK
<1>2. orderCalls' = [orderCalls EXCEPT ![c] = call] /\ order' = order
    BY DEF LoadOrder
<1>3. next \in OrderStatus \cup {NoPatch}
    BY DEF OrderStatus
<1>4. /\ verdict \in ApprovalStatus \cup {"unchanged"}
      /\ carried /\ order.approvalStatus = "approved" => verdict = "approved"
    BY <1>1 DEF ApprovalOnCompletion, ApprovalStatus, OrderRow
<1>5. forced => order.status = "open"
    BY DEF Escalates
<1>6. carried \in BOOLEAN /\ forced \in BOOLEAN /\ closing \in BOOLEAN
    BY DEF Escalates
<1> HIDE DEF carried, forced, next, verdict, closing
<1>7. call \in OrderCall
    BY <1>3, <1>4, <1>6 DEF OrderCall
<1>8. call.forced = forced /\ call.carried = carried /\ call.approvalStatus = verdict
    OBVIOUS
<1> HIDE DEF call
<1>9. FreshOrderCalls'
  <2> SUFFICES ASSUME NEW d \in Calls, orderCalls'[d].busy, ~orderCalls'[d].overtaken
               PROVE  /\ orderCalls'[d].forced => order.status = "open"
                      /\ orderCalls'[d].carried /\ order.approvalStatus = "approved"
                           => orderCalls'[d].approvalStatus = "approved"
      BY <1>2 DEF FreshOrderCalls
  <2>1. CASE d = c
      BY <1>1, <1>2, <1>4, <1>5, <1>8, <2>1
  <2>2. CASE d # c
      BY <1>1, <1>2, <2>2 DEF OrderInv, FreshOrderCalls
  <2> QED
      BY <2>1, <2>2
<1> QED
    BY <1>1, <1>2, <1>7, <1>9 DEF OrderInv, OrderTypeOK

LEMMA UpdateOrderKeepsInv ==
    ASSUME OrderInv, NEW c \in Calls, UpdateOrder(c)
    PROVE  OrderInv'
<1> DEFINE call == orderCalls[c]
           status == IF call.status = NoPatch THEN order.status ELSE call.status
           approval == IF call.approvalStatus = "unchanged"
                       THEN order.approvalStatus ELSE call.approvalStatus
           closed == order.closedAt \/ call.closing
<1>1. /\ order' = [status |-> status, approvalStatus |-> approval, closedAt |-> closed]
      /\ orderCalls' = Finish(orderCalls, c, OrderIdle)
    BY DEF UpdateOrder
<1>2. call \in OrderCall /\ order \in OrderRow /\ orderCalls \in [Calls -> OrderCall]
    BY DEF OrderInv, OrderTypeOK
<1>3. status \in OrderStatus /\ approval \in ApprovalStatus /\ closed \in BOOLEAN
    BY <1>2 DEF OrderCall, OrderRow
<1> HIDE DEF status, approval, closed
<1>4. order' \in OrderRow
    BY <1>1, <1>3 DEF OrderRow
<1>5. orderCalls' \in [Calls -> OrderCall] /\ FreshOrderCalls'
    BY <1>1, <1>2, FinishOrder DEF FreshOrderCalls
<1> QED
    BY <1>4, <1>5 DEF OrderInv, OrderTypeOK

\* The steps of OrderNext: a request is loaded, or an update is written.
LEMMA OrderSteps ==
    ASSUME OrderNext
    PROVE  \/ \E c \in Calls, status \in OrderStatus \cup {NoPatch},
                 approval \in ApprovalStatus \cup {"unchanged"}, escalate \in BOOLEAN :
                 LoadOrder(c, status, approval, escalate)
           \/ \E c \in Calls : UpdateOrder(c)
BY DEF OrderNext

LEMMA OrderNextInv == OrderInv /\ [OrderNext]_orderVars => OrderInv'
<1>1. OrderInv /\ UNCHANGED orderVars => OrderInv'
    BY DEF orderVars, OrderInv, OrderTypeOK, FreshOrderCalls
<1> QED
    BY <1>1, OrderSteps, LoadOrderKeepsInv, UpdateOrderKeepsInv

\* An update nobody overtook still has the reasons for what it will write.
THEOREM OrderInvariant == OrderSpec => []OrderInv
BY OrderInitInv, OrderNextInv, PTL DEF OrderSpec

\* However many updates of an order interleave, only a patch that says so, or a
\* call another one overtook, withdraws an approval or escalates a settled order
\* (work-order.service.ts:122-187).
THEOREM SettledOrdersKept == OrderSpec => SettledOrdersStay
<1>1. ASSUME OrderInv, OrderNext, order' # order
      PROVE  SettledStay
  <2>1. PICK c \in Calls : UpdateOrder(c)
      BY <1>1, OrderSteps DEF LoadOrder
  <2> DEFINE call == orderCalls[c]
  <2>2. /\ call.busy
        /\ order'.status = IF call.status = NoPatch THEN order.status ELSE call.status
        /\ order'.approvalStatus = IF call.approvalStatus = "unchanged"
                                   THEN order.approvalStatus ELSE call.approvalStatus
        /\ ~orderCalls'[c].busy
      BY <2>1, IdleCalls DEF UpdateOrder, Finish
  <2>3. ~call.overtaken => /\ call.forced => order.status = "open"
                           /\ call.carried /\ order.approvalStatus = "approved"
                                => call.approvalStatus = "approved"
      BY <1>1, <2>2 DEF OrderInv, FreshOrderCalls
  <2> QED
      BY <2>2, <2>3 DEF SettledStay
<1>2. OrderInv /\ [OrderNext]_orderVars => [SettledStay]_order
    BY <1>1 DEF orderVars
<1> QED
    BY <1>2, OrderInvariant, PTL DEF OrderSpec, SettledOrdersStay

-----------------------------------------------------------------------------
(* Credentials and configurations.                                         *)

KeyTypeOK ==
    /\ keys \in Seq(Key)
    /\ keyCalls \in [Calls -> KeyCall]
    /\ keyStale \in BOOLEAN

KeyInv == KeyTypeOK /\ KeyInductive /\ OneActiveKey

LEMMA IdleKey == KeyIdle \in KeyCall /\ ~KeyIdle.overtaken /\ KeyIdle.op = "idle"
BY DEF KeyIdle, KeyCall

\* An ended call is idle; every other keeps what it holds, and is overtaken if
\* it is in progress.
LEMMA FinishKey ==
    ASSUME NEW c \in Calls, keyCalls \in [Calls -> KeyCall]
    PROVE  /\ Finish(keyCalls, c, KeyIdle) \in [Calls -> KeyCall]
           /\ Finish(keyCalls, c, KeyIdle)[c] = KeyIdle
           /\ \A d \in Calls \ {c} :
                /\ Finish(keyCalls, c, KeyIdle)[d].op = keyCalls[d].op
                /\ Finish(keyCalls, c, KeyIdle)[d].found = keyCalls[d].found
                /\ keyCalls[d].op # "idle" => Finish(keyCalls, c, KeyIdle)[d].overtaken
<1> DEFINE late(d) == keyCalls[d] # KeyIdle
           after(d) == IF d = c THEN KeyIdle ELSE [keyCalls[d] EXCEPT !.overtaken = late(d)]
<1>1. ASSUME NEW d \in Calls \ {c}
      PROVE  /\ after(d) \in KeyCall
             /\ after(d).op = keyCalls[d].op /\ after(d).found = keyCalls[d].found
             /\ keyCalls[d].op # "idle" => after(d).overtaken
  <2>1. keyCalls[d] \in KeyCall
      OBVIOUS
  <2>2. late(d) \in BOOLEAN /\ (keyCalls[d].op # "idle" => late(d))
      BY IdleKey
  <2>3. after(d) = [keyCalls[d] EXCEPT !.overtaken = late(d)]
      OBVIOUS
  <2> HIDE DEF late, after
  <2> QED
      BY <2>1, <2>2, <2>3 DEF KeyCall
<1>2. after(c) = KeyIdle
    OBVIOUS
<1>3. Finish(keyCalls, c, KeyIdle) = [d \in Calls |-> after(d)]
    BY DEF Finish
<1> HIDE DEF after
<1> QED
    BY <1>1, <1>2, <1>3, IdleKey

\* A step that adds no key and starts no provisioning keeps the invariant, if it
\* activates none and changes a key only when it overtakes every call.
LEMMA KeysRetired ==
    ASSUME KeyInv, KeyTypeOK', keyStale' = keyStale, Len(keys') = Len(keys),
           \A k \in 1..Len(keys) : /\ keys'[k].version = keys[k].version
                                   /\ keys'[k].status = "active" => keys[k].status = "active",
           \A d \in Calls : keyCalls'[d].op = "provision" =>
                               keyCalls'[d].overtaken \/ (keys' = keys /\ keyCalls'[d] = keyCalls[d]),
           FoundNotActive'
    PROVE  KeyInv'
<1>1. keys \in Seq(Key) /\ keys' \in Seq(Key)
    BY DEF KeyInv, KeyTypeOK
<1>2. OneActiveKey'
    BY DEF KeyInv, OneActiveKey
<1>3. VersionsIncrease'
    BY DEF KeyInv, KeyInductive, VersionsIncrease
<1>4. FreshKeyCalls'
    BY DEF KeyInv, KeyInductive, FreshKeyCalls
<1> QED
    BY <1>2, <1>3, <1>4 DEF KeyInv, KeyInductive

LEMMA KeyInitInv == KeyInit => KeyInv
<1> SUFFICES ASSUME KeyInit PROVE KeyInv
    OBVIOUS
<1>1. KeyTypeOK
  <2>1. keys \in Seq(Key)
      BY DEF KeyInit
  <2> QED
      BY <2>1, IdleKey DEF KeyInit, KeyTypeOK
<1>2. KeyInductive /\ OneActiveKey
    BY IdleKey DEF KeyInit, KeyInductive, FreshKeyCalls, FoundNotActive, VersionsIncrease,
                   OneActiveKey
<1> QED
    BY <1>1, <1>2 DEF KeyInv

LEMMA LoadLatestKeepsInv ==
    ASSUME KeyInv, NEW c \in Calls, LoadLatest(c)
    PROVE  KeyInv'
<1>1. keys \in Seq(Key) /\ keyCalls \in [Calls -> KeyCall] /\ keyStale \in BOOLEAN
    BY DEF KeyInv, KeyTypeOK
<1>2. keys' = keys /\ keyStale' = keyStale
    BY DEF LoadLatest
<1>3. PICK call \in KeyCall :
        /\ keyCalls' = [keyCalls EXCEPT ![c] = call]
        /\ call.op = "provision"
        /\ call.demote => call.key \in 1..Len(keys) /\ keys[call.key].status = "active"
        /\ ~keyStale =>
             /\ call.key = Len(keys)
             /\ keys # <<>> => /\ call.version = keys[Len(keys)].version
                               /\ call.demote \/ keys[Len(keys)].status # "active"
  <2>1. CASE keys = <<>> /\ keyCalls' = [keyCalls EXCEPT ![c] = [KeyIdle EXCEPT !.op = "provision"]]
    <3> DEFINE call == [KeyIdle EXCEPT !.op = "provision"]
    <3>1. call \in KeyCall /\ call.op = "provision" /\ ~call.demote /\ call.key = 0
        BY DEF KeyIdle, KeyCall
    <3> HIDE DEF call
    <3>2. Len(keys) = 0
        BY <2>1
    <3>3. keyCalls' = [keyCalls EXCEPT ![c] = call]
        BY <2>1 DEF call
    <3> QED
        BY <2>1, <3>1, <3>2, <3>3
  <2>2. ASSUME NEW k \in 1..Len(keys), Latest(k),
               keyCalls' = [keyCalls EXCEPT ![c] =
                   [KeyIdle EXCEPT !.op = "provision", !.key = k, !.version = keys[k].version,
                                   !.demote = (keys[k].status = "active")]]
        PROVE  \E call \in KeyCall :
                  /\ keyCalls' = [keyCalls EXCEPT ![c] = call]
                  /\ call.op = "provision"
                  /\ call.demote => call.key \in 1..Len(keys) /\ keys[call.key].status = "active"
                  /\ ~keyStale =>
                       /\ call.key = Len(keys)
                       /\ keys # <<>> => /\ call.version = keys[Len(keys)].version
                                         /\ call.demote \/ keys[Len(keys)].status # "active"
    <3> DEFINE demote == keys[k].status = "active"
               version == keys[k].version
               call == [KeyIdle EXCEPT !.op = "provision", !.key = k, !.version = version,
                                       !.demote = demote]
    <3>0. keys[k] \in Key /\ k \in Nat /\ Len(keys) \in Nat
        BY <1>1
    <3>1. demote \in BOOLEAN /\ version \in Nat
        BY <3>0 DEF Key
    <3>2. /\ call \in KeyCall /\ call.op = "provision" /\ call.key = k
          /\ call.version = version /\ call.demote = demote
      <4> HIDE DEF demote, version
      <4> QED
          BY <3>0, <3>1, IdleKey DEF KeyCall
    <3>3. ~keyStale => k = Len(keys)
      <4>1. Len(keys) \in 1..Len(keys) /\ keys[Len(keys)].version <= keys[k].version
          BY <1>1, <2>2 DEF Latest
      <4>2. ~keyStale /\ k < Len(keys) => keys[k].version < keys[Len(keys)].version
          BY <4>1 DEF KeyInv, KeyInductive, VersionsIncrease
      <4>3. keys[Len(keys)] \in Key
          BY <1>1, <4>1
      <4>4. keys[k].version \in Nat /\ keys[Len(keys)].version \in Nat
          BY <3>0, <4>3 DEF Key
      <4> QED
          BY <3>0, <4>1, <4>2, <4>4
    <3>4. keyCalls' = [keyCalls EXCEPT ![c] = call]
        BY <2>2
    <3> HIDE DEF call
    <3> QED
        BY <3>2, <3>3, <3>4
  <2> QED
      BY <2>1, <2>2 DEF LoadLatest
<1>4. KeyTypeOK'
    BY <1>1, <1>2, <1>3 DEF KeyTypeOK
<1>5. FreshKeyCalls'
    BY <1>1, <1>2, <1>3 DEF KeyInv, KeyInductive, FreshKeyCalls
<1>6. FoundNotActive'
    BY <1>1, <1>2, <1>3 DEF KeyInv, KeyInductive, FoundNotActive
<1>7. VersionsIncrease' /\ OneActiveKey'
    BY <1>2 DEF KeyInv, KeyInductive, VersionsIncrease, OneActiveKey
<1> QED
    BY <1>4, <1>5, <1>6, <1>7 DEF KeyInv, KeyInductive

\* Provisioning: the one step that adds a key.
LEMMA ProvisionKeepsInv ==
    ASSUME KeyInv, NEW c \in Calls, Provision(c)
    PROVE  KeyInv'
<1> DEFINE call == keyCalls[c]
           n == Len(keys)
           new == [version |-> call.version + 1, status |-> "active"]
           demoted == [k \in 1..n |-> IF call.demote /\ k = call.key
                                      THEN [keys[k] EXCEPT !.status = "rotating"] ELSE keys[k]]
<1>1. /\ keys \in Seq(Key) /\ keyCalls \in [Calls -> KeyCall] /\ keyStale \in BOOLEAN
      /\ n \in Nat /\ call \in KeyCall
    BY DEF KeyInv, KeyTypeOK
<1>2. /\ call.op = "provision"
      /\ keys' = Append(demoted, new)
      /\ keyStale' = (keyStale \/ call.overtaken)
      /\ keyCalls' = Finish(keyCalls, c, KeyIdle)
    BY DEF Provision
<1>3. ASSUME NEW k \in 1..n
      PROVE  /\ demoted[k] \in Key
             /\ demoted[k].version = keys[k].version
             /\ demoted[k].status = IF call.demote /\ k = call.key THEN "rotating"
                                    ELSE keys[k].status
  <2>1. keys[k] \in Key
      BY <1>1
  <2> QED
      BY <2>1 DEF Key, KeyStatus
<1>4. new \in Key /\ new.version = call.version + 1 /\ new.status = "active"
    BY <1>1 DEF Key, KeyStatus, KeyCall
<1>5. demoted \in Seq(Key) /\ Len(demoted) = n
  <2>1. DOMAIN demoted = 1..n /\ \A k \in 1..n : demoted[k] \in Key
      BY <1>3
  <2>2. demoted = [k \in 1..n |-> demoted[k]]
      OBVIOUS
  <2> HIDE DEF demoted
  <2>3. demoted \in [1..n -> Key]
      BY <2>1, <2>2
  <2> HIDE DEF n
  <2> QED
      BY <1>1, <2>3
<1>6. /\ keys' \in Seq(Key) /\ Len(keys') = n + 1
      /\ keys'[n + 1] = new
      /\ \A k \in 1..n : keys'[k] = demoted[k]
  <2> HIDE DEF demoted, new, n
  <2> QED
      BY <1>1, <1>2, <1>4, <1>5
<1> HIDE DEF demoted, new
<1>7. KeyTypeOK'
    BY <1>1, <1>2, <1>6, FinishKey DEF KeyTypeOK, KeyCall
<1>8. FreshKeyCalls'
    BY <1>1, <1>2, FinishKey, IdleKey DEF FreshKeyCalls
<1>9. FoundNotActive'
  <2> SUFFICES ASSUME NEW d \in Calls, keyCalls'[d].op = "complete",
                      NEW k \in keyCalls'[d].found
               PROVE  k \in 1..Len(keys') /\ keys'[k].status # "active"
      BY DEF FoundNotActive
  <2>1. d # c
      BY <1>1, <1>2, FinishKey, IdleKey
  <2>2. keyCalls[d].op = "complete" /\ k \in keyCalls[d].found
      BY <1>1, <1>2, <2>1, FinishKey
  <2>3. k \in 1..n /\ keys[k].status # "active"
      BY <2>2 DEF KeyInv, KeyInductive, FoundNotActive
  <2> QED
      BY <1>1, <1>3, <1>6, <2>3
<1>10. ~keyStale' => /\ call.key = n
                     /\ keys # <<>> => /\ call.version = keys[n].version
                                       /\ call.demote \/ keys[n].status # "active"
    BY <1>2 DEF KeyInv, KeyInductive, FreshKeyCalls
<1>11. VersionsIncrease'
  <2> SUFFICES ASSUME ~keyStale', NEW j \in 1..n + 1, NEW k \in 1..n + 1, j < k
               PROVE  keys'[j].version < keys'[k].version
      BY <1>6 DEF VersionsIncrease
  <2>1. \A i \in 1..n : keys[i].version \in Nat
    <3>1. \A i \in 1..n : keys[i] \in Key
        BY <1>1
    <3> QED
        BY <3>1 DEF Key
  <2>2. j \in 1..n /\ keys'[j].version = keys[j].version
      BY <1>1, <1>3, <1>6
  <2>3. \A i \in 1..n : j < i => keys[j].version < keys[i].version
      BY <1>2, <2>2 DEF KeyInv, KeyInductive, VersionsIncrease
  <2>4. CASE k \in 1..n
      BY <1>3, <1>6, <2>2, <2>3, <2>4
  <2>5. CASE k = n + 1
    <3>1. keys # <<>> /\ n \in 1..n
        BY <1>1, <2>2
    <3>2. keys'[k].version = keys[n].version + 1
        BY <1>4, <1>6, <1>10, <2>5, <3>1
    <3>3. keys[j].version <= keys[n].version
        BY <1>1, <2>1, <2>2, <2>3, <3>1
    <3> QED
        BY <2>1, <2>2, <3>1, <3>2, <3>3
  <2> QED
      BY <1>1, <2>4, <2>5
<1>12. OneActiveKey'
  <2> SUFFICES ASSUME ~keyStale', NEW k \in 1..n, keys'[k].status = "active"
               PROVE  FALSE
      BY <1>1, <1>6 DEF OneActiveKey
  <2>1. keys[k].status = "active" /\ ~(call.demote /\ k = call.key)
      BY <1>3, <1>6
  <2>2. k = n /\ keys # <<>>
      BY <1>1, <1>2, <2>1 DEF KeyInv, OneActiveKey
  <2> QED
      BY <1>10, <2>1, <2>2
<1> QED
    BY <1>7, <1>8, <1>9, <1>11, <1>12 DEF KeyInv, KeyInductive

LEMMA CompletionKeepsInv ==
    ASSUME KeyInv, NEW c \in Calls, CompleteRotation(c)
    PROVE  KeyInv'
<1> DEFINE found == keyCalls[c].found
           n == Len(keys)
<1>1. /\ keys \in Seq(Key) /\ keyCalls \in [Calls -> KeyCall] /\ keyStale \in BOOLEAN
      /\ n \in Nat
    BY DEF KeyInv, KeyTypeOK
<1>2. /\ keyCalls[c].op = "complete"
      /\ keys' = [k \in 1..n |->
                    IF k \in found THEN [keys[k] EXCEPT !.status = "revoked"] ELSE keys[k]]
      /\ keyCalls' = Finish(keyCalls, c, KeyIdle)
      /\ keyStale' = keyStale
    BY DEF CompleteRotation
<1>3. ASSUME NEW k \in 1..n
      PROVE  /\ keys'[k] \in Key
             /\ keys'[k].version = keys[k].version
             /\ keys'[k].status = IF k \in found THEN "revoked" ELSE keys[k].status
  <2>1. keys[k] \in Key
      BY <1>1
  <2> QED
      BY <1>2, <2>1 DEF Key, KeyStatus
<1>4. keys' \in Seq(Key) /\ Len(keys') = n
  <2>1. keys' \in [1..n -> Key]
      BY <1>2, <1>3
  <2> HIDE DEF n
  <2> QED
      BY <1>1, <2>1
<1>5. KeyTypeOK'
    BY <1>1, <1>2, <1>4, FinishKey DEF KeyTypeOK
<1>6. FoundNotActive'
  <2> SUFFICES ASSUME NEW d \in Calls, keyCalls'[d].op = "complete",
                      NEW k \in keyCalls'[d].found
               PROVE  k \in 1..n /\ keys'[k].status # "active"
      BY <1>4 DEF FoundNotActive
  <2>1. keyCalls[d].op = "complete" /\ k \in keyCalls[d].found
      BY <1>1, <1>2, FinishKey, IdleKey
  <2>2. k \in 1..n /\ keys[k].status # "active"
      BY <2>1 DEF KeyInv, KeyInductive, FoundNotActive
  <2> QED
      BY <1>3, <2>2
<1>7. \A d \in Calls : keyCalls'[d].op = "provision" =>
                          keyCalls'[d].overtaken \/ (keys' = keys /\ keyCalls'[d] = keyCalls[d])
    BY <1>1, <1>2, FinishKey, IdleKey
<1>8. \A k \in 1..Len(keys) : /\ keys'[k].version = keys[k].version
                              /\ keys'[k].status = "active" => keys[k].status = "active"
    BY <1>3
<1>9. keyStale' = keyStale /\ Len(keys') = Len(keys)
    BY <1>2, <1>4
<1> QED
    BY <1>5, <1>6, <1>7, <1>8, <1>9, KeysRetired

LEMMA RevocationKeepsInv ==
    ASSUME KeyInv, NEW j \in 1..Len(keys), RevokeKey(j)
    PROVE  KeyInv'
<1> DEFINE late(d) == keyCalls[d] # KeyIdle
           n == Len(keys)
<1>1. /\ keys \in Seq(Key) /\ keyCalls \in [Calls -> KeyCall] /\ keyStale \in BOOLEAN
      /\ n \in Nat
    BY DEF KeyInv, KeyTypeOK
<1>2. /\ keys' = [keys EXCEPT ![j].status = "revoked"]
      /\ keyCalls' = [d \in Calls |-> [keyCalls[d] EXCEPT !.overtaken = late(d)]]
      /\ keyStale' = keyStale
    BY DEF RevokeKey
<1>3. \A k \in 1..n : keys[k] \in Key
    BY <1>1
<1>4. /\ keys' \in Seq(Key) /\ Len(keys') = n
      /\ \A k \in 1..n : keys'[k] = IF k = j THEN [keys[j] EXCEPT !.status = "revoked"]
                                    ELSE keys[k]
  <2>1. [keys[j] EXCEPT !.status = "revoked"] \in Key
      BY <1>3 DEF Key, KeyStatus
  <2> QED
      BY <1>1, <1>2, <2>1
<1>5. \A k \in 1..n : /\ keys'[k].version = keys[k].version
                      /\ keys'[k].status = "active" => keys[k].status = "active"
    BY <1>3, <1>4 DEF Key
<1>6. ASSUME NEW d \in Calls
      PROVE  /\ keyCalls'[d] \in KeyCall
             /\ keyCalls'[d].op = keyCalls[d].op /\ keyCalls'[d].found = keyCalls[d].found
             /\ keyCalls[d].op # "idle" => keyCalls'[d].overtaken
  <2>1. keyCalls[d] \in KeyCall
      BY <1>1
  <2>2. late(d) \in BOOLEAN /\ (keyCalls[d].op # "idle" => late(d))
      BY IdleKey
  <2>3. keyCalls'[d] = [keyCalls[d] EXCEPT !.overtaken = late(d)]
      BY <1>2
  <2> HIDE DEF late
  <2> QED
      BY <2>1, <2>2, <2>3 DEF KeyCall
<1>7. keyCalls' \in [Calls -> KeyCall]
    BY <1>2, <1>6
<1>8. KeyTypeOK'
    BY <1>1, <1>2, <1>4, <1>7 DEF KeyTypeOK
<1>9. FoundNotActive'
    BY <1>4, <1>5, <1>6 DEF KeyInv, KeyInductive, FoundNotActive
<1>10. \A d \in Calls : keyCalls'[d].op = "provision" =>
                           keyCalls'[d].overtaken \/ (keys' = keys /\ keyCalls'[d] = keyCalls[d])
    BY <1>6
<1>11. keyStale' = keyStale /\ Len(keys') = Len(keys)
    BY <1>2, <1>4
<1> HIDE DEF late, n
<1>12. \A k \in 1..Len(keys) : /\ keys'[k].version = keys[k].version
                               /\ keys'[k].status = "active" => keys[k].status = "active"
    BY <1>5 DEF n
<1> QED
    BY <1>8, <1>9, <1>10, <1>11, <1>12, KeysRetired

\* The steps that only read: authentication, and the search of a completion.
LEMMA ReadingKeepsInv ==
    ASSUME KeyInv, NEW c \in Calls,
           (\E k \in 1..Len(keys) : AuthenticateWithActive(c, k)) \/ FindRotating(c)
    PROVE  KeyInv'
<1>1. /\ keys \in Seq(Key) /\ keyCalls \in [Calls -> KeyCall] /\ keyStale \in BOOLEAN
    BY DEF KeyInv, KeyTypeOK
<1>2. keys' = keys /\ keyStale' = keyStale
    BY DEF AuthenticateWithActive, FindRotating
<1>3. PICK call \in KeyCall :
        /\ keyCalls' = [keyCalls EXCEPT ![c] = call]
        /\ call.op # "provision"
        /\ call.op = "complete" =>
              \A k \in call.found : k \in 1..Len(keys) /\ keys[k].status # "active"
  <2>1. ASSUME NEW k \in 1..Len(keys), AuthenticateWithActive(c, k)
        PROVE  \E call \in KeyCall : /\ keyCalls' = [keyCalls EXCEPT ![c] = call]
                                     /\ call.op = "find"
    <3> DEFINE call == [KeyIdle EXCEPT !.op = "find", !.key = k]
    <3>1. call \in KeyCall /\ call.op = "find"
      <4>1. k \in Nat
          BY <1>1
      <4> QED
          BY <4>1, IdleKey DEF KeyCall
    <3>2. keyCalls' = [keyCalls EXCEPT ![c] = call]
        BY <2>1 DEF AuthenticateWithActive
    <3> QED
        BY <3>1, <3>2
  <2>2. CASE FindRotating(c)
    <3> DEFINE found == {k \in 1..Len(keys) : keys[k].status = "rotating" /\ k # keyCalls[c].key}
               call == [keyCalls[c] EXCEPT !.op = "complete", !.found = found]
    <3>1. found \in SUBSET Nat /\ \A k \in found : k \in 1..Len(keys) /\ keys[k].status # "active"
        BY <1>1
    <3> HIDE DEF found
    <3>2. call \in KeyCall /\ call.op = "complete" /\ call.found = found
        BY <1>1, <3>1 DEF KeyCall
    <3>3. \/ keyCalls' = [keyCalls EXCEPT ![c] = KeyIdle]
          \/ keyCalls' = [keyCalls EXCEPT ![c] = call]
        BY <2>2 DEF FindRotating, GiveUp, found
    <3> HIDE DEF call
    <3> QED
        BY <3>1, <3>2, <3>3, IdleKey
  <2> QED
      BY <2>1, <2>2
<1>4. KeyTypeOK'
    BY <1>1, <1>2, <1>3 DEF KeyTypeOK
<1>5. FoundNotActive'
    BY <1>1, <1>2, <1>3 DEF KeyInv, KeyInductive, FoundNotActive
<1>6. \A d \in Calls : keyCalls'[d].op = "provision" => keyCalls'[d] = keyCalls[d]
    BY <1>1, <1>3
<1> QED
    BY <1>2, <1>4, <1>5, <1>6, KeysRetired

LEMMA KeyNextInv == KeyInv /\ [KeyNext]_keyVars => KeyInv'
<1>1. KeyInv /\ UNCHANGED keyVars => KeyInv'
    BY DEF keyVars, KeyInv, KeyTypeOK, KeyInductive, FreshKeyCalls, FoundNotActive,
           VersionsIncrease, OneActiveKey
<1> QED
    BY <1>1, LoadLatestKeepsInv, ProvisionKeepsInv, CompletionKeepsInv, RevocationKeepsInv,
       ReadingKeepsInv DEF KeyNext

\* The inductive invariant of the two theorems about keys.
THEOREM KeyInvariant == KeySpec => []KeyInv
BY KeyInitInv, KeyNextInv, PTL DEF KeySpec

\* Provisioning leaves one active key, unless the latest one changed between its
\* read and its transaction (device-credential.service.ts:33-64).
THEOREM NodeHasOneActiveKey == KeySpec => []OneActiveKey
<1>1. KeyInv => OneActiveKey
    BY DEF KeyInv
<1> QED
    BY <1>1, KeyInvariant, PTL

\* Whatever rotations are completed late, a key goes from active to rotating to
\* revoked, but for one demoted by a provisioning call that was overtaken; and
\* only an operator revokes an active one (device-credential.service.ts:99-210).
THEOREM RetiredKeysStayRetired == KeySpec => KeysOnlyAdvance
<1>1. ASSUME KeyInv, KeyNext, keys' # keys
      PROVE  KeysAdvance
  <2>1. /\ keys \in Seq(Key) /\ keyCalls \in [Calls -> KeyCall]
        /\ Len(keys) \in Nat /\ \A k \in 1..Len(keys) : keys[k].status \in KeyStatus
    <3>1. keys \in Seq(Key) /\ keyCalls \in [Calls -> KeyCall]
        BY <1>1 DEF KeyInv, KeyTypeOK
    <3>2. \A k \in 1..Len(keys) : keys[k] \in Key
        BY <3>1
    <3> QED
        BY <3>1, <3>2 DEF Key
  <2>2. Rank["active"] = 1 /\ Rank["rotating"] = 2 /\ Rank["revoked"] = 3
      BY DEF Rank
  <2>3. \A s \in KeyStatus : Rank[s] <= Rank["revoked"] /\ Rank[s] <= Rank[s]
      BY <2>2 DEF KeyStatus
  <2>4. ASSUME NEW c \in Calls, CompleteRotation(c)
        PROVE  KeysAdvance
    <3>1. \A k \in 1..Len(keys) : keys'[k].status = IF k \in keyCalls[c].found THEN "revoked"
                                                   ELSE keys[k].status
        BY <2>1, <2>4 DEF CompleteRotation
    <3>2. \A k \in keyCalls[c].found : keys[k].status # "active"
        BY <1>1, <2>4 DEF KeyInv, KeyInductive, FoundNotActive, CompleteRotation
    <3> QED
        BY <2>1, <2>3, <3>1, <3>2 DEF KeysAdvance
  <2>5. ASSUME NEW j \in 1..Len(keys), RevokeKey(j)
        PROVE  KeysAdvance
    <3>1. \A k \in 1..Len(keys) : keys'[k].status = IF k = j THEN "revoked"
                                                   ELSE keys[k].status
        BY <2>1, <2>5 DEF RevokeKey
    <3>2. \A d \in Calls : keyCalls'[d].op = keyCalls[d].op
        BY <2>1, <2>5 DEF RevokeKey, KeyCall
    <3> QED
        BY <2>1, <2>3, <3>1, <3>2 DEF KeysAdvance
  <2>6. ASSUME NEW c \in Calls, Provision(c)
        PROVE  KeysAdvance
    <3> DEFINE call == keyCalls[c]
    <3>1. \A k \in 1..Len(keys) :
             keys'[k].status = IF call.demote /\ k = call.key THEN "rotating"
                               ELSE keys[k].status
        BY <2>1, <2>6 DEF Provision
    <3>2. /\ call.op = "provision" /\ keyCalls'[c] = KeyIdle
          /\ ~call.overtaken /\ call.demote => keys[call.key].status = "active"
        BY <1>1, <2>6 DEF Provision, Finish, KeyInv, KeyInductive, FreshKeyCalls
    <3> HIDE DEF call
    <3>3. ASSUME NEW k \in 1..Len(keys)
          PROVE  /\ Rank[keys[k].status] <= Rank[keys'[k].status] \/ call.overtaken
                 /\ keys'[k].status = "revoked" => keys[k].status = "revoked"
      <4>1. CASE call.demote /\ k = call.key
          BY <2>2, <3>1, <3>2, <4>1
      <4>2. CASE ~(call.demote /\ k = call.key)
          BY <2>1, <2>3, <3>1, <4>2
      <4> QED
          BY <4>1, <4>2
    <3> QED
        BY <3>2, <3>3 DEF KeysAdvance, call
  <2> QED
      BY <1>1, <2>4, <2>5, <2>6
      DEF KeyNext, LoadLatest, FindRotating, AuthenticateWithActive
<1>2. KeyInv /\ [KeyNext]_keyVars => [KeysAdvance]_keys
    BY <1>1 DEF keyVars
<1> QED
    BY <1>2, KeyInvariant, PTL DEF KeySpec, KeysOnlyAdvance

-----------------------------------------------------------------------------
(* Configurations.                                                         *)

Publishing == \E c \in Calls : configCalls[c].busy

\* Of the published rows only the last may be active; whoever is about to
\* create one, and was not overtaken, finds none; and none is only while somebody is.
ConfigInv ==
    /\ configs \in Seq(BOOLEAN)
    /\ configCalls \in [Calls -> ConfigCall]
    /\ configFaults \in BOOLEAN
    /\ ~configFaults =>
         /\ \A i \in 1..Len(configs) : configs[i] => i = Len(configs)
         /\ \A c \in Calls : configCalls[c].busy /\ ~configCalls[c].overtaken
                               => \A i \in 1..Len(configs) : ~configs[i]
         /\ configs # <<>> => configs[Len(configs)] \/ Publishing

LEMMA FinishPublishing ==
    ASSUME configCalls \in [Calls -> ConfigCall], NEW c \in Calls
    PROVE  /\ ConfigIdle \in ConfigCall /\ ~ConfigIdle.busy
           /\ Finish(configCalls, c, ConfigIdle) \in [Calls -> ConfigCall]
           /\ Finish(configCalls, c, ConfigIdle)[c] = ConfigIdle
           /\ \A d \in Calls : Finish(configCalls, c, ConfigIdle)[d].busy
                                 => Finish(configCalls, c, ConfigIdle)[d].overtaken
<1> DEFINE late(d) == configCalls[d] # ConfigIdle
           after(d) == IF d = c THEN ConfigIdle ELSE [configCalls[d] EXCEPT !.overtaken = late(d)]
<1>1. ConfigIdle \in ConfigCall /\ ~ConfigIdle.busy
    BY DEF ConfigIdle, ConfigCall
<1>2. ASSUME NEW d \in Calls
      PROVE  after(d) \in ConfigCall /\ (after(d).busy => after(d).overtaken)
  <2>1. configCalls[d] \in ConfigCall /\ late(d) \in BOOLEAN /\ (configCalls[d].busy => late(d))
      BY <1>1
  <2>2. after(d) = IF d = c THEN ConfigIdle ELSE [configCalls[d] EXCEPT !.overtaken = late(d)]
      OBVIOUS
  <2> HIDE DEF late, after
  <2> QED
      BY <1>1, <2>1, <2>2 DEF ConfigCall
<1>3. Finish(configCalls, c, ConfigIdle) = [d \in Calls |-> after(d)] /\ after(c) = ConfigIdle
    BY DEF Finish
<1> HIDE DEF after
<1> QED
    BY <1>1, <1>2, <1>3

LEMMA ConfigNextInv == ConfigInv /\ [ConfigNext]_configVars => ConfigInv'
<1> SUFFICES ASSUME ConfigInv, [ConfigNext]_configVars PROVE ConfigInv'
    OBVIOUS
<1>1. /\ configs \in Seq(BOOLEAN) /\ configCalls \in [Calls -> ConfigCall]
      /\ configFaults \in BOOLEAN
    BY DEF ConfigInv
<1>2. ASSUME NEW c \in Calls, DeactivateConfigs(c) PROVE ConfigInv'
  <2> DEFINE others == Finish(configCalls, c, ConfigIdle)
  <2>1. /\ configs' = [i \in 1..Len(configs) |-> FALSE]
        /\ configCalls' = [others EXCEPT ![c].busy = TRUE]
        /\ configFaults' = configFaults
      BY <1>2 DEF DeactivateConfigs, Deactivated
  <2>2. /\ configs' \in Seq(BOOLEAN) /\ Len(configs') = Len(configs)
        /\ \A i \in 1..Len(configs') : ~configs'[i]
      BY <1>1, <2>1
  <2>3. others \in [Calls -> ConfigCall]
      BY <1>1, FinishPublishing
  <2> HIDE DEF others
  <2>4. configCalls' \in [Calls -> ConfigCall] /\ configCalls'[c].busy
      BY <2>1, <2>3 DEF ConfigCall
  <2> QED
      BY <1>1, <2>1, <2>2, <2>4 DEF ConfigInv, Publishing
<1>3. ASSUME NEW c \in Calls, CreateConfig(c) PROVE ConfigInv'
  <2>1. /\ configCalls[c].busy
        /\ configs' = Append(configs, TRUE)
        /\ configCalls' = Finish(configCalls, c, ConfigIdle)
        /\ configFaults' = (configFaults \/ configCalls[c].overtaken)
      BY <1>3 DEF CreateConfig
  <2>2. /\ configs' \in Seq(BOOLEAN) /\ Len(configs') = Len(configs) + 1
        /\ configs'[Len(configs')] = TRUE
        /\ \A i \in 1..Len(configs) : configs'[i] = configs[i]
      BY <1>1, <2>1
  <2>3. /\ configCalls' \in [Calls -> ConfigCall]
        /\ \A d \in Calls : configCalls'[d].busy => configCalls'[d].overtaken
      BY <1>1, <2>1, FinishPublishing
  <2>4. configFaults' \in BOOLEAN
      BY <1>1, <2>1 DEF ConfigCall
  <2>5. ~configFaults' => \A i \in 1..Len(configs) : ~configs[i]
      BY <2>1 DEF ConfigInv
  <2>6. ~configFaults' => \A i \in 1..Len(configs') : configs'[i] => i = Len(configs')
      BY <1>1, <2>2, <2>5
  <2> QED
      BY <2>2, <2>3, <2>4, <2>6 DEF ConfigInv
<1>4. ASSUME NEW c \in Calls, CreateConfigFails(c) PROVE ConfigInv'
  <2>1. /\ configCalls' = [configCalls EXCEPT ![c] = ConfigIdle]
        /\ configFaults' = TRUE /\ configs' = configs
      BY <1>4 DEF CreateConfigFails, GiveUp
  <2> QED
      BY <1>1, <2>1, FinishPublishing DEF ConfigInv
<1>5. CASE UNCHANGED configVars
    BY <1>5 DEF configVars, ConfigInv, Publishing
<1> QED
    BY <1>2, <1>3, <1>4, <1>5 DEF ConfigNext

\* Of the published rows at most the last is active, but for the races named.
THEOREM ConfigInvariant == ConfigSpec => []ConfigInv
<1>1. ASSUME ConfigInit PROVE ConfigInv
  <2>1. ConfigIdle \in ConfigCall /\ ~ConfigIdle.busy
      BY DEF ConfigIdle, ConfigCall
  <2>2. /\ configs = <<>> /\ configFaults = FALSE
        /\ configCalls = [c \in Calls |-> ConfigIdle]
      BY <1>1 DEF ConfigInit
  <2>3. configs \in Seq(BOOLEAN) /\ \A i \in 1..Len(configs) : ~configs[i]
      BY <2>2
  <2>4. configCalls \in [Calls -> ConfigCall]
        /\ \A c \in Calls : ~configCalls[c].busy
    <3> HIDE DEF ConfigIdle
    <3> QED
        BY <2>1, <2>2
  <2> QED
      BY <2>2, <2>3, <2>4 DEF ConfigInv
<1> QED
    BY <1>1, ConfigNextInv, PTL DEF ConfigSpec

\* However many publications overlap or fail: when they did not, the latest one
\* is served (edge-remote-config.service.ts:143-162).
THEOREM LatestConfigServed == ConfigSpec => []OneConfigServed
<1>1. ConfigInv => OneConfigServed
    BY DEF ConfigInv, OneConfigServed, Publishing
<1> QED
    BY <1>1, ConfigInvariant, PTL

\* Cases, orders, keys and configurations, and the calls at work on them, keep
\* their types.
THEOREM RecordsTyped ==
    CaseSpec /\ OrderSpec /\ KeySpec /\ ConfigSpec
        => [](CaseTypeOK /\ OrderTypeOK /\ ProvisioningTypeOK)
<1>1. CaseInv /\ OrderInv /\ KeyInv /\ ConfigInv
        => CaseTypeOK /\ OrderTypeOK /\ ProvisioningTypeOK
    BY DEF CaseInv, OrderInv, KeyInv, KeyTypeOK, ConfigInv, ProvisioningTypeOK
<1> QED
    BY <1>1, CaseInvariant, OrderInvariant, KeyInvariant, ConfigInvariant, PTL

-----------------------------------------------------------------------------
(* RemoteConfig.                                                           *)

\* The invariant that is inductive: types, the watermark's two copies, and what
\* the file holds at each stage of a save (remote_config.h:177-190, 270-288).
RemoteInv == RemoteTypeOK /\ RemoteInductive

LEMMA VersionFacts ==
    /\ NoFile \notin Config /\ Damaged \notin Version /\ 0 \in Version /\ Version \subseteq Config
    /\ Version = 0..MaxVersion /\ MaxVersion \in Nat
    /\ \A v \in Version : v \in Nat
BY ConfigAssumption DEF Version, NoFile, Damaged, Config

LEMMA RemoteInitInv == RemoteInit => RemoteInv
<1> SUFFICES ASSUME RemoteInit PROVE RemoteInv
    OBVIOUS
<1>1. lkg \in Config \cup {NoFile}
    BY VersionFacts DEF RemoteInit, Config
<1>2. RemoteTypeOK
    BY <1>1, VersionFacts DEF RemoteInit, RemoteTypeOK, Stages
<1>3. RemoteInductive
    BY VersionFacts DEF RemoteInit, RemoteInductive
<1> QED
    BY <1>2, <1>3 DEF RemoteInv

\* A boot, whatever it finds of the file and of the watermark
\* (remote_config.h:32-53, 252-268).
LEMMA PowerLossKeepsInv == ASSUME RemoteInv, PowerLoss PROVE RemoteInv'
<1> USE VersionFacts DEF RemoteInv, RemoteTypeOK, RemoteInductive, Stages
<1>1. /\ lastVersion' \in {watermark, 0} /\ mounted' \in BOOLEAN
      /\ previous' = current' /\ saving' = "idle" /\ applying' = FALSE
      /\ watermark' = watermark /\ highest' = highest
    BY DEF PowerLoss
<1>2. /\ current' \in Config /\ lkg' \in Config \cup {NoFile}
    BY DEF PowerLoss, FactorySaved, Config
<1>3. /\ unmarked' \in BOOLEAN
      /\ ~unmarked' => ~unmarked /\ ~applying /\ lastVersion' = watermark
    BY Zenon DEF PowerLoss
<1>4. /\ setBack' \in BOOLEAN
      /\ ~setBack' => ~setBack /\ current' = lkg /\ lkg' = lkg /\ lastVersion' = watermark
    BY Zenon DEF PowerLoss
<1>5. RemoteTypeOK'
    BY <1>1, <1>2, <1>3, <1>4
<1>6. ~setBack' => lkg \in watermark..MaxVersion
    BY <1>2, <1>4
<1>7. RemoteInductive'
    BY <1>1, <1>3, <1>4, <1>6
<1> QED
    BY <1>5, <1>7

LEMMA RemoteNextInv == RemoteInv /\ [RemoteNext]_remoteVars => RemoteInv'
<1> SUFFICES ASSUME RemoteInv, [RemoteNext]_remoteVars PROVE RemoteInv'
    OBVIOUS
<1> USE VersionFacts DEF RemoteInv, RemoteTypeOK, RemoteInductive, Stages
<1>1. CASE \E v \in Version : ApplyVersion(v)
    BY <1>1 DEF ApplyVersion, configFlash
<1>2. CASE Rollback
  <2>1. setBack' \in BOOLEAN /\ (~setBack' => ~setBack /\ current' = current)
      BY <1>2, Zenon DEF Rollback
  <2>2. RemoteTypeOK'
      BY <1>2, <2>1 DEF Rollback, configFlash
  <2>3. RemoteInductive'
      BY <1>2, <2>1 DEF Rollback, configFlash
  <2> QED
      BY <2>2, <2>3
<1>3. CASE RemoveFile
    BY <1>3 DEF RemoveFile, configMemory
<1>4. CASE RenameFile
  <2>1. setBack' \in BOOLEAN /\ (~setBack' => ~setBack /\ lkg' = current)
      BY <1>4, Zenon DEF RenameFile
  <2>2. RemoteTypeOK'
      BY <1>4, <2>1 DEF RenameFile, configMemory, Config
  <2>3. RemoteInductive'
      BY <1>4, <2>1 DEF RenameFile, configMemory
  <2> QED
      BY <2>2, <2>3
<1>5. CASE SaveFails
  <2>1. setBack' \in BOOLEAN /\ (~setBack' => ~setBack /\ lkg = current)
      BY <1>5, Zenon DEF SaveFails
  <2>2. RemoteTypeOK'
      BY <1>5, <2>1 DEF SaveFails, configMemory, configFlash
  <2>3. RemoteInductive'
      BY <1>5, <2>1 DEF SaveFails, configMemory, configFlash
  <2> QED
      BY <2>2, <2>3
<1>6. CASE PersistWatermark
  <2>1. setBack' \in BOOLEAN /\ (~setBack' => lkg = current)
      BY <1>6, Zenon DEF PersistWatermark
  <2>2. current \in Version
      BY <1>6 DEF PersistWatermark
  <2>3. RemoteTypeOK'
      BY <1>6, <2>1, <2>2 DEF PersistWatermark
  <2>4. RemoteInductive'
      BY <1>6, <2>1, <2>2 DEF PersistWatermark
  <2> QED
      BY <2>3, <2>4
<1>7. CASE WatermarkLost
  <2>1. unmarked' \in BOOLEAN /\ unmarked'
      BY <1>7, Zenon DEF WatermarkLost
  <2>2. RemoteTypeOK'
      BY <1>7, <2>1 DEF WatermarkLost
  <2>3. RemoteInductive'
      BY <1>7, <2>1 DEF WatermarkLost
  <2> QED
      BY <2>2, <2>3
<1>8. CASE PowerLoss
    BY <1>8, PowerLossKeepsInv
<1>9. CASE UNCHANGED remoteVars
    BY <1>9 DEF remoteVars
<1> QED
    BY <1>1, <1>2, <1>3, <1>4, <1>5, <1>6, <1>7, <1>8, <1>9 DEF RemoteNext

\* In every state of the device the variables have their types, and the stages of
\* a save are what begin(), pullAndApply() and rollbackIfUnhealthy() leave.
THEOREM RemoteInvariant == RemoteSpec => [](RemoteTypeOK /\ RemoteInductive)
<1>1. RemoteInit => RemoteInv
    BY RemoteInitInv
<1>2. RemoteInv /\ [RemoteNext]_remoteVars => RemoteInv'
    BY RemoteNextInv
<1> QED
    BY <1>1, <1>2, PTL DEF RemoteSpec, RemoteInv

\* For any number of published versions, a device at rest runs and keeps in its
\* file a version no older than the watermark that keeps it from taking older ones,
\* unless, since it last applied and saved one, it was rolled back, a save failed at
\* any of its file-system calls or lost power in between, or a boot found no file,
\* no file system or no watermark (remote_config.h:34-50, 187-188, 270-288).
THEOREM RestingDeviceNotBelowWatermark == RemoteSpec => []NotBelowWatermark
<1>1. RemoteInv => NotBelowWatermark
    BY VersionFacts DEF RemoteInv, RemoteTypeOK, RemoteInductive, NotBelowWatermark, Stages
<1> QED
    BY <1>1, RemoteInvariant, PTL DEF RemoteInv

\* For any number of published versions, what a device applies is above all that
\* was ever in force, over rollbacks, failed saves and restarts, until power is
\* lost before a watermark is written or NVS fails to store it or to give it back:
\* after that, a version in force before may be applied again
\* (remote_config.h:34-35, 135, 187-188).
THEOREM DeviceAppliesOnlyNewer == RemoteSpec => OldVersionsStayOut
<1> DEFINE Newer == saving = "idle" /\ saving' = "save" /\ applying' /\ ~unmarked
                        => current' > highest
<1>1. RemoteInv /\ [RemoteNext]_remoteVars => [Newer]_remoteVars
  <2> SUFFICES ASSUME RemoteInv, RemoteNext PROVE Newer
      OBVIOUS
  <2> USE VersionFacts DEF RemoteInv, RemoteTypeOK, RemoteInductive
  <2>1. CASE \E v \in Version : ApplyVersion(v)
      BY <2>1 DEF ApplyVersion
  <2>2. CASE Rollback
      BY <2>2 DEF Rollback
  <2>3. CASE \/ RemoveFile \/ RenameFile \/ SaveFails
             \/ PersistWatermark \/ WatermarkLost \/ PowerLoss
      BY <2>3 DEF RemoveFile, RenameFile, SaveFails, PersistWatermark, WatermarkLost, PowerLoss
  <2> QED
      BY <2>1, <2>2, <2>3 DEF RemoteNext
<1> QED
    BY <1>1, RemoteInvariant, PTL DEF RemoteSpec, OldVersionsStayOut, RemoteInv
=============================================================================
