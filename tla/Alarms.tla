------------------------------- MODULE Alarms -------------------------------
(***************************************************************************)
(* One alarm and the incidents that list it: alarm.service.ts.             *)
(*                                                                         *)
(* Titles, notes and tenant scope are left out; of the metadata, which     *)
(* keys it holds is kept.  Alarm rules are configuration nothing in src/   *)
(* evaluates, and no code writes the status "suppressed".                  *)
(***************************************************************************)
EXTENDS ServiceCalls

VARIABLES
    alarm,          \* the AlarmEvent row
    alarmCalls,     \* [Calls -> call in progress]
    escalations,    \* history: escalateAlarmEvent calls that have returned
    noted,          \* history: kinds of note ever written to the metadata
    alarmStale,     \* history: a call has written what it made of a stale row
    incidents,      \* the incidents of its site: for each, its timeline's length
    incidentId      \* the alarm's column of that name; 0 is null

alarmVars == <<alarm, alarmCalls, escalations, noted, alarmStale>>
incidentVars == <<incidents, incidentId>>

AlarmStatus == {"active", "acknowledged", "cleared"}
AlarmNotes == {"clear", "assign", "escalate", "reopen"}
AlarmOps == AlarmNotes \cup {"acknowledge"}
Severity == 1..4        \* info, warning, major, critical

AlarmRow == [status : AlarmStatus, clearedAt : BOOLEAN, level : Nat, severity : Severity,
             metadata : SUBSET AlarmNotes]

\* What a call takes from the row it loaded: the fields it writes back.
AlarmCall == [op : AlarmOps \cup {"idle"}, level : Nat, severity : Severity,
              metadata : SUBSET AlarmNotes, overtaken : BOOLEAN]
AlarmIdle == [op |-> "idle", level |-> 0, severity |-> 1, metadata |-> {}, overtaken |-> FALSE]

\* raiseAlarmEvent
AlarmInit ==
    /\ alarm = [status |-> "active", clearedAt |-> FALSE, level |-> 0, severity |-> 2,
                metadata |-> {}]
    /\ alarmCalls = [c \in Calls |-> AlarmIdle]
    /\ escalations = 0
    /\ noted = {}
    /\ alarmStale = FALSE

\* Mutant: reopening does not look at the status.
LoadAlarmUnguarded(c, op) ==
    /\ alarmCalls[c] = AlarmIdle
    /\ op = "escalate" => escalations < MaxUpdates
    /\ alarmCalls' = [alarmCalls EXCEPT ![c] =
                        [op |-> op, level |-> alarm.level, severity |-> alarm.severity,
                         metadata |-> alarm.metadata, overtaken |-> FALSE]]
    /\ UNCHANGED <<alarm, escalations, noted, alarmStale>>

\* Every call but the creation of an incident loads the alarm first; reopening
\* also looks at the status it loaded.
LoadAlarm(c, op) ==
    /\ alarmCalls[c] = AlarmIdle
    /\ op = "reopen" => alarm.status = "cleared"
    /\ op = "escalate" => escalations < MaxUpdates
    /\ alarmCalls' = [alarmCalls EXCEPT ![c] =
                        [op |-> op, level |-> alarm.level, severity |-> alarm.severity,
                         metadata |-> alarm.metadata, overtaken |-> FALSE]]
    /\ UNCHANGED <<alarm, escalations, noted, alarmStale>>

\* What every update by id does besides writing its row; the metadata is the
\* loaded one, with the note of this call.
WriteAlarm(c, row) ==
    /\ alarm' = row
    /\ noted' = noted \cup ({alarmCalls[c].op} \cap AlarmNotes)
    /\ alarmStale' = (alarmStale \/ alarmCalls[c].overtaken)
    /\ alarmCalls' = Finish(alarmCalls, c, AlarmIdle)

Noting(c) == alarmCalls[c].metadata \cup {alarmCalls[c].op}

\* acknowledgeAlarmEvent: no guard on the status, and clearedAt stays.
Acknowledge(c) ==
    /\ alarmCalls[c].op = "acknowledge"
    /\ WriteAlarm(c, [alarm EXCEPT !.status = "acknowledged"])
    /\ UNCHANGED escalations

\* clearAlarmEvent
Clear(c) ==
    /\ alarmCalls[c].op = "clear"
    /\ WriteAlarm(c, [alarm EXCEPT !.status = "cleared", !.clearedAt = TRUE,
                                   !.metadata = Noting(c)])
    /\ UNCHANGED escalations

\* assignAlarmEvent
Assign(c) ==
    /\ alarmCalls[c].op = "assign"
    /\ WriteAlarm(c, [alarm EXCEPT !.metadata = Noting(c)])
    /\ UNCHANGED escalations

\* Mutant: the escalation's note replaces the metadata.
EscalateReplacingMetadata(c) ==
    /\ alarmCalls[c].op = "escalate"
    /\ WriteAlarm(c, [alarm EXCEPT !.level = alarmCalls[c].level + 1,
                                   !.severity = IF alarmCalls[c].severity = 4 THEN 4
                                                ELSE alarmCalls[c].severity + 1,
                                   !.metadata = {"escalate"}])
    /\ escalations' = escalations + 1

\* escalateAlarmEvent: level and severity step from the loaded row.
Escalate(c) ==
    /\ alarmCalls[c].op = "escalate"
    /\ WriteAlarm(c, [alarm EXCEPT !.level = alarmCalls[c].level + 1,
                                   !.severity = IF alarmCalls[c].severity = 4 THEN 4
                                                ELSE alarmCalls[c].severity + 1,
                                   !.metadata = Noting(c)])
    /\ escalations' = escalations + 1

\* reopenAlarmEvent
Reopen(c) ==
    /\ alarmCalls[c].op = "reopen"
    /\ WriteAlarm(c, [alarm EXCEPT !.status = "active", !.clearedAt = FALSE,
                                   !.metadata = Noting(c)])
    /\ UNCHANGED escalations

AlarmNext ==
    \/ \E c \in Calls, op \in AlarmOps : LoadAlarm(c, op)
    \/ \E c \in Calls : Acknowledge(c) \/ Clear(c) \/ Assign(c) \/ Escalate(c) \/ Reopen(c)

AlarmSpec == AlarmInit /\ [][AlarmNext]_alarmVars

-----------------------------------------------------------------------------
(* Incidents.  Nothing above reads or writes the column incidentId.        *)

IncidentInit == incidents = <<>> /\ incidentId = 0

\* createIncident: one transaction, which takes the alarm from the incident
\* that listed it before.
CreateIncident(listed) ==
    /\ Len(incidents) < MaxUpdates
    /\ incidents' = Append(incidents, 1)
    /\ incidentId' = IF listed THEN Len(incidents) + 1 ELSE incidentId

\* appendIncidentTimeline
AppendTimeline(i) ==
    /\ incidents[i] < MaxUpdates
    /\ incidents' = [incidents EXCEPT ![i] = @ + 1]
    /\ UNCHANGED incidentId

IncidentNext ==
    \/ \E listed \in BOOLEAN : CreateIncident(listed)
    \/ \E i \in 1..Len(incidents) : AppendTimeline(i)

-----------------------------------------------------------------------------
AlarmTypeOK ==
    /\ alarm \in AlarmRow
    /\ alarmCalls \in [Calls -> AlarmCall]
    /\ escalations \in Nat
    /\ noted \in SUBSET AlarmNotes
    /\ alarmStale \in BOOLEAN

IncidentTypeOK ==
    /\ incidents \in Seq(Nat)
    /\ incidentId \in 0..Len(incidents)

\* Unless a call wrote what it had made of a row another call had changed in
\* between, the level counts every escalation and the metadata has every note.
\* (Two escalations that overlap raise the level once: alarm.service.ts:336.)
EscalationsAndNotesKept ==
    ~alarmStale => alarm.level = escalations /\ alarm.metadata = noted

Reactivated == alarm.status # "active" /\ alarm'.status = "active"
ByReopening ==
    \/ alarm.status = "cleared"
    \/ \E c \in Calls : /\ alarmCalls[c].op = "reopen" /\ alarmCalls[c].overtaken
                       /\ alarmCalls'[c] = AlarmIdle

\* An alarm becomes active again only by reopening a cleared one: an
\* acknowledgement is undone by nothing but a reopen call it has overtaken.
ReactivatedOnlyFromCleared == [][Reactivated => ByReopening]_alarm

\* The inductive invariant behind the two: a call nobody overtook holds the row.
FreshCallsHoldTheRow ==
    \A c \in Calls :
        alarmCalls[c] # AlarmIdle /\ ~alarmCalls[c].overtaken =>
            /\ alarmCalls[c].level = alarm.level
            /\ alarmCalls[c].severity = alarm.severity
            /\ alarmCalls[c].metadata = alarm.metadata
            /\ alarmCalls[c].op = "reopen" => alarm.status = "cleared"
=============================================================================
