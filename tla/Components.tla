----------------------------- MODULE Components -----------------------------
(***************************************************************************)
(* The components that share no state with one another, side by side.      *)
(*                                                                         *)
(* Steps of two of them commute, so that a behaviour in which a single     *)
(* component takes steps, the one in focus, shows all there is to see of   *)
(* it, and the states of the components add up instead of multiplying.     *)
(***************************************************************************)
EXTENDS Alarms, OperatorRecords, DeviceProvisioning, Sessions, Accounts, NodeStatus, ForecastService,
        LocalSafety, Curtailment, RemoteConfig, FirmwareLoop

VARIABLE focus      \* the component that takes steps

logVars == <<incidents, incidentId, decisions>>

vars == <<focus, alarmVars, logVars, caseVars, orderVars, keyVars, configVars, sessionVars,
          quotaVars, inviteVars, nodeVars, forecastVars, safetyVars, curtailmentVars, remoteVars,
          firmwareVars>>

Foci == {"alarm", "log", "case", "order", "keys", "configs", "sessions", "quota", "invite", "node",
         "forecast", "safety", "curtailment", "remote", "firmware"}

Init ==
    /\ focus \in Foci
    /\ AlarmInit /\ IncidentInit
    /\ RecordsInit
    /\ KeyInit /\ ConfigInit
    /\ SessionInit
    /\ QuotaInit /\ InviteInit
    /\ NodeInit
    /\ ForecastInit
    /\ SafetyInit
    /\ CurtailmentInit
    /\ RemoteInit
    /\ FirmwareInit /\ (focus # "firmware" => storageOk)

\* Everything but the component in focus; its own variables are none of these.
Others ==
    /\ focus' = focus
    /\ focus # "alarm" => UNCHANGED alarmVars
    /\ focus # "log" => UNCHANGED logVars
    /\ focus # "case" => UNCHANGED caseVars
    /\ focus # "order" => UNCHANGED orderVars
    /\ focus # "keys" => UNCHANGED keyVars
    /\ focus # "configs" => UNCHANGED configVars
    /\ focus # "sessions" => UNCHANGED sessionVars
    /\ focus # "quota" => UNCHANGED quotaVars
    /\ focus # "invite" => UNCHANGED inviteVars
    /\ focus # "node" => UNCHANGED nodeVars
    /\ focus # "forecast" => UNCHANGED forecastVars
    /\ focus # "safety" => UNCHANGED safetyVars
    /\ focus # "curtailment" => UNCHANGED curtailmentVars
    /\ focus # "remote" => UNCHANGED remoteVars
    /\ focus # "firmware" => UNCHANGED firmwareVars

Next ==
    /\ Others
    /\ \/ focus = "alarm" /\ AlarmNext
       \/ focus = "log" /\ \/ IncidentNext /\ UNCHANGED decisions
                           \/ Decide /\ UNCHANGED incidentVars
       \/ focus = "case" /\ CaseNext
       \/ focus = "order" /\ OrderNext
       \/ focus = "keys" /\ KeyNext
       \/ focus = "configs" /\ ConfigNext
       \/ focus = "sessions" /\ SessionNext
       \/ focus = "quota" /\ QuotaNext
       \/ focus = "invite" /\ InviteNext
       \/ focus = "node" /\ NodeNext
       \/ focus = "forecast" /\ ForecastNext
       \/ focus = "safety" /\ SafetyNext
       \/ focus = "curtailment" /\ CurtailmentNext
       \/ focus = "remote" /\ RemoteNext
       \/ focus = "firmware" /\ FirmwareNext

\* The monitor runs every minute, and a run comes to its end.
Fairness ==
    /\ WF_vars(focus = "node" /\ Others /\ \E c \in Calls : EvaluateNode(c))
    /\ WF_vars(focus = "node" /\ Others /\ \E c \in Calls : ReportNode(c))

Spec == Init /\ [][Next]_vars /\ Fairness

-----------------------------------------------------------------------------
TypeOK ==
    /\ focus \in Foci
    /\ AlarmTypeOK /\ IncidentTypeOK /\ RecordsTypeOK /\ ProvisioningTypeOK
    /\ SessionsTypeOK /\ AccountsTypeOK /\ NodeTypeOK /\ ForecastTypeOK /\ SafetyTypeOK
    /\ CurtailmentTypeOK /\ RemoteTypeOK /\ FirmwareTypeOK
=============================================================================
