--------------------------- MODULE Services_proofs ---------------------------
(***************************************************************************)
(* Theorems about NodeStatus, Sessions, Accounts, ForecastService and      *)
(* LocalSafety, for every set of calls and all limits.                     *)
(***************************************************************************)
EXTENDS NodeStatus, Sessions, Accounts, ForecastService, LocalSafety, TLAPS

-----------------------------------------------------------------------------
(* The status of a node.                                                   *)

MonitorsOK == node \in Node /\ monitors \in [Calls -> Monitor]
NodeInv == MonitorsOK /\ FreshSnapshots

LEMMA IdleMonitor == MonitorIdle \in Monitor /\ ~MonitorIdle.busy
BY DEF MonitorIdle, Monitor, Health

\* Whoever writes the row leaves no snapshot behind that nobody overtook.
LEMMA MonitorsOvertaken ==
    ASSUME NEW c \in Calls, monitors \in [Calls -> Monitor]
    PROVE  /\ Finish(monitors, c, MonitorIdle) \in [Calls -> Monitor]
           /\ \A d \in Calls : Finish(monitors, c, MonitorIdle)[d].busy
                                 => Finish(monitors, c, MonitorIdle)[d].overtaken
           /\ Overtake => /\ monitors' \in [Calls -> Monitor]
                          /\ \A d \in Calls : /\ monitors'[d].busy = monitors[d].busy
                                              /\ monitors'[d].busy => monitors'[d].overtaken
<1> DEFINE late(d) == monitors[d] # MonitorIdle
           after(d) == IF d = c THEN MonitorIdle ELSE [monitors[d] EXCEPT !.overtaken = late(d)]
<1>1. ASSUME NEW d \in Calls
      PROVE  /\ after(d) \in Monitor
             /\ after(d).busy => after(d).overtaken
             /\ [monitors[d] EXCEPT !.overtaken = monitors[d].busy] \in Monitor
             /\ [monitors[d] EXCEPT !.overtaken = monitors[d].busy].busy = monitors[d].busy
             /\ [monitors[d] EXCEPT !.overtaken = monitors[d].busy].overtaken = monitors[d].busy
  <2>1. monitors[d] \in Monitor
      OBVIOUS
  <2>2. late(d) \in BOOLEAN /\ (monitors[d].busy => late(d))
      BY IdleMonitor
  <2>3. after(d) = IF d = c THEN MonitorIdle ELSE [monitors[d] EXCEPT !.overtaken = late(d)]
      OBVIOUS
  <2> HIDE DEF late, after
  <2> QED
      BY <2>1, <2>2, <2>3, IdleMonitor DEF Monitor
<1>2. Finish(monitors, c, MonitorIdle) = [d \in Calls |-> after(d)]
    BY DEF Finish
<1>3. Overtake => monitors' = [d \in Calls |-> [monitors[d] EXCEPT !.overtaken = monitors[d].busy]]
    BY DEF Overtake
<1> HIDE DEF after
<1> QED
    BY <1>1, <1>2, <1>3

LEMMA NodeInitInv == NodeInit => NodeInv
BY IdleMonitor DEF NodeInit, NodeInv, MonitorsOK, FreshSnapshots, Node, Legacy, Health

\* The operators' and the readings' writes.
LEMMA OthersKeepNodeInv ==
    ASSUME NodeInv, node' \in Node, Overtake, NEW c \in Calls
    PROVE  NodeInv'
BY MonitorsOvertaken DEF NodeInv, MonitorsOK, FreshSnapshots

LEMMA NodeNextInv == NodeInv /\ [NodeNext]_nodeVars => NodeInv'
<1> SUFFICES ASSUME NodeInv, [NodeNext]_nodeVars PROVE NodeInv'
    OBVIOUS
<1>1. node \in Node /\ monitors \in [Calls -> Monitor]
    BY DEF NodeInv, MonitorsOK
<1>2. ASSUME NEW c \in Calls, EvaluateNode(c) PROVE NodeInv'
  <2> DEFINE snapshot == [busy |-> TRUE, next |-> NextHealth, overtaken |-> FALSE]
  <2>1. NextHealth \in Health /\ (node.status = "maintenance" => NextHealth \in {"maintenance", "disabled"})
      BY DEF NextHealth, Health
  <2>2. monitors' = [monitors EXCEPT ![c] = snapshot] /\ node' = node
      BY <1>2 DEF EvaluateNode
  <2>3. snapshot \in Monitor /\ snapshot.next = NextHealth
      BY <2>1 DEF Monitor
  <2> HIDE DEF snapshot
  <2> QED
      BY <1>1, <2>1, <2>2, <2>3 DEF NodeInv, MonitorsOK, FreshSnapshots
<1>3. ASSUME NEW c \in Calls, ReportNode(c) PROVE NodeInv'
  <2>1. monitors[c].next \in Health /\ ToLegacy(monitors[c].next) \in Legacy
      BY <1>1 DEF Monitor, ToLegacy, Legacy
  <2>2. node' \in Node
      BY <1>1, <1>3, <2>1 DEF ReportNode, Node
  <2>3. monitors' = Finish(monitors, c, MonitorIdle)
      BY <1>3 DEF ReportNode
  <2> QED
      BY <1>1, <2>2, <2>3, MonitorsOvertaken DEF NodeInv, MonitorsOK, FreshSnapshots
<1>4. CASE ResolveNode \/ GrowOld
    BY <1>4 DEF ResolveNode, GrowOld, NodeInv, MonitorsOK, FreshSnapshots
<1>5. ASSUME Overtake, node' \in Node PROVE NodeInv'
  <2>1. CASE Calls = {}
      BY <1>1, <1>5, <2>1 DEF NodeInv, MonitorsOK, FreshSnapshots, Overtake
  <2>2. CASE Calls # {}
      BY <1>5, <2>2, OthersKeepNodeInv
  <2> QED
      BY <2>1, <2>2
<1>6. ASSUME NEW lowBattery \in BOOLEAN, TouchNodeRow(lowBattery) PROVE NodeInv'
    BY <1>1, <1>5, <1>6 DEF TouchNodeRow, Node, Legacy, Health
<1>7. ASSUME NEW status \in Legacy, SetStatus(status) PROVE NodeInv'
    BY <1>1, <1>5, <1>7 DEF SetStatus, Node
<1>8. ASSUME NEW value \in BOOLEAN, SetActive(value) PROVE NodeInv'
    BY <1>1, <1>5, <1>8 DEF SetActive, Node
<1>9. CASE UNCHANGED nodeVars
    BY <1>9 DEF nodeVars, NodeInv, MonitorsOK, FreshSnapshots
<1> QED
    BY <1>2, <1>3, <1>4, <1>6, <1>7, <1>8, <1>9 DEF NodeNext

\* However many evaluations overlap, the monitor ends a maintenance only on a
\* snapshot somebody has overtaken, or of a disabled node (node-health.service.ts:71).
THEOREM MaintenanceKept == NodeSpec => MonitorKeepsMaintenance
<1>1. NodeSpec => []NodeInv
    BY NodeInitInv, NodeNextInv, PTL DEF NodeSpec
<1>2. ASSUME NodeInv, NodeNext, node' # node
      PROVE  MaintenanceStays
  <2> SUFFICES ASSUME node.status = "maintenance", node'.status # "maintenance",
                      NEW c \in Calls, monitors[c].busy, ~monitors'[c].busy
               PROVE  monitors[c].overtaken \/ monitors[c].next = "disabled"
      BY DEF MaintenanceStays
  <2>1. node \in Node /\ monitors \in [Calls -> Monitor]
      BY <1>2 DEF NodeInv, MonitorsOK
  <2>2. ~Overtake
      BY <2>1, MonitorsOvertaken
  <2>3. PICK d \in Calls : ReportNode(d)
      BY <1>2, <2>2 DEF NodeNext, EvaluateNode, ResolveNode, GrowOld, TouchNodeRow, SetStatus,
                        SetActive
  <2>4. d = c
    <3>1. d # c => monitors'[c] = [monitors[c] EXCEPT !.overtaken = monitors[c] # MonitorIdle]
        BY <2>1, <2>3 DEF ReportNode, Finish
    <3> QED
        BY <2>1, <3>1 DEF Monitor
  <2>5. node'.status = ToLegacy(monitors[c].next)
      BY <2>1, <2>3, <2>4 DEF ReportNode, Node
  <2> QED
      BY <1>2, <2>5 DEF NodeInv, FreshSnapshots, ToLegacy
<1>3. NodeInv /\ [NodeNext]_nodeVars => [MaintenanceStays]_node
    BY <1>2 DEF nodeVars
<1> QED
    BY <1>1, <1>3, PTL DEF NodeSpec, MonitorKeepsMaintenance

\* The age of a node's reading and the readings on their way keep to their ranges.
AgesOK == age \in {"fresh", "stale", "offline"} /\ ingests \in 0..MaxUpdates

LEMMA AgesNextOK == AgesOK /\ [NodeNext]_nodeVars => AgesOK'
<1> SUFFICES ASSUME AgesOK, [NodeNext]_nodeVars PROVE AgesOK'
    OBVIOUS
<1>1. MaxUpdates \in Nat
    BY ServiceAssumption
<1>2. CASE UNCHANGED <<age, ingests>>
    BY <1>2 DEF AgesOK
<1>3. CASE ResolveNode
    BY <1>1, <1>3 DEF ResolveNode, AgesOK
<1>4. ASSUME NEW lowBattery \in BOOLEAN, TouchNodeRow(lowBattery) PROVE AgesOK'
    BY <1>1, <1>4 DEF TouchNodeRow, AgesOK
<1>5. CASE GrowOld
    BY <1>5 DEF GrowOld, AgesOK
<1> QED
    BY <1>2, <1>3, <1>4, <1>5
    DEF NodeNext, nodeVars, EvaluateNode, ReportNode, SetStatus, SetActive

\* The row of a node, its monitor's snapshots and its readings keep their types
\* (node-health.service.ts:52-109, node.service.ts:355).
THEOREM NodeTyped == NodeSpec => []NodeTypeOK
<1>1. NodeInit => NodeInv /\ AgesOK
    BY NodeInitInv, ServiceAssumption DEF NodeInit, AgesOK
<1>2. NodeInv /\ AgesOK => NodeTypeOK
    BY DEF NodeInv, MonitorsOK, AgesOK, NodeTypeOK
<1> QED
    BY <1>1, <1>2, NodeNextInv, AgesNextOK, PTL DEF NodeSpec

-----------------------------------------------------------------------------
(* The quota of a manager.                                                 *)

QuotaInv ==
    /\ operators \in Nat /\ maxOperators \in Nat /\ quotaStale \in BOOLEAN
    /\ quotaCalls \in [Calls -> QuotaCall]
    /\ ~quotaStale => operators <= maxOperators /\ FreshCounts

LEMMA QuotaCallsOvertaken ==
    ASSUME NEW c \in Calls, quotaCalls \in [Calls -> QuotaCall]
    PROVE  /\ Finish(quotaCalls, c, QuotaIdle) \in [Calls -> QuotaCall]
           /\ \A d \in Calls : Finish(quotaCalls, c, QuotaIdle)[d].busy
                                 => Finish(quotaCalls, c, QuotaIdle)[d].overtaken
<1> DEFINE late(d) == quotaCalls[d] # QuotaIdle
           after(d) == IF d = c THEN QuotaIdle ELSE [quotaCalls[d] EXCEPT !.overtaken = late(d)]
<1>1. ASSUME NEW d \in Calls
      PROVE  after(d) \in QuotaCall /\ (after(d).busy => after(d).overtaken)
  <2>1. quotaCalls[d] \in QuotaCall
      OBVIOUS
  <2>2. late(d) \in BOOLEAN /\ (quotaCalls[d].busy => late(d))
      BY DEF QuotaIdle
  <2>3. after(d) = IF d = c THEN QuotaIdle ELSE [quotaCalls[d] EXCEPT !.overtaken = late(d)]
      OBVIOUS
  <2> HIDE DEF late, after
  <2> QED
      BY <2>1, <2>2, <2>3 DEF QuotaCall, QuotaIdle
<1> QED
    BY <1>1 DEF Finish

LEMMA QuotaNextInv == QuotaInv /\ [QuotaNext]_quotaVars => QuotaInv'
<1> SUFFICES ASSUME QuotaInv, [QuotaNext]_quotaVars PROVE QuotaInv'
    OBVIOUS
<1>1. ASSUME NEW c \in Calls, CountOperators(c) PROVE QuotaInv'
  <2>1. quotaCalls' \in [Calls -> QuotaCall]
      BY <1>1 DEF CountOperators, QuotaInv, QuotaCall
  <2> QED
      BY <1>1, <2>1 DEF CountOperators, QuotaInv, FreshCounts
<1>2. ASSUME NEW c \in Calls, CreateOperator(c) PROVE QuotaInv'
  <2>1. CASE operators' = operators + 1
    <3>1. /\ quotaCalls[c].busy /\ maxOperators' = maxOperators
          /\ quotaStale' = (quotaStale \/ quotaCalls[c].overtaken)
          /\ quotaCalls' = Finish(quotaCalls, c, QuotaIdle)
        BY <1>2, <2>1 DEF CreateOperator, QuotaInv
    <3>2. ~quotaStale' => operators < maxOperators
        BY <3>1 DEF QuotaInv, FreshCounts
    <3>3. FreshCounts'
        BY <3>1, QuotaCallsOvertaken DEF FreshCounts, QuotaInv
    <3>4. quotaCalls' \in [Calls -> QuotaCall]
        BY <3>1, QuotaCallsOvertaken DEF QuotaInv
    <3>5. operators' \in Nat /\ maxOperators' \in Nat /\ quotaStale' \in BOOLEAN
        BY <2>1, <3>1 DEF QuotaInv, QuotaCall
    <3>6. ~quotaStale' => operators' <= maxOperators'
        BY <2>1, <3>1, <3>2 DEF QuotaInv
    <3> QED
        BY <3>3, <3>4, <3>5, <3>6 DEF QuotaInv
  <2>2. CASE operators' # operators + 1
    <3>1. /\ quotaCalls' = [quotaCalls EXCEPT ![c] = QuotaIdle]
          /\ UNCHANGED <<operators, quotaStale, maxOperators>>
        BY <1>2, <2>2 DEF CreateOperator, GiveUp
    <3>2. QuotaIdle \in QuotaCall /\ ~QuotaIdle.busy
        BY DEF QuotaIdle, QuotaCall
    <3> QED
        BY <3>1, <3>2 DEF QuotaInv, FreshCounts
  <2> QED
      BY <2>1, <2>2
<1>3. ASSUME NEW limit \in 1..MaxUpdates + 1, SetQuota(limit) PROVE QuotaInv'
  <2> DEFINE late(d) == quotaCalls[d] # QuotaIdle
  <2>1. /\ maxOperators' \in Nat /\ operators' = operators
        /\ quotaStale' = (quotaStale \/ maxOperators' < operators)
        /\ quotaCalls' = [d \in Calls |-> [quotaCalls[d] EXCEPT !.overtaken = late(d)]]
      BY <1>3, ServiceAssumption DEF SetQuota
  <2>2. ASSUME NEW d \in Calls
        PROVE  quotaCalls'[d] \in QuotaCall /\ (quotaCalls'[d].busy => quotaCalls'[d].overtaken)
    <3>1. quotaCalls[d] \in QuotaCall
        BY DEF QuotaInv
    <3>2. late(d) \in BOOLEAN /\ (quotaCalls[d].busy => late(d))
        BY DEF QuotaIdle
    <3>3. quotaCalls'[d] = [quotaCalls[d] EXCEPT !.overtaken = late(d)]
        BY <2>1
    <3> HIDE DEF late
    <3> QED
        BY <3>1, <3>2, <3>3 DEF QuotaCall
  <2>3. quotaCalls' \in [Calls -> QuotaCall] /\ FreshCounts'
      BY <2>1, <2>2 DEF FreshCounts
  <2>4. quotaStale' \in BOOLEAN /\ operators' \in Nat
      BY <2>1 DEF QuotaInv
  <2>5. ~quotaStale' => operators' <= maxOperators'
    <3>1. quotaStale' \/ ~(maxOperators' < operators)
        BY <2>1
    <3> QED
        BY <2>1, <2>4, <3>1
  <2> QED
      BY <2>1, <2>3, <2>4, <2>5 DEF QuotaInv
<1>4. CASE UNCHANGED quotaVars
    BY <1>4 DEF quotaVars, QuotaInv, FreshCounts
<1> QED
    BY <1>1, <1>2, <1>3, <1>4 DEF QuotaNext

\* A count nobody overtook holds, in every state of a manager's account.
THEOREM QuotaInvariant == QuotaSpec => []QuotaInv
<1>1. QuotaInit => QuotaInv
  <2>1. QuotaIdle \in QuotaCall /\ ~QuotaIdle.busy
      BY DEF QuotaIdle, QuotaCall
  <2>2. QuotaInit => /\ operators = 0 /\ maxOperators = 2
                      /\ quotaCalls = [c \in Calls |-> QuotaIdle]
      BY DEF QuotaInit
  <2>3. QuotaInit => quotaStale \in BOOLEAN
      BY DEF QuotaInit
  <2>4. QuotaInit => operators \in Nat /\ maxOperators \in Nat /\ operators <= maxOperators
      BY <2>2
  <2>5. QuotaInit => quotaCalls \in [Calls -> QuotaCall] /\ FreshCounts
      BY <2>1, <2>2 DEF FreshCounts
  <2> QED
      BY <2>3, <2>4, <2>5 DEF QuotaInv
<1> QED
    BY <1>1, QuotaNextInv, PTL DEF QuotaSpec

\* For any number of creations, a manager's operators exceed the limit only when
\* two of them overlapped, or the limit fell below (team.service.ts:115-128).
THEOREM OperatorsWithinQuota == QuotaSpec => []QuotaKept
<1>1. QuotaInv => QuotaKept
    BY DEF QuotaInv, QuotaKept
<1> QED
    BY <1>1, QuotaInvariant, PTL

-----------------------------------------------------------------------------
(* Invitations.                                                            *)

InviteTypeOK ==
    /\ invitation \in Invitation
    /\ accounts \in SUBSET Spellings
    /\ inviteCalls \in [Calls -> InviteCall]
    /\ \A c \in Calls : inviteCalls[c].stage = "create" => inviteCalls[c].account \in Spellings
    /\ raced \in BOOLEAN

InviteInv == InviteTypeOK /\ MarkedOrMarking /\ AloneUnlessOverlapped /\ InvitationUsedOnce

LEMMA IdleInvite == InviteIdle \in InviteCall /\ InviteIdle.stage = "idle"
BY DEF InviteIdle, InviteCall, InviteStage

LEMMA CheckKeepsInviteInv ==
    ASSUME InviteInv, NEW c \in Calls, NEW token \in Nat, NEW account \in Spellings,
           CheckInvitation(c, token, account)
    PROVE  InviteInv'
<1> DEFINE others == \E e \in Calls : Registering(e)
           new == [stage |-> "create", account |-> account, overlapped |-> others]
           late(d) == inviteCalls[d].overlapped \/ Registering(d)
           after(d) == IF d = c THEN new ELSE [inviteCalls[d] EXCEPT !.overlapped = late(d)]
<1>1. inviteCalls \in [Calls -> InviteCall] /\ inviteCalls[c] = InviteIdle
    BY DEF InviteInv, InviteTypeOK, CheckInvitation
<1>2. inviteCalls' = [d \in Calls |-> after(d)]
      /\ UNCHANGED <<invitation, accounts, raced>> /\ ~invitation.accepted
    BY DEF CheckInvitation, Usable
<1>3. new \in InviteCall /\ new.stage = "create" /\ new.account = account /\ new.overlapped = others
    BY DEF InviteCall, InviteStage
<1>4. ASSUME NEW d \in Calls, d # c
      PROVE  /\ after(d) \in InviteCall
             /\ after(d).stage = inviteCalls[d].stage /\ after(d).account = inviteCalls[d].account
             /\ after(d).overlapped = late(d)
  <2>1. inviteCalls[d] \in InviteCall /\ late(d) \in BOOLEAN
      BY <1>1 DEF InviteCall
  <2> HIDE DEF late
  <2> QED
      BY <1>4, <2>1 DEF InviteCall
<1> HIDE DEF new, after
<1>5. /\ inviteCalls' \in [Calls -> InviteCall]
      /\ \A d \in Calls : inviteCalls'[d].stage = "create" => inviteCalls'[d].account \in Spellings
    BY <1>2, <1>3, <1>4 DEF after, InviteInv, InviteTypeOK
<1>6. /\ inviteCalls'[c].stage = "create" /\ inviteCalls'[c].overlapped = others
      /\ \A d \in Calls : d # c => /\ inviteCalls'[d].stage = inviteCalls[d].stage
                                   /\ inviteCalls'[d].overlapped = late(d)
    BY <1>2, <1>3, <1>4 DEF after
<1>7. MarkedOrMarking'
    BY <1>1, <1>2, <1>6, IdleInvite DEF InviteInv, MarkedOrMarking
<1>8. AloneUnlessOverlapped'
  <2> SUFFICES ASSUME NEW d \in Calls, inviteCalls'[d].stage = "create", ~inviteCalls'[d].overlapped
               PROVE  /\ ~raced => accounts = {}
                      /\ \A e \in Calls : Registering(e)' => e = d
      BY <1>2 DEF AloneUnlessOverlapped
  <2>1. d = c
      BY <1>6 DEF Registering
  <2>2. ~others
      BY <1>6, <2>1
  <2>3. \A e \in Calls : Registering(e)' => e = d
      BY <1>6, <2>1, <2>2 DEF Registering
  <2>4. ~raced => accounts = {}
      BY <1>2, <2>2 DEF InviteInv, MarkedOrMarking, Registering
  <2> QED
      BY <2>3, <2>4
<1> QED
    BY <1>2, <1>5, <1>7, <1>8 DEF InviteInv, InviteTypeOK, InvitationUsedOnce

\* A step that moves one call along, or ends it, and its effect on the rest.
LEMMA InviteNextInv == InviteInv /\ [InviteNext]_inviteVars => InviteInv'
<1> SUFFICES ASSUME InviteInv, [InviteNext]_inviteVars PROVE InviteInv'
    OBVIOUS
<1>1. /\ inviteCalls \in [Calls -> InviteCall] /\ invitation \in Invitation
      /\ accounts \in SUBSET Spellings /\ raced \in BOOLEAN
      /\ \A c \in Calls : inviteCalls[c].stage = "create" => inviteCalls[c].account \in Spellings
      /\ InviteIdle \in InviteCall
    BY IdleInvite DEF InviteInv, InviteTypeOK
<1>2. ASSUME NEW c \in Calls, NEW token \in 1..invitation.token, NEW account \in Spellings,
             CheckInvitation(c, token, account)
      PROVE  InviteInv'
    BY <1>1, <1>2, CheckKeepsInviteInv DEF Invitation
<1>3. ASSUME NEW c \in Calls, CreateAccount(c) PROVE InviteInv'
  <2>1. CASE inviteCalls[c].account \notin accounts
    <3>1. /\ inviteCalls[c] \in InviteCall /\ inviteCalls[c].stage = "create"
          /\ inviteCalls' = [inviteCalls EXCEPT ![c].stage = "mark"]
          /\ accounts' = accounts \cup {inviteCalls[c].account}
          /\ raced' = (raced \/ inviteCalls[c].overlapped)
          /\ invitation' = invitation
        BY <1>1, <1>3, <2>1 DEF CreateAccount
    <3>2. inviteCalls' \in [Calls -> InviteCall]
        BY <1>1, <3>1 DEF InviteCall, InviteStage
    <3>3. /\ inviteCalls'[c].stage = "mark"
          /\ \A d \in Calls : d # c => inviteCalls'[d] = inviteCalls[d]
        BY <1>1, <3>1 DEF InviteCall
    <3>4. ~raced' => ~raced /\ accounts = {}
        BY <3>1 DEF InviteInv, AloneUnlessOverlapped
    <3>5. InviteTypeOK'
        BY <1>1, <3>1, <3>2, <3>3 DEF InviteTypeOK, InviteCall
    <3>6. MarkedOrMarking'
        BY <3>3 DEF MarkedOrMarking
    <3>7. AloneUnlessOverlapped'
        BY <3>1, <3>3 DEF InviteInv, AloneUnlessOverlapped, Registering
    <3> QED
        BY <3>1, <3>4, <3>5, <3>6, <3>7 DEF InviteInv, InvitationUsedOnce
  <2>2. CASE inviteCalls[c].account \in accounts
    <3>1. /\ inviteCalls' = [inviteCalls EXCEPT ![c] = InviteIdle]
          /\ UNCHANGED <<invitation, accounts, raced>> /\ inviteCalls[c].stage = "create"
        BY <1>3, <2>2 DEF CreateAccount, GiveUp
    <3> QED
        BY <1>1, <3>1, IdleInvite DEF InviteInv, InviteTypeOK, MarkedOrMarking,
           AloneUnlessOverlapped, Registering, InvitationUsedOnce
  <2> QED
      BY <2>1, <2>2
<1>4. ASSUME NEW c \in Calls, MarkAccepted(c) PROVE InviteInv'
  <2>1. /\ inviteCalls' = [inviteCalls EXCEPT ![c] = InviteIdle]
        /\ invitation' = [invitation EXCEPT !.accepted = TRUE]
        /\ UNCHANGED <<accounts, raced>>
      BY <1>4 DEF MarkAccepted, GiveUp
  <2>2. invitation' \in Invitation /\ invitation'.accepted
      BY <1>1, <2>1 DEF Invitation
  <2> QED
      BY <1>1, <2>1, <2>2, IdleInvite DEF InviteInv, InviteTypeOK, MarkedOrMarking,
         AloneUnlessOverlapped, Registering, InvitationUsedOnce
<1>5. ASSUME NEW c \in Calls, RegistrationDies(c) PROVE InviteInv'
  <2>1. /\ inviteCalls' = [inviteCalls EXCEPT ![c] = InviteIdle]
        /\ UNCHANGED <<invitation, accounts>>
        /\ raced' = (raced \/ inviteCalls[c].stage = "mark")
      BY <1>5 DEF RegistrationDies, GiveUp
  <2> QED
      BY <1>1, <2>1, IdleInvite DEF InviteInv, InviteTypeOK, MarkedOrMarking,
         AloneUnlessOverlapped, Registering, InvitationUsedOnce
<1>6. ASSUME NEW c \in Calls, CheckResend(c) \/ Resend(c) PROVE InviteInv'
  <2>1. CASE CheckResend(c)
    <3>1. /\ inviteCalls[c] = InviteIdle
          /\ inviteCalls' = [inviteCalls EXCEPT ![c].stage = "resend"]
          /\ UNCHANGED <<invitation, accounts, raced>>
        BY <2>1 DEF CheckResend
    <3>2. /\ inviteCalls' \in [Calls -> InviteCall] /\ inviteCalls'[c].stage = "resend"
          /\ \A d \in Calls : d # c => inviteCalls'[d] = inviteCalls[d]
        BY <1>1, <3>1 DEF InviteCall, InviteStage
    <3> QED
        BY <1>1, <3>1, <3>2, IdleInvite DEF InviteInv, InviteTypeOK, MarkedOrMarking,
           AloneUnlessOverlapped, Registering, InvitationUsedOnce
  <2>2. CASE Resend(c)
    <3>1. /\ inviteCalls[c].stage = "resend"
          /\ inviteCalls' = [inviteCalls EXCEPT ![c] = InviteIdle]
          /\ invitation' = [invitation EXCEPT !.token = @ + 1, !.expired = FALSE]
          /\ UNCHANGED <<accounts, raced>>
        BY <2>2 DEF Resend, GiveUp
    <3>2. invitation.token + 1 \in Nat
        BY <1>1 DEF Invitation
    <3>3. invitation' \in Invitation /\ invitation'.accepted = invitation.accepted
        BY <1>1, <3>1, <3>2 DEF Invitation
    <3> QED
        BY <1>1, <3>1, <3>3, IdleInvite DEF InviteInv, InviteTypeOK, MarkedOrMarking,
           AloneUnlessOverlapped, Registering, InvitationUsedOnce
  <2> QED
      BY <1>6, <2>1, <2>2
<1>7. ASSUME Revoke \/ Expire PROVE InviteInv'
  <2>1. /\ UNCHANGED <<accounts, inviteCalls, raced>>
        /\ invitation' \in Invitation /\ invitation'.accepted = invitation.accepted
      BY <1>1, <1>7 DEF Revoke, Expire, Invitation
  <2> QED
      BY <2>1 DEF InviteInv, InviteTypeOK, MarkedOrMarking, AloneUnlessOverlapped, Registering,
         InvitationUsedOnce
<1>8. CASE UNCHANGED inviteVars
    BY <1>8 DEF inviteVars, InviteInv, InviteTypeOK, MarkedOrMarking, AloneUnlessOverlapped,
       Registering, InvitationUsedOnce
<1> QED
    BY <1>2, <1>3, <1>4, <1>5, <1>6, <1>7, <1>8 DEF InviteNext

\* An account nobody raced for is marked or about to be, in every state of an
\* invitation.
THEOREM InviteInvariant == InviteSpec => []InviteInv
<1>1. InviteInit => InviteInv
  <2> SUFFICES ASSUME InviteInit PROVE InviteInv
      OBVIOUS
  <2>1. \A c \in Calls : inviteCalls[c] \in InviteCall /\ inviteCalls[c].stage = "idle"
      BY IdleInvite DEF InviteInit
  <2>2. invitation \in Invitation
      BY DEF InviteInit, Invitation
  <2>3. inviteCalls \in [Calls -> InviteCall]
      BY IdleInvite DEF InviteInit
  <2> QED
      BY <2>1, <2>2, <2>3 DEF InviteInit, InviteInv, InviteTypeOK, MarkedOrMarking,
         AloneUnlessOverlapped, InvitationUsedOnce
<1> QED
    BY <1>1, InviteNextInv, PTL DEF InviteSpec

\* However many registrations, and however often the mail is sent again: two
\* accounts only when two registrations overlapped or one died.
THEOREM InvitationGivesOneAccount == InviteSpec => []InvitationUsedOnce
<1>1. InviteInv => InvitationUsedOnce
    BY DEF InviteInv
<1> QED
    BY <1>1, InviteInvariant, PTL

\* Both limits on accounts, for any manager's quota and any invitation.
THEOREM AccountsLimited == QuotaSpec /\ InviteSpec => []AccountsWithinLimits
<1>1. QuotaKept /\ InvitationUsedOnce => AccountsWithinLimits
    BY DEF AccountsWithinLimits
<1> QED
    BY <1>1, OperatorsWithinQuota, InvitationGivesOneAccount, PTL

\* The rows and the calls that make accounts keep their types.
THEOREM AccountsTyped == QuotaSpec /\ InviteSpec => []AccountsTypeOK
<1>1. QuotaInv /\ InviteInv => AccountsTypeOK
    BY DEF QuotaInv, InviteInv, InviteTypeOK, AccountsTypeOK
<1> QED
    BY <1>1, QuotaInvariant, InviteInvariant, PTL

-----------------------------------------------------------------------------
(* The circuits of the providers, and the caches of forecasts.             *)

ClosedBreaker == [state |-> "closed", failures |-> 0, cooled |-> FALSE]

BreakersOK == breaker \in [Providers -> Breaker] /\ ClosedIffFewFailures

LEMMA AnswersKeepBreaker ==
    ASSUME NEW b \in Breaker, b.state = "closed" <=> b.failures < FailureThreshold
    PROVE  /\ OnSuccess(b) \in Breaker
           /\ OnSuccess(b).state = "closed" <=> OnSuccess(b).failures < FailureThreshold
           /\ OnFailure(b) \in Breaker
           /\ OnFailure(b).state = "closed" <=> OnFailure(b).failures < FailureThreshold
<1>1. FailureThreshold \in Nat /\ 0 < FailureThreshold
    BY ForecastAssumption
<1>2. b.failures \in Nat /\ b.failures + 1 \in Nat
    BY DEF Breaker
<1>3. /\ OnSuccess(b) \in Breaker
      /\ OnSuccess(b).state = "closed" <=> OnSuccess(b).failures < FailureThreshold
    BY <1>1 DEF OnSuccess, Breaker
<1>4. CASE b.failures + 1 >= FailureThreshold \/ b.state = "half-open"
  <2> DEFINE count == IF b.failures < FailureThreshold THEN b.failures + 1 ELSE b.failures
  <2>1. OnFailure(b) = [state |-> "open", cooled |-> FALSE, failures |-> count]
      BY <1>4 DEF OnFailure
  <2>2. count \in Nat /\ ~(count < FailureThreshold)
      BY <1>1, <1>2, <1>4
  <2> HIDE DEF count
  <2>3. OnFailure(b) \in Breaker
      BY <2>1, <2>2 DEF Breaker
  <2> QED
      BY <1>3, <2>1, <2>2, <2>3
<1>5. CASE ~(b.failures + 1 >= FailureThreshold \/ b.state = "half-open")
  <2>1. OnFailure(b) = [b EXCEPT !.failures = b.failures + 1]
      BY <1>5 DEF OnFailure
  <2>2. /\ OnFailure(b) \in Breaker
        /\ OnFailure(b).state = b.state /\ OnFailure(b).failures = b.failures + 1
      BY <1>2, <2>1 DEF Breaker
  <2> QED
      BY <1>1, <1>2, <1>3, <1>5, <2>2
<1> QED
    BY <1>4, <1>5

\* One circuit changes, and keeps to the rule.
LEMMA OneBreaker ==
    ASSUME BreakersOK, NEW p \in Providers, NEW b \in Breaker,
           breaker' = [breaker EXCEPT ![p] = b],
           b.state = "closed" <=> b.failures < FailureThreshold
    PROVE  BreakersOK'
<1>1. /\ breaker' \in [Providers -> Breaker]
      /\ \A q \in Providers : breaker'[q] = IF q = p THEN b ELSE breaker[q]
    BY DEF BreakersOK
<1> QED
    BY <1>1 DEF BreakersOK, ClosedIffFewFailures

\* The calls ask providers that exist.
AskedOK == \A c \in Calls : forecasts[c].stage = "asked" => forecasts[c].provider \in Providers
ForecastCallsOK == forecasts \in [Calls -> ForecastCall] /\ AskedOK
ForecastInv == ForecastCallsOK /\ BreakersOK

LEMMA IdleForecast == ForecastIdle \in ForecastCall /\ ForecastIdle.stage = "idle"
BY DEF ForecastIdle, ForecastCall

LEMMA ForecastInitInv == ForecastInit => ForecastInv
<1> SUFFICES ASSUME ForecastInit PROVE ForecastInv
    OBVIOUS
<1>1. FailureThreshold \in Nat /\ 0 < FailureThreshold
    BY ForecastAssumption
<1>2. ClosedBreaker \in Breaker /\ ClosedBreaker.state = "closed" /\ ClosedBreaker.failures = 0
    BY DEF ClosedBreaker, Breaker
<1>3. breaker = [p \in Providers |-> ClosedBreaker]
    BY DEF ForecastInit, ClosedBreaker
<1>4. BreakersOK
    BY <1>1, <1>2, <1>3 DEF BreakersOK, ClosedIffFewFailures
<1>5. forecasts = [c \in Calls |-> ForecastIdle]
    BY DEF ForecastInit
<1> QED
    BY <1>4, <1>5, IdleForecast DEF ForecastInv, ForecastCallsOK, AskedOK

\* The one call that takes a step is a call again, and asks a provider only if it
\* is one.
LEMMA OneForecast ==
    ASSUME ForecastCallsOK, NEW c \in Calls, NEW call \in ForecastCall,
           forecasts' = [forecasts EXCEPT ![c] = call],
           call.stage = "asked" => call.provider \in Providers
    PROVE  ForecastCallsOK'
<1>1. /\ forecasts' \in [Calls -> ForecastCall]
      /\ \A d \in Calls : forecasts'[d] = IF d = c THEN call ELSE forecasts[d]
    BY DEF ForecastCallsOK
<1> QED
    BY <1>1 DEF ForecastCallsOK, AskedOK

LEMMA ForecastNextInv == ForecastInv /\ [ForecastNext]_forecastVars => ForecastInv'
<1> SUFFICES ASSUME ForecastInv, [ForecastNext]_forecastVars PROVE ForecastInv'
    OBVIOUS
<1> USE DEF ForecastInv
<1>1. /\ forecasts \in [Calls -> ForecastCall] /\ breaker \in [Providers -> Breaker]
      /\ \A p \in Providers : breaker[p].state = "closed" <=> breaker[p].failures < FailureThreshold
    BY DEF ForecastCallsOK, BreakersOK, ClosedIffFewFailures
<1>2. UNCHANGED forecasts => ForecastCallsOK'
    BY DEF ForecastCallsOK, AskedOK
<1>3. UNCHANGED breaker => BreakersOK'
    BY DEF BreakersOK, ClosedIffFewFailures
<1>4. ASSUME NEW c \in Calls, Miss(c) PROVE ForecastInv'
  <2> DEFINE call == [ForecastIdle EXCEPT !.stage = "next", !.provider = 1]
  <2>1. call \in ForecastCall /\ call.stage = "next"
      BY IdleForecast DEF ForecastCall
  <2>2. forecasts' = [forecasts EXCEPT ![c] = call] /\ UNCHANGED breaker
      BY <1>4 DEF Miss
  <2> HIDE DEF call
  <2> QED
      BY <1>3, <2>1, <2>2, OneForecast
<1>5. ASSUME NEW c \in Calls, TryProvider(c) PROVE ForecastInv'
  <2> DEFINE p == forecasts[c].provider
             asked == [forecasts[c] EXCEPT !.stage = "asked"]
             skipped == [forecasts[c] EXCEPT !.provider = p + 1]
             probed == [breaker[p] EXCEPT !.state = "half-open"]
  <2>1. forecasts[c] \in ForecastCall /\ p \in Providers /\ forecasts[c].stage = "next"
      BY <1>1, <1>5 DEF TryProvider
  <2>2. p \in Nat
      BY <2>1 DEF ForecastCall
  <2>3. /\ asked \in ForecastCall /\ asked.provider = p
        /\ skipped \in ForecastCall /\ skipped.stage = "next"
      BY <2>1, <2>2 DEF ForecastCall
  <2>4. \/ forecasts' = [forecasts EXCEPT ![c] = asked]
        \/ forecasts' = [forecasts EXCEPT ![c] = skipped]
      BY <1>5 DEF TryProvider, Ask, Skip
  <2>5. ForecastCallsOK'
    <3> HIDE DEF asked, skipped, p
    <3> QED
        BY <2>1, <2>3, <2>4, OneForecast
  <2>6. UNCHANGED breaker \/ (breaker[p].state = "open" /\ breaker' = [breaker EXCEPT ![p] = probed])
      BY <1>5 DEF TryProvider
  <2>7. /\ probed \in Breaker /\ probed.state = "half-open"
        /\ probed.failures = breaker[p].failures
    <3>1. breaker[p] \in Breaker
        BY <1>1, <2>1
    <3> QED
        BY <3>1 DEF Breaker
  <2> HIDE DEF probed, p
  <2>8. BreakersOK'
      BY <1>1, <1>3, <2>1, <2>6, <2>7, OneBreaker
  <2> QED
      BY <2>5, <2>8
<1>6. ASSUME NEW c \in Calls, Answered(c) \/ Failed(c) PROVE ForecastInv'
  <2> DEFINE p == forecasts[c].provider
             after == [forecasts[c] EXCEPT !.stage = "next", !.provider = p + 1]
  <2>1. forecasts[c] \in ForecastCall /\ p \in Providers
      BY <1>1, <1>6 DEF Failed, Answered, ForecastCallsOK, AskedOK
  <2>2. p + 1 \in Nat
      BY <2>1 DEF ForecastCall
  <2>3. after \in ForecastCall /\ after.stage = "next"
    <3> HIDE DEF p
    <3> QED
        BY <2>1, <2>2 DEF ForecastCall
  <2>4. forecasts' = [forecasts EXCEPT ![c] = after]
      BY <1>6 DEF Failed, Answered
  <2>5. ForecastCallsOK'
    <3> HIDE DEF after
    <3> QED
        BY <2>3, <2>4, OneForecast
  <2>6. \/ breaker' = [breaker EXCEPT ![p] = OnSuccess(breaker[p])]
        \/ breaker' = [breaker EXCEPT ![p] = OnFailure(breaker[p])]
      BY <1>6 DEF Failed, Answered
  <2> HIDE DEF p
  <2>7. BreakersOK'
      BY <1>1, <2>1, <2>6, AnswersKeepBreaker, OneBreaker
  <2> QED
      BY <2>5, <2>7
<1>7. ASSUME NEW c \in Calls, WriteMemory(c) \/ WriteRedis(c) \/ WriteMemoryOnly(c)
      PROVE  ForecastInv'
  <2> DEFINE written == [forecasts[c] EXCEPT !.stage = "redis"]
  <2>1. written \in ForecastCall /\ written.stage = "redis"
    <3>1. forecasts[c] \in ForecastCall
        BY <1>1
    <3> QED
        BY <3>1 DEF ForecastCall
  <2>2. /\ UNCHANGED breaker
        /\ \/ forecasts' = [forecasts EXCEPT ![c] = written]
           \/ forecasts' = [forecasts EXCEPT ![c] = ForecastIdle]
      BY <1>7 DEF WriteMemory, WriteRedis, WriteMemoryOnly, GiveUp
  <2> HIDE DEF written
  <2> QED
      BY <1>3, <2>1, <2>2, IdleForecast, OneForecast
<1>8. CASE ClearMemory
  <2> DEFINE late(d) == forecasts[d] # ForecastIdle
  <2>1. /\ UNCHANGED breaker
        /\ forecasts' = [d \in Calls |-> [forecasts[d] EXCEPT !.overtaken = late(d)]]
      BY <1>8 DEF ClearMemory
  <2>2. ASSUME NEW d \in Calls
        PROVE  /\ forecasts'[d] \in ForecastCall
               /\ forecasts'[d].stage = forecasts[d].stage
               /\ forecasts'[d].provider = forecasts[d].provider
    <3>1. forecasts[d] \in ForecastCall /\ late(d) \in BOOLEAN
        BY <1>1
    <3>2. forecasts'[d] = [forecasts[d] EXCEPT !.overtaken = late(d)]
        BY <2>1
    <3> HIDE DEF late
    <3> QED
        BY <3>1, <3>2 DEF ForecastCall
  <2>3. forecasts' \in [Calls -> ForecastCall]
      BY <2>1, <2>2
  <2> QED
      BY <1>3, <2>1, <2>2, <2>3 DEF ForecastCallsOK, AskedOK
<1>9. ASSUME NEW p \in Providers, Cool(p) PROVE ForecastInv'
  <2> DEFINE cooled == [breaker[p] EXCEPT !.cooled = TRUE]
  <2>1. /\ cooled \in Breaker /\ cooled.state = breaker[p].state
        /\ cooled.failures = breaker[p].failures
    <3>1. breaker[p] \in Breaker
        BY <1>1
    <3> QED
        BY <3>1 DEF Breaker
  <2>2. breaker' = [breaker EXCEPT ![p] = cooled] /\ UNCHANGED forecasts
      BY <1>9 DEF Cool
  <2> HIDE DEF cooled
  <2> QED
      BY <1>1, <1>2, <2>1, <2>2, OneBreaker
<1>10. CASE \/ HitMemory \/ HitRedis \/ ReadFails \/ ClearRedis \/ SkipRedis \/ ClearFails
            \/ ClearReturns \/ ExpireEntry \/ UNCHANGED forecastVars
    BY <1>2, <1>3, <1>10
    DEF HitMemory, HitRedis, ReadFails, ClearRedis, SkipRedis, ClearFails, ClearReturns,
        ExpireEntry, forecastVars
<1> QED
    BY <1>4, <1>5, <1>6, <1>7, <1>8, <1>9, <1>10 DEF ForecastNext

\* For any number of providers, calls and failures, in whatever order they are
\* answered, a circuit is closed just when its provider has failed fewer times in
\* a row than the threshold (circuitBreaker.ts:39-72).
THEOREM CircuitsFollowFailures == ForecastSpec => []ClosedIffFewFailures
<1>1. ForecastInv => ClosedIffFewFailures
    BY DEF ForecastInv, BreakersOK
<1> QED
    BY <1>1, ForecastInitInv, ForecastNextInv, PTL DEF ForecastSpec

\* The memory holds no old forecast, nor does Redis once it has been cleared,
\* unless a call has put it there.
CachesInv ==
    ~uncleared => /\ "old" \notin memory
                  /\ clearing = "done" => "old" \notin redis

LEMMA CachesNextInv == CachesInv /\ [ForecastNext]_forecastVars => CachesInv'
<1> SUFFICES ASSUME CachesInv, [ForecastNext]_forecastVars PROVE CachesInv'
    OBVIOUS
<1>1. ASSUME HitMemory \/ UNCHANGED forecastVars PROVE CachesInv'
    BY <1>1 DEF HitMemory, forecastVars, CachesInv
<1>2. ASSUME HitRedis PROVE CachesInv'
    BY <1>2 DEF HitRedis, CachesInv
<1>3. ASSUME UNCHANGED <<memory, redis, clearing, uncleared>> PROVE CachesInv'
    BY <1>3 DEF CachesInv
<1>4. ASSUME NEW c \in Calls,
             \/ Miss(c) \/ TryProvider(c) \/ Answered(c) \/ Failed(c) \/ WriteMemoryOnly(c)
      PROVE  CachesInv'
    BY <1>3, <1>4 DEF Miss, TryProvider, Failed, Answered, WriteMemoryOnly
<1>5. ASSUME NEW c \in Calls, WriteMemory(c) \/ WriteRedis(c) PROVE CachesInv'
  <2>1. Result(c) = "old" => forecasts[c].overtaken
      BY DEF Result
  <2>2. uncleared' = (uncleared \/ forecasts[c].overtaken) /\ clearing' = clearing
      BY <1>5 DEF WriteMemory, WriteRedis
  <2>3. \/ memory' = {Result(c)} /\ redis' = redis
        \/ redis' = {Result(c)} /\ memory' = memory
      BY <1>5 DEF WriteMemory, WriteRedis
  <2> QED
      BY <2>1, <2>2, <2>3 DEF CachesInv
<1>6. ASSUME ClearMemory PROVE CachesInv'
    BY <1>6 DEF ClearMemory, CachesInv
<1>7. ASSUME ClearRedis \/ SkipRedis \/ ClearFails PROVE CachesInv'
    BY <1>7 DEF ClearRedis, SkipRedis, ClearFails, CachesInv
<1>8. ASSUME ClearReturns PROVE CachesInv'
    BY <1>8 DEF ClearReturns, CachesInv
<1>9. ASSUME (\E p \in Providers : Cool(p)) \/ ReadFails PROVE CachesInv'
    BY <1>3, <1>9 DEF Cool, ReadFails
<1>10. ASSUME ExpireEntry PROVE CachesInv'
    BY <1>10 DEF ExpireEntry, CachesInv
<1> QED
    BY <1>1, <1>2, <1>4, <1>5, <1>6, <1>7, <1>8, <1>9, <1>10 DEF ForecastNext

\* For any number of requests: what is old in the memory after a clear, and in
\* Redis after a clear that reached it, was put there by a call under way
\* (forecast.service.ts:412, 428-433); a clear that does not reach Redis leaves it
\* as it is (440-445).
THEOREM ClearingCachesClears == ForecastSpec => []ClearedCachesFresh
<1>1. ForecastInit => CachesInv
    BY DEF ForecastInit, CachesInv
<1>2. CachesInv => ClearedCachesFresh
    BY DEF CachesInv, ClearedCachesFresh
<1> QED
    BY <1>1, <1>2, CachesNextInv, PTL DEF ForecastSpec

\* What the caches hold is a forecast.
CachesOK ==
    /\ memory \in SUBSET Forecast /\ redis \in SUBSET Forecast
    /\ connected \in BOOLEAN /\ uncleared \in BOOLEAN
    /\ clearing \in {"idle", "redis", "done", "memory only"}

LEMMA CachesNextOK == ForecastInv /\ CachesOK /\ [ForecastNext]_forecastVars => CachesOK'
<1> SUFFICES ASSUME ForecastInv, CachesOK, [ForecastNext]_forecastVars PROVE CachesOK'
    OBVIOUS
<1>1. ASSUME NEW c \in Calls
      PROVE  forecasts[c].overtaken \in BOOLEAN /\ Result(c) \in Forecast
    BY DEF ForecastInv, ForecastCallsOK, ForecastCall, Result, Forecast
<1>2. ASSUME UNCHANGED <<memory, redis, clearing, uncleared>>, connected' \in {TRUE, connected}
      PROVE  CachesOK'
    BY <1>2 DEF CachesOK
<1>3. CASE HitRedis
  <2>1. ("old" \in redis) \in BOOLEAN
      OBVIOUS
  <2> QED
      BY <1>3, <2>1 DEF HitRedis, CachesOK
<1>4. ASSUME NEW c \in Calls, WriteMemory(c) \/ WriteRedis(c) PROVE CachesOK'
    BY <1>1, <1>4 DEF WriteMemory, WriteRedis, CachesOK
<1>5. CASE ClearMemory
    BY <1>5 DEF ClearMemory, CachesOK, Forecast
<1>6. CASE ClearRedis \/ SkipRedis \/ ClearFails \/ ClearReturns \/ ExpireEntry
    BY <1>6 DEF ClearRedis, SkipRedis, ClearFails, ClearReturns, ExpireEntry, CachesOK
<1>7. CASE HitMemory \/ ReadFails \/ UNCHANGED forecastVars
    BY <1>2, <1>7 DEF HitMemory, ReadFails, forecastVars
<1>8. ASSUME NEW c \in Calls,
             \/ Miss(c) \/ TryProvider(c) \/ Answered(c) \/ Failed(c) \/ WriteMemoryOnly(c)
      PROVE  CachesOK'
    BY <1>2, <1>8
    DEF Miss, TryProvider, Failed, WriteMemoryOnly, Answered, EnsureRedisConnection
<1>9. ASSUME NEW p \in Providers, Cool(p) PROVE CachesOK'
    BY <1>2, <1>9 DEF Cool
<1> QED
    BY <1>3, <1>4, <1>5, <1>6, <1>7, <1>8, <1>9 DEF ForecastNext

\* Circuits, calls and caches keep their types (forecast.service.ts:380-433).
THEOREM ForecastsTyped == ForecastSpec => []ForecastTypeOK
<1>1. ForecastInit => CachesOK
    BY DEF ForecastInit, CachesOK, Forecast
<1>2. ForecastInv /\ CachesOK => ForecastTypeOK
    BY DEF ForecastInv, ForecastCallsOK, BreakersOK, CachesOK, ForecastTypeOK
<1> QED
    BY <1>1, <1>2, ForecastInitInv, ForecastNextInv, CachesNextOK, PTL DEF ForecastSpec

-----------------------------------------------------------------------------
(* The local safety controller.                                            *)

SafetyInv == SafetyTypeOK /\ SafetyInductive

LEMMA IdlePackage ==
    /\ PackageIdle \in Package
    /\ PackageIdle.stage = "idle" /\ PackageIdle.mode = "none"
    /\ ~PackageIdle.verified /\ ~PackageIdle.rolledBack /\ ~PackageIdle.missed
    /\ ~PackageIdle.overtaken
BY SafetyAssumption DEF PackageIdle, Package, Values

\* A step that leaves the device alone.
LEMMA AdvanceKeepsInv ==
    ASSUME SafetyInv, NEW c \in Calls, NEW package \in Package,
           packages' = [packages EXCEPT ![c] = package],
           UNCHANGED <<output, safeState>>,
           PackageWithinLimits(package), DeviceAsDecided(package, output, safeState)
    PROVE  SafetyInv'
<1>1. packages \in [Calls -> Package]
    BY DEF SafetyInv, SafetyTypeOK
<1>2. \A d \in Calls : packages'[d] = IF d = c THEN package ELSE packages[d]
    BY <1>1
<1>3. SafetyTypeOK'
    BY <1>1 DEF SafetyInv, SafetyTypeOK
<1>4. ASSUME NEW d \in Calls
      PROVE  /\ PackageWithinLimits(packages'[d])
             /\ DeviceAsDecided(packages'[d], output', safeState')
    BY <1>2 DEF SafetyInv, SafetyInductive
<1>5. SafetyInductive'
    BY <1>4 DEF SafetyInv, SafetyInductive
<1> QED
    BY <1>3, <1>5 DEF SafetyInv

\* A step that may move the device, and overtakes the other packages.
LEMMA WriteKeepsSafetyInv ==
    ASSUME SafetyInv, NEW c \in Calls, NEW package \in Package,
           AdvanceOvertaking(c, package),
           output' \in Limits, safeState' \in SafeModes \cup {"running"},
           PackageWithinLimits(package), DeviceAsDecided(package, output', safeState')
    PROVE  SafetyInv'
<1> DEFINE late(d) == packages[d] # PackageIdle
           after(d) == IF d = c THEN package ELSE [packages[d] EXCEPT !.overtaken = late(d)]
<1>1. packages \in [Calls -> Package] /\ output' \in Values
    BY SafetyAssumption DEF SafetyInv, SafetyTypeOK, Limits, MinimumAllowed, MaximumAllowed, Values
<1>2. packages' = [d \in Calls |-> after(d)]
    BY DEF AdvanceOvertaking
<1>3. ASSUME NEW d \in Calls
      PROVE  /\ after(d) \in Package /\ PackageWithinLimits(after(d))
             /\ DeviceAsDecided(after(d), output', safeState')
  <2>1. CASE d = c
      BY <2>1
  <2>2. CASE d # c
    <3>1. packages[d] \in Package /\ PackageWithinLimits(packages[d])
        BY <1>1 DEF SafetyInv, SafetyInductive
    <3>2. late(d) \in BOOLEAN /\ (packages[d].stage # "idle" => late(d))
        BY IdlePackage
    <3>3. after(d) = [packages[d] EXCEPT !.overtaken = late(d)]
        BY <2>2
    <3> HIDE DEF late, after
    <3>4. /\ after(d) \in Package
          /\ after(d).stage = packages[d].stage /\ after(d).mode = packages[d].mode
          /\ after(d).requested = packages[d].requested
          /\ after(d).current = packages[d].current
          /\ after(d).verified = packages[d].verified
          /\ after(d).overtaken = late(d)
        BY <3>1, <3>2, <3>3 DEF Package
    <3>5. PackageWithinLimits(after(d))
        BY <3>1, <3>4 DEF PackageWithinLimits
    <3>6. DeviceAsDecided(after(d), output', safeState')
        BY <3>2, <3>4 DEF DeviceAsDecided
    <3> QED
        BY <3>4, <3>5, <3>6
  <2> QED
      BY <2>1, <2>2
<1> HIDE DEF after
<1>4. SafetyTypeOK'
    BY <1>1, <1>2, <1>3 DEF SafetyTypeOK
<1>5. SafetyInductive'
    BY <1>2, <1>3 DEF SafetyInductive
<1> QED
    BY <1>4, <1>5 DEF SafetyInv

LEMMA IdleHolds ==
    /\ PackageWithinLimits(PackageIdle)
    /\ \A held, state : DeviceAsDecided(PackageIdle, held, state)
BY IdlePackage DEF PackageWithinLimits, DeviceAsDecided

LEMMA SafetyInitInv == SafetyInit => SafetyInv
<1> SUFFICES ASSUME SafetyInit PROVE SafetyInv
    OBVIOUS
<1>1. /\ output = 0 /\ safeState = "running"
      /\ packages = [c \in Calls |-> PackageIdle]
    BY DEF SafetyInit
<1>2. 0 \in Values /\ 0 \in Limits
    BY SafetyAssumption DEF Values, Limits, MinimumAllowed, MaximumAllowed
<1>3. SafetyTypeOK
    BY <1>1, <1>2, IdlePackage DEF SafetyTypeOK
<1>4. SafetyInductive
    BY <1>1, <1>2, IdleHolds DEF SafetyInductive
<1> QED
    BY <1>3, <1>4 DEF SafetyInv

\* What holds of every package in progress.
LEMMA PackageFacts ==
    ASSUME SafetyInv, NEW c \in Calls
    PROVE  /\ packages[c] \in Package
           /\ PackageWithinLimits(packages[c])
           /\ DeviceAsDecided(packages[c], output, safeState)
           /\ output \in Limits
           /\ safeState \in SafeModes \cup {"running"}
BY DEF SafetyInv, SafetyTypeOK, SafetyInductive

LEMMA ApplyKeepsInv ==
    ASSUME SafetyInv, NEW c \in Calls, NEW requested \in Values, NEW refused \in BOOLEAN,
           NEW healthy \in BOOLEAN, Apply(c, requested, refused, healthy)
    PROVE  SafetyInv'
<1> DEFINE mode == EvaluateLocalSafety(requested, output, refused, healthy)
           stage == IF mode = "none" THEN "decided" ELSE "safe"
           package == [PackageIdle EXCEPT !.stage = stage, !.requested = requested,
                                          !.current = output, !.mode = mode]
<1>1. packages' = [packages EXCEPT ![c] = package] /\ UNCHANGED <<output, safeState>>
    BY DEF Apply
<1>2. output \in Limits /\ output \in Values /\ output \in Int /\ requested \in Int
    BY SafetyAssumption DEF SafetyInv, SafetyTypeOK, SafetyInductive, Limits, Values
<1>3. mode \in SafeModes \cup {"none"}
    BY DEF EvaluateLocalSafety, SafeModes
<1>4. mode = "none" => requested \in Limits /\ requested - output \in -MaxRamp..MaxRamp
    BY <1>2, SafetyAssumption DEF EvaluateLocalSafety, Limits, MinimumAllowed, MaximumAllowed
<1> HIDE DEF mode
<1>5. stage \in {"decided", "safe"} /\ (stage = "decided" <=> mode = "none")
    OBVIOUS
<1> HIDE DEF stage
<1>6. /\ package \in Package
      /\ package.stage = stage /\ package.requested = requested /\ package.current = output
      /\ package.mode = mode /\ package.verified = FALSE
    BY <1>2, <1>3, <1>5, IdlePackage DEF Package
<1> HIDE DEF package
<1>7. PackageWithinLimits(package)
    BY <1>2, <1>4, <1>5, <1>6 DEF PackageWithinLimits
<1>8. DeviceAsDecided(package, output, safeState)
    BY <1>5, <1>6 DEF DeviceAsDecided
<1> QED
    BY <1>1, <1>6, <1>7, <1>8, AdvanceKeepsInv

LEMMA PretendKeepsInv ==
    ASSUME SafetyInv, NEW c \in Calls, Pretend(c)
    PROVE  SafetyInv'
<1> DEFINE package == [packages[c] EXCEPT !.stage = "report", !.verified = TRUE, !.missed = TRUE]
<1>1. /\ packages' = [packages EXCEPT ![c] = package] /\ UNCHANGED <<output, safeState>>
      /\ packages[c].stage = "decided"
    BY DEF Pretend, Advance
<1>2. /\ package \in Package /\ package.stage = "report" /\ package.missed
      /\ package.current = packages[c].current
    BY PackageFacts DEF Package
<1> HIDE DEF package
<1>3. PackageWithinLimits(package) /\ DeviceAsDecided(package, output, safeState)
    BY <1>1, <1>2, PackageFacts DEF PackageWithinLimits, DeviceAsDecided
<1> QED
    BY <1>1, <1>2, <1>3, AdvanceKeepsInv

LEMMA ReadBackKeepsInv ==
    ASSUME SafetyInv, NEW c \in Calls, NEW slow \in BOOLEAN, ReadBack(c, slow)
    PROVE  SafetyInv'
<1> DEFINE verified == [packages[c] EXCEPT !.stage = "report", !.verified = TRUE]
           mismatch == [packages[c] EXCEPT !.stage = "rollback"]
<1>1. /\ UNCHANGED <<output, safeState>> /\ packages[c].stage = "read"
      /\ \/ /\ packages' = [packages EXCEPT ![c] = verified]
            /\ output = packages[c].requested
         \/ packages' = [packages EXCEPT ![c] = mismatch]
    BY DEF ReadBack, Advance
<1>2. /\ verified \in Package /\ verified.stage = "report" /\ verified.verified
      /\ verified.requested = packages[c].requested /\ verified.current = packages[c].current
    BY PackageFacts DEF Package
<1>3. /\ mismatch \in Package /\ mismatch.stage = "rollback"
      /\ mismatch.verified = packages[c].verified
      /\ mismatch.requested = packages[c].requested /\ mismatch.current = packages[c].current
      /\ mismatch.overtaken = packages[c].overtaken
    BY PackageFacts DEF Package
<1> HIDE DEF verified, mismatch
<1>4. output = packages[c].requested
        => PackageWithinLimits(verified) /\ DeviceAsDecided(verified, output, safeState)
    BY <1>1, <1>2, PackageFacts DEF PackageWithinLimits, DeviceAsDecided, ReportTrue
<1>5. PackageWithinLimits(mismatch)
    BY <1>1, <1>3, PackageFacts DEF PackageWithinLimits
<1>6. DeviceAsDecided(mismatch, output, safeState)
    BY <1>1, <1>3, PackageFacts DEF DeviceAsDecided
<1> QED
    BY <1>1, <1>2, <1>3, <1>4, <1>5, <1>6, AdvanceKeepsInv

\* Where a write leaves the device.
LEMMA SetpointFacts ==
    ASSUME SafetyInv, NEW value \in Limits, NEW applied \in BOOLEAN, SendSetpoint(value, applied)
    PROVE  /\ output' \in Limits
           /\ safeState' \in SafeModes \cup {"running"}
           /\ output' = value \/ (output' = output /\ ~applied)
           /\ applied => output' = value
BY DEF SafetyInv, SafetyTypeOK, SafetyInductive, SendSetpoint

LEMMA WriteRequestedKeepsInv ==
    ASSUME SafetyInv, NEW c \in Calls, NEW applied \in BOOLEAN, NEW acknowledged \in BOOLEAN,
           WriteRequested(c, applied, acknowledged)
    PROVE  SafetyInv'
<1> DEFINE read == [packages[c] EXCEPT !.stage = "read"]
           refused == [packages[c] EXCEPT !.stage = "safe", !.mode = "hold"]
<1>1. /\ packages[c].stage = "decided"
      /\ SendSetpoint(packages[c].requested, applied)
      /\ AdvanceOvertaking(c, read) \/ AdvanceOvertaking(c, refused)
    BY DEF WriteRequested
<1>2. packages[c].requested \in Limits
    BY <1>1, PackageFacts DEF PackageWithinLimits
<1>3. /\ output' \in Limits /\ safeState' \in SafeModes \cup {"running"}
      /\ output' = packages[c].requested \/ output' = output
    BY <1>1, <1>2, SetpointFacts
<1>4. /\ read \in Package /\ read.stage = "read" /\ read.verified = packages[c].verified
      /\ read.requested = packages[c].requested /\ read.current = packages[c].current
      /\ read.overtaken = packages[c].overtaken
    BY PackageFacts DEF Package
<1>5. /\ refused \in Package /\ refused.stage = "safe" /\ refused.mode = "hold"
      /\ refused.verified = packages[c].verified /\ refused.current = packages[c].current
    BY PackageFacts DEF Package, SafeModes
<1> HIDE DEF read, refused
<1>6. PackageWithinLimits(read) /\ PackageWithinLimits(refused)
    BY <1>1, <1>4, <1>5, PackageFacts DEF PackageWithinLimits
<1>7. DeviceAsDecided(read, output', safeState') /\ DeviceAsDecided(refused, output', safeState')
    BY <1>1, <1>3, <1>4, <1>5, PackageFacts DEF DeviceAsDecided
<1> QED
    BY <1>1, <1>3, <1>4, <1>5, <1>6, <1>7, WriteKeepsSafetyInv

LEMMA WriteBackKeepsInv ==
    ASSUME SafetyInv, NEW c \in Calls, NEW applied \in BOOLEAN,
           WriteBack(c, applied) \/ WriteBackThrows(c, applied)
    PROVE  SafetyInv'
<1> DEFINE back == [packages[c] EXCEPT !.stage = "report", !.rolledBack = TRUE, !.missed = ~applied]
           thrown == [packages[c] EXCEPT !.stage = "safe", !.mode = "trip"]
<1>1. /\ packages[c].stage = "rollback"
      /\ SendSetpoint(packages[c].current, applied)
      /\ AdvanceOvertaking(c, back) \/ AdvanceOvertaking(c, thrown)
    BY DEF WriteBack, WriteBackThrows
<1>2. packages[c].current \in Limits /\ packages[c].verified = FALSE
    BY <1>1, PackageFacts DEF PackageWithinLimits, Package
<1>3. /\ output' \in Limits /\ safeState' \in SafeModes \cup {"running"}
      /\ applied => output' = packages[c].current
    BY <1>1, <1>2, SetpointFacts
<1>4. /\ back \in Package /\ back.stage = "report" /\ back.verified = FALSE
      /\ back.rolledBack = TRUE /\ back.missed = ~applied
      /\ back.current = packages[c].current
    BY <1>2, PackageFacts DEF Package
<1>5. /\ thrown \in Package /\ thrown.stage = "safe" /\ thrown.mode = "trip"
      /\ thrown.verified = FALSE /\ thrown.current = packages[c].current
    BY <1>2, PackageFacts DEF Package, SafeModes
<1> HIDE DEF back, thrown
<1>6. PackageWithinLimits(back) /\ PackageWithinLimits(thrown)
    BY <1>2, <1>4, <1>5 DEF PackageWithinLimits
<1>7. DeviceAsDecided(back, output', safeState') /\ DeviceAsDecided(thrown, output', safeState')
    BY <1>3, <1>4, <1>5 DEF DeviceAsDecided, ReportTrue
<1> QED
    BY <1>1, <1>3, <1>4, <1>5, <1>6, <1>7, WriteKeepsSafetyInv

LEMMA EnterSafeStateKeepsInv ==
    ASSUME SafetyInv, NEW c \in Calls, EnterSafeState(c)
    PROVE  SafetyInv'
<1> DEFINE package == [packages[c] EXCEPT !.stage = "report"]
<1>1. /\ packages[c].stage = "safe" /\ safeState' = packages[c].mode
      /\ output' = output /\ AdvanceOvertaking(c, package)
    BY DEF EnterSafeState
<1>2. packages[c].mode \in SafeModes /\ packages[c].verified = FALSE
    BY <1>1, PackageFacts DEF PackageWithinLimits, Package
<1>3. /\ package \in Package /\ package.stage = "report" /\ package.verified = FALSE
      /\ package.mode = packages[c].mode /\ package.current = packages[c].current
    BY <1>2, PackageFacts DEF Package
<1> HIDE DEF package
<1>4. PackageWithinLimits(package)
    BY <1>1, <1>3, PackageFacts DEF PackageWithinLimits
<1>5. DeviceAsDecided(package, output', safeState')
    BY <1>1, <1>2, <1>3 DEF DeviceAsDecided, ReportTrue, SafeModes
<1> QED
    BY <1>1, <1>2, <1>3, <1>4, <1>5, PackageFacts, WriteKeepsSafetyInv

\* The steps that end a package.
LEMMA EndKeepsInv ==
    ASSUME SafetyInv, NEW c \in Calls,
           \/ \E applied \in BOOLEAN : WriteThrows(c, applied)
           \/ AdapterThrows(c) \/ Report(c)
    PROVE  SafetyInv'
<1>1. CASE AdapterThrows(c) \/ Report(c)
  <2>1. packages' = [packages EXCEPT ![c] = PackageIdle] /\ UNCHANGED <<output, safeState>>
      BY <1>1 DEF AdapterThrows, Report, GiveUp
  <2> QED
      BY <2>1, IdlePackage, IdleHolds, AdvanceKeepsInv
<1>2. ASSUME NEW applied \in BOOLEAN, WriteThrows(c, applied)
      PROVE  SafetyInv'
  <2>1. /\ packages[c].stage = "decided" /\ AdvanceOvertaking(c, PackageIdle)
        /\ SendSetpoint(packages[c].requested, applied)
      BY <1>2 DEF WriteThrows
  <2>2. packages[c].requested \in Limits
      BY <2>1, PackageFacts DEF PackageWithinLimits
  <2> QED
      BY <2>1, <2>2, SetpointFacts, IdlePackage, IdleHolds, WriteKeepsSafetyInv
<1> QED
    BY <1>1, <1>2

LEMMA SafetyNextInv == SafetyInv /\ [SafetyNext]_safetyVars => SafetyInv'
<1>1. SafetyInv /\ UNCHANGED safetyVars => SafetyInv'
    BY DEF safetyVars, SafetyInv, SafetyTypeOK, SafetyInductive
<1> QED
    BY <1>1, ApplyKeepsInv, PretendKeepsInv, WriteRequestedKeepsInv, ReadBackKeepsInv,
       WriteBackKeepsInv, EnterSafeStateKeepsInv, EndKeepsInv DEF SafetyNext

\* The inductive invariant of the two theorems about the safety controller.
THEOREM SafetyInvariant == SafetySpec => []SafetyInv
BY SafetyInitInv, SafetyNextInv, PTL DEF SafetySpec

\* A report nobody overtook says what the device does, for every limit and ramp
\* and however writes fail (local-safety-controller.ts:155-247).
THEOREM ReportsAreTrue == SafetySpec => ReportsHold
<1>1. SafetyInv => ReportsMadeTrue
    BY PackageFacts DEF ReportsMadeTrue, DeviceAsDecided
<1>2. SafetyInv /\ [SafetyNext]_safetyVars => [ReportsMadeTrue]_packages
    BY <1>1
<1> QED
    BY <1>2, SafetyInvariant, PTL DEF SafetySpec, ReportsHold

\* For every limit and ramp, no step of any interleaving takes the device out of
\* its limits, and only an overtaken package moves it beyond the ramp
\* (local-safety-controller.ts:69-143).
THEOREM DeviceMovesWithinLimits == SafetySpec => MovesWithinLimits
<1>1. ASSUME SafetyInv, SafetyInv', SafetyNext, output' # output
      PROVE  MoveAllowed
  <2>1. PICK c \in Calls, applied \in BOOLEAN :
           \/ \E acknowledged \in BOOLEAN : WriteRequested(c, applied, acknowledged)
           \/ WriteBack(c, applied) \/ WriteBackThrows(c, applied) \/ WriteThrows(c, applied)
      BY <1>1 DEF SafetyNext, Apply, Pretend, ReadBack, EnterSafeState, AdapterThrows, Report
  <2> DEFINE package == packages[c]
  <2>2. /\ package.stage \in {"decided", "rollback"}
        /\ package.stage = "decided" => SendSetpoint(package.requested, applied)
        /\ package.stage = "rollback" => SendSetpoint(package.current, applied)
      BY <2>1 DEF WriteRequested, WriteBack, WriteBackThrows, WriteThrows
  <2>3. packages'[c].stage \notin {"decided", "rollback"}
    <3>1. package \in Package
        BY <1>1, PackageFacts
    <3>2. \E s \in {"read", "safe", "report"} :
             packages'[c].stage = s \/ packages'[c] = PackageIdle
        BY <2>1, <3>1 DEF WriteRequested, WriteBack, WriteBackThrows, WriteThrows,
                          AdvanceOvertaking, Package
    <3> QED
        BY <3>2, IdlePackage
  <2>4. /\ package.requested \in Limits /\ package.current \in Limits
        /\ package.requested - package.current \in -MaxRamp..MaxRamp
        /\ ~package.overtaken /\ package.stage = "decided" => output = package.current
        /\ ~package.overtaken /\ package.stage = "rollback"
             => output \in {package.current, package.requested}
      BY <1>1, <2>2, PackageFacts DEF PackageWithinLimits, DeviceAsDecided
  <2>5. output' \in Limits /\ output \in Limits
      BY <1>1 DEF SafetyInv, SafetyInductive
  <2>6. /\ package.stage = "decided" => output' = package.requested
        /\ package.stage = "rollback" => output' = package.current
      BY <1>1, <2>2 DEF SendSetpoint
  <2>7. ~package.overtaken => ~(output' - output > MaxRamp \/ output - output' > MaxRamp)
    <3>1. /\ MaxRamp \in Nat
          /\ \A v \in Limits : v \in Int
        BY SafetyAssumption DEF Limits, MinimumAllowed, MaximumAllowed
    <3> HIDE DEF package
    <3> QED
        BY <2>2, <2>4, <2>5, <2>6, <3>1
  <2> QED
      BY <2>2, <2>3, <2>5, <2>7 DEF MoveAllowed
<1>2. SafetyInv /\ SafetyInv' /\ [SafetyNext]_safetyVars => [MoveAllowed]_output
    BY <1>1 DEF safetyVars
<1> QED
    BY <1>2, SafetyInvariant, PTL DEF SafetySpec, MovesWithinLimits
-----------------------------------------------------------------------------
(* The sessions of a user.                                                 *)

TokenRow == [live : BOOLEAN, slipped : BOOLEAN]

\* What a call presents and has issued are rows, a suspension, a login or a
\* refresh is where its first checks lead, and the session a refresh was refused
\* for has ended.
CallOK(call, rows) ==
    /\ call.token \in 0..Len(rows) /\ call.issued \in 0..Len(rows)
    /\ call.op = "suspend" => call.stage = "revoke" /\ call.token = 0
    /\ call.stage = "issue" => call.op \in {"login", "refresh"}
    /\ call.op = "refresh" /\ call.stage \in {"issue", "revoke"} => call.token # 0
    /\ call.op = "refresh" /\ call.stage = "failed" /\ ~call.lost
         => call.token = 0 \/ ~rows[call.token].live

\* What a call about to issue a session to a suspended user has to be.
Excused(call, rows) ==
    \/ call.overtaken
    \/ call.op = "refresh" /\ call.token \in 1..Len(rows) /\ rows[call.token].slipped

SignedOut == suspended /\ (\A c \in Calls : authCalls[c].op # "suspend")

SessionInv ==
    /\ SessionsTypeOK
    /\ \A c \in Calls : CallOK(authCalls[c], tokens)
    /\ SignedOut => /\ \A i \in 1..Len(tokens) : tokens[i].live => tokens[i].slipped
                    /\ \A c \in Calls : authCalls[c].stage = "issue"
                                          => Excused(authCalls[c], tokens)

LEMMA IdleAuth ==
    /\ AuthIdle \in AuthCall /\ AuthIdle.op = "idle" /\ AuthIdle.stage = "load"
    /\ ~AuthIdle.overtaken /\ AuthIdle.token = 0 /\ AuthIdle.issued = 0
BY DEF AuthIdle, AuthCall, AuthOps

\* A call goes on as the same one; being overtaken is not undone.
SameCall(call, later) ==
    /\ later.op = call.op /\ later.stage = call.stage
    /\ later.token = call.token /\ later.issued = call.issued /\ later.lost = call.lost
    /\ call.overtaken => later.overtaken

\* A step of one call that, if it writes the rows, at most takes sessions away.
LEMMA RevokingKeepsInv ==
    ASSUME SessionInv, NEW c \in Calls,
           suspended' = suspended, cookie' \in 0..Len(tokens), access' \in BOOLEAN,
           tokens' \in Seq(TokenRow), Len(tokens') = Len(tokens),
           \A i \in 1..Len(tokens) : /\ tokens'[i].slipped = tokens[i].slipped
                                     /\ tokens'[i].live => tokens[i].live,
           authCalls' \in [Calls -> AuthCall],
           \A d \in Calls \ {c} : SameCall(authCalls[d], authCalls'[d]),
           CallOK(authCalls'[c], tokens),
           authCalls'[c].op = "suspend" <=> authCalls[c].op = "suspend",
           authCalls'[c].stage = "issue" /\ SignedOut => Excused(authCalls'[c], tokens)
    PROVE  SessionInv'
<1>1. SessionsTypeOK'
    BY DEF SessionInv, SessionsTypeOK, TokenRow
<1>2. ASSUME NEW d \in Calls PROVE CallOK(authCalls'[d], tokens')
    BY DEF SessionInv, CallOK, SameCall
<1>3. SignedOut' => SignedOut
    BY DEF SignedOut, SameCall
<1>4. SignedOut' => \A i \in 1..Len(tokens') : tokens'[i].live => tokens'[i].slipped
    BY <1>3 DEF SessionInv
<1>5. ASSUME NEW d \in Calls, SignedOut', authCalls'[d].stage = "issue"
      PROVE  Excused(authCalls'[d], tokens')
  <2>1. Excused(authCalls'[d], tokens)
      BY <1>3, <1>5 DEF SessionInv, SameCall, Excused
  <2> QED
      BY <2>1 DEF Excused
<1> QED
    BY <1>1, <1>2, <1>4, <1>5 DEF SessionInv

\* A step of one call that leaves the rows alone.
LEMMA CallKeepsInv ==
    ASSUME SessionInv, NEW c \in Calls, NEW call \in AuthCall,
           UNCHANGED <<suspended, tokens>>, cookie' \in 0..Len(tokens), access' \in BOOLEAN,
           authCalls' = [authCalls EXCEPT ![c] = call], CallOK(call, tokens),
           call.op = "suspend" <=> authCalls[c].op = "suspend",
           call.stage = "issue" /\ SignedOut => Excused(call, tokens)
    PROVE  SessionInv'
<1>1. authCalls \in [Calls -> AuthCall] /\ tokens \in Seq(TokenRow)
    BY DEF SessionInv, SessionsTypeOK, TokenRow
<1>2. /\ authCalls' \in [Calls -> AuthCall] /\ authCalls'[c] = call
      /\ \A d \in Calls \ {c} : SameCall(authCalls[d], authCalls'[d])
    BY <1>1 DEF SameCall
<1> QED
    BY <1>1, <1>2, RevokingKeepsInv

\* The step that ends a call and tells the others that they are overtaken.
LEMMA AuthCallsOvertaken ==
    ASSUME NEW c \in Calls, authCalls \in [Calls -> AuthCall]
    PROVE  /\ Finish(authCalls, c, AuthIdle) \in [Calls -> AuthCall]
           /\ Finish(authCalls, c, AuthIdle)[c] = AuthIdle
           /\ \A d \in Calls \ {c} :
                /\ SameCall(authCalls[d], Finish(authCalls, c, AuthIdle)[d])
                /\ authCalls[d].stage = "issue" => Finish(authCalls, c, AuthIdle)[d].overtaken
<1> DEFINE late(d) == authCalls[d] # AuthIdle
           after(d) == IF d = c THEN AuthIdle ELSE [authCalls[d] EXCEPT !.overtaken = late(d)]
<1>1. Finish(authCalls, c, AuthIdle) = [d \in Calls |-> after(d)] /\ after(c) = AuthIdle
    BY DEF Finish
<1>2. after(c) \in AuthCall
    BY <1>1, IdleAuth
<1>3. ASSUME NEW d \in Calls \ {c}
      PROVE  /\ after(d) \in AuthCall /\ SameCall(authCalls[d], after(d))
             /\ authCalls[d].stage = "issue" => after(d).overtaken
  <2>1. /\ authCalls[d] \in AuthCall /\ late(d) \in BOOLEAN
        /\ authCalls[d].overtaken \/ authCalls[d].stage = "issue" => late(d)
      BY IdleAuth
  <2>2. after(d) = [authCalls[d] EXCEPT !.overtaken = late(d)]
      OBVIOUS
  <2> HIDE DEF late, after
  <2> QED
      BY <2>1, <2>2 DEF AuthCall, SameCall
<1> HIDE DEF after
<1> QED
    BY <1>1, <1>2, <1>3

\* The steps that leave the rows alone.
LEMMA SendingKeepsInv ==
    ASSUME SessionInv, NEW c \in Calls,
           \/ SendLogin(c) \/ SendRefresh(c) \/ SendLogout(c) \/ SendChangePassword(c)
           \/ \E spared \in {0, cookie} : StartRevokeAll(c, spared)
    PROVE  SessionInv'
<1>1. /\ authCalls[c] = AuthIdle /\ authCalls[c].op # "suspend"
      /\ cookie \in 0..Len(tokens) /\ access \in BOOLEAN /\ Len(tokens) \in Nat
    BY IdleAuth DEF SendLogin, SendRefresh, SendLogout, SendChangePassword, StartRevokeAll,
                    SessionInv, SessionsTypeOK
<1>2. CASE SendLogin(c)
  <2> DEFINE call == [AuthIdle EXCEPT !.op = "login"]
  <2>1. authCalls' = [authCalls EXCEPT ![c] = call] /\ UNCHANGED <<suspended, tokens, cookie, access>>
      BY <1>2 DEF SendLogin
  <2>2. /\ call \in AuthCall /\ call.op = "login" /\ call.stage = "load" /\ call.token = 0
        /\ call.issued = 0
      BY IdleAuth DEF AuthCall, AuthOps
  <2> HIDE DEF call
  <2>3. CallOK(call, tokens)
      BY <1>1, <2>1, <2>2 DEF CallOK
  <2> QED
      BY <1>1, <2>1, <2>2, <2>3, CallKeepsInv
<1>3. CASE SendRefresh(c) \/ SendLogout(c)
  <2>1. PICK op \in {"refresh", "logout"} :
          /\ authCalls' = [authCalls EXCEPT ![c] = [AuthIdle EXCEPT !.op = op, !.token = cookie]]
          /\ UNCHANGED <<suspended, tokens, cookie, access>>
      BY <1>3 DEF SendRefresh, SendLogout
  <2> DEFINE call == [AuthIdle EXCEPT !.op = op, !.token = cookie]
  <2>2. cookie \in Nat
      BY <1>1
  <2>3. /\ call \in AuthCall /\ call.op = op /\ call.stage = "load" /\ call.token = cookie
        /\ call.issued = 0
      BY <2>2, IdleAuth DEF AuthCall, AuthOps
  <2>4. authCalls' = [authCalls EXCEPT ![c] = call]
      BY <2>1
  <2> HIDE DEF call
  <2>5. CallOK(call, tokens)
      BY <1>1, <2>1, <2>3, <2>4 DEF CallOK
  <2> QED
      BY <1>1, <2>1, <2>3, <2>4, <2>5, CallKeepsInv
<1>4. CASE SendChangePassword(c)
  <2> DEFINE call == [AuthIdle EXCEPT !.op = "changePassword", !.stage = "revoke"]
  <2>1. authCalls' = [authCalls EXCEPT ![c] = call] /\ UNCHANGED <<suspended, tokens, cookie, access>>
      BY <1>4 DEF SendChangePassword
  <2>2. /\ call \in AuthCall /\ call.op = "changePassword" /\ call.stage = "revoke"
        /\ call.token = 0 /\ call.issued = 0
      BY IdleAuth DEF AuthCall, AuthOps
  <2> HIDE DEF call
  <2>3. CallOK(call, tokens)
      BY <1>1, <2>1, <2>2 DEF CallOK
  <2> QED
      BY <1>1, <2>1, <2>2, <2>3, CallKeepsInv
<1>5. ASSUME NEW spared \in {0, cookie}, StartRevokeAll(c, spared) PROVE SessionInv'
  <2> DEFINE call == [AuthIdle EXCEPT !.op = "revokeAll", !.stage = "revoke", !.token = spared]
  <2>1. authCalls' = [authCalls EXCEPT ![c] = call] /\ UNCHANGED <<suspended, tokens, cookie, access>>
      BY <1>5 DEF StartRevokeAll
  <2>2. spared \in 0..Len(tokens) /\ spared \in Nat
      BY <1>1
  <2>3. /\ call \in AuthCall /\ call.op = "revokeAll" /\ call.stage = "revoke"
        /\ call.token = spared /\ call.issued = 0
      BY <2>2, IdleAuth DEF AuthCall, AuthOps
  <2> HIDE DEF call
  <2>4. CallOK(call, tokens)
      BY <1>1, <2>1, <2>2, <2>3 DEF CallOK
  <2> QED
      BY <1>1, <2>1, <2>2, <2>3, <2>4, CallKeepsInv
<1> QED
    BY <1>2, <1>3, <1>4, <1>5

LEMMA AnsweringKeepsInv ==
    ASSUME SessionInv, NEW c \in Calls,
           LoginChecks(c) \/ RefreshChecks(c) \/ Receive(c) \/ LoseAnswer(c)
    PROVE  SessionInv'
<1> DEFINE old == authCalls[c]
<1>1. /\ old \in AuthCall /\ CallOK(old, tokens)
      /\ cookie \in 0..Len(tokens) /\ access \in BOOLEAN /\ Len(tokens) \in Nat
    BY DEF SessionInv, SessionsTypeOK
<1>2. CASE LoginChecks(c)
  <2>1. PICK stage \in {"failed", "issue"} :
          /\ authCalls' = [authCalls EXCEPT ![c].stage = stage]
          /\ stage = "issue" => ~suspended
          /\ old.op = "login" /\ UNCHANGED <<suspended, tokens, cookie, access>>
      BY <1>2 DEF LoginChecks, Answer
  <2> DEFINE call == [old EXCEPT !.stage = stage]
  <2>2. /\ call \in AuthCall /\ call.op = old.op /\ call.stage = stage
        /\ call.token = old.token /\ call.issued = old.issued
      BY <1>1 DEF AuthCall
  <2>3. authCalls' = [authCalls EXCEPT ![c] = call]
      BY <2>1
  <2> HIDE DEF call
  <2> QED
      BY <1>1, <2>1, <2>2, <2>3, CallKeepsInv DEF CallOK, SignedOut
<1>3. CASE RefreshChecks(c)
  <2>1. PICK stage \in {"failed", "issue"} :
          /\ authCalls' = [authCalls EXCEPT ![c].stage = stage]
          /\ stage = "issue" => old.token # 0 /\ tokens[old.token].live
          /\ stage = "failed" => old.token = 0 \/ ~tokens[old.token].live
          /\ old.op = "refresh" /\ UNCHANGED <<suspended, tokens, cookie, access>>
      BY <1>3 DEF RefreshChecks, Answer
  <2> DEFINE call == [old EXCEPT !.stage = stage]
  <2>2. /\ call \in AuthCall /\ call.op = old.op /\ call.stage = stage
        /\ call.token = old.token /\ call.issued = old.issued
      BY <1>1 DEF AuthCall
  <2>3. authCalls' = [authCalls EXCEPT ![c] = call]
      BY <2>1
  <2> HIDE DEF call
  <2>4. CallOK(call, tokens)
      BY <1>1, <2>1, <2>2 DEF CallOK
  <2>5. stage = "issue" /\ SignedOut => Excused(call, tokens)
    <3>1. stage = "issue" => old.token \in 1..Len(tokens)
        BY <1>1, <2>1 DEF CallOK
    <3> QED
        BY <2>1, <2>2, <3>1 DEF SessionInv, Excused
  <2> QED
      BY <1>1, <2>1, <2>2, <2>3, <2>4, <2>5, CallKeepsInv
<1>4. CASE Receive(c)
  <2>1. /\ authCalls' = [authCalls EXCEPT ![c] = AuthIdle] /\ UNCHANGED <<suspended, tokens>>
        /\ cookie' \in {cookie, old.issued} /\ access' \in BOOLEAN
        /\ old.stage \in {"ok", "failed"}
      BY <1>1, <1>4 DEF Receive
  <2>2. cookie' \in 0..Len(tokens) /\ old.op # "suspend"
      BY <1>1, <2>1 DEF CallOK
  <2>3. CallOK(AuthIdle, tokens)
      BY <1>1, IdleAuth DEF CallOK
  <2> QED
      BY <2>1, <2>2, <2>3, IdleAuth, CallKeepsInv
<1>5. CASE LoseAnswer(c)
  <2> DEFINE call == [old EXCEPT !.stage = "failed", !.lost = TRUE]
  <2>1. /\ authCalls' = [authCalls EXCEPT ![c] = call]
        /\ old.op \in {"login", "refresh", "logout", "changePassword"}
        /\ UNCHANGED <<suspended, tokens, cookie, access>>
      BY <1>5 DEF LoseAnswer
  <2>2. /\ call \in AuthCall /\ call.op = old.op /\ call.stage = "failed"
        /\ call.token = old.token /\ call.issued = old.issued /\ call.lost = TRUE
      BY <1>1 DEF AuthCall
  <2> HIDE DEF call
  <2>3. CallOK(call, tokens)
      BY <1>1, <2>1, <2>2 DEF CallOK
  <2> QED
      BY <1>1, <2>1, <2>2, <2>3, CallKeepsInv
<1> QED
    BY <1>2, <1>3, <1>4, <1>5

\* A session issued to a suspended user is one its call had to be excused for.
LEMMA IssueKeepsInv ==
    ASSUME SessionInv, NEW c \in Calls, Issue(c)
    PROVE  SessionInv'
<1> DEFINE old == authCalls[c]
           slips == old.overtaken \/ (old.op = "refresh" /\ tokens[old.token].slipped)
           row == [live |-> TRUE, slipped |-> slips]
           stage == IF old.op = "login" THEN "ok" ELSE "revoke"
           next == Len(tokens) + 1
           call == [old EXCEPT !.issued = next, !.stage = stage]
<1>1. /\ old \in AuthCall /\ CallOK(old, tokens) /\ tokens \in Seq(TokenRow)
      /\ authCalls \in [Calls -> AuthCall]
      /\ cookie \in 0..Len(tokens) /\ access \in BOOLEAN /\ suspended \in BOOLEAN
    BY DEF SessionInv, SessionsTypeOK, TokenRow
<1>2. /\ tokens' = Append(tokens, row) /\ authCalls' = [authCalls EXCEPT ![c] = call]
      /\ UNCHANGED <<suspended, cookie, access>> /\ old.stage = "issue"
    BY DEF Issue
<1>3. old.op = "refresh" => old.token \in 1..Len(tokens)
    BY <1>1, <1>2 DEF CallOK
<1>4. slips \in BOOLEAN /\ (slips <=> Excused(old, tokens))
    BY <1>1, <1>3 DEF Excused, AuthCall, TokenRow
<1> HIDE DEF slips
<1>5. row \in TokenRow /\ row.slipped = slips
    BY <1>4 DEF TokenRow
<1> HIDE DEF row
<1>6. /\ tokens' \in Seq(TokenRow) /\ Len(tokens') = Len(tokens) + 1
      /\ tokens'[Len(tokens')] = row /\ \A i \in 1..Len(tokens) : tokens'[i] = tokens[i]
    BY <1>1, <1>2, <1>5
<1>7. stage \in {"ok", "revoke"}
    OBVIOUS
<1>15. next \in Nat /\ next = Len(tokens')
    BY <1>1, <1>6
<1> HIDE DEF stage, next
<1>8. /\ call \in AuthCall /\ call.op = old.op /\ call.stage = stage /\ call.token = old.token
      /\ call.issued = Len(tokens')
    BY <1>1, <1>7, <1>15 DEF AuthCall
<1> HIDE DEF call
<1>9. SessionsTypeOK'
    BY <1>1, <1>2, <1>6, <1>8 DEF SessionsTypeOK, TokenRow
<1>10. ASSUME NEW d \in Calls PROVE CallOK(authCalls'[d], tokens')
  <2>1. CallOK(authCalls[d], tokens) /\ authCalls[d] \in AuthCall
      BY <1>1 DEF SessionInv
  <2>2. CASE d = c
      BY <1>1, <1>2, <1>6, <1>7, <1>8, <2>2 DEF CallOK
  <2>3. CASE d # c
      BY <1>1, <1>2, <1>6, <2>1, <2>3 DEF CallOK
  <2> QED
      BY <2>2, <2>3
<1>11. SignedOut' => SignedOut
    BY <1>1, <1>2, <1>8 DEF SignedOut
<1>12. SignedOut => Excused(old, tokens)
    BY <1>2 DEF SessionInv
<1>13. SignedOut' => \A i \in 1..Len(tokens') : tokens'[i].live => tokens'[i].slipped
  <2>1. SignedOut' => \A i \in 1..Len(tokens) : tokens'[i].live => tokens'[i].slipped
      BY <1>6, <1>11 DEF SessionInv
  <2>2. SignedOut' => tokens'[Len(tokens')].slipped
      BY <1>4, <1>5, <1>6, <1>11, <1>12
  <2> QED
      BY <1>1, <1>6, <2>1, <2>2
<1>14. ASSUME NEW d \in Calls, SignedOut', authCalls'[d].stage = "issue"
       PROVE  Excused(authCalls'[d], tokens')
  <2>1. d # c /\ authCalls'[d] = authCalls[d]
      BY <1>1, <1>2, <1>7, <1>8, <1>14
  <2>2. Excused(authCalls[d], tokens)
      BY <1>11, <1>14, <2>1 DEF SessionInv
  <2> QED
      BY <1>1, <1>6, <2>1, <2>2 DEF Excused
<1> QED
    BY <1>9, <1>10, <1>13, <1>14 DEF SessionInv

\* The presented session ends; every row keeps its place and its past.
LEMMA RevokeOneKeepsInv ==
    ASSUME SessionInv, NEW c \in Calls, RevokePresented(c) \/ Logout(c)
    PROVE  SessionInv'
<1> DEFINE old == authCalls[c]
           call == [old EXCEPT !.stage = "ok"]
<1>1. /\ old \in AuthCall /\ CallOK(old, tokens) /\ tokens \in Seq(TokenRow)
      /\ authCalls \in [Calls -> AuthCall]
      /\ cookie \in 0..Len(tokens) /\ access \in BOOLEAN
    BY DEF SessionInv, SessionsTypeOK, TokenRow
<1>2. /\ authCalls' = [authCalls EXCEPT ![c] = call] /\ old.op \in {"refresh", "logout"}
      /\ UNCHANGED <<suspended, cookie, access>>
      /\ \/ tokens' = tokens
         \/ old.token # 0 /\ tokens' = [tokens EXCEPT ![old.token].live = FALSE]
    BY DEF RevokePresented, Logout, Answer, SessionInv, CallOK
<1>3. /\ call \in AuthCall /\ call.op = old.op /\ call.stage = "ok" /\ call.token = old.token
      /\ call.issued = old.issued
    BY <1>1 DEF AuthCall
<1> HIDE DEF call
<1>4. /\ tokens' \in Seq(TokenRow) /\ Len(tokens') = Len(tokens)
      /\ \A i \in 1..Len(tokens) : /\ tokens'[i].slipped = tokens[i].slipped
                                   /\ tokens'[i].live => tokens[i].live
  <2>1. old.token # 0 => old.token \in 1..Len(tokens)
      BY <1>1 DEF CallOK
  <2>2. CASE tokens' = tokens
      BY <1>1, <2>2
  <2>3. CASE old.token # 0 /\ tokens' = [tokens EXCEPT ![old.token].live = FALSE]
    <3> DEFINE row == [tokens[old.token] EXCEPT !.live = FALSE]
    <3>1. tokens[old.token] \in TokenRow
        BY <1>1, <2>1, <2>3
    <3>2. row \in TokenRow /\ row.slipped = tokens[old.token].slipped /\ ~row.live
        BY <3>1 DEF TokenRow
    <3>3. tokens' = [tokens EXCEPT ![old.token] = row]
        BY <2>3
    <3> HIDE DEF row
    <3> QED
        BY <1>1, <2>1, <2>3, <3>2, <3>3
  <2> QED
      BY <1>2, <2>2, <2>3
<1>5. CallOK(call, tokens)
    BY <1>1, <1>2, <1>3 DEF CallOK
<1>6. /\ authCalls' \in [Calls -> AuthCall] /\ authCalls'[c] = call
      /\ \A d \in Calls \ {c} : SameCall(authCalls[d], authCalls'[d])
    BY <1>1, <1>2, <1>3 DEF SameCall
<1> QED
    BY <1>1, <1>2, <1>3, <1>4, <1>5, <1>6, RevokingKeepsInv

\* A suspension that returns leaves no session, and overtakes every call that
\* is about to issue one; another revocation only takes sessions away.
LEMMA RevokeAllKeepsInv ==
    ASSUME SessionInv, NEW c \in Calls, RevokeAll(c)
    PROVE  SessionInv'
<1> DEFINE old == authCalls[c]
<1>1. /\ old \in AuthCall /\ CallOK(old, tokens) /\ tokens \in Seq(TokenRow)
      /\ authCalls \in [Calls -> AuthCall] /\ Len(tokens) \in Nat
      /\ cookie \in 0..Len(tokens) /\ access \in BOOLEAN
    BY DEF SessionInv, SessionsTypeOK, TokenRow
<1>2. /\ tokens' = [i \in 1..Len(tokens) |->
                      [tokens[i] EXCEPT !.live = tokens[i].live /\ i = old.token]]
      /\ authCalls' = [Finish(authCalls, c, AuthIdle) EXCEPT ![c] = RevocationAnswer(old)]
      /\ old.op \in {"suspend", "revokeAll", "changePassword"} /\ old.stage = "revoke"
      /\ UNCHANGED <<suspended, cookie, access>>
    BY DEF RevokeAll, Revoking
<1>3. /\ tokens' \in Seq(TokenRow) /\ Len(tokens') = Len(tokens)
      /\ \A i \in 1..Len(tokens) : /\ tokens'[i].slipped = tokens[i].slipped
                                   /\ tokens'[i].live => tokens[i].live /\ i = old.token
  <2>1. ASSUME NEW i \in 1..Len(tokens)
        PROVE  /\ [tokens[i] EXCEPT !.live = tokens[i].live /\ i = old.token] \in TokenRow
               /\ [tokens[i] EXCEPT !.live = tokens[i].live /\ i = old.token].slipped
                    = tokens[i].slipped
               /\ [tokens[i] EXCEPT !.live = tokens[i].live /\ i = old.token].live
                    => tokens[i].live /\ i = old.token
    <3>1. tokens[i] \in TokenRow
        BY <1>1
    <3> DEFINE still == tokens[i].live /\ i = old.token
    <3>2. still \in BOOLEAN
        OBVIOUS
    <3>3. still => tokens[i].live /\ i = old.token
        OBVIOUS
    <3> HIDE DEF still
    <3>4. /\ [tokens[i] EXCEPT !.live = still] \in TokenRow
          /\ [tokens[i] EXCEPT !.live = still].slipped = tokens[i].slipped
          /\ [tokens[i] EXCEPT !.live = still].live = still
        BY <3>1, <3>2 DEF TokenRow
    <3> QED
        BY <3>3, <3>4 DEF still
  <2> DEFINE row(i) == [tokens[i] EXCEPT !.live = tokens[i].live /\ i = old.token]
  <2>2. tokens' = [i \in 1..Len(tokens) |-> row(i)]
      BY <1>2
  <2>3. \A i \in 1..Len(tokens) : /\ row(i) \in TokenRow /\ row(i).slipped = tokens[i].slipped
                                  /\ row(i).live => tokens[i].live /\ i = old.token
      BY <2>1
  <2> HIDE DEF row
  <2> QED
      BY <1>1, <2>2, <2>3
<1> DEFINE answer == RevocationAnswer(old)
<1>4. /\ answer \in AuthCall /\ CallOK(answer, tokens)
      /\ answer.op # "suspend" /\ answer.stage # "issue"
  <2>1. CASE old.op = "changePassword"
    <3>1. /\ answer \in AuthCall /\ answer.op = old.op /\ answer.stage = "ok"
          /\ answer.token = old.token /\ answer.issued = old.issued
        BY <1>1, <2>1 DEF RevocationAnswer, AuthCall
    <3> QED
        BY <1>1, <2>1, <3>1 DEF CallOK
  <2>2. CASE old.op # "changePassword"
      BY <1>1, <2>2, IdleAuth DEF RevocationAnswer, CallOK
  <2> QED
      BY <2>1, <2>2
<1> HIDE DEF answer
<1>5. /\ authCalls' \in [Calls -> AuthCall] /\ authCalls'[c] = answer
      /\ \A d \in Calls \ {c} : /\ SameCall(authCalls[d], authCalls'[d])
                                /\ authCalls[d].stage = "issue" => authCalls'[d].overtaken
    BY <1>1, <1>2, <1>4, AuthCallsOvertaken DEF answer
<1>6. CallOK(authCalls'[c], tokens) /\ authCalls'[c].op # "suspend" /\ authCalls'[c].stage # "issue"
    BY <1>5, <1>4
<1>7. CASE old.op # "suspend"
    BY <1>1, <1>2, <1>3, <1>5, <1>6, <1>7, RevokingKeepsInv
<1>8. CASE old.op = "suspend"
  <2>1. \A i \in 1..Len(tokens') : ~tokens'[i].live
      BY <1>1, <1>3, <1>8 DEF CallOK
  <2>2. SessionsTypeOK'
      BY <1>1, <1>2, <1>3, <1>5 DEF SessionInv, SessionsTypeOK, TokenRow
  <2>3. ASSUME NEW d \in Calls PROVE CallOK(authCalls'[d], tokens')
      BY <1>3, <1>5, <1>6 DEF SessionInv, CallOK, SameCall
  <2>4. ASSUME NEW d \in Calls, authCalls'[d].stage = "issue"
        PROVE  Excused(authCalls'[d], tokens')
      BY <1>5, <1>6, <2>4 DEF Excused, SameCall
  <2> QED
      BY <2>1, <2>2, <2>3, <2>4 DEF SessionInv
<1> QED
    BY <1>2, <1>7, <1>8

LEMMA SuspendKeepsInv ==
    ASSUME SessionInv, NEW c \in Calls, NEW value \in BOOLEAN, Suspend(c, value)
    PROVE  SessionInv'
<1>1. /\ authCalls[c] = AuthIdle /\ suspended' = value /\ UNCHANGED <<tokens, cookie, access>>
      /\ authCalls \in [Calls -> AuthCall] /\ Len(tokens) \in Nat
    BY DEF Suspend, SessionInv, SessionsTypeOK
<1>2. CASE value = FALSE
  <2>1. authCalls' = authCalls
      BY <1>2 DEF Suspend
  <2> QED
      BY <1>1, <1>2, <2>1 DEF SessionInv, SessionsTypeOK, SignedOut
<1>3. CASE value = TRUE
  <2> DEFINE call == [AuthIdle EXCEPT !.op = "suspend", !.stage = "revoke"]
  <2>1. authCalls' = [authCalls EXCEPT ![c] = call]
      BY <1>3 DEF Suspend
  <2>2. /\ call \in AuthCall /\ call.op = "suspend" /\ call.stage = "revoke"
        /\ call.token = 0 /\ call.issued = 0
      BY IdleAuth DEF AuthCall, AuthOps
  <2> HIDE DEF call
  <2>3. authCalls'[c] = call /\ authCalls' \in [Calls -> AuthCall]
        /\ \A d \in Calls \ {c} : authCalls'[d] = authCalls[d]
      BY <1>1, <2>1, <2>2
  <2>4. ~SignedOut'
      BY <2>2, <2>3 DEF SignedOut
  <2>5. SessionsTypeOK'
      BY <1>1, <1>3, <2>3 DEF SessionInv, SessionsTypeOK
  <2>6. ASSUME NEW d \in Calls PROVE CallOK(authCalls'[d], tokens')
      BY <1>1, <2>2, <2>3 DEF SessionInv, CallOK
  <2> QED
      BY <2>4, <2>5, <2>6 DEF SessionInv
<1> QED
    BY <1>2, <1>3

LEMMA SessionInitInv == SessionInit => SessionInv
<1> SUFFICES ASSUME SessionInit PROVE SessionInv
    OBVIOUS
<1>1. /\ suspended = FALSE /\ tokens = <<>> /\ cookie = 0 /\ access = FALSE
      /\ authCalls = [c \in Calls |-> AuthIdle]
    BY DEF SessionInit
<1>2. tokens \in Seq(TokenRow) /\ Len(tokens) = 0
    BY <1>1
<1>3. authCalls \in [Calls -> AuthCall] /\ \A c \in Calls : CallOK(authCalls[c], tokens)
    BY <1>1, <1>2, IdleAuth DEF CallOK
<1>4. SessionsTypeOK
  <2>1. suspended \in BOOLEAN /\ access \in BOOLEAN
      BY <1>1
  <2>2. cookie \in 0..Len(tokens)
      BY <1>1, <1>2
  <2> QED
      BY <1>2, <1>3, <2>1, <2>2 DEF SessionsTypeOK, TokenRow
<1>5. ~SignedOut
    BY <1>1 DEF SignedOut
<1> QED
    BY <1>3, <1>4, <1>5 DEF SessionInv

LEMMA SessionNextInv == SessionInv /\ [SessionNext]_sessionVars => SessionInv'
<1>1. SessionInv /\ UNCHANGED sessionVars => SessionInv'
    BY DEF sessionVars, SessionInv, SessionsTypeOK, SignedOut
<1> QED
    BY <1>1, SendingKeepsInv, AnsweringKeepsInv, IssueKeepsInv, RevokeOneKeepsInv,
       RevokeAllKeepsInv, SuspendKeepsInv DEF SessionNext

\* However many logins, refreshes, suspensions and revocations overlap, a
\* suspended user keeps only sessions that an overtaken call issued, and their
\* successors (auth.service.ts:201-214 does not look at the status).
THEOREM SuspensionSignsOut == SessionSpec => []SuspendedSignedOut
<1>1. SessionInv => SuspendedSignedOut
    BY DEF SessionInv, SuspendedSignedOut, SignedOut
<1> QED
    BY <1>1, SessionInitInv, SessionNextInv, PTL DEF SessionSpec

\* The user's row, tokens and calls, and what the browser holds, keep their types
\* (auth.service.ts:133-273, api.ts:858-905).
THEOREM SessionsTyped == SessionSpec => []SessionsTypeOK
<1>1. SessionInv => SessionsTypeOK
    BY DEF SessionInv
<1> QED
    BY <1>1, SessionInitInv, SessionNextInv, PTL DEF SessionSpec

\* However refreshes overlap, the browser forgets a live session only on logout,
\* on a lost answer, or when a refresh that presented another token is refused
\* (api.ts:891).
THEOREM LiveSessionsDroppedByRaceOnly == SessionSpec => SessionDroppedOnlyByRace
<1> DEFINE Dropped == access /\ ~access' /\ cookie # 0 /\ tokens[cookie].live
           ByRace(c) == /\ authCalls[c] # AuthIdle /\ authCalls'[c] = AuthIdle
                        /\ \/ authCalls[c].op = "logout" \/ authCalls[c].lost
                           \/ authCalls[c].op = "refresh" /\ authCalls[c].token # cookie
<1>1. ASSUME SessionInv, [SessionNext]_sessionVars, Dropped
      PROVE  \E c \in Calls : ByRace(c)
  <2>1. PICK c \in Calls : Receive(c)
      BY <1>1 DEF SessionNext, sessionVars, SendLogin, SendRefresh, SendLogout, LoginChecks,
                  SendChangePassword, RefreshChecks, Issue, RevokePresented, Logout, Suspend,
                  StartRevokeAll, RevokeAll, LoseAnswer
  <2>2. /\ authCalls[c].stage \in {"ok", "failed"}
        /\ authCalls' = [authCalls EXCEPT ![c] = AuthIdle]
        /\ \/ authCalls[c].op = "logout"
           \/ authCalls[c].op = "refresh" /\ authCalls[c].stage = "failed"
      BY <1>1, <2>1 DEF Receive
  <2>3. authCalls'[c] = AuthIdle /\ authCalls[c] # AuthIdle
      BY <1>1, <2>2, IdleAuth DEF SessionInv, SessionsTypeOK
  <2>4. CallOK(authCalls[c], tokens)
      BY <1>1 DEF SessionInv
  <2> QED
      BY <1>1, <2>2, <2>3, <2>4 DEF CallOK
<1>2. SessionInv /\ [SessionNext]_sessionVars
        => [access /\ ~access' /\ cookie # 0 /\ tokens[cookie].live
              => \E c \in Calls : /\ authCalls[c] # AuthIdle /\ authCalls'[c] = AuthIdle
                                  /\ \/ authCalls[c].op = "logout"
                                     \/ authCalls[c].lost
                                     \/ /\ authCalls[c].op = "refresh"
                                        /\ authCalls[c].token # cookie]_<<access, authCalls>>
    BY <1>1
<1> QED
    BY <1>2, SessionInitInv, SessionNextInv, PTL DEF SessionSpec, SessionDroppedOnlyByRace
=============================================================================
