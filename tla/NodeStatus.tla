----------------------------- MODULE NodeStatus -----------------------------
(***************************************************************************)
(* Who writes the status of one edge node:                                 *)
(*                                                                         *)
(*   node-health.service.ts   the monitor, every minute                    *)
(*   reading.service.ts       a reading that has been stored               *)
(*   node.service.ts          operators, and the resolution of the node    *)
(*                                                                         *)
(* Time is the age of the last reading against the node's two limits       *)
(* (domain/units.ts).  Site, name and restart requests are left out, and a *)
(* weak signal stands with a late reading: both make the node stale.       *)
(***************************************************************************)
EXTENDS ServiceCalls

VARIABLES
    node,           \* the EdgeNode row
    age,            \* calculateDataFreshness of its last reading
    monitors,       \* [Calls -> evaluation in progress]; nothing keeps two apart
    ingests         \* calls of createReading that have resolved the node

nodeVars == <<node, age, monitors, ingests>>

Health == {"online", "stale", "degraded", "offline", "maintenance", "disabled"}
Legacy == {"online", "offline", "maintenance"}
Node == [status : Legacy, healthState : Health, isActive : BOOLEAN, lowBattery : BOOLEAN]

Monitor == [busy : BOOLEAN, next : Health, overtaken : BOOLEAN]
MonitorIdle == [busy |-> FALSE, next |-> "online", overtaken |-> FALSE]

\* createEdgeNode, or a node created by its first reading
NodeInit ==
    /\ node = [status |-> "online", healthState |-> "online", isActive |-> TRUE,
               lowBattery |-> FALSE]
    /\ age = "fresh"
    /\ monitors = [c \in Calls |-> MonitorIdle]
    /\ ingests = 0

\* Everybody but the monitor has written: its snapshots are stale.
Overtake == monitors' = [c \in Calls |-> [monitors[c] EXCEPT !.overtaken = monitors[c].busy]]

-----------------------------------------------------------------------------
\* Mutant: the health state itself.
ToLegacyUnmapped(health) == health

\* toLegacyStatus
ToLegacy(health) ==
    IF health = "maintenance" THEN "maintenance"
    ELSE IF health \in {"online", "stale", "degraded"} THEN "online" ELSE "offline"

\* Mutant: maintenance is not looked at.
EvaluateIgnoringMaintenance ==
    IF ~node.isActive THEN "disabled"
    ELSE IF age = "offline" THEN "offline"
    ELSE IF node.lowBattery THEN "degraded"
    ELSE IF age = "stale" THEN "stale" ELSE "online"

\* The state evaluateNodeHealth derives from the row it loaded.
NextHealth ==
    IF ~node.isActive THEN "disabled"
    ELSE IF node.status = "maintenance" THEN "maintenance"
    ELSE IF age = "offline" THEN "offline"
    ELSE IF node.lowBattery THEN "degraded"
    ELSE IF age = "stale" THEN "stale" ELSE "online"

\* evaluateNodeHealth: one query for all nodes; a node whose health state would
\* not change is skipped.
EvaluateNode(c) ==
    /\ ~monitors[c].busy
    /\ NextHealth # node.healthState
    /\ monitors' = [monitors EXCEPT ![c] = [busy |-> TRUE, next |-> NextHealth,
                                            overtaken |-> FALSE]]
    /\ UNCHANGED <<node, age, ingests>>

\* Mutant: only the history is written.
ReportHistoryOnly(c) ==
    /\ monitors[c].busy
    /\ monitors' = GiveUp(monitors, c, MonitorIdle)
    /\ UNCHANGED <<node, age, ingests>>

\* ... and, when the loop comes to it, the node is updated by id.
ReportNode(c) ==
    /\ monitors[c].busy
    /\ node' = [node EXCEPT !.healthState = monitors[c].next,
                            !.status = ToLegacy(monitors[c].next)]
    /\ monitors' = Finish(monitors, c, MonitorIdle)
    /\ UNCHANGED <<age, ingests>>

\* resolveNodeForIngestion: an inactive node is refused.
ResolveNode ==
    /\ node.isActive
    /\ ingests < MaxUpdates
    /\ ingests' = ingests + 1
    /\ UNCHANGED <<node, age, monitors>>

\* createReading, once the reading is stored: online, whatever the node was; the
\* battery level when the payload has one (updateNodeTelemetryMetadata alike).
TouchNodeRow(lowBattery) ==
    /\ ingests > 0
    /\ ingests' = ingests - 1
    /\ node' = [node EXCEPT !.status = "online", !.healthState = "online",
                            !.lowBattery = lowBattery]
    /\ age' = "fresh"
    /\ Overtake

\* updateEdgeNode and bulkNodeAction: the health state is left alone.
SetStatus(status) ==
    /\ node' = [node EXCEPT !.status = status]
    /\ Overtake
    /\ UNCHANGED <<age, ingests>>

SetActive(value) ==
    /\ node' = [node EXCEPT !.isActive = value]
    /\ Overtake
    /\ UNCHANGED <<age, ingests>>

\* The reading grows old.
GrowOld ==
    /\ age' = IF age = "fresh" THEN "stale" ELSE "offline"
    /\ age # "offline"
    /\ UNCHANGED <<node, monitors, ingests>>

NodeNext ==
    \/ \E c \in Calls : EvaluateNode(c) \/ ReportNode(c)
    \/ ResolveNode
    \/ \E lowBattery \in BOOLEAN : TouchNodeRow(lowBattery)
    \/ \E status \in Legacy : SetStatus(status)
    \/ \E value \in BOOLEAN : SetActive(value)
    \/ GrowOld

NodeSpec == NodeInit /\ [][NodeNext]_nodeVars

-----------------------------------------------------------------------------
NodeTypeOK ==
    /\ node \in Node
    /\ age \in {"fresh", "stale", "offline"}
    /\ monitors \in [Calls -> Monitor]
    /\ ingests \in 0..MaxUpdates

MaintenanceStays ==
    node.status = "maintenance" /\ node'.status # "maintenance"
        => \A c \in Calls : monitors[c].busy /\ ~monitors'[c].busy
             => monitors[c].overtaken \/ monitors[c].next = "disabled"

\* The monitor takes a node out of maintenance only when it is disabled, or on a
\* snapshot somebody has overtaken (node-health.service.ts:71).  Operators do, and
\* so does every reading the node delivers (reading.service.ts:469).
MonitorKeepsMaintenance == [][MaintenanceStays]_node

\* A node that stays silent, enabled and out of maintenance is in the end
\* reported offline and stays so, whatever overlapping evaluations write.
Silent == age = "offline" /\ node.isActive /\ node.status # "maintenance"
SilentNodeReported == <>[]Silent => <>[](node.healthState = "offline")

\* The inductive invariant: a snapshot nobody overtook still holds.
FreshSnapshots ==
    \A c \in Calls :
        monitors[c].busy /\ ~monitors[c].overtaken /\ node.status = "maintenance"
            => monitors[c].next \in {"maintenance", "disabled"}
=============================================================================
