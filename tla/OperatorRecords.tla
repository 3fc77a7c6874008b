-------------------------- MODULE OperatorRecords --------------------------
(***************************************************************************)
(* The records operators keep: one recovery case                           *)
(* (recovery-case.service.ts), one work order (work-order.service.ts) and  *)
(* the log of decisions (operator-decision.service.ts).                    *)
(*                                                                         *)
(* The columns a patch copies as they are (notes, dates, savings, ...) are *)
(* left out; a patched status is any status, as in the request schemas.    *)
(***************************************************************************)
EXTENDS ServiceCalls

VARIABLES
    case,           \* the recovery case: status, and the statuses of its history, newest first
    caseCalls,      \* [Calls -> updateRecoveryCase in progress]
    caseUpdates,    \* history: updates that have returned
    caseStale,      \* history: an update was made of a stale history
    order,          \* the work order
    orderCalls,     \* [Calls -> updateWorkOrder in progress]
    decisions       \* decisions of operators on record

caseVars == <<case, caseCalls, caseUpdates, caseStale>>
orderVars == <<order, orderCalls>>
recordVars == <<case, caseCalls, caseUpdates, caseStale, order, orderCalls, decisions>>

NoPatch == "none"       \* the patch leaves the field alone

-----------------------------------------------------------------------------
(* Recovery cases.                                                         *)

CaseStatus == {"draft", "approved", "closed"}
CaseCall == [status : CaseStatus \cup {NoPatch, "idle"}, next : CaseStatus,
             history : Seq(CaseStatus), overtaken : BOOLEAN]
CaseIdle == [status |-> "idle", next |-> "draft", history |-> <<>>, overtaken |-> FALSE]

\* createRecoveryCase
CaseInit ==
    /\ case = [status |-> "draft", history |-> <<"draft">>]
    /\ caseCalls = [c \in Calls |-> CaseIdle]
    /\ caseUpdates = 0
    /\ caseStale = FALSE

\* updateRecoveryCase loads the case; the entry it adds names the patched
\* status, or the loaded one.
LoadCase(c, patch) ==
    /\ caseCalls[c] = CaseIdle
    /\ caseUpdates < MaxUpdates
    /\ caseCalls' = [caseCalls EXCEPT ![c] =
                       [status |-> patch, next |-> IF patch = NoPatch THEN case.status ELSE patch,
                        history |-> case.history, overtaken |-> FALSE]]
    /\ UNCHANGED <<case, caseUpdates, caseStale>>

\* Mutant: the update that leaves the status alone adds no entry.
UpdateCaseSilently(c) ==
    LET call == caseCalls[c] IN
    /\ call.status # "idle"
    /\ case' = [status |-> IF call.status = NoPatch THEN case.status ELSE call.status,
                history |-> IF call.status = NoPatch THEN call.history
                            ELSE <<call.next>> \o call.history]
    /\ caseUpdates' = caseUpdates + 1
    /\ caseStale' = (caseStale \/ call.overtaken)
    /\ caseCalls' = Finish(caseCalls, c, CaseIdle)

\* ... and writes the whole history column back.
UpdateCase(c) ==
    LET call == caseCalls[c] IN
    /\ call.status # "idle"
    /\ case' = [status |-> IF call.status = NoPatch THEN case.status ELSE call.status,
                history |-> <<call.next>> \o call.history]
    /\ caseUpdates' = caseUpdates + 1
    /\ caseStale' = (caseStale \/ call.overtaken)
    /\ caseCalls' = Finish(caseCalls, c, CaseIdle)

CaseNext ==
    \/ \E c \in Calls, patch \in CaseStatus \cup {NoPatch} : LoadCase(c, patch)
    \/ \E c \in Calls : UpdateCase(c)

CaseSpec == CaseInit /\ [][CaseNext]_caseVars

-----------------------------------------------------------------------------
(* Work orders.  "open" stands for assigned too, and "in_progress" for      *)
(* blocked.                                                                 *)

OrderStatus == {"open", "in_progress", "escalated", "completed", "closed"}
ApprovalStatus == {"none", "pending", "approved", "rejected"}
OrderRow == [status : OrderStatus, approvalStatus : ApprovalStatus, closedAt : BOOLEAN]

\* What a call is about to write.  forced: the status is not the patched one;
\* carried: the approval status is not a patched one.
OrderCall == [busy : BOOLEAN, status : OrderStatus \cup {NoPatch}, forced : BOOLEAN,
              approvalStatus : ApprovalStatus \cup {"unchanged"}, carried : BOOLEAN,
              closing : BOOLEAN, overtaken : BOOLEAN]
OrderIdle == [busy |-> FALSE, status |-> NoPatch, forced |-> FALSE,
              approvalStatus |-> "unchanged", carried |-> FALSE,
              closing |-> FALSE, overtaken |-> FALSE]

\* createWorkOrder
OrderInit ==
    /\ order = [status |-> "open", approvalStatus |-> "none", closedAt |-> FALSE]
    /\ orderCalls = [c \in Calls |-> OrderIdle]

\* Mutant: an escalation does not look at the status.
EscalatesAlways(escalate) == escalate

\* An escalation moves an order it found open, whatever the patch says.
Escalates(escalate) == escalate /\ order.status = "open"

\* Mutant: a completed order always goes back to pending.
ApprovalAlwaysPending == "pending"

\* What completing an order makes of its approval: a rejection stays one.
ApprovalOnCompletion ==
    IF order.approvalStatus = "none" THEN "pending" ELSE order.approvalStatus

\* updateWorkOrder: resolve the patch against the loaded row, ...
LoadOrder(c, status, approval, escalate) ==
    LET carried == status = "completed" /\ approval = "unchanged" IN
    /\ ~orderCalls[c].busy
    /\ orderCalls' = [orderCalls EXCEPT ![c] =
          [busy |-> TRUE,
           status |-> IF Escalates(escalate) THEN "escalated" ELSE status,
           forced |-> Escalates(escalate) /\ status # "escalated",
           approvalStatus |-> IF carried THEN ApprovalOnCompletion ELSE approval,
           carried |-> carried,
           closing |-> status \in {"completed", "closed"},
           overtaken |-> FALSE]]
    /\ UNCHANGED order

\* ... and write it.  closedAt is never taken back.
UpdateOrder(c) ==
    LET call == orderCalls[c] IN
    /\ call.busy
    /\ order' = [status |-> IF call.status = NoPatch THEN order.status ELSE call.status,
                 approvalStatus |-> IF call.approvalStatus = "unchanged"
                                    THEN order.approvalStatus ELSE call.approvalStatus,
                 closedAt |-> order.closedAt \/ call.closing]
    /\ orderCalls' = Finish(orderCalls, c, OrderIdle)

\* A request patches the status, the approval, or escalates, in any combination.
OrderNext ==
    \/ \E c \in Calls, status \in OrderStatus \cup {NoPatch},
          approval \in ApprovalStatus \cup {"unchanged"}, escalate \in BOOLEAN :
         LoadOrder(c, status, approval, escalate)
    \/ \E c \in Calls : UpdateOrder(c)

OrderSpec == OrderInit /\ [][OrderNext]_orderVars

-----------------------------------------------------------------------------
(* Decisions are only ever added.                                          *)

\* createOperatorDecision
Decide == decisions < MaxUpdates /\ decisions' = decisions + 1

RecordsInit == CaseInit /\ OrderInit /\ decisions = 0

-----------------------------------------------------------------------------
RecordsTypeOK ==
    /\ case \in [status : CaseStatus, history : Seq(CaseStatus)]
    /\ caseCalls \in [Calls -> CaseCall]
    /\ caseUpdates \in Nat
    /\ caseStale \in BOOLEAN
    /\ order \in OrderRow
    /\ orderCalls \in [Calls -> OrderCall]
    /\ decisions \in Nat

\* Unless two updates of a case overlapped, its history has the creation and
\* every update, and the latest entry names the status of the case.  (The
\* column is rewritten whole, so the later of two overlapping updates drops the
\* entry of the earlier: recovery-case.service.ts:141.)
CaseHistoryComplete ==
    ~caseStale => Len(case.history) = caseUpdates + 1 /\ case.history[1] = case.status

SettledStay ==
    /\ order.approvalStatus = "approved" /\ order'.approvalStatus # "approved"
         => \E c \in Calls : /\ orderCalls[c].busy /\ ~orderCalls'[c].busy
                             /\ orderCalls[c].carried => orderCalls[c].overtaken
    /\ order.status \in {"completed", "closed"} /\ order'.status = "escalated"
         => \E c \in Calls : /\ orderCalls[c].busy /\ ~orderCalls'[c].busy
                             /\ orderCalls[c].forced => orderCalls[c].overtaken

\* An approval is withdrawn, and a settled order escalated, only by a patch that
\* says so, or by a call that another one overtook (work-order.service.ts:148 and
\* :162 decide on the loaded row).
SettledOrdersStay == [][SettledStay]_order

\* The inductive invariant: a call nobody overtook holds what it decided on.
FreshCaseCalls ==
    \A c \in Calls :
        caseCalls[c] # CaseIdle /\ ~caseCalls[c].overtaken =>
            /\ caseCalls[c].history = case.history
            /\ caseCalls[c].next = IF caseCalls[c].status = NoPatch THEN case.status
                                   ELSE caseCalls[c].status

FreshOrderCalls ==
    \A c \in Calls :
        orderCalls[c].busy /\ ~orderCalls[c].overtaken =>
            /\ orderCalls[c].forced => order.status = "open"
            /\ orderCalls[c].carried /\ order.approvalStatus = "approved"
                 => orderCalls[c].approvalStatus = "approved"
=============================================================================
