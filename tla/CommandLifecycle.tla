-------------------------- MODULE CommandLifecycle --------------------------
(***************************************************************************)
(* One plant command, from proposal to simulated execution:                *)
(*                                                                         *)
(*   command.service.ts, simulated-command-executor.ts,                    *)
(*   command-validation.ts and domain/commands.ts (src/backend/src).       *)
(*                                                                         *)
(* Every call loads the row, checks what it loaded, and then updates the   *)
(* row by id, whatever it holds by then; calls interleave between any two  *)
(* database operations, and a call may die between them (MaxFaults).       *)
(*                                                                         *)
(* emergency_stop and safe_state block alike, none and manual_override     *)
(* alike let pass: one of each is enough.  Range and ramp limits are fixed *)
(* at creation and hold again at approval, because only a verified         *)
(* execution changes the current value, to the requested one.  Tenant      *)
(* scope, audit rows and the dual arming flags (physical execution is      *)
(* refused while disarmed and while armed) only refuse or record.          *)
(***************************************************************************)
EXTENDS Naturals, Sequences, FiniteSets

CONSTANTS Users,        \* operators of the command's site
          Handlers,     \* bound: calls in progress at a time
          MaxFaults,    \* bound: calls that die half-way
          None          \* no row yet; no requester

ASSUME CommandAssumption ==
    /\ MaxFaults \in Nat
    /\ None \notin Users

VARIABLES
    command,      \* the CommandRequest row, or None before it is proposed
    approvals,    \* the command's CommandApproval rows
    executions,   \* status of its CommandExecution rows, in order of creation
    expired,      \* expiresAt has passed
    ready,        \* plant and asset accept commands
    handler,      \* [Handlers -> call in progress]
    faults

vars == <<command, approvals, executions, expired, ready, handler, faults>>

Status == {"proposed", "pending_approval", "approved", "rejected", "expired", "queued",
           "sent", "acknowledged", "verified", "failed", "rolled_back", "cancelled"}
Override == {"none", "emergency_stop"}
Command == [status : Status, override : Override, requester : Users \cup {None}, sod : BOOLEAN]
Approval == [approver : Users, decision : {"approved", "rejected"}]

\* No row is none of the rows there can be.
ASSUME NoRowAssumption == None \notin Command

\* Mutant: the table lets a proposed command be queued.
TransitionsSkippingApproval ==
         ({"proposed"}         \X {"pending_approval", "queued", "cancelled", "expired"})
    \cup ({"pending_approval"} \X {"approved", "rejected", "cancelled", "expired"})
    \cup ({"approved"}         \X {"queued", "cancelled", "expired"})

\* COMMAND_TRANSITIONS
Transitions ==
         ({"proposed"}         \X {"pending_approval", "cancelled", "expired"})
    \cup ({"pending_approval"} \X {"approved", "rejected", "cancelled", "expired"})
    \cup ({"approved"}         \X {"queued", "cancelled", "expired"})
    \cup ({"queued"}           \X {"sent", "failed", "cancelled"})
    \cup ({"sent"}             \X {"acknowledged", "failed", "cancelled"})
    \cup ({"acknowledged"}     \X {"verified", "failed", "rolled_back"})
    \cup ({"failed"}           \X {"rolled_back", "cancelled"})

Op == {"submit", "approve", "reject", "cancel", "emergency", "execute"}

\* The status a call writes first.
Target(op) ==
    CASE op = "submit"  -> "pending_approval"
      [] op = "approve" -> "approved"
      [] op = "reject"  -> "rejected"
      [] op \in {"cancel", "emergency"} -> "cancelled"
      [] op = "execute" -> "queued"

\* What a call still needs after its checks: `actor` to sign a decision, `seen`
\* (the override state loaded with the row) for a plain cancellation to write
\* back, `execution` for the executor to find the row to settle.
Call == [stage : {"idle", "write", "create", "settle"}, op : Op, actor : Users \cup {None},
         seen : Override, execution : Nat]
Idle == [stage |-> "idle", op |-> "submit", actor |-> None, seen |-> "none", execution |-> 0]

Init ==
    /\ command = None
    /\ approvals = {}
    /\ executions = <<>>
    /\ expired = FALSE
    /\ ready = TRUE
    /\ handler = [h \in Handlers |-> Idle]
    /\ faults = 0

\* createCommandRequest: separation of duties is enforced when asked for (the
\* default) or when the risk is high.
Propose(requester, sod) ==
    /\ command = None
    /\ ~expired
    /\ command' = [status |-> "proposed", override |-> "none",
                   requester |-> requester, sod |-> sod]
    /\ UNCHANGED <<approvals, executions, expired, ready, handler, faults>>

-----------------------------------------------------------------------------
(* A call loads the row and checks it.                                     *)

\* assertSeparationOfDuties
SeparationOfDuties(u) == command.sod => command.requester # u

\* assertAssetAndPlantReady, on the loaded row
AssetAndPlantReady == command.override # "emergency_stop" /\ ready

\* The checks of submitCommandForApproval, decideCommandApproval,
\* cancelCommandRequest and executeApprovedCommand.
Allowed(op, u) ==
    /\ <<command.status, Target(op)>> \in Transitions
    /\ op \in {"submit", "approve", "reject", "execute"} => ~expired
    /\ op \in {"approve", "reject"} => SeparationOfDuties(u)
    /\ op \in {"submit", "approve", "execute"} => AssetAndPlantReady

Load(h, op, u) ==
    /\ handler[h].stage = "idle"
    /\ command # None
    /\ Allowed(op, u)
    /\ handler' = [handler EXCEPT ![h] =
                     [Idle EXCEPT !.stage = "write", !.op = op,
                                  !.actor = IF op \in {"approve", "reject"} THEN u ELSE None,
                                  !.seen = IF op = "cancel" THEN command.override ELSE "none"]]
    /\ UNCHANGED <<command, approvals, executions, expired, ready, faults>>

-----------------------------------------------------------------------------
(* ... and updates it by id, whatever it holds by then.                    *)

\* submit; reject and approve, with the approval row in the same transaction.
Write(h) ==
    LET op == handler[h].op IN
    /\ handler[h].stage = "write"
    /\ op \in {"submit", "approve", "reject"}
    /\ command' = [command EXCEPT !.status = Target(op)]
    /\ approvals' = IF op = "submit" THEN approvals
                    ELSE approvals \cup {[approver |-> handler[h].actor, decision |-> Target(op)]}
    /\ handler' = [handler EXCEPT ![h] = Idle]
    /\ UNCHANGED <<executions, expired, ready, faults>>

\* cancelCommandRequest: the override state is written too.
Cancel(h) ==
    LET op == handler[h].op IN
    /\ handler[h].stage = "write"
    /\ op \in {"cancel", "emergency"}
    /\ command' = [command EXCEPT !.status = "cancelled",
                                  !.override = IF op = "emergency" THEN "emergency_stop"
                                               ELSE handler[h].seen]
    /\ handler' = [handler EXCEPT ![h] = Idle]
    /\ UNCHANGED <<approvals, executions, expired, ready, faults>>

\* executeApprovedCommand: queue, ...
Queue(h) ==
    /\ handler[h].stage = "write"
    /\ handler[h].op = "execute"
    /\ command' = [command EXCEPT !.status = "queued"]
    /\ handler' = [handler EXCEPT ![h].stage = "create"]
    /\ UNCHANGED <<approvals, executions, expired, ready, faults>>

\* ... create the execution row, ...
CreateExecution(h) ==
    /\ handler[h].stage = "create"
    /\ executions' = Append(executions, "queued")
    /\ handler' = [handler EXCEPT ![h] = [@ EXCEPT !.stage = "settle",
                                                   !.execution = Len(executions) + 1]]
    /\ UNCHANGED <<command, approvals, expired, ready, faults>>

\* Mutant: the executor updates the command and forgets the execution row.
SettleCommandOnly(h) ==
    /\ handler[h].stage = "settle"
    /\ command' = [command EXCEPT !.status = "verified"]
    /\ handler' = [handler EXCEPT ![h] = Idle]
    /\ UNCHANGED <<executions, approvals, expired, ready, faults>>

\* Mutant: the executor settles the execution row and not the command.
SettleExecutionOnly(h) ==
    /\ handler[h].stage = "settle"
    /\ executions' = [executions EXCEPT ![handler[h].execution] = "verified"]
    /\ handler' = [handler EXCEPT ![h] = Idle]
    /\ UNCHANGED <<command, approvals, expired, ready, faults>>

\* Mutant: the executor stores the status it had before the read-back.
SettleBeforeReadback(h) ==
    /\ handler[h].stage = "settle"
    /\ executions' = [executions EXCEPT ![handler[h].execution] = "sent"]
    /\ command' = [command EXCEPT !.status = "sent"]
    /\ handler' = [handler EXCEPT ![h] = Idle]
    /\ UNCHANGED <<approvals, expired, ready, faults>>

\* ... and runSimulatedCommandExecution: the read-back is the expected value,
\* so both rows become verified in one transaction.
Settle(h) ==
    /\ handler[h].stage = "settle"
    /\ executions' = [executions EXCEPT ![handler[h].execution] = "verified"]
    /\ command' = [command EXCEPT !.status = "verified"]
    /\ handler' = [handler EXCEPT ![h] = Idle]
    /\ UNCHANGED <<approvals, expired, ready, faults>>

\* setCommandOverrideState: no guard on the status; what it loads it only audits.
SetOverride(state) ==
    /\ command # None
    /\ command' = [command EXCEPT !.override = state]
    /\ UNCHANGED <<approvals, executions, expired, ready, handler, faults>>

-----------------------------------------------------------------------------
(* The environment.                                                        *)

\* The process dies, or the database does, in the middle of a call.
HandlerDies(h) ==
    /\ faults < MaxFaults
    /\ faults' = faults + 1
    /\ handler[h].stage # "idle"
    /\ handler' = [handler EXCEPT ![h] = Idle]
    /\ UNCHANGED <<command, approvals, executions, expired, ready>>

Expire ==
    /\ ~expired
    /\ expired' = TRUE
    /\ UNCHANGED <<command, approvals, executions, ready, handler, faults>>

\* Maintenance of the plant or the asset begins or ends.
ChangeReadiness ==
    /\ ready' = ~ready
    /\ UNCHANGED <<command, approvals, executions, expired, handler, faults>>

Proceed(h) == Write(h) \/ Cancel(h) \/ Queue(h) \/ CreateExecution(h) \/ Settle(h)

Next ==
    \/ \E requester \in Users \cup {None}, sod \in BOOLEAN : Propose(requester, sod)
    \/ \E h \in Handlers, op \in Op, u \in Users : Load(h, op, u)
    \/ \E h \in Handlers : Proceed(h) \/ HandlerDies(h)
    \/ \E state \in Override : SetOverride(state)
    \/ Expire
    \/ ChangeReadiness

\* A call that has loaded the row runs to its end unless it dies.  Nobody is
\* obliged to make a call.
Fairness == \A h \in Handlers : WF_vars(Proceed(h))

Spec == Init /\ [][Next]_vars /\ Fairness

-----------------------------------------------------------------------------
(* Properties.                                                             *)

TypeOK ==
    /\ command \in Command \cup {None}
    /\ approvals \in SUBSET Approval
    /\ executions \in Seq({"queued", "verified"})
    /\ expired \in BOOLEAN
    /\ ready \in BOOLEAN
    /\ handler \in [Handlers -> Call]
    /\ faults \in 0..MaxFaults

\* Somebody entitled to has approved the command.
IndependentlyApproved ==
    \E a \in approvals :
        /\ a.decision = "approved"
        /\ command.sod => a.approver # command.requester

\* A call on its way to execute the command.
Executing(h) == handler[h].stage \in {"create", "settle"}
                  \/ (handler[h].stage = "write" /\ handler[h].op = "execute")

\* A command that is (being) executed was approved, by another user than its
\* requester where separation of duties applies: no interleaving of submit,
\* decide, cancel and execute calls queues a command nobody approved.
ExecutedOnlyIfApproved ==
    /\ command # None
    /\ executions # <<>> \/ command.status \in {"approved", "queued", "verified"}
    => IndependentlyApproved

\* A command reported verified has an execution record that says so; a call
\* that dies, or that is overtaken, never leaves one without the other.
VerifiedHasExecution ==
    (command # None /\ command.status = "verified")
        => \E i \in 1..Len(executions) : executions[i] = "verified"

IsQueued == command # None /\ command.status = "queued"

\* A queued command does not stay queued unless a call died.  (When one died in
\* between, nothing ever picks the command up again.)
QueuedSettles == IsQueued ~> (faults > 0 \/ ~IsQueued)

\* command-safety.test.ts: "defines terminal statuses with no outbound
\* transitions".  A rejected, verified or cancelled command stays so.
TerminalIsFinal ==
    [][command # None /\ command.status \in {"rejected", "verified", "cancelled"}
         => command'.status = command.status]_vars

-----------------------------------------------------------------------------
(* The inductive invariant behind the two safety invariants.               *)

\* Calls are on a command that exists, and only it has approvals and executions.
NothingBeforeProposal ==
    command = None => executions = <<>> /\ \A h \in Handlers : handler[h].stage = "idle"

\* Whoever is about to sign an approval is entitled to.
SignersEntitled ==
    \A h \in Handlers :
        handler[h].stage = "write" /\ handler[h].op \in {"approve", "reject"} =>
            /\ handler[h].actor \in Users
            /\ command.sod => handler[h].actor # command.requester

\* A call on its way to execute found the command approved.
ExecutingApproved == (\E h \in Handlers : Executing(h)) => IndependentlyApproved

\* The execution a call is about to settle exists.
SettlesItsExecution ==
    \A h \in Handlers :
        handler[h].stage = "settle" => handler[h].execution \in 1..Len(executions)

IInv == /\ TypeOK /\ NothingBeforeProposal /\ SignersEntitled
        /\ ExecutingApproved /\ SettlesItsExecution
        /\ ExecutedOnlyIfApproved /\ VerifiedHasExecution
=============================================================================
