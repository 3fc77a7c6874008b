----------------------- MODULE CommandLifecycle_proofs -----------------------
(***************************************************************************)
(* Theorems about CommandLifecycle for any number of users, concurrent     *)
(* calls and failures.                                                     *)
(*                                                                         *)
(* A status may be overwritten by a call that checked an older one, so no  *)
(* argument can rest on the order of statuses.  What survives every such   *)
(* overwrite is evidence: approval rows are only added, and requester and  *)
(* sod never change; a call that found the command approved therefore acts *)
(* for a command that stays approved by somebody entitled to.              *)
(***************************************************************************)
EXTENDS CommandLifecycle, TLAPS

\* What a loaded call does with a command that exists.
LEMMA CallsNeedCommand ==
    ASSUME IInv, NEW h \in Handlers, handler[h].stage # "idle"
    PROVE  command # None /\ command \in Command
  BY DEF IInv, NothingBeforeProposal, TypeOK

\* Approval evidence outlives every step that keeps requester and sod.
LEMMA EvidenceKept ==
    ASSUME IndependentlyApproved, approvals \subseteq approvals',
           command'.sod = command.sod, command'.requester = command.requester
    PROVE  IndependentlyApproved'
  BY DEF IndependentlyApproved

\* What Target yields.
LEMMA TargetStatus ==
    /\ \A op \in Op : Target(op) \in Status
    /\ \A op \in {"approve", "reject"} : Target(op) \in {"approved", "rejected"}
    /\ \A op \in Op : Target(op) = "approved" => op = "approve"
    /\ Target("execute") = "queued"
    /\ \A op \in {"submit", "approve", "reject"} : Target(op) \notin {"queued", "verified"}
  BY DEF Target, Op, Status

\* Updating a command row by id.
LEMMA UpdateRow ==
    ASSUME NEW row \in Command, NEW s \in Status, NEW o \in Override
    PROVE  LET new == [row EXCEPT !.status = s, !.override = o]
               sameOverride == [row EXCEPT !.status = s]
               sameStatus == [row EXCEPT !.override = o]
           IN /\ new \in Command /\ sameOverride \in Command /\ sameStatus \in Command
              /\ new.status = s /\ sameOverride.status = s /\ sameStatus.status = row.status
              /\ \A r \in {new, sameOverride, sameStatus} :
                    r.sod = row.sod /\ r.requester = row.requester
  BY DEF Command

LEMMA InitIInv == Init => IInv
  <1> SUFFICES ASSUME Init PROVE IInv
    OBVIOUS
  <1>0. Idle \in Call
    BY DEF Idle, Call, Op, Override
  <1>1. TypeOK
    <2>1. handler \in [Handlers -> Call]
      BY <1>0 DEF Init
    <2>2. executions \in Seq({"queued", "verified"}) /\ approvals \in SUBSET Approval
      BY DEF Init
    <2>3. command \in Command \cup {None} /\ faults \in 0..MaxFaults
      BY CommandAssumption DEF Init
    <2> QED
      BY <2>1, <2>2, <2>3 DEF Init, TypeOK
  <1>2. \A h \in Handlers : handler[h].stage = "idle"
    BY DEF Init, Idle
  <1> QED
    BY <1>1, <1>2
       DEF Init, IInv, NothingBeforeProposal, SignersEntitled, ExecutingApproved, Executing,
           SettlesItsExecution, ExecutedOnlyIfApproved, VerifiedHasExecution

\* Settling an execution that exists.
LEMMA ExecutionSettled ==
    ASSUME NEW s \in Seq({"queued", "verified"}), NEW i \in 1..Len(s)
    PROVE  LET new == [s EXCEPT ![i] = "verified"]
           IN /\ new \in Seq({"queued", "verified"}) /\ Len(new) = Len(s)
              /\ new # <<>> /\ s # <<>>
              /\ new[i] = "verified"
              /\ \A k \in 1..Len(s) : s[k] = "verified" => new[k] = "verified"
  OBVIOUS

\* Every step keeps the types.
LEMMA StepTypeOK == IInv /\ [Next]_vars => TypeOK'
  <1> SUFFICES ASSUME IInv, [Next]_vars PROVE TypeOK'
    OBVIOUS
  <1> USE CommandAssumption DEF TypeOK
  <1>0. TypeOK
    BY DEF IInv
  <1>1. ASSUME NEW requester \in Users \cup {None}, NEW sod \in BOOLEAN,
               Propose(requester, sod)
        PROVE  TypeOK'
    BY <1>0, <1>1 DEF Propose, Command, Status, Override
  <1>2. ASSUME NEW h \in Handlers, NEW op \in Op, NEW u \in Users, Load(h, op, u)
        PROVE  TypeOK'
    <2>1. command.override \in Override
      BY <1>0, <1>2 DEF Load, Command
    <2>2. handler' \in [Handlers -> Call]
      BY <1>0, <1>2, <2>1 DEF Load, Call, Idle, Override
    <2> QED
      BY <1>0, <1>2, <2>2 DEF Load
  <1>3. ASSUME NEW h \in Handlers, Proceed(h) PROVE TypeOK'
    <2>1. command # None /\ command \in Command /\ handler[h] \in Call
      BY <1>0, <1>3, CallsNeedCommand DEF Proceed, Write, Cancel, Queue, CreateExecution, Settle
    <2>2. Idle \in Call
      BY DEF Idle, Call, Op, Override
    <2>3. CASE Write(h)
      <3>1. command' \in Command
        BY <2>1, <2>3, TargetStatus, UpdateRow, Zenon DEF Write, Call
      <3>2. approvals' \in SUBSET Approval
        <4>1. CASE handler[h].op = "submit"
          BY <1>0, <2>3, <4>1 DEF Write
        <4>2. CASE handler[h].op \in {"approve", "reject"}
          <5>1. handler[h].actor \in Users
            BY <2>3, <4>2 DEF IInv, SignersEntitled, Write
          <5>2. Target(handler[h].op) \in {"approved", "rejected"}
            BY <4>2, TargetStatus
          <5> QED
            BY <1>0, <2>3, <4>2, <5>1, <5>2 DEF Write, Approval
        <4> QED
          BY <2>3, <4>1, <4>2 DEF Write
      <3> QED
        BY <1>0, <2>2, <2>3, <3>1, <3>2 DEF Write
    <2>4. CASE Cancel(h)
      BY <1>0, <2>1, <2>2, <2>4 DEF Cancel, Command, Status, Override, Call
    <2>5. CASE Queue(h)
      BY <1>0, <2>1, <2>2, <2>5 DEF Queue, Command, Status, Call
    <2>6. CASE CreateExecution(h)
      <3>1. executions' \in Seq({"queued", "verified"}) /\ Len(executions) + 1 \in Nat
        BY <1>0, <2>6 DEF CreateExecution
      <3>2. [handler[h] EXCEPT !.stage = "settle", !.execution = Len(executions) + 1] \in Call
        BY <2>1, <3>1 DEF Call
      <3>3. handler' \in [Handlers -> Call]
        BY <1>0, <2>6, <3>2 DEF CreateExecution
      <3> QED
        BY <1>0, <2>6, <3>1, <3>3 DEF CreateExecution
    <2>7. CASE Settle(h)
      <3>1. executions' \in Seq({"queued", "verified"})
        BY <1>0, <2>7, ExecutionSettled DEF IInv, SettlesItsExecution, Settle
      <3>2. command' \in Command
        BY <2>1, <2>7 DEF Settle, Command, Status
      <3> QED
        BY <1>0, <2>2, <2>7, <3>1, <3>2 DEF Settle
    <2> QED
      BY <1>3, <2>3, <2>4, <2>5, <2>6, <2>7 DEF Proceed
  <1>4. ASSUME NEW h \in Handlers, HandlerDies(h) PROVE TypeOK'
    BY <1>0, <1>4 DEF HandlerDies, Idle, Call, Op, Override
  <1>5. ASSUME NEW state \in Override, SetOverride(state) PROVE TypeOK'
    BY <1>0, <1>5 DEF SetOverride, Command
  <1>6. CASE Expire
    BY <1>0, <1>6 DEF Expire
  <1>7. CASE ChangeReadiness
    BY <1>0, <1>7 DEF ChangeReadiness
  <1>8. CASE UNCHANGED vars
    BY <1>0, <1>8 DEF vars
  <1> QED
    BY <1>1, <1>2, <1>3, <1>4, <1>5, <1>6, <1>7, <1>8 DEF Next

\* What the statuses written by a call say about the status it found.
LEMMA QueuedFromApproved ==
    ASSUME NEW s, <<s, "queued">> \in Transitions
    PROVE  s = "approved"
  <1>1. \A A, B : <<s, "queued">> \in A \X B => s \in A /\ "queued" \in B
    OBVIOUS
  <1>2. s \in {"approved"} /\ "queued" \in {"queued", "cancelled", "expired"}
    BY <1>1, Zenon DEF Transitions
  <1> QED
    BY <1>2

\* A step that starts no call, keeps the calls in progress or ends them, and
\* touches no row.
LEMMA FrameIInv ==
    ASSUME IInv, TypeOK', UNCHANGED <<command, approvals, executions>>,
           \A h \in Handlers : handler'[h] = handler[h] \/ handler'[h].stage = "idle"
    PROVE  IInv'
  BY DEF IInv, NothingBeforeProposal, SignersEntitled, ExecutingApproved, Executing,
         SettlesItsExecution, ExecutedOnlyIfApproved, VerifiedHasExecution,
         IndependentlyApproved

LEMMA ProposeIInv ==
    ASSUME IInv, TypeOK', NEW requester \in Users \cup {None}, NEW sod \in BOOLEAN,
           Propose(requester, sod)
    PROVE  IInv'
  <1>0. command' \in Command /\ command'.status = "proposed"
    BY DEF Propose, Command, Status, Override
  <1>1. /\ executions = <<>> /\ \A h \in Handlers : handler[h].stage = "idle"
        /\ UNCHANGED <<executions, handler>>
        /\ command'.status = "proposed" /\ command' # None
    BY <1>0, NoRowAssumption DEF Propose, IInv, NothingBeforeProposal
  <1> QED
    BY <1>1 DEF IInv, NothingBeforeProposal, SignersEntitled, ExecutingApproved, Executing,
                SettlesItsExecution, ExecutedOnlyIfApproved, VerifiedHasExecution

LEMMA LoadIInv ==
    ASSUME IInv, TypeOK', NEW h \in Handlers, NEW op \in Op, NEW u \in Users, Load(h, op, u)
    PROVE  IInv'
  <1>1. /\ UNCHANGED <<command, approvals, executions>> /\ command # None
        /\ \A k \in Handlers : k # h => handler'[k] = handler[k]
    BY DEF Load, IInv, TypeOK
  <1>2. /\ handler'[h].stage = "write" /\ handler'[h].op = op
        /\ op \in {"approve", "reject"} => handler'[h].actor = u
    BY DEF Load, IInv, TypeOK, Idle
  <1>3. SignersEntitled'
    <2>1. op \in {"approve", "reject"} => (command.sod => command.requester # u)
      BY DEF Load, Allowed, SeparationOfDuties
    <2> QED
      BY <1>1, <1>2, <2>1 DEF IInv, SignersEntitled
  <1>4. ExecutingApproved'
    <2>1. op = "execute" => IndependentlyApproved
      <3>1. op = "execute" => <<command.status, "queued">> \in Transitions
        BY TargetStatus DEF Load, Allowed
      <3> QED
        BY <1>1, <3>1, QueuedFromApproved DEF IInv, ExecutedOnlyIfApproved
    <2> QED
      BY <1>1, <1>2, <2>1 DEF IInv, ExecutingApproved, Executing, IndependentlyApproved
  <1>5. SettlesItsExecution'
    BY <1>1, <1>2 DEF IInv, SettlesItsExecution
  <1> QED
    BY <1>1, <1>3, <1>4, <1>5
       DEF IInv, NothingBeforeProposal, ExecutedOnlyIfApproved, VerifiedHasExecution,
           IndependentlyApproved

\* A row updated by id keeps requester and sod.
LEMMA RowKept ==
    ASSUME IInv, NEW h \in Handlers, Proceed(h)
    PROVE  /\ command # None /\ command' # None
           /\ command'.sod = command.sod /\ command'.requester = command.requester
           /\ approvals \subseteq approvals'
           /\ \A k \in Handlers : k # h => handler'[k] = handler[k]
  <1>1. handler[h].stage # "idle"
    BY DEF Proceed, Write, Cancel, Queue, CreateExecution, Settle
  <1>2. command # None /\ command \in Command
    BY <1>1, CallsNeedCommand
  <1>3. \A k \in Handlers : k # h => handler'[k] = handler[k]
    BY DEF Proceed, Write, Cancel, Queue, CreateExecution, Settle, IInv, TypeOK
  <1>4. /\ \A st \in Status : [command EXCEPT !.status = st] \in Command
        /\ \A st \in Status, o \in Override :
              [command EXCEPT !.status = st, !.override = o] \in Command
    BY <1>2 DEF Command
  <1>5. handler[h] \in Call
    BY DEF IInv, TypeOK
  <1>6. CASE Write(h)
    <2>1. Target(handler[h].op) \in Status
      BY <1>5, TargetStatus DEF Call
    <2>2. command' \in Command /\ approvals \subseteq approvals'
      <3>1. /\ command' = [command EXCEPT !.status = Target(handler[h].op)]
            /\ approvals \subseteq approvals'
        BY <1>6 DEF Write
      <3> QED
        BY <1>4, <2>1, <3>1, Zenon
    <2>3. command'.sod = command.sod /\ command'.requester = command.requester
      BY <1>2, <1>6 DEF Write, Command
    <2> QED
      BY <1>2, <1>3, <2>2, <2>3, NoRowAssumption
  <1>7. CASE Cancel(h)
    <2>1. command' \in Command
      BY <1>4, <1>5, <1>7 DEF Cancel, Call, Override, Status
    <2>2. command'.sod = command.sod /\ command'.requester = command.requester
      BY <1>2, <1>7 DEF Cancel, Command
    <2> QED
      BY <1>2, <1>3, <1>7, <2>1, <2>2, NoRowAssumption DEF Cancel
  <1>8. CASE Queue(h) \/ CreateExecution(h) \/ Settle(h)
    <2>1. command' \in Command
      <3>1. "queued" \in Status /\ "verified" \in Status
        BY DEF Status
      <3>2. \/ command' = [command EXCEPT !.status = "queued"]
            \/ command' = [command EXCEPT !.status = "verified"]
            \/ command' = command
        BY <1>8 DEF Queue, CreateExecution, Settle
      <3> QED
        BY <1>2, <1>4, <3>1, <3>2, Zenon
    <2>2. command'.sod = command.sod /\ command'.requester = command.requester
      BY <1>2, <1>8 DEF Queue, CreateExecution, Settle, Command
    <2> QED
      BY <1>2, <1>3, <1>8, <2>1, <2>2, NoRowAssumption DEF Queue, CreateExecution, Settle
  <1> QED
    BY <1>6, <1>7, <1>8 DEF Proceed

\* submit, approve, reject: a decision is signed by somebody entitled to, and
\* "approved" is written together with the row of the approval.
LEMMA WriteIInv ==
    ASSUME IInv, TypeOK', NEW h \in Handlers, Write(h)
    PROVE  IInv'
  <1>1. /\ command # None /\ command' # None
        /\ command'.sod = command.sod /\ command'.requester = command.requester
        /\ approvals \subseteq approvals'
        /\ \A k \in Handlers : k # h => handler'[k] = handler[k]
    BY RowKept DEF Proceed
  <1>2. handler'[h].stage = "idle" /\ UNCHANGED executions
    BY DEF Write, IInv, TypeOK, Idle
  <1>3. IndependentlyApproved => IndependentlyApproved'
    BY <1>1, EvidenceKept
  <1>4. /\ handler[h].op \in {"submit", "approve", "reject"}
        /\ command \in Command /\ command'.status = Target(handler[h].op)
    BY <1>1 DEF Write, IInv, TypeOK, Command
  <1>5. handler[h].op \in Op /\ command'.status \notin {"queued", "verified"}
    BY <1>4, TargetStatus DEF Op
  <1>6. command'.status = "approved" => IndependentlyApproved'
    <2> SUFFICES ASSUME command'.status = "approved" PROVE IndependentlyApproved'
      OBVIOUS
    <2>1. handler[h].op = "approve" /\ Target(handler[h].op) = "approved"
      BY <1>4, <1>5, TargetStatus
    <2>2. [approver |-> handler[h].actor, decision |-> "approved"] \in approvals'
      BY <2>1 DEF Write
    <2>3. command.sod => handler[h].actor # command.requester
      BY <2>1 DEF Write, IInv, SignersEntitled
    <2> QED
      BY <1>1, <2>2, <2>3 DEF IndependentlyApproved
  <1>7. ExecutedOnlyIfApproved'
    BY <1>1, <1>2, <1>3, <1>5, <1>6 DEF IInv, ExecutedOnlyIfApproved
  <1>8. ExecutingApproved'
    BY <1>1, <1>2, <1>3 DEF IInv, ExecutingApproved, Executing
  <1> QED
    BY <1>1, <1>2, <1>5, <1>7, <1>8
       DEF IInv, NothingBeforeProposal, SignersEntitled, SettlesItsExecution,
           VerifiedHasExecution

LEMMA CancelIInv ==
    ASSUME IInv, TypeOK', NEW h \in Handlers, Cancel(h)
    PROVE  IInv'
  <1>1. /\ command # None /\ command' # None
        /\ command'.sod = command.sod /\ command'.requester = command.requester
        /\ approvals \subseteq approvals'
        /\ \A k \in Handlers : k # h => handler'[k] = handler[k]
    BY RowKept DEF Proceed
  <1>2. /\ handler'[h].stage = "idle" /\ UNCHANGED executions
        /\ command \in Command /\ command'.status = "cancelled"
    BY <1>1 DEF Cancel, IInv, TypeOK, Idle, Command
  <1>3. IndependentlyApproved => IndependentlyApproved'
    BY <1>1, EvidenceKept
  <1> QED
    BY <1>1, <1>2, <1>3
       DEF IInv, NothingBeforeProposal, SignersEntitled, ExecutingApproved, Executing,
           SettlesItsExecution, ExecutedOnlyIfApproved, VerifiedHasExecution

LEMMA QueueIInv ==
    ASSUME IInv, TypeOK', NEW h \in Handlers, Queue(h)
    PROVE  IInv'
  <1>1. /\ command # None /\ command' # None
        /\ command'.sod = command.sod /\ command'.requester = command.requester
        /\ approvals \subseteq approvals'
        /\ \A k \in Handlers : k # h => handler'[k] = handler[k]
    BY RowKept DEF Proceed
  <1>2. /\ handler'[h].stage = "create" /\ UNCHANGED executions
        /\ command \in Command /\ command'.status = "queued"
    BY <1>1 DEF Queue, IInv, TypeOK, Call, Command
  <1>3. IndependentlyApproved /\ IndependentlyApproved'
    BY <1>1, EvidenceKept DEF Queue, IInv, ExecutingApproved, Executing
  <1> QED
    BY <1>1, <1>2, <1>3
       DEF IInv, NothingBeforeProposal, SignersEntitled, ExecutingApproved,
           SettlesItsExecution, ExecutedOnlyIfApproved, VerifiedHasExecution

LEMMA CreateExecutionIInv ==
    ASSUME IInv, TypeOK', NEW h \in Handlers, CreateExecution(h)
    PROVE  IInv'
  <1>1. /\ command # None /\ UNCHANGED <<command, approvals>>
        /\ \A k \in Handlers : k # h => handler'[k] = handler[k]
    BY RowKept DEF Proceed, CreateExecution
  <1>2. executions \in Seq({"queued", "verified"}) /\ executions' = Append(executions, "queued")
    BY DEF CreateExecution, IInv, TypeOK
  <1>3. /\ Len(executions') = Len(executions) + 1 /\ Len(executions) \in Nat
        /\ \A i \in 1..Len(executions) : executions'[i] = executions[i]
    BY <1>2
  <1>4. handler'[h].stage = "settle" /\ handler'[h].execution = Len(executions) + 1
    BY DEF CreateExecution, IInv, TypeOK, Call
  <1>5. IndependentlyApproved /\ IndependentlyApproved'
    BY <1>1 DEF CreateExecution, IInv, ExecutingApproved, Executing, IndependentlyApproved
  <1>6. SettlesItsExecution'
    <2> SUFFICES ASSUME NEW k \in Handlers, handler'[k].stage = "settle"
                 PROVE  handler'[k].execution \in 1..Len(executions')
      BY DEF SettlesItsExecution
    <2>1. CASE k = h
      BY <1>3, <1>4, <2>1
    <2>2. CASE k # h
      BY <1>1, <1>3, <2>2 DEF IInv, SettlesItsExecution
    <2> QED
      BY <2>1, <2>2
  <1>7. VerifiedHasExecution'
    BY <1>1, <1>3 DEF IInv, VerifiedHasExecution
  <1>8. SignersEntitled'
    BY <1>1, <1>4 DEF IInv, SignersEntitled
  <1> QED
    BY <1>1, <1>5, <1>6, <1>7, <1>8
       DEF IInv, NothingBeforeProposal, ExecutingApproved, ExecutedOnlyIfApproved

LEMMA SettleIInv ==
    ASSUME IInv, TypeOK', NEW h \in Handlers, Settle(h)
    PROVE  IInv'
  <1>1. /\ command # None /\ command' # None
        /\ command'.sod = command.sod /\ command'.requester = command.requester
        /\ approvals \subseteq approvals'
        /\ \A k \in Handlers : k # h => handler'[k] = handler[k]
    BY RowKept DEF Proceed
  <1>2. handler'[h].stage = "idle"
    BY DEF Settle, IInv, TypeOK, Idle
  <1>3. /\ executions \in Seq({"queued", "verified"})
        /\ handler[h].execution \in 1..Len(executions)
        /\ executions' = [executions EXCEPT ![handler[h].execution] = "verified"]
    BY DEF Settle, IInv, TypeOK, SettlesItsExecution
  <1>4. /\ Len(executions') = Len(executions)
        /\ executions'[handler[h].execution] = "verified"
    BY <1>3, ExecutionSettled
  <1>5. IndependentlyApproved /\ IndependentlyApproved'
    BY <1>1, EvidenceKept DEF Settle, IInv, ExecutingApproved, Executing
  <1>6. VerifiedHasExecution'
    BY <1>3, <1>4 DEF VerifiedHasExecution
  <1>7. SettlesItsExecution'
    BY <1>1, <1>2, <1>4 DEF IInv, SettlesItsExecution
  <1>8. SignersEntitled'
    BY <1>1, <1>2 DEF IInv, SignersEntitled
  <1> QED
    BY <1>1, <1>5, <1>6, <1>7, <1>8
       DEF IInv, NothingBeforeProposal, ExecutingApproved, ExecutedOnlyIfApproved

LEMMA SetOverrideIInv ==
    ASSUME IInv, TypeOK', NEW state \in Override, SetOverride(state)
    PROVE  IInv'
  <1>1. /\ command # None /\ command \in Command
        /\ command' = [command EXCEPT !.override = state]
        /\ UNCHANGED <<approvals, executions, handler>>
    BY DEF SetOverride, IInv, TypeOK
  <1>2. /\ command' \in Command /\ command'.status = command.status
        /\ command'.sod = command.sod /\ command'.requester = command.requester
    BY <1>1 DEF Command
  <1>3. IndependentlyApproved => IndependentlyApproved'
    BY <1>1, <1>2 DEF IndependentlyApproved
  <1> QED
    BY <1>1, <1>2, <1>3, NoRowAssumption
       DEF IInv, NothingBeforeProposal, SignersEntitled, ExecutingApproved, Executing,
           SettlesItsExecution, ExecutedOnlyIfApproved, VerifiedHasExecution

\* Every step keeps IInv.
LEMMA StepIInv == IInv /\ [Next]_vars => IInv'
  <1> SUFFICES ASSUME IInv, [Next]_vars PROVE IInv'
    OBVIOUS
  <1>0. TypeOK' /\ handler \in [Handlers -> Call]
    BY StepTypeOK DEF IInv, TypeOK
  <1>1. ASSUME NEW requester \in Users \cup {None}, NEW sod \in BOOLEAN,
               Propose(requester, sod)
        PROVE  IInv'
    BY <1>0, <1>1, ProposeIInv
  <1>2. ASSUME NEW h \in Handlers, NEW op \in Op, NEW u \in Users, Load(h, op, u)
        PROVE  IInv'
    BY <1>0, <1>2, LoadIInv
  <1>3. ASSUME NEW h \in Handlers, Proceed(h) PROVE IInv'
    BY <1>0, <1>3, WriteIInv, CancelIInv, QueueIInv, CreateExecutionIInv, SettleIInv DEF Proceed
  <1>4. ASSUME NEW h \in Handlers, HandlerDies(h) PROVE IInv'
    <2>1. \A k \in Handlers : handler'[k] = handler[k] \/ handler'[k].stage = "idle"
      BY <1>0, <1>4 DEF HandlerDies, Idle
    <2> QED
      BY <1>0, <1>4, <2>1, FrameIInv DEF HandlerDies
  <1>5. ASSUME NEW state \in Override, SetOverride(state) PROVE IInv'
    BY <1>0, <1>5, SetOverrideIInv
  <1>6. CASE Expire \/ ChangeReadiness \/ UNCHANGED vars
    BY <1>0, <1>6, FrameIInv DEF Expire, ChangeReadiness, vars
  <1> QED
    BY <1>1, <1>2, <1>3, <1>4, <1>5, <1>6 DEF Next

\* IInv, for every value of the constants.
THEOREM Invariance == Spec => []IInv
  <1> QED
    BY InitIInv, StepIInv, PTL DEF Spec

\* TypeOK: the row, its approvals and executions, and the calls in progress
\* stay within their types.
THEOREM TypeCorrect == Spec => []TypeOK
  <1>1. IInv => TypeOK
    BY DEF IInv
  <1> QED
    BY <1>1, Invariance, PTL

\* ExecutedOnlyIfApproved: nothing is executed that nobody else approved,
\* whatever calls race and die.
THEOREM ExecutionApproved == Spec => []ExecutedOnlyIfApproved
  <1>1. IInv => ExecutedOnlyIfApproved
    BY DEF IInv
  <1> QED
    BY <1>1, Invariance, PTL

\* VerifiedHasExecution: "verified" is never reported without its record.
THEOREM VerifiedRecorded == Spec => []VerifiedHasExecution
  <1>1. IInv => VerifiedHasExecution
    BY DEF IInv
  <1> QED
    BY <1>1, Invariance, PTL
==============================================================================
