----------------------------- MODULE LocalSafety -----------------------------
(***************************************************************************)
(* The local safety controller in front of one device, with its adapter:   *)
(* safety/local-safety-controller.ts.                                      *)
(*                                                                         *)
(* Values are small numbers.  Identity, limits version, signatures, expiry *)
(* and interlocks are the outcomes of a package that is refused with a     *)
(* hold.  The adapter is what src/ asks of one: a write that may fail, be  *)
(* left unacknowledged or not take effect, a read-back, and a safe state.  *)
(***************************************************************************)
EXTENDS ServiceCalls, Integers

CONSTANTS MaxValue,     \* bound: values are -1..MaxValue + 1
          MaxRamp       \* limits.maxRampPerMinute

ASSUME SafetyAssumption == MaxValue \in Nat /\ MaxRamp \in Nat

VARIABLES
    output,         \* the setpoint the device holds
    safeState,      \* how the device was last told to be safe, or "running"
    packages        \* [Calls -> applyWithLocalSafety in progress]

safetyVars == <<output, safeState, packages>>

Values == -1..(MaxValue + 1)
MinimumAllowed == 0
MaximumAllowed == MaxValue
SafeModes == {"hold", "trip", "ramp_to_safe"}

\* requested and current: command.requestedValue and ctx.currentValue.  missed and
\* overtaken are history: the device did not take the latest write; another call
\* has written since this one was made.
Package == [stage : {"idle", "decided", "read", "rollback", "safe", "report"},
            requested : Values, current : Values, mode : SafeModes \cup {"none"},
            verified : BOOLEAN, rolledBack : BOOLEAN,
            missed : BOOLEAN, overtaken : BOOLEAN]
PackageIdle == [stage |-> "idle", requested |-> 0, current |-> 0, mode |-> "none",
                verified |-> FALSE, rolledBack |-> FALSE,
                missed |-> FALSE, overtaken |-> FALSE]

SafetyInit ==
    /\ output = 0
    /\ safeState = "running"
    /\ packages = [c \in Calls |-> PackageIdle]

\* Mutant: the ramp is not looked at.
DecideWithoutRamp(requested, current, refused, healthy) ==
    IF refused THEN "hold"
    ELSE IF ~healthy THEN "trip"
    ELSE IF requested < MinimumAllowed \/ requested > MaximumAllowed THEN "hold"
    ELSE "none"

\* evaluateLocalSafety: the safe state of a refusal, or "none".
EvaluateLocalSafety(requested, current, refused, healthy) ==
    IF refused THEN "hold"
    ELSE IF ~healthy THEN "trip"
    ELSE IF requested < MinimumAllowed \/ requested > MaximumAllowed THEN "hold"
    ELSE IF requested - current > MaxRamp \/ current - requested > MaxRamp THEN "ramp_to_safe"
    ELSE "none"

\* applyWithLocalSafety is called with a context that is true at that time.
Apply(c, requested, refused, healthy) ==
    LET mode == EvaluateLocalSafety(requested, output, refused, healthy) IN
    /\ packages[c] = PackageIdle
    /\ packages' = [packages EXCEPT ![c] =
          [PackageIdle EXCEPT !.stage = IF mode = "none" THEN "decided" ELSE "safe",
                              !.requested = requested, !.current = output, !.mode = mode]]
    /\ UNCHANGED <<output, safeState>>

Advance(c, package) == packages' = [packages EXCEPT ![c] = package]

\* Other calls work with a context that is no longer true.
AdvanceOvertaking(c, package) ==
    packages' = [d \in Calls |->
                   IF d = c THEN package
                   ELSE [packages[d] EXCEPT !.overtaken = packages[d] # PackageIdle]]

\* Physical control is off, as it is by default: nothing is written, and the
\* report says that it was.
Pretend(c) ==
    /\ packages[c].stage = "decided"
    /\ Advance(c, [packages[c] EXCEPT !.stage = "report", !.verified = TRUE,
                                      !.missed = TRUE])
    /\ UNCHANGED <<output, safeState>>

\* adapter.sendSetpoint(value): whether the value took effect and whether it was
\* acknowledged are two things.
SendSetpoint(value, applied) ==
    /\ output' = IF applied THEN value ELSE output
    /\ safeState' = IF applied THEN "running" ELSE safeState

WriteRequested(c, applied, acknowledged) ==
    LET package == packages[c] IN
    /\ package.stage = "decided"
    /\ SendSetpoint(package.requested, applied)
    /\ AdvanceOvertaking(c, IF acknowledged
                  THEN [package EXCEPT !.stage = "read"]
                  ELSE [package EXCEPT !.stage = "safe", !.mode = "hold"])

\* The read-back, within the tolerance of the requested value or not: a device
\* that is slow to follow is a mismatch, too.
ReadBack(c, slow) ==
    LET package == packages[c] IN
    /\ package.stage = "read"
    /\ Advance(c, IF output = package.requested /\ ~slow
                  THEN [package EXCEPT !.stage = "report", !.verified = TRUE]
                  ELSE [package EXCEPT !.stage = "rollback"])
    /\ UNCHANGED <<output, safeState>>

\* Mutant: what was requested is sent again.
WriteBackRequested(c, applied) ==
    LET package == packages[c] IN
    /\ package.stage = "rollback"
    /\ SendSetpoint(package.requested, applied)
    /\ AdvanceOvertaking(c, [package EXCEPT !.stage = "report", !.rolledBack = TRUE,
                                            !.missed = ~applied])

\* A mismatch: the previous value goes back.  Its acknowledgement is not looked
\* at; only an adapter that throws leads to a trip.
WriteBack(c, applied) ==
    LET package == packages[c] IN
    /\ package.stage = "rollback"
    /\ SendSetpoint(package.current, applied)
    /\ AdvanceOvertaking(c, [package EXCEPT !.stage = "report", !.rolledBack = TRUE,
                                            !.missed = ~applied])

WriteBackThrows(c, applied) ==
    LET package == packages[c] IN
    /\ package.stage = "rollback"
    /\ SendSetpoint(package.current, applied)
    /\ AdvanceOvertaking(c, [package EXCEPT !.stage = "safe", !.mode = "trip"])

EnterSafeState(c) ==
    LET package == packages[c] IN
    /\ package.stage = "safe"
    /\ safeState' = package.mode
    /\ AdvanceOvertaking(c, [package EXCEPT !.stage = "report"])
    /\ UNCHANGED output

\* The first write, the read-back or the safe state throws: the caller has the
\* error and no report, and the device is left as it is.
WriteThrows(c, applied) ==
    /\ packages[c].stage = "decided"
    /\ SendSetpoint(packages[c].requested, applied)
    /\ AdvanceOvertaking(c, PackageIdle)

AdapterThrows(c) ==
    /\ packages[c].stage \in {"read", "safe"}
    /\ packages' = GiveUp(packages, c, PackageIdle)
    /\ UNCHANGED <<output, safeState>>

Report(c) ==
    /\ packages[c].stage = "report"
    /\ packages' = GiveUp(packages, c, PackageIdle)
    /\ UNCHANGED <<output, safeState>>

SafetyNext ==
    \E c \in Calls :
        \/ \E requested \in Values, refused, healthy \in BOOLEAN :
             Apply(c, requested, refused, healthy)
        \/ Pretend(c)
        \/ \E applied, acknowledged \in BOOLEAN : WriteRequested(c, applied, acknowledged)
        \/ \E slow \in BOOLEAN : ReadBack(c, slow)
        \/ \E applied \in BOOLEAN : WriteBack(c, applied) \/ WriteBackThrows(c, applied)
                                    \/ WriteThrows(c, applied)
        \/ EnterSafeState(c) \/ AdapterThrows(c) \/ Report(c)

SafetySpec == SafetyInit /\ [][SafetyNext]_safetyVars

-----------------------------------------------------------------------------
SafetyTypeOK ==
    /\ output \in Values
    /\ safeState \in SafeModes \cup {"running"}
    /\ packages \in [Calls -> Package]

Limits == MinimumAllowed..MaximumAllowed

MoveAllowed ==
    /\ output' \in Limits
    /\ output' - output > MaxRamp \/ output - output' > MaxRamp
         => \E c \in Calls : /\ packages[c].stage \in {"decided", "rollback"}
                             /\ packages[c].overtaken
                             /\ packages'[c] # packages[c]

\* Whatever is requested, written back or left half done, the device never holds
\* a value outside the local limits, and it moves by more than the ramp only when
\* the call that moves it was decided before another call moved it.
MovesWithinLimits == [][MoveAllowed]_output

ReportTrue(package, held, state) ==
    IF package.verified THEN held = package.requested
    ELSE \/ package.mode # "none" /\ state = package.mode
         \/ package.rolledBack /\ held = package.current

ReportsMadeTrue ==
    \A c \in Calls :
        LET package == packages[c] IN
        /\ package.stage = "report" /\ packages'[c] = PackageIdle
        /\ ~package.overtaken /\ ~package.missed
        => ReportTrue(package, output, safeState)

\* What a report says is so when it is made, if no other call wrote in between:
\* verified, the device holds the requested value (unless physical control is
\* off); otherwise it is in the safe state, or has its previous value back.  The
\* exception is a previous value the adapter did not take, which the report
\* still calls rolled back (local-safety-controller.ts:212).
ReportsHold == [][ReportsMadeTrue]_packages

\* The inductive invariant behind both: what a package in progress holds, and
\* what the device holds while nobody has overtaken it.
PackageWithinLimits(package) ==
    /\ package.stage # "idle" => package.current \in Limits
    /\ package.stage \in {"decided", "read", "rollback"} =>
         /\ package.requested \in Limits
         /\ package.requested - package.current \in -MaxRamp..MaxRamp
    /\ package.stage = "safe" => package.mode # "none"
    /\ package.verified => package.stage = "report"

DeviceAsDecided(package, held, state) ==
    ~package.overtaken =>
        /\ package.stage = "decided" => held = package.current
        /\ package.stage \in {"read", "rollback"} => held \in {package.current, package.requested}
        /\ package.stage = "report" /\ ~package.missed => ReportTrue(package, held, state)

SafetyInductive ==
    /\ output \in Limits
    /\ \A c \in Calls : /\ PackageWithinLimits(packages[c])
                       /\ DeviceAsDecided(packages[c], output, safeState)
=============================================================================
