-------------------------- MODULE Components_proofs --------------------------
(***************************************************************************)
(* Theorems about the firmware's main loop, for every polling interval and *)
(* back-off; about the detection of curtailment events, for every series   *)
(* of samples and every setting; and about the components side by side:    *)
(* each of them behaves as its own specification says, so that what is     *)
(* proved of the specifications holds of the whole.                        *)
(***************************************************************************)
EXTENDS Components, Records_proofs, Services_proofs, FiniteSetTheorems, WellFoundedInduction, TLAPS

-----------------------------------------------------------------------------
(* FirmwareLoop.                                                           *)

\* Nothing has been out of order since the device booted.  Every turn kicks the
\* network and the time synchronisation; a measurement kicks its two tasks and is
\* uploaded in the same turn; so once a turn is over every task has been kicked
\* within the polling interval, and the second turn of a tick feeds the watchdog.
InTime ==
    /\ storageOk /\ backoff = 0 /\ pc # "measureOnly"
    /\ kicked["Modbus"] <= measured /\ kicked["Queue"] <= measured
    /\ kicked["Upload"] <= measured \/ (pc = "upload" /\ depth > 0)
    /\ turns > 0 \/ pc \in {"upload", "delay"} => measured < PollTicks
    /\ turns > 0 \/ pc # "service" => kicked["TimeSync"] = 0
    /\ turns > 0 \/ pc \in {"measure", "upload", "delay"} => kicked["Network"] = 0
    /\ turns > 0 /\ pc # "service" => fed = 0

FirmwareInv ==
    /\ FirmwareTypeOK
    /\ PollTicks < 2 * WatchdogTicks => (outages = {} => InTime) /\ tripped # {}

\* A tick that the watchdog lets pass: timers grow by it and stop at their limits.
LEMMA ElapseTypes ==
    ASSUME FirmwareTypeOK, NEW n \in 0..1, fed + n < WatchdogTicks, Elapse(n)
    PROVE  /\ fed' \in 0..WatchdogTicks /\ fed' = fed + n
           /\ kicked' \in [Tasks -> 0..WatchdogTicks + 1]
           /\ \A t \in Tasks : kicked'[t] <= kicked[t] + n
           /\ measured' \in 0..PollTicks
           /\ measured < PollTicks => measured' = measured + n
           /\ backoff' \in 0..BackoffTicks /\ (backoff = 0 => backoff' = 0)
<1> USE LoopAssumption DEF WatchdogTicks
<1>1. /\ fed \in 0..2 /\ measured \in 0..PollTicks /\ backoff \in 0..BackoffTicks
      /\ kicked \in [Tasks -> 0..3]
    BY DEF FirmwareTypeOK
<1>2. /\ fed' = fed + n /\ measured' = Later(measured, n, PollTicks)
      /\ kicked' = [t \in Tasks |-> Later(kicked[t], n, 3)]
      /\ backoff' = IF backoff > n THEN backoff - n ELSE 0
    BY DEF Elapse
<1>3. \A t \in Tasks : Later(kicked[t], n, 3) \in 0..3 /\ Later(kicked[t], n, 3) <= kicked[t] + n
    BY <1>1 DEF Later
<1>4. measured' \in 0..PollTicks /\ (measured < PollTicks => measured' = measured + n)
    BY <1>1, <1>2 DEF Later
<1>5. backoff' \in 0..BackoffTicks /\ (backoff = 0 => backoff' = 0)
    BY <1>1, <1>2
<1> QED
    BY <1>1, <1>2, <1>3, <1>4, <1>5

\* A reset: of a device something was out of order around, or not a quiet one.
LEMMA TripKeeps ==
    ASSUME FirmwareInv, NEW behind \in SUBSET Outages, Trip(behind), UNCHANGED depth,
           PollTicks < 2 * WatchdogTicks => behind # {}
    PROVE  FirmwareInv'
<1> USE LoopAssumption DEF WatchdogTicks
<1>1. PICK ok \in BOOLEAN : tripped' = behind /\ Booted(ok)
    BY DEF Trip
<1>2. /\ pc' = "service" /\ turns' = 0 /\ kicked' = [t \in Tasks |-> 0] /\ fed' = 0
      /\ measured' = 0 /\ backoff' = 0 /\ storageOk' = ok
      /\ outages' = IF ok THEN {} ELSE {"storage"}
    BY <1>1 DEF Booted
<1>3. FirmwareTypeOK'
    BY <1>1, <1>2 DEF FirmwareInv, FirmwareTypeOK, Outages
<1>4. outages' = {} => InTime'
    BY <1>2 DEF InTime, Tasks
<1> QED
    BY <1>1, <1>3, <1>4 DEF FirmwareInv

\* A device that has just booted is in time.
LEMMA FirmwareInitInv == FirmwareInit => FirmwareInv
<1> SUFFICES ASSUME FirmwareInit PROVE FirmwareInv
    OBVIOUS
<1> USE LoopAssumption DEF WatchdogTicks, FirmwareInit
<1>1. FirmwareTypeOK
    BY DEF FirmwareTypeOK, Outages, NotTripped
<1>2. outages = {} => InTime
    BY DEF InTime, Tasks
<1>3. tripped # {}
    BY DEF NotTripped
<1> QED
    BY <1>1, <1>2, <1>3 DEF FirmwareInv

\* A turn of the loop keeps it in time, call by call.
LEMMA FirmwareNextInv == FirmwareInv /\ [FirmwareNext]_firmwareVars => FirmwareInv'
<1> SUFFICES ASSUME FirmwareInv, [FirmwareNext]_firmwareVars PROVE FirmwareInv'
    OBVIOUS
<1> DEFINE Quiet == PollTicks < 2 * WatchdogTicks /\ outages = {}
<1> USE LoopAssumption DEF WatchdogTicks
<1>1. /\ pc \in {"service", "connect", "measure", "measureOnly", "upload", "delay"}
      /\ turns \in 0..2 /\ kicked \in [Tasks -> 0..3] /\ fed \in 0..2 /\ measured \in 0..PollTicks
      /\ depth \in 0..MaxDepth /\ backoff \in 0..BackoffTicks /\ storageOk \in BOOLEAN
      /\ outages \in SUBSET Outages
    BY DEF FirmwareInv, FirmwareTypeOK
<1>2. /\ {"Modbus", "Network", "Upload", "Queue", "TimeSync"} = Tasks
      /\ Quiet => InTime
    BY DEF FirmwareInv, Tasks
<1>3. ASSUME FirmwareTypeOK', UNCHANGED tripped, Quiet' => InTime'
      PROVE  FirmwareInv'
    BY <1>3 DEF FirmwareInv
<1>4. CASE Service
  <2>1. /\ FirmwareTypeOK' /\ UNCHANGED <<tripped, outages>>
      BY <1>1, <1>2, <1>4 DEF Service, FirmwareInv, FirmwareTypeOK
  <2>2. ASSUME Quiet PROVE InTime'
    <3>1. InTime
        BY <1>2, <2>2
    <3>2. turns > 0 => \A t \in Tasks : kicked[t] <= 2
        BY <1>1, <1>2, <1>4, <2>2, <3>1 DEF InTime, Service, Tasks
    <3>3. turns > 0 => fed' = 0
        BY <1>4, <3>2 DEF Service
    <3>4. /\ kicked'["TimeSync"] = 0
          /\ \A t \in Tasks \ {"TimeSync"} : kicked'[t] = kicked[t]
        BY <1>1, <1>2, <1>4 DEF Service
    <3> QED
        BY <1>2, <1>4, <3>1, <3>3, <3>4 DEF InTime, Service
  <2> QED
      BY <1>3, <2>1, <2>2
<1>5. CASE Connected
  <2>1. /\ FirmwareTypeOK' /\ UNCHANGED <<tripped, outages>>
      BY <1>1, <1>2, <1>5 DEF Connected, FirmwareInv, FirmwareTypeOK
  <2>2. ASSUME Quiet PROVE InTime'
    <3>1. /\ kicked'["Network"] = 0
          /\ \A t \in Tasks \ {"Network"} : kicked'[t] = kicked[t]
        BY <1>1, <1>2, <1>5 DEF Connected
    <3> QED
        BY <1>2, <1>5, <2>2, <3>1 DEF InTime, Connected
  <2> QED
      BY <1>3, <2>1, <2>2
<1>6. ASSUME NEW waiting \in 0..1, NotConnected(waiting) PROVE FirmwareInv'
  <2>1. FirmwareTypeOK'
      BY <1>1, <1>6, ElapseTypes DEF NotConnected, FirmwareInv, FirmwareTypeOK, Outages
  <2> QED
      BY <1>3, <1>6, <2>1 DEF NotConnected
<1>7. CASE WaitsTooLong
    BY <1>1, <1>7, TripKeeps DEF WaitsTooLong, Outages
<1>8. CASE NotDue
  <2>1. /\ FirmwareTypeOK' /\ UNCHANGED <<tripped, outages>>
      BY <1>1, <1>8 DEF NotDue, AfterMeasure, FirmwareInv, FirmwareTypeOK
  <2> QED
      BY <1>2, <1>3, <1>8, <2>1 DEF NotDue, AfterMeasure, InTime
<1>9. ASSUME NEW valid \in BOOLEAN, Measure(valid) PROVE FirmwareInv'
  <2>1. FirmwareTypeOK' /\ UNCHANGED tripped
      BY <1>1, <1>2, <1>9 DEF Measure, AfterMeasure, FirmwareInv, FirmwareTypeOK, Outages
  <2>2. ASSUME Quiet' PROVE InTime'
    <3>1. Quiet /\ valid
        BY <1>9, <2>2 DEF Measure
    <3>2. InTime
        BY <1>2, <3>1
    <3>3. /\ kicked'["Modbus"] = 0 /\ kicked'["Queue"] = 0
          /\ \A t \in Tasks \ {"Modbus", "Queue"} : kicked'[t] = kicked[t]
        BY <1>1, <1>2, <1>9, <3>2 DEF Measure, InTime
    <3>4. depth' > 0 /\ pc' = "upload" /\ pc = "measure"
        BY <1>1, <1>9, <3>1, <3>2 DEF Measure, AfterMeasure, InTime
    <3> QED
        BY <1>1, <1>2, <1>9, <3>2, <3>3, <3>4 DEF Measure, InTime
  <2> QED
      BY <1>3, <2>1, <2>2
<1>10. CASE NothingToUpload
  <2>1. /\ FirmwareTypeOK' /\ UNCHANGED <<tripped, outages>>
      BY <1>1, <1>10 DEF NothingToUpload, FirmwareInv, FirmwareTypeOK
  <2> QED
      BY <1>1, <1>2, <1>3, <1>10, <2>1 DEF NothingToUpload, InTime
<1>11. CASE Uploaded
  <2>1. /\ FirmwareTypeOK' /\ UNCHANGED <<tripped, outages>>
      BY <1>1, <1>2, <1>11 DEF Uploaded, FirmwareInv, FirmwareTypeOK
  <2>2. ASSUME Quiet PROVE InTime'
    <3>1. /\ kicked'["Upload"] = 0 /\ kicked'["Queue"] = 0
          /\ \A t \in Tasks \ {"Upload", "Queue"} : kicked'[t] = kicked[t]
        BY <1>1, <1>2, <1>11 DEF Uploaded
    <3> QED
        BY <1>1, <1>2, <1>11, <2>2, <3>1 DEF InTime, Uploaded
  <2> QED
      BY <1>3, <2>1, <2>2
<1>12. CASE NoRequest
  <2>1. FirmwareTypeOK'
      BY <1>1, <1>12 DEF NoRequest, FirmwareInv, FirmwareTypeOK, Outages
  <2> QED
      BY <1>3, <1>12, <2>1 DEF NoRequest
<1>13. ASSUME NEW ticks \in 0..BackoffTicks, UploadRefused(ticks) PROVE FirmwareInv'
  <2>1. FirmwareTypeOK'
      BY <1>1, <1>2, <1>13 DEF UploadRefused, FirmwareInv, FirmwareTypeOK, Outages
  <2> QED
      BY <1>3, <1>13, <2>1 DEF UploadRefused
<1>14. CASE Turn
  <2>1. /\ FirmwareTypeOK' /\ UNCHANGED <<tripped, outages>>
      BY <1>1, <1>14 DEF Turn, FirmwareInv, FirmwareTypeOK
  <2> QED
      BY <1>1, <1>2, <1>3, <1>14, <2>1 DEF Turn, InTime
<1>15. CASE Tick
  <2>1. /\ FirmwareTypeOK' /\ UNCHANGED <<tripped, outages>>
      BY <1>1, <1>15, ElapseTypes DEF Tick, FirmwareInv, FirmwareTypeOK
  <2>2. ASSUME Quiet PROVE InTime'
    <3>1. /\ measured' = measured + 1 /\ backoff' = 0
          /\ \A t \in Tasks : kicked'[t] <= kicked[t] + 1
        BY <1>1, <1>2, <1>15, <2>2, ElapseTypes DEF Tick, InTime, FirmwareInv
    <3>2. /\ kicked'["Modbus"] <= measured' /\ kicked'["Queue"] <= measured'
          /\ kicked'["Upload"] <= measured'
        BY <1>1, <1>2, <1>15, <2>1, <2>2, <3>1 DEF Tick, InTime, FirmwareTypeOK
    <3> QED
        BY <1>1, <1>2, <1>15, <2>2, <3>1, <3>2 DEF Tick, InTime
  <2> QED
      BY <1>3, <2>1, <2>2
<1>16. CASE TimeOut
    BY <1>1, <1>2, <1>16, TripKeeps DEF TimeOut, InTime
<1>17. CASE UNCHANGED firmwareVars
    BY <1>17 DEF firmwareVars, FirmwareInv, FirmwareTypeOK, InTime
<1> QED
    BY <1>4, <1>5, <1>6, <1>7, <1>8, <1>9, <1>10, <1>11, <1>12, <1>13, <1>14, <1>15, <1>16, <1>17
    DEF FirmwareNext

\* The loop keeps its types, and a device around which everything works is in time.
THEOREM FirmwareInvariant == FirmwareSpec => []FirmwareInv
<1>1. FirmwareInit => FirmwareInv
    BY FirmwareInitInv
<1>2. FirmwareInv /\ [FirmwareNext]_firmwareVars => FirmwareInv'
    BY FirmwareNextInv
<1> QED
    BY <1>1, <1>2, PTL DEF FirmwareSpec

\* With a polling interval shorter than two watchdog times, whatever a device is
\* reset by was out of order before: a device around which everything works is
\* never reset (watchdog_health.h:54-68, GridFlexEdge.ino:250-283).
THEOREM QuietDevicesRun == FirmwareSpec => []QuietDeviceNotReset
<1>1. FirmwareInv => QuietDeviceNotReset
    BY DEF FirmwareInv, QuietDeviceNotReset
<1> QED
    BY <1>1, FirmwareInvariant, PTL

-----------------------------------------------------------------------------
(* Curtailment.                                                            *)

\* The cause of the samples i..j of s: the last that is known.
CauseIn(s, i, j) ==
    LET known == {k \in i..j : s[k].cause # "unknown"} IN
    IF known = {} THEN "unknown" ELSE s[Max(known)].cause

\* The interval v is made of the samples i..j of s.
MadeOf(v, s, i, j) ==
    /\ v.start = s[i].time /\ v.end = s[j].time
    /\ ToSet(v.points) = {s[k].time : k \in i..j}
    /\ v.cause = CauseIn(s, i, j)

\* All of i..j are curtailed, and the one before is not.
Begins(s, i, j) ==
    /\ \A k \in i..j : s[k].curtailed
    /\ i > 1 => ~s[i - 1].curtailed

Persists(s, i, j) ==
    /\ i <= j /\ j - i + 1 >= PersistenceSamples
    /\ Begins(s, i, j)
    /\ j < Len(s) => ~s[j + 1].curtailed

\* The intervals of a list are the runs of s that persist and end with its first
\* n samples, in their order.
Lists(list, s, n) ==
    /\ \A e \in 1..Len(list) : \E i, j \in 1..Len(s) :
         j <= n /\ Persists(s, i, j) /\ MadeOf(list[e], s, i, j)
    /\ \A e, f \in 1..Len(list) : e < f => list[e].end < list[f].start
    /\ \A i, j \in 1..Len(s) : j <= n /\ Persists(s, i, j)
         => \E e \in 1..Len(list) : MadeOf(list[e], s, i, j)

\* The run under way: all samples from where it began.
UnderWay(v, s) ==
    IF s = <<>> \/ ~s[Len(s)].curtailed THEN v = NoRun
    ELSE \E i \in 1..Len(s) : /\ Begins(s, i, Len(s)) /\ MadeOf(v, s, i, Len(s))
                              /\ Len(v.points) = Len(s) - i + 1

Chronological(s) == \A i, j \in 1..Len(s) : i < j => s[i].time < s[j].time

\* The list and the run under way together are the runs of the samples so far.
CurtailmentInv ==
    /\ CurtailmentTypeOK
    /\ Chronological(samples)
    /\ UnderWay(pending, samples)
    /\ Lists(open, samples, Len(samples) - 1)

\* What the second loop has made of the first n intervals of a list.  Each of them
\* is in an event of its cause; an event begins with the first of its own and ends
\* with its last, and has their points.
Holds(event, v) == event.start <= v.start /\ v.end <= event.end

Merges(events, list, n) ==
    /\ events \in Seq(Interval) /\ Len(events) <= n
    /\ n > 0 => /\ events # <<>>
                /\ events[Len(events)].end = list[n].end
                /\ events[Len(events)].cause = list[n].cause
    /\ \A c \in 1..n : \E e \in 1..Len(events) :
         Holds(events[e], list[c]) /\ events[e].cause = list[c].cause
    /\ \A e \in 1..Len(events) :
         /\ events[e].start <= events[e].end
         /\ \E c \in 1..n : Holds(events[e], list[c]) /\ events[e].start = list[c].start
         /\ \E c \in 1..n : Holds(events[e], list[c]) /\ events[e].end = list[c].end
         /\ ToSet(events[e].points) =
              UNION {ToSet(list[c].points) : c \in {d \in 1..n : Holds(events[e], list[d])}}
    /\ \A e, f \in 1..Len(events) : e < f => events[e].end < events[f].start
    /\ \A e \in 2..Len(events) : events[e - 1].cause = events[e].cause
         => events[e].start - events[e - 1].end > MergeGap

-----------------------------------------------------------------------------
\* A set of bounded numbers that is not empty has a least one.
LEMMA LeastNumber ==
    ASSUME NEW N \in Nat, NEW S \in SUBSET (0..N), S # {}
    PROVE  \E m \in S : \A k \in S : m <= k
<1> DEFINE below == {0..k : k \in S}
<1>1. below \subseteq FiniteSubsetsOf(0..N)
  <2>1. ASSUME NEW k \in S PROVE 0..k \in SUBSET (0..N) /\ IsFiniteSet(0..k)
      BY FS_Interval
  <2> QED
      BY <2>1 DEF FiniteSubsetsOf
<1>2. below # {}
    OBVIOUS
<1>3. PICK T \in below : \A U \in below : ~(<<U, T>> \in StrictSubsetOrdering(0..N))
  <2> HIDE DEF below
  <2> QED
      BY <1>1, <1>2, FS_StrictSubsetOrderingWellFounded, WFMin
<1>4. PICK m \in S : T = 0..m
    OBVIOUS
<1>5. ASSUME NEW k \in S, k < m PROVE FALSE
  <2>1. 0..k \in below
      OBVIOUS
  <2>2. 0..k \subseteq 0..m /\ 0..k # 0..m
    <3>1. m \in 0..m /\ ~(m \in 0..k)
        BY <1>5
    <3> QED
        BY <1>5, <3>1
  <2>3. <<0..k, 0..m>> \in StrictSubsetOrdering(0..N)
      BY <2>2 DEF StrictSubsetOrdering
  <2> QED
      BY <1>3, <1>4, <2>1, <2>3
<1> QED
    BY <1>5

\* And a greatest one: the least, seen from above.
LEMMA GreatestNumber ==
    ASSUME NEW N \in Nat, NEW S \in SUBSET (0..N), S # {}
    PROVE  \E m \in S : \A k \in S : k <= m
<1> DEFINE mirror == {N - k : k \in S}
<1>1. mirror \in SUBSET (0..N)
    OBVIOUS
<1>2. mirror # {}
  <2>1. PICK k \in S : TRUE
      OBVIOUS
  <2>2. N - k \in mirror
      BY <2>1
  <2> QED
      BY <2>2
<1>3. PICK m \in mirror : \A k \in mirror : m <= k
    BY <1>1, <1>2, LeastNumber
<1>4. PICK g \in S : m = N - g
    BY <1>3
<1>5. ASSUME NEW k \in S PROVE k <= g
  <2>1. N - k \in mirror
      OBVIOUS
  <2>2. m <= N - k
      BY <1>3, <2>1
  <2>3. g \in 0..N /\ k \in 0..N
      OBVIOUS
  <2> HIDE DEF mirror
  <2> QED
      BY <1>4, <2>2, <2>3
<1> QED
    BY <1>5

\* They are what Min and Max choose.
LEMMA LeastIs ==
    ASSUME NEW S \in SUBSET Nat, NEW m \in S
    PROVE  /\ (\A k \in S : m <= k) => Min(S) = m
           /\ (\A k \in S : k <= m) => Max(S) = m
<1>1. ASSUME \A k \in S : m <= k PROVE Min(S) = m
  <2>1. Min(S) \in S /\ \A k \in S : Min(S) <= k
      BY <1>1 DEF Min
  <2>2. Min(S) <= m /\ m <= Min(S) /\ Min(S) \in Nat /\ m \in Nat
      BY <1>1, <2>1
  <2> QED
      BY <2>2
<1>2. ASSUME \A k \in S : k <= m PROVE Max(S) = m
  <2>1. \A k \in S : m >= k
      BY <1>2
  <2>2. Max(S) \in S /\ \A k \in S : Max(S) >= k
      BY <2>1 DEF Max
  <2>3. Max(S) >= m /\ m >= Max(S) /\ Max(S) \in Nat /\ m \in Nat
      BY <2>1, <2>2
  <2> QED
      BY <2>3
<1> QED
    BY <1>1, <1>2

-----------------------------------------------------------------------------
\* Every set of signs has a first cause, and it is a cause.
LEMMA CauseFound ==
    ASSUME NEW signs \in SUBSET Signs
    PROVE  ClassifyCause(signs) \in CauseNames
<1> DEFINE shown == {i \in 1..Len(Causes) : Causes[i] \in signs}
<1>1. Len(Causes) = 11 /\ Causes[11] = "unknown"
    BY DEF Causes
<1>2. "unknown" \in CauseNames
    BY <1>1 DEF CauseNames
<1>3. ASSUME signs # {} PROVE Min(shown) \in 1..Len(Causes)
  <2>1. PICK i \in 1..11 : i \in shown
      BY <1>1, <1>3, CurtailmentAssumption DEF CauseNames
  <2>2. shown \in SUBSET (0..11)
      BY <1>1
  <2>3. PICK m \in shown : \A k \in shown : m <= k
      BY <2>1, <2>2, LeastNumber
  <2> QED
      BY <2>2, <2>3, LeastIs
<1> QED
    BY <1>2, <1>3 DEF ClassifyCause, CauseNames

\* That there is no run is written as one without points.
LEMMA NoRunTypes == NoRun \in Interval /\ Len(NoRun.points) = 0
<1>1. Len(Causes) = 11 /\ Causes[11] = "unknown"
    BY DEF Causes
<1>2. "unknown" \in CauseNames /\ <<>> \in Seq(Nat)
    BY <1>1 DEF CauseNames
<1> QED
    BY <1>2 DEF NoRun, Interval

LEMMA CurtailmentTypesNext ==
    CurtailmentTypeOK /\ [CurtailmentNext]_curtailmentVars => CurtailmentTypeOK'
<1> SUFFICES ASSUME CurtailmentTypeOK, [CurtailmentNext]_curtailmentVars
             PROVE  CurtailmentTypeOK'
    OBVIOUS
<1>1. CASE UNCHANGED curtailmentVars
    BY <1>1 DEF curtailmentVars, CurtailmentTypeOK
<1>2. CASE CurtailmentNext
  <2>1. PICK time \in Nat : \/ NotCurtailed(time)
                           \/ \E signs \in SUBSET Signs : Curtailed(time, signs)
    <3>1. PICK gap \in Gaps :
            LET time == (IF samples = <<>> THEN 0 ELSE Last(samples).time) + gap IN
            NotCurtailed(time) \/ \E signs \in SUBSET Signs : Curtailed(time, signs)
        BY <1>2 DEF CurtailmentNext
    <3>2. ASSUME samples # <<>> PROVE Last(samples).time \in Nat
      <4>1. samples \in Seq(Sample) /\ Len(samples) \in 1..Len(samples)
          BY <3>2 DEF CurtailmentTypeOK
      <4>2. Last(samples) \in Sample
          BY <4>1 DEF Last
      <4> QED
          BY <4>2 DEF Sample
    <3>3. gap \in Nat
        BY CurtailmentAssumption
    <3>4. (IF samples = <<>> THEN 0 ELSE Last(samples).time) + gap \in Nat
        BY <3>2, <3>3
    <3> QED
        BY <3>1, <3>4
  <2>2. samples \in Seq(Sample) /\ pending \in Interval /\ open \in Seq(Interval)
      BY DEF CurtailmentTypeOK
  <2>3. CASE NotCurtailed(time)
    <3>1. [time |-> time, curtailed |-> FALSE, cause |-> "unknown"] \in Sample
        BY NoRunTypes DEF Sample, NoRun, Interval
    <3> QED
        BY <2>2, <2>3, <3>1, NoRunTypes DEF NotCurtailed, Flushed, CurtailmentTypeOK
  <2>4. ASSUME NEW signs \in SUBSET Signs, Curtailed(time, signs) PROVE CurtailmentTypeOK'
    <3> DEFINE cause == ClassifyCause(signs)
    <3>1. cause \in CauseNames
        BY CauseFound
    <3> HIDE DEF cause
    <3>2. [time |-> time, curtailed |-> TRUE, cause |-> cause] \in Sample
        BY <3>1 DEF Sample
    <3>3. ExtendRun(pending, time, cause) \in Interval
      <4>1. pending.points \in Seq(Nat) /\ pending.cause \in CauseNames
          BY <2>2 DEF Interval
      <4>2. Append(pending.points, time) \in Seq(Nat) /\ <<time>> \in Seq(Nat)
          BY <4>1
      <4>3. (IF cause = "unknown" THEN pending.cause ELSE cause) \in CauseNames
          BY <3>1, <4>1
      <4> QED
          BY <2>2, <3>1, <4>2, <4>3 DEF ExtendRun, Interval
    <3> QED
        BY <2>2, <2>4, <3>2, <3>3 DEF Curtailed, CurtailmentTypeOK, cause
  <2> QED
      BY <2>1, <2>3, <2>4
<1> QED
    BY <1>1, <1>2

-----------------------------------------------------------------------------
\* One more sample, and what it leaves as it was.
LEMMA Appended ==
    ASSUME NEW s \in Seq(Sample), NEW x \in Sample
    PROVE  /\ Append(s, x) \in Seq(Sample) /\ Append(s, x) # <<>>
           /\ Len(s) \in Nat /\ Len(Append(s, x)) = Len(s) + 1
           /\ Append(s, x)[Len(s) + 1] = x
           /\ \A k \in 1..Len(s) : Append(s, x)[k] = s[k]
OBVIOUS

\* A run has the points it had and the new one.
LEMMA PointsAppended ==
    ASSUME NEW S, NEW p \in Seq(S), NEW x \in S
    PROVE  ToSet(Append(p, x)) = ToSet(p) \cup {x}
<1>1. /\ Len(p) \in Nat /\ Len(Append(p, x)) = Len(p) + 1
      /\ DOMAIN p = 1..Len(p) /\ DOMAIN Append(p, x) = 1..Len(p) + 1
      /\ Append(p, x)[Len(p) + 1] = x
      /\ \A k \in 1..Len(p) : Append(p, x)[k] = p[k]
    OBVIOUS
<1>2. 1..Len(p) + 1 = (1..Len(p)) \cup {Len(p) + 1}
    BY <1>1
<1> QED
    BY <1>1, <1>2 DEF ToSet

\* What is said of samples before the last one does not change with another sample.
LEMMA SamePrefix ==
    ASSUME NEW s \in Seq(Sample), NEW x \in Sample, NEW t, t = Append(s, x),
           NEW i \in 1..Len(s), NEW j \in 1..Len(s)
    PROVE  /\ CauseIn(t, i, j) = CauseIn(s, i, j)
           /\ \A v : MadeOf(v, t, i, j) <=> MadeOf(v, s, i, j)
           /\ Begins(t, i, j) <=> Begins(s, i, j)
           /\ j < Len(s) \/ ~x.curtailed => (Persists(t, i, j) <=> Persists(s, i, j))
<1>1. /\ Len(s) \in Nat /\ Len(t) = Len(s) + 1 /\ t[Len(s) + 1] = x
      /\ \A k \in 1..Len(s) : t[k] = s[k]
    BY Appended
<1>2. \A k \in i..j : t[k] = s[k] /\ k \in 1..Len(s)
    BY <1>1
<1>3. {k \in i..j : t[k].cause # "unknown"} = {k \in i..j : s[k].cause # "unknown"}
    BY <1>2
<1>4. CauseIn(t, i, j) = CauseIn(s, i, j)
  <2> DEFINE known == {k \in i..j : s[k].cause # "unknown"}
  <2>1. ASSUME known # {} PROVE t[Max(known)] = s[Max(known)]
    <3>1. known \in SUBSET (0..Len(s))
        BY <1>1
    <3>2. PICK m \in known : \A k \in known : k <= m
        BY <1>1, <2>1, <3>1, GreatestNumber
    <3>3. Max(known) = m
        BY <3>1, <3>2, LeastIs
    <3> QED
        BY <1>2, <3>3
  <2> QED
      BY <1>3, <2>1 DEF CauseIn
<1>5. {t[k].time : k \in i..j} = {s[k].time : k \in i..j}
    BY <1>2
<1>6. \A v : MadeOf(v, t, i, j) <=> MadeOf(v, s, i, j)
    BY <1>1, <1>4, <1>5 DEF MadeOf
<1>7. i > 1 => t[i - 1] = s[i - 1]
    BY <1>1
<1>8. Begins(t, i, j) <=> Begins(s, i, j)
    BY <1>2, <1>7 DEF Begins
<1>9. j < Len(s) => t[j + 1] = s[j + 1] /\ j + 1 \in 1..Len(s)
    BY <1>1
<1>10. j < Len(s) \/ ~x.curtailed => (Persists(t, i, j) <=> Persists(s, i, j))
    BY <1>1, <1>8, <1>9 DEF Persists
<1> QED
    BY <1>4, <1>6, <1>8, <1>10

\* The sample ends no run: the list stays as it is, ...
LEMMA ListsCurtailed ==
    ASSUME NEW s \in Seq(Sample), NEW x \in Sample, NEW t, t = Append(s, x), x.curtailed,
           NEW list, Lists(list, s, Len(s) - 1)
    PROVE  Lists(list, t, Len(t) - 1)
<1>1. Len(s) \in Nat /\ Len(t) = Len(s) + 1 /\ t[Len(s) + 1] = x
    BY Appended
<1>2. ASSUME NEW i \in 1..Len(t), NEW j \in 1..Len(t), j <= Len(t) - 1, Persists(t, i, j)
      PROVE  /\ i \in 1..Len(s) /\ j \in 1..Len(s) /\ j <= Len(s) - 1
             /\ Persists(s, i, j)
  <2>1. i <= j /\ (j < Len(t) => ~t[j + 1].curtailed)
      BY <1>2 DEF Persists
  <2>2. j # Len(s)
      BY <1>1, <1>2, <2>1
  <2>3. i \in 1..Len(s) /\ j \in 1..Len(s) /\ j < Len(s)
      BY <1>1, <1>2, <2>1, <2>2
  <2>4. Persists(t, i, j) <=> Persists(s, i, j)
      BY <2>3, SamePrefix
  <2> QED
      BY <1>1, <1>2, <2>3, <2>4
<1>3. ASSUME NEW i \in 1..Len(s), NEW j \in 1..Len(s), j <= Len(s) - 1, Persists(s, i, j)
      PROVE  i \in 1..Len(t) /\ j \in 1..Len(t) /\ j <= Len(t) - 1 /\ Persists(t, i, j)
  <2>1. j < Len(s)
      BY <1>1, <1>3
  <2>2. Persists(t, i, j) <=> Persists(s, i, j)
      BY <2>1, SamePrefix
  <2> QED
      BY <1>1, <1>3, <2>2
<1>4. \A e \in 1..Len(list) : \E i, j \in 1..Len(t) :
        j <= Len(t) - 1 /\ Persists(t, i, j) /\ MadeOf(list[e], t, i, j)
  <2> TAKE e \in 1..Len(list)
  <2>1. PICK i \in 1..Len(s), j \in 1..Len(s) :
          j <= Len(s) - 1 /\ Persists(s, i, j) /\ MadeOf(list[e], s, i, j)
      BY DEF Lists
  <2> QED
      BY <1>3, <2>1, SamePrefix
<1>5. ASSUME NEW i \in 1..Len(t), NEW j \in 1..Len(t), j <= Len(t) - 1, Persists(t, i, j)
      PROVE  \E e \in 1..Len(list) : MadeOf(list[e], t, i, j)
  <2>1. PICK e \in 1..Len(list) : MadeOf(list[e], s, i, j)
      BY <1>2, <1>5 DEF Lists
  <2> QED
      BY <1>2, <1>5, <2>1, SamePrefix
<1> QED
    BY <1>4, <1>5 DEF Lists

\* ... or it ends the one under way, which is in the list by now.
LEMMA ListsNotCurtailed ==
    ASSUME NEW s \in Seq(Sample), NEW x \in Sample, NEW t, t = Append(s, x), ~x.curtailed,
           NEW list, Lists(list, s, Len(s))
    PROVE  Lists(list, t, Len(t) - 1)
<1>1. Len(s) \in Nat /\ Len(t) = Len(s) + 1
    BY Appended
<1>2. ASSUME NEW i \in 1..Len(t), NEW j \in 1..Len(t), j <= Len(t) - 1, Persists(t, i, j)
      PROVE  i \in 1..Len(s) /\ j \in 1..Len(s) /\ j <= Len(s) /\ Persists(s, i, j)
  <2>1. i <= j
      BY <1>2 DEF Persists
  <2>2. i \in 1..Len(s) /\ j \in 1..Len(s)
      BY <1>1, <1>2, <2>1
  <2>3. Persists(t, i, j) <=> Persists(s, i, j)
      BY <2>2, SamePrefix
  <2> QED
      BY <1>1, <1>2, <2>2, <2>3
<1>3. ASSUME NEW i \in 1..Len(s), NEW j \in 1..Len(s), Persists(s, i, j)
      PROVE  i \in 1..Len(t) /\ j \in 1..Len(t) /\ j <= Len(t) - 1 /\ Persists(t, i, j)
  <2>1. Persists(t, i, j) <=> Persists(s, i, j)
      BY <1>1, <1>3, SamePrefix
  <2> QED
      BY <1>1, <1>3, <2>1
<1>4. \A e \in 1..Len(list) : \E i, j \in 1..Len(t) :
        j <= Len(t) - 1 /\ Persists(t, i, j) /\ MadeOf(list[e], t, i, j)
  <2> TAKE e \in 1..Len(list)
  <2>1. PICK i \in 1..Len(s), j \in 1..Len(s) :
          j <= Len(s) /\ Persists(s, i, j) /\ MadeOf(list[e], s, i, j)
      BY DEF Lists
  <2> QED
      BY <1>3, <2>1, SamePrefix
<1>5. ASSUME NEW i \in 1..Len(t), NEW j \in 1..Len(t), j <= Len(t) - 1, Persists(t, i, j)
      PROVE  \E e \in 1..Len(list) : MadeOf(list[e], t, i, j)
  <2>1. PICK e \in 1..Len(list) : MadeOf(list[e], s, i, j)
      BY <1>2, <1>5 DEF Lists
  <2> QED
      BY <1>2, <1>5, <2>1, SamePrefix
<1> QED
    BY <1>4, <1>5 DEF Lists

\* What is reported of the runs so far: the list and, if it persists, the run under
\* way, which begins after all of them have ended.
LEMMA FlushedLists ==
    ASSUME NEW s \in Seq(Sample), Chronological(s), NEW v \in Interval, UnderWay(v, s),
           NEW list \in Seq(Interval), Lists(list, s, Len(s) - 1),
           NEW all, all = IF Len(v.points) >= PersistenceSamples THEN Append(list, v) ELSE list
    PROVE  Lists(all, s, Len(s))
<1> DEFINE n == Len(s)
           m == Len(list)
<1>1. /\ n \in Nat /\ m \in Nat /\ PersistenceSamples \in Nat /\ PersistenceSamples >= 1
    BY CurtailmentAssumption
<1>2. CASE s = <<>> \/ ~s[n].curtailed
  <2>1. all = list
      BY <1>1, <1>2, NoRunTypes DEF UnderWay
  <2>2. \A i, j \in 1..n : Persists(s, i, j) => j <= n - 1
      BY <1>1, <1>2 DEF Persists, Begins
  <2> QED
      BY <1>1, <2>1, <2>2 DEF Lists
<1>3. CASE ~(s = <<>> \/ ~s[n].curtailed)
  <2>1. PICK b \in 1..n : /\ Begins(s, b, n) /\ MadeOf(v, s, b, n)
                          /\ Len(v.points) = n - b + 1
      BY <1>3 DEF UnderWay
  <2>2. ASSUME NEW i \in 1..n, NEW j \in 1..n, Persists(s, i, j), j > n - 1
        PROVE  i = b /\ j = n /\ n - b + 1 >= PersistenceSamples
    <3>1. j = n /\ i <= n /\ n - i + 1 >= PersistenceSamples /\ Begins(s, i, n)
        BY <1>1, <2>2 DEF Persists
    <3>2. ~(i < b)
      <4>1. i < b => b > 1 /\ b - 1 \in i..n
          BY <1>1, <3>1
      <4> QED
          BY <2>1, <3>1, <4>1 DEF Begins
    <3>3. ~(b < i)
      <4>1. b < i => i > 1 /\ i - 1 \in b..n
          BY <1>1, <3>1
      <4> QED
          BY <2>1, <3>1, <4>1 DEF Begins
    <3> QED
        BY <1>1, <3>1, <3>2, <3>3
  <2>3. CASE Len(v.points) < PersistenceSamples
    <3>1. all = list
        BY <1>1, <2>1, <2>3
    <3>2. \A i, j \in 1..n : Persists(s, i, j) => j <= n - 1
        BY <1>1, <2>1, <2>2, <2>3
    <3> QED
        BY <1>1, <3>1, <3>2 DEF Lists
  <2>4. CASE Len(v.points) >= PersistenceSamples
    <3>1. /\ all = Append(list, v) /\ Len(all) = m + 1 /\ all[m + 1] = v
          /\ \A e \in 1..m : all[e] = list[e]
        BY <1>1, <2>4
    <3>2. Persists(s, b, n)
        BY <1>1, <2>1, <2>4 DEF Persists
    <3>3. ASSUME NEW e \in 1..m PROVE list[e].end < v.start
      <4>1. PICK i \in 1..n, j \in 1..n :
              j <= n - 1 /\ Persists(s, i, j) /\ MadeOf(list[e], s, i, j)
          BY DEF Lists
      <4>2. j < n /\ ~s[j + 1].curtailed
          BY <1>1, <4>1 DEF Persists
      <4>3. j < b
        <5>1. b <= j => j + 1 \in b..n
            BY <1>1, <4>2
        <5> QED
            BY <1>1, <2>1, <4>2, <5>1 DEF Begins
      <4>4. s[j].time < s[b].time
          BY <4>3 DEF Chronological
      <4> QED
          BY <2>1, <4>1, <4>4 DEF MadeOf
    <3>4. \A e \in 1..Len(all) : \E i, j \in 1..n :
            j <= n /\ Persists(s, i, j) /\ MadeOf(all[e], s, i, j)
      <4> TAKE e \in 1..Len(all)
      <4>1. CASE e = m + 1
          BY <1>1, <2>1, <3>1, <3>2, <4>1
      <4>2. CASE e # m + 1
        <5>1. e \in 1..m
            BY <1>1, <3>1, <4>2
        <5>2. PICK i \in 1..n, j \in 1..n :
                j <= n - 1 /\ Persists(s, i, j) /\ MadeOf(list[e], s, i, j)
            BY <5>1 DEF Lists
        <5> QED
            BY <1>1, <3>1, <5>1, <5>2
      <4> QED
          BY <4>1, <4>2
    <3>5. ASSUME NEW e \in 1..Len(all), NEW f \in 1..Len(all), e < f
          PROVE  all[e].end < all[f].start
      <4>1. e \in 1..m /\ (f \in 1..m \/ f = m + 1)
          BY <1>1, <3>1, <3>5
      <4> QED
          BY <3>1, <3>3, <3>5, <4>1 DEF Lists
    <3>6. ASSUME NEW i \in 1..n, NEW j \in 1..n, j <= n, Persists(s, i, j)
          PROVE  \E e \in 1..Len(all) : MadeOf(all[e], s, i, j)
      <4>1. CASE j <= n - 1
        <5>1. PICK e \in 1..m : MadeOf(list[e], s, i, j)
            BY <3>6, <4>1 DEF Lists
        <5> QED
            BY <1>1, <3>1, <5>1
      <4>2. CASE ~(j <= n - 1)
        <5>1. j > n - 1
            BY <1>1, <4>2
        <5>2. MadeOf(all[m + 1], s, i, j)
            BY <2>1, <2>2, <3>1, <3>6, <5>1
        <5> QED
            BY <1>1, <3>1, <5>2
      <4> QED
          BY <4>1, <4>2
    <3> QED
        BY <3>4, <3>5, <3>6 DEF Lists
  <2> QED
      BY <1>1, <2>1, <2>3, <2>4
<1> QED
    BY <1>2, <1>3

\* The run under way begins with the sample, or goes on with it.
LEMMA UnderWayExtended ==
    ASSUME NEW s \in Seq(Sample), NEW x \in Sample, NEW t, t = Append(s, x), x.curtailed,
           NEW v \in Interval, UnderWay(v, s)
    PROVE  UnderWay(ExtendRun(v, x.time, x.cause), t)
<1> DEFINE n == Len(s)
           w == ExtendRun(v, x.time, x.cause)
<1>1. /\ n \in Nat /\ Len(t) = n + 1 /\ t[n + 1] = x /\ t # <<>>
      /\ \A k \in 1..n : t[k] = s[k]
    BY Appended
<1>2. SUFFICES ASSUME NEW b \in 1..n + 1, Begins(t, b, n + 1), MadeOf(w, t, b, n + 1),
                      Len(w.points) = n + 1 - b + 1
               PROVE  UnderWay(w, t)
  <2>1. CASE s = <<>> \/ ~s[n].curtailed
    <3>1. v = NoRun
        BY <2>1 DEF UnderWay
    <3>2. w = [start |-> x.time, end |-> x.time, cause |-> x.cause, points |-> <<x.time>>]
        BY <3>1 DEF ExtendRun
    <3>3. Begins(t, n + 1, n + 1)
        BY <1>1, <2>1 DEF Begins
    <3>4. CauseIn(t, n + 1, n + 1) = x.cause
      <4>1. (n + 1)..(n + 1) = {n + 1}
          BY <1>1
      <4>2. CASE x.cause = "unknown"
          BY <1>1, <4>1, <4>2 DEF CauseIn
      <4>3. CASE x.cause # "unknown"
        <5>1. {k \in (n + 1)..(n + 1) : t[k].cause # "unknown"} = {n + 1}
            BY <1>1, <4>1, <4>3
        <5>2. Max({n + 1}) = n + 1
            BY <1>1, LeastIs
        <5> QED
            BY <1>1, <5>1, <5>2 DEF CauseIn
      <4> QED
          BY <4>2, <4>3
    <3>5. ToSet(w.points) = {t[k].time : k \in (n + 1)..(n + 1)} /\ Len(w.points) = 1
      <4>1. (n + 1)..(n + 1) = {n + 1}
          BY <1>1
      <4>2. w.points = <<x.time>>
          BY <3>2
      <4>3. ToSet(<<x.time>>) = {x.time}
          BY DEF ToSet
      <4> QED
          BY <1>1, <4>1, <4>2, <4>3
    <3>6. MadeOf(w, t, n + 1, n + 1)
        BY <1>1, <3>2, <3>4, <3>5 DEF MadeOf
    <3> QED
        BY <1>1, <1>2, <3>3, <3>5, <3>6
  <2>2. CASE ~(s = <<>> \/ ~s[n].curtailed)
    <3>1. PICK b \in 1..n : /\ Begins(s, b, n) /\ MadeOf(v, s, b, n)
                            /\ Len(v.points) = n - b + 1
        BY <2>2 DEF UnderWay
    <3>2. v # NoRun
        BY <1>1, <3>1, NoRunTypes
    <3>3. w = [v EXCEPT !.end = x.time, !.points = Append(v.points, x.time),
                        !.cause = IF x.cause = "unknown" THEN v.cause ELSE x.cause]
        BY <3>2 DEF ExtendRun
    <3>4. /\ w.start = v.start /\ w.end = x.time /\ w.points = Append(v.points, x.time)
          /\ w.cause = IF x.cause = "unknown" THEN v.cause ELSE x.cause
        BY <3>3 DEF Interval
    <3>5. /\ b..(n + 1) = (b..n) \cup {n + 1} /\ n \in 1..n
          /\ \A k \in b..n : t[k] = s[k]
        BY <1>1
    <3>6. Begins(t, b, n + 1)
      <4>1. b > 1 => t[b - 1] = s[b - 1]
          BY <1>1
      <4> QED
          BY <1>1, <3>1, <3>5, <4>1 DEF Begins
    <3>7. CauseIn(t, b, n + 1) = w.cause
      <4>1. CASE x.cause = "unknown"
        <5>1. {k \in b..(n + 1) : t[k].cause # "unknown"} = {k \in b..n : t[k].cause # "unknown"}
            BY <1>1, <3>5, <4>1
        <5>2. CauseIn(t, b, n + 1) = CauseIn(t, b, n)
            BY <5>1 DEF CauseIn
        <5>3. CauseIn(t, b, n) = CauseIn(s, b, n)
            BY <3>5, SamePrefix
        <5> QED
            BY <3>1, <3>4, <4>1, <5>2, <5>3 DEF MadeOf
      <4>2. CASE x.cause # "unknown"
        <5> DEFINE known == {k \in b..(n + 1) : t[k].cause # "unknown"}
        <5>1. known \in SUBSET Nat /\ n + 1 \in known /\ \A k \in known : k <= n + 1
            BY <1>1, <3>5, <4>2
        <5>2. Max(known) = n + 1
            BY <5>1, LeastIs
        <5> QED
            BY <1>1, <3>4, <4>2, <5>1, <5>2 DEF CauseIn
      <4> QED
          BY <4>1, <4>2
    <3>8. ToSet(w.points) = {t[k].time : k \in b..(n + 1)}
      <4>1. v.points \in Seq(Nat) /\ x.time \in Nat
          BY DEF Interval, Sample
      <4>2. \A p \in Seq(Nat), y \in Nat : ToSet(Append(p, y)) = ToSet(p) \cup {y}
          BY PointsAppended
      <4>3. {t[k].time : k \in b..(n + 1)} = {s[k].time : k \in b..n} \cup {x.time}
          BY <1>1, <3>5
      <4> QED
          BY <3>1, <3>4, <4>1, <4>2, <4>3 DEF MadeOf
    <3>9. Len(w.points) = n + 1 - b + 1
      <4>1. v.points \in Seq(Nat)
          BY DEF Interval
      <4>2. Len(Append(v.points, x.time)) = Len(v.points) + 1
          BY <4>1
      <4> QED
          BY <1>1, <3>1, <3>4, <4>2
    <3>10. MadeOf(w, t, b, n + 1)
        BY <1>1, <3>1, <3>4, <3>7, <3>8 DEF MadeOf
    <3>11. b \in 1..n + 1
        BY <1>1
    <3> QED
        BY <1>2, <3>6, <3>9, <3>10, <3>11
  <2> QED
      BY <2>1, <2>2
<1> QED
    BY <1>1, <1>2 DEF UnderWay

\* Samples come one after another.
LEMMA StillChronological ==
    ASSUME NEW s \in Seq(Sample), NEW x \in Sample, NEW t, t = Append(s, x),
           Chronological(s), s # <<>> => s[Len(s)].time < x.time
    PROVE  Chronological(t)
<1>1. /\ Len(s) \in Nat /\ Len(t) = Len(s) + 1 /\ t[Len(s) + 1] = x
      /\ \A k \in 1..Len(s) : t[k] = s[k]
    BY Appended
<1>2. SUFFICES ASSUME NEW i \in 1..Len(t), NEW j \in 1..Len(t), i < j
               PROVE  t[i].time < t[j].time
    BY DEF Chronological
<1>3. i \in 1..Len(s) /\ t[i] = s[i]
    BY <1>1, <1>2
<1>4. CASE j # Len(t)
  <2>1. j \in 1..Len(s) /\ t[j] = s[j]
      BY <1>1, <1>4
  <2> QED
      BY <1>2, <1>3, <2>1 DEF Chronological
<1>5. CASE j = Len(t)
  <2>1. s # <<>> /\ Len(s) \in 1..Len(s)
      BY <1>1, <1>3
  <2>2. i < Len(s) => s[i].time < s[Len(s)].time
      BY <1>3, <2>1 DEF Chronological
  <2>3. s[i] \in Sample /\ s[Len(s)] \in Sample
      BY <1>3, <2>1
  <2>4. s[i].time \in Nat /\ s[Len(s)].time \in Nat /\ x.time \in Nat
      BY <2>3 DEF Sample
  <2>5. i < Len(s) \/ i = Len(s)
      BY <1>1, <1>3
  <2>6. s[i].time < x.time
      BY <2>1, <2>2, <2>4, <2>5
  <2> QED
      BY <1>1, <1>3, <1>5, <2>6
<1> QED
    BY <1>4, <1>5

\* Before the first sample there is nothing to report.
LEMMA CurtailmentInitInv == CurtailmentInit => CurtailmentInv
<1> SUFFICES ASSUME CurtailmentInit PROVE CurtailmentInv
    OBVIOUS
<1>1. samples = <<>> /\ pending = NoRun /\ open = <<>> /\ Len(<<>>) = 0
    BY DEF CurtailmentInit
<1>2. CurtailmentTypeOK
    BY <1>1, NoRunTypes DEF CurtailmentTypeOK
<1>3. Chronological(samples) /\ UnderWay(pending, samples)
    BY <1>1 DEF Chronological, UnderWay
<1>4. Lists(open, samples, Len(samples) - 1)
    BY <1>1 DEF Lists
<1> QED
    BY <1>2, <1>3, <1>4 DEF CurtailmentInv

\* The list and the run under way stay the runs of the samples so far.
LEMMA CurtailmentNextInv ==
    CurtailmentInv /\ [CurtailmentNext]_curtailmentVars => CurtailmentInv'
<1> SUFFICES ASSUME CurtailmentInv, [CurtailmentNext]_curtailmentVars
             PROVE  CurtailmentInv'
    OBVIOUS
<1>1. CurtailmentTypeOK'
    BY CurtailmentTypesNext DEF CurtailmentInv
<1>2. CASE UNCHANGED curtailmentVars
  <2>1. samples' = samples /\ pending' = pending /\ open' = open
      BY <1>2 DEF curtailmentVars
  <2> QED
      BY <1>1, <2>1 DEF CurtailmentInv
<1>3. CASE CurtailmentNext
  <2>1. /\ samples \in Seq(Sample) /\ pending \in Interval /\ open \in Seq(Interval)
        /\ Chronological(samples) /\ UnderWay(pending, samples)
        /\ Lists(open, samples, Len(samples) - 1)
      BY DEF CurtailmentInv, CurtailmentTypeOK
  <2>2. PICK time \in Nat :
          /\ samples # <<>> => samples[Len(samples)].time < time
          /\ NotCurtailed(time) \/ \E signs \in SUBSET Signs : Curtailed(time, signs)
    <3>1. PICK gap \in Gaps :
            LET time == (IF samples = <<>> THEN 0 ELSE Last(samples).time) + gap IN
            NotCurtailed(time) \/ \E signs \in SUBSET Signs : Curtailed(time, signs)
        BY <1>3 DEF CurtailmentNext
    <3>2. ASSUME samples # <<>>
          PROVE  Last(samples) = samples[Len(samples)] /\ samples[Len(samples)].time \in Nat
      <4>1. Len(samples) \in 1..Len(samples)
          BY <2>1, <3>2
      <4>2. samples[Len(samples)] \in Sample
          BY <2>1, <4>1
      <4> QED
          BY <4>2 DEF Last, Sample
    <3>3. gap \in Nat /\ gap > 0
        BY CurtailmentAssumption
    <3>4. CASE samples = <<>>
        BY <3>1, <3>3, <3>4
    <3>5. CASE samples # <<>>
        BY <3>1, <3>2, <3>3, <3>5
    <3> QED
        BY <3>4, <3>5
  <2>3. CASE NotCurtailed(time)
    <3> DEFINE x == [time |-> time, curtailed |-> FALSE, cause |-> "unknown"]
    <3>1. x \in Sample /\ x.time = time /\ ~x.curtailed
        BY NoRunTypes DEF Sample, NoRun, Interval
    <3>2. /\ samples' = Append(samples, x) /\ open' = Flushed /\ pending' = NoRun
        BY <2>3 DEF NotCurtailed
    <3> HIDE DEF x
    <3>3. Chronological(samples')
        BY <2>1, <2>2, <3>1, <3>2, StillChronological
    <3>4. /\ samples'[Len(samples')] = x
        BY <2>1, <3>1, <3>2, Appended
    <3>5. UnderWay(pending', samples')
        BY <3>1, <3>2, <3>4 DEF UnderWay
    <3>6. Lists(Flushed, samples, Len(samples))
        BY <2>1, FlushedLists DEF Flushed
    <3>7. Lists(Flushed, samples', Len(samples') - 1)
        BY <2>1, <3>1, <3>2, <3>6, ListsNotCurtailed
    <3> QED
        BY <1>1, <3>2, <3>3, <3>5, <3>7 DEF CurtailmentInv
  <2>4. ASSUME NEW signs \in SUBSET Signs, Curtailed(time, signs)
        PROVE  CurtailmentInv'
    <3> DEFINE x == [time |-> time, curtailed |-> TRUE, cause |-> ClassifyCause(signs)]
    <3>1. x \in Sample /\ x.time = time /\ x.curtailed /\ x.cause = ClassifyCause(signs)
        BY CauseFound DEF Sample
    <3>2. /\ samples' = Append(samples, x) /\ open' = open
          /\ pending' = ExtendRun(pending, x.time, x.cause)
        BY <2>4 DEF Curtailed
    <3> HIDE DEF x
    <3>3. Chronological(samples')
        BY <2>1, <2>2, <3>1, <3>2, StillChronological
    <3>4. UnderWay(pending', samples')
        BY <2>1, <3>1, <3>2, UnderWayExtended
    <3>5. Lists(open', samples', Len(samples') - 1)
        BY <2>1, <3>1, <3>2, ListsCurtailed
    <3> QED
        BY <1>1, <3>3, <3>4, <3>5 DEF CurtailmentInv
  <2> QED
      BY <2>2, <2>3, <2>4
<1> QED
    BY <1>2, <1>3

-----------------------------------------------------------------------------
\* The second loop: there is such a function of its turns, for any list.
LEMMA MergingDefined ==
    ASSUME NEW list, Len(list) \in Nat
    PROVE  \E f : f = [n \in 0..Len(list) |->
                         IF n = 0 THEN <<>> ELSE MergeInto(f[n - 1], list[n])]
<1> DEFINE Upto(k, f) == f = [n \in 0..k |->
                                IF n = 0 THEN <<>> ELSE MergeInto(f[n - 1], list[n])]
           bad == {k \in 0..Len(list) : ~\E f : Upto(k, f)}
<1>1. CASE bad = {}
    BY <1>1
<1>2. CASE bad # {}
  <2>1. PICK m \in bad : \A k \in bad : m <= k
    <3> HIDE DEF bad
    <3>1. bad \in SUBSET (0..Len(list))
        BY DEF bad
    <3> QED
        BY <1>2, <3>1, LeastNumber
  <2>2. m # 0
    <3>1. Upto(0, [n \in 0..0 |-> <<>>])
        OBVIOUS
    <3> QED
        BY <3>1
  <2>3. m - 1 \in 0..Len(list) /\ m \in 1..Len(list) /\ m - 1 \notin bad
      BY <2>1, <2>2
  <2>4. PICK f : Upto(m - 1, f)
      BY <2>3
  <2> DEFINE g == [n \in 0..m |-> IF n = m THEN MergeInto(f[m - 1], list[m]) ELSE f[n]]
  <2>5. ASSUME NEW n \in 0..m
        PROVE  g[n] = IF n = 0 THEN <<>> ELSE MergeInto(g[n - 1], list[n])
    <3>1. CASE n = m
      <4>1. g[n - 1] = f[m - 1] /\ g[n] = MergeInto(f[m - 1], list[m])
          BY <2>3, <3>1
      <4> QED
          BY <2>2, <3>1, <4>1
    <3>2. CASE n # m
      <4>1. n \in 0..(m - 1) /\ g[n] = f[n] /\ (n # 0 => g[n - 1] = f[n - 1])
          BY <2>3, <3>2
      <4>2. f[n] = IF n = 0 THEN <<>> ELSE MergeInto(f[n - 1], list[n])
          BY <2>4, <4>1
      <4> QED
          BY <4>1, <4>2
    <3> QED
        BY <3>1, <3>2
  <2>6. Upto(m, g)
    <3>1. g = [n \in 0..m |-> g[n]]
        OBVIOUS
    <3> HIDE DEF g
    <3> QED
        BY <2>5, <3>1
  <2> QED
      BY <2>6
<1> QED
    BY <1>1, <1>2

\* The turns of the second loop, one by one.
LEMMA MergedUnfolds ==
    ASSUME Len(Flushed) \in Nat
    PROVE  /\ Merged[0] = <<>>
           /\ \A n \in 1..Len(Flushed) : Merged[n] = MergeInto(Merged[n - 1], Flushed[n])
<1>1. \E f : f = [n \in 0..Len(Flushed) |->
                    IF n = 0 THEN <<>> ELSE MergeInto(f[n - 1], Flushed[n])]
    BY MergingDefined
<1>2. Merged = [n \in 0..Len(Flushed) |->
                  IF n = 0 THEN <<>> ELSE MergeInto(Merged[n - 1], Flushed[n])]
    BY <1>1 DEF Merged
<1> HIDE DEF Merged
<1>3. 0 \in 0..Len(Flushed) /\ 1..Len(Flushed) \subseteq 0..Len(Flushed)
    OBVIOUS
<1> QED
    BY <1>2, <1>3

\* A list of intervals that follow one another.
Ordered(list) ==
    /\ \A c \in 1..Len(list) : list[c].start <= list[c].end
    /\ \A c, d \in 1..Len(list) : c < d => list[c].end < list[d].start

\* Where the next interval lies: after all that was merged, and after all events.
LEMMA NextIsLater ==
    ASSUME NEW list \in Seq(Interval), Ordered(list),
           NEW n \in Nat, n < Len(list),
           NEW events, Merges(events, list, n)
    PROVE  /\ Len(events) \in Nat /\ n + 1 \in 1..Len(list)
           /\ list[n + 1] \in Interval /\ list[n + 1].start <= list[n + 1].end
           /\ \A c \in 1..n : /\ list[c] \in Interval /\ list[c].end < list[n + 1].start
                              /\ list[c].start <= list[c].end
           /\ \A e \in 1..Len(events) : /\ events[e] \in Interval
                                        /\ events[e].start <= events[e].end
                                        /\ events[e].end < list[n + 1].start
<1>1. Len(events) \in Nat /\ Len(list) \in Nat /\ events \in Seq(Interval)
    BY DEF Merges
<1>2. n + 1 \in 1..Len(list)
    BY <1>1
<1>3. ASSUME NEW c \in 1..n
      PROVE  /\ list[c] \in Interval /\ list[c].end < list[n + 1].start
             /\ list[c].start <= list[c].end
  <2>1. c \in 1..Len(list) /\ c < n + 1
      BY <1>1
  <2> QED
      BY <1>2, <2>1 DEF Ordered
<1>4. ASSUME NEW e \in 1..Len(events)
      PROVE  /\ events[e] \in Interval /\ events[e].start <= events[e].end
             /\ events[e].end < list[n + 1].start
  <2>1. PICK c \in 1..n : events[e].end = list[c].end
      BY DEF Merges
  <2>2. events[e] \in Interval
      BY <1>1
  <2>3. events[e].start <= events[e].end
      BY DEF Merges
  <2> QED
      BY <1>3, <2>1, <2>2, <2>3
<1> QED
    BY <1>1, <1>2, <1>3, <1>4 DEF Ordered

LEMMA IntervalTypes ==
    ASSUME NEW v \in Interval
    PROVE  v.start \in Nat /\ v.end \in Nat /\ v.cause \in CauseNames /\ v.points \in Seq(Nat)
BY DEF Interval

\* The two things the second loop does with its list: add to it, and change its last.
LEMMA EventAdded ==
    ASSUME NEW events \in Seq(Interval), NEW v \in Interval
    PROVE  /\ Append(events, v) \in Seq(Interval) /\ Append(events, v) # <<>>
           /\ Len(Append(events, v)) = Len(events) + 1
           /\ Append(events, v)[Len(events) + 1] = v
           /\ \A e \in 1..Len(events) : Append(events, v)[e] = events[e]
OBVIOUS

LEMMA EventChanged ==
    ASSUME NEW events \in Seq(Interval), NEW v \in Interval, NEW k \in 1..Len(events)
    PROVE  LET new == [events EXCEPT ![k] = v] IN
           /\ new \in Seq(Interval) /\ new # <<>>
           /\ Len(new) = Len(events) /\ new[k] = v
           /\ \A e \in 1..Len(events) : e # k => new[e] = events[e]
<1> DEFINE new == [events EXCEPT ![k] = v]
<1>1. Len(events) \in Nat /\ DOMAIN events = 1..Len(events)
    OBVIOUS
<1>2. new \in [1..Len(events) -> Interval]
    BY <1>1
<1>3. new \in Seq(Interval) /\ Len(new) = Len(events)
    BY <1>1, <1>2
<1> QED
    BY <1>1, <1>3

\* The next interval becomes an event of its own.
LEMMA AppendMerges ==
    ASSUME NEW list \in Seq(Interval), Ordered(list),
           NEW n \in Nat, n < Len(list),
           NEW events, Merges(events, list, n),
           ~(events # <<>> /\ MergesWith(Last(events), list[n + 1]))
    PROVE  Merges(Append(events, list[n + 1]), list, n + 1)
<1> DEFINE v == list[n + 1]
           k == Len(events)
           new == Append(events, v)
<1>1. /\ k \in Nat /\ v \in Interval /\ v.start <= v.end
      /\ \A c \in 1..n : list[c] \in Interval /\ list[c].end < v.start /\ list[c].start <= list[c].end
      /\ \A e \in 1..k : /\ events[e] \in Interval
                         /\ events[e].start <= events[e].end /\ events[e].end < v.start
    BY NextIsLater
<1>2. events \in Seq(Interval) /\ k <= n
    BY DEF Merges
<1>3. /\ new \in Seq(Interval) /\ Len(new) = k + 1 /\ new[k + 1] = v /\ new # <<>>
      /\ \A e \in 1..k : new[e] = events[e]
    BY <1>1, <1>2, EventAdded
<1>4. ASSUME NEW e \in 1..k PROVE ~Holds(events[e], v)
  <2>1. events[e].end \in Nat /\ v.end \in Nat /\ v.start \in Nat
      BY <1>1, IntervalTypes
  <2>2. events[e].end < v.start /\ v.start <= v.end
      BY <1>1
  <2> QED
      BY <2>1, <2>2 DEF Holds
<1>5. ASSUME NEW c \in 1..n PROVE ~Holds(v, list[c])
  <2>1. list[c].end \in Nat /\ list[c].start \in Nat /\ v.start \in Nat
      BY <1>1, IntervalTypes
  <2>2. list[c].end < v.start /\ list[c].start <= list[c].end
      BY <1>1
  <2> QED
      BY <2>1, <2>2 DEF Holds
<1>6. Holds(v, v)
  <2>1. v.start \in Nat /\ v.end \in Nat
      BY <1>1, IntervalTypes
  <2> QED
      BY <2>1 DEF Holds
<1>7. 1..(n + 1) = (1..n) \cup {n + 1} /\ 1..(k + 1) = (1..k) \cup {k + 1}
    BY <1>1
<1> HIDE DEF new, v
<1>8. \A c \in 1..(n + 1) : \E e \in 1..Len(new) :
        Holds(new[e], list[c]) /\ new[e].cause = list[c].cause
  <2> TAKE c \in 1..(n + 1)
  <2>1. CASE c = n + 1
      BY <1>1, <1>3, <1>6, <2>1 DEF v
  <2>2. CASE c \in 1..n
    <3>1. PICK e \in 1..k : Holds(events[e], list[c]) /\ events[e].cause = list[c].cause
        BY <2>2 DEF Merges
    <3> QED
        BY <1>3, <1>7, <3>1
  <2> QED
      BY <1>7, <2>1, <2>2
<1>9. ASSUME NEW e \in 1..Len(new)
      PROVE  /\ new[e].start <= new[e].end
             /\ \E c \in 1..(n + 1) : Holds(new[e], list[c]) /\ new[e].start = list[c].start
             /\ \E c \in 1..(n + 1) : Holds(new[e], list[c]) /\ new[e].end = list[c].end
             /\ ToSet(new[e].points) = UNION {ToSet(list[c].points) :
                                        c \in {d \in 1..(n + 1) : Holds(new[e], list[d])}}
  <2>1. CASE e = k + 1
    <3>1. {d \in 1..(n + 1) : Holds(v, list[d])} = {n + 1}
        BY <1>5, <1>6, <1>7 DEF v
    <3> QED
        BY <1>1, <1>3, <1>6, <1>7, <2>1, <3>1 DEF v
  <2>2. CASE e \in 1..k
    <3>1. {d \in 1..(n + 1) : Holds(events[e], list[d])} = {d \in 1..n : Holds(events[e], list[d])}
        BY <1>4, <1>7, <2>2 DEF v
    <3>2. /\ events[e].start <= events[e].end
          /\ \E c \in 1..n : Holds(events[e], list[c]) /\ events[e].start = list[c].start
          /\ \E c \in 1..n : Holds(events[e], list[c]) /\ events[e].end = list[c].end
          /\ ToSet(events[e].points) =
               UNION {ToSet(list[c].points) : c \in {d \in 1..n : Holds(events[e], list[d])}}
        BY <2>2 DEF Merges
    <3>3. new[e] = events[e] /\ \A c \in 1..n : c \in 1..(n + 1)
        BY <1>3, <1>7, <2>2
    <3> HIDE DEF Holds
    <3> QED
        BY <3>1, <3>2, <3>3
  <2>3. e = k + 1 \/ e \in 1..k
      BY <1>3, <1>7
  <2> QED
      BY <2>1, <2>2, <2>3
<1>10. ASSUME NEW e \in 1..Len(new), NEW f \in 1..Len(new), e < f
       PROVE  new[e].end < new[f].start
  <2>1. k \in Nat /\ e \in 1..(k + 1) /\ f \in 1..(k + 1) /\ e < f
      BY <1>1, <1>3, <1>10
  <2>2. e \in 1..k /\ (f \in 1..k \/ f = k + 1)
      BY <2>1
  <2> QED
      BY <1>1, <1>3, <1>10, <2>2 DEF Merges
<1>11. ASSUME NEW e \in 2..Len(new), new[e - 1].cause = new[e].cause
       PROVE  new[e].start - new[e - 1].end > MergeGap
  <2>1. CASE e = k + 1
    <3>1. k \in 1..k /\ e - 1 = k /\ events # <<>>
        BY <1>1, <1>3, <1>11, <2>1
    <3>2. Last(events) = events[k]
        BY DEF Last
    <3>3. events[k].end \in Nat /\ v.start \in Nat /\ MergeGap \in Nat
        BY <1>1, <3>1, IntervalTypes, CurtailmentAssumption
    <3>4. ~(v.start - events[k].end <= MergeGap)
        BY <1>3, <1>11, <2>1, <3>1, <3>2 DEF MergesWith, v
    <3> QED
        BY <1>3, <2>1, <3>1, <3>3, <3>4
  <2>2. CASE e # k + 1
    <3>1. e \in 2..k /\ e - 1 \in 1..k /\ e \in 1..k
        BY <1>1, <1>3, <1>11, <2>2
    <3> QED
        BY <1>3, <1>11, <3>1 DEF Merges
  <2> QED
      BY <2>1, <2>2
<1>12. new[Len(new)].end = list[n + 1].end /\ new[Len(new)].cause = list[n + 1].cause
    BY <1>3 DEF v
<1>13. Len(new) <= n + 1
    BY <1>1, <1>2, <1>3
<1> QED
    BY <1>3, <1>8, <1>9, <1>10, <1>11, <1>12, <1>13 DEF Merges, new, v

\* A merged event has the points of both.
LEMMA PointsJoined ==
    ASSUME NEW p \in Seq(Nat), NEW q \in Seq(Nat)
    PROVE  p \o q \in Seq(Nat) /\ ToSet(p \o q) = ToSet(p) \cup ToSet(q)
<1>1. /\ Len(p) \in Nat /\ Len(q) \in Nat /\ p \o q \in Seq(Nat)
      /\ Len(p \o q) = Len(p) + Len(q)
      /\ \A i \in 1..Len(p) : (p \o q)[i] = p[i]
      /\ \A i \in 1..Len(q) : (p \o q)[Len(p) + i] = q[i]
    OBVIOUS
<1>2. DOMAIN p = 1..Len(p) /\ DOMAIN q = 1..Len(q) /\ DOMAIN (p \o q) = 1..(Len(p) + Len(q))
    BY <1>1
<1>3. \A i \in 1..(Len(p) + Len(q)) :
        i \in 1..Len(p) \/ (i - Len(p) \in 1..Len(q) /\ Len(p) + (i - Len(p)) = i)
    BY <1>1
<1>4. \A i \in 1..Len(p) : i \in 1..(Len(p) + Len(q))
    BY <1>1
<1>5. \A i \in 1..Len(q) : Len(p) + i \in 1..(Len(p) + Len(q))
    BY <1>1
<1>6. ASSUME NEW y \in ToSet(p \o q) PROVE y \in ToSet(p) \cup ToSet(q)
  <2>1. PICK i \in 1..(Len(p) + Len(q)) : y = (p \o q)[i]
      BY <1>2 DEF ToSet
  <2> QED
      BY <1>1, <1>2, <1>3, <2>1 DEF ToSet
<1>7. ToSet(p) \subseteq ToSet(p \o q) /\ ToSet(q) \subseteq ToSet(p \o q)
    BY <1>1, <1>2, <1>4, <1>5 DEF ToSet
<1> QED
    BY <1>1, <1>6, <1>7

\* The next interval is merged into the last event.
LEMMA JoinMerges ==
    ASSUME NEW list \in Seq(Interval), Ordered(list),
           NEW n \in Nat, n < Len(list),
           NEW events, Merges(events, list, n),
           events # <<>>, MergesWith(Last(events), list[n + 1])
    PROVE  Merges(MergeInto(events, list[n + 1]), list, n + 1)
<1> DEFINE v == list[n + 1]
           k == Len(events)
           new == MergeInto(events, v)
<1>1. /\ k \in Nat /\ v \in Interval /\ v.start <= v.end
      /\ \A c \in 1..n : list[c] \in Interval /\ list[c].end < v.start /\ list[c].start <= list[c].end
      /\ \A e \in 1..k : /\ events[e] \in Interval
                         /\ events[e].start <= events[e].end /\ events[e].end < v.start
    BY NextIsLater
<1>2. events \in Seq(Interval) /\ k <= n
    BY DEF Merges
<1>3. k \in 1..k /\ n > 0 /\ Last(events) = events[k]
    BY <1>1, <1>2 DEF Last
<1>4. events[k].cause = v.cause /\ events[k].end = list[n].end /\ events[k].cause = list[n].cause
    BY <1>3 DEF MergesWith, Merges
<1>5. /\ events[k].start \in Nat /\ events[k].end \in Nat /\ events[k].points \in Seq(Nat)
      /\ events[k].cause \in CauseNames
      /\ v.start \in Nat /\ v.end \in Nat /\ v.points \in Seq(Nat)
    BY <1>1, <1>3, IntervalTypes
<1> DEFINE joined == [start |-> events[k].start, end |-> v.end, cause |-> events[k].cause,
                      points |-> events[k].points \o v.points]
<1>6. joined \in Interval
    BY <1>5, PointsJoined DEF Interval
<1>7. new = [events EXCEPT ![k] = joined]
  <2>1. new = [events EXCEPT ![k].end = v.end, ![k].points = @ \o v.points]
      BY <1>3 DEF MergeInto
  <2>2. events[k] = [start |-> events[k].start, end |-> events[k].end,
                     cause |-> events[k].cause, points |-> events[k].points]
      BY <1>1, <1>3 DEF Interval
  <2>3. [[events[k] EXCEPT !.end = v.end] EXCEPT !.points = @ \o v.points] = joined
    <3> DEFINE a == events[k].start
               b == events[k].end
               c == events[k].cause
               p == events[k].points
               x == v.end
               q == v.points
               ended == [[start |-> a, end |-> b, cause |-> c, points |-> p] EXCEPT !.end = x]
    <3>1. ended = [start |-> a, end |-> x, cause |-> c, points |-> p]
      <4> HIDE DEF a, b, c, p, x, q
      <4> QED
          OBVIOUS
    <3>2. \A z : [[start |-> a, end |-> x, cause |-> c, points |-> p] EXCEPT !.points = z]
                   = [start |-> a, end |-> x, cause |-> c, points |-> z]
      <4> HIDE DEF a, b, c, p, x, q
      <4> QED
          OBVIOUS
    <3>3. [ended EXCEPT !.points = @ \o q] = [start |-> a, end |-> x, cause |-> c, points |-> p \o q]
      <4> HIDE DEF a, b, c, p, x, q, ended
      <4>1. ended.points = p
          BY <3>1
      <4>2. [ended EXCEPT !.points = p \o q] = [start |-> a, end |-> x, cause |-> c, points |-> p \o q]
          BY <3>1, <3>2
      <4> QED
          BY <4>1, <4>2
    <3> QED
        BY <2>2, <3>3
  <2> QED
      BY <1>2, <1>3, <2>1, <2>3
<1>8. /\ new \in Seq(Interval) /\ Len(new) = k /\ new[k] = joined /\ new # <<>>
      /\ \A e \in 1..k : e # k => new[e] = events[e]
  <2> HIDE DEF joined, new
  <2>1. LET changed == [events EXCEPT ![k] = joined] IN
        /\ changed \in Seq(Interval) /\ changed # <<>>
        /\ Len(changed) = Len(events) /\ changed[k] = joined
        /\ \A e \in 1..Len(events) : e # k => changed[e] = events[e]
      BY <1>2, <1>3, <1>6, EventChanged
  <2> QED
      BY <1>7, <2>1
<1>9. /\ joined.start = events[k].start /\ joined.end = v.end /\ joined.cause = events[k].cause
      /\ joined.points = events[k].points \o v.points
    OBVIOUS
<1> HIDE DEF new, v, joined
<1>10. 1..(n + 1) = (1..n) \cup {n + 1}
    BY <1>1
<1>11. ASSUME NEW e \in 1..k PROVE ~Holds(events[e], v)
  <2>1. events[e].end \in Nat
      BY <1>1, IntervalTypes
  <2>2. events[e].end < v.start /\ v.start <= v.end
      BY <1>1
  <2> QED
      BY <1>5, <2>1, <2>2 DEF Holds
<1>12. ASSUME NEW c \in 1..n PROVE Holds(joined, list[c]) <=> Holds(events[k], list[c])
  <2>1. c \in 1..Len(list) /\ n \in 1..Len(list) /\ Len(list) \in Nat
      BY <1>3
  <2>2. list[c].end <= list[n].end
    <3>1. c = n \/ c < n
        BY <1>3
    <3>2. /\ list[c].end \in Nat /\ list[n].end \in Nat
          /\ list[n].start \in Nat /\ list[n].start <= list[n].end
      <4>1. n \in 1..n
          BY <1>3
      <4>2. list[c] \in Interval /\ list[n] \in Interval /\ list[n].start <= list[n].end
          BY <1>1, <4>1
      <4> QED
          BY <4>2, IntervalTypes
    <3>3. c < n => list[c].end < list[n].start
        BY <2>1 DEF Ordered
    <3> QED
        BY <3>1, <3>2, <3>3
  <2>3. /\ list[c].end \in Nat /\ list[c].end < v.start /\ v.start <= v.end
        /\ list[c].start \in Nat
      BY <1>1, IntervalTypes
  <2> QED
      BY <1>4, <1>5, <1>9, <2>2, <2>3 DEF Holds
<1>13. Holds(joined, v) /\ joined.start <= joined.end
  <2>1. events[k].start <= events[k].end /\ events[k].end < v.start /\ v.start <= v.end
      BY <1>1, <1>3
  <2> QED
      BY <1>5, <1>9, <2>1 DEF Holds
<1>14. \A c \in 1..(n + 1) : \E e \in 1..Len(new) :
         Holds(new[e], list[c]) /\ new[e].cause = list[c].cause
  <2> TAKE c \in 1..(n + 1)
  <2>1. CASE c = n + 1
      BY <1>3, <1>4, <1>8, <1>9, <1>13, <2>1 DEF v
  <2>2. CASE c \in 1..n
    <3>1. PICK e \in 1..k : Holds(events[e], list[c]) /\ events[e].cause = list[c].cause
        BY <2>2 DEF Merges
    <3>2. CASE e = k
        BY <1>3, <1>8, <1>9, <1>12, <2>2, <3>1, <3>2
    <3>3. CASE e # k
        BY <1>8, <3>1, <3>3
    <3> QED
        BY <3>2, <3>3
  <2> QED
      BY <1>10, <2>1, <2>2
<1>15. ASSUME NEW e \in 1..Len(new)
       PROVE  /\ new[e].start <= new[e].end
              /\ \E c \in 1..(n + 1) : Holds(new[e], list[c]) /\ new[e].start = list[c].start
              /\ \E c \in 1..(n + 1) : Holds(new[e], list[c]) /\ new[e].end = list[c].end
              /\ ToSet(new[e].points) = UNION {ToSet(list[c].points) :
                                         c \in {d \in 1..(n + 1) : Holds(new[e], list[d])}}
  <2>1. /\ \E c \in 1..n : Holds(events[e], list[c]) /\ events[e].start = list[c].start
        /\ \E c \in 1..n : Holds(events[e], list[c]) /\ events[e].end = list[c].end
        /\ events[e].start <= events[e].end
        /\ ToSet(events[e].points) =
             UNION {ToSet(list[c].points) : c \in {d \in 1..n : Holds(events[e], list[d])}}
      BY <1>8 DEF Merges
  <2>2. CASE e = k
    <3>1. \E c \in 1..(n + 1) : Holds(new[e], list[c]) /\ new[e].start = list[c].start
        BY <1>8, <1>9, <1>10, <1>12, <2>1, <2>2
    <3>2. \E c \in 1..(n + 1) : Holds(new[e], list[c]) /\ new[e].end = list[c].end
        BY <1>8, <1>9, <1>10, <1>13, <2>2 DEF v
    <3>3. {d \in 1..(n + 1) : Holds(joined, list[d])} =
            {d \in 1..n : Holds(events[k], list[d])} \cup {n + 1}
        BY <1>10, <1>12, <1>13 DEF v
    <3>4. ToSet(joined.points) = ToSet(events[k].points) \cup ToSet(v.points)
        BY <1>5, <1>9, PointsJoined
    <3>5. ToSet(joined.points) = UNION {ToSet(list[c].points) :
                                   c \in {d \in 1..(n + 1) : Holds(joined, list[d])}}
        BY <2>1, <2>2, <3>3, <3>4 DEF v
    <3> QED
        BY <1>8, <1>13, <2>2, <3>1, <3>2, <3>5
  <2>3. CASE e # k
    <3>1. e \in 1..k /\ new[e] = events[e]
        BY <1>8, <2>3
    <3>2. {d \in 1..(n + 1) : Holds(events[e], list[d])} = {d \in 1..n : Holds(events[e], list[d])}
        BY <1>10, <1>11, <3>1 DEF v
    <3> QED
        BY <1>10, <2>1, <3>1, <3>2
  <2> QED
      BY <2>2, <2>3
<1>16. ASSUME NEW e \in 1..Len(new), NEW f \in 1..Len(new), e < f
       PROVE  new[e].end < new[f].start
  <2>1. e \in 1..k /\ f \in 1..k /\ e # k /\ new[e] = events[e]
      BY <1>1, <1>8, <1>16
  <2>2. new[f].start = events[f].start
      BY <1>8, <1>9, <2>1
  <2> QED
      BY <1>16, <2>1, <2>2 DEF Merges
<1>17. ASSUME NEW e \in 2..Len(new), new[e - 1].cause = new[e].cause
       PROVE  new[e].start - new[e - 1].end > MergeGap
  <2>1. e \in 2..k /\ e \in 1..k /\ e - 1 \in 1..k /\ e - 1 # k
      BY <1>1, <1>8
  <2>2. new[e - 1] = events[e - 1] /\ new[e].start = events[e].start /\ new[e].cause = events[e].cause
      BY <1>8, <1>9, <2>1
  <2> QED
      BY <1>17, <2>1, <2>2 DEF Merges
<1>18. new[Len(new)].end = list[n + 1].end /\ new[Len(new)].cause = list[n + 1].cause
    BY <1>4, <1>8, <1>9 DEF v
<1>19. Len(new) <= n + 1
    BY <1>1, <1>2, <1>8
<1> QED
    BY <1>8, <1>14, <1>15, <1>16, <1>17, <1>18, <1>19 DEF Merges, new, v

\* All turns of the second loop.
LEMMA AllMerged ==
    ASSUME Flushed \in Seq(Interval), Ordered(Flushed)
    PROVE  Merges(Detected, Flushed, Len(Flushed))
<1> DEFINE bad == {n \in 0..Len(Flushed) : ~Merges(Merged[n], Flushed, n)}
<1>1. Len(Flushed) \in Nat
    OBVIOUS
<1>2. CASE bad = {}
    BY <1>1, <1>2 DEF Detected
<1>3. CASE bad # {}
  <2>1. PICK m \in bad : \A k \in bad : m <= k
    <3> HIDE DEF bad
    <3>1. bad \in SUBSET (0..Len(Flushed))
        BY DEF bad
    <3> QED
        BY <1>1, <1>3, <3>1, LeastNumber
  <2>2. Merges(Merged[0], Flushed, 0)
    <3>1. Merged[0] = <<>> /\ Len(<<>>) = 0 /\ <<>> \in Seq(Interval)
        BY <1>1, MergedUnfolds
    <3> QED
        BY <3>1 DEF Merges
  <2>3. m # 0 /\ m - 1 \in Nat /\ m - 1 < Len(Flushed) /\ m \in 1..Len(Flushed)
      BY <1>1, <2>1, <2>2
  <2>4. Merges(Merged[m - 1], Flushed, m - 1)
    <3>1. m - 1 \notin bad /\ m - 1 \in 0..Len(Flushed)
        BY <1>1, <2>1, <2>3
    <3> QED
        BY <3>1
  <2> DEFINE events == Merged[m - 1]
             n == m - 1
  <2>5. Merged[m] = MergeInto(events, Flushed[m]) /\ n + 1 = m
      BY <1>1, <2>3, MergedUnfolds
  <2> HIDE DEF events, n
  <2>6. n \in Nat /\ n < Len(Flushed) /\ Merges(events, Flushed, n)
      BY <2>3, <2>4 DEF events, n
  <2>7. Merges(MergeInto(events, Flushed[n + 1]), Flushed, n + 1)
    <3>1. CASE events # <<>> /\ MergesWith(Last(events), Flushed[n + 1])
        BY <2>6, <3>1, JoinMerges
    <3>2. CASE ~(events # <<>> /\ MergesWith(Last(events), Flushed[n + 1]))
      <4>1. Merges(Append(events, Flushed[n + 1]), Flushed, n + 1)
          BY <2>6, <3>2, AppendMerges
      <4> QED
          BY <3>2, <4>1 DEF MergeInto
    <3> QED
        BY <3>1, <3>2
  <2> QED
      BY <2>1, <2>5, <2>7
<1> QED
    BY <1>2, <1>3

\* Every run that persists is an interval of the list, and the reverse.
LEMMA RunsListed ==
    ASSUME CurtailmentInv
    PROVE  /\ Flushed \in Seq(Interval) /\ Ordered(Flushed)
           /\ \A r \in Runs :
                /\ r[1] \in 1..Len(samples) /\ r[2] \in 1..Len(samples) /\ r[1] <= r[2]
                /\ RunCause(r) = CauseIn(samples, r[1], r[2])
                /\ \E c \in 1..Len(Flushed) : MadeOf(Flushed[c], samples, r[1], r[2])
           /\ \A c \in 1..Len(Flushed) : \E r \in Runs :
                MadeOf(Flushed[c], samples, r[1], r[2])
           /\ \A k \in 1..Len(samples) : samples[k].time \in Nat
<1>1. /\ samples \in Seq(Sample) /\ pending \in Interval /\ open \in Seq(Interval)
      /\ Chronological(samples) /\ UnderWay(pending, samples)
      /\ Lists(open, samples, Len(samples) - 1)
    BY DEF CurtailmentInv, CurtailmentTypeOK
<1>2. Flushed \in Seq(Interval)
    BY <1>1, EventAdded DEF Flushed
<1>3. Lists(Flushed, samples, Len(samples))
    BY <1>1, FlushedLists DEF Flushed
<1>4. Len(samples) \in Nat /\ \A k \in 1..Len(samples) : samples[k].time \in Nat
  <2>1. \A k \in 1..Len(samples) : samples[k] \in Sample
      BY <1>1
  <2> QED
      BY <1>1, <2>1 DEF Sample
<1>5. Ordered(Flushed)
  <2>1. ASSUME NEW c \in 1..Len(Flushed) PROVE Flushed[c].start <= Flushed[c].end
    <3>1. PICK i \in 1..Len(samples), j \in 1..Len(samples) :
            Persists(samples, i, j) /\ MadeOf(Flushed[c], samples, i, j)
        BY <1>3 DEF Lists
    <3>2. i = j \/ i < j
        BY <1>4, <3>1 DEF Persists
    <3>3. i < j => samples[i].time < samples[j].time
        BY <1>1 DEF Chronological
    <3>4. samples[i].time \in Nat /\ samples[j].time \in Nat
        BY <1>4
    <3> QED
        BY <3>1, <3>2, <3>3, <3>4 DEF MadeOf
  <2> QED
      BY <1>3, <2>1 DEF Lists, Ordered
<1>6. ASSUME NEW r \in Runs
      PROVE  /\ r[1] \in 1..Len(samples) /\ r[2] \in 1..Len(samples) /\ r[1] <= r[2]
             /\ RunCause(r) = CauseIn(samples, r[1], r[2])
             /\ \E c \in 1..Len(Flushed) : MadeOf(Flushed[c], samples, r[1], r[2])
  <2>1. r[1] \in 1..Len(samples) /\ r[2] \in 1..Len(samples) /\ r[1] <= r[2] /\ Run(r[1], r[2])
      BY DEF Runs
  <2>2. Persists(samples, r[1], r[2])
      BY <2>1 DEF Run, Persists, Begins
  <2>3. r[2] <= Len(samples)
      BY <1>4, <2>1
  <2> QED
      BY <1>3, <2>1, <2>2, <2>3 DEF Lists, RunCause, CauseIn
<1>7. ASSUME NEW c \in 1..Len(Flushed)
      PROVE  \E r \in Runs : MadeOf(Flushed[c], samples, r[1], r[2])
  <2>1. PICK i \in 1..Len(samples), j \in 1..Len(samples) :
          Persists(samples, i, j) /\ MadeOf(Flushed[c], samples, i, j)
      BY <1>3 DEF Lists
  <2>2. <<i, j>> \in Runs
      BY <2>1 DEF Runs, Run, Persists, Begins
  <2> QED
      BY <2>1, <2>2
<1> QED
    BY <1>2, <1>4, <1>5, <1>6, <1>7

\* With the lists as they are, the events are what the definition asks for.
LEMMA EventsFollow ==
    CurtailmentInv => EventsAreTheRuns
<1> SUFFICES ASSUME CurtailmentInv PROVE EventsAreTheRuns
    OBVIOUS
<1> DEFINE events == Detected
           list == Flushed
           n == Len(Flushed)
<1>1. /\ list \in Seq(Interval) /\ Ordered(list)
      /\ \A r \in Runs :
           /\ r[1] \in 1..Len(samples) /\ r[2] \in 1..Len(samples) /\ r[1] <= r[2]
           /\ RunCause(r) = CauseIn(samples, r[1], r[2])
           /\ \E c \in 1..n : MadeOf(list[c], samples, r[1], r[2])
      /\ \A c \in 1..n : \E r \in Runs : MadeOf(list[c], samples, r[1], r[2])
      /\ \A k \in 1..Len(samples) : samples[k].time \in Nat
    BY RunsListed
<1>2. Merges(events, list, n)
    BY <1>1, AllMerged
<1>3. n \in Nat /\ n = Len(list)
    BY <1>1
<1> HIDE DEF events, list, n
<1>4. events \in Seq(Interval) /\ Len(events) \in Nat
    BY <1>2 DEF Merges
<1>5. \A e \in 1..Len(events) :
        events[e].start \in Nat /\ events[e].end \in Nat /\ events[e].points \in Seq(Nat)
    BY <1>4, IntervalTypes
<1>6. \A c \in 1..n : /\ list[c].start \in Nat /\ list[c].end \in Nat
                      /\ list[c].start <= list[c].end
    BY <1>1, <1>3, IntervalTypes DEF Ordered
<1>7. ASSUME NEW r \in Runs, NEW c \in 1..n, MadeOf(list[c], samples, r[1], r[2]),
             NEW e \in 1..Len(events)
      PROVE  Within(r, events[e]) <=> Holds(events[e], list[c])
    BY <1>7 DEF Within, Holds, MadeOf
<1>8. ASSUME NEW r \in Runs
      PROVE  \E e \in 1..Len(events) :
               /\ Within(r, events[e]) /\ events[e].cause = RunCause(r)
               /\ \A f \in 1..Len(events) : Within(r, events[f]) => f = e
  <2>1. PICK c \in 1..n : MadeOf(list[c], samples, r[1], r[2])
      BY <1>1
  <2>2. PICK e \in 1..Len(events) : Holds(events[e], list[c]) /\ events[e].cause = list[c].cause
      BY <1>2 DEF Merges
  <2>3. list[c].cause = RunCause(r)
      BY <1>1, <2>1 DEF MadeOf
  <2>4. Within(r, events[e])
      BY <1>7, <2>1, <2>2
  <2>5. ASSUME NEW f \in 1..Len(events), Within(r, events[f]) PROVE f = e
    <3>1. Holds(events[f], list[c])
        BY <1>7, <2>1, <2>5
    <3>2. /\ events[f].start \in Nat /\ events[f].end \in Nat
          /\ events[e].start \in Nat /\ events[e].end \in Nat
          /\ list[c].start \in Nat /\ list[c].end \in Nat /\ list[c].start <= list[c].end
        BY <1>5, <1>6
    <3>3. ~(events[f].end < events[e].start) /\ ~(events[e].end < events[f].start)
        BY <2>2, <3>1, <3>2 DEF Holds
    <3>4. ~(f < e) /\ ~(e < f)
        BY <1>2, <3>3 DEF Merges
    <3> QED
        BY <3>4
  <2> QED
      BY <2>2, <2>3, <2>4, <2>5
<1>9. ASSUME NEW e \in 1..Len(events)
      PROVE  LET own == {r \in Runs : Within(r, events[e])} IN
             /\ own # {}
             /\ events[e].start = Min({samples[r[1]].time : r \in own})
             /\ events[e].end = Max({samples[r[2]].time : r \in own})
             /\ ToSet(events[e].points) =
                  UNION {{samples[k].time : k \in r[1]..r[2]} : r \in own}
  <2> DEFINE own == {r \in Runs : Within(r, events[e])}
             starts == {samples[r[1]].time : r \in own}
             ends == {samples[r[2]].time : r \in own}
  <2>1. PICK c \in 1..n : Holds(events[e], list[c]) /\ events[e].start = list[c].start
      BY <1>2 DEF Merges
  <2>2. PICK r \in Runs : MadeOf(list[c], samples, r[1], r[2])
      BY <1>1
  <2>3. r \in own /\ events[e].start = samples[r[1]].time
      BY <1>7, <2>1, <2>2 DEF MadeOf
  <2>4. PICK d \in 1..n : Holds(events[e], list[d]) /\ events[e].end = list[d].end
      BY <1>2 DEF Merges
  <2>5. PICK q \in Runs : MadeOf(list[d], samples, q[1], q[2])
      BY <1>1
  <2>6. q \in own /\ events[e].end = samples[q[2]].time
      BY <1>7, <2>4, <2>5 DEF MadeOf
  <2>7. starts \in SUBSET Nat /\ ends \in SUBSET Nat
      BY <1>1
  <2>8. /\ events[e].start \in starts /\ \A y \in starts : events[e].start <= y
        /\ events[e].end \in ends /\ \A y \in ends : y <= events[e].end
      BY <2>3, <2>6 DEF Within
  <2>9. events[e].start = Min(starts) /\ events[e].end = Max(ends)
    <3> HIDE DEF starts, ends
    <3> QED
        BY <2>7, <2>8, LeastIs
  <2>10. ToSet(events[e].points) =
           UNION {ToSet(list[i].points) : i \in {j \in 1..n : Holds(events[e], list[j])}}
      BY <1>2 DEF Merges
  <2>11. ASSUME NEW y \in ToSet(events[e].points)
         PROVE  \E p \in own : y \in {samples[k].time : k \in p[1]..p[2]}
    <3>1. PICK i \in 1..n : Holds(events[e], list[i]) /\ y \in ToSet(list[i].points)
        BY <2>10
    <3>2. PICK p \in Runs : MadeOf(list[i], samples, p[1], p[2])
        BY <1>1
    <3> QED
        BY <1>7, <3>1, <3>2 DEF MadeOf
  <2>12. ASSUME NEW p \in own
         PROVE  {samples[k].time : k \in p[1]..p[2]} \subseteq ToSet(events[e].points)
    <3>1. p \in Runs /\ Within(p, events[e])
        OBVIOUS
    <3>2. PICK i \in 1..n : MadeOf(list[i], samples, p[1], p[2])
        BY <1>1, <3>1
    <3>3. Holds(events[e], list[i])
        BY <1>7, <3>1, <3>2
    <3>4. ToSet(list[i].points) \subseteq ToSet(events[e].points)
        BY <2>10, <3>3
    <3> QED
        BY <3>2, <3>4 DEF MadeOf
  <2>13. ToSet(events[e].points) = UNION {{samples[k].time : k \in p[1]..p[2]} : p \in own}
    <3> HIDE DEF own
    <3> QED
        BY <2>11, <2>12
  <2> QED
      BY <2>3, <2>9, <2>13
<1>10. ASSUME NEW e \in 1..Len(events), e > 1
       PROVE  /\ events[e - 1].end < events[e].start
              /\ events[e - 1].cause = events[e].cause
                   => events[e].start - events[e - 1].end > MergeGap
  <2>1. e \in 2..Len(events) /\ e - 1 \in 1..Len(events) /\ e - 1 < e
      BY <1>4, <1>10
  <2> QED
      BY <1>2, <2>1 DEF Merges
<1> QED
    BY <1>8, <1>9, <1>10 DEF EventsAreTheRuns, events

\* The first loop, over the samples (engine.ts:190-257): what it has reported and
\* the run under way are, at every turn, the runs of the samples so far.
THEOREM CurtailmentInvariant == CurtailmentSpec => []CurtailmentInv
<1>1. CurtailmentInit => CurtailmentInv
    BY CurtailmentInitInv
<1>2. CurtailmentInv /\ [CurtailmentNext]_curtailmentVars => CurtailmentInv'
    BY CurtailmentNextInv
<1> QED
    BY <1>1, <1>2, PTL DEF CurtailmentSpec

\* For every series of samples, however long, every number of samples a run must
\* persist for and every merge gap: the events reported are the persistent runs
\* (engine.ts:166-281).
THEOREM EventsAreRuns == CurtailmentSpec => []EventsAreTheRuns
<1>1. CurtailmentInv => EventsAreTheRuns
    BY EventsFollow
<1> QED
    BY <1>1, CurtailmentInvariant, PTL

-----------------------------------------------------------------------------
(* The components side by side.                                            *)

\* The incidents and the operators' decisions.
LogSpec ==
    /\ IncidentInit /\ decisions = 0
    /\ [][\/ IncidentNext /\ UNCHANGED decisions
          \/ Decide /\ UNCHANGED incidentVars]_logVars

LogTypeOK == IncidentTypeOK /\ decisions \in Nat

LEMMA LogInitTypes == IncidentInit /\ decisions = 0 => LogTypeOK
BY DEF IncidentInit, LogTypeOK, IncidentTypeOK

LEMMA LogNextTypes ==
    ASSUME LogTypeOK,
           [\/ IncidentNext /\ UNCHANGED decisions
            \/ Decide /\ UNCHANGED incidentVars]_logVars
    PROVE  LogTypeOK'
<1>1. /\ incidents \in Seq(Nat) /\ incidentId \in 0..Len(incidents) /\ decisions \in Nat
      /\ Len(incidents) \in Nat
    BY DEF LogTypeOK, IncidentTypeOK
<1>2. ASSUME NEW listed \in BOOLEAN, CreateIncident(listed), UNCHANGED decisions
      PROVE  LogTypeOK'
  <2>1. incidents' \in Seq(Nat) /\ Len(incidents') = Len(incidents) + 1
      BY <1>1, <1>2 DEF CreateIncident
  <2>2. incidentId' \in 0..Len(incidents')
      BY <1>1, <1>2, <2>1 DEF CreateIncident
  <2> QED
      BY <1>1, <1>2, <2>1, <2>2 DEF LogTypeOK, IncidentTypeOK
<1>3. ASSUME NEW i \in 1..Len(incidents), AppendTimeline(i), UNCHANGED decisions
      PROVE  LogTypeOK'
  <2>1. incidents' = [incidents EXCEPT ![i] = incidents[i] + 1] /\ incidentId' = incidentId
      BY <1>3 DEF AppendTimeline
  <2>2. incidents[i] + 1 \in Nat
      BY <1>1
  <2>3. incidents' \in Seq(Nat) /\ Len(incidents') = Len(incidents)
      BY <1>1, <2>1, <2>2
  <2> QED
      BY <1>1, <1>3, <2>1, <2>3 DEF LogTypeOK, IncidentTypeOK
<1>4. CASE Decide /\ UNCHANGED incidentVars
    BY <1>1, <1>4 DEF Decide, incidentVars, LogTypeOK, IncidentTypeOK
<1>5. CASE UNCHANGED logVars
    BY <1>1, <1>5 DEF logVars, LogTypeOK, IncidentTypeOK
<1> QED
    BY <1>2, <1>3, <1>4, <1>5 DEF IncidentNext

\* Each component begins as its own specification does ...
LEMMA InitsAreTheirs ==
    Init => /\ AlarmInit /\ IncidentInit /\ decisions = 0 /\ CaseInit /\ OrderInit
            /\ KeyInit /\ ConfigInit /\ SessionInit /\ QuotaInit /\ InviteInit /\ NodeInit
            /\ ForecastInit /\ SafetyInit /\ CurtailmentInit /\ RemoteInit /\ FirmwareInit
            /\ focus \in Foci
BY DEF Init, RecordsInit

\* ... and a step of the whole is a step of it, or leaves it alone.
LEMMA StepsAreTheirs ==
    ASSUME focus \in Foci, [Next]_vars
    PROVE  /\ focus' \in Foci
           /\ [AlarmNext]_alarmVars
           /\ [\/ IncidentNext /\ UNCHANGED decisions
               \/ Decide /\ UNCHANGED incidentVars]_logVars
           /\ [CaseNext]_caseVars /\ [OrderNext]_orderVars
           /\ [KeyNext]_keyVars /\ [ConfigNext]_configVars
           /\ [SessionNext]_sessionVars
           /\ [QuotaNext]_quotaVars /\ [InviteNext]_inviteVars
           /\ [NodeNext]_nodeVars
           /\ [ForecastNext]_forecastVars
           /\ [SafetyNext]_safetyVars
           /\ [CurtailmentNext]_curtailmentVars
           /\ [RemoteNext]_remoteVars
           /\ [FirmwareNext]_firmwareVars
<1>1. CASE UNCHANGED vars
  <2>1. /\ focus' = focus
        /\ UNCHANGED alarmVars /\ UNCHANGED logVars
        /\ UNCHANGED caseVars /\ UNCHANGED orderVars
        /\ UNCHANGED keyVars /\ UNCHANGED configVars
        /\ UNCHANGED sessionVars
        /\ UNCHANGED quotaVars /\ UNCHANGED inviteVars
        /\ UNCHANGED nodeVars /\ UNCHANGED forecastVars /\ UNCHANGED safetyVars
        /\ UNCHANGED curtailmentVars /\ UNCHANGED remoteVars /\ UNCHANGED firmwareVars
      BY <1>1 DEF vars
  <2> QED
      BY <2>1
<1>2. CASE Next
    BY <1>2 DEF Next, Others, Foci
<1> QED
    BY <1>1, <1>2

\* Side by side, each component behaves as its own specification says.
THEOREM ComponentsBehave ==
    Spec => /\ AlarmSpec /\ LogSpec /\ CaseSpec /\ OrderSpec /\ KeySpec /\ ConfigSpec
            /\ SessionSpec /\ QuotaSpec /\ InviteSpec /\ NodeSpec /\ ForecastSpec
            /\ SafetySpec /\ CurtailmentSpec /\ RemoteSpec /\ FirmwareSpec
            /\ [](focus \in Foci)
<1>1. Init => /\ AlarmInit /\ IncidentInit /\ decisions = 0 /\ CaseInit /\ OrderInit
              /\ KeyInit /\ ConfigInit /\ SessionInit /\ QuotaInit /\ InviteInit /\ NodeInit
              /\ ForecastInit /\ SafetyInit /\ CurtailmentInit /\ RemoteInit /\ FirmwareInit
              /\ focus \in Foci
    BY InitsAreTheirs
<1>2. focus \in Foci /\ [Next]_vars
        => /\ (focus \in Foci)'
           /\ [AlarmNext]_alarmVars
           /\ [\/ IncidentNext /\ UNCHANGED decisions
               \/ Decide /\ UNCHANGED incidentVars]_logVars
           /\ [CaseNext]_caseVars /\ [OrderNext]_orderVars
           /\ [KeyNext]_keyVars /\ [ConfigNext]_configVars
           /\ [SessionNext]_sessionVars
           /\ [QuotaNext]_quotaVars /\ [InviteNext]_inviteVars
           /\ [NodeNext]_nodeVars
           /\ [ForecastNext]_forecastVars
           /\ [SafetyNext]_safetyVars
           /\ [CurtailmentNext]_curtailmentVars
           /\ [RemoteNext]_remoteVars
           /\ [FirmwareNext]_firmwareVars
    BY StepsAreTheirs
<1>3. Spec => Init /\ [][Next]_vars
    BY PTL DEF Spec
<1> QED
    BY <1>1, <1>2, <1>3, PTL
    DEF AlarmSpec, LogSpec, CaseSpec, OrderSpec, KeySpec, ConfigSpec, SessionSpec, QuotaSpec,
        InviteSpec, NodeSpec, ForecastSpec, SafetySpec, CurtailmentSpec, RemoteSpec, FirmwareSpec

\* Incidents and decisions keep their types; an alarm is listed by an incident that
\* exists (alarm.service.ts: createIncident).
THEOREM LogTyped == LogSpec => []LogTypeOK
<1>1. IncidentInit /\ decisions = 0 => LogTypeOK
    BY LogInitTypes
<1>2. LogTypeOK /\ [\/ IncidentNext /\ UNCHANGED decisions
                    \/ Decide /\ UNCHANGED incidentVars]_logVars => LogTypeOK'
    BY LogNextTypes
<1> QED
    BY <1>1, <1>2, PTL DEF LogSpec

\* All that the components keep, and the calls at work on it, keep their types.
THEOREM ComponentsTyped == Spec => []TypeOK
<1>1. ASSUME AlarmTypeOK, LogTypeOK, CaseTypeOK, OrderTypeOK, ProvisioningTypeOK,
             SessionsTypeOK, AccountsTypeOK, NodeTypeOK, ForecastTypeOK, SafetyInv,
             CurtailmentInv, RemoteTypeOK, FirmwareInv, focus \in Foci
      PROVE  TypeOK
  <2>1. RecordsTypeOK /\ IncidentTypeOK
      BY <1>1 DEF CaseTypeOK, OrderTypeOK, LogTypeOK, RecordsTypeOK
  <2>2. SafetyTypeOK /\ CurtailmentTypeOK /\ FirmwareTypeOK
      BY <1>1 DEF SafetyInv, CurtailmentInv, FirmwareInv
  <2> QED
      BY <1>1, <2>1, <2>2 DEF TypeOK
<1>2. Spec => [](CaseTypeOK /\ OrderTypeOK /\ ProvisioningTypeOK)
    BY ComponentsBehave, RecordsTyped, PTL
<1>3. Spec => []AccountsTypeOK
    BY ComponentsBehave, AccountsTyped, PTL
<1>4. Spec => [](RemoteTypeOK /\ RemoteInductive)
    BY ComponentsBehave, RemoteInvariant, PTL
<1> QED
    BY <1>1, <1>2, <1>3, <1>4, ComponentsBehave, AlarmTypesKept, LogTyped, SessionsTyped, NodeTyped,
       ForecastsTyped, SafetyInvariant, CurtailmentInvariant, FirmwareInvariant, PTL

\* The invariants of the components hold of the whole.
THEOREM ComponentsSafe ==
    Spec => [](/\ EscalationsAndNotesKept /\ CaseHistoryComplete
               /\ OneActiveKey /\ OneConfigServed
               /\ SuspendedSignedOut /\ AccountsWithinLimits
               /\ ClosedIffFewFailures /\ ClearedCachesFresh
               /\ EventsAreTheRuns /\ NotBelowWatermark /\ QuietDeviceNotReset)
BY ComponentsBehave, AlarmUpdatesKept, CaseHistoriesKept, NodeHasOneActiveKey, LatestConfigServed,
   SuspensionSignsOut, AccountsLimited, CircuitsFollowFailures, ClearingCachesClears,
   EventsAreRuns, RestingDeviceNotBelowWatermark, QuietDevicesRun, PTL

\* And what a step of a component may never do, no step of the whole does.
THEOREM ComponentsMove ==
    Spec => /\ ReactivatedOnlyFromCleared /\ SettledOrdersStay /\ KeysOnlyAdvance
            /\ SessionDroppedOnlyByRace /\ MonitorKeepsMaintenance
            /\ MovesWithinLimits /\ ReportsHold /\ OldVersionsStayOut
<1>1. Spec => ReactivatedOnlyFromCleared
    BY ComponentsBehave, AlarmReopenedNotReactivated
<1>2. Spec => SettledOrdersStay
    BY ComponentsBehave, SettledOrdersKept
<1>3. Spec => KeysOnlyAdvance
    BY ComponentsBehave, RetiredKeysStayRetired
<1>4. Spec => SessionDroppedOnlyByRace
    BY ComponentsBehave, LiveSessionsDroppedByRaceOnly
<1>5. Spec => MonitorKeepsMaintenance
    BY ComponentsBehave, MaintenanceKept
<1>6. Spec => MovesWithinLimits
    BY ComponentsBehave, DeviceMovesWithinLimits
<1>7. Spec => ReportsHold
    BY ComponentsBehave, ReportsAreTrue
<1>8. Spec => OldVersionsStayOut
    BY ComponentsBehave, DeviceAppliesOnlyNewer
<1> QED
    BY <1>1, <1>2, <1>3, <1>4, <1>5, <1>6, <1>7, <1>8
=============================================================================
