-------------------------- MODULE ForecastService --------------------------
(***************************************************************************)
(* The forecast of one site: forecast.service.ts, with the circuit breaker *)
(* of each provider (circuitBreaker.ts) and the two caches, one in memory  *)
(* and one in Redis.                                                       *)
(*                                                                         *)
(* What a forecast says, and from which providers it has it, is left out:  *)
(* a good answer, an empty one and the synthetic forecast are cached       *)
(* alike.  Time is whether openMs has passed since a circuit opened, and   *)
(* entries that expire.  An answer "rate limit reached" is a failure like  *)
(* any other.  Redis may be out of reach until the first connection, or    *)
(* for ever: it is down, there is none, or another part of the process has *)
(* connected the client they share, which refuses to be connected twice.   *)
(***************************************************************************)
EXTENDS ServiceCalls

CONSTANTS NumProviders,         \* configured providers, asked in this order
          FailureThreshold      \* FORECAST_CIRCUIT_FAILURE_THRESHOLD

ASSUME ForecastAssumption ==
    /\ NumProviders \in Nat \ {0}
    /\ FailureThreshold \in Nat \ {0}

Providers == 1..NumProviders

VARIABLES
    breaker,        \* [Providers -> metrics of its CircuitBreaker]
    forecasts,      \* [Calls -> getHybridForecast in progress]
    memory, redis,  \* the two caches' entries for the site: at most one forecast
    connected,      \* redisConnected.value: set once, and never reset
    clearing,       \* stage of clearForecastCache
    uncleared       \* history: since the last clear began, a call has put an older
                    \* forecast into a cache

forecastVars == <<breaker, forecasts, memory, redis, connected, clearing, uncleared>>

\* History: whether a forecast was made before the last clear began.
Forecast == {"new", "old"}

Breaker == [state : {"closed", "open", "half-open"}, failures : Nat, cooled : BOOLEAN]

\* provider: the one to ask next, or asked; past the last one, the result is
\* written.  overtaken: a clear has begun since the call missed.
ForecastCall == [stage : {"idle", "next", "asked", "redis"}, provider : Nat, overtaken : BOOLEAN]
ForecastIdle == [stage |-> "idle", provider |-> 0, overtaken |-> FALSE]

\* An earlier process of the backend has left a forecast in Redis.
ForecastInit ==
    /\ breaker = [p \in Providers |-> [state |-> "closed", failures |-> 0, cooled |-> FALSE]]
    /\ forecasts = [c \in Calls |-> ForecastIdle]
    /\ memory = {}
    /\ redis = {"new"}
    /\ connected = FALSE
    /\ clearing = "idle"
    /\ uncleared = FALSE

-----------------------------------------------------------------------------
(* getHybridForecast                                                       *)

\* connected' is the answer: the connection is there, or it is made, or not.
EnsureRedisConnection == connected' \in {TRUE, connected}

\* readCache: an entry in memory is the answer.
HitMemory == memory # {} /\ UNCHANGED forecastVars

\* ... one in Redis is, too, and goes back to memory for a whole period.
HitRedis ==
    /\ memory = {}
    /\ connected' = TRUE
    /\ redis # {}
    /\ memory' = redis
    /\ uncleared' = (uncleared \/ "old" \in redis)
    /\ UNCHANGED <<breaker, forecasts, redis, clearing>>

\* Reading it fails, and the call with it.
ReadFails ==
    /\ memory = {}
    /\ connected' = TRUE
    /\ UNCHANGED <<breaker, forecasts, memory, redis, clearing, uncleared>>

\* Redis has nothing or is out of reach.
Miss(c) ==
    /\ forecasts[c] = ForecastIdle
    /\ memory = {}
    /\ EnsureRedisConnection
    /\ connected' => redis = {}
    /\ forecasts' = [forecasts EXCEPT ![c] = [ForecastIdle EXCEPT !.stage = "next", !.provider = 1]]
    /\ UNCHANGED <<breaker, memory, redis, clearing, uncleared>>

Skip(c) == forecasts' = [forecasts EXCEPT ![c].provider = @ + 1]
Ask(c) == forecasts' = [forecasts EXCEPT ![c].stage = "asked"]

\* callWithBreaker and canExecute: once a circuit is half open, everybody is let
\* through until the first answer.
TryProvider(c) ==
    LET p == forecasts[c].provider IN
    /\ forecasts[c].stage = "next"
    /\ p \in Providers
    /\ \/ /\ breaker[p].state # "open"
          /\ Ask(c)
          /\ UNCHANGED breaker
       \/ /\ breaker[p].state = "open" /\ breaker[p].cooled
          /\ Ask(c)
          /\ breaker' = [breaker EXCEPT ![p].state = "half-open"]
       \/ /\ breaker[p].state = "open" /\ ~breaker[p].cooled
          /\ Skip(c)
          /\ UNCHANGED breaker
    /\ UNCHANGED <<memory, redis, connected, clearing, uncleared>>

\* Mutant: a success closes the circuit and keeps the count.
SuccessKeepingCount(b) == [b EXCEPT !.state = "closed"]

\* onSuccess, from whatever state: a late answer closes an open circuit.
OnSuccess(b) == [state |-> "closed", failures |-> 0, cooled |-> FALSE]

\* Mutant: a failed probe does not open the circuit again.
FailureCounting(b) ==
    IF b.failures + 1 = FailureThreshold
    THEN [state |-> "open", failures |-> b.failures + 1, cooled |-> FALSE]
    ELSE [b EXCEPT !.failures = IF @ < FailureThreshold THEN @ + 1 ELSE @]

\* onFailure: a failure that arrives late opens the circuit anew, and the
\* waiting time begins again.  (Beyond the threshold the count is not kept.)
OnFailure(b) ==
    IF b.failures + 1 >= FailureThreshold \/ b.state = "half-open"
    THEN [state |-> "open", cooled |-> FALSE,
          failures |-> IF b.failures < FailureThreshold THEN b.failures + 1 ELSE b.failures]
    ELSE [b EXCEPT !.failures = @ + 1]

\* The provider answers, with or without something to use.
Answered(c) ==
    LET p == forecasts[c].provider IN
    /\ forecasts[c].stage = "asked"
    /\ breaker' = [breaker EXCEPT ![p] = OnSuccess(@)]
    /\ forecasts' = [forecasts EXCEPT ![c] = [@ EXCEPT !.stage = "next", !.provider = p + 1]]
    /\ UNCHANGED <<memory, redis, connected, clearing, uncleared>>

\* An error, a status of 4xx or 5xx, or no answer in time.
Failed(c) ==
    LET p == forecasts[c].provider IN
    /\ forecasts[c].stage = "asked"
    /\ breaker' = [breaker EXCEPT ![p] = OnFailure(@)]
    /\ forecasts' = [forecasts EXCEPT ![c] = [@ EXCEPT !.stage = "next", !.provider = p + 1]]
    /\ UNCHANGED <<memory, redis, connected, clearing, uncleared>>

Result(c) == IF forecasts[c].overtaken THEN "old" ELSE "new"

\* writeCache: whatever came of it, fallback and synthetic forecasts too.
WriteMemory(c) ==
    /\ forecasts[c].stage = "next"
    /\ forecasts[c].provider > NumProviders
    /\ memory' = {Result(c)}
    /\ uncleared' = (uncleared \/ forecasts[c].overtaken)
    /\ forecasts' = [forecasts EXCEPT ![c].stage = "redis"]
    /\ UNCHANGED <<breaker, redis, connected, clearing>>

WriteRedis(c) ==
    /\ forecasts[c].stage = "redis"
    /\ connected' = TRUE
    /\ redis' = {Result(c)}
    /\ uncleared' = (uncleared \/ forecasts[c].overtaken)
    /\ forecasts' = GiveUp(forecasts, c, ForecastIdle)
    /\ UNCHANGED <<breaker, memory, clearing>>

\* Redis is out of reach, or the write fails, and the call with it.
WriteMemoryOnly(c) ==
    /\ forecasts[c].stage = "redis"
    /\ EnsureRedisConnection
    /\ forecasts' = GiveUp(forecasts, c, ForecastIdle)
    /\ UNCHANGED <<breaker, memory, redis, clearing, uncleared>>

-----------------------------------------------------------------------------
(* clearForecastCache                                                      *)

\* What there is, and what is being made, is old from here on.
ClearMemory ==
    /\ clearing = "idle"
    /\ clearing' = "redis"
    /\ memory' = {}
    /\ redis' = {"old" : f \in redis}
    /\ uncleared' = FALSE
    /\ forecasts' = [c \in Calls |-> [forecasts[c] EXCEPT !.overtaken = forecasts[c] # ForecastIdle]]
    /\ UNCHANGED <<breaker, connected>>

\* Mutant: Redis is asked for its entries, and they are left there.
ClearRedisNot ==
    /\ clearing = "redis"
    /\ connected' = TRUE
    /\ clearing' = "done"
    /\ UNCHANGED <<breaker, forecasts, memory, redis, uncleared>>

ClearRedis ==
    /\ clearing = "redis"
    /\ connected' = TRUE
    /\ clearing' = "done"
    /\ redis' = {}
    /\ UNCHANGED <<breaker, forecasts, memory, uncleared>>

\* Redis is out of reach: the answer is a success all the same.
SkipRedis ==
    /\ clearing = "redis"
    /\ ~connected
    /\ clearing' = "memory only"
    /\ UNCHANGED <<breaker, forecasts, memory, redis, connected, uncleared>>

\* Redis refuses one of the two commands, or its answer is lost: the answer is
\* an error.
ClearFails ==
    /\ clearing = "redis"
    /\ connected' = TRUE
    /\ clearing' = "idle"
    /\ redis' \in {redis, {}}
    /\ UNCHANGED <<breaker, forecasts, memory, uncleared>>

\* The administrator has the answer.
ClearReturns ==
    /\ clearing \in {"done", "memory only"}
    /\ clearing' = "idle"
    /\ UNCHANGED <<breaker, forecasts, memory, redis, connected, uncleared>>

-----------------------------------------------------------------------------
(* Time.                                                                   *)

\* openMs has passed.
Cool(p) ==
    /\ breaker[p].state = "open"
    /\ breaker' = [breaker EXCEPT ![p].cooled = TRUE]
    /\ UNCHANGED <<forecasts, memory, redis, connected, clearing, uncleared>>

ExpireEntry ==
    /\ \/ memory' = {} /\ UNCHANGED redis
       \/ redis' = {} /\ UNCHANGED memory
    /\ UNCHANGED <<breaker, forecasts, connected, clearing, uncleared>>

ForecastNext ==
    \/ HitMemory \/ HitRedis \/ ReadFails
    \/ \E c \in Calls : \/ Miss(c) \/ TryProvider(c) \/ Answered(c) \/ Failed(c)
                        \/ WriteMemory(c) \/ WriteRedis(c) \/ WriteMemoryOnly(c)
    \/ ClearMemory \/ ClearRedis \/ SkipRedis \/ ClearFails \/ ClearReturns
    \/ \E p \in Providers : Cool(p)
    \/ ExpireEntry

ForecastSpec == ForecastInit /\ [][ForecastNext]_forecastVars

-----------------------------------------------------------------------------
ForecastTypeOK ==
    /\ breaker \in [Providers -> Breaker]
    /\ forecasts \in [Calls -> ForecastCall]
    /\ memory \in SUBSET Forecast
    /\ redis \in SUBSET Forecast
    /\ connected \in BOOLEAN
    /\ clearing \in {"idle", "redis", "done", "memory only"}
    /\ uncleared \in BOOLEAN

\* A provider's circuit is closed exactly while it has failed fewer times in a
\* row than the threshold, in whatever order overlapping calls are answered.
ClosedIffFewFailures ==
    \A p \in Providers : breaker[p].state = "closed" <=> breaker[p].failures < FailureThreshold

\* When clearForecastCache returns without an error, the memory holds no forecast
\* from before it began, and Redis none either if it was reached, but for one that
\* a call under way put there: one that had missed, or one that took the entry in
\* Redis back to memory (forecast.service.ts:412).  Whether Redis was reached the
\* answer does not tell (440-445).
ClearedCachesFresh ==
    ~uncleared =>
        /\ clearing \in {"done", "memory only"} => "old" \notin memory
        /\ clearing = "done" => "old" \notin redis
=============================================================================
