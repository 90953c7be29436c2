-------------------------- MODULE WikimediaRequests --------------------------
(***************************************************************************)
(* The threads of one pool that send requests to Wikimedia hosts: the      *)
(* retry loop (utils/retry.py), the session with its lazy login per host   *)
(* (enrichment/wikimedia_auth.py), the scheduler that paces hosts and the  *)
(* whole process (utils/request_scheduler.py), and the pool that cancels   *)
(* everybody's retries when one task fails                                 *)
(* (pipeline/_wikidata_recovery/audit_entities.py, repair_artifacts.py).   *)
(*                                                                         *)
(* Data abstraction: time passes in ticks.  An instant that the code keeps *)
(* is the number of ticks it lies ahead (0: it is past), or its age when   *)
(* the code asks whether it lies within a window.  The rate is kept as the *)
(* interval between two requests, in whole ticks.                          *)
(***************************************************************************)
EXTENDS Naturals, FiniteSets

CONSTANTS Threads,        \* threads of the pool
          Hosts,          \* Wikimedia hosts
          NoHost,         \* the host of a thread without a task
          Limits,         \* values of max_in_flight
          MinInterval,    \* 60 / max_requests_per_minute
          MaxInterval,    \* 60 / minimum_requests_per_minute
          HostInterval,   \* min_interval_s of a host
          Successes,      \* successes_per_increase
          Window,         \* host_throttle_window_s
          ActiveWindow,   \* active_host_window_s
          MinimumHosts,   \* minimum_systemic_hosts
          HostPercent,    \* systemic_host_fraction, in percent
          Delays,         \* bound: values of Retry-After
          Backoff,        \* the wait before a retry
          Tasks           \* bound: tasks given to the pool

ASSUME ConstantsAssumption ==
    /\ IsFiniteSet(Threads) /\ IsFiniteSet(Hosts) /\ NoHost \notin Hosts
    /\ "free" \notin Threads
    /\ Limits \subseteq 1..16 /\ Limits # {}
    /\ MinInterval \in Nat \ {0} /\ MaxInterval \in Nat /\ MinInterval <= MaxInterval
    /\ HostInterval \in Nat /\ Successes \in Nat \ {0}
    /\ Window \in Nat \ {0} /\ ActiveWindow \in Nat \ {0}
    /\ MinimumHosts \in Nat \ {0} /\ HostPercent \in 1..100
    /\ Delays \subseteq Nat /\ Backoff \in Nat /\ Tasks \in Nat

VARIABLES
    cooldown, nextAt,  \* per host: cooldown_until, next_request_at
    globalCooldown, globalNext, interval, successes,   \* _GlobalRateState
    maxInFlight, permits,      \* the bound of _semaphore, and what is left of it
    throttledFor, activeFor,   \* per host: age of its last throttle, of its last activity
    reducedFor,        \* age of last_systemic_reduction_at
    login, hostLock,   \* per host: _HostSession: verified, rejected or neither; its lock
    pc, host, request, wake,   \* per thread: its step, host, kind of request, and its alarm
    queued, pool, failed, cancelled,   \* tasks not started, the collector, _RETRY_CANCELLATION
    hostPassed,        \* history: threads past pacing when their host was throttled
    slotPassed         \* history: threads with a slot when a global cooldown was set

pacing  == <<cooldown, nextAt>>
rate    == <<globalCooldown, globalNext, interval, successes>>
semaphore == <<maxInFlight, permits>>
windows == <<throttledFor, activeFor, reducedFor>>
session == <<login, hostLock>>
poolVars == <<queued, pool, failed, cancelled>>
history == <<hostPassed, slotPassed>>
vars == <<pacing, rate, semaphore, windows, session, pc, host, request, wake, poolVars, history>>

Larger(a, b)  == IF a >= b THEN a ELSE b
Smaller(a, b) == IF a <= b THEN a ELSE b
Go(t, step) == pc' = [pc EXCEPT ![t] = step]

Init ==
    /\ cooldown = [h \in Hosts |-> 0] /\ nextAt = [h \in Hosts |-> 0]
    /\ globalCooldown = 0 /\ globalNext = 0 /\ interval = MinInterval /\ successes = 0
    /\ maxInFlight \in Limits /\ permits = maxInFlight
    /\ throttledFor = [h \in Hosts |-> Window]
    /\ activeFor = [h \in Hosts |-> ActiveWindow]
    /\ reducedFor = Window + 1
    \* With no credentials every host stays anonymous.
    /\ login \in {[h \in Hosts |-> l] : l \in {"pending", "anonymous"}}
    /\ hostLock = [h \in Hosts |-> "free"]
    /\ pc = [t \in Threads |-> "idle"] /\ host = [t \in Threads |-> NoHost]
    /\ request = [t \in Threads |-> "content"] /\ wake = [t \in Threads |-> 0]
    /\ queued = Tasks /\ pool = "collect" /\ failed = FALSE /\ cancelled = FALSE
    /\ hostPassed = {} /\ slotPassed = {}

------------------------------------------------------------------------------
(* The retry loop (with_retries) *)

\* A thread of the executor takes a task.
Take(t, h) ==
    /\ pc[t] = "idle" /\ queued > 0
    /\ queued' = queued - 1
    /\ host' = [host EXCEPT ![t] = h]
    /\ Go(t, "attempt")
    /\ UNCHANGED <<pacing, rate, semaphore, windows, session, request, wake, pool, failed, cancelled,
                   history>>

\* _raise_if_cancelled, then session.read: a host that is neither verified nor
\* rejected is logged in first.
Attempt(t) ==
    /\ pc[t] = "attempt"
    /\ Go(t, CASE cancelled -> "raise"
               [] ~cancelled /\ login[host[t]] = "pending" -> "lock"
               [] OTHER -> "pace")
    /\ UNCHANGED <<pacing, rate, semaphore, windows, session, host, request, wake, poolVars, history>>

BackOff(t) == Go(t, "backoff") /\ wake' = [wake EXCEPT ![t] = Backoff]

\* A transient error waits and tries again, without limit; any other is raised.
AttemptFails(t, transient) ==
    /\ pc[t] = "failed"
    /\ IF transient THEN BackOff(t) ELSE Go(t, "raise") /\ UNCHANGED wake
    /\ UNCHANGED <<pacing, rate, semaphore, windows, session, host, request, poolVars, history>>

\* _wait_for_retry: the wait ends with its delay, or at once when retries are
\* cancelled.
Retry(t) ==
    /\ pc[t] = "backoff"
    /\ \/ cancelled /\ Go(t, "raise") /\ wake' = [wake EXCEPT ![t] = 0]
       \/ wake[t] = 0 /\ ~cancelled /\ Go(t, "attempt") /\ UNCHANGED wake
    /\ UNCHANGED <<pacing, rate, semaphore, windows, session, host, request, poolVars, history>>

\* The task's future gets its exception.
Raise(t) ==
    /\ pc[t] = "raise"
    /\ failed' = TRUE
    /\ Go(t, "idle") /\ host' = [host EXCEPT ![t] = NoHost]
    /\ UNCHANGED <<pacing, rate, semaphore, windows, session, request, wake, queued, pool,
                   cancelled, history>>

------------------------------------------------------------------------------
(* The login of a host (_ensure_authenticated) *)

\* Mutant: the state is not checked again under the lock.
LockHostUnchecked(t) ==
    /\ pc[t] = "lock" /\ hostLock[host[t]] = "free"
    /\ hostLock' = [hostLock EXCEPT ![host[t]] = t]
    /\ request' = [request EXCEPT ![t] = "token"]
    /\ Go(t, "permit")
    /\ UNCHANGED <<pacing, rate, semaphore, windows, login, host, wake, poolVars, history>>

\* The lock is held over both requests of a login; they are not paced.
LockHost(t) ==
    /\ pc[t] = "lock" /\ hostLock[host[t]] = "free"
    /\ IF login[host[t]] = "pending"
       THEN /\ hostLock' = [hostLock EXCEPT ![host[t]] = t]
            /\ request' = [request EXCEPT ![t] = "token"]
            /\ Go(t, "permit")
       ELSE Go(t, "pace") /\ UNCHANGED <<hostLock, request>>
    /\ UNCHANGED <<pacing, rate, semaphore, windows, login, host, wake, poolVars, history>>

\* The answer to a login request: the token, the success, or a rejection that
\* leaves the host anonymous.
LoginAnswered(t, accepted) ==
    /\ pc[t] = "answered" /\ request[t] \in {"token", "login"}
    /\ IF accepted /\ request[t] = "token"
       THEN /\ request' = [request EXCEPT ![t] = "login"]
            /\ Go(t, "permit")
            /\ UNCHANGED session
       ELSE /\ login' = [login EXCEPT ![host[t]] = IF accepted THEN "verified" ELSE "rejected"]
            /\ hostLock' = [hostLock EXCEPT ![host[t]] = "free"]
            /\ request' = [request EXCEPT ![t] = "content"]
            /\ Go(t, "pace")
    /\ UNCHANGED <<pacing, rate, semaphore, windows, host, wake, poolVars, history>>

------------------------------------------------------------------------------
(* Pacing of a host (pace_host) *)

Pace(t) ==
    /\ pc[t] = "pace"
    /\ activeFor' = [activeFor EXCEPT ![host[t]] = 0]
    /\ Go(t, "reserve")
    /\ UNCHANGED <<pacing, rate, semaphore, throttledFor, reducedFor, session, host, request, wake,
                   poolVars, history>>

\* The next free moment of the host is reserved under the host's lock.
ReserveHost(t) ==
    /\ pc[t] = "reserve"
    /\ LET ready == Larger(cooldown[host[t]], nextAt[host[t]])
       IN  /\ nextAt' = [nextAt EXCEPT ![host[t]] = ready + HostInterval]
           /\ wake' = [wake EXCEPT ![t] = ready]
    /\ Go(t, "measure")
    /\ UNCHANGED <<cooldown, rate, semaphore, windows, session, host, request, poolVars, history>>

\* The time left is computed after the lock was released; a thread that sleeps
\* will look at the cooldown again.
MeasureWait(t) ==
    /\ pc[t] = "measure"
    /\ IF wake[t] = 0 THEN Go(t, "permit") /\ UNCHANGED hostPassed
                      ELSE Go(t, "asleep") /\ hostPassed' = hostPassed \ {t}
    /\ UNCHANGED <<pacing, rate, semaphore, windows, session, host, request, wake, poolVars,
                   slotPassed>>

\* Mutant: the cooldown is not checked again after the sleep.
WakeUpUnchecked(t) ==
    /\ pc[t] = "asleep" /\ wake[t] = 0
    /\ Go(t, "permit")
    /\ UNCHANGED <<pacing, rate, semaphore, windows, session, host, request, wake, poolVars, history>>

WakeUp(t) ==
    /\ pc[t] = "asleep" /\ wake[t] = 0
    /\ Go(t, IF cooldown[host[t]] > 0 THEN "reserve" ELSE "permit")
    /\ UNCHANGED <<pacing, rate, semaphore, windows, session, host, request, wake, poolVars, history>>

------------------------------------------------------------------------------
(* The global budget (run) *)

AcquirePermit(t) ==
    /\ pc[t] = "permit" /\ permits > 0
    /\ permits' = permits - 1
    /\ Go(t, "slot")
    /\ UNCHANGED <<pacing, rate, maxInFlight, windows, session, host, request, wake, poolVars, history>>

\* Mutant: the next slot is counted from now, not from this one.
ReserveSlotFromNow(t) ==
    /\ pc[t] = "slot"
    /\ wake' = [wake EXCEPT ![t] = Larger(globalNext, globalCooldown)]
    /\ globalNext' = Larger(globalNext, interval)
    /\ Go(t, "wait")
    /\ UNCHANGED <<pacing, globalCooldown, interval, successes, semaphore, windows, session, host,
                   request, poolVars, history>>

ReserveSlot(t) ==
    /\ pc[t] = "slot"
    /\ LET ready == Larger(globalNext, globalCooldown)
       IN  /\ wake' = [wake EXCEPT ![t] = ready]
           /\ globalNext' = ready + interval
    /\ Go(t, "wait")
    /\ UNCHANGED <<pacing, globalCooldown, interval, successes, semaphore, windows, session, host,
                   request, poolVars, history>>

Send(t) ==
    /\ pc[t] = "wait" /\ wake[t] = 0
    /\ Go(t, "open")
    /\ UNCHANGED <<pacing, rate, semaphore, windows, session, host, request, wake, poolVars, history>>

\* What the end of a request does besides: an exception leaves the login that the
\* request is part of, and unlocks the host.
Leave(t, outcome) ==
    /\ IF outcome = "success" THEN UNCHANGED <<hostLock, request>>
       ELSE /\ hostLock' = [h \in Hosts |-> IF hostLock[h] = t THEN "free" ELSE hostLock[h]]
            /\ request' = [request EXCEPT ![t] = "content"]
    /\ Go(t, outcome)
    /\ hostPassed' = hostPassed \ {t} /\ slotPassed' = slotPassed \ {t}
    /\ UNCHANGED <<pacing, rate, maxInFlight, windows, login, host, wake, poolVars>>

\* The request ends, with an answer, a 429 or 503, or another error; the permit
\* goes back either way.
Answer(t, outcome) ==
    /\ pc[t] = "open"
    /\ permits' = permits + 1
    /\ Leave(t, outcome)

\* report_success: enough of them raise the rate by a quarter.
ReportSuccess(t) ==
    /\ pc[t] = "success"
    /\ IF interval = MinInterval
       THEN successes' = 0 /\ UNCHANGED interval
       ELSE /\ successes' = (successes + 1) % Successes
            /\ interval' = IF successes' = 0 THEN Larger(MinInterval, (interval * 4) \div 5)
                                             ELSE interval
    /\ Go(t, "answered")
    /\ UNCHANGED <<pacing, globalCooldown, globalNext, semaphore, windows, session, host, request,
                   wake, poolVars, history>>

\* The task is done, or the answer holds an API error.
ContentAnswered(t, good) ==
    /\ pc[t] = "answered" /\ request[t] = "content"
    /\ IF good THEN Go(t, "idle") /\ host' = [host EXCEPT ![t] = NoHost]
               ELSE Go(t, "failed") /\ UNCHANGED host
    /\ UNCHANGED <<pacing, rate, semaphore, windows, session, request, wake, poolVars, history>>

------------------------------------------------------------------------------
(* A host throttles (report_host_throttled) *)

CooldownHost(t, delay) ==
    /\ pc[t] = "throttled"
    /\ cooldown' = [cooldown EXCEPT ![host[t]] = Larger(@, delay)]
    /\ wake' = [wake EXCEPT ![t] = delay]
    /\ Go(t, "systemic")
    /\ hostPassed' = hostPassed \cup
           {u \in Threads : /\ host[u] = host[t]
                            /\ pc[u] \in {"measure", "permit", "slot", "wait"}}
    /\ UNCHANGED <<nextAt, rate, semaphore, windows, session, host, request, poolVars, slotPassed>>

HostThrottleThreshold == 3

\* _systemic_threshold, in proportional mode
Active == Cardinality({h \in Hosts : activeFor[h] < ActiveWindow})
SystemicThreshold ==
    IF Active = 0 THEN HostThrottleThreshold
    ELSE Smaller(Active, Larger(MinimumHosts, ((Active * HostPercent) + 99) \div 100))

\* _record_systemic_host_event: whoever finds enough hosts throttled, and no
\* reduction within the window, is the one to reduce the rate.
RecordEvent(t) ==
    /\ pc[t] = "systemic"
    /\ throttledFor' = [throttledFor EXCEPT ![host[t]] = 0]
    /\ IF /\ Cardinality({h \in Hosts : throttledFor'[h] < Window}) >= SystemicThreshold
          /\ reducedFor > Window
       THEN reducedFor' = 0 /\ Go(t, "slowdown") /\ UNCHANGED wake
       ELSE BackOff(t) /\ UNCHANGED reducedFor
    /\ UNCHANGED <<pacing, rate, semaphore, activeFor, session, host, request, poolVars, history>>

\* _apply_global_throttle: a global cooldown and half the rate.
SlowDown(t) ==
    /\ pc[t] = "slowdown"
    /\ globalCooldown' = Larger(globalCooldown, wake[t])
    /\ interval' = Smaller(MaxInterval, 2 * interval)
    /\ successes' = 0
    /\ BackOff(t)
    /\ slotPassed' = slotPassed \cup {u \in Threads : pc[u] = "wait"}
    /\ UNCHANGED <<pacing, globalNext, semaphore, windows, session, host, request, poolVars,
                   hostPassed>>

------------------------------------------------------------------------------
(* The pool and the clock *)

\* Mutant: only the tasks that have not started are cancelled.
CancelQueued ==
    /\ pool = "collect" /\ failed
    /\ queued' = 0
    /\ pool' = "shutdown"
    /\ UNCHANGED <<pacing, rate, semaphore, windows, session, pc, host, request, wake, failed,
                   cancelled, history>>

\* The collector meets the first failure: it cancels all retries and every task
\* that has not started.
CancelAll ==
    /\ pool = "collect" /\ failed
    /\ cancelled' = TRUE
    /\ queued' = 0
    /\ pool' = "shutdown"
    /\ UNCHANGED <<pacing, rate, semaphore, windows, session, pc, host, request, wake, failed, history>>

\* The executor waits for its threads; then the cancellation is taken back.
Shutdown ==
    /\ pool = "shutdown" \/ (pool = "collect" /\ ~failed)
    /\ queued = 0 /\ \A t \in Threads : pc[t] = "idle"
    /\ cancelled' = FALSE
    /\ pool' = "over"
    /\ UNCHANGED <<pacing, rate, semaphore, windows, session, pc, host, request, wake, queued, failed,
                   history>>

Less(n)      == IF n = 0 THEN 0 ELSE n - 1
Older(n, top) == Smaller(n + 1, top)

\* A tick.  The steps of one report fall within one.
Tick ==
    /\ pool # "over"
    /\ \A t \in Threads : pc[t] \notin {"systemic", "slowdown"}
    /\ cooldown' = [h \in Hosts |-> Less(cooldown[h])]
    /\ nextAt' = [h \in Hosts |-> Less(nextAt[h])]
    /\ globalCooldown' = Less(globalCooldown)
    /\ globalNext' = Less(globalNext)
    /\ wake' = [t \in Threads |-> Less(wake[t])]
    /\ throttledFor' = [h \in Hosts |-> Older(throttledFor[h], Window)]
    /\ activeFor' = [h \in Hosts |-> Older(activeFor[h], ActiveWindow)]
    /\ reducedFor' = Older(reducedFor, Window + 1)
    /\ UNCHANGED <<interval, successes, semaphore, session, pc, host, request, poolVars, hostPassed,
                   slotPassed>>

Step(t) ==
    \/ \E h \in Hosts : Take(t, h)
    \/ Attempt(t) \/ Retry(t) \/ Raise(t) \/ LockHost(t) \/ Pace(t) \/ ReserveHost(t)
    \/ MeasureWait(t) \/ WakeUp(t) \/ AcquirePermit(t) \/ ReserveSlot(t) \/ Send(t)
    \/ \E outcome \in {"success", "throttled", "failed"} : Answer(t, outcome)
    \/ ReportSuccess(t) \/ RecordEvent(t) \/ SlowDown(t)
    \/ \E b \in BOOLEAN : AttemptFails(t, b) \/ LoginAnswered(t, b) \/ ContentAnswered(t, b)
    \/ \E delay \in Delays : CooldownHost(t, delay)

Next == Tick \/ CancelAll \/ Shutdown \/ \E t \in Threads : Step(t)

Spec == Init /\ [][Next]_vars

\* Time passes, the collector and every thread go on; a request ends, if only by
\* its timeout, and nothing is assumed of its outcome.
FairSpec == /\ Spec
            /\ WF_vars(Tick) /\ WF_vars(CancelAll \/ Shutdown)
            /\ \A t \in Threads : WF_vars(Step(t))

------------------------------------------------------------------------------
(* Properties *)

Holders == {t \in Threads : pc[t] \in {"slot", "wait", "open"}}

\* Every variable keeps its type; the permits that are not free are held by
\* threads between run's acquire and its release.
TypeOK ==
    /\ cooldown \in [Hosts -> Nat] /\ nextAt \in [Hosts -> Nat]
    /\ globalCooldown \in Nat /\ globalNext \in Nat
    /\ interval \in MinInterval..MaxInterval /\ successes \in 0..Successes - 1
    /\ throttledFor \in [Hosts -> 0..Window] /\ activeFor \in [Hosts -> 0..ActiveWindow]
    /\ reducedFor \in 0..Window + 1
    /\ login \in [Hosts -> {"pending", "anonymous", "verified", "rejected"}]
    /\ hostLock \in [Hosts -> Threads \cup {"free"}]
    /\ pc \in [Threads -> {"idle", "attempt", "lock", "pace", "reserve", "measure", "asleep",
                           "permit", "slot", "wait", "open", "success", "answered", "throttled",
                           "systemic", "slowdown", "failed", "backoff", "raise"}]
    /\ host \in [Threads -> Hosts \cup {NoHost}] /\ request \in [Threads -> {"content", "token", "login"}]
    /\ wake \in [Threads -> Nat]
    /\ queued \in 0..Tasks /\ pool \in {"collect", "shutdown", "over"}
    /\ failed \in BOOLEAN /\ cancelled \in BOOLEAN
    /\ hostPassed \subseteq Threads /\ slotPassed \subseteq Threads
    /\ maxInFlight \in Limits /\ permits \in 0..maxInFlight
    /\ permits + Cardinality(Holders) = maxInFlight

\* Requests of the whole process are given slots at least the interval of the
\* highest rate apart, however threads, cooldowns and changes of the rate
\* interleave (AdaptiveRequestScheduler.run).
SlotsSpaced ==
    \A t \in Threads : pc[t] = "wait" /\ wake[t] > 0 =>
        /\ globalNext >= wake[t] + MinInterval
        /\ \A u \in Threads \ {t} : pc[u] = "wait" /\ wake[u] <= wake[t]
               => wake[u] + MinInterval <= wake[t] \/ wake[u] = 0

\* Nobody goes on into a cooldown: a request (other than a login) to a host that
\* cools down was past its pacing when the cooldown was set, and a request that
\* waits for a slot shorter than the global cooldown had it before (pace_host:
\* "a 429 that arrived while the request was waiting cannot be silently ignored").
CooldownsHonoured ==
    \A t \in Threads :
        /\ pc[t] \in {"permit", "slot", "wait"} /\ request[t] = "content"
               => cooldown[host[t]] = 0 \/ t \in hostPassed
        /\ pc[t] = "wait" => wake[t] >= globalCooldown \/ t \in slotPassed

\* Once a host is verified or rejected it stays so: no second login to it is ever
\* made by a thread that looked before the first one ended (_ensure_authenticated).
LoginSettled == [][\A h \in Hosts : login[h] # "pending" => login'[h] = login[h]]_vars

\* A pool in which a task failed ends, although every other task would retry
\* without limit, may hold a host's lock, sleep in a cooldown or wait for a permit.
FailedPoolEnds == failed ~> pool = "over"
==============================================================================
