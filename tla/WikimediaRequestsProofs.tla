------------------------ MODULE WikimediaRequestsProofs ------------------------
(***************************************************************************)
(* Proofs about WikimediaRequests, for every number of threads, hosts,     *)
(* permits and tasks, every rate, window and Retry-After: slots are spaced *)
(* by the interval of the highest rate, nobody goes on into a cooldown,    *)
(* and a login is settled once.                                            *)
(***************************************************************************)
EXTENDS WikimediaRequests, FiniteSetTheorems, TLAPS

------------------------------------------------------------------------------
(* The inductive invariant *)

\* A thread at work has a host, and a thread whose request belongs to a login holds
\* the lock of a host that nobody has logged in to yet.
SessionInv ==
    \A t \in Threads :
        /\ pc[t] # "idle" => host[t] \in Hosts
        /\ request[t] # "content" =>
               /\ pc[t] \in {"permit", "slot", "wait", "open", "success", "answered"}
               /\ hostLock[host[t]] = t /\ login[host[t]] = "pending"

\* A moment reserved at a host is not before the end of its cooldown, unless the
\* cooldown was set between the reservation and the measuring of the wait.
ReservedInv ==
    \A t \in Threads : pc[t] = "measure" => wake[t] >= cooldown[host[t]] \/ t \in hostPassed

IInv == TypeOK /\ SessionInv /\ ReservedInv /\ SlotsSpaced /\ CooldownsHonoured

------------------------------------------------------------------------------
(* The type invariant, in three parts *)

ClockTypeOK ==
    /\ cooldown \in [Hosts -> Nat] /\ nextAt \in [Hosts -> Nat]
    /\ globalCooldown \in Nat /\ globalNext \in Nat
    /\ interval \in MinInterval..MaxInterval /\ successes \in 0..Successes - 1
    /\ throttledFor \in [Hosts -> 0..Window] /\ activeFor \in [Hosts -> 0..ActiveWindow]
    /\ reducedFor \in 0..Window + 1
    /\ wake \in [Threads -> Nat]

Steps == {"idle", "attempt", "lock", "pace", "reserve", "measure", "asleep", "permit", "slot",
          "wait", "open", "success", "answered", "throttled", "systemic", "slowdown", "failed",
          "backoff", "raise"}

ControlTypeOK ==
    /\ login \in [Hosts -> {"pending", "anonymous", "verified", "rejected"}]
    /\ hostLock \in [Hosts -> Threads \cup {"free"}]
    /\ pc \in [Threads -> Steps]
    /\ host \in [Threads -> Hosts \cup {NoHost}]
    /\ request \in [Threads -> {"content", "token", "login"}]
    /\ queued \in 0..Tasks /\ pool \in {"collect", "shutdown", "over"}
    /\ failed \in BOOLEAN /\ cancelled \in BOOLEAN
    /\ hostPassed \subseteq Threads /\ slotPassed \subseteq Threads

PermitInv ==
    /\ maxInFlight \in Limits /\ permits \in 0..maxInFlight
    /\ permits + Cardinality(Holders) = maxInFlight

\* The three parts are the type invariant.
LEMMA TypeParts == TypeOK <=> ClockTypeOK /\ ControlTypeOK /\ PermitInv
  BY DEF TypeOK, ClockTypeOK, ControlTypeOK, PermitInv, Steps

\* The constants, in the form the steps need.
LEMMA Constants ==
    /\ IsFiniteSet(Threads) /\ "free" \notin Threads /\ NoHost \notin Hosts
    /\ MinInterval \in Nat \ {0} /\ MaxInterval \in Nat /\ MinInterval <= MaxInterval
    /\ HostInterval \in Nat /\ Successes \in Nat \ {0}
    /\ Window \in Nat \ {0} /\ ActiveWindow \in Nat \ {0}
    /\ Delays \subseteq Nat /\ Backoff \in Nat /\ Tasks \in Nat
    /\ \A n \in Limits : n \in Nat
  BY ConstantsAssumption

\* Raising the rate by a quarter keeps the interval in its range, and successes are
\* counted modulo successes_per_increase.
LEMMA RateArithmetic ==
    /\ \A n \in MinInterval..MaxInterval :
           Larger(MinInterval, (n * 4) \div 5) \in MinInterval..MaxInterval
    /\ \A n \in Nat : n % Successes \in 0..Successes - 1
<1>1. ASSUME NEW n \in MinInterval..MaxInterval
      PROVE  Larger(MinInterval, (n * 4) \div 5) \in MinInterval..MaxInterval
  <2>1. n \in Nat /\ n <= MaxInterval
    BY Constants
  <2>2. (n * 4) \div 5 \in Nat /\ (n * 4) \div 5 <= n
    BY <2>1
  <2>. QED BY <2>1, <2>2, Constants DEF Larger
<1>2. \A n \in Nat : n % Successes \in 0..Successes - 1
  BY Constants
<1>. QED BY <1>1, <1>2

\* Every step keeps the types of what the clock and the scheduler keep.
LEMMA ClockTypeStep ==
    ASSUME ClockTypeOK, ControlTypeOK, SessionInv, Next PROVE ClockTypeOK'
<1>. USE Constants DEF ClockTypeOK, ControlTypeOK, SessionInv, pacing, rate, semaphore, windows, session, poolVars, history
<1>1. CASE Tick
  BY <1>1 DEF Tick, Less, Older, Smaller
<1>2. CASE CancelAll
  BY <1>2 DEF CancelAll
<1>3. CASE Shutdown
  BY <1>3 DEF Shutdown
<1>4. ASSUME NEW t \in Threads, Step(t) PROVE ClockTypeOK'
  <2>1. ASSUME NEW h \in Hosts, Take(t, h) PROVE ClockTypeOK'
    BY <2>1 DEF Take, Go
  <2>2. CASE Attempt(t)
    BY <2>2 DEF Attempt, Go
  <2>3. CASE Retry(t)
    BY <2>3 DEF Retry, Go
  <2>4. CASE Raise(t)
    BY <2>4 DEF Raise, Go
  <2>5. CASE LockHost(t)
    BY <2>5 DEF LockHost, Go
  <2>6. CASE Pace(t)
    BY <2>6 DEF Pace, Go
  <2>7. CASE ReserveHost(t)
    BY <2>7 DEF ReserveHost, Go, Larger
  <2>8. CASE MeasureWait(t)
    BY <2>8 DEF MeasureWait, Go
  <2>9. CASE WakeUp(t)
    BY <2>9 DEF WakeUp, Go
  <2>10. CASE AcquirePermit(t)
    BY <2>10 DEF AcquirePermit, Go
  <2>11. CASE ReserveSlot(t)
    BY <2>11 DEF ReserveSlot, Go, Larger
  <2>12. CASE Send(t)
    BY <2>12 DEF Send, Go
  <2>13. ASSUME NEW o \in {"success", "throttled", "failed"}, Answer(t, o) PROVE ClockTypeOK'
    BY <2>13 DEF Answer, Leave, Go
  <2>14. CASE ReportSuccess(t)
    <3>1. UNCHANGED <<cooldown, nextAt, globalCooldown, globalNext, throttledFor, activeFor,
                      reducedFor, wake>>
      BY <2>14 DEF ReportSuccess
    <3>2. interval' \in MinInterval..MaxInterval /\ successes' \in 0..Successes - 1
      <4>1. CASE interval = MinInterval
        BY <2>14, <4>1 DEF ReportSuccess
      <4>2. CASE interval # MinInterval
        <5>1. /\ successes' = (successes + 1) % Successes
              /\ interval' = Larger(MinInterval, (interval * 4) \div 5) \/ interval' = interval
          BY <2>14, <4>2 DEF ReportSuccess
        <5>2. successes + 1 \in Nat
          OBVIOUS
        <5>3. successes' \in 0..Successes - 1
          BY <5>1, <5>2, RateArithmetic, Zenon
        <5>4. interval \in MinInterval..MaxInterval
          OBVIOUS
        <5>5. Larger(MinInterval, (interval * 4) \div 5) \in MinInterval..MaxInterval
          BY <5>4, RateArithmetic, Zenon
        <5>. QED BY <5>1, <5>3, <5>4, <5>5, ZenonT(40)
      <4>. QED BY <4>1, <4>2
    <3>. QED BY <3>1, <3>2
  <2>15. CASE RecordEvent(t)
    BY <2>15 DEF RecordEvent, BackOff, Go
  <2>16. CASE SlowDown(t)
    BY <2>16 DEF SlowDown, BackOff, Go, Larger, Smaller
  <2>17. ASSUME NEW b \in BOOLEAN, AttemptFails(t, b) PROVE ClockTypeOK'
    BY <2>17 DEF AttemptFails, BackOff, Go
  <2>18. ASSUME NEW b \in BOOLEAN, LoginAnswered(t, b) PROVE ClockTypeOK'
    BY <2>18 DEF LoginAnswered, Go
  <2>19. ASSUME NEW b \in BOOLEAN, ContentAnswered(t, b) PROVE ClockTypeOK'
    BY <2>19 DEF ContentAnswered, Go
  <2>20. ASSUME NEW d \in Delays, CooldownHost(t, d) PROVE ClockTypeOK'
    BY <2>20 DEF CooldownHost, Go, Larger
  <2>. QED BY <1>4, <2>1, <2>2, <2>3, <2>4, <2>5, <2>6, <2>7, <2>8, <2>9, <2>10, <2>11, <2>12,
           <2>13, <2>14, <2>15, <2>16, <2>17, <2>18, <2>19, <2>20 DEF Step
<1>. QED BY <1>1, <1>2, <1>3, <1>4 DEF Next

\* Every step keeps the types of the session, the threads and the pool.
LEMMA ControlTypeStep ==
    ASSUME ClockTypeOK, ControlTypeOK, SessionInv, Next PROVE ControlTypeOK'
<1>. USE Constants DEF ClockTypeOK, ControlTypeOK, SessionInv, Steps, pacing, rate, semaphore, windows, session, poolVars, history
<1>1. CASE Tick
  BY <1>1 DEF Tick, Less, Older, Smaller
<1>2. CASE CancelAll
  BY <1>2 DEF CancelAll
<1>3. CASE Shutdown
  BY <1>3 DEF Shutdown
<1>4. ASSUME NEW t \in Threads, Step(t) PROVE ControlTypeOK'
  <2>1. ASSUME NEW h \in Hosts, Take(t, h) PROVE ControlTypeOK'
    BY <2>1 DEF Take, Go
  <2>2. CASE Attempt(t)
    BY <2>2 DEF Attempt, Go
  <2>3. CASE Retry(t)
    BY <2>3 DEF Retry, Go
  <2>4. CASE Raise(t)
    BY <2>4 DEF Raise, Go
  <2>5. CASE LockHost(t)
    BY <2>5 DEF LockHost, Go
  <2>6. CASE Pace(t)
    BY <2>6 DEF Pace, Go
  <2>7. CASE ReserveHost(t)
    BY <2>7 DEF ReserveHost, Go, Larger
  <2>8. CASE MeasureWait(t)
    BY <2>8 DEF MeasureWait, Go
  <2>9. CASE WakeUp(t)
    BY <2>9 DEF WakeUp, Go
  <2>10. CASE AcquirePermit(t)
    BY <2>10 DEF AcquirePermit, Go
  <2>11. CASE ReserveSlot(t)
    BY <2>11 DEF ReserveSlot, Go, Larger
  <2>12. CASE Send(t)
    BY <2>12 DEF Send, Go
  <2>13. ASSUME NEW o \in {"success", "throttled", "failed"}, Answer(t, o) PROVE ControlTypeOK'
    BY <2>13 DEF Answer, Leave, Go
  <2>14. CASE ReportSuccess(t)
    BY <2>14 DEF ReportSuccess, Go
  <2>15. CASE RecordEvent(t)
    BY <2>15 DEF RecordEvent, BackOff, Go
  <2>16. CASE SlowDown(t)
    BY <2>16 DEF SlowDown, BackOff, Go, Larger, Smaller
  <2>17. ASSUME NEW b \in BOOLEAN, AttemptFails(t, b) PROVE ControlTypeOK'
    BY <2>17 DEF AttemptFails, BackOff, Go
  <2>18. ASSUME NEW b \in BOOLEAN, LoginAnswered(t, b) PROVE ControlTypeOK'
    BY <2>18 DEF LoginAnswered, Go
  <2>19. ASSUME NEW b \in BOOLEAN, ContentAnswered(t, b) PROVE ControlTypeOK'
    BY <2>19 DEF ContentAnswered, Go
  <2>20. ASSUME NEW d \in Delays, CooldownHost(t, d) PROVE ControlTypeOK'
    BY <2>20 DEF CooldownHost, Go, Larger
  <2>. QED BY <1>4, <2>1, <2>2, <2>3, <2>4, <2>5, <2>6, <2>7, <2>8, <2>9, <2>10, <2>11, <2>12,
           <2>13, <2>14, <2>15, <2>16, <2>17, <2>18, <2>19, <2>20 DEF Step
<1>. QED BY <1>1, <1>2, <1>3, <1>4 DEF Next

\* What is held: the threads between run's acquire and its release.
LEMMA HoldersFinite == IsFiniteSet(Holders) /\ Cardinality(Holders) \in Nat
  BY Constants, FS_Subset, FS_CardinalityType DEF Holders

\* Every step keeps the count of the permits.
LEMMA PermitStep ==
    ASSUME ControlTypeOK, PermitInv, Next PROVE PermitInv'
<1>. USE Constants DEF ControlTypeOK, PermitInv, pacing, rate, semaphore, windows, session, poolVars, history
<1>1. CASE Tick
  <2>1. Holders' = Holders
    BY <1>1 DEF Holders, Tick
  <2>. QED BY <1>1, <2>1 DEF Tick
<1>2. CASE CancelAll
  <2>1. Holders' = Holders
    BY <1>2 DEF Holders, CancelAll
  <2>. QED BY <1>2, <2>1 DEF CancelAll
<1>3. CASE Shutdown
  <2>1. Holders' = Holders
    BY <1>3 DEF Holders, Shutdown
  <2>. QED BY <1>3, <2>1 DEF Shutdown
<1>4. ASSUME NEW t \in Threads, Step(t) PROVE PermitInv'
  <2>1. ASSUME NEW h \in Hosts, Take(t, h) PROVE PermitInv'
    <3>1. Holders' = Holders
      BY <2>1 DEF Holders, Take, Go
    <3>. QED BY <2>1, <3>1 DEF Take, Go
  <2>2. CASE Attempt(t)
    <3>1. Holders' = Holders
      BY <2>2 DEF Holders, Attempt, Go
    <3>. QED BY <2>2, <3>1 DEF Attempt, Go
  <2>3. CASE Retry(t)
    <3>1. Holders' = Holders
      BY <2>3 DEF Holders, Retry, Go
    <3>. QED BY <2>3, <3>1 DEF Retry, Go
  <2>4. CASE Raise(t)
    <3>1. Holders' = Holders
      BY <2>4 DEF Holders, Raise, Go
    <3>. QED BY <2>4, <3>1 DEF Raise, Go
  <2>5. CASE LockHost(t)
    <3>1. Holders' = Holders
      BY <2>5 DEF Holders, LockHost, Go
    <3>. QED BY <2>5, <3>1 DEF LockHost, Go
  <2>6. CASE Pace(t)
    <3>1. Holders' = Holders
      BY <2>6 DEF Holders, Pace, Go
    <3>. QED BY <2>6, <3>1 DEF Pace, Go
  <2>7. CASE ReserveHost(t)
    <3>1. Holders' = Holders
      BY <2>7 DEF Holders, ReserveHost, Go, Larger
    <3>. QED BY <2>7, <3>1 DEF ReserveHost, Go, Larger
  <2>8. CASE MeasureWait(t)
    <3>1. Holders' = Holders
      BY <2>8 DEF Holders, MeasureWait, Go
    <3>. QED BY <2>8, <3>1 DEF MeasureWait, Go
  <2>9. CASE WakeUp(t)
    <3>1. Holders' = Holders
      BY <2>9 DEF Holders, WakeUp, Go
    <3>. QED BY <2>9, <3>1 DEF WakeUp, Go
  <2>10. CASE AcquirePermit(t)
    <3>1. Holders' = Holders \cup {t} /\ t \notin Holders
      BY <2>10 DEF Holders, AcquirePermit, Go
    <3>2. Cardinality(Holders') = Cardinality(Holders) + 1
      BY <3>1, HoldersFinite, FS_AddElement
    <3>. QED BY <2>10, <3>2, HoldersFinite DEF AcquirePermit
  <2>11. CASE ReserveSlot(t)
    <3>1. Holders' = Holders
      BY <2>11 DEF Holders, ReserveSlot, Go, Larger
    <3>. QED BY <2>11, <3>1 DEF ReserveSlot, Go, Larger
  <2>12. CASE Send(t)
    <3>1. Holders' = Holders
      BY <2>12 DEF Holders, Send, Go
    <3>. QED BY <2>12, <3>1 DEF Send, Go
  <2>13. ASSUME NEW o \in {"success", "throttled", "failed"}, Answer(t, o) PROVE PermitInv'
    <3>1. Holders' = Holders \ {t} /\ t \in Holders
      BY <2>13 DEF Holders, Answer, Leave, Go
    <3>2. Cardinality(Holders') = Cardinality(Holders) - 1
      BY <3>1, HoldersFinite, FS_RemoveElement
    <3>3. Cardinality(Holders') \in Nat
      BY <3>1, HoldersFinite, FS_RemoveElement, FS_CardinalityType
    <3>4. permits' = permits + 1 /\ maxInFlight' = maxInFlight
      BY <2>13 DEF Answer, Leave
    <3>. QED BY <3>2, <3>3, <3>4, HoldersFinite
  <2>14. CASE ReportSuccess(t)
    <3>1. Holders' = Holders
      BY <2>14 DEF Holders, ReportSuccess, Go
    <3>. QED BY <2>14, <3>1 DEF ReportSuccess, Go
  <2>15. CASE RecordEvent(t)
    <3>1. Holders' = Holders
      BY <2>15 DEF Holders, RecordEvent, BackOff, Go
    <3>. QED BY <2>15, <3>1 DEF RecordEvent, BackOff, Go
  <2>16. CASE SlowDown(t)
    <3>1. Holders' = Holders
      BY <2>16 DEF Holders, SlowDown, BackOff, Go, Larger, Smaller
    <3>. QED BY <2>16, <3>1 DEF SlowDown, BackOff, Go, Larger, Smaller
  <2>17. ASSUME NEW b \in BOOLEAN, AttemptFails(t, b) PROVE PermitInv'
    <3>1. Holders' = Holders
      BY <2>17 DEF Holders, AttemptFails, BackOff, Go
    <3>. QED BY <2>17, <3>1 DEF AttemptFails, BackOff, Go
  <2>18. ASSUME NEW b \in BOOLEAN, LoginAnswered(t, b) PROVE PermitInv'
    <3>1. Holders' = Holders
      BY <2>18 DEF Holders, LoginAnswered, Go
    <3>. QED BY <2>18, <3>1 DEF LoginAnswered, Go
  <2>19. ASSUME NEW b \in BOOLEAN, ContentAnswered(t, b) PROVE PermitInv'
    <3>1. Holders' = Holders
      BY <2>19 DEF Holders, ContentAnswered, Go
    <3>. QED BY <2>19, <3>1 DEF ContentAnswered, Go
  <2>20. ASSUME NEW d \in Delays, CooldownHost(t, d) PROVE PermitInv'
    <3>1. Holders' = Holders
      BY <2>20 DEF Holders, CooldownHost, Go, Larger
    <3>. QED BY <2>20, <3>1 DEF CooldownHost, Go, Larger
  <2>. QED BY <1>4, <2>1, <2>2, <2>3, <2>4, <2>5, <2>6, <2>7, <2>8, <2>9, <2>10, <2>11, <2>12,
           <2>13, <2>14, <2>15, <2>16, <2>17, <2>18, <2>19, <2>20 DEF Step
<1>. QED BY <1>1, <1>2, <1>3, <1>4 DEF Next

\* Every step keeps the logins in order.
LEMMA SessionStep ==
    ASSUME ClockTypeOK, ControlTypeOK, SessionInv, Next PROVE SessionInv'
<1>. USE Constants DEF ClockTypeOK, ControlTypeOK, Steps, SessionInv, pacing, rate, semaphore, windows, session, poolVars, history
<1>1. CASE Tick
  BY <1>1 DEF Tick, Less, Older, Smaller
<1>2. CASE CancelAll
  BY <1>2 DEF CancelAll
<1>3. CASE Shutdown
  BY <1>3 DEF Shutdown
<1>4. ASSUME NEW t \in Threads, Step(t) PROVE SessionInv'
  <2>1. ASSUME NEW h \in Hosts, Take(t, h) PROVE SessionInv'
    BY <2>1 DEF Take, Go
  <2>2. CASE Attempt(t)
    BY <2>2 DEF Attempt, Go
  <2>3. CASE Retry(t)
    BY <2>3 DEF Retry, Go
  <2>4. CASE Raise(t)
    BY <2>4 DEF Raise, Go
  <2>5. CASE LockHost(t)
    BY <2>5 DEF LockHost, Go
  <2>6. CASE Pace(t)
    BY <2>6 DEF Pace, Go
  <2>7. CASE ReserveHost(t)
    BY <2>7 DEF ReserveHost, Go, Larger
  <2>8. CASE MeasureWait(t)
    BY <2>8 DEF MeasureWait, Go
  <2>9. CASE WakeUp(t)
    BY <2>9 DEF WakeUp, Go
  <2>10. CASE AcquirePermit(t)
    BY <2>10 DEF AcquirePermit, Go
  <2>11. CASE ReserveSlot(t)
    BY <2>11 DEF ReserveSlot, Go, Larger
  <2>12. CASE Send(t)
    BY <2>12 DEF Send, Go
  <2>13. ASSUME NEW o \in {"success", "throttled", "failed"}, Answer(t, o) PROVE SessionInv'
    BY <2>13 DEF Answer, Leave, Go
  <2>14. CASE ReportSuccess(t)
    BY <2>14 DEF ReportSuccess, Go
  <2>15. CASE RecordEvent(t)
    BY <2>15 DEF RecordEvent, BackOff, Go
  <2>16. CASE SlowDown(t)
    BY <2>16 DEF SlowDown, BackOff, Go, Larger, Smaller
  <2>17. ASSUME NEW b \in BOOLEAN, AttemptFails(t, b) PROVE SessionInv'
    BY <2>17 DEF AttemptFails, BackOff, Go
  <2>18. ASSUME NEW b \in BOOLEAN, LoginAnswered(t, b) PROVE SessionInv'
    BY <2>18 DEF LoginAnswered, Go
  <2>19. ASSUME NEW b \in BOOLEAN, ContentAnswered(t, b) PROVE SessionInv'
    BY <2>19 DEF ContentAnswered, Go
  <2>20. ASSUME NEW d \in Delays, CooldownHost(t, d) PROVE SessionInv'
    BY <2>20 DEF CooldownHost, Go, Larger
  <2>. QED BY <1>4, <2>1, <2>2, <2>3, <2>4, <2>5, <2>6, <2>7, <2>8, <2>9, <2>10, <2>11, <2>12,
           <2>13, <2>14, <2>15, <2>16, <2>17, <2>18, <2>19, <2>20 DEF Step
<1>. QED BY <1>1, <1>2, <1>3, <1>4 DEF Next

\* Every step keeps the reservations at hosts.
LEMMA ReservedStep ==
    ASSUME ClockTypeOK, ControlTypeOK, SessionInv, ReservedInv, Next PROVE ReservedInv'
<1>. USE Constants DEF ClockTypeOK, ControlTypeOK, Steps, SessionInv, pacing, rate, semaphore, windows, session, poolVars, history, ReservedInv
<1>1. CASE Tick
  BY <1>1 DEF Tick, Less, Older, Smaller
<1>2. CASE CancelAll
  BY <1>2 DEF CancelAll
<1>3. CASE Shutdown
  BY <1>3 DEF Shutdown
<1>4. ASSUME NEW t \in Threads, Step(t) PROVE ReservedInv'
  <2>1. ASSUME NEW h \in Hosts, Take(t, h) PROVE ReservedInv'
    BY <2>1 DEF Take, Go
  <2>2. CASE Attempt(t)
    BY <2>2 DEF Attempt, Go
  <2>3. CASE Retry(t)
    BY <2>3 DEF Retry, Go
  <2>4. CASE Raise(t)
    BY <2>4 DEF Raise, Go
  <2>5. CASE LockHost(t)
    BY <2>5 DEF LockHost, Go
  <2>6. CASE Pace(t)
    BY <2>6 DEF Pace, Go
  <2>7. CASE ReserveHost(t)
    BY <2>7 DEF ReserveHost, Go, Larger
  <2>8. CASE MeasureWait(t)
    BY <2>8 DEF MeasureWait, Go
  <2>9. CASE WakeUp(t)
    BY <2>9 DEF WakeUp, Go
  <2>10. CASE AcquirePermit(t)
    BY <2>10 DEF AcquirePermit, Go
  <2>11. CASE ReserveSlot(t)
    BY <2>11 DEF ReserveSlot, Go, Larger
  <2>12. CASE Send(t)
    BY <2>12 DEF Send, Go
  <2>13. ASSUME NEW o \in {"success", "throttled", "failed"}, Answer(t, o) PROVE ReservedInv'
    BY <2>13 DEF Answer, Leave, Go
  <2>14. CASE ReportSuccess(t)
    BY <2>14 DEF ReportSuccess, Go
  <2>15. CASE RecordEvent(t)
    BY <2>15 DEF RecordEvent, BackOff, Go
  <2>16. CASE SlowDown(t)
    BY <2>16 DEF SlowDown, BackOff, Go, Larger, Smaller
  <2>17. ASSUME NEW b \in BOOLEAN, AttemptFails(t, b) PROVE ReservedInv'
    BY <2>17 DEF AttemptFails, BackOff, Go
  <2>18. ASSUME NEW b \in BOOLEAN, LoginAnswered(t, b) PROVE ReservedInv'
    BY <2>18 DEF LoginAnswered, Go
  <2>19. ASSUME NEW b \in BOOLEAN, ContentAnswered(t, b) PROVE ReservedInv'
    BY <2>19 DEF ContentAnswered, Go
  <2>20. ASSUME NEW d \in Delays, CooldownHost(t, d) PROVE ReservedInv'
    BY <2>20 DEF CooldownHost, Go, Larger
  <2>. QED BY <1>4, <2>1, <2>2, <2>3, <2>4, <2>5, <2>6, <2>7, <2>8, <2>9, <2>10, <2>11, <2>12,
           <2>13, <2>14, <2>15, <2>16, <2>17, <2>18, <2>19, <2>20 DEF Step
<1>. QED BY <1>1, <1>2, <1>3, <1>4 DEF Next

\* Every step keeps the slots apart.
LEMMA SlotsStep ==
    ASSUME ClockTypeOK, ControlTypeOK, SessionInv, SlotsSpaced, Next PROVE SlotsSpaced'
<1>. USE Constants DEF ClockTypeOK, ControlTypeOK, Steps, SessionInv, pacing, rate, semaphore, windows, session, poolVars, history, SlotsSpaced
<1>1. CASE Tick
  BY <1>1 DEF Tick, Less, Older, Smaller
<1>2. CASE CancelAll
  BY <1>2 DEF CancelAll
<1>3. CASE Shutdown
  BY <1>3 DEF Shutdown
<1>4. ASSUME NEW t \in Threads, Step(t) PROVE SlotsSpaced'
  <2>1. ASSUME NEW h \in Hosts, Take(t, h) PROVE SlotsSpaced'
    BY <2>1 DEF Take, Go
  <2>2. CASE Attempt(t)
    BY <2>2 DEF Attempt, Go
  <2>3. CASE Retry(t)
    BY <2>3 DEF Retry, Go
  <2>4. CASE Raise(t)
    BY <2>4 DEF Raise, Go
  <2>5. CASE LockHost(t)
    BY <2>5 DEF LockHost, Go
  <2>6. CASE Pace(t)
    BY <2>6 DEF Pace, Go
  <2>7. CASE ReserveHost(t)
    BY <2>7 DEF ReserveHost, Go, Larger
  <2>8. CASE MeasureWait(t)
    BY <2>8 DEF MeasureWait, Go
  <2>9. CASE WakeUp(t)
    BY <2>9 DEF WakeUp, Go
  <2>10. CASE AcquirePermit(t)
    BY <2>10 DEF AcquirePermit, Go
  <2>11. CASE ReserveSlot(t)
    BY <2>11 DEF ReserveSlot, Go, Larger
  <2>12. CASE Send(t)
    BY <2>12 DEF Send, Go
  <2>13. ASSUME NEW o \in {"success", "throttled", "failed"}, Answer(t, o) PROVE SlotsSpaced'
    BY <2>13 DEF Answer, Leave, Go
  <2>14. CASE ReportSuccess(t)
    BY <2>14 DEF ReportSuccess, Go
  <2>15. CASE RecordEvent(t)
    BY <2>15 DEF RecordEvent, BackOff, Go
  <2>16. CASE SlowDown(t)
    BY <2>16 DEF SlowDown, BackOff, Go, Larger, Smaller
  <2>17. ASSUME NEW b \in BOOLEAN, AttemptFails(t, b) PROVE SlotsSpaced'
    BY <2>17 DEF AttemptFails, BackOff, Go
  <2>18. ASSUME NEW b \in BOOLEAN, LoginAnswered(t, b) PROVE SlotsSpaced'
    BY <2>18 DEF LoginAnswered, Go
  <2>19. ASSUME NEW b \in BOOLEAN, ContentAnswered(t, b) PROVE SlotsSpaced'
    BY <2>19 DEF ContentAnswered, Go
  <2>20. ASSUME NEW d \in Delays, CooldownHost(t, d) PROVE SlotsSpaced'
    BY <2>20 DEF CooldownHost, Go, Larger
  <2>. QED BY <1>4, <2>1, <2>2, <2>3, <2>4, <2>5, <2>6, <2>7, <2>8, <2>9, <2>10, <2>11, <2>12,
           <2>13, <2>14, <2>15, <2>16, <2>17, <2>18, <2>19, <2>20 DEF Step
<1>. QED BY <1>1, <1>2, <1>3, <1>4 DEF Next

\* Every step honours the cooldowns.
LEMMA CooldownsStep ==
    ASSUME ClockTypeOK, ControlTypeOK, SessionInv, ReservedInv, CooldownsHonoured, Next PROVE CooldownsHonoured'
<1>. USE Constants DEF ClockTypeOK, ControlTypeOK, Steps, SessionInv, pacing, rate, semaphore, windows, session, poolVars, history, ReservedInv, CooldownsHonoured
<1>1. CASE Tick
  BY <1>1 DEF Tick, Less, Older, Smaller
<1>2. CASE CancelAll
  BY <1>2 DEF CancelAll
<1>3. CASE Shutdown
  BY <1>3 DEF Shutdown
<1>4. ASSUME NEW t \in Threads, Step(t) PROVE CooldownsHonoured'
  <2>1. ASSUME NEW h \in Hosts, Take(t, h) PROVE CooldownsHonoured'
    BY <2>1 DEF Take, Go
  <2>2. CASE Attempt(t)
    BY <2>2 DEF Attempt, Go
  <2>3. CASE Retry(t)
    BY <2>3 DEF Retry, Go
  <2>4. CASE Raise(t)
    BY <2>4 DEF Raise, Go
  <2>5. CASE LockHost(t)
    BY <2>5 DEF LockHost, Go
  <2>6. CASE Pace(t)
    BY <2>6 DEF Pace, Go
  <2>7. CASE ReserveHost(t)
    BY <2>7 DEF ReserveHost, Go, Larger
  <2>8. CASE MeasureWait(t)
    BY <2>8 DEF MeasureWait, Go
  <2>9. CASE WakeUp(t)
    BY <2>9 DEF WakeUp, Go
  <2>10. CASE AcquirePermit(t)
    BY <2>10 DEF AcquirePermit, Go
  <2>11. CASE ReserveSlot(t)
    BY <2>11 DEF ReserveSlot, Go, Larger
  <2>12. CASE Send(t)
    BY <2>12 DEF Send, Go
  <2>13. ASSUME NEW o \in {"success", "throttled", "failed"}, Answer(t, o) PROVE CooldownsHonoured'
    BY <2>13 DEF Answer, Leave, Go
  <2>14. CASE ReportSuccess(t)
    BY <2>14 DEF ReportSuccess, Go
  <2>15. CASE RecordEvent(t)
    BY <2>15 DEF RecordEvent, BackOff, Go
  <2>16. CASE SlowDown(t)
    BY <2>16 DEF SlowDown, BackOff, Go, Larger, Smaller
  <2>17. ASSUME NEW b \in BOOLEAN, AttemptFails(t, b) PROVE CooldownsHonoured'
    BY <2>17 DEF AttemptFails, BackOff, Go
  <2>18. ASSUME NEW b \in BOOLEAN, LoginAnswered(t, b) PROVE CooldownsHonoured'
    BY <2>18 DEF LoginAnswered, Go
  <2>19. ASSUME NEW b \in BOOLEAN, ContentAnswered(t, b) PROVE CooldownsHonoured'
    BY <2>19 DEF ContentAnswered, Go
  <2>20. ASSUME NEW d \in Delays, CooldownHost(t, d) PROVE CooldownsHonoured'
    BY <2>20 DEF CooldownHost, Go, Larger
  <2>. QED BY <1>4, <2>1, <2>2, <2>3, <2>4, <2>5, <2>6, <2>7, <2>8, <2>9, <2>10, <2>11, <2>12,
           <2>13, <2>14, <2>15, <2>16, <2>17, <2>18, <2>19, <2>20 DEF Step
<1>. QED BY <1>1, <1>2, <1>3, <1>4 DEF Next

------------------------------------------------------------------------------
(* Theorems *)

\* The inductive invariant holds of every behaviour: its parts hold initially and
\* every step, of a thread, of the pool or of the clock, keeps them.
THEOREM Invariance == Spec => []IInv
<1>1. Init => IInv
  <2>. SUFFICES ASSUME Init PROVE IInv
    OBVIOUS
  <2>. USE Constants DEF Init
  <2>1. ClockTypeOK
    BY DEF ClockTypeOK
  <2>2. ControlTypeOK
    <3>1. PICK l \in {"pending", "anonymous"} : login = [h \in Hosts |-> l]
      OBVIOUS
    <3>2. login \in [Hosts -> {"pending", "anonymous", "verified", "rejected"}]
      BY <3>1
    <3>3. /\ hostLock \in [Hosts -> Threads \cup {"free"}] /\ pc \in [Threads -> Steps]
          /\ host \in [Threads -> Hosts \cup {NoHost}]
          /\ request \in [Threads -> {"content", "token", "login"}]
          /\ queued \in 0..Tasks /\ pool \in {"collect", "shutdown", "over"}
      BY DEF Steps
    <3>4. failed \in BOOLEAN /\ cancelled \in BOOLEAN
      OBVIOUS
    <3>. QED BY <3>2, <3>3, <3>4 DEF ControlTypeOK
  <2>3. Holders = {}
    BY DEF Holders
  <2>4. PermitInv
    BY <2>3, FS_EmptySet DEF PermitInv
  <2>5. SessionInv /\ ReservedInv /\ SlotsSpaced /\ CooldownsHonoured
    BY DEF SessionInv, ReservedInv, SlotsSpaced, CooldownsHonoured
  <2>. QED BY <2>1, <2>2, <2>4, <2>5, TypeParts DEF IInv
<1>2. IInv /\ [Next]_vars => IInv'
  <2>. SUFFICES ASSUME IInv, [Next]_vars PROVE IInv'
    OBVIOUS
  <2>0. ClockTypeOK /\ ControlTypeOK /\ PermitInv
    BY TypeParts DEF IInv
  <2>1. CASE Next
    <3>1. ClockTypeOK' /\ ControlTypeOK' /\ PermitInv'
      BY <2>0, <2>1, ClockTypeStep, ControlTypeStep, PermitStep DEF IInv
    <3>2. TypeOK'
      BY <3>1 DEF TypeOK, ClockTypeOK, ControlTypeOK, PermitInv, Steps
    <3>. QED BY <2>0, <2>1, <3>2, SessionStep, ReservedStep, SlotsStep, CooldownsStep DEF IInv
  <2>2. CASE UNCHANGED vars
    BY <2>2 DEF vars, pacing, rate, semaphore, windows, session, poolVars, history, IInv, TypeOK,
                Holders, SessionInv, ReservedInv, SlotsSpaced, CooldownsHonoured
  <2>. QED BY <2>1, <2>2
<1>. QED BY <1>1, <1>2, PTL DEF Spec

\* Every variable keeps its type, and the permits that are not free are exactly those
\* of the threads between run's acquire and its release: none is lost or given twice
\* (AdaptiveRequestScheduler.run).
THEOREM TypeCorrect == Spec => []TypeOK
<1>1. IInv => TypeOK
  BY DEF IInv
<1>. QED BY <1>1, Invariance, PTL

\* Requests of the whole process get slots at least the interval of the highest rate
\* apart, whatever threads, hosts, cooldowns and rates there are
\* (AdaptiveRequestScheduler.run).
THEOREM SlotsAreSpaced == Spec => []SlotsSpaced
<1>1. IInv => SlotsSpaced
  BY DEF IInv
<1>. QED BY <1>1, Invariance, PTL

\* Nobody goes on into a cooldown: a request that comes to a host that cools down had
\* passed its pacing before, and a slot before the end of the global cooldown was
\* given before it (pace_host, run).
THEOREM CooldownsAreHonoured == Spec => []CooldownsHonoured
<1>1. IInv => CooldownsHonoured
  BY DEF IInv
<1>. QED BY <1>1, Invariance, PTL

\* A host's login changes once: whoever answers a login holds the host's lock and
\* found it pending under that lock (_ensure_authenticated).
THEOREM LoginIsSettled == Spec => LoginSettled
<1>. DEFINE Settled == \A h \in Hosts : login[h] # "pending" => login'[h] = login[h]
<1>1. IInv /\ [Next]_vars => [Settled]_vars
  <2>. SUFFICES ASSUME IInv, Next PROVE Settled
    OBVIOUS
  <2>0. ControlTypeOK /\ SessionInv
    BY TypeParts DEF IInv
  <2>1. CASE Tick \/ CancelAll \/ Shutdown
    BY <2>1 DEF Tick, CancelAll, Shutdown, session
  <2>2. ASSUME NEW t \in Threads, Step(t) PROVE Settled
    <3>1. ASSUME NEW b \in BOOLEAN, LoginAnswered(t, b) PROVE Settled
      BY <2>0, <3>1 DEF LoginAnswered, session, ControlTypeOK, SessionInv
    <3>2. CASE ~\E b \in BOOLEAN : LoginAnswered(t, b)
      <4>1. UNCHANGED login
        BY <2>2, <3>2 DEF Step, Take, Attempt, Retry, Raise, LockHost, Pace, ReserveHost,
             MeasureWait, WakeUp, AcquirePermit, ReserveSlot, Send, Answer, Leave, ReportSuccess,
             RecordEvent, SlowDown, AttemptFails, ContentAnswered, CooldownHost, session
      <4>. QED BY <4>1
    <3>. QED BY <3>1, <3>2
  <2>. QED BY <2>1, <2>2 DEF Next
<1>. QED BY <1>1, Invariance, PTL DEF Spec, LoginSettled
================================================================================
