-------------------------- MODULE StaleSweepProofs --------------------------
(***************************************************************************)
(* Proofs about StaleSweep, for every setting of the two environment       *)
(* variables, every period and latency, and any number of failing          *)
(* statements, deaths and restarts.                                        *)
(***************************************************************************)
EXTENDS StaleSweep, TLAPS

TypeOK ==
  /\ now \in Nat
  /\ status \in {"pending", "processing"} \cup TerminalStatuses
  /\ lastBeat \in Nat
  /\ up \in BOOLEAN
  /\ worker \in {"waiting", "marking", "working", "stopping", "gone"}
  /\ write \in Nat \cup {None}
  /\ due \in BOOLEAN
  /\ nextTick \in Nat
  /\ nextSweep \in Nat
  /\ threshold \in Int
  /\ missed \in Nat
  /\ lost \in Nat
  /\ abandonedAt \in Nat
  /\ upSince \in Nat

\* The longest from the reading of the clock that a row carries to the start
\* of a heartbeat, when m of them failed in between; what k sweeps cost.
Silence(m) == HeartbeatInterval + WriteLatency + m * Gap
Delay(k)   == k * SweepPeriod

\* By when the sweep that will take an abandoned row begins, if none fails.
Deadline ==
  Later(abandonedAt + StaleProcessingTimeout, upSince) + SweepPeriod

\* Only a running process has goroutines, statements and sweeps.
Phases ==
  /\ worker # "gone" => up
  /\ worker \in {"waiting", "marking"} => status = "pending"
  /\ worker \in {"waiting", "gone"} => write = None
  /\ worker = "marking" => write # None
  /\ threshold # None => up

\* The row of a Handle at work is never older than an interval and two
\* statements, the one that was late and the one under way, and a gap for
\* every heartbeat that failed.
Punctual ==
  /\ lastBeat <= now
  /\ write # None => write <= now /\ now <= write + WriteLatency
  /\ Beating =>
       /\ now <= nextTick
       /\ nextTick <= now + HeartbeatInterval
       /\ write = None /\ ~due => nextTick <= lastBeat + Silence(missed)
       /\ write = None /\ due => now <= lastBeat + Silence(missed)
       /\ write # None => write <= lastBeat + Silence(missed)
       /\ write # None /\ ~due => nextTick <= write + HeartbeatInterval

\* The sweep runs once per period, on a threshold read a statement ago.
Scheduled ==
  /\ up => now <= nextSweep /\ nextSweep <= now + SweepPeriod
  /\ threshold # None =>
       /\ threshold + StaleProcessingTimeout <= now
       /\ now <= threshold + StaleProcessingTimeout + WriteLatency
       /\ nextSweep = threshold + StaleProcessingTimeout + SweepPeriod

\* Either the sweep that may take an abandoned row is under way, or the next
\* one begins in time.
Doomed ==
  worker = "gone" =>
    /\ lastBeat <= abandonedAt
    /\ up /\ status = "processing" =>
         IF threshold # None
         THEN lastBeat < threshold =>
                threshold + StaleProcessingTimeout <= Deadline + Delay(lost)
         ELSE nextSweep <= Deadline + Delay(lost)

Inv == TypeOK /\ Phases /\ Punctual /\ Scheduled /\ Doomed

\* One more heartbeat that fails is one more gap, which has room for a
\* statement and for an interval.
LEMMA OneMoreMissed ==
  ASSUME NEW m \in Nat
  PROVE  /\ Gap \in Nat /\ HeartbeatInterval <= Gap /\ WriteLatency <= Gap
         /\ Silence(m) \in Nat /\ Silence(m + 1) = Silence(m) + Gap
         /\ HeartbeatInterval + WriteLatency <= Silence(m)
         /\ Silence(0) = HeartbeatInterval + WriteLatency
<1>1. Gap \in Nat /\ HeartbeatInterval <= Gap /\ WriteLatency <= Gap
  BY TimingAssumption DEF Gap
<1>2. ASSUME NEW g \in Nat
      PROVE  m * g \in Nat /\ (m + 1) * g = m * g + g /\ 0 * g = 0
  OBVIOUS
<1>3. m * Gap \in Nat /\ (m + 1) * Gap = m * Gap + Gap /\ 0 * Gap = 0
  BY <1>1, <1>2
<1> QED
  BY <1>1, <1>3, TimingAssumption DEF Silence

\* One more sweep that fails costs one more period.
LEMMA OneMoreLost ==
  ASSUME NEW k \in Nat
  PROVE  /\ Delay(k) \in Nat /\ Delay(k + 1) = Delay(k) + SweepPeriod
         /\ Delay(0) = 0
<1>1. ASSUME NEW p \in Nat
      PROVE  k * p \in Nat /\ (k + 1) * p = k * p + p /\ 0 * p = 0
  OBVIOUS
<1> QED
  BY <1>1, TimingAssumption DEF Delay

\* The invariant holds of a pending request.
LEMMA InitInv == Init => Inv
<1> SUFFICES ASSUME Init
             PROVE  Inv
  OBVIOUS
<1> USE TimingAssumption DEF Init, None
<1>1. TypeOK
  <2>1. /\ threshold \in Int /\ nextSweep \in Nat /\ now \in Nat
        /\ lastBeat \in Nat /\ nextTick \in Nat /\ missed \in Nat
        /\ lost \in Nat /\ abandonedAt \in Nat /\ upSince \in Nat
    OBVIOUS
  <2>2. /\ due \in BOOLEAN /\ up \in BOOLEAN /\ write \in Nat \cup {None}
    BY Zenon
  <2> QED
    BY <2>1, <2>2 DEF TypeOK
<1>2. Phases
  BY DEF Phases
<1>3. Punctual
  BY DEF Punctual, Beating
<1>4. Scheduled
  BY DEF Scheduled
<1>5. Doomed
  BY DEF Doomed
<1> QED
  BY <1>1, <1>2, <1>3, <1>4, <1>5 DEF Inv

\* Every step keeps the invariant.
LEMMA NextInv == Inv /\ [Next]_vars => Inv'
<1> SUFFICES ASSUME Inv, [Next]_vars
             PROVE  Inv'
  OBVIOUS
<1> USE TimingAssumption DEF Inv, TypeOK, None, TerminalStatuses
<1>missed. /\ Gap \in Nat /\ HeartbeatInterval <= Gap /\ WriteLatency <= Gap
           /\ Silence(missed) \in Nat
           /\ Silence(missed + 1) = Silence(missed) + Gap
           /\ HeartbeatInterval + WriteLatency <= Silence(missed)
           /\ Silence(0) = HeartbeatInterval + WriteLatency
  BY OneMoreMissed
<1>lost. /\ Delay(lost) \in Nat /\ Delay(0) = 0
         /\ Delay(lost + 1) = Delay(lost) + SweepPeriod
  BY OneMoreLost
<1>deadline. Deadline \in Nat
  BY DEF Deadline, Later
<1>1. CASE ReadStart
  BY <1>1, <1>missed DEF ReadStart, row, ticker, schedule, process, Phases,
     Punctual, Beating, Scheduled, Doomed, Deadline
<1>2. CASE MarkProcessing
  BY <1>2, <1>missed DEF MarkProcessing, row, schedule, process, Phases,
     Punctual, Beating, Scheduled, Doomed, Deadline
<1>3. CASE Tick
  BY <1>3, <1>missed DEF Tick, row, schedule, process, Phases, Punctual,
     Beating, Scheduled, Doomed, Deadline
<1>4. CASE BeginBeat
  <2>1. /\ Beating /\ due /\ write = None /\ due' = FALSE /\ write' = now
        /\ UNCHANGED <<now, status, lastBeat, up, upSince, worker, nextTick,
                       missed, nextSweep, threshold, lost, abandonedAt>>
    BY <1>4 DEF BeginBeat, row, schedule, process
  <2>2. TypeOK' /\ Phases'
    BY <2>1 DEF Phases, Beating
  <2>3. Punctual'
    BY <2>1, <1>missed DEF Punctual, Beating
  <2>4. Scheduled' /\ Doomed'
    BY <2>1 DEF Scheduled, Doomed, Deadline, Beating
  <2> QED
    BY <2>2, <2>3, <2>4
<1>5. CASE Beat
  BY <1>5, <1>missed DEF Beat, ticker, schedule, process, Phases, Punctual,
     Beating, Scheduled, Doomed, Deadline
<1>6. CASE Finish
  BY <1>6, <1>missed DEF Finish, ticker, schedule, process, Phases, Punctual,
     Beating, Scheduled, Doomed, Deadline
<1>7. CASE ReturnUnfinished
  BY <1>7, <1>missed DEF ReturnUnfinished, row, ticker, schedule, process,
     Phases, Punctual, Beating, Scheduled, Doomed, Deadline
<1>8. CASE StopHeartbeat
  <2>1. /\ worker = "stopping" /\ write = None /\ worker' = "gone"
        /\ due' = FALSE /\ abandonedAt' = now
        /\ UNCHANGED <<now, status, lastBeat, up, upSince, write, nextTick,
                       missed, nextSweep, threshold, lost>>
    BY <1>8 DEF StopHeartbeat, row, schedule, process
  <2>2. TypeOK' /\ Phases'
    BY <2>1 DEF Phases
  <2>3. Punctual' /\ Scheduled'
    BY <2>1 DEF Punctual, Beating, Scheduled
  <2>4. Doomed'
    BY <2>1, <1>lost DEF Phases, Punctual, Scheduled, Doomed, Deadline, Later
  <2> QED
    BY <2>2, <2>3, <2>4
<1>9. CASE Die
  <2>1. /\ up' = FALSE /\ worker' = "gone" /\ write' = None /\ due' = FALSE
        /\ threshold' = None
        /\ abandonedAt' = (IF worker = "gone" THEN abandonedAt ELSE now)
        /\ UNCHANGED <<now, status, lastBeat, upSince, nextTick, missed,
                       nextSweep, lost>>
    BY <1>9 DEF Die, row
  <2>2. /\ status' \in {"pending", "processing"} \cup TerminalStatuses
        /\ write' \in Nat \cup {None} /\ threshold' \in Int
        /\ abandonedAt' \in Nat
    BY <2>1
  <2>3. TypeOK' /\ Phases'
    BY <2>1, <2>2, Zenon DEF Phases
  <2>4. Punctual' /\ Scheduled' /\ Doomed'
    BY <2>1 DEF Punctual, Beating, Scheduled, Doomed
  <2> QED
    BY <2>3, <2>4
<1>10. CASE Restart
  BY <1>10, <1>lost DEF Restart, row, ticker, Phases, Punctual, Beating,
     Scheduled, Doomed, Deadline, Later
<1>11. CASE BeginSweep
  BY <1>11, <1>missed, <1>lost, <1>deadline
     DEF BeginSweep, row, ticker, process, Phases, Punctual, Beating,
     Scheduled, Doomed, Deadline
<1>12. CASE Sweep
  BY <1>12, <1>missed, <1>lost, <1>deadline
     DEF Sweep, ticker, process, Phases, Punctual, Beating, Scheduled, Doomed,
     Deadline, Later
<1>13. CASE Advance
  BY <1>13, <1>missed, <1>lost, <1>deadline
     DEF Advance, row, ticker, schedule, process, Phases, Punctual, Beating,
     Scheduled, Doomed, Deadline
<1>14. CASE UNCHANGED vars
  BY <1>14, <1>missed DEF vars, row, ticker, schedule, process, Phases,
     Punctual, Beating, Scheduled, Doomed, Deadline
<1> QED
  BY <1>1, <1>2, <1>3, <1>4, <1>5, <1>6, <1>7, <1>8, <1>9, <1>10, <1>11, <1>12,
     <1>13, <1>14 DEF Next

\* Hence it holds of every reachable state.
LEMMA InvHolds == Spec => []Inv
  BY InitInv, NextInv, PTL DEF Spec

\* A sweep that takes the row of a Handle at work is the fault of the setting
\* or of failed heartbeats: the timeout had no room for those missed in a row.
THEOREM NoFalsePositive == Spec => OnlyTheSilentAreSwept
<1>1. ASSUME Inv, [Next]_vars, worker = "working", worker' = "working",
             status' # status
      PROVE  StaleProcessingTimeout <
               HeartbeatInterval + 2 * WriteLatency + missed * Gap
  <2>1. Sweep
    BY <1>1 DEF Next, vars, row, ReadStart, MarkProcessing, Tick, BeginBeat,
       Beat, Finish, ReturnUnfinished, StopHeartbeat, Die, Restart, BeginSweep,
       Advance
  <2>2. lastBeat < threshold /\ threshold # None
    BY <1>1, <2>1 DEF Sweep
  <2>3. missed * Gap = Silence(missed) - HeartbeatInterval - WriteLatency
    <3>1. missed * Gap \in Nat
      BY <1>1, OneMoreMissed DEF Inv, TypeOK
    <3> QED
      BY <3>1, TimingAssumption DEF Silence
  <2>4. Silence(missed) \in Nat
    BY <1>1, OneMoreMissed DEF Inv, TypeOK
  <2>5. now <= lastBeat + Silence(missed) + WriteLatency
    BY <1>1, <2>4, TimingAssumption DEF Inv, TypeOK, Punctual, Beating, None
  <2>6. threshold + StaleProcessingTimeout <= now
    BY <1>1, <2>2 DEF Inv, Scheduled
  <2> QED
    BY <1>1, <2>2, <2>3, <2>4, <2>5, <2>6, TimingAssumption DEF Inv, TypeOK
<1>2. Inv /\ [Next]_vars =>
        [worker = "working" /\ worker' = "working" /\ status' # status =>
           StaleProcessingTimeout <
             HeartbeatInterval + 2 * WriteLatency + missed * Gap]_vars
  BY <1>1
<1> QED
  BY <1>2, InvHolds, PTL DEF Spec, OnlyTheSilentAreSwept

\* While the server is up the sweep is prompt: a row left at "processing" by a
\* Handle that returned or died is failed within a period and a statement of
\* becoming stale or of the restart, and a period for each sweep that failed.
THEOREM Recovery == Spec => []RecoveredInTime
<1>1. ASSUME Inv, up, worker = "gone", status = "processing"
      PROVE  now <= Later(abandonedAt + StaleProcessingTimeout, upSince)
                      + (1 + lost) * SweepPeriod + WriteLatency
  <2>1. /\ Delay(lost) \in Nat
        /\ (1 + lost) * SweepPeriod = SweepPeriod + Delay(lost)
    <3>1. Delay(lost + 1) = Delay(lost) + SweepPeriod /\ Delay(lost) \in Nat
      BY <1>1, OneMoreLost DEF Inv, TypeOK
    <3>2. Delay(lost + 1) = (1 + lost) * SweepPeriod
      BY <1>1, TimingAssumption DEF Inv, TypeOK, Delay
    <3> QED
      BY <3>1, <3>2, TimingAssumption
  <2>2. now <= Deadline + Delay(lost) + WriteLatency
    <3>1. abandonedAt + StaleProcessingTimeout <= Deadline /\ Deadline \in Nat
      BY <1>1, TimingAssumption DEF Inv, TypeOK, Deadline, Later
    <3> QED
      BY <1>1, <2>1, <3>1, TimingAssumption
         DEF Inv, TypeOK, Scheduled, Doomed, None
  <2> DEFINE base == Later(abandonedAt + StaleProcessingTimeout, upSince)
  <2>3. base \in Nat /\ Deadline = base + SweepPeriod
    BY <1>1, TimingAssumption DEF Inv, TypeOK, Deadline, Later
  <2> QED
    BY <1>1, <2>1, <2>2, <2>3, TimingAssumption DEF Inv, TypeOK
<1>2. Inv => RecoveredInTime
  BY <1>1 DEF RecoveredInTime
<1> QED
  BY <1>2, InvHolds, PTL
=============================================================================
