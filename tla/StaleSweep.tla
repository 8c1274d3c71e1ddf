----------------------------- MODULE StaleSweep -----------------------------
(***************************************************************************)
(* The timing of stale-request recovery, for one run of Handle: its        *)
(* heartbeat goroutine against the sweep of the scheduler.  Both run in    *)
(* the one process of the server and die with it; the sweep goes on when   *)
(* it is started again.  Every statement may fail.  Time is counted in     *)
(* seconds, the resolution in which the columns are stored.  A statement   *)
(* takes up to WriteLatency from reading the clock to taking effect; what  *)
(* is due starts at once.  This module says what the steps Lapse and Stall *)
(* of ImagePipeline stand for: how many ticks in a row a stall must lose,  *)
(* and when a lapse is acted upon.                                         *)
(***************************************************************************)
EXTENDS Integers

CONSTANTS
  HeartbeatInterval,       \* HEARTBEAT_INTERVAL_SECONDS
  StaleProcessingTimeout,  \* STALE_PROCESSING_TIMEOUT_SECONDS
  SweepPeriod,             \* EveryMinute()
  WriteLatency,            \* bound on a statement, assumed of the database
  MaxTime                  \* bound: where the clock stops

\* A sweep ends before the next begins.
ASSUME TimingAssumption ==
  /\ HeartbeatInterval \in Nat \ {0}
  /\ StaleProcessingTimeout \in Nat
  /\ SweepPeriod \in Nat \ {0}
  /\ WriteLatency \in 0 .. SweepPeriod
  /\ MaxTime \in Nat

VARIABLES
  now,
  status,      \* of the request row
  lastBeat,    \* last_heartbeat_at of the row
  up,          \* the server process is running
  worker,      \* of the goroutine that runs Handle
  write,       \* clock reading of its UPDATE under way, or None
  due,         \* a tick waits in the ticker's channel, which holds one
  nextTick,    \* when the ticker fires again
  nextSweep,   \* when the scheduler calls the sweep again
  threshold,   \* of the sweep under way, or None
  missed,      \* history: heartbeats that failed in a row
  lost,        \* history: sweeps that failed in a row
  abandonedAt, \* history: since when nobody works for the request
  upSince      \* history: when the process was last started

None == -(StaleProcessingTimeout + 1)   \* below every threshold

row      == <<status, lastBeat>>
ticker   == <<due, nextTick>>
schedule == <<nextSweep, threshold, lost>>
process  == <<up, upSince>>
vars == <<now, row, process, worker, write, ticker, missed, schedule,
          abandonedAt>>

TerminalStatuses == {"completed", "partially_completed", "failed"}

Init ==
  /\ now = 0
  /\ status = "pending"
  /\ lastBeat = 0
  /\ up = TRUE /\ upSince = 0
  /\ worker = "waiting"
  /\ write = None
  /\ due = FALSE
  /\ nextTick = 0
  /\ nextSweep \in 1 .. SweepPeriod
  /\ threshold = None
  /\ missed = 0 /\ lost = 0
  /\ abandonedAt = 0

(***************************************************************************)
(* Handle: mark the row, then beat until it returns, in whatever way.      *)
(***************************************************************************)
ReadStart ==
  /\ worker = "waiting"
  /\ worker' = "marking"
  /\ write' = now
  /\ UNCHANGED <<now, row, process, ticker, missed, schedule, abandonedAt>>

MarkProcessing ==
  /\ worker = "marking"
  /\ write' = None
  /\ \/ /\ status' = "processing"
        /\ lastBeat' = write
        /\ worker' = "working"
        /\ nextTick' = now + HeartbeatInterval
        /\ UNCHANGED abandonedAt
     \/ /\ worker' = "gone"
        /\ abandonedAt' = now
        /\ UNCHANGED <<row, nextTick>>
  /\ UNCHANGED <<now, process, due, missed, schedule>>

\* The heartbeat goroutine runs until stop() has waited for it.
Beating == worker \in {"working", "stopping"}

TickOnce ==
  /\ Beating
  /\ now = nextTick
  /\ due' = TRUE
  /\ nextTick' = MaxTime + HeartbeatInterval
  /\ UNCHANGED <<now, row, process, worker, write, missed, schedule,
                 abandonedAt>>

Tick ==
  /\ Beating
  /\ now = nextTick
  /\ due' = TRUE
  /\ nextTick' = now + HeartbeatInterval
  /\ UNCHANGED <<now, row, process, worker, write, missed, schedule,
                 abandonedAt>>

BeginBeat ==
  /\ Beating
  /\ due /\ write = None
  /\ due' = FALSE
  /\ write' = now
  /\ UNCHANGED <<now, row, process, worker, nextTick, missed, schedule,
                 abandonedAt>>

\* The error of a tick is dropped; the next one comes an interval later.
Beat ==
  /\ Beating
  /\ write # None
  /\ write' = None
  /\ \/ lastBeat' = write /\ missed' = 0
     \/ missed' = missed + 1 /\ UNCHANGED lastBeat
  /\ UNCHANGED <<now, status, process, worker, ticker, schedule, abandonedAt>>

\* The terminal write, whatever the row says by now.
Finish ==
  /\ worker = "working"
  /\ worker' = "stopping"
  /\ status' \in TerminalStatuses
  /\ UNCHANGED <<now, lastBeat, process, write, ticker, missed, schedule,
                 abandonedAt>>

\* An early return (sizes not loaded, dimensions not recorded) or a terminal
\* write that fails: the row stays as it is.
ReturnUnfinished ==
  /\ worker = "working"
  /\ worker' = "stopping"
  /\ UNCHANGED <<now, row, process, write, ticker, missed, schedule,
                 abandonedAt>>

\* The deferred stop waits for a heartbeat under way.
StopHeartbeat ==
  /\ worker = "stopping"
  /\ write = None
  /\ worker' = "gone"
  /\ due' = FALSE
  /\ abandonedAt' = now
  /\ UNCHANGED <<now, row, process, write, nextTick, missed, schedule>>

(***************************************************************************)
(* The process.  What is under way when it dies is lost; had it landed, it *)
(* would have been the step before.                                        *)
(***************************************************************************)
Die ==
  /\ up
  /\ up' = FALSE
  /\ worker' = "gone"
  /\ abandonedAt' = IF worker = "gone" THEN abandonedAt ELSE now
  /\ write' = None /\ due' = FALSE /\ threshold' = None
  /\ UNCHANGED <<now, row, upSince, nextTick, missed, nextSweep, lost>>

Restart ==
  /\ ~up
  /\ up' = TRUE
  /\ upSince' = now
  /\ nextSweep' \in now + 1 .. now + SweepPeriod
  /\ lost' = 0
  /\ UNCHANGED <<now, row, worker, write, ticker, missed, threshold,
                 abandonedAt>>

(***************************************************************************)
(* SweepStaleProcessingRequests computes its threshold before the UPDATE.  *)
(***************************************************************************)
BeginSweep ==
  /\ up
  /\ now = nextSweep
  /\ threshold = None
  /\ threshold' = now - StaleProcessingTimeout
  /\ nextSweep' = now + SweepPeriod
  /\ UNCHANGED <<now, row, process, worker, write, ticker, missed, lost,
                 abandonedAt>>

SweepWithGrace ==
  /\ threshold # None
  /\ threshold' = None
  /\ lost' = 0
  /\ status' = IF status = "processing" /\ lastBeat + SweepPeriod < threshold
                 THEN "failed" ELSE status
  /\ UNCHANGED <<now, lastBeat, process, worker, write, ticker, missed,
                 nextSweep, abandonedAt>>

\* An error is logged; the rows wait for the next minute.
Sweep ==
  /\ threshold # None
  /\ threshold' = None
  /\ \/ /\ lost' = 0
        /\ status' = IF status = "processing" /\ lastBeat < threshold
                       THEN "failed" ELSE status
     \/ /\ lost' = lost + 1
        /\ UNCHANGED status
  /\ UNCHANGED <<now, lastBeat, process, worker, write, ticker, missed,
                 nextSweep, abandonedAt>>

\* A second passes unless something is due now.
Advance ==
  /\ now < MaxTime
  /\ write # None => now < write + WriteLatency
  /\ Beating => now < nextTick /\ ~(due /\ write = None)
  /\ threshold # None =>
       now < threshold + StaleProcessingTimeout + WriteLatency
  /\ up => now < nextSweep
  /\ now' = now + 1
  /\ UNCHANGED <<row, process, worker, write, ticker, missed, schedule,
                 abandonedAt>>

Next ==
  \/ ReadStart \/ MarkProcessing \/ Tick \/ BeginBeat \/ Beat \/ Finish
  \/ ReturnUnfinished \/ StopHeartbeat \/ Die \/ Restart \/ BeginSweep
  \/ Sweep \/ Advance

Spec == Init /\ [][Next]_vars

(***************************************************************************)
(* Properties.                                                             *)
(***************************************************************************)
\* From the start of one heartbeat to that of the next.
Gap == IF HeartbeatInterval < WriteLatency THEN WriteLatency
                                           ELSE HeartbeatInterval

\* The sweep takes the row of a Handle that is at work only if the timeout
\* leaves no room for the heartbeats that failed in a row: one interval and
\* two statements when none did, and one more interval for each that did.
\* With the defaults that takes seven of them, or statements of over 52 s.
OnlyTheSilentAreSwept ==
  [][worker = "working" /\ worker' = "working" /\ status' # status =>
       StaleProcessingTimeout <
         HeartbeatInterval + 2 * WriteLatency + missed * Gap]_vars

Later(t, u) == IF t < u THEN u ELSE t

\* While the server runs, a row left at "processing" by a Handle that returned
\* or died is failed within one period and one statement of the time when it
\* became stale or, if the server was down then, was started again, and one
\* more period for every sweep that failed in a row.
RecoveredInTime ==
  up /\ worker = "gone" /\ status = "processing" =>
    now <= Later(abandonedAt + StaleProcessingTimeout, upSince)
             + (1 + lost) * SweepPeriod + WriteLatency
=============================================================================
