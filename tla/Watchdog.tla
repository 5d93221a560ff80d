------------------------------ MODULE Watchdog ------------------------------
(***************************************************************************)
(* WatchdogTimer of common/watchdog.py: a daemon thread that wakes up every *)
(* CheckInterval, compares the time since the last heartbeat with Timeout  *)
(* and, when it is larger, ends the process with os._exit(1).              *)
(*                                                                         *)
(* Time is counted in ticks.  A check that is due happens before the next  *)
(* tick: the thread is never starved by the thread it watches.             *)
(***************************************************************************)
EXTENDS Naturals

CONSTANTS
    Timeout,            \* timeout_seconds, in ticks
    CheckInterval       \* check_interval, in ticks

ASSUME WatchdogAssumption ==
    /\ Timeout \in Nat
    /\ CheckInterval \in Nat \ {0}

VARIABLES
    watching,           \* the watchdog thread exists and "running" is set
    quiet,              \* time.time() - last_progress
    sleep               \* what is left of the thread's time.sleep

watchdogVars == <<watching, quiet, sleep>>

WatchdogTypeOK ==
    /\ watching \in BOOLEAN
    /\ quiet \in Nat
    /\ sleep \in 0..CheckInterval

WatchdogInit ==
    /\ watching = FALSE
    /\ quiet = 0
    /\ sleep = 0

\* Mutant: the thread is started before "running" is set, and ends at once.
StartNotRunning ==
    /\ ~watching
    /\ quiet' = 0
    /\ sleep' = CheckInterval
    /\ UNCHANGED watching

\* start(): last_progress is reset and the thread begins with a sleep.
Start ==
    /\ ~watching
    /\ watching' = TRUE
    /\ quiet' = 0
    /\ sleep' = CheckInterval

\* heartbeat()
Heartbeat ==
    /\ quiet' = 0
    /\ UNCHANGED <<watching, sleep>>

\* stop(), or the end of the process that owns the thread.
Stop ==
    /\ watching
    /\ watching' = FALSE
    /\ quiet' = 0
    /\ sleep' = 0

\* One tick of time.
Elapse ==
    /\ watching
    /\ sleep > 0
    /\ sleep' = sleep - 1
    /\ quiet' = quiet + 1
    /\ UNCHANGED watching

\* Mutant: the timeout is rounded up.
CheckPassesLate ==
    /\ watching
    /\ sleep = 0
    /\ quiet <= Timeout + 1
    /\ sleep' = CheckInterval
    /\ UNCHANGED <<watching, quiet>>

\* The thread wakes up and sees progress: it goes back to sleep.
CheckPasses ==
    /\ watching
    /\ sleep = 0
    /\ quiet <= Timeout
    /\ sleep' = CheckInterval
    /\ UNCHANGED <<watching, quiet>>

\* The thread wakes up and sees no progress: the process is gone.
CheckExpires ==
    /\ watching
    /\ sleep = 0
    /\ quiet > Timeout
    /\ Stop

WatchdogNext ==
    Start \/ Heartbeat \/ Stop \/ Elapse \/ CheckPasses \/ CheckExpires

WatchdogSpec == WatchdogInit /\ [][WatchdogNext]_watchdogVars

(***************************************************************************)
(* A process that stops reporting progress is ended within one check       *)
(* interval after the timeout: _run never lets it live longer, wherever in *)
(* its sleep the thread was at the last heartbeat.                         *)
(***************************************************************************)
PromptDetection == watching => quiet <= Timeout + CheckInterval

\* The inductive strengthening of PromptDetection: what is left of the sleep
\* is already paid for.
QuietBudget == watching => quiet + sleep <= Timeout + CheckInterval

=============================================================================
