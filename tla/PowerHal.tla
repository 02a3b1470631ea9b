------------------------------ MODULE PowerHal ------------------------------
(***************************************************************************)
(* The power HAL (src/power/power_hikey.c): framework threads that give    *)
(* power hints and switch the display on and off, the touch boost they     *)
(* ask for, and the thread that takes the boost back when its time is      *)
(* over. The module is loaded into the framework's process, so that its    *)
(* entry points run on whatever thread calls them.                         *)
(*                                                                         *)
(* The values written to sysfs are named for what they mean; time is a     *)
(* count of ticks of the monotonic clock.                                  *)
(***************************************************************************)
EXTENDS Naturals

CONSTANTS
    Callers,             \* framework threads
    InteractiveCallers,  \* those that call setInteractive
    NoOne,               \* nobody holds the lock
    max_clusters,        \* CPU clusters with a maximum frequency to set
    LowPowerClusters,    \* those whose low_power_max is configured
    BoostTime,           \* schedtune_boost_time_ns, in ticks
    MaxTime              \* bound: the last tick at which a boost may begin

ASSUME CallersAssumption ==
    InteractiveCallers \subseteq Callers /\ NoOne \notin Callers
ASSUME ClustersAssumption ==
    max_clusters \in Nat /\ LowPowerClusters \subseteq 1..max_clusters
ASSUME TimesAssumption == BoostTime \in Nat \ {0} /\ MaxTime \in Nat

VARIABLES
    lock,             \* who holds the mutex
    signal_lock,      \* value of the semaphore
    deboost_time,     \* end of the current boost, 0 if there is none
    low_power_mode,   \* the static flag
    schedtune_fd_ok,  \* schedtune_boost_fd >= 0
    schedtune,        \* sysfs: the scheduler boost
    devfreq,          \* sysfs: the minimal DDR and GPU frequencies
    max_freq,         \* sysfs: the maximal frequency of each cluster
    io_is_busy,       \* sysfs: the governor's io_is_busy
    now,              \* the monotonic clock
    pc,               \* where each caller is in its call
    hint_now,         \* now in schedtune_boost, of the caller inside it
    on,               \* argument of each caller's hikey_cpufreq_set_interactive
    i,                \* its loop counter
    thread,           \* where schedtune_deboost_thread is
    wake_at,          \* when its nanosleep ends
    screen_on,        \* history: the argument of the last setInteractive
    promised          \* history: until when the last hint asked for a boost

boost  == <<signal_lock, deboost_time, schedtune, devfreq>>
cpu    == <<max_freq, io_is_busy>>
calls  == <<pc, hint_now, on, i>>
sleeper == <<thread, wake_at>>
vars == <<lock, boost, low_power_mode, schedtune_fd_ok, cpu, now, calls,
          sleeper, screen_on, promised>>

CallerPc == {"idle", "hint", "boost", "cpufreq", "write_low", "write_normal"}

TypeOK ==
    /\ lock \in Callers \cup {NoOne}
    /\ signal_lock \in Nat
    /\ deboost_time \in Nat
    /\ low_power_mode \in BOOLEAN
    /\ schedtune_fd_ok \in BOOLEAN
    /\ schedtune \in {"norm", "interactive"}
    /\ devfreq \in {"orig", "boost"}
    /\ max_freq \in [1..max_clusters -> {"normal_max", "low_power_max"}]
    /\ io_is_busy \in BOOLEAN
    /\ now \in Nat \ {0}
    /\ pc \in [Callers -> CallerPc]
    /\ hint_now \in Nat
    /\ on \in [Callers -> BOOLEAN]
    /\ i \in [Callers -> 1..(max_clusters + 1)]
    /\ thread \in {"none", "wait", "check", "sleep"}
    /\ wake_at \in Nat
    /\ screen_on \in BOOLEAN
    /\ promised \in Nat

\* After hikey_power_init: the semaphore starts at 1, and the thread exists if
\* the scheduler has a boost to write to.
Init ==
    /\ lock = NoOne
    /\ signal_lock = 1
    /\ deboost_time = 0
    /\ low_power_mode = FALSE
    /\ schedtune_fd_ok \in BOOLEAN
    /\ schedtune = "norm" /\ devfreq = "orig"
    /\ max_freq = [cluster \in 1..max_clusters |-> "normal_max"]
    /\ io_is_busy = FALSE
    /\ now = 1
    /\ pc = [c \in Callers |-> "idle"]
    /\ hint_now = 0
    /\ on = [c \in Callers |-> TRUE]
    /\ i = [c \in Callers |-> 1]
    /\ thread = IF schedtune_fd_ok THEN "wait" ELSE "none"
    /\ wake_at = 0
    /\ screen_on = TRUE
    /\ promised = 0

-----------------------------------------------------------------------------
(* hikey_power_hint(POWER_HINT_INTERACTION)                                *)

HintInteraction(c) ==
    /\ pc[c] = "idle"
    /\ lock = NoOne
    /\ lock' = c
    /\ pc' = [pc EXCEPT ![c] = "hint"]
    /\ UNCHANGED <<boost, low_power_mode, schedtune_fd_ok, cpu, now, hint_now,
                   on, i, sleeper, screen_on, promised>>

\* The interactive governor takes the pulse, or there is nothing else to try.
interactive_boostpulse(c) ==
    /\ pc[c] = "hint"
    /\ lock' = NoOne
    /\ pc' = [pc EXCEPT ![c] = "idle"]
    /\ UNCHANGED <<boost, low_power_mode, schedtune_fd_ok, cpu, now, hint_now,
                   on, i, sleeper, screen_on, promised>>

\* It does not: schedtune_boost reads the clock ...
BoostReadsClock(c) ==
    /\ pc[c] = "hint"
    /\ schedtune_fd_ok
    /\ now <= MaxTime
    /\ hint_now' = now
    /\ pc' = [pc EXCEPT ![c] = "boost"]
    /\ UNCHANGED <<lock, boost, low_power_mode, schedtune_fd_ok, cpu, now,
                   on, i, sleeper, screen_on, promised>>

\* Mutation: every hint counts as the first of a boost.
EveryHint == TRUE
NoBoostYet == deboost_time = 0

\* Mutation: the thread is not woken.
WakeNobody == signal_lock' = signal_lock
WakeThread == signal_lock' = signal_lock + 1

\* ... boosts and wakes the thread if no boost is under way, and moves the end.
schedtune_boost(c) ==
    /\ pc[c] = "boost"
    /\ IF NoBoostYet
       THEN /\ schedtune' = "interactive"
            /\ devfreq' = IF low_power_mode THEN "orig" ELSE "boost"
            /\ WakeThread
       ELSE UNCHANGED <<schedtune, devfreq, signal_lock>>
    /\ deboost_time' = hint_now + BoostTime
    /\ promised' = deboost_time'
    /\ lock' = NoOne
    /\ pc' = [pc EXCEPT ![c] = "idle"]
    /\ UNCHANGED <<low_power_mode, schedtune_fd_ok, cpu, now, hint_now,
                   on, i, sleeper, screen_on>>

-----------------------------------------------------------------------------
(* hikey_power_hint(POWER_HINT_LOW_POWER) and setInteractive. Both run     *)
(* hikey_cpufreq_set_interactive, the first with the lock held.            *)

HintLowPower(c, data) ==
    /\ pc[c] = "idle"
    /\ lock = NoOne
    /\ lock' = c
    /\ low_power_mode' = data
    /\ on' = [on EXCEPT ![c] = TRUE]
    /\ i' = [i EXCEPT ![c] = 1]
    /\ pc' = [pc EXCEPT ![c] = "cpufreq"]
    /\ UNCHANGED <<boost, schedtune_fd_ok, cpu, now, hint_now, sleeper, screen_on, promised>>

SetInteractive(c, value) ==
    /\ c \in InteractiveCallers
    /\ pc[c] = "idle"
    /\ on' = [on EXCEPT ![c] = value]
    /\ i' = [i EXCEPT ![c] = 1]
    /\ pc' = [pc EXCEPT ![c] = "cpufreq"]
    /\ screen_on' = value
    /\ UNCHANGED <<lock, boost, low_power_mode, schedtune_fd_ok, cpu, now,
                   hint_now, sleeper, promised>>

\* One turn of the loop reads low_power_mode, without the lock ...
ReadMode(c) ==
    /\ pc[c] = "cpufreq"
    /\ i[c] <= max_clusters
    /\ pc' = [pc EXCEPT ![c] =
                 IF (~on[c] \/ low_power_mode) /\ i[c] \in LowPowerClusters
                 THEN "write_low" ELSE "write_normal"]
    /\ UNCHANGED <<lock, boost, low_power_mode, schedtune_fd_ok, cpu, now,
                   hint_now, on, i, sleeper, screen_on, promised>>

\* ... and then writes what it calls for.
WriteMaxFreq(c) ==
    /\ pc[c] \in {"write_low", "write_normal"}
    /\ max_freq' = [max_freq EXCEPT ![i[c]] =
                       IF pc[c] = "write_low" THEN "low_power_max" ELSE "normal_max"]
    /\ i' = [i EXCEPT ![c] = @ + 1]
    /\ pc' = [pc EXCEPT ![c] = "cpufreq"]
    /\ UNCHANGED <<lock, boost, low_power_mode, schedtune_fd_ok, io_is_busy, now,
                   hint_now, on, sleeper, screen_on, promised>>

SetIoIsBusy(c) ==
    /\ pc[c] = "cpufreq"
    /\ i[c] > max_clusters
    /\ io_is_busy' = on[c]
    /\ lock' = IF lock = c THEN NoOne ELSE lock
    /\ pc' = [pc EXCEPT ![c] = "idle"]
    /\ UNCHANGED <<boost, low_power_mode, schedtune_fd_ok, max_freq, now, hint_now,
                   on, i, sleeper, screen_on, promised>>

-----------------------------------------------------------------------------
(* schedtune_deboost_thread                                                *)

SemWait ==
    /\ thread = "wait"
    /\ signal_lock > 0
    /\ signal_lock' = signal_lock - 1
    /\ thread' = "check"
    /\ UNCHANGED <<lock, deboost_time, schedtune, devfreq, low_power_mode,
                   schedtune_fd_ok, cpu, now, calls, wake_at, screen_on, promised>>

\* Mutation: what counts is the end of the sleep, not a later end of the boost.
SleptEnough == wake_at <= now
BoostOver == deboost_time <= now

DeboostTooEarly ==
    /\ thread = "check"
    /\ lock = NoOne
    /\ ~BoostOver
    /\ wake_at' = deboost_time
    /\ thread' = "sleep"
    /\ UNCHANGED <<lock, boost, low_power_mode, schedtune_fd_ok, cpu, now, calls,
                   screen_on, promised>>

SleepEnds ==
    /\ thread = "sleep"
    /\ now >= wake_at
    /\ thread' = "check"
    /\ UNCHANGED <<lock, boost, low_power_mode, schedtune_fd_ok, cpu, now, calls,
                   wake_at, screen_on, promised>>

\* A signal ends the nanosleep, whose result is not looked at.
SleepInterrupted ==
    /\ thread = "sleep"
    /\ now < wake_at
    /\ thread' = "check"
    /\ UNCHANGED <<lock, boost, low_power_mode, schedtune_fd_ok, cpu, now, calls,
                   wake_at, screen_on, promised>>

\* Mutation: devfreq is left alone in low power mode.
DevfreqOfMode == devfreq' = IF low_power_mode THEN devfreq ELSE "orig"
DevfreqOff == devfreq' = "orig"

Deboost ==
    /\ thread = "check"
    /\ lock = NoOne
    /\ BoostOver
    /\ schedtune' = "norm"
    /\ DevfreqOff
    /\ deboost_time' = 0
    /\ thread' = "wait"
    /\ UNCHANGED <<lock, signal_lock, low_power_mode, schedtune_fd_ok, cpu, now,
                   calls, wake_at, screen_on, promised>>

-----------------------------------------------------------------------------
Tick ==
    /\ now < MaxTime + BoostTime
    /\ now' = now + 1
    /\ UNCHANGED <<lock, boost, low_power_mode, schedtune_fd_ok, cpu, calls,
                   sleeper, screen_on, promised>>

CallerStep(c) ==
    \/ interactive_boostpulse(c) \/ BoostReadsClock(c) \/ schedtune_boost(c)
    \/ ReadMode(c) \/ WriteMaxFreq(c) \/ SetIoIsBusy(c)

CallBegins(c) ==
    \/ HintInteraction(c)
    \/ \E flag \in BOOLEAN : HintLowPower(c, flag) \/ SetInteractive(c, flag)

ThreadStep == SemWait \/ DeboostTooEarly \/ SleepEnds \/ Deboost

Next ==
    \/ \E c \in Callers : CallBegins(c) \/ CallerStep(c)
    \/ ThreadStep
    \/ SleepInterrupted
    \/ Tick

Spec == Init /\ [][Next]_vars

\* Calls that have begun return, the thread is scheduled and time goes on.
FairSpec ==
    /\ Spec
    /\ \A c \in Callers : WF_vars(CallerStep(c))
    /\ WF_vars(ThreadStep)
    /\ WF_vars(Tick)

-----------------------------------------------------------------------------
(* Properties.                                                             *)

\* A boost is not cut short: until the end that the last hint has moved it to,
\* the scheduler stays boosted, whatever wake-ups are left over from earlier
\* boosts and wherever the sleep towards an earlier end stops.
BoostNotCutShort == promised > now => schedtune = "interactive"

\* A boost is never forgotten: while there is one, the thread is on its way to
\* take it back or has a wake-up waiting in the semaphore.
BoostIsBacked ==
    (schedtune = "interactive" \/ devfreq = "boost") =>
        /\ deboost_time # 0
        /\ signal_lock > 0 \/ thread \in {"check", "sleep"}

\* Wake-ups do not pile up however often hints come: one for the boost under
\* way and the one the semaphore is created with.
WakeupsBounded == signal_lock <= 2

\* When the hints leave the lock free for good, every boost ends.
BoostEnds ==
    <>[](lock = NoOne) => <>[](schedtune = "norm" /\ devfreq = "orig")

-----------------------------------------------------------------------------
(* The inductive invariant behind the first three.                         *)

\* One token of the semaphore, or the thread that has taken it.
Tokens == signal_lock + (IF thread \in {"check", "sleep"} THEN 1 ELSE 0)

BoostInv ==
    /\ TypeOK
    /\ deboost_time # 0 <=> schedtune = "interactive"
    /\ deboost_time # 0 => deboost_time = promised
    /\ promised > now => deboost_time # 0
    /\ devfreq = "boost" => deboost_time # 0
    /\ deboost_time # 0 => Tokens > 0
    /\ Tokens <= 2
    /\ deboost_time = 0 => Tokens <= 1
    /\ \A c \in Callers : pc[c] \in {"hint", "boost"} => lock = c
    /\ schedtune_fd_ok <=> thread # "none"
    /\ \A c \in Callers : pc[c] = "boost" => schedtune_fd_ok
    /\ \A c \in Callers : pc[c] \in {"write_low", "write_normal"} => i[c] <= max_clusters
=============================================================================
