--------------------------- MODULE AsyncFdWatcher ---------------------------
(***************************************************************************)
(* The file-descriptor watcher of the Bluetooth HAL                        *)
(* (src/bluetooth/async_fd_watcher.cc): one caller thread that registers   *)
(* descriptors, configures the timeout and stops the watcher, one watcher  *)
(* thread that sleeps in select() and runs the callbacks, and the pipe the *)
(* first uses to wake the second.                                          *)
(*                                                                         *)
(* A descriptor is a number; the data behind it is a count of units, and a *)
(* callback consumes one unit.                                             *)
(***************************************************************************)
EXTENDS Integers, FiniteSets

CONSTANTS
    Fds,            \* descriptors a client may watch
    MaxUnits,       \* bound: unread units behind one descriptor
    PipeCapacity,   \* bytes the notification pipe holds
    SelfStop,       \* may a callback call StopWatchingFileDescriptors?
    PipeMayFail     \* may pipe2() fail?

INVALID_FD == -1

ASSUME FdsAssumption == Fds \subseteq Nat
ASSUME BoundsAssumption ==
    /\ MaxUnits \in Nat \ {0}
    /\ PipeCapacity \in Nat \ {0}
ASSUME FlagsAssumption == SelfStop \in BOOLEAN /\ PipeMayFail \in BOOLEAN

VARIABLES
    running,      \* running_
    watched,      \* the keys of watched_fds_
    timeoutSet,   \* timeout_ms_ > 0
    timeoutCb,    \* timeout_cb_ is not null
    joinable,     \* thread_ owns a thread that has not been joined
    pipe,         \* unread bytes in the notification pipe
    pc,           \* where the watcher thread is; "none" if there is none
    readFds,      \* its read_fds, the notification descriptor left out
    selTimeout,   \* its timeout_ptr is not NULL
    saved,        \* its saved_callbacks that have not run yet
    active,       \* the descriptor whose callback is running
    caller,       \* where the caller is inside a call; "idle" outside
    avail         \* unread units behind each descriptor

watcherState == <<running, watched, timeoutSet, timeoutCb, joinable>>
threadState  == <<pc, readFds, selTimeout, saved, active>>
vars == <<watcherState, threadState, pipe, caller, avail>>

ThreadPc == {"none", "loop", "fill", "select", "timeout", "timeout_cb",
             "collect", "invoke", "callback",
             "self_notify", "self_clear", "self_clear_timeout", "ended",
             "terminated"}
CallerPc == {"idle", "exchange", "pipe", "launch",
             "notify", "join", "clear", "clear_timeout", "cfg_notify",
             "terminated"}

TypeOK ==
    /\ running \in BOOLEAN
    /\ watched \subseteq Fds
    /\ timeoutSet \in BOOLEAN
    /\ timeoutCb \in BOOLEAN
    /\ joinable \in BOOLEAN
    /\ pipe \in 0..PipeCapacity
    /\ pc \in ThreadPc
    /\ readFds \subseteq Fds
    /\ selTimeout \in BOOLEAN
    /\ saved \subseteq Fds
    /\ active \in Fds \cup {INVALID_FD}
    /\ caller \in CallerPc
    /\ avail \in [Fds -> 0..MaxUnits]

\* timeout_ms_ has no initialiser: the first value may be anything.
Init ==
    /\ running = FALSE
    /\ watched = {}
    /\ timeoutSet \in BOOLEAN
    /\ timeoutCb = FALSE
    /\ joinable = FALSE
    /\ pipe = 0
    /\ pc = "none"
    /\ readFds = {}
    /\ selTimeout = FALSE
    /\ saved = {}
    /\ active = INVALID_FD
    /\ caller = "idle"
    /\ avail = [fd \in Fds |-> 0]

-----------------------------------------------------------------------------
\* Mutation: the notification is not written.
NotifyNobody == pipe' = pipe

\* A nonblocking write of one byte: a full pipe drops it, and is readable anyway.
notifyThread == pipe' = IF pipe < PipeCapacity THEN pipe + 1 ELSE pipe

\* The descriptors select() reports.
Ready == {fd \in readFds : avail[fd] > 0}

\* std::terminate(): neither thread takes another step.
Terminate ==
    /\ caller' = "terminated"
    /\ pc' = "terminated"
    /\ UNCHANGED <<watcherState, readFds, selTimeout, saved, active, pipe, avail>>

-----------------------------------------------------------------------------
(* WatchFdForNonBlockingReads and tryStartThread, on the caller.           *)

WatchFd(fd) ==
    /\ caller = "idle"
    /\ watched' = watched \cup {fd}
    /\ caller' = "exchange"
    /\ UNCHANGED <<running, timeoutSet, timeoutCb, joinable, threadState,
                   pipe, avail>>

\* Mutation: a second start is not turned away.
NeverStarted == FALSE
AlreadyStarted == running

tryStartThread ==
    /\ caller = "exchange"
    /\ running' = TRUE
    /\ caller' = IF AlreadyStarted THEN "idle" ELSE "pipe"
    /\ UNCHANGED <<watched, timeoutSet, timeoutCb, joinable, threadState,
                   pipe, avail>>

CreatePipe ==
    /\ caller = "pipe"
    /\ pipe' = 0
    /\ caller' = "launch"
    /\ UNCHANGED <<watcherState, threadState, avail>>

\* pipe2() fails: -1 is returned and running_ keeps the value just stored.
CreatePipeFails ==
    /\ PipeMayFail
    /\ caller = "pipe"
    /\ caller' = "idle"
    /\ UNCHANGED <<watcherState, threadState, pipe, avail>>

LaunchThread ==
    /\ caller = "launch"
    /\ ~joinable
    /\ joinable' = TRUE
    /\ pc' = "loop"
    /\ caller' = "idle"
    /\ UNCHANGED <<running, watched, timeoutSet, timeoutCb, readFds, selTimeout,
                   saved, active, pipe, avail>>

\* Assigning to a std::thread that is still joinable ends the process.
LaunchTerminates ==
    /\ caller = "launch"
    /\ joinable
    /\ Terminate

-----------------------------------------------------------------------------
(* StopWatchingFileDescriptors and stopThread, on the caller.              *)

StopWatching ==
    /\ caller = "idle"
    /\ running
    /\ running' = FALSE
    /\ caller' = "notify"
    /\ UNCHANGED <<watched, timeoutSet, timeoutCb, joinable, threadState,
                   pipe, avail>>

StopNotify ==
    /\ caller = "notify"
    /\ notifyThread
    /\ caller' = "join"
    /\ UNCHANGED <<watcherState, threadState, avail>>

\* Mutation: the join does not wait.
ThreadMayRun == TRUE
ThreadHasEnded == pc = "ended"

StopJoin ==
    /\ caller = "join"
    /\ joinable
    /\ ThreadHasEnded
    /\ joinable' = FALSE
    /\ pc' = "none"
    /\ caller' = "clear"
    /\ UNCHANGED <<running, watched, timeoutSet, timeoutCb, readFds, selTimeout,
                   saved, active, pipe, avail>>

\* join() throws when thread_ owns no thread, and nothing catches it.
StopJoinTerminates ==
    /\ caller = "join"
    /\ ~joinable
    /\ Terminate

StopClear ==
    /\ caller = "clear"
    /\ watched' = {}
    /\ caller' = "clear_timeout"
    /\ UNCHANGED <<running, timeoutSet, timeoutCb, joinable, threadState,
                   pipe, avail>>

StopClearTimeout ==
    /\ caller = "clear_timeout"
    /\ timeoutCb' = FALSE
    /\ caller' = "idle"
    /\ UNCHANGED <<running, watched, timeoutSet, joinable, threadState,
                   pipe, avail>>

-----------------------------------------------------------------------------
(* ConfigureTimeout, on the caller.                                        *)

ConfigureTimeout(positive) ==
    /\ caller = "idle"
    /\ timeoutSet' = positive
    /\ timeoutCb' = TRUE
    /\ caller' = "cfg_notify"
    /\ UNCHANGED <<running, watched, joinable, threadState,
                   pipe, avail>>

ConfigureNotify ==
    /\ caller = "cfg_notify"
    /\ notifyThread
    /\ caller' = "idle"
    /\ UNCHANGED <<watcherState, threadState, avail>>

-----------------------------------------------------------------------------
(* ThreadRoutine, on the watcher thread.                                   *)

LoopCondition == running

LoopTest ==
    /\ pc = "loop"
    /\ pc' = IF LoopCondition THEN "fill" ELSE "ended"
    /\ UNCHANGED <<watcherState, readFds, selTimeout, saved, active,
                   pipe, caller, avail>>

\* watched_fds_ and timeout_ms_ are read without their locks.
FillFdSet ==
    /\ pc = "fill"
    /\ readFds' = watched
    /\ selTimeout' = timeoutSet
    /\ pc' = "select"
    /\ UNCHANGED <<watcherState, saved, active, pipe, caller, avail>>

\* Mutation: the notification byte is left in the pipe.
NotificationUnread == pipe' = pipe
ReadNotification == pipe' = pipe - 1

\* The notification byte is consumed and every other descriptor is skipped.
SelectNotified ==
    /\ pc = "select"
    /\ pipe > 0
    /\ ReadNotification
    /\ pc' = "loop"
    /\ UNCHANGED <<watcherState, readFds, selTimeout, saved, active,
                   caller, avail>>

SelectReady ==
    /\ pc = "select"
    /\ pipe = 0
    /\ Ready # {}
    /\ readFds' = Ready
    /\ pc' = "collect"
    /\ UNCHANGED <<watcherState, selTimeout, saved, active,
                   pipe, caller, avail>>

SelectTimeout ==
    /\ pc = "select"
    /\ selTimeout
    /\ pipe = 0
    /\ Ready = {}
    /\ pc' = "timeout"
    /\ UNCHANGED <<watcherState, readFds, selTimeout, saved, active,
                   pipe, caller, avail>>

SelectError ==
    /\ pc = "select"
    /\ pc' = "loop"
    /\ UNCHANGED <<watcherState, readFds, selTimeout, saved, active,
                   pipe, caller, avail>>

SaveTimeoutCallback ==
    /\ pc = "timeout"
    /\ pc' = IF timeoutSet /\ timeoutCb THEN "timeout_cb" ELSE "loop"
    /\ UNCHANGED <<watcherState, readFds, selTimeout, saved, active,
                   pipe, caller, avail>>

\* The timeout callback may set a timeout of its own (ConfigureTimeout).
RunTimeoutCallback ==
    /\ pc = "timeout_cb"
    /\ pc' = "loop"
    /\ \/ UNCHANGED <<timeoutSet, timeoutCb, pipe>>
       \/ /\ timeoutSet' \in BOOLEAN
          /\ timeoutCb' = TRUE
          /\ notifyThread
    /\ UNCHANGED <<running, watched, joinable, readFds, selTimeout, saved,
                   active, caller, avail>>

\* Mutation: the callbacks of all descriptors are saved, ready or not.
AllCallbacks == watched
SavedCallbacks == watched \cap readFds

\* Under internal_mutex_: a descriptor that is no longer watched is dropped.
CollectCallbacks ==
    /\ pc = "collect"
    /\ saved' = SavedCallbacks
    /\ pc' = "invoke"
    /\ UNCHANGED <<watcherState, readFds, selTimeout, active,
                   pipe, caller, avail>>

\* The map is ordered: the lowest saved descriptor goes first.
InvokeCallback(fd) ==
    /\ pc = "invoke"
    /\ fd \in saved
    /\ \A other \in saved : fd <= other
    /\ saved' = saved \ {fd}
    /\ active' = fd
    /\ pc' = "callback"
    /\ UNCHANGED <<watcherState, readFds, selTimeout,
                   pipe, caller, avail>>

CallbackReturns ==
    /\ pc = "callback"
    /\ avail' = [avail EXCEPT ![active] = @ - 1]
    /\ active' = INVALID_FD
    /\ pc' = "invoke"
    /\ UNCHANGED <<watcherState, readFds, selTimeout, saved,
                   pipe, caller>>

CallbacksDone ==
    /\ pc = "invoke"
    /\ saved = {}
    /\ pc' = "loop"
    /\ UNCHANGED <<watcherState, readFds, selTimeout, saved, active,
                   pipe, caller, avail>>

-----------------------------------------------------------------------------
(* stopThread called from a callback: the thread does not join itself.     *)

SelfStopWatching ==
    /\ SelfStop
    /\ pc = "callback"
    /\ running
    /\ running' = FALSE
    /\ pc' = "self_notify"
    /\ UNCHANGED <<watched, timeoutSet, timeoutCb, joinable, readFds, selTimeout,
                   saved, active, pipe, caller, avail>>

SelfNotify ==
    /\ pc = "self_notify"
    /\ notifyThread
    /\ pc' = "self_clear"
    /\ UNCHANGED <<watcherState, readFds, selTimeout, saved, active,
                   caller, avail>>

SelfClear ==
    /\ pc = "self_clear"
    /\ watched' = {}
    /\ pc' = "self_clear_timeout"
    /\ UNCHANGED <<running, timeoutSet, timeoutCb, joinable, readFds, selTimeout,
                   saved, active, pipe, caller, avail>>

SelfClearTimeout ==
    /\ pc = "self_clear_timeout"
    /\ timeoutCb' = FALSE
    /\ pc' = "callback"
    /\ UNCHANGED <<running, watched, timeoutSet, joinable, readFds, selTimeout,
                   saved, active, pipe, caller, avail>>

-----------------------------------------------------------------------------
(* The kernel: one more unit becomes readable behind fd.                   *)

DataArrives(fd) ==
    /\ avail[fd] < MaxUnits
    /\ avail' = [avail EXCEPT ![fd] = @ + 1]
    /\ UNCHANGED <<watcherState, threadState, pipe, caller>>

-----------------------------------------------------------------------------
\* What the caller does inside a call it has begun.
CallerStep ==
    \/ tryStartThread \/ CreatePipe \/ CreatePipeFails
    \/ LaunchThread \/ LaunchTerminates
    \/ StopNotify \/ StopJoin \/ StopJoinTerminates
    \/ StopClear \/ StopClearTimeout
    \/ ConfigureNotify

CallerCalls ==
    \/ \E fd \in Fds : WatchFd(fd)
    \/ StopWatching
    \/ \E positive \in BOOLEAN : ConfigureTimeout(positive)

SelectSucceeds == SelectNotified \/ SelectReady

\* What the watcher thread does of itself; SelectError is the kernel's choice.
ThreadStep ==
    \/ LoopTest \/ FillFdSet
    \/ SelectSucceeds \/ SelectTimeout
    \/ SaveTimeoutCallback \/ RunTimeoutCallback
    \/ CollectCallbacks
    \/ \E fd \in Fds : InvokeCallback(fd)
    \/ CallbackReturns \/ CallbacksDone
    \/ SelfNotify \/ SelfClear \/ SelfClearTimeout

Next ==
    \/ CallerStep
    \/ CallerCalls
    \/ ThreadStep
    \/ SelectError
    \/ SelfStopWatching
    \/ \E fd \in Fds : DataArrives(fd)

\* Both threads are scheduled, callbacks return, and select() does not fail
\* for ever while it could report something.
Fairness ==
    /\ WF_vars(CallerStep)
    /\ WF_vars(ThreadStep)
    /\ SF_vars(SelectSucceeds)

Spec == Init /\ [][Next]_vars
FairSpec == Spec /\ Fairness

-----------------------------------------------------------------------------
(* Properties.                                                             *)

\* Once StopWatchingFileDescriptors has returned to the caller, the watcher
\* thread is gone, no callback is running and none is left to run.
QuiescentWhenStopped ==
    (caller = "idle" /\ ~running) =>
        /\ pc = "none"
        /\ active = INVALID_FD
        /\ watched = {}

\* The wake-up of a stop cannot be lost: a thread that has been asked to stop
\* and is (or is about to be) asleep in select() has a notification to read,
\* or the caller is just about to write one.
StopWakesThread ==
    (~running /\ pc \in {"fill", "select"}) =>
        (pipe > 0 \/ caller = "notify")

\* A callback only runs for a descriptor that has data to read, so that a read
\* in it cannot block the watcher thread (and with it every other descriptor).
CallbackHasData == active # INVALID_FD => avail[active] > 0

\* "Start the thread if not started yet" (line 45): once a start is over and
\* running_ is set, there is a watcher thread in its loop, not yet joined.
StartedWhenRunning ==
    (running /\ caller \notin {"pipe", "launch"}) =>
        (joinable /\ pc \notin {"none", "ended", "terminated"})

\* A stop that has begun on the caller is over some time: the join returns.
StopCompletes == (caller \in {"notify", "join"}) ~> (caller \notin {"notify", "join"})

\* A descriptor that the thread put in its read set is served, or the watcher
\* is stopped: select() errors and notifications delay it but cannot starve it,
\* unless the caller reconfigures the timeout for ever (every notification skips
\* the data callbacks of its iteration).
NoticedDataIsServed ==
    <>[](caller # "cfg_notify") =>
        \A fd \in Fds :
            (running /\ fd \in readFds /\ pc = "select" /\ avail[fd] > 0)
                ~> (active = fd \/ ~running)

-----------------------------------------------------------------------------
(* The inductive invariants.                                               *)

InCallback == {"callback", "self_notify", "self_clear", "self_clear_timeout"}

\* Why CallbackHasData holds, whatever callbacks and pipes do: only the watcher
\* thread consumes data, and it consumes what it has seen.
CallbackInv ==
    /\ pc \in InCallback => active \in Fds
    /\ active # INVALID_FD => pc \in InCallback \cup {"terminated"}
    /\ active # INVALID_FD => avail[active] > 0 /\ active \notin saved
    /\ pc = "collect" => \A fd \in readFds : avail[fd] > 0
    /\ \A fd \in saved : avail[fd] > 0
    /\ ~joinable => pc \in {"none", "terminated"}
    /\ pc = "terminated" <=> caller = "terminated"

\* Why StopWakesThread holds: the thread got past the test of running_ before
\* the flag was cleared, and the caller has not got past the join since.
WakeInv ==
    (~running /\ pc \in {"fill", "select"}) =>
        (caller = "notify" \/ (caller = "join" /\ pipe > 0))

\* What holds of every step of every client.
SafetyInv == TypeOK /\ CallbackInv /\ WakeInv

ThreadDead == {"none", "ended", "terminated"}

\* How the caller's place and the thread's place go together when callbacks do
\* not stop the watcher and pipes can be created.
LifecycleInv ==
    /\ pc \notin {"terminated", "self_notify", "self_clear", "self_clear_timeout"}
    /\ joinable <=> pc # "none"
    /\ caller \in {"pipe", "launch"} => running /\ pc = "none"
    /\ caller \in {"notify", "join"} => ~running /\ pc # "none"
    /\ caller \in {"clear", "clear_timeout"} => ~running /\ pc = "none"
    /\ caller = "clear_timeout" => watched = {}
    /\ caller \in {"idle", "cfg_notify", "exchange"} =>
           IF running THEN pc \notin ThreadDead ELSE pc = "none"
    /\ (~running /\ caller \in {"idle", "cfg_notify"}) => watched = {}
    /\ pc \in {"invoke", "callback"} => saved \subseteq watched

\* The watcher keeps the promise of FdDispatcher. The stop takes effect when the
\* watcher thread has been joined; watched_fds_ is emptied only after that.
Dispatcher == INSTANCE FdDispatcher WITH
    registered <- IF caller \in {"clear", "clear_timeout"} THEN {} ELSE watched,
    stopping <- caller \in {"notify", "join"},
    NoFd <- INVALID_FD

ImplementsDispatcher == Dispatcher!Spec
=============================================================================
