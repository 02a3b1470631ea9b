------------------------ MODULE AsyncFdWatcherProofs ------------------------
(***************************************************************************)
(* Proofs about AsyncFdWatcher, for every set of descriptors, every bound  *)
(* and every capacity of the notification pipe.                            *)
(***************************************************************************)
EXTENDS AsyncFdWatcher, TLAPS

\* The initial states, whatever the uninitialised timeout is.
LEMMA InitSafety == Init => SafetyInv
<1> SUFFICES ASSUME Init PROVE SafetyInv
  OBVIOUS
<1>0. 0 \in 0..MaxUnits /\ 0 \in 0..PipeCapacity
  BY BoundsAssumption
<1>1. TypeOK
  <2>1. avail \in [Fds -> 0..MaxUnits]
    BY <1>0 DEF Init
  <2> QED
    BY <1>0, <2>1 DEF Init, TypeOK, ThreadPc, CallerPc
<1>2. CallbackInv /\ WakeInv
  BY DEF Init, CallbackInv, WakeInv, InCallback
<1> QED
  BY <1>1, <1>2 DEF SafetyInv

\* Every step of the caller, of the watcher thread and of the kernel preserves
\* the invariant behind StopWakesThread and CallbackHasData.
LEMMA NextSafety == SafetyInv /\ [Next]_vars => SafetyInv'
<1> SUFFICES ASSUME SafetyInv, [Next]_vars PROVE SafetyInv'
  OBVIOUS
<1> USE FdsAssumption, BoundsAssumption
    DEF SafetyInv, TypeOK, CallbackInv, WakeInv, ThreadPc, CallerPc, InCallback,
        INVALID_FD, watcherState, threadState
<1>1. CASE tryStartThread
  BY <1>1 DEF tryStartThread, AlreadyStarted
<1>2. CASE CreatePipe
  BY <1>2 DEF CreatePipe
<1>3. CASE CreatePipeFails
  BY <1>3 DEF CreatePipeFails
<1>4. CASE LaunchThread
  BY <1>4 DEF LaunchThread
<1>5. CASE LaunchTerminates
  BY <1>5 DEF LaunchTerminates, Terminate
<1>6. CASE StopNotify
  BY <1>6 DEF StopNotify, notifyThread
<1>7. CASE StopJoin
  BY <1>7 DEF StopJoin, ThreadHasEnded
<1>8. CASE StopJoinTerminates
  BY <1>8 DEF StopJoinTerminates, Terminate
<1>9. CASE StopClear
  BY <1>9 DEF StopClear
<1>10. CASE StopClearTimeout
  BY <1>10 DEF StopClearTimeout
<1>11. CASE ConfigureNotify
  BY <1>11 DEF ConfigureNotify, notifyThread
<1>12. ASSUME NEW fd \in Fds, WatchFd(fd) PROVE  SafetyInv'
  BY <1>12 DEF WatchFd
<1>13. CASE StopWatching
  BY <1>13 DEF StopWatching
<1>14. ASSUME NEW positive \in BOOLEAN, ConfigureTimeout(positive) PROVE  SafetyInv'
  BY <1>14 DEF ConfigureTimeout
<1>15. CASE LoopTest
  BY <1>15 DEF LoopTest, LoopCondition
<1>16. CASE FillFdSet
  BY <1>16 DEF FillFdSet
<1>17. CASE SelectNotified
  BY <1>17 DEF SelectNotified, ReadNotification
<1>18. CASE SelectReady
  BY <1>18 DEF SelectReady, Ready
<1>19. CASE SelectTimeout
  BY <1>19 DEF SelectTimeout, Ready
<1>20. CASE SelectError
  BY <1>20 DEF SelectError
<1>21. CASE SaveTimeoutCallback
  BY <1>21 DEF SaveTimeoutCallback
<1>22. CASE RunTimeoutCallback
  <2>1. CASE UNCHANGED <<timeoutSet, timeoutCb, pipe>>
    BY <1>22, <2>1 DEF RunTimeoutCallback
  <2>2. CASE timeoutSet' \in BOOLEAN /\ timeoutCb' = TRUE /\ notifyThread
    <3>1. pipe' \in 0..PipeCapacity /\ pipe' > 0
      BY <2>2 DEF notifyThread
    <3> QED
      BY <1>22, <2>2, <3>1 DEF RunTimeoutCallback
  <2> QED
    BY <1>22, <2>1, <2>2 DEF RunTimeoutCallback
<1>23. CASE CollectCallbacks
  BY <1>23 DEF CollectCallbacks, SavedCallbacks
<1>24. ASSUME NEW fd \in Fds, InvokeCallback(fd) PROVE  SafetyInv'
  BY <1>24 DEF InvokeCallback
<1>25. CASE CallbackReturns
  BY <1>25 DEF CallbackReturns
<1>26. CASE CallbacksDone
  BY <1>26 DEF CallbacksDone
<1>27. CASE SelfStopWatching
  BY <1>27 DEF SelfStopWatching
<1>28. CASE SelfNotify
  BY <1>28 DEF SelfNotify, notifyThread
<1>29. CASE SelfClear
  BY <1>29 DEF SelfClear
<1>30. CASE SelfClearTimeout
  BY <1>30 DEF SelfClearTimeout
<1>31. ASSUME NEW fd \in Fds, DataArrives(fd) PROVE  SafetyInv'
  BY <1>31 DEF DataArrives
<1>32. CASE UNCHANGED vars
    BY <1>32 DEF vars
<1> HIDE DEF SafetyInv, TypeOK, CallbackInv, WakeInv
<1> QED
    BY <1>1, <1>2, <1>3, <1>4, <1>5, <1>6, <1>7, <1>8, <1>9, <1>10, <1>11,
     <1>12, <1>13, <1>14, <1>15, <1>16, <1>17, <1>18, <1>19, <1>20, <1>21,
     <1>22, <1>23, <1>24, <1>25, <1>26, <1>27, <1>28, <1>29, <1>30, <1>31,
     <1>32
     DEF Next, CallerStep, CallerCalls, ThreadStep, SelectSucceeds

\* What the run checks as one: types, the readiness of a descriptor on its way to the
\* callback, and the byte in the pipe that a stop leaves for the thread.
THEOREM SafetyHolds == Spec => []SafetyInv
BY InitSafety, NextSafety, PTL DEF Spec

\* Type correctness, for every client.
THEOREM TypeCorrect == Spec => []TypeOK
<1>1. SafetyInv => TypeOK
  BY DEF SafetyInv
<1> QED
  BY InitSafety, NextSafety, <1>1, PTL DEF Spec

\* A stop cannot be slept through, whoever asked for it and whatever failed.
THEOREM WakeupNotLost == Spec => []StopWakesThread
<1>1. SafetyInv => StopWakesThread
  BY DEF SafetyInv, WakeInv, StopWakesThread
<1> QED
  BY InitSafety, NextSafety, <1>1, PTL DEF Spec

\* A callback runs only when a read in it finds data.
THEOREM CallbacksFindData == Spec => []CallbackHasData
<1>1. SafetyInv => CallbackHasData
  BY DEF SafetyInv, CallbackInv, CallbackHasData
<1> QED
  BY InitSafety, NextSafety, <1>1, PTL DEF Spec

-----------------------------------------------------------------------------
(* Clients whose callbacks do not stop the watcher, on a system that has   *)
(* descriptors left for a pipe.                                            *)

Undisturbed == SelfStop = FALSE /\ PipeMayFail = FALSE

\* A watcher that has just been constructed has no thread, no pipe and no descriptors.
LEMMA InitLifecycle == Init => LifecycleInv
BY DEF Init, LifecycleInv, ThreadDead

\* Every step preserves the correspondence of caller and watcher thread.
LEMMA NextLifecycle ==
    ASSUME Undisturbed, SafetyInv, LifecycleInv, [Next]_vars
    PROVE  LifecycleInv'
<1> USE DEF Undisturbed, SafetyInv, TypeOK, CallbackInv, LifecycleInv, ThreadPc, CallerPc,
        ThreadDead, watcherState, threadState
<1>1. CASE tryStartThread
  BY <1>1 DEF tryStartThread, AlreadyStarted
<1>2. CASE CreatePipe
  BY <1>2 DEF CreatePipe
<1>3. CASE CreatePipeFails
  BY <1>3 DEF CreatePipeFails
<1>4. CASE LaunchThread
  BY <1>4 DEF LaunchThread
<1>5. CASE LaunchTerminates
  BY <1>5 DEF LaunchTerminates, Terminate
<1>6. CASE StopNotify
  BY <1>6 DEF StopNotify, notifyThread
<1>7. CASE StopJoin
  BY <1>7 DEF StopJoin, ThreadHasEnded
<1>8. CASE StopJoinTerminates
  BY <1>8 DEF StopJoinTerminates, Terminate
<1>9. CASE StopClear
  BY <1>9 DEF StopClear
<1>10. CASE StopClearTimeout
  BY <1>10 DEF StopClearTimeout
<1>11. CASE ConfigureNotify
  BY <1>11 DEF ConfigureNotify, notifyThread
<1>12. ASSUME NEW fd \in Fds, WatchFd(fd) PROVE  LifecycleInv'
  BY <1>12 DEF WatchFd
<1>13. CASE StopWatching
  BY <1>13 DEF StopWatching
<1>14. ASSUME NEW positive \in BOOLEAN, ConfigureTimeout(positive) PROVE  LifecycleInv'
  BY <1>14 DEF ConfigureTimeout
<1>15. CASE LoopTest
  BY <1>15 DEF LoopTest, LoopCondition
<1>16. CASE FillFdSet
  BY <1>16 DEF FillFdSet
<1>17. CASE SelectNotified
  BY <1>17 DEF SelectNotified, ReadNotification
<1>18. CASE SelectReady
  BY <1>18 DEF SelectReady, Ready
<1>19. CASE SelectTimeout
  BY <1>19 DEF SelectTimeout, Ready
<1>20. CASE SelectError
  BY <1>20 DEF SelectError
<1>21. CASE SaveTimeoutCallback
  BY <1>21 DEF SaveTimeoutCallback
<1>22. CASE RunTimeoutCallback
  BY <1>22 DEF RunTimeoutCallback, notifyThread
<1>23. CASE CollectCallbacks
  BY <1>23 DEF CollectCallbacks, SavedCallbacks
<1>24. ASSUME NEW fd \in Fds, InvokeCallback(fd) PROVE  LifecycleInv'
  BY <1>24 DEF InvokeCallback
<1>25. CASE CallbackReturns
  BY <1>25 DEF CallbackReturns
<1>26. CASE CallbacksDone
  BY <1>26 DEF CallbacksDone
<1>27. CASE SelfStopWatching
  BY <1>27 DEF SelfStopWatching
<1>28. CASE SelfNotify
  BY <1>28 DEF SelfNotify, notifyThread
<1>29. CASE SelfClear
  BY <1>29 DEF SelfClear
<1>30. CASE SelfClearTimeout
  BY <1>30 DEF SelfClearTimeout
<1>31. ASSUME NEW fd \in Fds, DataArrives(fd) PROVE  LifecycleInv'
  BY <1>31 DEF DataArrives
<1>32. CASE UNCHANGED vars
    BY <1>32 DEF vars
<1> HIDE DEF SafetyInv, TypeOK, CallbackInv, LifecycleInv
<1> QED
    BY <1>1, <1>2, <1>3, <1>4, <1>5, <1>6, <1>7, <1>8, <1>9, <1>10, <1>11,
     <1>12, <1>13, <1>14, <1>15, <1>16, <1>17, <1>18, <1>19, <1>20, <1>21,
     <1>22, <1>23, <1>24, <1>25, <1>26, <1>27, <1>28, <1>29, <1>30, <1>31,
     <1>32
     DEF Next, CallerStep, CallerCalls, ThreadStep, SelectSucceeds

\* Both invariants, in every state of a watcher whose calls come from outside its thread.
LEMMA LifecycleHolds == ASSUME Undisturbed PROVE Spec => [](SafetyInv /\ LifecycleInv)
<1>1. Init => SafetyInv /\ LifecycleInv
  BY InitSafety, InitLifecycle
<1>2. SafetyInv /\ LifecycleInv /\ [Next]_vars => (SafetyInv /\ LifecycleInv)'
  BY NextSafety, NextLifecycle
<1> QED
  BY <1>1, <1>2, PTL DEF Spec

\* When the stop has returned nothing of the watcher is left: no thread, no
\* callback in progress, no descriptor to serve.
THEOREM StopIsQuiescent == ASSUME Undisturbed PROVE Spec => []QuiescentWhenStopped
<1>1. SafetyInv /\ LifecycleInv => QuiescentWhenStopped
  BY DEF SafetyInv, CallbackInv, LifecycleInv, QuiescentWhenStopped, InCallback
<1> QED
  BY <1>1, LifecycleHolds, PTL

\* A watcher that is running has its one thread in the loop.
THEOREM StartedTheThread == ASSUME Undisturbed PROVE Spec => []StartedWhenRunning
<1>1. SafetyInv /\ LifecycleInv => StartedWhenRunning
  BY DEF SafetyInv, TypeOK, CallerPc, CallbackInv, LifecycleInv, StartedWhenRunning,
         ThreadDead
<1> QED
  BY <1>1, LifecycleHolds, PTL

-----------------------------------------------------------------------------
(* The watcher implements FdDispatcher: every step is a step of it or none. *)

\* A new watcher is an idle dispatcher.
LEMMA InitDispatcher == Init => Dispatcher!Init
BY DEF Init, Dispatcher!Init

\* Registering, the two ends of a stop, the two ends of a callback and arriving data
\* are the steps that FdDispatcher sees; all the others leave its variables alone.
LEMMA NextDispatcher ==
    ASSUME Undisturbed, SafetyInv, LifecycleInv, [Next]_vars
    PROVE  [Dispatcher!Next]_Dispatcher!vars
<1> USE FdsAssumption
    DEF Undisturbed, SafetyInv, TypeOK, CallbackInv, LifecycleInv, ThreadPc, CallerPc,
        ThreadDead, InCallback, INVALID_FD, watcherState, threadState
<1>1. ASSUME CallerStep, ~StopJoin PROVE UNCHANGED Dispatcher!vars
  <2>1. CASE tryStartThread \/ CreatePipe \/ CreatePipeFails \/ LaunchThread \/ LaunchTerminates
    BY <2>1
       DEF tryStartThread, AlreadyStarted, CreatePipe, CreatePipeFails, LaunchThread, LaunchTerminates,
           Terminate, Dispatcher!vars
  <2>2. CASE StopNotify
    BY <2>2 DEF StopNotify, Dispatcher!vars
  <2>3. CASE StopJoinTerminates
    BY <2>3 DEF StopJoinTerminates
  <2>4. CASE StopClear
    BY <2>4 DEF StopClear, Dispatcher!vars
  <2>5. CASE StopClearTimeout
    BY <2>5 DEF StopClearTimeout, Dispatcher!vars
  <2>6. CASE ConfigureNotify
    BY <2>6 DEF ConfigureNotify, Dispatcher!vars
  <2> QED
    BY <1>1, <2>1, <2>2, <2>3, <2>4, <2>5, <2>6 DEF CallerStep
<1>2. ASSUME NEW positive \in BOOLEAN, ConfigureTimeout(positive)
      PROVE  UNCHANGED Dispatcher!vars
  BY <1>2 DEF ConfigureTimeout, Dispatcher!vars
<1>3. ASSUME SelectError \/ SelfStopWatching \/ UNCHANGED vars
       PROVE  UNCHANGED Dispatcher!vars
  BY <1>3 DEF SelectError, SelfStopWatching, vars, Dispatcher!vars
<1>4. ASSUME ThreadStep, ~CallbackReturns, \A fd \in Fds : ~InvokeCallback(fd)
      PROVE  UNCHANGED Dispatcher!vars
  BY <1>4
     DEF ThreadStep, SelectSucceeds, LoopTest, FillFdSet, SelectNotified, SelectReady,
         SelectTimeout, SaveTimeoutCallback, RunTimeoutCallback, CollectCallbacks,
         CallbacksDone, SelfNotify, SelfClear, SelfClearTimeout, Dispatcher!vars
<1>5. ASSUME NEW fd \in Fds, WatchFd(fd) PROVE  Dispatcher!Register(fd)
  BY <1>5 DEF WatchFd, Dispatcher!Register
<1>6. ASSUME StopWatching PROVE  Dispatcher!BeginStop
  BY <1>6 DEF StopWatching, Dispatcher!BeginStop
<1>7. ASSUME StopJoin PROVE  Dispatcher!FinishStop
  BY <1>7 DEF StopJoin, ThreadHasEnded, Dispatcher!FinishStop
<1>8. ASSUME NEW fd \in Fds, InvokeCallback(fd) PROVE  Dispatcher!BeginCallback(fd)
  BY <1>8 DEF InvokeCallback, Dispatcher!BeginCallback
<1>9. ASSUME CallbackReturns PROVE  Dispatcher!EndCallback
  BY <1>9 DEF CallbackReturns, Dispatcher!EndCallback
<1>10. ASSUME NEW fd \in Fds, DataArrives(fd) PROVE  Dispatcher!DataArrives(fd)
  BY <1>10 DEF DataArrives, Dispatcher!DataArrives
<1> HIDE DEF SafetyInv, TypeOK, CallbackInv, LifecycleInv
<1> QED
  BY <1>1, <1>2, <1>3, <1>4, <1>5, <1>6, <1>7, <1>8, <1>9, <1>10
     DEF Next, CallerCalls, ThreadStep, CallerStep, Dispatcher!Next

\* The safety half of ImplementsDispatcher: callbacks run one at a time, for registered
\* descriptors with data, and the end of a stop is the end of every registration.
THEOREM RefinesDispatcher == ASSUME Undisturbed PROVE Spec => Dispatcher!SafetySpec
<1>1. SafetyInv /\ LifecycleInv /\ [Next]_vars => [Dispatcher!Next]_Dispatcher!vars
  BY NextDispatcher
<1> QED
  BY <1>1, InitDispatcher, LifecycleHolds, PTL DEF Spec, Dispatcher!SafetySpec

=============================================================================
