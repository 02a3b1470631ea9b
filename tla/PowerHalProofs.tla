--------------------------- MODULE PowerHalProofs ---------------------------
(***************************************************************************)
(* Proofs about PowerHal: for any number of calling threads and clusters,  *)
(* any length of a boost and unbounded time, a boost is neither cut short  *)
(* nor forgotten, and the semaphore stays small.                           *)
(***************************************************************************)
EXTENDS PowerHal, TLAPS

\* After hikey_power_init no boost is under way and one wake-up is waiting.
LEMMA InitBoost == Init => BoostInv
<1> SUFFICES ASSUME Init PROVE BoostInv
  OBVIOUS
<1>1. TypeOK
  <2>1. max_freq \in [1..max_clusters -> {"normal_max", "low_power_max"}]
    BY DEF Init
  <2>2. i \in [Callers -> 1..(max_clusters + 1)]
    <3>1. 1 \in 1..(max_clusters + 1)
      BY ClustersAssumption
    <3> QED
      BY <3>1 DEF Init
  <2>3. thread \in {"none", "wait", "check", "sleep"}
    BY DEF Init
  <2>4. pc \in [Callers -> CallerPc]
    BY DEF Init, CallerPc
  <2>5. on \in [Callers -> BOOLEAN]
    BY DEF Init
  <2>6. /\ signal_lock \in Nat /\ deboost_time \in Nat /\ now \in Nat \ {0}
        /\ hint_now \in Nat /\ wake_at \in Nat /\ promised \in Nat
    BY DEF Init
  <2>7. /\ lock \in Callers \cup {NoOne}
        /\ low_power_mode \in BOOLEAN /\ schedtune_fd_ok \in BOOLEAN
        /\ schedtune \in {"norm", "interactive"} /\ devfreq \in {"orig", "boost"}
        /\ io_is_busy \in BOOLEAN /\ screen_on \in BOOLEAN
    BY DEF Init
  <2> QED
    BY <2>1, <2>2, <2>3, <2>4, <2>5, <2>6, <2>7 DEF TypeOK
<1>2. Tokens = 1 /\ deboost_time = 0 /\ ~(promised > now)
  BY DEF Init, Tokens
<1> QED
  BY <1>1, <1>2 DEF Init, BoostInv

\* What the calls and the clock do to the invariant: only schedtune_boost
\* touches a boost, and it holds the lock.
LEMMA CallsKeepBoost ==
    ASSUME BoostInv, NEW c \in Callers, CallBegins(c) \/ CallerStep(c)
    PROVE  BoostInv'
<1> USE DEF BoostInv
<1>1. CASE HintInteraction(c)
  <2>1. TypeOK'
    BY <1>1 DEF HintInteraction, TypeOK, CallerPc, boost, cpu, sleeper
  <2>2. UNCHANGED <<boost, sleeper, schedtune_fd_ok, now, promised>>
    BY <1>1 DEF HintInteraction
  <2>3. \A d \in Callers : pc'[d] \in {"hint", "boost"} => lock' = d
    BY <1>1, CallersAssumption DEF HintInteraction, TypeOK
  <2>4. \A d \in Callers : pc'[d] = "boost" => pc[d] = "boost"
    BY <1>1 DEF HintInteraction, TypeOK
  <2>5. \A d \in Callers : pc'[d] \in {"write_low", "write_normal"} => pc[d] = pc'[d] /\ i'[d] = i[d]
    BY <1>1 DEF HintInteraction, TypeOK
  <2> QED
    BY <2>1, <2>2, <2>3, <2>4, <2>5 DEF Tokens, boost, sleeper
<1>2. CASE interactive_boostpulse(c)
  <2>1. TypeOK'
    BY <1>2 DEF interactive_boostpulse, TypeOK, CallerPc, boost, cpu, sleeper
  <2>2. UNCHANGED <<boost, sleeper, schedtune_fd_ok, now, promised>>
    BY <1>2 DEF interactive_boostpulse
  <2>3. \A d \in Callers : pc'[d] \notin {"hint", "boost"}
    BY <1>2 DEF interactive_boostpulse, TypeOK
  <2>4. \A d \in Callers : pc'[d] \in {"write_low", "write_normal"} => pc[d] = pc'[d] /\ i'[d] = i[d]
    BY <1>2 DEF interactive_boostpulse, TypeOK
  <2> QED
    BY <2>1, <2>2, <2>3, <2>4 DEF Tokens, boost, sleeper
<1>3. CASE BoostReadsClock(c)
  <2>1. TypeOK'
    BY <1>3 DEF BoostReadsClock, TypeOK, CallerPc, boost, cpu, sleeper
  <2>2. UNCHANGED <<boost, sleeper, schedtune_fd_ok, lock, now, promised>>
    BY <1>3 DEF BoostReadsClock
  <2>3. \A d \in Callers : pc'[d] \in {"hint", "boost"} => lock' = d
    BY <1>3 DEF BoostReadsClock, TypeOK
  <2>4. schedtune_fd_ok
    BY <1>3 DEF BoostReadsClock
  <2>5. \A d \in Callers : pc'[d] \in {"write_low", "write_normal"} => pc[d] = pc'[d] /\ i'[d] = i[d]
    BY <1>3 DEF BoostReadsClock, TypeOK
  <2> QED
    BY <2>1, <2>2, <2>3, <2>4, <2>5 DEF Tokens, boost, sleeper
<1>4. CASE schedtune_boost(c)
  <2>1. /\ hint_now \in Nat /\ signal_lock \in Nat /\ deboost_time \in Nat
        /\ deboost_time' = hint_now + BoostTime
    BY <1>4 DEF schedtune_boost, NoBoostYet, WakeThread, TypeOK
  <2>2. deboost_time' \in Nat /\ deboost_time' # 0
    BY <2>1, TimesAssumption
  <2>3. TypeOK'
    BY <1>4, <2>2 DEF schedtune_boost, NoBoostYet, WakeThread, TypeOK, CallerPc, cpu, sleeper
  <2>4. schedtune' = "interactive" /\ promised' = deboost_time'
    BY <1>4 DEF schedtune_boost, NoBoostYet, WakeThread
  <2>5. Tokens' > 0 /\ Tokens' <= 2
    BY <1>4, <2>1 DEF schedtune_boost, NoBoostYet, WakeThread, Tokens, sleeper
  <2>6. \A d \in Callers : pc'[d] \notin {"hint", "boost"}
    BY <1>4 DEF schedtune_boost, NoBoostYet, WakeThread, TypeOK
  <2>7. UNCHANGED <<schedtune_fd_ok, thread>>
    BY <1>4 DEF schedtune_boost, NoBoostYet, WakeThread, sleeper
  <2>8. \A d \in Callers : pc'[d] \in {"write_low", "write_normal"} => pc[d] = pc'[d] /\ i'[d] = i[d]
    BY <1>4 DEF schedtune_boost, TypeOK
  <2> QED
    BY <2>2, <2>3, <2>4, <2>5, <2>6, <2>7, <2>8
<1>5. CASE ReadMode(c) \/ WriteMaxFreq(c) \/ SetIoIsBusy(c)
  <2>1. TypeOK'
    <3>1. CASE ReadMode(c)
      BY <3>1 DEF ReadMode, TypeOK, CallerPc, boost, cpu, sleeper
    <3>2. CASE WriteMaxFreq(c)
      <4>1. max_freq' \in [1..max_clusters -> {"normal_max", "low_power_max"}]
        BY <3>2 DEF WriteMaxFreq, TypeOK
      <4>2. i' \in [Callers -> 1..(max_clusters + 1)]
        <5>1. i[c] + 1 \in 1..(max_clusters + 1)
          BY <3>2, ClustersAssumption DEF WriteMaxFreq, TypeOK
        <5> QED
          BY <3>2, <5>1 DEF WriteMaxFreq, TypeOK
      <4> QED
        BY <3>2, <4>1, <4>2 DEF WriteMaxFreq, TypeOK, CallerPc, boost, sleeper
    <3>3. CASE SetIoIsBusy(c)
      BY <3>3 DEF SetIoIsBusy, TypeOK, CallerPc, boost, sleeper
    <3> QED
      BY <1>5, <3>1, <3>2, <3>3
  <2>2. UNCHANGED <<boost, sleeper, schedtune_fd_ok, now, promised>>
    BY <1>5 DEF ReadMode, WriteMaxFreq, SetIoIsBusy
  <2>3. \A d \in Callers : pc'[d] \in {"hint", "boost"} => lock' = d /\ pc[d] = pc'[d]
    BY <1>5 DEF ReadMode, WriteMaxFreq, SetIoIsBusy, TypeOK
  <2>4. \A d \in Callers : pc'[d] \in {"write_low", "write_normal"} => i'[d] <= max_clusters
    BY <1>5 DEF ReadMode, WriteMaxFreq, SetIoIsBusy, TypeOK
  <2> QED
    BY <2>1, <2>2, <2>3, <2>4 DEF Tokens, boost, sleeper
<1>6. ASSUME NEW flag \in BOOLEAN, HintLowPower(c, flag) \/ SetInteractive(c, flag)
      PROVE  BoostInv'
  <2>1. TypeOK'
    <3>1. i' \in [Callers -> 1..(max_clusters + 1)]
      <4>1. 1 \in 1..(max_clusters + 1)
        BY ClustersAssumption
      <4>2. i' = [i EXCEPT ![c] = 1]
        BY <1>6 DEF HintLowPower, SetInteractive
      <4> QED
        BY <4>1, <4>2 DEF TypeOK
    <3> QED
      BY <1>6, <3>1 DEF HintLowPower, SetInteractive, TypeOK, CallerPc, boost, cpu, sleeper
  <2>2. UNCHANGED <<boost, sleeper, schedtune_fd_ok, now, promised>>
    BY <1>6 DEF HintLowPower, SetInteractive
  <2>3. \A d \in Callers : pc'[d] \in {"hint", "boost"} => lock' = d /\ pc[d] = pc'[d]
    BY <1>6, CallersAssumption DEF HintLowPower, SetInteractive, TypeOK
  <2>4. \A d \in Callers : pc'[d] \in {"write_low", "write_normal"} => pc[d] = pc'[d] /\ i'[d] = i[d]
    BY <1>6 DEF HintLowPower, SetInteractive, TypeOK
  <2> QED
    BY <2>1, <2>2, <2>3, <2>4 DEF Tokens, boost, sleeper
<1> HIDE DEF BoostInv
<1> QED
  BY <1>1, <1>2, <1>3, <1>4, <1>5, <1>6 DEF CallBegins, CallerStep

\* The deboost thread: it takes one token for one turn, and ends a boost only
\* when its time is over.
LEMMA ThreadKeepsBoost ==
    ASSUME BoostInv, ThreadStep \/ SleepInterrupted
    PROVE  BoostInv'
<1> USE DEF BoostInv
<1>1. UNCHANGED <<lock, pc, i, schedtune_fd_ok, now, promised>> /\ thread # "none" /\ thread' # "none"
  BY DEF ThreadStep, SemWait, DeboostTooEarly, SleepEnds, Deboost, BoostOver, DevfreqOff, SleepInterrupted, calls
<1>2. TypeOK'
  BY DEF ThreadStep, SemWait, DeboostTooEarly, SleepEnds, Deboost, BoostOver, DevfreqOff, SleepInterrupted,
         TypeOK, boost, cpu, calls
<1>3. signal_lock \in Nat /\ thread \in {"wait", "check", "sleep"}
  BY <1>1 DEF TypeOK
<1>4. CASE SemWait \/ DeboostTooEarly \/ SleepEnds \/ SleepInterrupted
  <2>1. Tokens' = Tokens
    BY <1>3, <1>4 DEF SemWait, DeboostTooEarly, SleepEnds, SleepInterrupted, Tokens, boost
  <2>2. UNCHANGED <<deboost_time, schedtune, devfreq>>
    BY <1>4 DEF SemWait, DeboostTooEarly, SleepEnds, SleepInterrupted, boost
  <2> QED
    BY <1>1, <1>2, <2>1, <2>2
<1>5. CASE Deboost
  <2>1. signal_lock <= 1
    BY <1>3, <1>5 DEF Deboost, Tokens
  <2>2. Tokens' = signal_lock
    BY <1>3, <1>5 DEF Deboost, Tokens
  <2>3. Tokens' <= 1 /\ Tokens' <= 2
    BY <1>3, <2>1, <2>2
  <2>8. ~(promised' > now')
    <3>1. deboost_time \in Nat /\ promised \in Nat /\ now \in Nat /\ deboost_time <= now
      BY <1>5 DEF Deboost, BoostOver, TypeOK
    <3> QED
      BY <1>1, <3>1
  <2>4. deboost_time' = 0 /\ schedtune' = "norm" /\ devfreq' = "orig"
    BY <1>5 DEF Deboost, DevfreqOff
  <2>5. /\ deboost_time' # 0 <=> schedtune' = "interactive"
        /\ devfreq' = "boost" => deboost_time' # 0
        /\ deboost_time' # 0 => Tokens' > 0
    BY <2>4
  <2>6. /\ \A c \in Callers : pc'[c] \in {"hint", "boost"} => lock' = c
        /\ \A c \in Callers : pc'[c] = "boost" => schedtune_fd_ok'
    BY <1>1
  <2>7. schedtune_fd_ok' <=> thread' # "none"
    BY <1>1
  <2> QED
    BY <1>1, <1>2, <2>3, <2>4, <2>5, <2>6, <2>7, <2>8
<1> QED
  BY <1>4, <1>5 DEF ThreadStep

\* BoostInv is inductive.
LEMMA NextBoost == BoostInv /\ [Next]_vars => BoostInv'
<1> SUFFICES ASSUME BoostInv, [Next]_vars PROVE BoostInv'
  OBVIOUS
<1>1. CASE Tick \/ UNCHANGED vars
  <2>1. now' \in Nat \ {0}
    BY <1>1 DEF Tick, vars, BoostInv, TypeOK
  <2>2. UNCHANGED <<lock, boost, low_power_mode, schedtune_fd_ok, cpu, calls,
                    sleeper, screen_on, promised>>
    BY <1>1 DEF Tick, vars
  <2> QED
    <3>1. promised' > now' => promised > now
      BY <1>1 DEF Tick, vars, BoostInv, TypeOK
    <3>2. TypeOK'
      BY <2>1, <2>2 DEF BoostInv, TypeOK, boost, cpu, calls, sleeper
    <3> QED
      BY <2>2, <3>1, <3>2 DEF BoostInv, Tokens, boost, calls, sleeper
<1> QED
  BY <1>1, CallsKeepBoost, ThreadKeepsBoost DEF Next

-----------------------------------------------------------------------------
\* The invariant of the boost holds in every state.
THEOREM BoostHolds == Spec => []BoostInv
BY InitBoost, NextBoost, PTL DEF Spec

\* No wake-up left over from an earlier boost, no interrupted sleep and no hint
\* between two checks of the thread ends a boost before its time.
THEOREM BoostIsNotCutShort == Spec => []BoostNotCutShort
<1>1. BoostInv => BoostNotCutShort
  BY DEF BoostInv, TypeOK, BoostNotCutShort
<1> QED
  BY <1>1, BoostHolds, PTL

\* Every boost has a wake-up of the thread that will end it.
THEOREM BoostIsTakenBack == Spec => []BoostIsBacked
<1>1. BoostInv => BoostIsBacked
  BY DEF BoostInv, TypeOK, Tokens, BoostIsBacked
<1> QED
  BY <1>1, BoostHolds, PTL

\* The semaphore never holds more than two wake-ups.
THEOREM FewWakeups == Spec => []WakeupsBounded
<1>1. BoostInv => WakeupsBounded
  <2> SUFFICES ASSUME BoostInv PROVE signal_lock <= 2
    BY DEF WakeupsBounded
  <2>1. signal_lock \in Nat
    BY DEF BoostInv, TypeOK
  <2>2. Tokens <= 2
    BY DEF BoostInv
  <2>3. Tokens \in Nat /\ signal_lock <= Tokens
    BY <2>1 DEF Tokens
  <2> QED
    BY <2>1, <2>2, <2>3
<1> QED
  BY <1>1, BoostHolds, PTL

=============================================================================
