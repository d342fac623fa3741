------------------------- MODULE SleepEvent_proofs -------------------------
(***************************************************************************)
(* Proofs about SleepEvent, for any number of signals and any workers,     *)
(* wherever signals find the main thread.                                  *)
(***************************************************************************)
EXTENDS SleepEvent, TLAPS

\* The frames above the running one have returned, and only sleepers wait.
FrameInv ==
  /\ top <= signals
  /\ \A f \in Frame : f > top => pc[f] = "done"
  /\ \A f \in Runner \ Sleeper : pc[f] \notin Inside

\* One runner at a time is in a critical section, and it holds the lock.
LockIsExclusive ==
  \A f \in Runner : pc[f] \in Critical <=> lock = f

\* Who is about to set the event has raised the flag, who is about to notify has
\* set it, and who is about to go to sleep has found it not set.
OrderInv ==
  /\ isSet => shutting_down
  /\ \A f \in Runner : /\ pc[f] \in {"set", "raise"} => shutting_down
                       /\ pc[f] \in {"notify", "notified"} => isSet
                       /\ pc[f] = "enlist" => ~isSet
  /\ notified # {} => isSet

\* The main thread gets out of its sleep only in a shutdown.
WakesInShutdown == pc[0] \in {"rewait", "woken"} => isSet /\ shutting_down

Inv ==
  /\ TypeOK /\ FrameInv /\ LockIsExclusive /\ OrderInv
  /\ NoLostWakeup /\ FlagReachesEvent /\ WakesInShutdown

LEMMA Runners ==
  /\ MaxSignals \in Nat /\ Frame \subseteq Runner /\ Nanny \in Runner /\ 0 \in Frame /\ 0 \in Sleeper
  /\ Nanny \in Sleeper /\ Sleeper \subseteq Runner
  /\ Free \notin Runner /\ Nanny \notin Frame
  /\ \A w \in Worker : w \in Runner /\ w \notin Frame /\ w \notin Sleeper
BY SleepAssumption DEF Runner, Frame, Nanny, Free, Sleeper

LEMMA InitInv == Init => Inv
<1> SUFFICES ASSUME Init PROVE Inv
  OBVIOUS
<1>1. \A f \in Runner : pc[f] \in {"loop", "done"}
  BY DEF Init
<1>2. TypeOK
  BY Runners DEF Init, TypeOK, Label, Frame
<1>3. FrameInv
  <2>1. top <= signals
    BY DEF Init
  <2>2. \A f \in Frame : f > top => pc[f] = "done"
    BY Runners DEF Init, Frame
  <2>3. QED
    BY <1>1, <2>1, <2>2 DEF FrameInv, Inside
<1>4. LockIsExclusive
  BY <1>1, Runners DEF Init, LockIsExclusive, Critical
<1>5. OrderInv
  BY <1>1 DEF Init, OrderInv
<1>6. NoLostWakeup /\ FlagReachesEvent /\ WakesInShutdown
  BY <1>1, Runners DEF Init, NoLostWakeup, FlagReachesEvent, WakesInShutdown
<1>7. QED
  BY <1>2, <1>3, <1>4, <1>5, <1>6 DEF Inv

-----------------------------------------------------------------------------
\* Whoever raises the flag is on the way to the event.
LEMMA DieStep ==
  ASSUME Inv, NEW f \in Runner, f \in Frame => f = top, Die(f) PROVE Inv'
<1>0. /\ TypeOK /\ FrameInv /\ LockIsExclusive /\ OrderInv
      /\ NoLostWakeup /\ FlagReachesEvent /\ WakesInShutdown
  BY DEF Inv
<1>1. TypeOK'
  BY <1>0, Runners DEF TypeOK, Die, Goto, event, Label
<1>2. FrameInv'
  BY <1>0, Runners DEF FrameInv, TypeOK, Die, Goto, event, Inside
<1>3. LockIsExclusive'
  BY <1>0, Runners DEF LockIsExclusive, TypeOK, Die, Goto, event, Critical
<1>4. OrderInv'
  BY <1>0, Runners DEF OrderInv, TypeOK, Die, Goto, event
<1>5. NoLostWakeup'
  BY <1>0, Runners DEF NoLostWakeup, TypeOK, Die, Goto, event, Sleeper
<1>6. FlagReachesEvent'
  BY <1>0, Runners DEF FlagReachesEvent, TypeOK, Die, Goto, event
<1>7. WakesInShutdown'
  BY <1>0, Runners DEF WakesInShutdown, TypeOK, Die, Goto, event
<1>8. QED
  BY <1>1, <1>2, <1>3, <1>4, <1>5, <1>6, <1>7 DEF Inv

\* Taking a lock that is free.
LEMMA SetAcquireStep ==
  ASSUME Inv, NEW f \in Runner, f \in Frame => f = top, SetAcquire(f) PROVE Inv'
<1>0. /\ TypeOK /\ FrameInv /\ LockIsExclusive /\ OrderInv
      /\ NoLostWakeup /\ FlagReachesEvent /\ WakesInShutdown
  BY DEF Inv
<1>1. TypeOK'
  BY <1>0, Runners DEF TypeOK, SetAcquire, Goto, Acquire, Label
<1>2. FrameInv'
  BY <1>0, Runners DEF FrameInv, TypeOK, SetAcquire, Goto, Acquire, Inside
<1>3. LockIsExclusive'
  BY <1>0, Runners DEF LockIsExclusive, TypeOK, SetAcquire, Goto, Acquire, Critical
<1>4. OrderInv'
  BY <1>0, Runners DEF OrderInv, TypeOK, SetAcquire, Goto, Acquire
<1>5. NoLostWakeup'
  BY <1>0, Runners DEF NoLostWakeup, TypeOK, SetAcquire, Goto, Acquire, Sleeper
<1>6. FlagReachesEvent'
  BY <1>0, Runners DEF FlagReachesEvent, TypeOK, SetAcquire, Goto, Acquire
<1>7. WakesInShutdown'
  BY <1>0, Runners DEF WakesInShutdown, TypeOK, SetAcquire, Goto, Acquire
<1>8. QED
  BY <1>1, <1>2, <1>3, <1>4, <1>5, <1>6, <1>7 DEF Inv

\* The flag of the event goes up while nobody is about to go to sleep: who is
\* would hold the lock. Whoever sleeps now will be notified next.
LEMMA SetFlagStep ==
  ASSUME Inv, NEW f \in Runner, f \in Frame => f = top, SetFlag(f) PROVE Inv'
<1>0. /\ TypeOK /\ FrameInv /\ LockIsExclusive /\ OrderInv
      /\ NoLostWakeup /\ FlagReachesEvent /\ WakesInShutdown
  BY DEF Inv
<1>1. TypeOK'
  BY <1>0, Runners DEF TypeOK, SetFlag, Goto, Label
<1>2. FrameInv'
  BY <1>0, Runners DEF FrameInv, TypeOK, SetFlag, Goto, Inside
<1>3. LockIsExclusive'
  BY <1>0, Runners DEF LockIsExclusive, TypeOK, SetFlag, Goto, Critical
<1>4. OrderInv'
  BY <1>0, Runners DEF OrderInv, TypeOK, SetFlag, Goto, LockIsExclusive, Critical
<1>5. NoLostWakeup'
  BY <1>0, Runners DEF NoLostWakeup, TypeOK, SetFlag, Goto, Sleeper, LockIsExclusive, Critical
<1>6. FlagReachesEvent'
  BY <1>0, Runners DEF FlagReachesEvent, TypeOK, SetFlag, Goto
<1>7. WakesInShutdown'
  BY <1>0, Runners DEF WakesInShutdown, TypeOK, SetFlag, Goto
<1>8. QED
  BY <1>1, <1>2, <1>3, <1>4, <1>5, <1>6, <1>7 DEF Inv

\* All who sleep are notified.
LEMMA SetNotifyStep ==
  ASSUME Inv, NEW f \in Runner, f \in Frame => f = top, SetNotify(f) PROVE Inv'
<1>0. /\ TypeOK /\ FrameInv /\ LockIsExclusive /\ OrderInv
      /\ NoLostWakeup /\ FlagReachesEvent /\ WakesInShutdown
  BY DEF Inv
<1>1. TypeOK'
  BY <1>0, Runners DEF TypeOK, SetNotify, Goto, Label
<1>2. FrameInv'
  BY <1>0, Runners DEF FrameInv, TypeOK, SetNotify, Goto, Inside
<1>3. LockIsExclusive'
  BY <1>0, Runners DEF LockIsExclusive, TypeOK, SetNotify, Goto, Critical
<1>4. OrderInv'
  BY <1>0, Runners DEF OrderInv, TypeOK, SetNotify, Goto
<1>5. NoLostWakeup'
  BY <1>0, Runners DEF NoLostWakeup, TypeOK, SetNotify, Goto, Sleeper
<1>6. FlagReachesEvent'
  BY <1>0, Runners DEF FlagReachesEvent, TypeOK, SetNotify, Goto
<1>7. WakesInShutdown'
  BY <1>0, Runners DEF WakesInShutdown, TypeOK, SetNotify, Goto
<1>8. QED
  BY <1>1, <1>2, <1>3, <1>4, <1>5, <1>6, <1>7 DEF Inv

\* The end of set() returns from die(): a handler's frame is popped.
LEMMA SetReleaseStep ==
  ASSUME Inv, NEW f \in Runner, f \in Frame => f = top, SetRelease(f) PROVE Inv'
<1>0. /\ TypeOK /\ FrameInv /\ LockIsExclusive /\ OrderInv
      /\ NoLostWakeup /\ FlagReachesEvent /\ WakesInShutdown
  BY DEF Inv
<1>1. TypeOK'
  BY <1>0, Runners DEF TypeOK, SetRelease, Goto, Release, Return, Label, Frame
<1>2. FrameInv'
  BY <1>0, Runners DEF FrameInv, TypeOK, SetRelease, Goto, Release, Return, Inside, Frame
<1>3. LockIsExclusive'
  BY <1>0, Runners DEF LockIsExclusive, TypeOK, SetRelease, Goto, Release, Return, Critical
<1>4. OrderInv'
  BY <1>0, Runners DEF OrderInv, TypeOK, SetRelease, Goto, Release, Return
<1>5. NoLostWakeup'
  BY <1>0, Runners DEF NoLostWakeup, TypeOK, SetRelease, Goto, Release, Return, Sleeper
<1>6. FlagReachesEvent'
  BY <1>0, Runners DEF FlagReachesEvent, TypeOK, SetRelease, Goto, Release, Return
<1>7. WakesInShutdown'
  BY <1>0, Runners DEF WakesInShutdown, TypeOK, SetRelease, Goto, Release, Return
<1>8. QED
  BY <1>1, <1>2, <1>3, <1>4, <1>5, <1>6, <1>7 DEF Inv

\* Only a sleeper waits.
LEMMA WaitAcquireStep ==
  ASSUME Inv, NEW f \in Runner, f \in Frame => f = top, WaitAcquire(f) PROVE Inv'
<1>0. /\ TypeOK /\ FrameInv /\ LockIsExclusive /\ OrderInv
      /\ NoLostWakeup /\ FlagReachesEvent /\ WakesInShutdown
  BY DEF Inv
<1>1. TypeOK'
  BY <1>0, Runners DEF TypeOK, WaitAcquire, Goto, Acquire, Label
<1>2. FrameInv'
  BY <1>0, Runners DEF FrameInv, TypeOK, WaitAcquire, Goto, Acquire, Inside
<1>3. LockIsExclusive'
  BY <1>0, Runners DEF LockIsExclusive, TypeOK, WaitAcquire, Goto, Acquire, Critical
<1>4. OrderInv'
  BY <1>0, Runners DEF OrderInv, TypeOK, WaitAcquire, Goto, Acquire
<1>5. NoLostWakeup'
  BY <1>0, Runners DEF NoLostWakeup, TypeOK, WaitAcquire, Goto, Acquire, Sleeper
<1>6. FlagReachesEvent'
  BY <1>0, Runners DEF FlagReachesEvent, TypeOK, WaitAcquire, Goto, Acquire
<1>7. WakesInShutdown'
  BY <1>0, Runners DEF WakesInShutdown, TypeOK, WaitAcquire, Goto, Acquire
<1>8. QED
  BY <1>1, <1>2, <1>3, <1>4, <1>5, <1>6, <1>7 DEF Inv

\* An event that is set is not slept on.
LEMMA WaitTestStep ==
  ASSUME Inv, NEW f \in Runner, f \in Frame => f = top, WaitTest(f) PROVE Inv'
<1>0. /\ TypeOK /\ FrameInv /\ LockIsExclusive /\ OrderInv
      /\ NoLostWakeup /\ FlagReachesEvent /\ WakesInShutdown
  BY DEF Inv
<1>1. TypeOK'
  BY <1>0, Runners DEF TypeOK, WaitTest, Goto, event, Label
<1>2. FrameInv'
  BY <1>0, Runners DEF FrameInv, TypeOK, WaitTest, Goto, event, Inside
<1>3. LockIsExclusive'
  BY <1>0, Runners DEF LockIsExclusive, TypeOK, WaitTest, Goto, event, Critical
<1>4. OrderInv'
  BY <1>0, Runners DEF OrderInv, TypeOK, WaitTest, Goto, event
<1>5. NoLostWakeup'
  BY <1>0, Runners DEF NoLostWakeup, TypeOK, WaitTest, Goto, event, Sleeper
<1>6. FlagReachesEvent'
  BY <1>0, Runners DEF FlagReachesEvent, TypeOK, WaitTest, Goto, event
<1>7. WakesInShutdown'
  BY <1>0, Runners DEF WakesInShutdown, TypeOK, WaitTest, Goto, event, OrderInv
<1>8. QED
  BY <1>1, <1>2, <1>3, <1>4, <1>5, <1>6, <1>7 DEF Inv

\* A sleeper finds the event as it was when the sleeper looked: the lock was held.
LEMMA WaitSleepStep ==
  ASSUME Inv, NEW f \in Runner, f \in Frame => f = top, WaitSleep(f) PROVE Inv'
<1>0. /\ TypeOK /\ FrameInv /\ LockIsExclusive /\ OrderInv
      /\ NoLostWakeup /\ FlagReachesEvent /\ WakesInShutdown
  BY DEF Inv
<1>1. TypeOK'
  BY <1>0, Runners DEF TypeOK, WaitSleep, Goto, Release, Label
<1>2. FrameInv'
  BY <1>0, Runners DEF FrameInv, TypeOK, WaitSleep, Goto, Release, Inside
<1>3. LockIsExclusive'
  BY <1>0, Runners DEF LockIsExclusive, TypeOK, WaitSleep, Goto, Release, Critical
<1>4. OrderInv'
  BY <1>0, Runners DEF OrderInv, TypeOK, WaitSleep, Goto, Release
<1>5. NoLostWakeup'
  BY <1>0, Runners DEF NoLostWakeup, TypeOK, WaitSleep, Goto, Release, Sleeper, OrderInv
<1>6. FlagReachesEvent'
  BY <1>0, Runners DEF FlagReachesEvent, TypeOK, WaitSleep, Goto, Release
<1>7. WakesInShutdown'
  BY <1>0, Runners DEF WakesInShutdown, TypeOK, WaitSleep, Goto, Release
<1>8. QED
  BY <1>1, <1>2, <1>3, <1>4, <1>5, <1>6, <1>7 DEF Inv

\* The main thread has been notified, the nanny may have waited for too long.
LEMMA WaitWakeStep ==
  ASSUME Inv, NEW f \in Runner, f \in Frame => f = top, WaitWake(f) PROVE Inv'
<1>0. /\ TypeOK /\ FrameInv /\ LockIsExclusive /\ OrderInv
      /\ NoLostWakeup /\ FlagReachesEvent /\ WakesInShutdown
  BY DEF Inv
<1>1. TypeOK'
  BY <1>0, Runners DEF TypeOK, WaitWake, Goto, Label
<1>2. FrameInv'
  BY <1>0, Runners DEF FrameInv, TypeOK, WaitWake, Goto, Inside
<1>3. LockIsExclusive'
  BY <1>0, Runners DEF LockIsExclusive, TypeOK, WaitWake, Goto, Critical
<1>4. OrderInv'
  BY <1>0, Runners DEF OrderInv, TypeOK, WaitWake, Goto
<1>5. NoLostWakeup'
  BY <1>0, Runners DEF NoLostWakeup, TypeOK, WaitWake, Goto, Sleeper
<1>6. FlagReachesEvent'
  BY <1>0, Runners DEF FlagReachesEvent, TypeOK, WaitWake, Goto
<1>7. WakesInShutdown'
  BY <1>0, Runners DEF WakesInShutdown, TypeOK, WaitWake, Goto, OrderInv
<1>8. QED
  BY <1>1, <1>2, <1>3, <1>4, <1>5, <1>6, <1>7 DEF Inv

\* A woken sleeper takes the lock once more.
LEMMA WaitReacquireStep ==
  ASSUME Inv, NEW f \in Runner, f \in Frame => f = top, WaitReacquire(f) PROVE Inv'
<1>0. /\ TypeOK /\ FrameInv /\ LockIsExclusive /\ OrderInv
      /\ NoLostWakeup /\ FlagReachesEvent /\ WakesInShutdown
  BY DEF Inv
<1>1. TypeOK'
  BY <1>0, Runners DEF TypeOK, WaitReacquire, Goto, Acquire, Label
<1>2. FrameInv'
  BY <1>0, Runners DEF FrameInv, TypeOK, WaitReacquire, Goto, Acquire, Inside
<1>3. LockIsExclusive'
  BY <1>0, Runners DEF LockIsExclusive, TypeOK, WaitReacquire, Goto, Acquire, Critical
<1>4. OrderInv'
  BY <1>0, Runners DEF OrderInv, TypeOK, WaitReacquire, Goto, Acquire
<1>5. NoLostWakeup'
  BY <1>0, Runners DEF NoLostWakeup, TypeOK, WaitReacquire, Goto, Acquire, Sleeper
<1>6. FlagReachesEvent'
  BY <1>0, Runners DEF FlagReachesEvent, TypeOK, WaitReacquire, Goto, Acquire
<1>7. WakesInShutdown'
  BY <1>0, Runners DEF WakesInShutdown, TypeOK, WaitReacquire, Goto, Acquire
<1>8. QED
  BY <1>1, <1>2, <1>3, <1>4, <1>5, <1>6, <1>7 DEF Inv

\* The end of wait().
LEMMA WaitReleaseStep ==
  ASSUME Inv, NEW f \in Runner, f \in Frame => f = top, WaitRelease(f) PROVE Inv'
<1>0. /\ TypeOK /\ FrameInv /\ LockIsExclusive /\ OrderInv
      /\ NoLostWakeup /\ FlagReachesEvent /\ WakesInShutdown
  BY DEF Inv
<1>1. TypeOK'
  BY <1>0, Runners DEF TypeOK, WaitRelease, Goto, Release, Label
<1>2. FrameInv'
  BY <1>0, Runners DEF FrameInv, TypeOK, WaitRelease, Goto, Release, Inside
<1>3. LockIsExclusive'
  BY <1>0, Runners DEF LockIsExclusive, TypeOK, WaitRelease, Goto, Release, Critical
<1>4. OrderInv'
  BY <1>0, Runners DEF OrderInv, TypeOK, WaitRelease, Goto, Release
<1>5. NoLostWakeup'
  BY <1>0, Runners DEF NoLostWakeup, TypeOK, WaitRelease, Goto, Release, Sleeper
<1>6. FlagReachesEvent'
  BY <1>0, Runners DEF FlagReachesEvent, TypeOK, WaitRelease, Goto, Release
<1>7. WakesInShutdown'
  BY <1>0, Runners DEF WakesInShutdown, TypeOK, WaitRelease, Goto, Release
<1>8. QED
  BY <1>1, <1>2, <1>3, <1>4, <1>5, <1>6, <1>7 DEF Inv

\* The application's next wait, or its die().
LEMMA MainLoopStep ==
  ASSUME Inv, top = 0, MainLoop PROVE Inv'
<1>0. /\ TypeOK /\ FrameInv /\ LockIsExclusive /\ OrderInv
      /\ NoLostWakeup /\ FlagReachesEvent /\ WakesInShutdown
  BY DEF Inv
<1>1. TypeOK'
  BY <1>0, Runners DEF TypeOK, MainLoop, Goto, event, Label
<1>2. FrameInv'
  BY <1>0, Runners DEF FrameInv, TypeOK, MainLoop, Goto, event, Inside
<1>3. LockIsExclusive'
  BY <1>0, Runners DEF LockIsExclusive, TypeOK, MainLoop, Goto, event, Critical
<1>4. OrderInv'
  BY <1>0, Runners DEF OrderInv, TypeOK, MainLoop, Goto, event
<1>5. NoLostWakeup'
  BY <1>0, Runners DEF NoLostWakeup, TypeOK, MainLoop, Goto, event, Sleeper
<1>6. FlagReachesEvent'
  BY <1>0, Runners DEF FlagReachesEvent, TypeOK, MainLoop, Goto, event
<1>7. WakesInShutdown'
  BY <1>0, Runners DEF WakesInShutdown, TypeOK, MainLoop, Goto, event
<1>8. QED
  BY <1>1, <1>2, <1>3, <1>4, <1>5, <1>6, <1>7 DEF Inv

\* The nanny raises the flag only on its way to the event.
LEMMA NannyLoopStep ==
  ASSUME Inv, NannyLoop PROVE Inv'
<1>0. /\ TypeOK /\ FrameInv /\ LockIsExclusive /\ OrderInv
      /\ NoLostWakeup /\ FlagReachesEvent /\ WakesInShutdown
  BY DEF Inv
<1>1. TypeOK'
  BY <1>0, Runners DEF TypeOK, NannyLoop, Goto, event, Label
<1>2. FrameInv'
  BY <1>0, Runners DEF FrameInv, TypeOK, NannyLoop, Goto, event, Inside
<1>3. LockIsExclusive'
  BY <1>0, Runners DEF LockIsExclusive, TypeOK, NannyLoop, Goto, event, Critical
<1>4. OrderInv'
  BY <1>0, Runners DEF OrderInv, TypeOK, NannyLoop, Goto, event
<1>5. NoLostWakeup'
  BY <1>0, Runners DEF NoLostWakeup, TypeOK, NannyLoop, Goto, event, Sleeper
<1>6. FlagReachesEvent'
  BY <1>0, Runners DEF FlagReachesEvent, TypeOK, NannyLoop, Goto, event
<1>7. WakesInShutdown'
  BY <1>0, Runners DEF WakesInShutdown, TypeOK, NannyLoop, Goto, event
<1>8. QED
  BY <1>1, <1>2, <1>3, <1>4, <1>5, <1>6, <1>7 DEF Inv

\* A worker's failure.
LEMMA FailStep ==
  ASSUME Inv, NEW w \in Worker, Fail(w) PROVE Inv'
<1>0. /\ TypeOK /\ FrameInv /\ LockIsExclusive /\ OrderInv
      /\ NoLostWakeup /\ FlagReachesEvent /\ WakesInShutdown
  BY DEF Inv
<1>1. TypeOK'
  BY <1>0, Runners DEF TypeOK, Fail, Goto, event, Label
<1>2. FrameInv'
  BY <1>0, Runners DEF FrameInv, TypeOK, Fail, Goto, event, Inside
<1>3. LockIsExclusive'
  BY <1>0, Runners DEF LockIsExclusive, TypeOK, Fail, Goto, event, Critical
<1>4. OrderInv'
  BY <1>0, Runners DEF OrderInv, TypeOK, Fail, Goto, event
<1>5. NoLostWakeup'
  BY <1>0, Runners DEF NoLostWakeup, TypeOK, Fail, Goto, event, Sleeper
<1>6. FlagReachesEvent'
  BY <1>0, Runners DEF FlagReachesEvent, TypeOK, Fail, Goto, event
<1>7. WakesInShutdown'
  BY <1>0, Runners DEF WakesInShutdown, TypeOK, Fail, Goto, event
<1>8. QED
  BY <1>1, <1>2, <1>3, <1>4, <1>5, <1>6, <1>7 DEF Inv

\* A handler's frame was not in use, and is no sleeper's.
LEMMA TerminateStep ==
  ASSUME Inv, Terminate PROVE Inv'
<1>0. /\ TypeOK /\ FrameInv /\ LockIsExclusive /\ OrderInv
      /\ NoLostWakeup /\ FlagReachesEvent /\ WakesInShutdown
  BY DEF Inv
<1>1. top + 1 \in Frame /\ top + 1 \in Runner /\ pc[top + 1] = "done" /\ top + 1 \notin Sleeper /\ top + 1 # Free
  BY <1>0, Runners DEF Terminate, TypeOK, FrameInv, Frame, Sleeper, Nanny, Free
<1>2. TypeOK'
  BY <1>0, <1>1, Runners DEF TypeOK, Terminate, Goto, event, Label, Frame
<1>3. FrameInv'
  BY <1>0, <1>1, Runners DEF FrameInv, TypeOK, Terminate, Goto, event, Inside, Frame
<1>4. LockIsExclusive'
  BY <1>0, <1>1, Runners DEF LockIsExclusive, TypeOK, Terminate, Goto, event, Critical
<1>5. OrderInv'
  BY <1>0, <1>1, Runners DEF OrderInv, TypeOK, Terminate, Goto, event
<1>6. NoLostWakeup'
  BY <1>0, <1>1, Runners DEF NoLostWakeup, TypeOK, Terminate, Goto, event, Sleeper
<1>7. FlagReachesEvent'
  BY <1>0, <1>1, Runners DEF FlagReachesEvent, TypeOK, Terminate, Goto, event
<1>8. WakesInShutdown'
  BY <1>0, <1>1, Runners DEF WakesInShutdown, TypeOK, Terminate, Goto, event
<1>9. QED
  BY <1>2, <1>3, <1>4, <1>5, <1>6, <1>7, <1>8 DEF Inv

LEMMA NextInv == Inv /\ [Next]_vars => Inv'
<1> SUFFICES ASSUME Inv, [Next]_vars PROVE Inv'
  OBVIOUS
<1>1. ASSUME NEW f \in Runner, f \in Frame => f = top, Die(f) \/ Event(f) PROVE Inv'
  BY <1>1, DieStep, SetAcquireStep, SetFlagStep, SetNotifyStep, SetReleaseStep, WaitAcquireStep,
     WaitTestStep, WaitSleepStep, WaitWakeStep, WaitReacquireStep, WaitReleaseStep DEF Event
<1>2. CASE MainStep
  <2>1. top \in Runner
    BY Runners DEF Inv, TypeOK
  <2>2. QED
    BY <1>1, <1>2, <2>1, MainLoopStep DEF MainStep
<1>3. CASE NannyStep
  BY <1>1, <1>3, NannyLoopStep, Runners DEF NannyStep
<1>4. ASSUME NEW w \in Worker, Fail(w) \/ WorkerStep(w) PROVE Inv'
  BY <1>1, <1>4, FailStep, Runners DEF WorkerStep
<1>5. CASE UNCHANGED vars
  BY <1>5 DEF vars, Inv, TypeOK, FrameInv, LockIsExclusive, OrderInv, NoLostWakeup, FlagReachesEvent,
              WakesInShutdown
<1>6. QED
  BY <1>2, <1>3, <1>4, <1>5, TerminateStep DEF Next

-----------------------------------------------------------------------------
\* The invariant of the event: everything below follows from it.
THEOREM Invariant == Spec => []Inv
BY InitInv, NextInv, PTL DEF Spec

\* Runners, the event and its lock keep their types.
THEOREM TypeCorrect == Spec => []TypeOK
<1>1. Inv => TypeOK
  BY DEF Inv
<1>2. QED
  BY <1>1, Invariant, PTL

\* set() and wait() lose no wake-up, wherever a signal comes in between.
THEOREM WakeupSafe == Spec => []NoLostWakeup
<1>1. Inv => NoLostWakeup
  BY DEF Inv
<1>2. QED
  BY <1>1, Invariant, PTL

\* Once the flag is up the event is set, or a caller of set() has yet to do it.
THEOREM FlagSafe == Spec => []FlagReachesEvent
<1>1. Inv => FlagReachesEvent
  BY DEF Inv
<1>2. QED
  BY <1>1, Invariant, PTL

\* Nothing but a shutdown ends a wait of the main thread.
THEOREM WakesSafe == Spec => []WakesInShutdown
<1>1. Inv => WakesInShutdown
  BY DEF Inv
<1>2. QED
  BY <1>1, Invariant, PTL

-----------------------------------------------------------------------------
\* The sleepers that are inside wait().
Waiting == {s \in Sleeper : pc[s] \in Inside}

\* They change only with the place of a sleeper.
LEMMA WaitingMoves ==
  ASSUME TypeOK, NEW f \in Runner, NEW label, Goto(f, label)
  PROVE  /\ f \notin Sleeper => Waiting' = Waiting
         /\ f \in Sleeper /\ label \in Inside => Waiting' = Waiting \cup {f}
         /\ f \in Sleeper /\ label \notin Inside => Waiting' = Waiting \ {f}
BY Runners DEF TypeOK, Goto, Waiting

\* Most steps of die(), set() and wait() leave a runner where it was with respect
\* to wait(), and the event as it was: they are stutters of the atomic event.
LEMMA Stutters ==
  ASSUME Inv, NEW f \in Runner, NEW label, Goto(f, label), pc[f] \in Inside <=> label \in Inside,
         UNCHANGED isSet
  PROVE  [Atomic!Next]_<<isSet, Waiting>>
<1>1. Waiting' = Waiting
  BY WaitingMoves DEF Inv, Waiting
<1>2. QED
  BY <1>1

\* Going into wait(), and coming out of it.
LEMMA Enters ==
  ASSUME Inv, NEW f \in Sleeper, NEW label, Goto(f, label), pc[f] \notin Inside, label \in Inside,
         UNCHANGED isSet
  PROVE  [Atomic!Next]_<<isSet, Waiting>>
<1>1. Waiting' = Waiting \cup {f} /\ f \notin Waiting
  BY WaitingMoves, Runners DEF Inv, Waiting
<1>2. Atomic!Wait(f)
  BY <1>1 DEF Atomic!Wait, Waiting
<1>3. QED
  BY <1>2 DEF Atomic!Next

LEMMA Leaves ==
  ASSUME Inv, NEW f \in Sleeper, NEW label, Goto(f, label), pc[f] \in Inside, label \notin Inside,
         isSet \/ f = Nanny, UNCHANGED isSet
  PROVE  [Atomic!Next]_<<isSet, Waiting>>
<1>1. Waiting' = Waiting \ {f} /\ f \in Waiting
  BY WaitingMoves, Runners DEF Inv, Waiting
<1>2. Atomic!Leave(f)
  BY <1>1 DEF Atomic!Leave, Waiting
<1>3. QED
  BY <1>2 DEF Atomic!Next

LEMMA AtomicInit == Init => Atomic!Init
BY Runners DEF Init, Atomic!Init, Inside

\* A step of die(), set() or wait().
LEMMA AtomicEvents ==
  ASSUME Inv, NEW f \in Runner, Die(f) \/ Event(f)
  PROVE  [Atomic!Next]_<<isSet, Waiting>>
<1>0. TypeOK /\ FrameInv /\ (pc[f] \in Inside => f \in Sleeper)
  BY DEF Inv, FrameInv
<1>1. CASE Die(f)
  BY <1>1, Stutters DEF Die, event, Inside
<1>2. CASE SetAcquire(f)
  BY <1>2, Stutters DEF SetAcquire, Inside
<1>3. CASE SetFlag(f)
  <2>1. Waiting' = Waiting
    BY <1>0, <1>3, WaitingMoves DEF SetFlag, Inside, Waiting
  <2>2. Atomic!Set
    BY <1>3, <2>1 DEF SetFlag, Atomic!Set, Waiting
  <2>3. QED
    BY <2>2 DEF Atomic!Next
<1>4. CASE SetNotify(f)
  BY <1>4, Stutters DEF SetNotify, Inside
<1>5. CASE SetRelease(f)
  <2>1. pc[f] \notin Inside /\ Goto(f, IF f = Nanny THEN then ELSE "done") /\ UNCHANGED isSet
    BY <1>5 DEF SetRelease, Return, Inside
  <2>2. CASE f = Nanny /\ then = "wait"
    BY <2>1, <2>2, Enters, Runners DEF Inside
  <2>3. CASE ~ (f = Nanny /\ then = "wait")
    BY <1>0, <2>1, <2>3, Stutters DEF TypeOK, Inside
  <2>4. QED
    BY <2>2, <2>3
<1>6. CASE WaitAcquire(f)
  BY <1>6, Stutters DEF WaitAcquire, Inside
<1>7. CASE WaitTest(f)
  <2>1. Goto(f, "woken") \/ Goto(f, "enlist")
    BY <1>7 DEF WaitTest
  <2>2. QED
    BY <1>7, <2>1, Stutters DEF WaitTest, event, Inside
<1>8. CASE WaitSleep(f)
  BY <1>8, Stutters DEF WaitSleep, Inside
<1>9. CASE WaitWake(f)
  BY <1>9, Stutters DEF WaitWake, Inside
<1>10. CASE WaitReacquire(f)
  BY <1>10, Stutters DEF WaitReacquire, Inside
<1>11. CASE WaitRelease(f)
  <2>1. pc[f] = "woken" /\ f \in Sleeper /\ Goto(f, "loop") /\ UNCHANGED isSet
    BY <1>0, <1>11 DEF WaitRelease, Inside
  <2>2. isSet \/ f = Nanny
    BY <2>1 DEF Inv, WakesInShutdown, Sleeper
  <2>3. QED
    BY <2>1, <2>2, Leaves DEF Inside
<1>12. QED
  BY <1>1, <1>2, <1>3, <1>4, <1>5, <1>6, <1>7, <1>8, <1>9, <1>10, <1>11 DEF Event

LEMMA AtomicStep ==
  ASSUME Inv, [Next]_vars PROVE [Atomic!Next]_<<isSet, Waiting>>
<1>0. TypeOK
  BY DEF Inv
<1>1. CASE MainStep
  <2>1. CASE MainLoop
    <3>1. pc[0] = "loop" /\ UNCHANGED isSet /\ (Goto(0, "wait") \/ Goto(0, "flag"))
      BY <2>1 DEF MainLoop, event
    <3>2. QED
      BY <3>1, Enters, Stutters, Runners DEF Inside
  <2>2. top \in Runner
    BY <1>0, Runners DEF TypeOK
  <2>3. QED
    BY <1>1, <2>1, <2>2, AtomicEvents DEF MainStep
<1>2. CASE NannyStep
  <2>1. CASE NannyLoop
    <3>1. pc[Nanny] = "loop" /\ UNCHANGED isSet /\ (Goto(Nanny, "wait") \/ Goto(Nanny, "flag") \/ Goto(Nanny, "set"))
      BY <2>1 DEF NannyLoop, event
    <3>2. QED
      BY <3>1, Enters, Stutters, Runners DEF Inside
  <2>2. QED
    BY <1>2, <2>1, AtomicEvents, Runners DEF NannyStep
<1>3. ASSUME NEW w \in Worker, Fail(w) \/ WorkerStep(w) PROVE [Atomic!Next]_<<isSet, Waiting>>
  <2>1. CASE Fail(w)
    BY <2>1, Stutters, Runners DEF Fail, event, Inside
  <2>2. QED
    BY <1>3, <2>1, AtomicEvents, Runners DEF WorkerStep
<1>4. CASE Terminate
  <2>1. top + 1 \in Runner /\ pc[top + 1] = "done"
    BY <1>0, <1>4, Runners DEF Terminate, Inv, TypeOK, FrameInv, Frame
  <2>2. Goto(top + 1, "flag") /\ UNCHANGED isSet
    BY <1>4 DEF Terminate, event
  <2>3. QED
    BY <2>1, <2>2, Stutters DEF Inside
<1>5. CASE UNCHANGED vars
  BY <1>5 DEF vars, Waiting
<1>6. QED
  BY <1>1, <1>2, <1>3, <1>4, <1>5 DEF Next

\* Wherever signals find the main thread, the event with its lock behaves like one
\* whose set() and wait() are atomic; the fairness of IsAtomic is left to TLC.
THEOREM Refinement == Spec => Atomic!SafeSpec
<1>1. Inv /\ [Next]_vars => [Atomic!Next]_<<isSet, {s \in Sleeper : pc[s] \in Inside}>>
  BY AtomicStep DEF Waiting
<1>2. QED
  BY <1>1, AtomicInit, Invariant, PTL DEF Spec, Atomic!SafeSpec
=============================================================================
