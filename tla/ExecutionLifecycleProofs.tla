----------------------- MODULE ExecutionLifecycleProofs -----------------------
(***************************************************************************)
(* Proofs about ExecutionLifecycle for any executions of the runtime.        *)
(***************************************************************************)
EXTENDS ExecutionLifecycle, TLAPS

\* A collector is registered by one start, and popped by one finish.  A start
\* that was overtaken by the finish of its collector publishes later, and until
\* then no other start looks at the summary.
CollectorInv ==
    \A e \in Executions :
        /\ run[e] => measured[e] = 0 /\ finishing[e] # "stopping"
        /\ finishing[e] = "stopping" => measured[e] = 0
        /\ run[e] \/ finishing[e] = "stopping" =>
              starting[e] = "registered" \/ summary[e] = "started"
        /\ measured[e] \in {0, 1}
        /\ measured[e] = 1 => starting[e] = "registered" \/ summary[e] \in {"started", "final"}

\* Only executions the registry knows are being started, and none once the
\* runtime is closed.
StartingInv ==
    \A e \in Executions : starting[e] # "none" => Known(e) /\ ~closed

\* What the abort task has dealt with is quiet for good.
Quiet(e) == ~run[e] /\ (Known(e) => finishing[e] # "stopping")

AbortInv ==
    /\ abort # "none" => closed
    /\ abort = "collect" => \A e \in Executions : Known(e) => e \in left
    /\ abort \in {"next", "wait", "done"} => \A e \in Executions \ left : e = victim \/ Quiet(e)
    /\ abort = "wait" => (finishing[victim] = "none" => ~run[victim])
    /\ abort = "done" => left = {}

\* A drain that has answered found no request in progress.
DrainInv ==
    drained => (\A e \in Executions : completion[e] \notin InHandler) /\ DrainedIsQuiet

\* The inductive invariant.
LifecycleInv == TypeOK /\ CollectorInv /\ StartingInv /\ AbortInv /\ DrainInv

-----------------------------------------------------------------------------

LEMMA InitLifecycleInv == Init => LifecycleInv
<1> SUFFICES ASSUME Init PROVE LifecycleInv
  OBVIOUS
<1> USE LifecycleAssumption DEF Init
<1>1. LauncherTypeOK /\ CollectorTypeOK
  BY DEF LauncherTypeOK, CollectorTypeOK
<1>2. TaskTypeOK /\ RuntimeTypeOK
  BY DEF TaskTypeOK, RuntimeTypeOK
<1>3. CollectorInv /\ StartingInv /\ AbortInv /\ DrainInv
  BY DEF CollectorInv, StartingInv, AbortInv, DrainInv
<1> QED
  BY <1>1, <1>2, <1>3 DEF LifecycleInv, TypeOK

LEMMA NextTypeOK == TypeOK /\ [Next]_vars => TypeOK'
<1> SUFFICES ASSUME TypeOK, [Next]_vars PROVE TypeOK'
  OBVIOUS
<1> USE LifecycleAssumption
    DEF collector, tasks, scope, aborting, launcher, TypeOK, LauncherTypeOK,
        CollectorTypeOK, TaskTypeOK, RuntimeTypeOK, InHandler, Known, HasExited, NeedsFinalization
<1>1. ASSUME NEW e \in Executions, Claim(e) PROVE TypeOK'
  <2>1. LauncherTypeOK'
    BY <1>1 DEF Claim, BeginEbpf
  <2>2. CollectorTypeOK'
    BY <1>1 DEF Claim, BeginEbpf
  <2>3. TaskTypeOK'
    BY <1>1 DEF Claim, BeginEbpf
  <2>4. RuntimeTypeOK'
    BY <1>1 DEF Claim, BeginEbpf
  <2> QED
    BY <2>1, <2>2, <2>3, <2>4
<1>2. ASSUME NEW e \in Executions, Started(e) PROVE TypeOK'
  <2>1. LauncherTypeOK'
    BY <1>2 DEF Started, BeginEbpf
  <2>2. CollectorTypeOK'
    BY <1>2 DEF Started, BeginEbpf
  <2>3. TaskTypeOK'
    BY <1>2 DEF Started, BeginEbpf
  <2>4. RuntimeTypeOK'
    BY <1>2 DEF Started, BeginEbpf
  <2> QED
    BY <2>1, <2>2, <2>3, <2>4
<1>3. ASSUME NEW e \in Executions, ProcessEnds(e) PROVE TypeOK'
  BY <1>3 DEF ProcessEnds
<1>4. ASSUME NEW e \in Executions, RegisterMarker(e) PROVE TypeOK'
  BY <1>4, ZenonT(40) DEF RegisterMarker, BeginEbpf
<1>5. ASSUME NEW e \in Executions, Exited(e) PROVE TypeOK'
  <2>1. LauncherTypeOK'
    BY <1>5 DEF Exited, ScheduleCleanup
  <2>2. CollectorTypeOK'
    BY <1>5 DEF Exited, ScheduleCleanup
  <2>3. TaskTypeOK'
    BY <1>5 DEF Exited, ScheduleCleanup
  <2>4. RuntimeTypeOK'
    BY <1>5 DEF Exited, ScheduleCleanup
  <2> QED
    BY <2>1, <2>2, <2>3, <2>4
<1>6. ASSUME NEW e \in Executions, Sweep(e) PROVE TypeOK'
  BY <1>6 DEF Sweep
<1>7. ASSUME NEW e \in Executions, StartSkipped(e) PROVE TypeOK'
  BY <1>7 DEF StartSkipped, StartDone, MayStart
<1>8. ASSUME NEW e \in Executions, StartRegisters(e) PROVE TypeOK'
  BY <1>8 DEF StartRegisters, MayStart
<1>9. ASSUME NEW e \in Executions, StartFails(e) PROVE TypeOK'
  BY <1>9 DEF StartFails, StartDone, MayStart
<1>10. ASSUME NEW e \in Executions, StartPublishes(e) PROVE TypeOK'
  BY <1>10 DEF StartPublishes, StartDone
<1>11. ASSUME NEW e \in Executions, FinishBegins(e) PROVE TypeOK'
  BY <1>11 DEF FinishBegins
<1>12. ASSUME NEW e \in Executions, FinishPops(e) PROVE TypeOK'
  BY <1>12 DEF FinishPops
<1>13. ASSUME NEW e \in Executions, FinishStops(e) PROVE TypeOK'
  BY <1>13 DEF FinishStops
<1>14. ASSUME NEW e \in Executions, FallbackFires(e) PROVE TypeOK'
  BY <1>14 DEF FallbackFires, JoinFinish
<1>15. ASSUME NEW e \in Executions, FallbackEnds(e) PROVE TypeOK'
  BY <1>15 DEF FallbackEnds, CancelFallback
<1>16. ASSUME NEW e \in Executions, GcFires(e) PROVE TypeOK'
  BY <1>16 DEF GcFires, Removable, Removed
<1>17. ASSUME NEW e \in Executions, GcRetries(e) PROVE TypeOK'
  BY <1>17 DEF GcRetries, Removable, Removed
<1>18. ASSUME NEW e \in Executions, BeginCompletion(e) PROVE TypeOK'
  <2>1. LauncherTypeOK'
    BY <1>18 DEF BeginCompletion, FinishFromCompletion, JoinFinish, CancelFallback
  <2>2. CollectorTypeOK'
    BY <1>18 DEF BeginCompletion, FinishFromCompletion, JoinFinish, CancelFallback
  <2>3. TaskTypeOK'
    BY <1>18 DEF BeginCompletion, FinishFromCompletion, JoinFinish, CancelFallback
  <2>4. RuntimeTypeOK'
    BY <1>18 DEF BeginCompletion, FinishFromCompletion, JoinFinish, CancelFallback
  <2> QED
    BY <2>1, <2>2, <2>3, <2>4
<1>19. ASSUME NEW e \in Executions, OrphanEnds(e) PROVE TypeOK'
  BY <1>19 DEF OrphanEnds, FinishFromCompletion, JoinFinish, CancelFallback
<1>20. ASSUME NEW e \in Executions, CollectorFinished(e) PROVE TypeOK'
  BY <1>20 DEF CollectorFinished
<1>21. ASSUME NEW e \in Executions, MarksCompleted(e) PROVE TypeOK'
  BY <1>21 DEF MarksCompleted, Removable, Removed, MarkCompleted
<1>22. ASSUME NEW e \in Executions, CompletionRemoves(e) PROVE TypeOK'
  BY <1>22 DEF CompletionRemoves, ScheduleCleanup, Removable, Removed
<1>23. ASSUME NEW e \in Executions, FailCompletion(e) PROVE TypeOK'
  BY <1>23 DEF FailCompletion, ScheduleCleanup
<1>24. ASSUME NEW e \in Executions, ScanBegin(e) PROVE TypeOK'
  BY <1>24 DEF ScanBegin, BeginEbpf, Startable, Active
<1>25. ASSUME NEW e \in Executions, ScanNext(e) PROVE TypeOK'
  <2>1. LauncherTypeOK'
    BY <1>25 DEF ScanNext, BeginEbpf
  <2>2. CollectorTypeOK'
    BY <1>25 DEF ScanNext, BeginEbpf
  <2>3. TaskTypeOK'
    BY <1>25 DEF ScanNext, BeginEbpf
  <2>4. RuntimeTypeOK'
    <3>1. CASE Known(e)
      BY <1>25, <3>1, ZenonT(40) DEF ScanNext
    <3>2. CASE ~Known(e)
      BY <1>25, <3>2 DEF ScanNext
    <3> QED
      BY <3>1, <3>2
  <2> QED
    BY <2>1, <2>2, <2>3, <2>4
<1>26. ASSUME NEW e \in Executions, AbortNext(e) PROVE TypeOK'
  BY <1>26 DEF AbortNext, JoinFinish, CancelFallback, MarkCompleted
<1>27. CASE ScanEnd
  BY <1>27 DEF ScanEnd
<1>28. CASE AbortBegin
  BY <1>28 DEF AbortBegin, Refused, Active
<1>29. CASE AbortCollects
  BY <1>29 DEF AbortCollects
<1>30. CASE AbortWaited
  BY <1>30 DEF AbortWaited, ScheduleCleanup, Removable, Removed
<1>31. CASE AbortEnds
  BY <1>31 DEF AbortEnds
<1>32. CASE Drain
  BY <1>32 DEF Drain, Idle, Active
<1>33. CASE UNCHANGED vars
  BY <1>33 DEF vars
<1> QED
  BY <1>1, <1>2, <1>3, <1>4, <1>5, <1>6, <1>7, <1>8, <1>9, <1>10, <1>11, <1>12, <1>13, <1>14, <1>15, <1>16, <1>17, <1>18, <1>19, <1>20, <1>21, <1>22, <1>23, <1>24, <1>25, <1>26, <1>27, <1>28, <1>29, <1>30, <1>31, <1>32, <1>33
  DEF Next, Launcher, Start, Finish, Delayed, Completion, Scan, Abort

LEMMA NextCollectorInv == TypeOK /\ CollectorInv /\ [Next]_vars => CollectorInv'
<1> SUFFICES ASSUME TypeOK, CollectorInv, [Next]_vars PROVE CollectorInv'
  OBVIOUS
<1> USE LifecycleAssumption
    DEF collector, tasks, scope, aborting, launcher, TypeOK, LauncherTypeOK,
        CollectorTypeOK, TaskTypeOK, RuntimeTypeOK, CollectorInv, InHandler, Known, HasExited, NeedsFinalization
<1>1. ASSUME NEW e \in Executions, Claim(e) PROVE CollectorInv'
  BY <1>1 DEF Claim, BeginEbpf
<1>2. ASSUME NEW e \in Executions, Started(e) PROVE CollectorInv'
  BY <1>2 DEF Started, BeginEbpf
<1>3. ASSUME NEW e \in Executions, ProcessEnds(e) PROVE CollectorInv'
  BY <1>3 DEF ProcessEnds
<1>4. ASSUME NEW e \in Executions, RegisterMarker(e) PROVE CollectorInv'
  BY <1>4 DEF RegisterMarker, BeginEbpf
<1>5. ASSUME NEW e \in Executions, Exited(e) PROVE CollectorInv'
  BY <1>5 DEF Exited, ScheduleCleanup
<1>6. ASSUME NEW e \in Executions, Sweep(e) PROVE CollectorInv'
  BY <1>6 DEF Sweep
<1>7. ASSUME NEW e \in Executions, StartSkipped(e) PROVE CollectorInv'
  BY <1>7 DEF StartSkipped, StartDone, MayStart
<1>8. ASSUME NEW e \in Executions, StartRegisters(e) PROVE CollectorInv'
  BY <1>8 DEF StartRegisters, MayStart
<1>9. ASSUME NEW e \in Executions, StartFails(e) PROVE CollectorInv'
  BY <1>9 DEF StartFails, StartDone, MayStart
<1>10. ASSUME NEW e \in Executions, StartPublishes(e) PROVE CollectorInv'
  BY <1>10 DEF StartPublishes, StartDone
<1>11. ASSUME NEW e \in Executions, FinishBegins(e) PROVE CollectorInv'
  BY <1>11 DEF FinishBegins
<1>12. ASSUME NEW e \in Executions, FinishPops(e) PROVE CollectorInv'
  BY <1>12 DEF FinishPops
<1>13. ASSUME NEW e \in Executions, FinishStops(e) PROVE CollectorInv'
  BY <1>13 DEF FinishStops
<1>14. ASSUME NEW e \in Executions, FallbackFires(e) PROVE CollectorInv'
  BY <1>14 DEF FallbackFires, JoinFinish
<1>15. ASSUME NEW e \in Executions, FallbackEnds(e) PROVE CollectorInv'
  BY <1>15 DEF FallbackEnds, CancelFallback
<1>16. ASSUME NEW e \in Executions, GcFires(e) PROVE CollectorInv'
  BY <1>16 DEF GcFires, Removable, Removed
<1>17. ASSUME NEW e \in Executions, GcRetries(e) PROVE CollectorInv'
  BY <1>17 DEF GcRetries, Removable, Removed
<1>18. ASSUME NEW e \in Executions, BeginCompletion(e) PROVE CollectorInv'
  BY <1>18 DEF BeginCompletion, FinishFromCompletion, JoinFinish, CancelFallback
<1>19. ASSUME NEW e \in Executions, OrphanEnds(e) PROVE CollectorInv'
  BY <1>19 DEF OrphanEnds, FinishFromCompletion, JoinFinish, CancelFallback
<1>20. ASSUME NEW e \in Executions, CollectorFinished(e) PROVE CollectorInv'
  BY <1>20 DEF CollectorFinished
<1>21. ASSUME NEW e \in Executions, MarksCompleted(e) PROVE CollectorInv'
  BY <1>21 DEF MarksCompleted, Removable, Removed, MarkCompleted
<1>22. ASSUME NEW e \in Executions, CompletionRemoves(e) PROVE CollectorInv'
  BY <1>22 DEF CompletionRemoves, ScheduleCleanup, Removable, Removed
<1>23. ASSUME NEW e \in Executions, FailCompletion(e) PROVE CollectorInv'
  BY <1>23 DEF FailCompletion, ScheduleCleanup
<1>24. ASSUME NEW e \in Executions, ScanBegin(e) PROVE CollectorInv'
  BY <1>24 DEF ScanBegin, BeginEbpf, Startable, Active
<1>25. ASSUME NEW e \in Executions, ScanNext(e) PROVE CollectorInv'
  BY <1>25 DEF ScanNext, BeginEbpf
<1>26. ASSUME NEW e \in Executions, AbortNext(e) PROVE CollectorInv'
  BY <1>26 DEF AbortNext, JoinFinish, CancelFallback, MarkCompleted
<1>27. CASE ScanEnd
  BY <1>27 DEF ScanEnd
<1>28. CASE AbortBegin
  BY <1>28 DEF AbortBegin, Refused, Active
<1>29. CASE AbortCollects
  BY <1>29 DEF AbortCollects
<1>30. CASE AbortWaited
  BY <1>30 DEF AbortWaited, ScheduleCleanup, Removable, Removed
<1>31. CASE AbortEnds
  BY <1>31 DEF AbortEnds
<1>32. CASE Drain
  BY <1>32 DEF Drain, Idle, Active
<1>33. CASE UNCHANGED vars
  BY <1>33 DEF vars
<1> QED
  BY <1>1, <1>2, <1>3, <1>4, <1>5, <1>6, <1>7, <1>8, <1>9, <1>10, <1>11, <1>12, <1>13, <1>14, <1>15, <1>16, <1>17, <1>18, <1>19, <1>20, <1>21, <1>22, <1>23, <1>24, <1>25, <1>26, <1>27, <1>28, <1>29, <1>30, <1>31, <1>32, <1>33
  DEF Next, Launcher, Start, Finish, Delayed, Completion, Scan, Abort

LEMMA NextStartingInv == TypeOK /\ StartingInv /\ AbortInv /\ [Next]_vars => StartingInv'
<1> SUFFICES ASSUME TypeOK, StartingInv, AbortInv, [Next]_vars PROVE StartingInv'
  OBVIOUS
<1> USE LifecycleAssumption
    DEF collector, tasks, scope, aborting, launcher, TypeOK, LauncherTypeOK,
        CollectorTypeOK, TaskTypeOK, RuntimeTypeOK, StartingInv, AbortInv, InHandler, Known, HasExited, NeedsFinalization
<1>1. ASSUME NEW e \in Executions, Claim(e) PROVE StartingInv'
  BY <1>1 DEF Claim, BeginEbpf
<1>2. ASSUME NEW e \in Executions, Started(e) PROVE StartingInv'
  BY <1>2 DEF Started, BeginEbpf
<1>3. ASSUME NEW e \in Executions, ProcessEnds(e) PROVE StartingInv'
  BY <1>3 DEF ProcessEnds
<1>4. ASSUME NEW e \in Executions, RegisterMarker(e) PROVE StartingInv'
  BY <1>4 DEF RegisterMarker, BeginEbpf
<1>5. ASSUME NEW e \in Executions, Exited(e) PROVE StartingInv'
  BY <1>5 DEF Exited, ScheduleCleanup
<1>6. ASSUME NEW e \in Executions, Sweep(e) PROVE StartingInv'
  BY <1>6 DEF Sweep
<1>7. ASSUME NEW e \in Executions, StartSkipped(e) PROVE StartingInv'
  BY <1>7 DEF StartSkipped, StartDone, MayStart
<1>8. ASSUME NEW e \in Executions, StartRegisters(e) PROVE StartingInv'
  BY <1>8 DEF StartRegisters, MayStart
<1>9. ASSUME NEW e \in Executions, StartFails(e) PROVE StartingInv'
  BY <1>9 DEF StartFails, StartDone, MayStart
<1>10. ASSUME NEW e \in Executions, StartPublishes(e) PROVE StartingInv'
  BY <1>10 DEF StartPublishes, StartDone
<1>11. ASSUME NEW e \in Executions, FinishBegins(e) PROVE StartingInv'
  BY <1>11 DEF FinishBegins
<1>12. ASSUME NEW e \in Executions, FinishPops(e) PROVE StartingInv'
  BY <1>12 DEF FinishPops
<1>13. ASSUME NEW e \in Executions, FinishStops(e) PROVE StartingInv'
  BY <1>13 DEF FinishStops
<1>14. ASSUME NEW e \in Executions, FallbackFires(e) PROVE StartingInv'
  BY <1>14 DEF FallbackFires, JoinFinish
<1>15. ASSUME NEW e \in Executions, FallbackEnds(e) PROVE StartingInv'
  BY <1>15 DEF FallbackEnds, CancelFallback
<1>16. ASSUME NEW e \in Executions, GcFires(e) PROVE StartingInv'
  BY <1>16 DEF GcFires, Removable, Removed
<1>17. ASSUME NEW e \in Executions, GcRetries(e) PROVE StartingInv'
  BY <1>17 DEF GcRetries, Removable, Removed
<1>18. ASSUME NEW e \in Executions, BeginCompletion(e) PROVE StartingInv'
  BY <1>18 DEF BeginCompletion, FinishFromCompletion, JoinFinish, CancelFallback
<1>19. ASSUME NEW e \in Executions, OrphanEnds(e) PROVE StartingInv'
  BY <1>19 DEF OrphanEnds, FinishFromCompletion, JoinFinish, CancelFallback
<1>20. ASSUME NEW e \in Executions, CollectorFinished(e) PROVE StartingInv'
  BY <1>20 DEF CollectorFinished
<1>21. ASSUME NEW e \in Executions, MarksCompleted(e) PROVE StartingInv'
  BY <1>21 DEF MarksCompleted, Removable, Removed, MarkCompleted
<1>22. ASSUME NEW e \in Executions, CompletionRemoves(e) PROVE StartingInv'
  BY <1>22 DEF CompletionRemoves, ScheduleCleanup, Removable, Removed
<1>23. ASSUME NEW e \in Executions, FailCompletion(e) PROVE StartingInv'
  BY <1>23 DEF FailCompletion, ScheduleCleanup
<1>24. ASSUME NEW e \in Executions, ScanBegin(e) PROVE StartingInv'
  BY <1>24 DEF ScanBegin, BeginEbpf, Startable, Active
<1>25. ASSUME NEW e \in Executions, ScanNext(e) PROVE StartingInv'
  BY <1>25 DEF ScanNext, BeginEbpf
<1>26. ASSUME NEW e \in Executions, AbortNext(e) PROVE StartingInv'
  BY <1>26 DEF AbortNext, JoinFinish, CancelFallback, MarkCompleted
<1>27. CASE ScanEnd
  BY <1>27 DEF ScanEnd
<1>28. CASE AbortBegin
  BY <1>28 DEF AbortBegin, Refused, Active
<1>29. CASE AbortCollects
  BY <1>29 DEF AbortCollects
<1>30. CASE AbortWaited
  BY <1>30 DEF AbortWaited, ScheduleCleanup, Removable, Removed
<1>31. CASE AbortEnds
  BY <1>31 DEF AbortEnds
<1>32. CASE Drain
  BY <1>32 DEF Drain, Idle, Active
<1>33. CASE UNCHANGED vars
  BY <1>33 DEF vars
<1> QED
  BY <1>1, <1>2, <1>3, <1>4, <1>5, <1>6, <1>7, <1>8, <1>9, <1>10, <1>11, <1>12, <1>13, <1>14, <1>15, <1>16, <1>17, <1>18, <1>19, <1>20, <1>21, <1>22, <1>23, <1>24, <1>25, <1>26, <1>27, <1>28, <1>29, <1>30, <1>31, <1>32, <1>33
  DEF Next, Launcher, Start, Finish, Delayed, Completion, Scan, Abort

LEMMA NextAbortInv == TypeOK /\ CollectorInv /\ StartingInv /\ AbortInv /\ [Next]_vars => AbortInv'
<1> SUFFICES ASSUME TypeOK, CollectorInv, StartingInv, AbortInv, [Next]_vars PROVE AbortInv'
  OBVIOUS
<1> USE LifecycleAssumption
    DEF collector, tasks, scope, aborting, launcher, TypeOK, LauncherTypeOK,
        CollectorTypeOK, TaskTypeOK, RuntimeTypeOK, CollectorInv, StartingInv, AbortInv, Quiet, InHandler, Known, HasExited, NeedsFinalization
<1>1. ASSUME NEW e \in Executions, Claim(e) PROVE AbortInv'
  BY <1>1 DEF Claim, BeginEbpf
<1>2. ASSUME NEW e \in Executions, Started(e) PROVE AbortInv'
  BY <1>2 DEF Started, BeginEbpf
<1>3. ASSUME NEW e \in Executions, ProcessEnds(e) PROVE AbortInv'
  BY <1>3 DEF ProcessEnds
<1>4. ASSUME NEW e \in Executions, RegisterMarker(e) PROVE AbortInv'
  BY <1>4 DEF RegisterMarker, BeginEbpf
<1>5. ASSUME NEW e \in Executions, Exited(e) PROVE AbortInv'
  BY <1>5 DEF Exited, ScheduleCleanup
<1>6. ASSUME NEW e \in Executions, Sweep(e) PROVE AbortInv'
  BY <1>6 DEF Sweep
<1>7. ASSUME NEW e \in Executions, StartSkipped(e) PROVE AbortInv'
  BY <1>7 DEF StartSkipped, StartDone, MayStart
<1>8. ASSUME NEW e \in Executions, StartRegisters(e) PROVE AbortInv'
  BY <1>8 DEF StartRegisters, MayStart
<1>9. ASSUME NEW e \in Executions, StartFails(e) PROVE AbortInv'
  BY <1>9 DEF StartFails, StartDone, MayStart
<1>10. ASSUME NEW e \in Executions, StartPublishes(e) PROVE AbortInv'
  BY <1>10 DEF StartPublishes, StartDone
<1>11. ASSUME NEW e \in Executions, FinishBegins(e) PROVE AbortInv'
  BY <1>11 DEF FinishBegins
<1>12. ASSUME NEW e \in Executions, FinishPops(e) PROVE AbortInv'
  BY <1>12 DEF FinishPops
<1>13. ASSUME NEW e \in Executions, FinishStops(e) PROVE AbortInv'
  BY <1>13 DEF FinishStops
<1>14. ASSUME NEW e \in Executions, FallbackFires(e) PROVE AbortInv'
  BY <1>14 DEF FallbackFires, JoinFinish
<1>15. ASSUME NEW e \in Executions, FallbackEnds(e) PROVE AbortInv'
  BY <1>15 DEF FallbackEnds, CancelFallback
<1>16. ASSUME NEW e \in Executions, GcFires(e) PROVE AbortInv'
  BY <1>16 DEF GcFires, Removable, Removed
<1>17. ASSUME NEW e \in Executions, GcRetries(e) PROVE AbortInv'
  BY <1>17 DEF GcRetries, Removable, Removed
<1>18. ASSUME NEW e \in Executions, BeginCompletion(e) PROVE AbortInv'
  BY <1>18 DEF BeginCompletion, FinishFromCompletion, JoinFinish, CancelFallback
<1>19. ASSUME NEW e \in Executions, OrphanEnds(e) PROVE AbortInv'
  BY <1>19 DEF OrphanEnds, FinishFromCompletion, JoinFinish, CancelFallback
<1>20. ASSUME NEW e \in Executions, CollectorFinished(e) PROVE AbortInv'
  BY <1>20 DEF CollectorFinished
<1>21. ASSUME NEW e \in Executions, MarksCompleted(e) PROVE AbortInv'
  BY <1>21 DEF MarksCompleted, Removable, Removed, MarkCompleted
<1>22. ASSUME NEW e \in Executions, CompletionRemoves(e) PROVE AbortInv'
  BY <1>22 DEF CompletionRemoves, ScheduleCleanup, Removable, Removed
<1>23. ASSUME NEW e \in Executions, FailCompletion(e) PROVE AbortInv'
  BY <1>23 DEF FailCompletion, ScheduleCleanup
<1>24. ASSUME NEW e \in Executions, ScanBegin(e) PROVE AbortInv'
  BY <1>24 DEF ScanBegin, BeginEbpf, Startable, Active
<1>25. ASSUME NEW e \in Executions, ScanNext(e) PROVE AbortInv'
  BY <1>25 DEF ScanNext, BeginEbpf
<1>26. ASSUME NEW e \in Executions, AbortNext(e) PROVE AbortInv'
  BY <1>26 DEF AbortNext, JoinFinish, CancelFallback, MarkCompleted
<1>27. CASE ScanEnd
  BY <1>27 DEF ScanEnd
<1>28. CASE AbortBegin
  BY <1>28 DEF AbortBegin, Refused, Active
<1>29. CASE AbortCollects
  BY <1>29 DEF AbortCollects
<1>30. CASE AbortWaited
  BY <1>30 DEF AbortWaited, ScheduleCleanup, Removable, Removed
<1>31. CASE AbortEnds
  BY <1>31 DEF AbortEnds
<1>32. CASE Drain
  BY <1>32 DEF Drain, Idle, Active
<1>33. CASE UNCHANGED vars
  BY <1>33 DEF vars
<1> QED
  BY <1>1, <1>2, <1>3, <1>4, <1>5, <1>6, <1>7, <1>8, <1>9, <1>10, <1>11, <1>12, <1>13, <1>14, <1>15, <1>16, <1>17, <1>18, <1>19, <1>20, <1>21, <1>22, <1>23, <1>24, <1>25, <1>26, <1>27, <1>28, <1>29, <1>30, <1>31, <1>32, <1>33
  DEF Next, Launcher, Start, Finish, Delayed, Completion, Scan, Abort

LEMMA NextDrainInv == TypeOK /\ StartingInv /\ DrainInv /\ [Next]_vars => DrainInv'
<1> SUFFICES ASSUME TypeOK, StartingInv, DrainInv, [Next]_vars PROVE DrainInv'
  OBVIOUS
<1> USE LifecycleAssumption
    DEF collector, tasks, scope, aborting, launcher, TypeOK, LauncherTypeOK,
        CollectorTypeOK, TaskTypeOK, RuntimeTypeOK, StartingInv, DrainInv, DrainedIsQuiet, InHandler, Known, HasExited, NeedsFinalization
<1>1. ASSUME NEW e \in Executions, Claim(e) PROVE DrainInv'
  BY <1>1 DEF Claim, BeginEbpf
<1>2. ASSUME NEW e \in Executions, Started(e) PROVE DrainInv'
  BY <1>2 DEF Started, BeginEbpf
<1>3. ASSUME NEW e \in Executions, ProcessEnds(e) PROVE DrainInv'
  BY <1>3 DEF ProcessEnds
<1>4. ASSUME NEW e \in Executions, RegisterMarker(e) PROVE DrainInv'
  BY <1>4 DEF RegisterMarker, BeginEbpf
<1>5. ASSUME NEW e \in Executions, Exited(e) PROVE DrainInv'
  BY <1>5 DEF Exited, ScheduleCleanup
<1>6. ASSUME NEW e \in Executions, Sweep(e) PROVE DrainInv'
  BY <1>6 DEF Sweep
<1>7. ASSUME NEW e \in Executions, StartSkipped(e) PROVE DrainInv'
  BY <1>7 DEF StartSkipped, StartDone, MayStart
<1>8. ASSUME NEW e \in Executions, StartRegisters(e) PROVE DrainInv'
  BY <1>8 DEF StartRegisters, MayStart
<1>9. ASSUME NEW e \in Executions, StartFails(e) PROVE DrainInv'
  BY <1>9 DEF StartFails, StartDone, MayStart
<1>10. ASSUME NEW e \in Executions, StartPublishes(e) PROVE DrainInv'
  BY <1>10 DEF StartPublishes, StartDone
<1>11. ASSUME NEW e \in Executions, FinishBegins(e) PROVE DrainInv'
  BY <1>11 DEF FinishBegins
<1>12. ASSUME NEW e \in Executions, FinishPops(e) PROVE DrainInv'
  BY <1>12 DEF FinishPops
<1>13. ASSUME NEW e \in Executions, FinishStops(e) PROVE DrainInv'
  BY <1>13 DEF FinishStops
<1>14. ASSUME NEW e \in Executions, FallbackFires(e) PROVE DrainInv'
  BY <1>14 DEF FallbackFires, JoinFinish
<1>15. ASSUME NEW e \in Executions, FallbackEnds(e) PROVE DrainInv'
  BY <1>15 DEF FallbackEnds, CancelFallback
<1>16. ASSUME NEW e \in Executions, GcFires(e) PROVE DrainInv'
  BY <1>16 DEF GcFires, Removable, Removed
<1>17. ASSUME NEW e \in Executions, GcRetries(e) PROVE DrainInv'
  BY <1>17 DEF GcRetries, Removable, Removed
<1>18. ASSUME NEW e \in Executions, BeginCompletion(e) PROVE DrainInv'
  BY <1>18 DEF BeginCompletion, FinishFromCompletion, JoinFinish, CancelFallback
<1>19. ASSUME NEW e \in Executions, OrphanEnds(e) PROVE DrainInv'
  BY <1>19 DEF OrphanEnds, FinishFromCompletion, JoinFinish, CancelFallback
<1>20. ASSUME NEW e \in Executions, CollectorFinished(e) PROVE DrainInv'
  BY <1>20 DEF CollectorFinished
<1>21. ASSUME NEW e \in Executions, MarksCompleted(e) PROVE DrainInv'
  BY <1>21 DEF MarksCompleted, Removable, Removed, MarkCompleted
<1>22. ASSUME NEW e \in Executions, CompletionRemoves(e) PROVE DrainInv'
  BY <1>22 DEF CompletionRemoves, ScheduleCleanup, Removable, Removed
<1>23. ASSUME NEW e \in Executions, FailCompletion(e) PROVE DrainInv'
  BY <1>23 DEF FailCompletion, ScheduleCleanup
<1>24. ASSUME NEW e \in Executions, ScanBegin(e) PROVE DrainInv'
  BY <1>24 DEF ScanBegin, BeginEbpf, Startable, Active
<1>25. ASSUME NEW e \in Executions, ScanNext(e) PROVE DrainInv'
  BY <1>25, ZenonT(40) DEF ScanNext, BeginEbpf
<1>26. ASSUME NEW e \in Executions, AbortNext(e) PROVE DrainInv'
  BY <1>26 DEF AbortNext, JoinFinish, CancelFallback, MarkCompleted
<1>27. CASE ScanEnd
  BY <1>27 DEF ScanEnd
<1>28. CASE AbortBegin
  BY <1>28 DEF AbortBegin, Refused, Active
<1>29. CASE AbortCollects
  BY <1>29 DEF AbortCollects
<1>30. CASE AbortWaited
  BY <1>30 DEF AbortWaited, ScheduleCleanup, Removable, Removed
<1>31. CASE AbortEnds
  BY <1>31 DEF AbortEnds
<1>32. CASE Drain
  BY <1>32 DEF Drain, Idle, Active
<1>33. CASE UNCHANGED vars
  BY <1>33 DEF vars
<1> QED
  BY <1>1, <1>2, <1>3, <1>4, <1>5, <1>6, <1>7, <1>8, <1>9, <1>10, <1>11, <1>12, <1>13, <1>14, <1>15, <1>16, <1>17, <1>18, <1>19, <1>20, <1>21, <1>22, <1>23, <1>24, <1>25, <1>26, <1>27, <1>28, <1>29, <1>30, <1>31, <1>32, <1>33
  DEF Next, Launcher, Start, Finish, Delayed, Completion, Scan, Abort

-----------------------------------------------------------------------------

LEMMA LifecycleInvariant == Spec => []LifecycleInv
<1>1. LifecycleInv /\ [Next]_vars => LifecycleInv'
  BY NextTypeOK, NextCollectorInv, NextStartingInv, NextAbortInv, NextDrainInv DEF LifecycleInv
<1> QED
  BY InitLifecycleInv, <1>1, PTL DEF Spec

\* The exactly-once authority of the predictor's registry of active runs: however
\* exits, fallbacks, completions, aborts and scope updates interleave, the
\* collector of an execution is finished at most once.
THEOREM FinishedOnce == Spec => []MeasuredOnce
<1>1. LifecycleInv => MeasuredOnce
  BY DEF LifecycleInv, CollectorInv, MeasuredOnce
<1> QED
  BY <1>1, LifecycleInvariant, PTL

\* What abort and drain answer is so, for any number of executions: no collector
\* is left, and no task of an execution that the registry knows.
THEOREM AnswersAreQuiet == Spec => []QuietWhenSaid
<1>1. LifecycleInv => AbortedIsQuiet
  <2> SUFFICES ASSUME LifecycleInv, abort = "done", NEW e \in Executions
               PROVE  ~run[e] /\ starting[e] = "none" /\ (Known(e) => finishing[e] # "stopping")
    BY DEF AbortedIsQuiet
  <2>1. left = {} /\ e # victim
    BY LifecycleAssumption DEF LifecycleInv, AbortInv, TypeOK, RuntimeTypeOK
  <2>2. Quiet(e) /\ closed
    BY <2>1 DEF LifecycleInv, AbortInv
  <2> QED
    BY <2>2 DEF LifecycleInv, StartingInv, Quiet
<1>2. LifecycleInv => DrainedIsQuiet
  BY DEF LifecycleInv, DrainInv, DrainedIsQuiet
<1>3. LifecycleInv => QuietWhenSaid
  BY <1>1, <1>2 DEF QuietWhenSaid
<1> QED
  BY <1>3, LifecycleInvariant, PTL

-----------------------------------------------------------------------------

\* What MeasurementStands says of one step.
Stands ==
    \A e \in Executions :
        /\ summary[e] = "final" /\ starting[e] # "registered" => summary'[e] = "final"
        /\ finishing[e] = "none" /\ finishing'[e] # "none" /\ record[e] = "reported"
              => e \in evidence'

LEMMA NextStands == TypeOK /\ [Next]_vars => Stands
<1> SUFFICES ASSUME TypeOK, [Next]_vars PROVE Stands
  OBVIOUS
<1> USE LifecycleAssumption
    DEF collector, tasks, scope, aborting, launcher, TypeOK, LauncherTypeOK,
        CollectorTypeOK, TaskTypeOK, RuntimeTypeOK, Stands, InHandler, Known, HasExited, NeedsFinalization
<1>1. ASSUME NEW e \in Executions, Claim(e) PROVE Stands
  BY <1>1 DEF Claim, BeginEbpf
<1>2. ASSUME NEW e \in Executions, Started(e) PROVE Stands
  BY <1>2 DEF Started, BeginEbpf
<1>3. ASSUME NEW e \in Executions, ProcessEnds(e) PROVE Stands
  BY <1>3 DEF ProcessEnds
<1>4. ASSUME NEW e \in Executions, RegisterMarker(e) PROVE Stands
  BY <1>4 DEF RegisterMarker, BeginEbpf
<1>5. ASSUME NEW e \in Executions, Exited(e) PROVE Stands
  BY <1>5 DEF Exited, ScheduleCleanup
<1>6. ASSUME NEW e \in Executions, Sweep(e) PROVE Stands
  BY <1>6 DEF Sweep
<1>7. ASSUME NEW e \in Executions, StartSkipped(e) PROVE Stands
  BY <1>7 DEF StartSkipped, StartDone, MayStart
<1>8. ASSUME NEW e \in Executions, StartRegisters(e) PROVE Stands
  BY <1>8 DEF StartRegisters, MayStart
<1>9. ASSUME NEW e \in Executions, StartFails(e) PROVE Stands
  BY <1>9 DEF StartFails, StartDone, MayStart
<1>10. ASSUME NEW e \in Executions, StartPublishes(e) PROVE Stands
  BY <1>10 DEF StartPublishes, StartDone
<1>11. ASSUME NEW e \in Executions, FinishBegins(e) PROVE Stands
  BY <1>11 DEF FinishBegins
<1>12. ASSUME NEW e \in Executions, FinishPops(e) PROVE Stands
  BY <1>12 DEF FinishPops
<1>13. ASSUME NEW e \in Executions, FinishStops(e) PROVE Stands
  BY <1>13 DEF FinishStops
<1>14. ASSUME NEW e \in Executions, FallbackFires(e) PROVE Stands
  BY <1>14 DEF FallbackFires, JoinFinish
<1>15. ASSUME NEW e \in Executions, FallbackEnds(e) PROVE Stands
  BY <1>15 DEF FallbackEnds, CancelFallback
<1>16. ASSUME NEW e \in Executions, GcFires(e) PROVE Stands
  BY <1>16 DEF GcFires, Removable, Removed
<1>17. ASSUME NEW e \in Executions, GcRetries(e) PROVE Stands
  BY <1>17 DEF GcRetries, Removable, Removed
<1>18. ASSUME NEW e \in Executions, BeginCompletion(e) PROVE Stands
  BY <1>18 DEF BeginCompletion, FinishFromCompletion, JoinFinish, CancelFallback
<1>19. ASSUME NEW e \in Executions, OrphanEnds(e) PROVE Stands
  BY <1>19 DEF OrphanEnds, FinishFromCompletion, JoinFinish, CancelFallback
<1>20. ASSUME NEW e \in Executions, CollectorFinished(e) PROVE Stands
  BY <1>20 DEF CollectorFinished
<1>21. ASSUME NEW e \in Executions, MarksCompleted(e) PROVE Stands
  BY <1>21 DEF MarksCompleted, Removable, Removed, MarkCompleted
<1>22. ASSUME NEW e \in Executions, CompletionRemoves(e) PROVE Stands
  BY <1>22 DEF CompletionRemoves, ScheduleCleanup, Removable, Removed
<1>23. ASSUME NEW e \in Executions, FailCompletion(e) PROVE Stands
  BY <1>23 DEF FailCompletion, ScheduleCleanup
<1>24. ASSUME NEW e \in Executions, ScanBegin(e) PROVE Stands
  BY <1>24 DEF ScanBegin, BeginEbpf, Startable, Active
<1>25. ASSUME NEW e \in Executions, ScanNext(e) PROVE Stands
  BY <1>25 DEF ScanNext, BeginEbpf
<1>26. ASSUME NEW e \in Executions, AbortNext(e) PROVE Stands
  BY <1>26 DEF AbortNext, JoinFinish, CancelFallback, MarkCompleted
<1>27. CASE ScanEnd
  BY <1>27 DEF ScanEnd
<1>28. CASE AbortBegin
  BY <1>28 DEF AbortBegin, Refused, Active
<1>29. CASE AbortCollects
  BY <1>29 DEF AbortCollects
<1>30. CASE AbortWaited
  BY <1>30 DEF AbortWaited, ScheduleCleanup, Removable, Removed
<1>31. CASE AbortEnds
  BY <1>31 DEF AbortEnds
<1>32. CASE Drain
  BY <1>32 DEF Drain, Idle, Active
<1>33. CASE UNCHANGED vars
  BY <1>33 DEF vars
<1> QED
  BY <1>1, <1>2, <1>3, <1>4, <1>5, <1>6, <1>7, <1>8, <1>9, <1>10, <1>11, <1>12, <1>13, <1>14, <1>15, <1>16, <1>17, <1>18, <1>19, <1>20, <1>21, <1>22, <1>23, <1>24, <1>25, <1>26, <1>27, <1>28, <1>29, <1>30, <1>31, <1>32, <1>33
  DEF Next, Launcher, Start, Finish, Delayed, Completion, Scan, Abort

\* A final summary stands but for a start that was overtaken, and an accepted
\* status reaches whichever task finishes the collector.
THEOREM MeasurementsStand == Spec => MeasurementStands
<1>1. LifecycleInv /\ [Next]_vars => [Stands]_vars
  BY NextStands DEF LifecycleInv
<1> QED
  BY <1>1, LifecycleInvariant, PTL DEF Spec, MeasurementStands, Stands
=============================================================================
