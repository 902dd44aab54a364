--------------------------- MODULE BenchmarkProofs ---------------------------
(***************************************************************************)
(* The programs of a benchmark, for any number of tasks, workers, retries,    *)
(* files, invocations, processes, calls and faults: a batch, an online run, a  *)
(* task on the host, the audit of a task and a task with bridged tools.         *)
(*                                                                         *)
(* A batch: serially no other task is between its start and its end, so what a *)
(* task publishes holds what was shared when it began (ShareInv); a mixed       *)
(* generation comes from a task that still waits to be handled, after which no  *)
(* task starts (WholeInv).                                                     *)
(*                                                                         *)
(* A run: whatever has an agent, or has taught, is active or reported in the   *)
(* saved file, and a saved file without active tasks reports all tasks or none. *)
(* So an invocation that starts finds that nothing was taught, and every pair   *)
(* belongs to the last invocation.                                             *)
(***************************************************************************)
EXTENDS MCSurroundings, FiniteSetTheorems, TLAPS

-----------------------------------------------------------------------------
(* A batch.                                                                  *)

\* The shape of its state.
BatchTypes ==
    /\ mode \in {"container", "host"} /\ workers \in Nat \ {0}
    /\ phase \in {"running", "joining", "merging", "reporting", "done"}
    /\ pc \in [Tasks -> {"queued", "cancelled", "running", "publishing", "ended", "handled"}]
    /\ attempt \in [Tasks -> 0..Retries + 1]
    /\ outcome \in [Tasks -> {"none", "ok", "fail", "kb"}]
    /\ trace \in [Tasks -> SUBSET Observations]
    /\ kb \in [Tasks -> [Files -> SUBSET Observations]]
    /\ shared \in [Files -> SUBSET Observations]
    /\ left \subseteq Tasks
    /\ sidecar \in {"none", "up", "dead", "stopped"}
    /\ \A t \in Tasks : pc[t] = "running" => attempt[t] > 0

\* Tasks start in their order, serially one after the other; an abort cancels what
\* has not begun, and the main thread goes on when nobody works.
FlowInv ==
    /\ phase # "running" => \A t \in Tasks : pc[t] # "queued"
    /\ phase = "running" => ~aborted
    /\ phase = "joining" => aborted
    /\ phase = "merging" => Deferred
    /\ phase \in {"merging", "reporting", "done"} =>
          /\ \A t \in Tasks : pc[t] \notin {"running", "publishing"}
          /\ aborted \/ \A t \in Tasks : pc[t] = "handled"
    /\ workers = 1 => \A t, u \in Tasks :
          u < t /\ pc[t] \notin {"queued", "cancelled"} => pc[u] = "handled"
    /\ \A t \in Tasks :
          /\ pc[t] \in {"queued", "cancelled"} => kb[t] = Empty
          /\ pc[t] = "handled" /\ outcome[t] = "kb" => aborted
          /\ pc[t] = "publishing" => mode = "container" /\ workers = 1
          /\ t \in left => mode = "container" /\ pc[t] \in {"ended", "handled"}

\* The report counts what the main thread has handled.
Counted(how) == Cardinality({t \in Tasks : pc[t] = "handled" /\ outcome[t] \in how})
CountInv ==
    /\ results = {t \in Tasks : pc[t] = "handled"}
    /\ completed = Counted({"ok"})
    /\ failed = Counted({"none", "fail", "kb"})

\* A mixed generation is seen by nobody: the task that left it waits to be handled,
\* and then the batch is over.
WholeInv ==
    /\ \A t \in Tasks : \A f, g \in Files : kb[t][f] = kb[t][g]
    /\ phase = "running" =>
          \/ \A f, g \in Files : shared[f] = shared[g]
          \/ \E t \in Tasks : pc[t] = "ended" /\ outcome[t] = "kb"

\* What is shared, and what a task has of it.
Whence(o, t) == o[1] = t /\ o[2] > 0
ShareInv ==
    /\ Deferred /\ phase \in {"running", "joining", "merging"} => shared = Empty
    /\ Deferred /\ phase \in {"reporting", "done"} =>
          aborted \/ \A t \in Tasks, f \in Files : trace[t] \subseteq shared[f]
    /\ ~Deferred => \A f \in Files : \A o \in shared[f] :
          o[1] \in Tasks \ left /\ pc[o[1]] \in {"ended", "handled"} /\ o[2] > 0
    /\ mode = "container" /\ workers = 1 => \A t \in Tasks, f \in Files :
          /\ pc[t] \in {"running", "publishing"} =>
                shared[f] \subseteq kb[t][f]
                    /\ \A o \in kb[t][f] : o \in shared[f] \/ Whence(o, t)
          /\ pc[t] \in {"ended", "handled"} =>
                t \in left \/ outcome[t] = "kb" \/ kb[t][f] \subseteq shared[f]

BatchInv == BatchTypes /\ FlowInv /\ CountInv /\ WholeInv /\ ShareInv

-----------------------------------------------------------------------------

\* It holds before the first task.
LEMMA BatchInvInit == Init => BatchInv
<1> SUFFICES ASSUME Init PROVE BatchInv
  OBVIOUS
<1> USE BatchAssumption DEF Init, Tasks, Empty
<1>1. BatchTypes
  BY DEF BatchTypes, Observations
<1>2. FlowInv /\ WholeInv /\ ShareInv
  BY DEF FlowInv, WholeInv, ShareInv
<1>3. {t \in Tasks : pc[t] = "handled"} = {}
  OBVIOUS
<1>4. \A how : {t \in Tasks : pc[t] = "handled" /\ outcome[t] \in how} = {}
  OBVIOUS
<1>5. CountInv
  BY <1>3, <1>4, FS_EmptySet DEF CountInv, Counted
<1> QED
  BY <1>1, <1>2, <1>5 DEF BatchInv

\* What a start changes: a task runs, or has ended with its error.
Begun(t, where, how, base) ==
    /\ pc[t] = "queued" /\ phase = "running" /\ kb[t] = Empty
    /\ workers = 1 => \A u \in Tasks : u < t => pc[u] = "handled"
    /\ pc' = [pc EXCEPT ![t] = where] /\ outcome' = [outcome EXCEPT ![t] = how]
    /\ kb' = [kb EXCEPT ![t] = base]
    /\ trace' = trace \/ trace' = [trace EXCEPT ![t] = {}]
    /\ IF where = "running"
       THEN attempt' = [attempt EXCEPT ![t] = 1]
           /\ base = IF mode = "container" THEN shared ELSE Empty
       ELSE attempt' = attempt /\ base = Empty
    /\ UNCHANGED <<mode, workers, phase, shared, left, sidecar, report>>

\* Every start is one of these.
LEMMA StartFacts ==
    ASSUME BatchInv, NEW t \in Tasks, Start(t)
    PROVE  \E where \in {"running", "ended"}, how \in {"none", "ok", "fail", "kb"} :
              \E base \in [Files -> SUBSET Observations] : Begun(t, where, how, base)
<1> USE BatchAssumption DEF BatchInv, BatchTypes, config
<1>1. pc[t] = "queued" /\ phase = "running" /\ kb[t] = Empty
  BY DEF Start, MayStart, FlowInv
<1>2. workers = 1 => \A u \in Tasks : u < t => pc[u] = "handled"
  BY DEF Start, MayStart
<1>3. Empty \in [Files -> SUBSET Observations] /\ kb = [kb EXCEPT ![t] = Empty]
  BY <1>1
<1>4. UNCHANGED <<mode, workers, phase, shared, left, sidecar, report>>
  BY DEF Start
<1>5. outcome = [outcome EXCEPT ![t] = outcome[t]] /\ outcome[t] \in {"none", "ok", "fail",
          "kb"}
  OBVIOUS
<1>6. CASE pc' = [pc EXCEPT ![t] = "running"] /\ outcome' = outcome
             /\ attempt' = [attempt EXCEPT ![t] = 1] /\ trace' = [trace EXCEPT ![t] = {}]
             /\ kb' = IF mode = "container" THEN [kb EXCEPT ![t] = shared] ELSE kb
  <2> DEFINE base == IF mode = "container" THEN shared ELSE Empty
  <2>1. base \in [Files -> SUBSET Observations] /\ kb' = [kb EXCEPT ![t] = base]
    BY <1>3, <1>6
  <2>2. Begun(t, "running", outcome[t], base)
    BY <1>1, <1>2, <1>4, <1>5, <1>6, <2>1 DEF Begun
  <2> QED
    BY <1>5, <2>1, <2>2
<1>7. ASSUME NEW how \in {"fail", "kb"}, Ends(t, how), UNCHANGED <<attempt, kb>>,
             trace' = trace \/ trace' = [trace EXCEPT ![t] = {}]
      PROVE  Begun(t, "ended", how, Empty)
  BY <1>1, <1>2, <1>3, <1>4, <1>7 DEF Begun, Ends
<1> QED
  BY <1>3, <1>6, <1>7 DEF Start, SeedOf

\* What the end of an attempt changes.
Attempted(t, removed, where, how, n, more) ==
    /\ pc[t] = "running" /\ mode = "container"
    /\ attempt[t] \in 1 .. Retries + 1 /\ <<t, attempt[t]>> \in Observations
    /\ pc' = [pc EXCEPT ![t] = where] /\ outcome' = [outcome EXCEPT ![t] = how]
    /\ where = "publishing" => workers = 1 /\ removed
    /\ where = "ended" => workers > 1 \/ ~removed
    /\ where = "running" => removed
    /\ attempt' = [attempt EXCEPT ![t] = n]
    /\ more \subseteq {<<t, attempt[t]>>}
    /\ kb' = [kb EXCEPT ![t] = [f \in Files |-> kb[t][f] \cup more]]
    /\ trace' = [trace EXCEPT ![t] = @ \cup {<<t, attempt[t]>>}]
    /\ left' = IF removed THEN left ELSE left \cup {t}
    /\ UNCHANGED <<mode, workers, phase, shared, sidecar, report>>

\* Every end of an attempt is one of these.
LEMMA AttemptFacts ==
    ASSUME BatchInv, NEW t \in Tasks, NEW succeeded \in BOOLEAN, NEW removed \in BOOLEAN,
           AttemptEnds(t, succeeded, removed)
    PROVE  \E where \in {"running", "publishing", "ended"}, how \in {"none", "ok", "fail",
        "kb"},
              n \in 1 .. Retries + 1, more \in SUBSET Observations :
                 Attempted(t, removed, where, how, n, more)
<1> USE BatchAssumption DEF BatchInv, BatchTypes, config
<1>1. pc[t] = "running" /\ mode = "container" /\ attempt[t] \in 1 .. Retries + 1
  BY DEF AttemptEnds
<1>2. <<t, attempt[t]>> \in Observations
  BY <1>1 DEF Observations
<1>3. UNCHANGED <<mode, workers, phase, shared, sidecar, report>>
        /\ left' = IF removed THEN left ELSE left \cup {t}
  BY DEF AttemptEnds
<1>4. trace' = [trace EXCEPT ![t] = @ \cup {<<t, attempt[t]>>}]
        /\ (kb' = kb \/ kb' = [kb EXCEPT ![t] = [f \in Files |-> @[f] \cup {<<t,
               attempt[t]>>}]])
  BY DEF AttemptEnds, Learn
<1>5. kb = [kb EXCEPT ![t] = [f \in Files |-> kb[t][f] \cup {}]]
  OBVIOUS
<1>6. PICK more \in {{}, {<<t, attempt[t]>>}} :
         kb' = [kb EXCEPT ![t] = [f \in Files |-> kb[t][f] \cup more]]
  BY <1>4, <1>5
<1>7. PICK n \in 1 .. Retries + 1 : attempt' = [attempt EXCEPT ![t] = n]
  <2>1. CASE ~succeeded /\ removed /\ attempt[t] <= Retries
    BY <1>1, <2>1 DEF AttemptEnds
  <2>2. CASE ~(~succeeded /\ removed /\ attempt[t] <= Retries)
    <3>1. attempt' = [attempt EXCEPT ![t] = attempt[t]]
      BY <2>2 DEF AttemptEnds
    <3> QED
      BY <1>1, <3>1
  <2> QED
    BY <2>1, <2>2
<1>8. PICK how \in {"none", "ok", "fail", "kb"} : outcome' = [outcome EXCEPT ![t] = how]
  <2>1. outcome = [outcome EXCEPT ![t] = outcome[t]] /\ outcome[t] \in {"none", "ok", "fail",
            "kb"}
    OBVIOUS
  <2> QED
    BY <2>1 DEF AttemptEnds
<1>9. PICK where \in {"running", "publishing", "ended"} :
         /\ pc' = [pc EXCEPT ![t] = where]
         /\ where = "publishing" => workers = 1 /\ removed
         /\ where = "ended" => workers > 1 \/ ~removed
         /\ where = "running" => removed
  <2>1. pc = [pc EXCEPT ![t] = "running"]
    BY <1>1
  <2> QED
    BY <1>1, <2>1 DEF AttemptEnds, Publishes, Deferred
<1>10. Attempted(t, removed, where, how, n, more) /\ more \in SUBSET Observations
  BY <1>1, <1>2, <1>3, <1>4, <1>6, <1>7, <1>8, <1>9 DEF Attempted
<1> QED
  BY <1>10

\* The shape of a batch is kept.
LEMMA BatchTypesStep == BatchInv /\ [Next]_vars => BatchTypes'
<1> SUFFICES ASSUME BatchInv, [Next]_vars PROVE BatchTypes'
  OBVIOUS
<1> USE BatchAssumption
<1>1. ASSUME NEW t \in Tasks, Start(t) PROVE BatchTypes'
  <2>1. PICK where \in {"running", "ended"}, how \in {"none", "ok", "fail", "kb"} :
           \E base \in [Files -> SUBSET Observations] : Begun(t, where, how, base)
    BY <1>1, StartFacts
  <2>2. PICK base \in [Files -> SUBSET Observations] : Begun(t, where, how, base)
    BY <2>1
  <2>3. base \in [Files -> SUBSET Observations] /\ where \in {"running", "ended"}
    OBVIOUS
  <2>4. kb' \in [Tasks -> [Files -> SUBSET Observations]]
    BY <2>2, <2>3 DEF Begun, BatchInv, BatchTypes
  <2>5. trace' \in [Tasks -> SUBSET Observations]
    BY <2>2 DEF Begun, BatchInv, BatchTypes
  <2>6. attempt' \in [Tasks -> 0 .. Retries + 1]
    BY <2>2 DEF Begun, BatchInv, BatchTypes
  <2>7. \A u \in Tasks : pc'[u] = "running" => attempt'[u] > 0
    BY <2>2 DEF Begun, BatchInv, BatchTypes
  <2> QED
    BY <2>2, <2>4, <2>5, <2>6, <2>7 DEF Begun, BatchInv, BatchTypes
<1>2. ASSUME NEW t \in Tasks, NEW succeeded \in BOOLEAN, NEW removed \in BOOLEAN,
             AttemptEnds(t, succeeded, removed)
      PROVE  BatchTypes'
  <2>1. PICK where \in {"running", "publishing", "ended"}, how \in {"none", "ok", "fail", "kb"},
             n \in 1 .. Retries + 1, more \in SUBSET Observations :
                Attempted(t, removed, where, how, n, more)
    BY <1>2, AttemptFacts
  <2> QED
    BY <2>1 DEF Attempted, BatchInv, BatchTypes, Observations, report
<1>3. ASSUME NEW t \in Tasks, NEW succeeded \in BOOLEAN, HostTaskEnds(t, succeeded)
      PROVE  BatchTypes'
  BY <1>3 DEF BatchInv, BatchTypes, Observations, HostTaskEnds, Ends, config
<1>4. ASSUME NEW t \in Tasks, Publish(t) PROVE BatchTypes'
  <2>1. shared' \in [Files -> SUBSET Observations]
    <3>1. kb[t] \in [Files -> SUBSET Observations] /\ shared \in [Files -> SUBSET Observations]
      BY DEF BatchInv, BatchTypes
    <3> QED
      BY <1>4, <3>1 DEF Publish
  <2>2. /\ pc' = [pc EXCEPT ![t] = "ended"]
        /\ outcome' = outcome \/ outcome' = [outcome EXCEPT ![t] = "kb"]
    BY <1>4 DEF Publish, Ends
  <2> QED
    BY <1>4, <2>1, <2>2 DEF BatchInv, BatchTypes, Publish, config
<1>5. ASSUME NEW t \in Tasks, Handle(t) PROVE BatchTypes'
  BY <1>5 DEF BatchInv, BatchTypes, Handle, config
<1>6. CASE SidecarDies
  BY <1>6 DEF BatchInv, BatchTypes, SidecarDies, config, worker
<1>7. CASE Join
  BY <1>7 DEF BatchInv, BatchTypes, Join, config, worker
<1>8. CASE Merge
  BY <1>8 DEF BatchInv, BatchTypes, Merge, config, worker
<1>9. CASE Report
  BY <1>9 DEF BatchInv, BatchTypes, Report, config, worker
<1>10. CASE UNCHANGED vars
  BY <1>10 DEF BatchInv, BatchTypes, vars, config, worker
<1> QED
  BY <1>1, <1>2, <1>3, <1>4, <1>5, <1>6, <1>7, <1>8, <1>9, <1>10 DEF Next, TaskStep

\* The order of tasks and phases.
LEMMA FlowStep == BatchInv /\ [Next]_vars => FlowInv'
<1> SUFFICES ASSUME BatchInv, [Next]_vars PROVE FlowInv'
  OBVIOUS
<1> USE BatchAssumption
<1>1. ASSUME NEW t \in Tasks, Start(t) PROVE FlowInv'
  <2>1. PICK where \in {"running", "ended"}, how \in {"none", "ok", "fail", "kb"} :
           \E base \in [Files -> SUBSET Observations] : Begun(t, where, how, base)
    BY <1>1, StartFacts
  <2>2. PICK base \in [Files -> SUBSET Observations] : Begun(t, where, how, base)
    BY <2>1
  <2>3. \A u \in Tasks \ {t} : pc'[u] = pc[u] /\ outcome'[u] = outcome[u] /\ kb'[u] = kb[u]
    BY <2>2 DEF Begun
  <2>4. pc'[t] = where /\ outcome'[t] = how /\ kb'[t] = base
    BY <2>2 DEF Begun, BatchInv, BatchTypes
  <2>5. phase = "running" /\ UNCHANGED <<mode, workers, phase, left, aborted>> /\ ~aborted
    BY <2>2 DEF Begun, BatchInv, FlowInv, report
  <2>6. workers = 1 => \A v, u \in Tasks :
            u < v /\ pc'[v] \notin {"queued", "cancelled"} => pc'[u] = "handled"
    <3> SUFFICES ASSUME workers = 1, NEW v \in Tasks, NEW u \in Tasks, u < v,
                        pc'[v] \notin {"queued", "cancelled"}
                 PROVE  pc'[u] = "handled"
      OBVIOUS
    <3>1. CASE v = t
      BY <3>1, <2>2, <2>3 DEF Begun
    <3>2. CASE v # t
      BY <3>2, <2>2, <2>3 DEF Begun, BatchInv, FlowInv
    <3> QED
      BY <3>1, <3>2
  <2>7. \A u \in Tasks :
          /\ pc'[u] \in {"queued", "cancelled"} => kb'[u] = Empty
          /\ pc'[u] = "handled" /\ outcome'[u] = "kb" => aborted
          /\ pc'[u] = "publishing" => mode = "container" /\ workers = 1
          /\ u \in left => mode = "container" /\ pc'[u] \in {"ended", "handled"}
    <3> SUFFICES ASSUME NEW u \in Tasks
                 PROVE  /\ pc'[u] \in {"queued", "cancelled"} => kb'[u] = Empty
                        /\ pc'[u] = "handled" /\ outcome'[u] = "kb" => aborted
                        /\ pc'[u] = "publishing" => mode = "container" /\ workers = 1
                        /\ u \in left => mode = "container" /\ pc'[u] \in {"ended", "handled"}
      OBVIOUS
    <3>1. CASE u = t
      BY <3>1, <2>2, <2>4 DEF Begun, BatchInv, FlowInv
    <3>2. CASE u # t
      BY <3>2, <2>3 DEF BatchInv, FlowInv
    <3> QED
      BY <3>1, <3>2
  <2> QED
    BY <2>5, <2>6, <2>7 DEF FlowInv
<1>2. ASSUME NEW t \in Tasks, NEW succeeded \in BOOLEAN, NEW removed \in BOOLEAN,
             AttemptEnds(t, succeeded, removed)
      PROVE  FlowInv'
  <2>1. PICK where \in {"running", "publishing", "ended"}, how \in {"none", "ok", "fail", "kb"},
             n \in 1 .. Retries + 1, more \in SUBSET Observations :
                Attempted(t, removed, where, how, n, more)
    BY <1>2, AttemptFacts
  <2> QED
    BY <2>1 DEF Attempted, BatchInv, BatchTypes, FlowInv, report
<1>3. ASSUME NEW t \in Tasks, NEW succeeded \in BOOLEAN, HostTaskEnds(t, succeeded)
      PROVE  FlowInv'
  BY <1>3 DEF BatchInv, BatchTypes, FlowInv, HostTaskEnds, Ends, config, report
<1>4. ASSUME NEW t \in Tasks, Publish(t) PROVE FlowInv'
  BY <1>4, SMTT(30) DEF BatchInv, BatchTypes, FlowInv, Tasks, Publish, Ends, config, report
<1>5. ASSUME NEW t \in Tasks, Handle(t) PROVE FlowInv'
  BY <1>5 DEF BatchInv, FlowInv, Handle, Aborts, config
<1>6. CASE SidecarDies
  BY <1>6 DEF BatchInv, FlowInv, Deferred, SidecarDies, config, worker, report
<1>7. CASE Join
  BY <1>7 DEF BatchInv, FlowInv, Deferred, Join, Joined, Active, config, worker
<1>8. CASE Merge
  BY <1>8 DEF BatchInv, FlowInv, Merge, config, worker
<1>9. CASE Report
  BY <1>9 DEF BatchInv, FlowInv, Report, config, worker, report
<1>10. CASE UNCHANGED vars
  BY <1>10 DEF BatchInv, FlowInv, Deferred, vars, config, worker, report
<1> QED
  BY <1>1, <1>2, <1>3, <1>4, <1>5, <1>6, <1>7, <1>8, <1>9, <1>10 DEF Next, TaskStep

\* Whole generations.
LEMMA WholeStep == BatchInv /\ [Next]_vars => WholeInv'
<1> SUFFICES ASSUME BatchInv, [Next]_vars PROVE WholeInv'
  OBVIOUS
<1> USE BatchAssumption
<1>1. ASSUME NEW t \in Tasks, Start(t) PROVE WholeInv'
  <2>1. PICK where \in {"running", "ended"}, how \in {"none", "ok", "fail", "kb"} :
           \E base \in [Files -> SUBSET Observations] : Begun(t, where, how, base)
    BY <1>1, StartFacts
  <2>2. PICK base \in [Files -> SUBSET Observations] : Begun(t, where, how, base)
    BY <2>1
  <2>3. phase = "running" /\ phase' = phase /\ shared' = shared
    BY <2>2 DEF Begun
  <2>4. \A u \in Tasks \ {t} : pc'[u] = pc[u] /\ outcome'[u] = outcome[u] /\ kb'[u] = kb[u]
    BY <2>2 DEF Begun
  <2>5. pc[t] # "ended" /\ kb'[t] = base
    BY <2>2 DEF Begun, BatchInv, BatchTypes
  <2>6. \A f, g \in Files : base[f] = base[g]
    <3>1. CASE base = Empty
      BY <3>1 DEF Empty
    <3>2. CASE base # Empty
      <4>1. base = shared /\ where = "running" /\ mode = "container"
        BY <3>2, <2>2 DEF Begun
      <4>2. CASE workers = 1
        <5>1. \A u \in Tasks : pc[u] # "ended"
          <6> SUFFICES ASSUME NEW u \in Tasks, pc[u] = "ended" PROVE FALSE
            OBVIOUS
          <6>1. pc[t] = "queued" /\ (u < t => pc[u] = "handled")
            BY <4>2, <2>2 DEF Begun
          <6>2. t < u => pc[t] = "handled"
            BY <4>2 DEF BatchInv, FlowInv
          <6>3. u < t \/ t < u \/ u = t
            BY DEF Tasks
          <6> QED
            BY <6>1, <6>2, <6>3
        <5> QED
          BY <4>1, <5>1, <2>3 DEF BatchInv, WholeInv
      <4>3. CASE workers # 1
        BY <4>1, <4>3, <2>3, <3>2 DEF BatchInv, BatchTypes, ShareInv, Deferred
      <4> QED
        BY <4>2, <4>3
    <3> QED
      BY <3>1, <3>2
  <2>7. \A u \in Tasks : \A f, g \in Files : kb'[u][f] = kb'[u][g]
    BY <2>4, <2>5, <2>6 DEF BatchInv, WholeInv
  <2>8. \/ \A f, g \in Files : shared'[f] = shared'[g]
        \/ \E u \in Tasks : pc'[u] = "ended" /\ outcome'[u] = "kb"
    BY <2>3, <2>4, <2>5 DEF BatchInv, WholeInv
  <2> QED
    BY <2>7, <2>8 DEF WholeInv
<1>2. ASSUME NEW t \in Tasks, NEW succeeded \in BOOLEAN, NEW removed \in BOOLEAN,
             AttemptEnds(t, succeeded, removed)
      PROVE  WholeInv'
  <2>1. PICK where \in {"running", "publishing", "ended"}, how \in {"none", "ok", "fail", "kb"},
             n \in 1 .. Retries + 1, more \in SUBSET Observations :
                Attempted(t, removed, where, how, n, more)
    BY <1>2, AttemptFacts
  <2>2. \A u \in Tasks \ {t} : pc'[u] = pc[u] /\ outcome'[u] = outcome[u] /\ kb'[u] = kb[u]
    BY <2>1 DEF Attempted
  <2>3. pc[t] = "running" /\ kb'[t] = [f \in Files |-> kb[t][f] \cup more]
    BY <2>1 DEF Attempted, BatchInv, BatchTypes
  <2>7. \A u \in Tasks : \A f, g \in Files : kb[u][f] = kb[u][g]
    BY DEF BatchInv, WholeInv
  <2>8. \A f, g \in Files : kb'[t][f] = kb'[t][g]
    BY <2>3, <2>7
  <2>4. \A u \in Tasks : \A f, g \in Files : kb'[u][f] = kb'[u][g]
    BY <2>2, <2>7, <2>8
  <2>5. phase' = phase /\ shared' = shared
    BY <2>1 DEF Attempted
  <2>6. phase' = "running" =>
            \/ \A f, g \in Files : shared'[f] = shared'[g]
            \/ \E u \in Tasks : pc'[u] = "ended" /\ outcome'[u] = "kb"
    BY <2>2, <2>3, <2>5 DEF BatchInv, WholeInv
  <2> QED
    BY <2>4, <2>6 DEF WholeInv
<1>3. ASSUME NEW t \in Tasks, NEW succeeded \in BOOLEAN, HostTaskEnds(t, succeeded)
      PROVE  WholeInv'
  <2>1. \A u \in Tasks \ {t} : pc'[u] = pc[u] /\ outcome'[u] = outcome[u]
    BY <1>3 DEF HostTaskEnds, Ends
  <2>2. pc[t] = "running" /\ phase' = phase /\ kb' = kb
    BY <1>3 DEF HostTaskEnds
  <2>3. shared' = shared \/ shared' = [f \in Files |-> shared[f] \cup {<<t, 1>>}]
    BY <1>3 DEF HostTaskEnds
  <2>4. (\A f, g \in Files : shared[f] = shared[g]) => \A f, g \in Files :
            shared'[f] = shared'[g]
    BY <2>3
  <2>5. phase' = "running" =>
            \/ \A f, g \in Files : shared'[f] = shared'[g]
            \/ \E u \in Tasks : pc'[u] = "ended" /\ outcome'[u] = "kb"
    BY <2>1, <2>2, <2>4 DEF BatchInv, WholeInv
  <2> QED
    BY <2>2, <2>5 DEF BatchInv, WholeInv
<1>4. ASSUME NEW t \in Tasks, Publish(t) PROVE WholeInv'
  BY <1>4 DEF BatchInv, BatchTypes, WholeInv, Publish, Ends, report
<1>5. ASSUME NEW t \in Tasks, Handle(t) PROVE WholeInv'
  BY <1>5 DEF BatchInv, WholeInv, Handle, Aborts
<1>6. CASE SidecarDies
  BY <1>6 DEF BatchInv, WholeInv, SidecarDies, worker
<1>7. CASE Join
  BY <1>7 DEF BatchInv, WholeInv, Join, worker
<1>8. CASE Merge
  BY <1>8 DEF BatchInv, WholeInv, Merge, worker
<1>9. CASE Report
  BY <1>9 DEF BatchInv, WholeInv, Report, worker
<1>10. CASE UNCHANGED vars
  BY <1>10 DEF BatchInv, WholeInv, vars, worker
<1> QED
  BY <1>1, <1>2, <1>3, <1>4, <1>5, <1>6, <1>7, <1>8, <1>9, <1>10 DEF Next, TaskStep

\* What is shared.
LEMMA ShareStep == BatchInv /\ [Next]_vars => ShareInv'
<1> SUFFICES ASSUME BatchInv, [Next]_vars PROVE ShareInv'
  OBVIOUS
<1> USE BatchAssumption
<1>1. ASSUME NEW t \in Tasks, Start(t) PROVE ShareInv'
  <2>1. PICK where \in {"running", "ended"}, how \in {"none", "ok", "fail", "kb"} :
           \E base \in [Files -> SUBSET Observations] : Begun(t, where, how, base)
    BY <1>1, StartFacts
  <2>2. PICK base \in [Files -> SUBSET Observations] : Begun(t, where, how, base)
    BY <2>1
  <2> QED
    BY <2>2 DEF Begun, BatchInv, BatchTypes, ShareInv, Empty, Deferred
<1>2. ASSUME NEW t \in Tasks, NEW succeeded \in BOOLEAN, NEW removed \in BOOLEAN,
             AttemptEnds(t, succeeded, removed)
      PROVE  ShareInv'
  <2>1. PICK where \in {"running", "publishing", "ended"}, how \in {"none", "ok", "fail", "kb"},
             n \in 1 .. Retries + 1, more \in SUBSET Observations :
                Attempted(t, removed, where, how, n, more)
    BY <1>2, AttemptFacts
  <2> QED
    BY <2>1 DEF Attempted, BatchInv, FlowInv, ShareInv, Whence, Deferred
<1>3. ASSUME NEW t \in Tasks, NEW succeeded \in BOOLEAN, HostTaskEnds(t, succeeded)
      PROVE  ShareInv'
  BY <1>3 DEF BatchInv, BatchTypes, FlowInv, ShareInv, Deferred, HostTaskEnds, Ends, config
<1>4. ASSUME NEW t \in Tasks, Publish(t) PROVE ShareInv'
  <2>1. pc[t] = "publishing" /\ mode = "container" /\ workers = 1
    BY <1>4 DEF Publish, BatchInv, FlowInv
  <2>2. UNCHANGED <<mode, workers, phase, trace, kb, left, aborted>>
    BY <1>4 DEF Publish, config, report
  <2>3. pc' = [pc EXCEPT ![t] = "ended"]
    BY <1>4 DEF Publish, Ends
  <2>4. /\ \A u \in Tasks \ {t} : outcome'[u] = outcome[u]
        /\ outcome'[t] = "kb" \/ shared' = kb[t]
    BY <1>4 DEF Publish, Ends, BatchInv, BatchTypes
  <2>5. \A f \in Files : shared[f] \subseteq kb[t][f]
                        /\ \A o \in kb[t][f] : o \in shared[f] \/ Whence(o, t)
    BY <2>1 DEF BatchInv, ShareInv
  <2>6. \A f \in Files : shared'[f] = shared[f] \/ shared'[f] = kb[t][f]
    <3>1. \/ shared' = shared \/ shared' = kb[t]
          \/ \E replaced \in SUBSET Files :
                shared' = [f \in Files |-> IF f \in replaced THEN kb[t][f] ELSE shared[f]]
      BY <1>4 DEF Publish
    <3> QED
      BY <3>1
  <2>7. t \notin left
    BY <2>1 DEF BatchInv, FlowInv
  <2>8. \A u \in Tasks : pc[u] \notin {"queued", "cancelled"} /\ u # t => pc[u] = "handled"
    <3> SUFFICES ASSUME NEW u \in Tasks, pc[u] \notin {"queued", "cancelled"}, u # t
                 PROVE  pc[u] = "handled"
      OBVIOUS
    <3>1. u < t \/ t < u
      BY BatchAssumption DEF Tasks
    <3> QED
      BY <3>1, <2>1 DEF BatchInv, FlowInv
  <2>9. \A f \in Files : \A o \in shared'[f] :
            o[1] \in Tasks \ left /\ pc'[o[1]] \in {"ended", "handled"} /\ o[2] > 0
    <3> SUFFICES ASSUME NEW f \in Files, NEW o \in shared'[f]
                 PROVE  o[1] \in Tasks \ left /\ pc'[o[1]] \in {"ended", "handled"} /\ o[2] > 0
      OBVIOUS
    <3>1. o \in shared[f] \/ Whence(o, t)
      BY <2>5, <2>6
    <3>2. CASE o \in shared[f]
      BY <3>2, <2>1, <2>3 DEF BatchInv, ShareInv, Deferred
    <3>3. CASE Whence(o, t)
      BY <3>3, <2>3, <2>7 DEF Whence, BatchInv, BatchTypes
    <3> QED
      BY <3>1, <3>2, <3>3
  <2>10. \A u \in Tasks, f \in Files :
            /\ pc'[u] \notin {"running", "publishing"}
            /\ pc'[u] \in {"ended", "handled"} =>
                  u \in left \/ outcome'[u] = "kb" \/ kb[u][f] \subseteq shared'[f]
    <3> SUFFICES ASSUME NEW u \in Tasks, NEW f \in Files
                 PROVE  /\ pc'[u] \notin {"running", "publishing"}
                        /\ pc'[u] \in {"ended", "handled"} =>
                              u \in left \/ outcome'[u] = "kb" \/ kb[u][f] \subseteq shared'[f]
      OBVIOUS
    <3>1. CASE u = t
      BY <3>1, <2>3, <2>4 DEF BatchInv, BatchTypes
    <3>2. CASE u # t
      <4>1. pc'[u] = pc[u] /\ outcome'[u] = outcome[u] /\ pc'[u] \notin {"running",
                "publishing"}
        BY <3>2, <2>3, <2>4, <2>8
      <4>2. shared[f] \subseteq shared'[f]
        BY <2>5, <2>6
      <4>3. pc[u] \in {"ended", "handled"} =>
                u \in left \/ outcome[u] = "kb" \/ kb[u][f] \subseteq shared[f]
        BY <2>1 DEF BatchInv, ShareInv
      <4> QED
        BY <4>1, <4>2, <4>3
    <3> QED
      BY <3>1, <3>2
  <2> QED
    BY <2>1, <2>2, <2>9, <2>10 DEF ShareInv, Deferred
<1>5. ASSUME NEW t \in Tasks, Handle(t) PROVE ShareInv'
  BY <1>5 DEF BatchInv, ShareInv, Deferred, Handle, config
<1>6. CASE SidecarDies
  BY <1>6 DEF BatchInv, ShareInv, Deferred, SidecarDies, config, worker, report
<1>7. CASE Join
  BY <1>7 DEF BatchInv, ShareInv, Deferred, Join, config, worker
<1>8. CASE Merge
  BY <1>8 DEF BatchInv, FlowInv, ShareInv, Deferred, Merge, config, worker
<1>9. CASE Report
  BY <1>9 DEF BatchInv, ShareInv, Deferred, Report, config, worker, report
<1>10. CASE UNCHANGED vars
  BY <1>10 DEF BatchInv, ShareInv, Deferred, vars, config, worker, report
<1> QED
  BY <1>1, <1>2, <1>3, <1>4, <1>5, <1>6, <1>7, <1>8, <1>9, <1>10 DEF Next, TaskStep

\* One more in a set that is counted.
LEMMA CountOneMore ==
    ASSUME NEW S, IsFiniteSet(S), NEW t, t \notin S
    PROVE  Cardinality(S \cup {t}) = Cardinality(S) + 1 /\ Cardinality(S) \in Nat
BY FS_AddElement, FS_CardinalityType

\* Two sets without a common member are counted apart.
LEMMA DisjointCounted ==
    ASSUME NEW S, NEW T, IsFiniteSet(S), IsFiniteSet(T), S \cap T = {}
    PROVE  Cardinality(S \cup T) = Cardinality(S) + Cardinality(T)
<1>1. Cardinality(S \cup T) = Cardinality(S) + Cardinality(T) - Cardinality(S \cap T)
  BY FS_Union
<1>2. Cardinality(S \cap T) = 0
  BY FS_EmptySet
<1>3. Cardinality(S) \in Nat /\ Cardinality(T) \in Nat
  BY FS_CardinalityType
<1> QED
  BY <1>1, <1>2, <1>3

\* There are N tasks.
LEMMA TasksCounted ==
    /\ IsFiniteSet(Tasks) /\ Cardinality(Tasks) = N
    /\ \A S \in SUBSET Tasks : IsFiniteSet(S)
<1>1. IsFiniteSet(Tasks) /\ Cardinality(Tasks) = N
  BY BatchAssumption, FS_Interval DEF Tasks
<1> QED
  BY <1>1, FS_Subset

\* Only Handle changes what is counted.
LEMMA CountStep == BatchInv /\ [Next]_vars => CountInv'
<1> SUFFICES ASSUME BatchInv, [Next]_vars PROVE CountInv'
  OBVIOUS
<1> DEFINE H == {u \in Tasks : pc[u] = "handled"}
           K(how) == {u \in Tasks : pc[u] = "handled" /\ outcome[u] \in how}
<1>1. results = H /\ completed = Cardinality(K({"ok"})) /\ failed = Cardinality(K({"none",
          "fail", "kb"}))
  BY DEF BatchInv, CountInv, Counted
<1>2. ASSUME UNCHANGED report,
             \A u \in Tasks : /\ pc'[u] = "handled" <=> pc[u] = "handled"
                              /\ pc[u] = "handled" => outcome'[u] = outcome[u]
      PROVE  CountInv'
  <2>1. H' = H
    BY <1>2
  <2>2. \A how : K(how)' = K(how)
    BY <1>2
  <2> QED
    BY <1>1, <1>2, <2>1, <2>2 DEF CountInv, Counted, report
<1>3. ASSUME NEW t \in Tasks, pc[t] # "handled", pc' = [pc EXCEPT ![t] = pc'[t]],
             pc'[t] # "handled",
             \A u \in Tasks \ {t} : outcome'[u] = outcome[u], UNCHANGED report
      PROVE  CountInv'
  BY <1>2, <1>3 DEF BatchInv, BatchTypes
<1>4. ASSUME UNCHANGED <<pc, outcome, results, completed, failed>> PROVE CountInv'
  BY <1>4 DEF BatchInv, CountInv, Counted
<1>5. ASSUME NEW t \in Tasks, Start(t) PROVE CountInv'
  <2>1. PICK where \in {"running", "ended"}, how \in {"none", "ok", "fail", "kb"} :
           \E base \in [Files -> SUBSET Observations] : Begun(t, where, how, base)
    BY <1>5, StartFacts
  <2> QED
    BY <1>3, <2>1 DEF Begun, BatchInv, BatchTypes
<1>6. ASSUME NEW t \in Tasks, NEW succeeded \in BOOLEAN, NEW removed \in BOOLEAN,
             AttemptEnds(t, succeeded, removed)
      PROVE  CountInv'
  <2>1. PICK where \in {"running", "publishing", "ended"}, how \in {"none", "ok", "fail", "kb"},
             n \in 1 .. Retries + 1, more \in SUBSET Observations :
                Attempted(t, removed, where, how, n, more)
    BY <1>6, AttemptFacts
  <2> QED
    BY <1>3, <2>1 DEF Attempted, BatchInv, BatchTypes
<1>7. ASSUME NEW t \in Tasks, NEW succeeded \in BOOLEAN, HostTaskEnds(t, succeeded)
      PROVE  CountInv'
  BY <1>3, <1>7 DEF HostTaskEnds, Ends, BatchInv, BatchTypes
<1>8. ASSUME NEW t \in Tasks, Publish(t) PROVE CountInv'
  BY <1>3, <1>8 DEF Publish, Ends, BatchInv, BatchTypes
<1>9. ASSUME NEW t \in Tasks, Handle(t) PROVE CountInv'
  <2>1. pc[t] = "ended" /\ outcome' = outcome /\ results' = H \cup {t}
    BY <1>1, <1>9 DEF Handle
  <2>2. \A u \in Tasks : pc'[u] = "handled" <=> pc[u] = "handled" \/ u = t
    BY <1>9, <2>1 DEF Handle
  <2>3. H' = H \cup {t}
    BY <2>2
  <2>4. \A how : t \notin K(how) /\ IsFiniteSet(K(how))
    BY <2>1, TasksCounted
  <2>5. \A how : K(how)' = IF outcome[t] \in how THEN K(how) \cup {t} ELSE K(how)
    BY <2>1, <2>2
  <2>6. \A how : Cardinality(K(how))' = IF outcome[t] \in how THEN Cardinality(K(how)) + 1
                                        ELSE Cardinality(K(how))
    BY <2>4, <2>5, CountOneMore
  <2>7. completed' = Cardinality(K({"ok"}))' /\ failed' = Cardinality(K({"none", "fail",
            "kb"}))'
    <3>1. outcome[t] \in {"none", "ok", "fail", "kb"}
      BY DEF BatchInv, BatchTypes
    <3>2. IF outcome[t] = "ok" THEN completed' = completed + 1 /\ failed' = failed
                               ELSE failed' = failed + 1 /\ completed' = completed
      BY <1>9 DEF Handle
    <3>3. CASE outcome[t] = "ok"
      BY <1>1, <2>6, <3>2, <3>3
    <3>4. CASE outcome[t] # "ok"
      BY <1>1, <2>6, <3>1, <3>2, <3>4
    <3> QED
      BY <3>3, <3>4
  <2> QED
    BY <2>1, <2>3, <2>7 DEF CountInv, Counted
<1>10. CASE SidecarDies
  BY <1>4, <1>10 DEF SidecarDies, worker, report
<1>11. CASE Join
  BY <1>4, <1>11 DEF Join, worker
<1>12. CASE Merge
  BY <1>4, <1>12 DEF Merge, worker
<1>13. CASE Report
  BY <1>4, <1>13 DEF Report, worker, report
<1>14. CASE UNCHANGED vars
  BY <1>4, <1>14 DEF vars, worker, report
<1> QED
  BY <1>5, <1>6, <1>7, <1>8, <1>9, <1>10, <1>11, <1>12, <1>13, <1>14 DEF Next, TaskStep

\* The invariant of a batch.
LEMMA BatchInvAlways == Spec => []BatchInv
<1>1. BatchInv /\ [Next]_vars => BatchInv'
  BY BatchTypesStep, FlowStep, CountStep, WholeStep, ShareStep DEF BatchInv
<1> QED
  BY <1>1, BatchInvInit, PTL DEF Spec

-----------------------------------------------------------------------------
(* Results.                                                                  *)

\* When every task is handled, the report has counted every one of them once.
LEMMA AllCounted ==
    ASSUME BatchInv, \A t \in Tasks : pc[t] = "handled"
    PROVE  /\ results = Tasks /\ completed + failed = N
           /\ completed = Cardinality({t \in Tasks : outcome[t] = "ok"})
<1> DEFINE Good == {t \in Tasks : outcome[t] = "ok"}
           Bad == {t \in Tasks : outcome[t] \in {"none", "fail", "kb"}}
<1>1. results = Tasks /\ completed = Cardinality(Good) /\ failed = Cardinality(Bad)
  <2>1. {t \in Tasks : pc[t] = "handled" /\ outcome[t] \in {"ok"}} = Good
    OBVIOUS
  <2>2. {t \in Tasks : pc[t] = "handled" /\ outcome[t] \in {"none", "fail", "kb"}} = Bad
    OBVIOUS
  <2> QED
    BY <2>1, <2>2 DEF BatchInv, CountInv, Counted
<1>2. Good \cup Bad = Tasks /\ Good \cap Bad = {}
  BY DEF BatchInv, BatchTypes
<1>3. IsFiniteSet(Good) /\ IsFiniteSet(Bad)
  BY TasksCounted
<1>4. Cardinality(Good \cup Bad) = Cardinality(Good) + Cardinality(Bad)
  BY <1>2, <1>3, DisjointCounted
<1>5. completed + failed = N
  <2>1. Cardinality(Good \cup Bad) = N
    BY <1>2, TasksCounted
  <2> HIDE DEF Good, Bad
  <2> QED
    BY <1>1, <1>4, <2>1
<1> QED
  BY <1>1, <1>5

\* A batch keeps its shape, and its report never counts a task twice.
THEOREM BatchTypeCorrect == Spec => []TypeOK
<1>1. Init => aborted \in BOOLEAN
  BY DEF Init
<1>2. aborted \in BOOLEAN /\ [Next]_vars => (aborted \in BOOLEAN)'
  <2>1. [Next]_vars => \/ aborted' = aborted \/ aborted' = TRUE
                       \/ \E t \in Tasks : aborted' = (aborted \/ Aborts(t))
                       \/ aborted' = (aborted \/ sidecar = "dead")
    BY DEF Next, TaskStep, Start, AttemptEnds, HostTaskEnds, Publish, Handle, SidecarDies, Join,
        Merge, Report, vars, report
  <2> QED
    BY <2>1, Zenon
<1>3. ASSUME BatchInv PROVE completed + failed <= N /\ results \subseteq Tasks
  <2> DEFINE Good == {t \in Tasks : pc[t] = "handled" /\ outcome[t] \in {"ok"}}
             Bad == {t \in Tasks : pc[t] = "handled" /\ outcome[t] \in {"none", "fail", "kb"}}
  <2>1. results \subseteq Tasks /\ completed = Cardinality(Good) /\ failed = Cardinality(Bad)
    BY <1>3 DEF BatchInv, CountInv, Counted
  <2>2. IsFiniteSet(Good) /\ IsFiniteSet(Bad) /\ Good \cup Bad \subseteq Tasks
            /\ Good \cap Bad = {}
    BY TasksCounted
  <2>3. Cardinality(Good \cup Bad) = Cardinality(Good) + Cardinality(Bad)
    BY <2>2, DisjointCounted
  <2>4. Cardinality(Good \cup Bad) <= N
    BY <2>2, FS_Subset, TasksCounted
  <2>5. completed + failed <= N
    <3> HIDE DEF Good, Bad
    <3> QED
      BY <2>1, <2>3, <2>4
  <2> QED
    BY <2>1, <2>5
<1>4. BatchInv /\ aborted \in BOOLEAN => TypeOK
  BY <1>3 DEF BatchInv, BatchTypes, TypeOK
<1>5. Spec => [](aborted \in BOOLEAN)
  BY <1>1, <1>2, PTL DEF Spec
<1> QED
  BY <1>4, <1>5, BatchInvAlways, PTL

\* Tasks are seeded with whole generations, the barrier is quiet, what is shared is
\* of removed containers, and a batch that is not aborted is complete.
THEOREM BatchesAreIsolated == Spec => []BatchIsIsolated
<1>1. BatchInv => SeedsAreWhole
  BY DEF BatchInv, WholeInv, SeedsAreWhole
<1>2. BatchInv => BarrierIsQuiet
  BY DEF BatchInv, FlowInv, BarrierIsQuiet, Active
<1>3. BatchInv => SharedFromRemoved
  BY DEF BatchInv, ShareInv, SharedFromRemoved
<1>4. ASSUME BatchInv, phase = "done", ~aborted
      PROVE  /\ results = Tasks /\ completed + failed = N
             /\ completed = Cardinality({t \in Tasks : outcome[t] = "ok"})
             /\ mode = "container" => \A t \in Tasks \ left : \A f \in Files :
                   (IF Deferred THEN trace[t] ELSE kb[t][f]) \subseteq shared[f]
  <2>1. \A t \in Tasks : pc[t] = "handled"
    BY <1>4 DEF BatchInv, FlowInv
  <2>2. \A t \in Tasks : outcome[t] # "kb"
    BY <1>4, <2>1 DEF BatchInv, FlowInv
  <2>3. ASSUME mode = "container", NEW t \in Tasks \ left, NEW f \in Files
        PROVE  (IF Deferred THEN trace[t] ELSE kb[t][f]) \subseteq shared[f]
    <3>1. CASE Deferred
      BY <1>4, <3>1 DEF BatchInv, ShareInv
    <3>2. CASE ~Deferred
      <4>1. workers = 1
        BY <1>4, <2>3, <3>2 DEF Deferred, BatchInv, BatchTypes
      <4> QED
        BY <1>4, <2>1, <2>2, <2>3, <3>2, <4>1 DEF BatchInv, ShareInv
    <3> QED
      BY <3>1, <3>2
  <2> QED
    BY <1>4, <2>1, <2>3, AllCounted
<1>5. BatchInv => BatchIsIsolated
  BY <1>1, <1>2, <1>3, <1>4 DEF BatchIsIsolated, CompleteUnlessAborted
<1> QED
  BY <1>5, BatchInvAlways, PTL

-----------------------------------------------------------------------------
(* A run.                                                                    *)

Pool3 == {"submit", "wait", "record"}
Leaving == {"cancel", "join", "collect"}

Pairs == agents \cup taught

OwnedIn(file, c) == c \in file.active \/ file.rows[c] > 0
AllOrNone(file) == file.active = {} => Reported(file) \in {{}, Cases}
OneRow(file) == \A c \in Cases : file.rows[c] <= 1

(* Where a task of this invocation can be. *)
PoolInv ==
    /\ runner \in {"off", "prepare", "claim", "flush", "settle"} => Futures = {}
    /\ runner \in {"collect", "unwind", "stop", "write"} =>
          \A c \in Cases : future[c] \notin {"queued", "running"}
    /\ runner = "join" => \A c \in Cases : future[c] # "queued"
    /\ runner = "record" => \A c \in done : future[c] \in Ended
    /\ runner \in {"prepare", "claim"} => unclaimed = Cases
    /\ runner \in Pool3 =>
          /\ \A c \in Cases : manifest.rows[c] = 0 <=> c \in Futures \cup claimed \cup unclaimed
          /\ claimed \cap unclaimed = {} /\ Futures \cap (claimed \cup unclaimed) = {}
          /\ Futures \cup claimed = {} => unclaimed = {}
          /\ \A a \in Pairs : a[1] \notin claimed \cup unclaimed
    /\ runner \in Pool3 \cup Leaving => Futures \subseteq saved.active \cap manifest.active
    /\ runner = "submit" => claimed \subseteq saved.active \cap manifest.active

(* What the two copies of the report say. *)
FileInv ==
    /\ AllOrNone(saved) /\ OneRow(saved)
    /\ \A a \in Pairs : OwnedIn(saved, a[1])
    /\ saved.status = "completed" => saved.flushed /\ saved.active = {}
    /\ runner # "off" =>
          /\ AllOrNone(manifest) /\ OneRow(manifest)
          /\ \A a \in Pairs : OwnedIn(manifest, a[1])
    /\ manifest.status = "completed" =>
          /\ manifest.flushed /\ manifest.active = {}
          /\ runner \in {"prepare", "stop", "write"}
    /\ runner \in {"prepare", "claim"} =>
          /\ saved.active = {} /\ Reported(saved) = {}
          /\ manifest.active = {} /\ Reported(manifest) = {}
    /\ runner \in {"flush", "settle"} => Reported(manifest) = Cases

(* Who has taught, and what is left of it. *)
KnowledgeInv ==
    /\ Pairs \subseteq Cases \X {start}
    /\ memory \subseteq taught /\ disk \subseteq taught
    /\ server = "up" => taught \subseteq memory
    /\ runner \in {"prepare", "claim"} => Pairs = {}
    /\ runner \in {"flush", "settle"} => agents = {}
    /\ runner \in Pool3 \cup Leaving => \A a \in agents : future[a[1]] \in {"running", "raised"}
    /\ runner # "off" /\ agents # {} => manifest.active # {}

(* What a flag promises. *)
FlagInv ==
    /\ ~stale /\ runner # "off" =>
          /\ ~saved.flushed
          /\ manifest.flushed =>
                /\ runner \in {"settle", "stop", "write"}
                /\ manifest.active = {} \/ runner = "settle" =>
                      agents = {} /\ taught \subseteq disk
    /\ ~stale /\ saved.flushed /\ saved.active = {} => agents = {} /\ taught \subseteq disk
    /\ accepted => /\ runner = "off" /\ saved.flushed /\ saved.active = {}
                   /\ Reported(saved) = Cases /\ saved # NoFile

RunInv == RunTypeOK /\ PoolInv /\ FileInv /\ KnowledgeInv /\ FlagInv

(* A report keeps its shape whatever part of it a step replaces. *)
LEMMA ActiveTyped ==
    \A file \in RunFiles : \A ours \in SUBSET Cases : [file EXCEPT !.active = ours] \in
        RunFiles
BY DEF RunFiles

LEMMA RowTyped == RunTypeOK => \A c \in Cases : Row(c) => manifest' \in RunFiles
<1> SUFFICES ASSUME RunTypeOK, NEW c \in Cases, Row(c) PROVE manifest' \in RunFiles
  OBVIOUS
<1> DEFINE rows == [manifest.rows EXCEPT ![c] = @ + 1]
           bad == IF future[c] = "ok" THEN manifest.bad ELSE manifest.bad \cup {c}
<1>1. manifest \in RunFiles /\ manifest.rows \in [Cases -> Nat] /\ manifest.bad \subseteq
    Cases
  BY DEF RunTypeOK, RunFiles
<1>2. rows \in [Cases -> Nat] /\ bad \subseteq Cases
  BY <1>1
<1>3. manifest' = [manifest EXCEPT !.rows = rows, !.bad = bad]
  BY <1>1 DEF Row
<1> HIDE DEF rows, bad
<1> QED
  BY <1>1, <1>2, <1>3 DEF RunFiles

(* An invocation that may start finds that nothing was taught: what was taught is
   active or reported, and without active tasks all are reported or none. *)
LEMMA NothingTaught ==
    RunInv /\ (saved = NoFile \/ (saved.active = {} /\ Reported(saved) # Cases)) =>
        Pairs = {} /\ Reported(saved) = {}
<1>1. ASSUME RunInv, saved = NoFile PROVE Reported(saved) = {} /\ saved.active = {}
  BY <1>1 DEF NoFile, Reported
<1>2. ASSUME RunInv, saved.active = {}, Reported(saved) # Cases PROVE Reported(saved) = {}
  BY <1>2 DEF RunInv, FileInv, AllOrNone
<1>3. ASSUME RunInv, saved.active = {}, Reported(saved) = {} PROVE Pairs = {}
  <2>1. \A a \in Pairs : a[1] \in Cases
    BY <1>3 DEF RunInv, KnowledgeInv
  <2> QED
    BY <1>3, <2>1 DEF RunInv, FileInv, OwnedIn, Reported
<1> QED
  BY <1>1, <1>2, <1>3


(* Types. *)
LEMMA TypeStep == RunInv /\ [RunNext]_runVars => RunTypeOK'
<1> SUFFICES ASSUME RunInv, [RunNext]_runVars PROVE RunTypeOK'
  OBVIOUS
<1>1. CASE FirstStart
  <2>1. Fresh \in RunFiles
    BY DEF Fresh, NoFile, RunFiles
  <2>2. Pairs = {}
    BY <1>1, NothingTaught DEF FirstStart
  <2> QED
    BY <1>1, <2>1, <2>2 DEF RunInv, RunTypeOK, FirstStart, Begin, Pairs, knowledge
<1>2. CASE Resume
  <2>1. Pairs = {}
    BY <1>2, NothingTaught DEF Resume, MayResume
  <2> QED
    BY <1>2, <2>1 DEF RunInv, RunTypeOK, Resume, Begin, Pairs, knowledge
<1>3. CASE ReturnsReport
  BY <1>3 DEF RunInv, RunTypeOK, ReturnsReport, process, knowledge
<1>4. CASE StartSidecar
  BY <1>4 DEF RunInv, RunTypeOK, StartSidecar, RunFiles, outside
<1>5. CASE PrepareFails
  BY <1>5 DEF RunInv, RunTypeOK, PrepareFails, Raises, RunFiles, knowledge, outside
<1>6. CASE Claim
  <2>1. PICK first \in SUBSET unclaimed :
          claimed' = first /\ unclaimed' = unclaimed \ first /\ Persist(first)
    BY <1>6 DEF Claim
  <2>2. [manifest EXCEPT !.active = first] \in RunFiles
    BY ActiveTyped, <2>1 DEF RunInv, RunTypeOK
  <2> QED
    BY <1>6, <2>1, <2>2 DEF RunInv, RunTypeOK, Claim, Persist, knowledge, outside
<1>7. CASE Submit
  BY <1>7 DEF RunInv, RunTypeOK, Submit, knowledge, outside
<1>8. CASE Wait
  BY <1>8 DEF RunInv, RunTypeOK, Wait, knowledge, outside
<1>9. CASE Recorded
  <2>1. [manifest EXCEPT !.active = Futures \cup claimed] \in RunFiles
    BY ActiveTyped DEF RunInv, RunTypeOK, Futures
  <2> QED
    BY <1>9, <2>1 DEF RunInv, RunTypeOK, Recorded, Persist, knowledge, outside
<1>10. CASE PoolRaises
  <2>1. \A ours \in SUBSET Cases : [manifest EXCEPT !.active = ours] \in RunFiles
    BY ActiveTyped DEF RunInv, RunTypeOK
  <2>2. Futures \cup claimed \subseteq Cases /\ unclaimed \subseteq Cases
    BY DEF RunInv, RunTypeOK, Futures
  <2>3. manifest' \in RunFiles
    BY <1>10, <2>1, <2>2 DEF RunInv, RunTypeOK, PoolRaises
  <2> QED
    BY <1>10, <2>3 DEF RunInv, RunTypeOK, PoolRaises, knowledge, outside
<1>11. CASE Cancel
  BY <1>11 DEF RunInv, RunTypeOK, Cancel, knowledge, outside
<1>12. CASE JoinWorkers
  BY <1>12 DEF RunInv, RunTypeOK, JoinWorkers, knowledge, outside
<1>13. CASE Collect
  <2> DEFINE rows == [c \in Cases |-> IF Unrecorded(c) THEN manifest.rows[c] + 1 ELSE
      manifest.rows[c]]
             bad == manifest.bad \cup {c \in Cases : Unrecorded(c) /\ future[c] # "ok"}
  <2>1. manifest.rows \in [Cases -> Nat] /\ manifest.bad \subseteq Cases
    BY DEF RunInv, RunTypeOK, RunFiles
  <2>2. rows \in [Cases -> Nat] /\ bad \subseteq Cases
    BY <2>1
  <2> HIDE DEF rows, bad
  <2>3. [manifest EXCEPT !.rows = rows, !.bad = bad, !.status = "failed"] \in RunFiles
    BY <2>2 DEF RunInv, RunTypeOK, RunFiles
  <2>4. manifest' \in RunFiles
    BY <1>13, <2>3 DEF Collect, rows, bad
  <2> QED
    BY <1>13, <2>4 DEF RunInv, RunTypeOK, Collect, knowledge, outside
<1>14. CASE CollectRaises
  BY <1>14 DEF RunInv, RunTypeOK, CollectRaises, Raises, RunFiles, knowledge, outside
<1>15. ASSUME NEW c \in Cases, TaskBegins(c) PROVE RunTypeOK'
  BY <1>15 DEF RunInv, RunTypeOK, TaskBegins, knowledge, outside
<1>16. ASSUME NEW c \in Cases, TaskEnds(c) PROVE RunTypeOK'
  BY <1>16 DEF RunInv, RunTypeOK, TaskEnds, Ended, knowledge, outside
<1>17. ASSUME NEW c \in Cases, Record(c) PROVE RunTypeOK'
  <2>1. Row(c) => manifest' \in RunFiles
    BY RowTyped DEF RunInv
  <2> QED
    BY <1>17, <2>1 DEF RunInv, RunTypeOK, Record, knowledge, outside
<1>18. ASSUME NEW c \in Cases, RecordRaises(c) PROVE RunTypeOK'
  <2>1. Row(c) => manifest' \in RunFiles
    BY RowTyped DEF RunInv
  <2> QED
    BY <1>18, <2>1 DEF RunInv, RunTypeOK, RecordRaises, knowledge, outside
<1>19. CASE Flush
  BY <1>19 DEF RunInv, RunTypeOK, Flush, Barrier, BarrierHolds, RunFiles, outside
<1>20. CASE FlushInterrupted
  BY <1>20 DEF RunInv, RunTypeOK, FlushInterrupted, RunFiles, knowledge, outside
<1>21. CASE Settle
  BY <1>21 DEF RunInv, RunTypeOK, Settle, RunFiles, knowledge, outside
<1>22. CASE Unwind
  BY <1>22 DEF RunInv, RunTypeOK, Unwind, Barrier, BarrierHolds, RunFiles, outside
<1>23. CASE UnwindInterrupted
  BY <1>23 DEF RunInv, RunTypeOK, UnwindInterrupted, Raises, RunFiles, knowledge, outside
<1>24. CASE StopSidecar
  BY <1>24 DEF RunInv, RunTypeOK, StopSidecar, outside
<1>25. CASE WriteReport
  BY <1>25 DEF RunInv, RunTypeOK, WriteReport, Off, NoFile, RunFiles, knowledge, outside
<1>26. CASE Save
  BY <1>26 DEF RunInv, RunTypeOK, Save, process, outside
<1>27. CASE ServerDies
  BY <1>27 DEF RunInv, RunTypeOK, ServerDies, process, outside
<1>28. CASE Killed
  BY <1>28 DEF RunInv, RunTypeOK, Killed, Off, NoFile, RunFiles, knowledge, outside
<1>29. ASSUME NEW a \in agents, Teach(a) PROVE RunTypeOK'
  BY <1>29 DEF RunInv, RunTypeOK, Teach, process, outside
<1>30. ASSUME NEW a \in agents, AgentEnds(a) PROVE RunTypeOK'
  BY <1>30 DEF RunInv, RunTypeOK, AgentEnds, process, knowledge, outside
<1>40. CASE UNCHANGED runVars
  BY <1>40 DEF runVars, process, knowledge, outside, RunInv, RunTypeOK
<1> QED
  BY <1>1, <1>2, <1>3, <1>4, <1>5, <1>6, <1>7, <1>8, <1>9, <1>10, <1>11, <1>12, <1>13, <1>14,
      <1>15, <1>16, <1>17, <1>18, <1>19, <1>20, <1>21, <1>22, <1>23, <1>24, <1>25, <1>26, <1>27,
      <1>28, <1>29, <1>30, <1>40 DEF RunNext, Invocation, Pool, Ending, Others

(* Where the tasks are. *)
LEMMA PoolStep == RunInv /\ [RunNext]_runVars => PoolInv'
<1> SUFFICES ASSUME RunInv, [RunNext]_runVars PROVE PoolInv'
  OBVIOUS
<1>1. CASE FirstStart
  BY <1>1 DEF PoolInv, FirstStart, Begin, Pool3, Futures
<1>2. CASE Resume
  <2>1. Pairs = {} /\ Reported(saved) = {}
    BY <1>2, NothingTaught DEF Resume, MayResume
  <2> QED
    BY <1>2, <2>1 DEF PoolInv, Resume, Begin, Pool3, Futures
<1>3. CASE ReturnsReport
  BY <1>3 DEF RunInv, PoolInv, ReturnsReport, Pool3, Futures, process
<1>4. CASE StartSidecar
  BY <1>4 DEF RunInv, PoolInv, StartSidecar, Pool3, Futures
<1>5. CASE PrepareFails
  BY <1>5 DEF RunInv, PoolInv, PrepareFails, Raises, Pool3, Futures
<1>6. CASE Claim
  <2>1. PICK first \in SUBSET unclaimed :
          /\ Cardinality(first) = Parallelism \/ first = unclaimed
          /\ claimed' = first /\ unclaimed' = unclaimed \ first /\ Persist(first)
    BY <1>6 DEF Claim
  <2>2. first # {}
    BY <1>6, <2>1, RunAssumption, FS_EmptySet DEF RunInv, PoolInv, Claim
  <2>3. /\ runner = "claim" /\ runner' = "submit" /\ future' = future
        /\ agents' = agents /\ taught' = taught
    BY <1>6 DEF Claim, knowledge
  <2>4. /\ saved'.active = first /\ manifest'.active = first
        /\ \A c \in Cases : manifest'.rows[c] = 0
    BY <1>6, <2>1, <2>3 DEF RunInv, RunTypeOK, RunFiles, FileInv, Reported, Persist
  <2>5. Futures = {} /\ unclaimed = Cases /\ Pairs = {} /\ future \in [Cases -> {"none",
      "queued", "running"} \cup Ended]
    BY <2>3 DEF RunInv, RunTypeOK, PoolInv, KnowledgeInv
  <2> QED
    BY <2>1, <2>2, <2>3, <2>4, <2>5 DEF PoolInv, Futures, Pairs
<1>7. CASE Submit
  BY <1>7, SMTT(30) DEF RunInv, PoolInv, RunTypeOK, FileInv, KnowledgeInv, Submit, Pool3, Leaving,
     Futures,
      Ended, Pairs, process, knowledge, outside, RunFiles
<1>8. CASE Wait
  BY <1>8 DEF RunInv, PoolInv, Wait, Pool3, Futures, Pairs, knowledge
<1>9. CASE Recorded
  BY <1>9 DEF RunInv, PoolInv, Recorded, Persist, Pool3, Futures, Pairs, knowledge
<1>10. CASE PoolRaises
  BY <1>10 DEF RunInv, PoolInv, RunTypeOK, PoolRaises, Pool3, Futures, RunFiles
<1>11. CASE Cancel
  BY <1>11 DEF RunInv, PoolInv, Cancel, Pool3, Leaving, Futures
<1>12. CASE JoinWorkers
  BY <1>12 DEF RunInv, PoolInv, JoinWorkers, Pool3, Leaving, Futures
<1>13. CASE Collect
  BY <1>13 DEF RunInv, PoolInv, Collect, Pool3, Leaving
<1>14. CASE CollectRaises
  BY <1>14 DEF RunInv, PoolInv, CollectRaises, Raises, Pool3, Leaving
<1>15. ASSUME NEW c \in Cases, TaskBegins(c) PROVE PoolInv'
  BY <1>15 DEF RunInv, PoolInv, TaskBegins, Futures, Ended, Pairs, knowledge
<1>16. ASSUME NEW c \in Cases, TaskEnds(c) PROVE PoolInv'
  BY <1>16 DEF RunInv, PoolInv, RunTypeOK, TaskEnds, Futures, Ended, Pairs, knowledge
<1>17. ASSUME NEW c \in Cases, Record(c) PROVE PoolInv'
  BY <1>17 DEF RunInv, PoolInv, RunTypeOK, Record, Row, Futures, Ended, Pairs, knowledge,
     RunFiles
<1>18. ASSUME NEW c \in Cases, RecordRaises(c) PROVE PoolInv'
  BY <1>18 DEF RunInv, PoolInv, RunTypeOK, RecordRaises, Row, Pool3, Futures, RunFiles
<1>19. CASE Flush
  BY <1>19 DEF RunInv, PoolInv, Flush, Pool3, Futures
<1>20. CASE FlushInterrupted
  BY <1>20 DEF RunInv, PoolInv, FlushInterrupted, Pool3, Futures
<1>21. CASE Settle
  BY <1>21 DEF RunInv, PoolInv, Settle, Pool3, Futures
<1>22. CASE Unwind
  BY <1>22 DEF RunInv, PoolInv, Unwind, Pool3, Leaving
<1>23. CASE UnwindInterrupted
  BY <1>23 DEF RunInv, PoolInv, UnwindInterrupted, Raises, Pool3, Leaving
<1>24. CASE StopSidecar
  BY <1>24 DEF RunInv, PoolInv, StopSidecar, Pool3, Leaving
<1>25. CASE WriteReport
  BY <1>25 DEF PoolInv, WriteReport, Off, Pool3, Futures
<1>26. CASE Save
  BY <1>26 DEF RunInv, PoolInv, Save, Futures, Pairs, process
<1>27. CASE ServerDies
  BY <1>27 DEF RunInv, PoolInv, ServerDies, Futures, Pairs, process
<1>28. CASE Killed
  BY <1>28 DEF PoolInv, Killed, Off, Pool3, Futures
<1>29. ASSUME NEW a \in agents, Teach(a) PROVE PoolInv'
  BY <1>29 DEF RunInv, PoolInv, Teach, Futures, Pairs, process
<1>30. ASSUME NEW a \in agents, AgentEnds(a) PROVE PoolInv'
  BY <1>30 DEF RunInv, PoolInv, AgentEnds, Futures, Pairs, process, knowledge
<1>40. CASE UNCHANGED runVars
  BY <1>40 DEF runVars, process, knowledge, RunInv, PoolInv, Futures, Pairs
<1> QED
  BY <1>1, <1>2, <1>3, <1>4, <1>5, <1>6, <1>7, <1>8, <1>9, <1>10, <1>11, <1>12, <1>13, <1>14,
      <1>15, <1>16, <1>17, <1>18, <1>19, <1>20, <1>21, <1>22, <1>23, <1>24, <1>25, <1>26, <1>27,
      <1>28, <1>29, <1>30, <1>40 DEF RunNext, Invocation, Pool, Ending, Others

(* The two copies of the report. *)
LEMMA FileStep == RunInv /\ [RunNext]_runVars => FileInv'
<1> SUFFICES ASSUME RunInv, [RunNext]_runVars PROVE FileInv'
  OBVIOUS
<1>1. CASE FirstStart
  BY <1>1 DEF RunInv, FileInv, FirstStart, Begin, Fresh, NoFile, AllOrNone, OneRow, OwnedIn,
      Reported, Pairs, knowledge
<1>2. CASE Resume
  BY <1>2 DEF RunInv, FileInv, Resume, Begin, MayResume, AllOrNone, Pairs, knowledge
<1>3. CASE ReturnsReport
  BY <1>3 DEF RunInv, FileInv, ReturnsReport, Pairs, process, knowledge
<1>4. CASE StartSidecar
  BY <1>4 DEF RunInv, FileInv, StartSidecar, AllOrNone, OneRow, OwnedIn, Reported, Pairs
<1>5. CASE PrepareFails
  BY <1>5 DEF RunInv, FileInv, RunTypeOK, PrepareFails, Raises, AllOrNone, OneRow, OwnedIn,
      Reported, Pairs, knowledge, RunFiles
<1>6. CASE Claim
  BY <1>6, RunAssumption, FS_CardinalityType, FS_EmptySet, FS_Subset DEF RunInv, FileInv, Claim,
      Persist, AllOrNone, OneRow, OwnedIn, Reported, Pairs, knowledge
<1>7. CASE Submit
  BY <1>7 DEF RunInv, FileInv, RunTypeOK, PoolInv, Submit, Reported, Pairs, Pool3, knowledge,
      RunFiles
<1>8. CASE Wait
  BY <1>8 DEF RunInv, FileInv, Wait, Pairs, knowledge
<1>9. CASE Recorded
  BY <1>9 DEF RunInv, FileInv, RunTypeOK, PoolInv, Recorded, Persist, AllOrNone, OneRow,
     OwnedIn,
      Reported, Pairs, Pool3, knowledge, RunFiles
<1>10. CASE PoolRaises
  BY <1>10 DEF RunInv, FileInv, RunTypeOK, PoolInv, PoolRaises, AllOrNone, OneRow, OwnedIn,
      Reported, Pairs, Pool3, knowledge, RunFiles
<1>11. CASE Cancel
  BY <1>11 DEF RunInv, FileInv, Cancel, Pairs, knowledge
<1>12. CASE JoinWorkers
  BY <1>12 DEF RunInv, FileInv, JoinWorkers, Pairs, knowledge
<1>13. CASE Collect
  BY <1>13 DEF RunInv, FileInv, PoolInv, KnowledgeInv, Collect, Unrecorded, AllOrNone, OneRow,
      OwnedIn, Reported, Pairs, Leaving, Futures, knowledge
<1>14. CASE CollectRaises
  BY <1>14 DEF RunInv, FileInv, CollectRaises, Raises, AllOrNone, OneRow, OwnedIn, Reported,
      Pairs, knowledge
<1>15. ASSUME NEW c \in Cases, TaskBegins(c) PROVE FileInv'
  BY <1>15 DEF RunInv, FileInv, RunTypeOK, PoolInv, TaskBegins, OwnedIn, Pairs, Pool3, Leaving,
      Futures, knowledge
<1>16. ASSUME NEW c \in Cases, TaskEnds(c) PROVE FileInv'
  BY <1>16 DEF RunInv, FileInv, TaskEnds, Pairs, knowledge
<1>17. ASSUME NEW c \in Cases, Record(c) PROVE FileInv'
  BY <1>17 DEF RunInv, FileInv, PoolInv, Record, Row, AllOrNone, OneRow, OwnedIn, Pairs, Pool3,
      Futures, Ended, knowledge
<1>18. ASSUME NEW c \in Cases, RecordRaises(c) PROVE FileInv'
  <2>1. CASE UNCHANGED manifest
    BY <1>18, <2>1 DEF RunInv, FileInv, RecordRaises, Pairs, knowledge
  <2>2. CASE Row(c)
    <3>1. /\ runner = "record" /\ runner' = "cancel" /\ saved' = saved
          /\ agents' = agents /\ taught' = taught /\ c \in done
      BY <1>18 DEF RecordRaises, knowledge
    <3>2. c \in Futures
      BY <3>1 DEF RunInv, PoolInv, Futures, Ended
    <3>3. c \in manifest.active /\ manifest.rows[c] = 0 /\ manifest.status # "completed"
      BY <3>1, <3>2 DEF RunInv, PoolInv, FileInv, Pool3
    <3>4. /\ manifest'.active = manifest.active /\ manifest'.status = manifest.status
          /\ \A d \in Cases : manifest'.rows[d] = IF d = c THEN 1 ELSE manifest.rows[d]
      BY <2>2, <3>3 DEF RunInv, RunTypeOK, RunFiles, Row
    <3> QED
      BY <3>1, <3>3, <3>4 DEF RunInv, FileInv, OwnedIn, AllOrNone, OneRow, Pairs, KnowledgeInv
  <2> QED
    BY <1>18, <2>1, <2>2 DEF RecordRaises
<1>19. CASE Flush
  BY <1>19 DEF RunInv, FileInv, Flush, Barrier, AllOrNone, OneRow, OwnedIn, Reported, Pairs
<1>20. CASE FlushInterrupted
  BY <1>20 DEF RunInv, FileInv, FlushInterrupted, AllOrNone, OneRow, OwnedIn, Reported, Pairs,
      knowledge
<1>21. CASE Settle
  BY <1>21 DEF RunInv, FileInv, KnowledgeInv, Settle, AllOrNone, OneRow, OwnedIn, Reported,
     Pairs,
      knowledge
<1>22. CASE Unwind
  BY <1>22 DEF RunInv, FileInv, RunTypeOK, Unwind, Barrier, AllOrNone, OneRow, OwnedIn,
     Reported,
      Pairs, RunFiles
<1>23. CASE UnwindInterrupted
  BY <1>23 DEF RunInv, FileInv, RunTypeOK, UnwindInterrupted, Raises, AllOrNone, OneRow,
     OwnedIn,
      Reported, Pairs, knowledge, RunFiles
<1>24. CASE StopSidecar
  BY <1>24 DEF RunInv, FileInv, StopSidecar, Pairs
<1>25. CASE WriteReport
  BY <1>25 DEF RunInv, FileInv, WriteReport, Off, NoFile, Pairs, knowledge
<1>26. CASE Save
  BY <1>26 DEF RunInv, FileInv, Save, Pairs, process
<1>27. CASE ServerDies
  BY <1>27 DEF RunInv, FileInv, ServerDies, Pairs, process
<1>28. CASE Killed
  BY <1>28 DEF RunInv, FileInv, Killed, Off, NoFile, Pairs, knowledge
<1>29. ASSUME NEW a \in agents, Teach(a) PROVE FileInv'
  BY <1>29 DEF RunInv, FileInv, Teach, Pairs, process
<1>30. ASSUME NEW a \in agents, AgentEnds(a) PROVE FileInv'
  BY <1>30 DEF RunInv, FileInv, AgentEnds, Pairs, process, knowledge
<1>40. CASE UNCHANGED runVars
  BY <1>40 DEF runVars, process, knowledge, RunInv, FileInv, Pairs
<1> QED
  BY <1>1, <1>2, <1>3, <1>4, <1>5, <1>6, <1>7, <1>8, <1>9, <1>10, <1>11, <1>12, <1>13, <1>14,
      <1>15, <1>16, <1>17, <1>18, <1>19, <1>20, <1>21, <1>22, <1>23, <1>24, <1>25, <1>26, <1>27,
      <1>28, <1>29, <1>30, <1>40 DEF RunNext, Invocation, Pool, Ending, Others

(* Who has taught. *)
LEMMA KnowledgeStep == RunInv /\ [RunNext]_runVars => KnowledgeInv'
<1> SUFFICES ASSUME RunInv, [RunNext]_runVars PROVE KnowledgeInv'
  OBVIOUS
<1>1. CASE FirstStart
  <2>1. Pairs = {}
    BY <1>1, NothingTaught DEF FirstStart
  <2> QED
    BY <1>1, <2>1 DEF RunInv, KnowledgeInv, FirstStart, Begin, Pairs, knowledge
<1>2. CASE Resume
  <2>1. Pairs = {}
    BY <1>2, NothingTaught DEF Resume, MayResume
  <2> QED
    BY <1>2, <2>1 DEF RunInv, KnowledgeInv, Resume, Begin, Pairs, knowledge
<1>3. CASE ReturnsReport
  BY <1>3 DEF RunInv, KnowledgeInv, ReturnsReport, Pairs, process, knowledge
<1>4. CASE StartSidecar
  BY <1>4 DEF RunInv, KnowledgeInv, StartSidecar, Pairs
<1>5. CASE PrepareFails
  BY <1>5 DEF RunInv, KnowledgeInv, PrepareFails, Raises, Pairs, knowledge
<1>6. CASE Claim
  BY <1>6, RunAssumption, FS_CardinalityType, FS_EmptySet, FS_Subset DEF RunInv, KnowledgeInv,
      Claim, Pairs, knowledge
<1>7. CASE Submit
  BY <1>7 DEF RunInv, KnowledgeInv, PoolInv, Submit, Pairs, Pool3, Futures, knowledge, outside
<1>8. CASE Wait
  BY <1>8 DEF RunInv, KnowledgeInv, Wait, Pairs, Pool3, knowledge, outside
<1>9. CASE Recorded
  BY <1>9 DEF RunInv, KnowledgeInv, Recorded, Persist, Pairs, Pool3, Futures, knowledge, outside
<1>10. CASE PoolRaises
  BY <1>10 DEF RunInv, KnowledgeInv, RunTypeOK, PoolRaises, Pairs, Pool3, Futures, knowledge,
      outside, RunFiles
<1>11. CASE Cancel
  BY <1>11 DEF RunInv, KnowledgeInv, Cancel, Pairs, Leaving, knowledge, outside
<1>12. CASE JoinWorkers
  BY <1>12 DEF RunInv, KnowledgeInv, JoinWorkers, Pairs, Leaving, knowledge, outside
<1>13. CASE Collect
  BY <1>13 DEF RunInv, KnowledgeInv, Collect, Pairs, Leaving, knowledge, outside
<1>14. CASE CollectRaises
  BY <1>14 DEF RunInv, KnowledgeInv, CollectRaises, Raises, Pairs, Leaving, knowledge, outside
<1>15. ASSUME NEW c \in Cases, TaskBegins(c) PROVE KnowledgeInv'
  BY <1>15 DEF RunInv, KnowledgeInv, RunTypeOK, PoolInv, TaskBegins, Pairs, Pool3, Leaving,
      Futures, knowledge, outside
<1>16. ASSUME NEW c \in Cases, TaskEnds(c) PROVE KnowledgeInv'
  BY <1>16 DEF RunInv, KnowledgeInv, RunTypeOK, TaskEnds, Pairs, knowledge, outside
<1>17. ASSUME NEW c \in Cases, Record(c) PROVE KnowledgeInv'
  BY <1>17 DEF RunInv, KnowledgeInv, PoolInv, Record, Row, Pairs, Ended, knowledge, outside
<1>18. ASSUME NEW c \in Cases, RecordRaises(c) PROVE KnowledgeInv'
  BY <1>18 DEF RunInv, KnowledgeInv, RunTypeOK, RecordRaises, Row, Pairs, Pool3, knowledge,
      outside, RunFiles
<1>19. CASE Flush
  BY <1>19 DEF RunInv, KnowledgeInv, Flush, Barrier, Pairs, outside
<1>20. CASE FlushInterrupted
  BY <1>20 DEF RunInv, KnowledgeInv, FlushInterrupted, Pairs, knowledge, outside
<1>21. CASE Settle
  BY <1>21 DEF RunInv, KnowledgeInv, Settle, Pairs, knowledge, outside
<1>22. CASE Unwind
  BY <1>22 DEF RunInv, KnowledgeInv, RunTypeOK, Unwind, Barrier, Pairs, Pool3, Leaving, outside,
      RunFiles
<1>23. CASE UnwindInterrupted
  BY <1>23 DEF RunInv, KnowledgeInv, RunTypeOK, UnwindInterrupted, Raises, Pairs, Pool3,
     Leaving,
      knowledge, outside, RunFiles
<1>24. CASE StopSidecar
  BY <1>24 DEF RunInv, KnowledgeInv, StopSidecar, Pairs, Pool3, Leaving, outside
<1>25. CASE WriteReport
  BY <1>25 DEF RunInv, KnowledgeInv, WriteReport, Off, Pairs, Pool3, Leaving, knowledge, outside
<1>26. CASE Save
  BY <1>26 DEF RunInv, KnowledgeInv, Save, Pairs, process, outside
<1>27. CASE ServerDies
  BY <1>27 DEF RunInv, KnowledgeInv, ServerDies, Pairs, process, outside
<1>28. CASE Killed
  BY <1>28 DEF RunInv, KnowledgeInv, Killed, Off, Pairs, Pool3, Leaving, knowledge, outside
<1>29. ASSUME NEW a \in agents, Teach(a) PROVE KnowledgeInv'
  BY <1>29 DEF RunInv, KnowledgeInv, Teach, Pairs, process, outside
<1>30. ASSUME NEW a \in agents, AgentEnds(a) PROVE KnowledgeInv'
  BY <1>30 DEF RunInv, KnowledgeInv, AgentEnds, Pairs, process, knowledge, outside
<1>40. CASE UNCHANGED runVars
  BY <1>40 DEF runVars, process, knowledge, outside, RunInv, KnowledgeInv, Pairs
<1> QED
  BY <1>1, <1>2, <1>3, <1>4, <1>5, <1>6, <1>7, <1>8, <1>9, <1>10, <1>11, <1>12, <1>13, <1>14,
      <1>15, <1>16, <1>17, <1>18, <1>19, <1>20, <1>21, <1>22, <1>23, <1>24, <1>25, <1>26, <1>27,
      <1>28, <1>29, <1>30, <1>40 DEF RunNext, Invocation, Pool, Ending, Others

(* The flags. *)
LEMMA FlagStep == RunInv /\ [RunNext]_runVars => FlagInv'
<1> SUFFICES ASSUME RunInv, [RunNext]_runVars PROVE FlagInv'
  OBVIOUS
<1>1. CASE FirstStart
  BY <1>1 DEF RunInv, FlagInv, FirstStart, Begin, Fresh, NoFile
<1>2. CASE Resume
  BY <1>2 DEF RunInv, FlagInv, Resume, Begin
<1>3. CASE ReturnsReport
  BY <1>3 DEF RunInv, FlagInv, ReturnsReport, MayResume, process, knowledge
<1>4. CASE StartSidecar
  BY <1>4 DEF RunInv, FlagInv, StartSidecar, outside
<1>5. CASE PrepareFails
  BY <1>5 DEF RunInv, FlagInv, KnowledgeInv, PrepareFails, Raises, Pairs, knowledge, outside
<1>6. CASE Claim
  BY <1>6, RunAssumption, FS_CardinalityType, FS_EmptySet, FS_Subset DEF RunInv, FlagInv, Claim,
      Persist, outside
<1>7. CASE Submit
  BY <1>7 DEF RunInv, FlagInv, Submit, outside
<1>8. CASE Wait
  BY <1>8 DEF RunInv, FlagInv, Wait, outside
<1>9. CASE Recorded
  BY <1>9 DEF RunInv, FlagInv, Recorded, Persist, outside
<1>10. CASE PoolRaises
  BY <1>10 DEF RunInv, FlagInv, RunTypeOK, PoolRaises, outside, RunFiles
<1>11. CASE Cancel
  BY <1>11 DEF RunInv, FlagInv, Cancel, outside
<1>12. CASE JoinWorkers
  BY <1>12 DEF RunInv, FlagInv, JoinWorkers, outside
<1>13. CASE Collect
  BY <1>13 DEF RunInv, FlagInv, Collect, outside
<1>14. CASE CollectRaises
  BY <1>14 DEF RunInv, FlagInv, CollectRaises, Raises, outside
<1>15. ASSUME NEW c \in Cases, TaskBegins(c) PROVE FlagInv'
  <2>1. runner \in Pool3 \cup Leaving
    BY <1>15 DEF RunInv, RunTypeOK, PoolInv, TaskBegins, Pool3, Leaving, Futures
  <2>2. c \in saved.active
    BY <1>15, <2>1 DEF RunInv, PoolInv, TaskBegins, Futures
  <2> QED
    BY <1>15, <2>1, <2>2 DEF RunInv, FlagInv, TaskBegins, Pool3, Leaving, outside
<1>16. ASSUME NEW c \in Cases, TaskEnds(c) PROVE FlagInv'
  BY <1>16 DEF RunInv, FlagInv, TaskEnds, knowledge, outside
<1>17. ASSUME NEW c \in Cases, Record(c) PROVE FlagInv'
  BY <1>17 DEF RunInv, FlagInv, Record, Row, outside
<1>18. ASSUME NEW c \in Cases, RecordRaises(c) PROVE FlagInv'
  BY <1>18 DEF RunInv, FlagInv, RunTypeOK, RecordRaises, Row, outside, RunFiles
<1>19. CASE Flush
  BY <1>19 DEF RunInv, FlagInv, KnowledgeInv, Flush, Barrier, BarrierHolds, outside
<1>20. CASE FlushInterrupted
  BY <1>20 DEF RunInv, FlagInv, FlushInterrupted, outside
<1>21. CASE Settle
  BY <1>21 DEF RunInv, FlagInv, Settle, knowledge, outside
<1>22. CASE Unwind
  BY <1>22 DEF RunInv, FlagInv, RunTypeOK, KnowledgeInv, Unwind, Barrier, BarrierHolds, outside,
      RunFiles
<1>23. CASE UnwindInterrupted
  BY <1>23 DEF RunInv, FlagInv, RunTypeOK, UnwindInterrupted, Raises, knowledge, outside,
     RunFiles
<1>24. CASE StopSidecar
  BY <1>24 DEF RunInv, FlagInv, RunTypeOK, KnowledgeInv, StopSidecar, outside
<1>25. CASE WriteReport
  BY <1>25 DEF RunInv, FlagInv, WriteReport, Off, knowledge, outside
<1>26. CASE Save
  BY <1>26 DEF RunInv, FlagInv, KnowledgeInv, Save, process, outside
<1>27. CASE ServerDies
  BY <1>27 DEF RunInv, FlagInv, ServerDies, process, outside
<1>28. CASE Killed
  BY <1>28 DEF RunInv, FlagInv, Killed, Off, outside
<1>29. ASSUME NEW a \in agents, Teach(a) PROVE FlagInv'
  BY <1>29 DEF RunInv, FlagInv, Teach, process, outside
<1>30. ASSUME NEW a \in agents, AgentEnds(a) PROVE FlagInv'
  BY <1>30 DEF RunInv, FlagInv, AgentEnds, process, outside
<1>40. CASE UNCHANGED runVars
  BY <1>40 DEF runVars, process, knowledge, outside, RunInv, FlagInv
<1> QED
  BY <1>1, <1>2, <1>3, <1>4, <1>5, <1>6, <1>7, <1>8, <1>9, <1>10, <1>11, <1>12, <1>13, <1>14,
      <1>15, <1>16, <1>17, <1>18, <1>19, <1>20, <1>21, <1>22, <1>23, <1>24, <1>25, <1>26, <1>27,
      <1>28, <1>29, <1>30, <1>40 DEF RunNext, Invocation, Pool, Ending, Others

LEMMA RunInvInit == RunInit => RunInv
BY DEF RunInit, NoFile, RunInv, RunTypeOK, RunFiles, PoolInv, FileInv, KnowledgeInv, FlagInv,
    Futures, Pairs, Pool3, AllOrNone, OneRow, Reported

LEMMA RunInvStep == RunInv /\ [RunNext]_runVars => RunInv'
BY TypeStep, PoolStep, FileStep, KnowledgeStep, FlagStep DEF RunInv

LEMMA RunInvAlways == RunSpec => []RunInv
BY RunInvInit, RunInvStep, PTL DEF RunSpec

-----------------------------------------------------------------------------
(* Results.                                                                  *)

\* The report, the pool and the sidecar keep their shape through every invocation.
THEOREM RunTypeCorrect == RunSpec => []RunTypeOK
<1>1. RunInv => RunTypeOK
  BY DEF RunInv
<1> QED
  BY <1>1, RunInvAlways, PTL

\* No task teaches twice or is reported twice, and what is called completed, or
\* returned as finished without an earlier barrier's flag, is saved.
THEOREM LearnsOnce == RunSpec => []RunLearnsOnce
<1>1. ASSUME RunInv PROVE TaughtOnce
  <2>1. disk \cup memory \subseteq Cases \X {start}
    BY <1>1 DEF RunInv, KnowledgeInv, Pairs
  <2> QED
    BY <2>1 DEF TaughtOnce
<1>2. RunInv => ReportedOnce
  BY DEF RunInv, FileInv, OneRow, ReportedOnce
<1>3. RunInv => FinishedIsSaved
  BY DEF RunInv, FileInv, FlagInv, FinishedIsSaved
<1> QED
  BY <1>1, <1>2, <1>3, RunInvAlways, PTL DEF RunLearnsOnce

\* A run is resumed only while no task of it has ever begun: an invocation that
\* handed out a task leaves it active until all tasks are reported.
THEOREM ResumedUntaught == RunSpec => [][Resume => agents = {} /\ taught = {}]_runVars
<1>1. RunInv /\ [RunNext]_runVars => [Resume => agents = {} /\ taught = {}]_runVars
  BY NothingTaught DEF Resume, MayResume, Pairs
<1> QED
  BY <1>1, RunInvAlways, PTL DEF RunSpec

-----------------------------------------------------------------------------
(* A task on the host.  A living process has a living parent or is the          *)
(* supervisor's, and no living processes are only each other's children: when    *)
(* the supervisor has no children left, nobody lives.                            *)

\* Processes have living parents or the supervisor, and no cycle of living
\* processes is its own ancestry: every set of them has a member whose parent is
\* outside of it.
TreeInv ==
    /\ run \in [Pids -> {"free", "running", "stopping", "stopped", "dying", "zombie", "gone"}]
    /\ parent \in [Pids -> Pids \cup {Host!Supervisor}]
    /\ \A p \in Pids : run[p] \notin {"free", "gone"} =>
           parent[p] \in Host!Alive \cup {Host!Supervisor}
    /\ \A S \in SUBSET Host!Alive : S # {} => \E p \in S : parent[p] \notin S

\* Nothing runs before the agent is launched, or after the supervisor reported success.
SupervisorInv ==
    /\ sup \in {"off", "watch", "scan", "reap", "exited"}
    /\ sup = "off" => ~sandbox /\ \A p \in Pids : run[p] = "free" /\ parent[p] = Host!Supervisor
    /\ sup = "exited" /\ code # Host!Unclean => Host!Alive = {}

\* What the worker knows at each of its steps.
Closed == {"settle", "finish", "returned", "raised"}
WorkerInv ==
    /\ kind \in {"task", "replay"}
    /\ step \in {"setup", "wait", "kill", "collect", "sweep"} \cup Closed
    /\ step = "setup" => sup = "off" /\ raising = "none"
    /\ step \in {"wait", "kill", "collect"} => sup # "off" /\ raising = "none"
    /\ step \in {"setup", "wait", "kill"} => ~stopped
    /\ step = "collect" => stopped
    /\ stopped => sup = "exited" /\ code # Host!Unclean
    /\ step \in {"setup", "wait", "kill", "collect", "sweep"} => ~swept /\ ~abort
    /\ kind = "task" /\ raising = "none" =>
          /\ step \in Closed \cup {"sweep"} => stopped \/ sup = "off"
          /\ step \in Closed => swept
    /\ step = "returned" => raising = "none"
    /\ swept /\ (stopped \/ sup = "off") => ~sandbox
    /\ abort => swept /\ stopped

HostInv == TreeInv /\ SupervisorInv /\ WorkerInv

-----------------------------------------------------------------------------
\* Before anything runs.
LEMMA HostInvInit == Host!TaskAssumption /\ Host!Init => HostInv
BY DEF Host!TaskAssumption, Host!Init, HostInv, TreeInv, SupervisorInv, WorkerInv, Host!Alive,
   Closed

\* A step that lets the same processes live changes nothing in the tree.
LEMMA SameAlive ==
    ASSUME TreeInv, parent' = parent, Host!Alive' = Host!Alive,
           run' \in [Pids -> {"free", "running", "stopping", "stopped", "dying", "zombie",
               "gone"}],
           \A p \in Pids : run'[p] \notin {"free", "gone"} => run[p] \notin {"free", "gone"}
    PROVE  TreeInv'
BY DEF TreeInv

\* A process lives as long as it is not said to be free, a zombie or gone.
LEMMA AliveSame ==
    ASSUME \A p \in Pids : run'[p] \in {"running", "stopping", "stopped", "dying"}
                              <=> run[p] \in {"running", "stopping", "stopped", "dying"}
    PROVE  Host!Alive' = Host!Alive
BY DEF Host!Alive

\* Whoever runs, forks, dies or is reaped, the tree stays one.
LEMMA TreeStep == Host!TaskAssumption /\ HostInv /\ [Host!Next]_(Host!vars) => TreeInv'
<1> SUFFICES ASSUME Host!TaskAssumption, HostInv, [Host!Next]_(Host!vars) PROVE TreeInv'
  OBVIOUS
<1>1. ASSUME UNCHANGED Host!tree PROVE TreeInv'
  BY <1>1 DEF HostInv, TreeInv, Host!tree, Host!Alive
<1>2. ASSUME NEW p \in Pids, NEW q \in Pids, Host!Fork(p, q) PROVE TreeInv'
  <2>1. /\ run[p] \in {"running", "stopping"} /\ run[q] = "free"
        /\ run' = [run EXCEPT ![q] = "running"] /\ parent' = [parent EXCEPT ![q] = p]
    BY <1>2 DEF Host!Fork
  <2>2. Host!Alive' = Host!Alive \cup {q} /\ p \in Host!Alive /\ q \notin Host!Alive
    BY <2>1 DEF HostInv, TreeInv, Host!Alive
  <2>3. \A x \in Host!Alive : parent[x] # q /\ parent'[x] = parent[x]
    BY <2>1, <2>2 DEF HostInv, TreeInv, Host!Alive, Host!TaskAssumption
  <2>4. ASSUME NEW S \in SUBSET Host!Alive', S # {} PROVE \E x \in S : parent'[x] \notin S
    <3>1. CASE S \subseteq Host!Alive
      <4>1. PICK x \in S : parent[x] \notin S
        BY <2>4, <3>1 DEF HostInv, TreeInv
      <4> QED
        BY <2>3, <3>1, <4>1
    <3>2. CASE S = {q}
      <4>1. parent'[q] = p /\ p # q
        BY <2>1 DEF HostInv, TreeInv
      <4> QED
        BY <3>2, <4>1
    <3>3. CASE S \ {q} # {}
      <4>1. S \ {q} \in SUBSET Host!Alive
        BY <2>2
      <4>2. PICK x \in S \ {q} : parent[x] \notin S \ {q}
        BY <3>3, <4>1 DEF HostInv, TreeInv
      <4>3. parent'[x] = parent[x] /\ parent[x] # q
        BY <2>3, <4>1
      <4> QED
        BY <4>2, <4>3
    <3> QED
      BY <2>2, <2>4, <3>1, <3>2, <3>3
  <2>5. \A x \in Pids : run'[x] \notin {"free", "gone"} =>
            parent'[x] \in Host!Alive' \cup {Host!Supervisor}
    BY <2>1, <2>2 DEF HostInv, TreeInv
  <2>6. /\ run' \in [Pids -> {"free", "running", "stopping", "stopped", "dying", "zombie",
               "gone"}]
        /\ parent' \in [Pids -> Pids \cup {Host!Supervisor}]
    BY <2>1 DEF HostInv, TreeInv
  <2> QED
    BY <2>4, <2>5, <2>6 DEF TreeInv
<1>3. ASSUME NEW p \in Pids, Host!Exit(p) PROVE TreeInv'
  <2>1. /\ run[p] \in {"running", "dying"}
        /\ run' = [run EXCEPT ![p] = "gone"] \/ run' = [run EXCEPT ![p] = "zombie"]
        /\ parent' = [q \in Pids |-> IF parent[q] = p THEN Host!Supervisor ELSE parent[q]]
    BY <1>3 DEF Host!Exit
  <2>2. Host!Alive' = Host!Alive \ {p}
    BY <2>1 DEF HostInv, TreeInv, Host!Alive
  <2>3. \A x \in Pids : parent'[x] \in {parent[x], Host!Supervisor} /\ parent'[x] # p
    BY <2>1 DEF Host!TaskAssumption
  <2>4. ASSUME NEW S \in SUBSET Host!Alive', S # {} PROVE \E x \in S : parent'[x] \notin S
    <3>1. S \in SUBSET Host!Alive /\ S \subseteq Pids /\ Host!Supervisor \notin S
      BY <2>2 DEF Host!Alive, Host!TaskAssumption
    <3>2. PICK x \in S : parent[x] \notin S
      BY <2>4, <3>1 DEF HostInv, TreeInv
    <3> QED
      BY <2>3, <3>1, <3>2
  <2>5. \A x \in Pids : run'[x] \notin {"free", "gone"} =>
            parent'[x] \in Host!Alive' \cup {Host!Supervisor}
    <3>1. \A x \in Pids : run'[x] \notin {"free", "gone"} => run[x] \notin {"free", "gone"}
      BY <2>1 DEF HostInv, TreeInv
    <3> QED
      BY <2>2, <2>3, <3>1 DEF HostInv, TreeInv
  <2>6. /\ run' \in [Pids -> {"free", "running", "stopping", "stopped", "dying", "zombie",
               "gone"}]
        /\ parent' \in [Pids -> Pids \cup {Host!Supervisor}]
    BY <2>1 DEF HostInv, TreeInv
  <2> QED
    BY <2>4, <2>5, <2>6 DEF TreeInv
<1>4. ASSUME parent' = parent,
             run' \in [Pids -> {"free", "running", "stopping", "stopped", "dying", "zombie",
                 "gone"}],
             \A p \in Pids :
                /\ run'[p] \notin {"free", "gone"} => run[p] \notin {"free", "gone"}
                /\ run'[p] \in {"running", "stopping", "stopped", "dying"}
                      <=> run[p] \in {"running", "stopping", "stopped", "dying"}
      PROVE  TreeInv'
  BY <1>4, SameAlive, AliveSame DEF HostInv
<1>5. ASSUME NEW p \in Pids, Host!Stop(p) PROVE TreeInv'
  BY <1>4, <1>5 DEF Host!Stop, HostInv, TreeInv
<1>6. CASE Host!Watch
  BY <1>4, <1>6 DEF Host!Watch, HostInv, TreeInv, Host!TaskAssumption
<1>7. ASSUME NEW p \in Pids, Host!Scan(p) PROVE TreeInv'
  BY <1>4, <1>7 DEF Host!Scan, HostInv, TreeInv
<1>8. CASE Host!Kill
  BY <1>4, <1>8 DEF Host!Kill, Host!Alive, HostInv, TreeInv
<1>9. CASE Host!Reap
  BY <1>4, <1>9 DEF Host!Reap, HostInv, TreeInv
<1>10. CASE Host!SetUp
  <2>1. CASE UNCHANGED Host!tree
    BY <1>1, <2>1
  <2>2. CASE run' = [run EXCEPT ![Agent] = "running"] /\ parent' = parent
    <3>1. \A p \in Pids : run[p] = "free" /\ parent[p] = Host!Supervisor
      BY <1>10 DEF Host!SetUp, HostInv, SupervisorInv, WorkerInv
    <3>2. Agent \in Pids /\ Host!Supervisor \notin Pids
      BY DEF Host!TaskAssumption
    <3>3. \A p \in Pids : parent'[p] = Host!Supervisor
      BY <2>2, <3>1
    <3>4. /\ run' \in [Pids -> {"free", "running", "stopping", "stopped", "dying", "zombie",
                 "gone"}]
          /\ parent' \in [Pids -> Pids \cup {Host!Supervisor}]
      BY <2>2 DEF HostInv, TreeInv
    <3>5. \A S \in SUBSET Host!Alive' : S # {} => \E p \in S : parent'[p] \notin S
      BY <3>2, <3>3 DEF Host!Alive
    <3> QED
      BY <3>3, <3>4, <3>5 DEF TreeInv
  <2> QED
    BY <1>10, <2>1, <2>2 DEF Host!SetUp, Host!tree
<1>11. CASE UNCHANGED Host!vars
  BY <1>1, <1>11 DEF Host!vars
<1>12. CASE Host!AgentEnds \/ Host!Interrupt \/ Host!Killed \/ Host!Collect \/ Host!Sweep
           \/ Host!Settle \/ Host!Finish \/ Host!Late
  BY <1>1, <1>12 DEF Host!AgentEnds, Host!Interrupt, Host!Killed, Host!Collect, Host!Sweep,
     Host!Settle, Host!Finish, Host!Late
<1>13. ASSUME NEW p \in Pids, Host!Sandbox(p) PROVE TreeInv'
  BY <1>1, <1>13 DEF Host!Sandbox
<1> QED
  BY <1>2, <1>3, <1>5, <1>6, <1>7, <1>8, <1>9, <1>10, <1>11, <1>12, <1>13 DEF Host!Next,
     Host!Worker, Host!Supervise

\* What a supervisor has no child of is not alive.
LEMMA NoChildNoTree ==
    ASSUME Host!TaskAssumption, HostInv,
           \A p \in Host!Children(Host!Supervisor) : run[p] = "zombie"
    PROVE  Host!Alive = {}
<1> SUFFICES ASSUME Host!Alive # {} PROVE FALSE
  OBVIOUS
<1>1. PICK p \in Host!Alive : parent[p] \notin Host!Alive
  BY DEF HostInv, TreeInv
<1>2. p \in Pids /\ run[p] \in {"running", "stopping", "stopped", "dying"}
  BY <1>1 DEF Host!Alive
<1>3. parent[p] = Host!Supervisor
  BY <1>1, <1>2 DEF HostInv, TreeInv
<1> QED
  BY <1>2, <1>3 DEF Host!Children

\* The supervisor reports success when nobody lives.
LEMMA SupervisorStep == Host!TaskAssumption /\ HostInv /\ [Host!Next]_(Host!vars) =>
    SupervisorInv'
<1> SUFFICES ASSUME Host!TaskAssumption, HostInv, [Host!Next]_(Host!vars) PROVE SupervisorInv'
  OBVIOUS
<1>1. ASSUME UNCHANGED <<Host!super, Host!tree>>, sup = "off" => sandbox' = sandbox
      PROVE SupervisorInv'
  BY <1>1 DEF HostInv, SupervisorInv, Host!super, Host!tree, Host!Alive
<1>2. ASSUME NEW p \in Pids, NEW q \in Pids, Host!Fork(p, q) PROVE SupervisorInv'
  <2>1. p \in Host!Alive /\ run[p] # "free" /\ UNCHANGED Host!super
    BY <1>2 DEF Host!Fork, Host!Alive
  <2> QED
    BY <2>1 DEF HostInv, SupervisorInv, Host!super
<1>3. ASSUME NEW p \in Pids, Host!Exit(p) PROVE SupervisorInv'
  <2>1. p \in Host!Alive /\ run[p] # "free" /\ UNCHANGED Host!super
    BY <1>3 DEF Host!Exit, Host!Alive
  <2> QED
    BY <2>1 DEF HostInv, SupervisorInv, Host!super
<1>4. ASSUME NEW p \in Pids, Host!Stop(p) PROVE SupervisorInv'
  <2>1. p \in Host!Alive /\ run[p] # "free" /\ UNCHANGED Host!super
    BY <1>4 DEF Host!Stop, Host!Alive
  <2> QED
    BY <2>1 DEF HostInv, SupervisorInv, Host!super
<1>5. ASSUME NEW p \in Pids, Host!Sandbox(p) PROVE SupervisorInv'
  BY <1>1, <1>5 DEF Host!Sandbox, HostInv, SupervisorInv
<1>6. CASE Host!Watch
  BY <1>6 DEF Host!Watch, SupervisorInv
<1>7. ASSUME NEW p \in Pids, Host!Scan(p) PROVE SupervisorInv'
  BY <1>7 DEF Host!Scan, SupervisorInv
<1>8. CASE Host!Kill
  BY <1>8 DEF Host!Kill, SupervisorInv
<1>9. CASE Host!Reap
  <2> DEFINE reaped == {p \in Host!Children(Host!Supervisor) : run[p] = "zombie"}
  <2>1. sup' \in {"scan", "exited"}
    BY <1>9 DEF Host!Reap
  <2>2. ASSUME sup' = "exited", code' # Host!Unclean PROVE Host!Alive' = {}
    <3>1. Host!Children(Host!Supervisor) \ reaped = {}
      BY <1>9, <2>2 DEF Host!Reap, Host!Clean
    <3>2. Host!Alive = {}
      BY <3>1, NoChildNoTree
    <3>3. run' = [p \in Pids |-> IF p \in reaped THEN "gone" ELSE run[p]]
      BY <1>9 DEF Host!Reap
    <3> QED
      BY <3>2, <3>3 DEF Host!Alive
  <2> QED
    BY <2>1, <2>2 DEF SupervisorInv
<1>10. CASE Host!SetUp
  <2>1. CASE sup' = "watch"
    BY <2>1 DEF SupervisorInv
  <2>2. CASE UNCHANGED <<run, sup>>
    BY <1>1, <1>10, <2>2 DEF Host!SetUp, Host!super, Host!tree
  <2> QED
    BY <1>10, <2>1, <2>2 DEF Host!SetUp
<1>11. CASE UNCHANGED Host!vars
  BY <1>1, <1>11 DEF Host!vars
<1>12. CASE Host!AgentEnds \/ Host!Interrupt \/ Host!Killed \/ Host!Collect \/ Host!Settle
           \/ Host!Late
  BY <1>1, <1>12 DEF Host!AgentEnds, Host!Interrupt, Host!Killed, Host!Collect, Host!Settle,
     Host!Late
<1>13. CASE Host!Sweep \/ Host!Finish
  <2>1. UNCHANGED <<Host!super, Host!tree>> /\ (sandbox' = FALSE \/ sandbox' = sandbox)
    BY <1>13 DEF Host!Sweep, Host!Finish
  <2> QED
    BY <2>1 DEF HostInv, SupervisorInv, Host!super, Host!tree, Host!Alive
<1> QED
  BY <1>2, <1>3, <1>4, <1>5, <1>6, <1>7, <1>8, <1>9, <1>10, <1>11, <1>12, <1>13
  DEF Host!Next, Host!Worker, Host!Supervise

\* What the worker knows is still so.
LEMMA WorkerStep == Host!TaskAssumption /\ HostInv /\ [Host!Next]_(Host!vars) => WorkerInv'
<1> SUFFICES ASSUME Host!TaskAssumption, HostInv, [Host!Next]_(Host!vars) PROVE WorkerInv'
  OBVIOUS
<1>1. ASSUME UNCHANGED Host!thread, sandbox' => sandbox, sup' = "off" <=> sup = "off",
             sup = "exited" => UNCHANGED <<sup, code>>
      PROVE  WorkerInv'
  BY <1>1 DEF HostInv, WorkerInv, Host!thread, Closed
<1>2. ASSUME NEW p \in Pids, NEW q \in Pids, Host!Fork(p, q) PROVE WorkerInv'
  BY <1>1, <1>2 DEF Host!Fork, Host!super
<1>3. ASSUME NEW p \in Pids, Host!Exit(p) \/ Host!Stop(p) PROVE WorkerInv'
  BY <1>1, <1>3 DEF Host!Exit, Host!Stop, Host!super
<1>4. ASSUME NEW p \in Pids, Host!Sandbox(p) PROVE WorkerInv'
  <2>1. p \in Host!Alive /\ run[p] # "free" /\ UNCHANGED <<Host!thread, Host!super>>
    BY <1>4 DEF Host!Sandbox, Host!Alive
  <2>2. ~stopped /\ sup # "off"
    BY <2>1 DEF HostInv, SupervisorInv, WorkerInv
  <2> QED
    BY <2>1, <2>2 DEF HostInv, WorkerInv, Host!thread, Host!super, Closed
<1>5. CASE Host!Watch
  BY <1>1, <1>5 DEF Host!Watch
<1>6. ASSUME NEW p \in Pids, Host!Scan(p) PROVE WorkerInv'
  BY <1>1, <1>6 DEF Host!Scan
<1>7. CASE Host!Kill
  BY <1>1, <1>7 DEF Host!Kill
<1>8. CASE Host!Reap
  BY <1>1, <1>8 DEF Host!Reap
<1>9. CASE Host!SetUp
  <2>1. /\ step = "setup" /\ sup = "off" /\ UNCHANGED <<kind, stopped, swept, abort, sandbox>>
        /\ ~stopped /\ ~swept /\ ~abort /\ kind \in {"task", "replay"}
    BY <1>9 DEF Host!SetUp, HostInv, WorkerInv
  <2>2. CASE step' = "wait" /\ sup' = "watch" /\ raising' = raising
    <3>1. raising = "none"
      BY <2>1 DEF HostInv, WorkerInv
    <3> QED
      BY <2>1, <2>2, <3>1 DEF WorkerInv, Closed
  <2>3. CASE step' = "sweep" /\ sup' = sup
    BY <2>1, <2>3 DEF WorkerInv, Closed
  <2> QED
    BY <1>9, <2>2, <2>3 DEF Host!SetUp, Host!Handles
<1>10. CASE Host!AgentEnds
  BY <1>10 DEF Host!AgentEnds, Host!Handles, Host!super, HostInv, WorkerInv, Closed
<1>11. CASE Host!Interrupt
  BY <1>11 DEF Host!Interrupt, Host!super, HostInv, WorkerInv, Closed
<1>12. CASE Host!Killed
  BY <1>12 DEF Host!Killed, Host!Confirmed, Host!Handles, Host!super, HostInv, WorkerInv, Closed
<1>13. CASE Host!Collect
  BY <1>13 DEF Host!Collect, Host!Handles, Host!super, HostInv, WorkerInv, Closed
<1>14. CASE Host!Sweep
  BY <1>14 DEF Host!Sweep, Host!super, HostInv, WorkerInv, SupervisorInv, Closed
<1>15. CASE Host!Settle
  BY <1>15 DEF Host!Settle, Host!MayAbort, Host!super, HostInv, WorkerInv, Closed
<1>16. CASE Host!Finish
  BY <1>16 DEF Host!Finish, Host!super, HostInv, WorkerInv, Closed
<1>17. CASE Host!Late
  BY <1>1, <1>17 DEF Host!Late, Host!super
<1>18. CASE UNCHANGED Host!vars
  BY <1>1, <1>18 DEF Host!vars, Host!super
<1> QED
  BY <1>2, <1>3, <1>4, <1>5, <1>6, <1>7, <1>8, <1>9, <1>10, <1>11, <1>12, <1>13, <1>14, <1>15,
     <1>16, <1>17, <1>18 DEF Host!Next, Host!Worker, Host!Supervise

\* The invariant of a task on the host.
LEMMA HostInvAlways == Host!TaskAssumption => (Host!Spec => []HostInv)
<1> SUFFICES ASSUME Host!TaskAssumption PROVE Host!Spec => []HostInv
  OBVIOUS
<1>1. Host!Init => HostInv
  BY HostInvInit
<1>2. HostInv /\ [Host!Next]_(Host!vars) => HostInv'
  BY TreeStep, SupervisorStep, WorkerStep DEF HostInv
<1> QED
  BY <1>1, <1>2, PTL DEF Host!Spec

\* Whoever is told that an agent or its task is over finds it quiet.
THEOREM AgentsAreQuiet == Host!TaskAssumption => (Host!Spec => []QuietWhenTold)
<1> SUFFICES ASSUME Host!TaskAssumption PROVE Host!Spec => []QuietWhenTold
  OBVIOUS
<1>1. ASSUME HostInv PROVE Host!QuietWhenTold
  <2>1. sup = "off" => Host!Alive = {}
    BY <1>1 DEF HostInv, SupervisorInv, Host!Alive
  <2> QED
    BY <1>1, <2>1 DEF HostInv, SupervisorInv, WorkerInv, Closed, Host!QuietWhenTold
<1> QED
  BY <1>1, HostInvAlways, PTL DEF QuietWhenTold

-----------------------------------------------------------------------------
(* The audit of a task.  It counts, and sets of the same size, one of which is    *)
(* part of the other, are equal: as many full spans as spans, and as many paths   *)
(* as calls, so that no two calls share one.                                      *)

\* The model's sizes are those of the theorems on finite sets.
LEMMA SameSize == \A S : Audit!Cardinality(S) = Cardinality(S)
BY DEF Audit!Cardinality, Cardinality

\* Once a task is judged, nothing is added to its trace.
VerdictInv ==
    /\ IsFiniteSet(spans)
    /\ open => verdict = "none"
    /\ Audit!PassedIsMeasured

\* As many paths as calls: each call has its own.
LEMMA OwnPaths ==
    ASSUME IsFiniteSet(spans), Audit!Exclusive, NEW s \in spans, NEW t \in spans, s # t
    PROVE  s.path \notin {NoPath, Box, t.path}
<1> DEFINE f == [x \in spans |-> x.path]
           T == {x.path : x \in spans}
<1>1. f \in Surjection(spans, T)
  BY DEF Surjection
<1>2. Cardinality(T) = Cardinality(spans)
  BY SameSize DEF Audit!Exclusive, Audit!Launched, Audit!Expected, Audit!Count
<1>3. f \in Injection(spans, T)
  BY <1>1, <1>2, FS_Surjection
<1>4. f[s] # f[t]
  BY <1>3 DEF Injection, IsInjective
<1>5. s.path \notin {NoPath, Box}
  BY DEF Audit!Exclusive, Audit!Launched
<1> QED
  BY <1>4, <1>5

\* The audit counts, and what it accepts are the calls themselves.
LEMMA AcceptedIsMeasured ==
    ASSUME IsFiniteSet(spans), Audit!Accepts, NEW c,
           {s \in spans : s.call = c} # {} \/ c \in artifacts
    PROVE  /\ {s \in spans : s.call = c} # {} /\ c \in artifacts
           /\ produced[c].rooted /\ ~produced[c].lost /\ produced[c].analysed
           /\ strict => \A s \in {u \in spans : u.call = c}, t \in spans \ {u \in spans :
                  u.call = c} :
                           s.path \notin {NoPath, Box, t.path}
<1>1. \A s \in spans : s.full
  <2>1. {s \in spans : s.full} \in SUBSET spans
    OBVIOUS
  <2>2. Cardinality({s \in spans : s.full}) = Cardinality(spans)
    BY SameSize DEF Audit!Accepts, Audit!Launched, Audit!Expected, Audit!Count
  <2>3. {s \in spans : s.full} = spans
    BY <2>1, <2>2, FS_Subset
  <2> QED
    BY <2>3
<1>2. artifacts = {s.call : s \in spans}
  BY <1>1 DEF Audit!Accepts, Audit!SameReferences, Audit!Launched
<1>3. {s \in spans : s.call = c} # {} /\ c \in artifacts
  BY <1>2
<1>4. produced[c].rooted /\ ~produced[c].lost /\ produced[c].analysed
  <2>1. [call |-> c, says |-> produced[c]] \in Audit!Inspected
    BY <1>3 DEF Audit!Inspected
  <2>2. Audit!Healthy(produced[c]) /\ Audit!Rooted(produced[c])
            /\ ~Audit!AnalysisFailed(produced[c])
    BY <2>1 DEF Audit!Accepts
  <2> QED
    BY <2>2 DEF Audit!Healthy, Audit!Rooted, Audit!AnalysisFailed
<1>5. ASSUME strict, NEW s \in spans, s.call = c, NEW t \in spans, t.call # c
      PROVE  s.path \notin {NoPath, Box, t.path}
  BY <1>5, OwnPaths DEF Audit!Accepts
<1> QED
  BY <1>3, <1>4, <1>5

\* What the audit accepts was measured.
LEMMA JudgeStep ==
    ASSUME VerdictInv, NEW agentFailed, Audit!Judge(agentFailed)
    PROVE  VerdictInv'
<1>1. ~open /\ UNCHANGED <<strict, calls, open, produced, spans, artifacts>>
      /\ (verdict' = "passed" => Audit!Accepts)
  BY DEF Audit!Judge
<1>2. ASSUME verdict' = "passed", NEW c \in 1..calls PROVE
        LET mine == {s \in spans : s.call = c}
        IN  mine # {} \/ c \in artifacts =>
              /\ mine # {} /\ c \in artifacts
              /\ produced[c].rooted /\ ~produced[c].lost /\ produced[c].analysed
              /\ strict => \A s \in mine, t \in spans \ mine :
                              s.path \notin {NoPath, Box, t.path}
  BY <1>1, <1>2, AcceptedIsMeasured DEF VerdictInv
<1> QED
  BY <1>1, <1>2 DEF VerdictInv, Audit!PassedIsMeasured

\* The invariant of the audit.
LEMMA VerdictInvAlways == Audit!Spec => []VerdictInv
<1>1. Audit!Init => VerdictInv
  BY FS_EmptySet DEF Audit!Init, VerdictInv, Audit!PassedIsMeasured
<1>2. VerdictInv /\ [Audit!Next]_(Audit!vars) => VerdictInv'
  <2> SUFFICES ASSUME VerdictInv, [Audit!Next]_(Audit!vars) PROVE VerdictInv'
    OBVIOUS
  <2>1. ASSUME NEW o, Audit!Finish(o) PROVE VerdictInv'
    BY <2>1 DEF Audit!Finish, Audit!Starts, VerdictInv, Audit!PassedIsMeasured
  <2>2. ASSUME Audit!FinishWithout PROVE VerdictInv'
    BY <2>2 DEF Audit!FinishWithout, Audit!Starts, VerdictInv, Audit!PassedIsMeasured
  <2>3. ASSUME NEW path, NEW updated, NEW predicted, NEW spanOk, NEW artifactOk,
               Audit!Complete(path, updated, predicted, spanOk, artifactOk)
        PROVE  VerdictInv'
    <3>1. /\ verdict = "none" /\ verdict' = verdict /\ ~open'
          /\ spans' \in {spans, spans \cup {Audit!Span(calls, path, updated, predicted)}}
      BY <2>3 DEF Audit!Complete, VerdictInv
    <3>2. IsFiniteSet(spans')
      BY <3>1, FS_AddElement DEF VerdictInv
    <3> QED
      BY <3>1, <3>2 DEF VerdictInv, Audit!PassedIsMeasured
  <2>4. ASSUME NEW written, Audit!Abort(written) PROVE VerdictInv'
    BY <2>4 DEF Audit!Abort, VerdictInv, Audit!PassedIsMeasured
  <2>5. ASSUME UNCHANGED Audit!vars PROVE VerdictInv'
    BY <2>5 DEF Audit!vars, VerdictInv, Audit!PassedIsMeasured
  <2> QED
    BY <2>1, <2>2, <2>3, <2>4, <2>5, JudgeStep DEF Audit!Next
<1> QED
  BY <1>1, <1>2, PTL DEF Audit!Spec

\* A task whose telemetry passes the audit was measured call by call.
THEOREM AuditsAreSound == Audit!Spec => []PassedIsMeasured
<1>1. VerdictInv => Audit!PassedIsMeasured
  BY DEF VerdictInv
<1> QED
  BY <1>1, VerdictInvAlways, PTL DEF PassedIsMeasured

-----------------------------------------------------------------------------
(* A task with bridged tools.  A command that has run is answered, still runs or  *)
(* can never be started again (RanInv); who has the lock is the only one that      *)
(* runs anything (LockInv); and what the sidecar may be told (OwnerInv).           *)

Gated == {"gate", "gated", "runs"}
Ungated == {"plain", "plain runs"}
Remote == {"send", "served"}
Busy == Gated \cup Ungated \cup Remote
Executing == {"runs", "plain runs", "served"}
Making == {"setup", "admit", "load"}
Early == Making \cup {"unmade", "agent", "bridge", "quiesce"}
Owners == Early \cup {"down", "abort", "drain", "close", "release", "over"}

BridgeTypes ==
    /\ form \in {"terminal", "functions"} /\ owner \in Owners
    /\ agent \in {"off", "runs", "left", "gone"}
    /\ handler \in [Requests -> {"none", "waits", "over"} \cup Busy]
    /\ payload \in [Requests -> {"none", "gated", "alive"}]
    /\ ran \in [Requests -> Nat] /\ answered \subseteq Requests /\ lost \subseteq Requests
    /\ container \in {"none", "up", "stopped", "down"}
    /\ toolWorker \in {"none", "blocked", "loading", "ready", "dead", "dirty"}

LockInv ==
    /\ \A c \in Requests : handler[c] \in Busy <=> lock = c
    /\ \A c \in Requests : handler[c] \in Busy => c \notin answered
    /\ \A c \in Requests : handler[c] \in Gated => gate
    /\ \A c \in Requests : handler[c] \in Gated \cup Ungated => form = "terminal"
    /\ \A c \in Requests : handler[c] \in Remote => form = "functions"

NeverAgain(c) ==
    \/ form = "functions" /\ ~Bridge!Running
    \/ form = "terminal" /\ container # "up"
    \/ form = "terminal" /\ closing /\ handler[c] \notin Busy
    \/ form = "terminal" /\ tooLate /\ gate /\ handler[c] \in {"waits", "gate", "over"}

RanOk(c) ==
    \/ c \in lost
    \/ /\ ran[c] <= 1
       /\ ran[c] = 1 => c \in answered \/ handler[c] \in Executing \/ NeverAgain(c)

RanInv == \A c \in Requests : RanOk(c)

OwnerInv ==
    /\ owner \in Making => agent = "off"
    /\ agent = "off" => \A c \in Requests : handler[c] = "none" /\ ran[c] = 0
           /\ payload[c] = "none"
    /\ owner = "setup" => toolWorker = "none" /\ container = "none"
    /\ owner = "admit" => toolWorker = "blocked"
    /\ toolWorker = "blocked" => owner \in {"admit","unmade"}
    /\ form = "terminal" => owner \notin {"admit", "load"} /\ toolWorker = "none" /\ ~kids
    /\ form = "functions" => container = "none" /\ \A c \in Requests : payload[c] = "none"
    /\ form = "functions" => owner # "down"
    /\ toolWorker \in {"none", "blocked", "loading"} => ~kids
    /\ toolWorker \in {"loading", "ready"} => admitted
    /\ container # "up" => \A c \in Requests : payload[c] = "none"
    /\ owner \in Early /\ toolWorker = "dead" /\ kids => unheard
    /\ owner \in {"abort", "drain"} \/ told =>
          /\ container # "up" /\ \A c \in Requests : payload[c] = "none"
          /\ ~Bridge!Running /\ (kids => unheard)
    /\ told => owner \in {"drain", "close", "release", "over"}
    /\ released => owner = "over" /\ ~Bridge!Running /\ ~kids

BridgeInv == BridgeTypes /\ LockInv /\ RanInv /\ OwnerInv

\* A handler that has the lock goes on, or answers and gives it back.
HandlerAt(c, x) ==
    /\ handler' = [handler EXCEPT ![c] = x] /\ UNCHANGED <<lock, answered, form>>
    /\ x \in Busy /\ (x \in Gated \cup Ungated <=> handler[c] \in Gated \cup Ungated)
    /\ x \in Gated => gate'

\* The request that has the lock moves on.
LEMMA LockGoes ==
    ASSUME BridgeTypes, LockInv, NEW c \in Requests, lock = c, NEW x, HandlerAt(c, x)
    PROVE  LockInv' /\ handler' \in [Requests -> {"none", "waits", "over"} \cup Busy]
<1> USE DEF Gated, Ungated, Remote, Busy
<1>1. ASSUME NEW d \in Requests, d # c PROVE handler'[d] = handler[d] /\ handler[d] \notin Busy
  BY <1>1 DEF BridgeTypes, LockInv, HandlerAt
<1>2. handler'[c] = x /\ x \in Busy /\ c \notin answered
  BY DEF BridgeTypes, LockInv, HandlerAt
<1>3. /\ x \in Gated => gate'
      /\ x \in Gated \cup Ungated => form = "terminal"
      /\ x \in Remote => form = "functions"
  BY DEF LockInv, HandlerAt
<1>4. handler' \in [Requests -> {"none", "waits", "over"} \cup Busy]
  BY <1>2 DEF BridgeTypes, HandlerAt
<1>5. lock' = c /\ answered' = answered /\ form' = form
  BY DEF HandlerAt
<1> HIDE DEF Gated, Ungated, Remote, Busy
<1>6. /\ \A d \in Requests : handler'[d] \in Busy <=> c = d
      /\ \A d \in Requests : handler'[d] \in Gated \cup Ungated \cup Remote => d = c
  BY <1>1, <1>2 DEF Busy
<1> QED
  BY <1>2, <1>3, <1>4, <1>5, <1>6 DEF LockInv

\* The request that has the lock is over.
LEMMA LockOver ==
    ASSUME Bridge!BridgeAssumption, BridgeTypes, LockInv, NEW c \in Requests, lock = c,
           NEW kept, Bridge!Over(c, kept)
    PROVE  /\ LockInv' /\ handler' \in [Requests -> {"none", "waits", "over"} \cup Busy]
           /\ handler'[c] = "over" /\ answered' \in SUBSET Requests
           /\ answered' = IF kept THEN answered \cup {c} ELSE answered
           /\ \A d \in Requests : d # c => handler'[d] = handler[d] /\ handler[d] \notin Busy
<1> USE DEF Gated, Ungated, Remote, Busy
<1>1. /\ handler' = [handler EXCEPT ![c] = "over"] /\ lock' = Nobody
      /\ answered' = IF kept THEN answered \cup {c} ELSE answered
  BY DEF Bridge!Over, Bridge!Goto
<1>2. ASSUME NEW d \in Requests, d # c PROVE handler'[d] = handler[d] /\ handler[d] \notin Busy
  BY <1>1, <1>2 DEF BridgeTypes, LockInv
<1>3. handler'[c] = "over" /\ "over" \notin Busy
  BY <1>1 DEF BridgeTypes
<1>4. handler' \in [Requests -> {"none", "waits", "over"} \cup Busy]
          /\ answered' \in SUBSET Requests
  BY <1>1 DEF BridgeTypes
<1>5. \A d \in Requests : handler'[d] \notin Busy /\ Nobody # d
  BY <1>2, <1>3 DEF Bridge!BridgeAssumption
<1> HIDE DEF Gated, Ungated, Remote, Busy
<1>6. LockInv'
  BY <1>1, <1>5 DEF LockInv, Busy
<1> QED
  BY <1>1, <1>2, <1>3, <1>4, <1>6

\* What a handler does leaves the commands of the other requests as they were.
LEMMA OtherRan ==
    ASSUME BridgeTypes, RanInv, NEW c \in Requests, NEW d \in Requests, d # c,
           handler'[d] = handler[d], ran'[d] = ran[d], UNCHANGED <<form, closing, tooLate>>,
           answered \subseteq answered', lost \subseteq lost', container' # container =>
               container' # "up",
           toolWorker' = toolWorker \/ ~Bridge!Running', gate => gate' \/ ~tooLate
    PROVE  RanOk(d)'
<1>1. RanOk(d)
  BY DEF RanInv
<1>2. NeverAgain(d) => NeverAgain(d)'
  BY DEF NeverAgain, Bridge!Running
<1> QED
  BY <1>1, <1>2 DEF RanOk

USE DEF Gated, Ungated, Remote, Busy, Executing, Making, Early, Owners, Bridge!Running,
        Bridge!BridgeAssumption

\* SetUp keeps the invariant.
LEMMA SetUpStep ==
    ASSUME Bridge!BridgeAssumption, BridgeInv, Bridge!SetUp
    PROVE  BridgeInv'
<1>1. BridgeTypes'
  BY DEF Bridge!SetUp, Bridge!InstallGate, Bridge!fixed, Bridge!ownerVars, Bridge!bridgeVars,
     Bridge!dockerVars, Bridge!workerVars, Bridge!sidecarVars, BridgeInv, BridgeTypes, LockInv,
     OwnerInv
<1>2. LockInv'
  BY DEF Bridge!SetUp, Bridge!InstallGate, Bridge!fixed, Bridge!ownerVars, Bridge!bridgeVars,
     Bridge!dockerVars, Bridge!workerVars, Bridge!sidecarVars, BridgeInv, BridgeTypes, LockInv,
     OwnerInv
<1>3. RanInv'
  <2>1. \A c \in Requests : handler[c] = "none" /\ ran[c] = 0
    BY DEF Bridge!SetUp, BridgeInv, OwnerInv
  <2>2. ran' = ran
    BY DEF Bridge!SetUp, Bridge!dockerVars
  <2>3. ASSUME NEW c \in Requests PROVE RanOk(c)'
    <3>1. ran'[c] = 0 /\ 0 <= 1 /\ 0 # 1
      BY <2>1, <2>2
    <3> QED
      BY <3>1 DEF RanOk
  <2> QED
    BY <2>3 DEF RanInv
<1>4. OwnerInv'
  BY DEF Bridge!SetUp, Bridge!InstallGate, Bridge!fixed, Bridge!ownerVars, Bridge!bridgeVars,
     Bridge!dockerVars, Bridge!workerVars, Bridge!sidecarVars, BridgeInv, BridgeTypes, LockInv,
     OwnerInv
<1> QED
  BY <1>1, <1>2, <1>3, <1>4 DEF BridgeInv

\* Admit keeps the invariant.
LEMMA AdmitStep ==
    ASSUME Bridge!BridgeAssumption, BridgeInv, Bridge!Admit
    PROVE  BridgeInv'
<1>1. BridgeTypes'
  BY DEF Bridge!Admit, Bridge!Goes, Bridge!fixed, Bridge!ownerVars, Bridge!bridgeVars,
     Bridge!dockerVars, Bridge!workerVars, Bridge!sidecarVars, BridgeInv, BridgeTypes, LockInv,
     OwnerInv
<1>2. LockInv'
  BY DEF Bridge!Admit, Bridge!Goes, Bridge!fixed, Bridge!ownerVars, Bridge!bridgeVars,
     Bridge!dockerVars, Bridge!workerVars, Bridge!sidecarVars, BridgeInv, BridgeTypes, LockInv,
     OwnerInv
<1>3. RanInv'
  BY DEF Bridge!Admit, Bridge!Goes, Bridge!fixed, Bridge!ownerVars, Bridge!bridgeVars,
     Bridge!dockerVars, Bridge!workerVars, Bridge!sidecarVars, BridgeInv, BridgeTypes, LockInv,
     OwnerInv, RanInv, RanOk, NeverAgain
<1>4. OwnerInv'
  BY DEF Bridge!Admit, Bridge!Goes, Bridge!fixed, Bridge!ownerVars, Bridge!bridgeVars,
     Bridge!dockerVars, Bridge!workerVars, Bridge!sidecarVars, BridgeInv, BridgeTypes, LockInv,
     OwnerInv
<1> QED
  BY <1>1, <1>2, <1>3, <1>4 DEF BridgeInv

\* Load keeps the invariant.
LEMMA LoadStep ==
    ASSUME Bridge!BridgeAssumption, BridgeInv, Bridge!Load
    PROVE  BridgeInv'
<1>1. BridgeTypes'
  BY DEF Bridge!Load, Bridge!fixed, Bridge!ownerVars, Bridge!bridgeVars, Bridge!dockerVars,
     Bridge!workerVars, Bridge!sidecarVars, BridgeInv, BridgeTypes, LockInv, OwnerInv
<1>2. LockInv'
  BY DEF Bridge!Load, Bridge!fixed, Bridge!ownerVars, Bridge!bridgeVars, Bridge!dockerVars,
     Bridge!workerVars, Bridge!sidecarVars, BridgeInv, BridgeTypes, LockInv, OwnerInv
<1>3. RanInv'
  BY DEF Bridge!Load, Bridge!fixed, Bridge!ownerVars, Bridge!bridgeVars, Bridge!dockerVars,
     Bridge!workerVars, Bridge!sidecarVars, BridgeInv, BridgeTypes, LockInv, OwnerInv, RanInv,
     RanOk, NeverAgain
<1>4. OwnerInv'
  <2>1. /\ owner = "load" /\ owner' \in {"agent", "unmade"}
        /\ UNCHANGED <<Bridge!fixed, Bridge!bridgeVars, Bridge!dockerVars, admitted,
               Bridge!sidecarVars, unheard>>
        /\ \/ toolWorker = "loading" /\ toolWorker' = "ready" /\ agent' = "runs"
           \/ UNCHANGED <<agent, toolWorker, kids>>
    BY DEF Bridge!Load
  <2>2. form = "functions" /\ ~told /\ ~released
    BY <2>1 DEF BridgeInv, BridgeTypes, OwnerInv
  <2> QED
    BY <2>1, <2>2 DEF BridgeInv, OwnerInv, Bridge!fixed, Bridge!bridgeVars, Bridge!dockerVars,
       Bridge!sidecarVars
<1> QED
  BY <1>1, <1>2, <1>3, <1>4 DEF BridgeInv

\* Unmake keeps the invariant.
LEMMA UnmakeStep ==
    ASSUME Bridge!BridgeAssumption, BridgeInv, Bridge!Unmake
    PROVE  BridgeInv'
<1>1. BridgeTypes'
  BY DEF Bridge!Unmake, Bridge!ContainerStops, Bridge!SameContainer, Bridge!StopWorker,
     Bridge!DeletesScope, Bridge!Ways, Bridge!fixed, Bridge!ownerVars, Bridge!bridgeVars,
     Bridge!dockerVars, Bridge!workerVars, Bridge!sidecarVars, BridgeInv, BridgeTypes, LockInv,
     OwnerInv
<1>2. LockInv'
  BY DEF Bridge!Unmake, Bridge!ContainerStops, Bridge!SameContainer, Bridge!StopWorker,
     Bridge!DeletesScope, Bridge!Ways, Bridge!fixed, Bridge!ownerVars, Bridge!bridgeVars,
     Bridge!dockerVars, Bridge!workerVars, Bridge!sidecarVars, BridgeInv, BridgeTypes, LockInv,
     OwnerInv
<1>3. RanInv'
  BY DEF Bridge!Unmake, Bridge!ContainerStops, Bridge!SameContainer, Bridge!StopWorker,
     Bridge!DeletesScope, Bridge!Ways, Bridge!fixed, Bridge!ownerVars, Bridge!bridgeVars,
     Bridge!dockerVars, Bridge!workerVars, Bridge!sidecarVars, BridgeInv, BridgeTypes, LockInv,
     OwnerInv, RanInv, RanOk, NeverAgain
<1>4. OwnerInv'
  BY DEF Bridge!Unmake, Bridge!ContainerStops, Bridge!SameContainer, Bridge!StopWorker,
     Bridge!DeletesScope, Bridge!Ways, Bridge!fixed, Bridge!ownerVars, Bridge!bridgeVars,
     Bridge!dockerVars, Bridge!workerVars, Bridge!sidecarVars, BridgeInv, BridgeTypes, LockInv,
     OwnerInv
<1> QED
  BY <1>1, <1>2, <1>3, <1>4 DEF BridgeInv

\* AgentEnds keeps the invariant.
LEMMA AgentEndsStep ==
    ASSUME Bridge!BridgeAssumption, BridgeInv, Bridge!AgentEnds
    PROVE  BridgeInv'
<1>1. BridgeTypes'
  BY DEF Bridge!AgentEnds, Bridge!fixed, Bridge!ownerVars, Bridge!bridgeVars,
     Bridge!dockerVars, Bridge!workerVars, Bridge!sidecarVars, BridgeInv, BridgeTypes, LockInv,
     OwnerInv
<1>2. LockInv'
  BY DEF Bridge!AgentEnds, Bridge!fixed, Bridge!ownerVars, Bridge!bridgeVars,
     Bridge!dockerVars, Bridge!workerVars, Bridge!sidecarVars, BridgeInv, BridgeTypes, LockInv,
     OwnerInv
<1>3. RanInv'
  BY DEF Bridge!AgentEnds, Bridge!fixed, Bridge!ownerVars, Bridge!bridgeVars,
     Bridge!dockerVars, Bridge!workerVars, Bridge!sidecarVars, BridgeInv, BridgeTypes, LockInv,
     OwnerInv, RanInv, RanOk, NeverAgain
<1>4. OwnerInv'
  BY DEF Bridge!AgentEnds, Bridge!fixed, Bridge!ownerVars, Bridge!bridgeVars,
     Bridge!dockerVars, Bridge!workerVars, Bridge!sidecarVars, BridgeInv, BridgeTypes, LockInv,
     OwnerInv
<1> QED
  BY <1>1, <1>2, <1>3, <1>4 DEF BridgeInv

\* LeaveBridge keeps the invariant.
LEMMA LeaveBridgeStep ==
    ASSUME Bridge!BridgeAssumption, BridgeInv, Bridge!LeaveBridge
    PROVE  BridgeInv'
<1>1. BridgeTypes'
  BY DEF Bridge!LeaveBridge, Bridge!fixed, Bridge!ownerVars, Bridge!bridgeVars,
     Bridge!dockerVars, Bridge!workerVars, Bridge!sidecarVars, BridgeInv, BridgeTypes, LockInv,
     OwnerInv
<1>2. LockInv'
  BY DEF Bridge!LeaveBridge, Bridge!fixed, Bridge!ownerVars, Bridge!bridgeVars,
     Bridge!dockerVars, Bridge!workerVars, Bridge!sidecarVars, BridgeInv, BridgeTypes, LockInv,
     OwnerInv
<1>3. RanInv'
  BY DEF Bridge!LeaveBridge, Bridge!fixed, Bridge!ownerVars, Bridge!bridgeVars,
     Bridge!dockerVars, Bridge!workerVars, Bridge!sidecarVars, BridgeInv, BridgeTypes, LockInv,
     OwnerInv, RanInv, RanOk, NeverAgain
<1>4. OwnerInv'
  BY DEF Bridge!LeaveBridge, Bridge!fixed, Bridge!ownerVars, Bridge!bridgeVars,
     Bridge!dockerVars, Bridge!workerVars, Bridge!sidecarVars, BridgeInv, BridgeTypes, LockInv,
     OwnerInv
<1> QED
  BY <1>1, <1>2, <1>3, <1>4 DEF BridgeInv

\* quiesce, down and close end the tools, or say that they could not.
LEMMA ToolsStop ==
    ASSUME Bridge!BridgeAssumption, BridgeInv, NEW at, NEW how \in {"stopped", "down"},
           NEW then,
           Bridge!StopTools(at, how, then),
           \/ at = "quiesce" /\ then \in {"drain", "down"} /\ (form = "functions" =>
                  then # "down")
           \/ at = "down" /\ then = "abort"
           \/ at = "close" /\ then = "release"
    PROVE  BridgeInv'
<1>1. /\ owner = at
      /\ UNCHANGED <<form, tooLate, agent, failing, closing, handler, lock, answered, gate,
             ran, lost,
                     unheard, told, released, admitted>>
  BY DEF Bridge!StopTools, Bridge!StopWorker, Bridge!fixed, Bridge!bridgeVars,
     Bridge!sidecarVars
<1>2. BridgeTypes /\ LockInv /\ RanInv /\ OwnerInv
  BY DEF BridgeInv
<1>3. \/ container' = container /\ payload' = payload
      \/ container' = how /\ payload' = [c \in Requests |-> "none"] /\ form = "terminal"
  BY DEF Bridge!StopTools, Bridge!ContainerStops, Bridge!SameContainer
<1>4. \/ toolWorker' = toolWorker /\ kids' = kids
      \/ form = "functions" /\ Bridge!Running /\ toolWorker' \in {"dead", "dirty"}
             /\ (kids' => kids)
  <2>1. form # "terminal" => form = "functions"
    BY <1>2 DEF BridgeTypes
  <2> QED
    BY <2>1 DEF Bridge!StopTools, Bridge!StopWorker
<1>5. /\ owner' \in {then, "close", "over"} /\ (at # "close" => owner' # "over")
      /\ owner' = then /\ at # "close" => container' # "up" /\ ~Bridge!Running' /\ (kids' =>
             unheard')
  <2>1. PICK ok \in BOOLEAN :
          /\ owner' = IF ok THEN then ELSE IF at = "close" THEN "over" ELSE "close"
          /\ IF form = "terminal"
             THEN (IF ok THEN container' = how ELSE TRUE) /\ UNCHANGED <<toolWorker, kids>>
             ELSE /\ container' = container
                  /\ IF Bridge!Running
                     THEN \E w \in Bridge!Ways : Bridge!StopWorker(w) /\ ok = (w = "clean")
                     ELSE ok = (toolWorker # "dirty") /\ UNCHANGED <<toolWorker, kids>>
    BY DEF Bridge!StopTools, Bridge!Confirms, Bridge!ContainerStops, Bridge!SameContainer
  <2>2. CASE ~ok \/ at = "close"
    BY <2>1, <2>2
  <2>3. CASE ok /\ at # "close" /\ form = "terminal"
    BY <1>2, <2>1, <2>3 DEF OwnerInv
  <2>4. CASE ok /\ at # "close" /\ form # "terminal"
    <3>1. container' = "none"
      BY <1>2, <2>1, <2>4 DEF OwnerInv, BridgeTypes
    <3>2. CASE Bridge!Running
      BY <2>1, <2>4, <3>1, <3>2 DEF Bridge!StopWorker
    <3>3. CASE ~Bridge!Running
      BY <1>1, <1>2, <2>1, <2>4, <3>1, <3>3 DEF OwnerInv, BridgeTypes
    <3> QED
      BY <3>2, <3>3
  <2> QED
    BY <2>2, <2>3, <2>4
<1>6. BridgeTypes'
  BY <1>1, <1>2, <1>3, <1>4, <1>5, ZenonT(40) DEF BridgeTypes
<1>7. LockInv'
  BY <1>1, <1>2 DEF LockInv
<1>8. RanInv'
  BY <1>1, <1>2, <1>3, <1>4 DEF RanInv, RanOk, NeverAgain
<1>9. OwnerInv'
  <2>1. \A c \in Requests : payload'[c] \in {payload[c], "none"}
    BY <1>3
  <2>2. container' # "up" => \A c \in Requests : payload'[c] = "none"
    BY <1>2, <1>3 DEF OwnerInv
  <2>3. container # "up" => container' # "up"
    BY <1>3
  <2>4. form = "functions" => container' = "none" /\ payload' = payload
    BY <1>2, <1>3 DEF OwnerInv
  <2>5. told' => at = "close" /\ container' # "up" /\ ~Bridge!Running' /\ (kids' => unheard')
    BY <1>1, <1>2, <1>4, <2>3 DEF OwnerInv
  <2>6. ~released'
    BY <1>1, <1>2 DEF OwnerInv
  <2> QED
    BY <1>1, <1>2, <1>4, <1>5, <2>1, <2>2, <2>4, <2>5, <2>6 DEF OwnerInv
<1> QED
  BY <1>6, <1>7, <1>8, <1>9 DEF BridgeInv

\* Quiesce keeps the invariant.
LEMMA QuiesceStep ==
    ASSUME Bridge!BridgeAssumption, BridgeInv, Bridge!Quiesce
    PROVE  BridgeInv'
BY ToolsStop DEF Bridge!Quiesce

\* Down keeps the invariant.
LEMMA DownStep ==
    ASSUME Bridge!BridgeAssumption, BridgeInv, Bridge!Down
    PROVE  BridgeInv'
BY ToolsStop DEF Bridge!Down

\* Close keeps the invariant.
LEMMA CloseStep ==
    ASSUME Bridge!BridgeAssumption, BridgeInv, Bridge!Close
    PROVE  BridgeInv'
BY ToolsStop DEF Bridge!Close

\* TellAbort keeps the invariant.
LEMMA TellAbortStep ==
    ASSUME Bridge!BridgeAssumption, BridgeInv, Bridge!Tell("abort", "drain")
    PROVE  BridgeInv'
<1>1. BridgeTypes'
  BY DEF Bridge!Tell, Bridge!Tell, Bridge!fixed, Bridge!ownerVars, Bridge!bridgeVars,
     Bridge!dockerVars, Bridge!workerVars, Bridge!sidecarVars, BridgeInv, BridgeTypes, LockInv,
     OwnerInv
<1>2. LockInv'
  BY DEF Bridge!Tell, Bridge!Tell, Bridge!fixed, Bridge!ownerVars, Bridge!bridgeVars,
     Bridge!dockerVars, Bridge!workerVars, Bridge!sidecarVars, BridgeInv, BridgeTypes, LockInv,
     OwnerInv
<1>3. RanInv'
  BY DEF Bridge!Tell, Bridge!Tell, Bridge!fixed, Bridge!ownerVars, Bridge!bridgeVars,
     Bridge!dockerVars, Bridge!workerVars, Bridge!sidecarVars, BridgeInv, BridgeTypes, LockInv,
     OwnerInv, RanInv, RanOk, NeverAgain
<1>4. OwnerInv'
  BY DEF Bridge!Tell, Bridge!Tell, Bridge!fixed, Bridge!ownerVars, Bridge!bridgeVars,
     Bridge!dockerVars, Bridge!workerVars, Bridge!sidecarVars, BridgeInv, BridgeTypes, LockInv,
     OwnerInv
<1> QED
  BY <1>1, <1>2, <1>3, <1>4 DEF BridgeInv

\* TellDrain keeps the invariant.
LEMMA TellDrainStep ==
    ASSUME Bridge!BridgeAssumption, BridgeInv, Bridge!Tell("drain", "close")
    PROVE  BridgeInv'
<1>1. BridgeTypes'
  BY DEF Bridge!Tell, Bridge!Tell, Bridge!fixed, Bridge!ownerVars, Bridge!bridgeVars,
     Bridge!dockerVars, Bridge!workerVars, Bridge!sidecarVars, BridgeInv, BridgeTypes, LockInv,
     OwnerInv
<1>2. LockInv'
  BY DEF Bridge!Tell, Bridge!Tell, Bridge!fixed, Bridge!ownerVars, Bridge!bridgeVars,
     Bridge!dockerVars, Bridge!workerVars, Bridge!sidecarVars, BridgeInv, BridgeTypes, LockInv,
     OwnerInv
<1>3. RanInv'
  BY DEF Bridge!Tell, Bridge!Tell, Bridge!fixed, Bridge!ownerVars, Bridge!bridgeVars,
     Bridge!dockerVars, Bridge!workerVars, Bridge!sidecarVars, BridgeInv, BridgeTypes, LockInv,
     OwnerInv, RanInv, RanOk, NeverAgain
<1>4. OwnerInv'
  BY DEF Bridge!Tell, Bridge!Tell, Bridge!fixed, Bridge!ownerVars, Bridge!bridgeVars,
     Bridge!dockerVars, Bridge!workerVars, Bridge!sidecarVars, BridgeInv, BridgeTypes, LockInv,
     OwnerInv
<1> QED
  BY <1>1, <1>2, <1>3, <1>4 DEF BridgeInv

\* ReleaseScope keeps the invariant.
LEMMA ReleaseScopeStep ==
    ASSUME Bridge!BridgeAssumption, BridgeInv, Bridge!ReleaseScope
    PROVE  BridgeInv'
<1>1. BridgeTypes'
  BY DEF Bridge!ReleaseScope, Bridge!DeletesScope, Bridge!fixed, Bridge!ownerVars,
     Bridge!bridgeVars, Bridge!dockerVars, Bridge!workerVars, Bridge!sidecarVars, BridgeInv,
     BridgeTypes, LockInv, OwnerInv
<1>2. LockInv'
  BY DEF Bridge!ReleaseScope, Bridge!DeletesScope, Bridge!fixed, Bridge!ownerVars,
     Bridge!bridgeVars, Bridge!dockerVars, Bridge!workerVars, Bridge!sidecarVars, BridgeInv,
     BridgeTypes, LockInv, OwnerInv
<1>3. RanInv'
  BY DEF Bridge!ReleaseScope, Bridge!DeletesScope, Bridge!fixed, Bridge!ownerVars,
     Bridge!bridgeVars, Bridge!dockerVars, Bridge!workerVars, Bridge!sidecarVars, BridgeInv,
     BridgeTypes, LockInv, OwnerInv, RanInv, RanOk, NeverAgain
<1>4. OwnerInv'
  BY DEF Bridge!ReleaseScope, Bridge!DeletesScope, Bridge!fixed, Bridge!ownerVars,
     Bridge!bridgeVars, Bridge!dockerVars, Bridge!workerVars, Bridge!sidecarVars, BridgeInv,
     BridgeTypes, LockInv, OwnerInv
<1> QED
  BY <1>1, <1>2, <1>3, <1>4 DEF BridgeInv

\* Late keeps the invariant.
LEMMA LateStep ==
    ASSUME Bridge!BridgeAssumption, BridgeInv, Bridge!Late
    PROVE  BridgeInv'
<1>1. BridgeTypes'
  BY DEF Bridge!Late, Bridge!fixed, Bridge!ownerVars, Bridge!bridgeVars, Bridge!dockerVars,
     Bridge!workerVars, Bridge!sidecarVars, BridgeInv, BridgeTypes, LockInv, OwnerInv
<1>2. LockInv'
  BY DEF Bridge!Late, Bridge!fixed, Bridge!ownerVars, Bridge!bridgeVars, Bridge!dockerVars,
     Bridge!workerVars, Bridge!sidecarVars, BridgeInv, BridgeTypes, LockInv, OwnerInv
<1>3. RanInv'
  BY DEF Bridge!Late, Bridge!fixed, Bridge!ownerVars, Bridge!bridgeVars, Bridge!dockerVars,
     Bridge!workerVars, Bridge!sidecarVars, BridgeInv, BridgeTypes, LockInv, OwnerInv, RanInv,
     RanOk, NeverAgain
<1>4. OwnerInv'
  BY ZenonT(40) DEF Bridge!Late, Bridge!fixed, Bridge!ownerVars, Bridge!bridgeVars, Bridge!dockerVars,
     Bridge!workerVars, Bridge!sidecarVars, BridgeInv, BridgeTypes, LockInv, OwnerInv
<1> QED
  BY <1>1, <1>2, <1>3, <1>4 DEF BridgeInv

\* WorkerDies keeps the invariant.
LEMMA WorkerDiesStep ==
    ASSUME Bridge!BridgeAssumption, BridgeInv, Bridge!WorkerDies
    PROVE  BridgeInv'
<1>1. BridgeTypes'
  BY DEF Bridge!WorkerDies, Bridge!fixed, Bridge!ownerVars, Bridge!bridgeVars,
     Bridge!dockerVars, Bridge!workerVars, Bridge!sidecarVars, BridgeInv, BridgeTypes, LockInv,
     OwnerInv
<1>2. LockInv'
  BY DEF Bridge!WorkerDies, Bridge!fixed, Bridge!ownerVars, Bridge!bridgeVars,
     Bridge!dockerVars, Bridge!workerVars, Bridge!sidecarVars, BridgeInv, BridgeTypes, LockInv,
     OwnerInv
<1>3. RanInv'
  BY DEF Bridge!WorkerDies, Bridge!fixed, Bridge!ownerVars, Bridge!bridgeVars,
     Bridge!dockerVars, Bridge!workerVars, Bridge!sidecarVars, BridgeInv, BridgeTypes, LockInv,
     OwnerInv, RanInv, RanOk, NeverAgain
<1>4. OwnerInv'
  BY DEF Bridge!WorkerDies, Bridge!fixed, Bridge!ownerVars, Bridge!bridgeVars,
     Bridge!dockerVars, Bridge!workerVars, Bridge!sidecarVars, BridgeInv, BridgeTypes, LockInv,
     OwnerInv
<1> QED
  BY <1>1, <1>2, <1>3, <1>4 DEF BridgeInv

\* Arrive keeps the invariant.
LEMMA ArriveStep ==
    ASSUME Bridge!BridgeAssumption, BridgeInv, NEW c \in Requests, Bridge!Arrive(c)
    PROVE  BridgeInv'
<1>1. BridgeTypes'
  BY DEF Bridge!Arrive, Bridge!fixed, Bridge!ownerVars, Bridge!bridgeVars, Bridge!dockerVars,
     Bridge!workerVars, Bridge!sidecarVars, BridgeInv, BridgeTypes, LockInv, OwnerInv
<1>2. LockInv'
  BY DEF Bridge!Arrive, Bridge!fixed, Bridge!ownerVars, Bridge!bridgeVars, Bridge!dockerVars,
     Bridge!workerVars, Bridge!sidecarVars, BridgeInv, BridgeTypes, LockInv, OwnerInv
<1>3. RanInv'
  BY DEF Bridge!Arrive, Bridge!fixed, Bridge!ownerVars, Bridge!bridgeVars, Bridge!dockerVars,
     Bridge!workerVars, Bridge!sidecarVars, BridgeInv, BridgeTypes, LockInv, OwnerInv, RanInv,
     RanOk, NeverAgain
<1>4. OwnerInv'
  BY DEF Bridge!Arrive, Bridge!fixed, Bridge!ownerVars, Bridge!bridgeVars, Bridge!dockerVars,
     Bridge!workerVars, Bridge!sidecarVars, BridgeInv, BridgeTypes, LockInv, OwnerInv
<1> QED
  BY <1>1, <1>2, <1>3, <1>4 DEF BridgeInv

\* Enter keeps the invariant.
LEMMA EnterStep ==
    ASSUME Bridge!BridgeAssumption, BridgeInv, NEW c \in Requests, Bridge!Enter(c)
    PROVE  BridgeInv'
<1>1. BridgeTypes'
  BY DEF Bridge!Enter, Bridge!Known, Bridge!Goto, Bridge!fixed, Bridge!ownerVars,
     Bridge!bridgeVars, Bridge!dockerVars, Bridge!workerVars, Bridge!sidecarVars, BridgeInv,
     BridgeTypes, LockInv, OwnerInv
<1>2. LockInv'
  <2>1. handler[c] = "waits" /\ lock = Nobody /\ UNCHANGED <<form, gate, answered>>
        /\ \A d \in Requests : handler[d] \notin Busy
    BY DEF Bridge!Enter, Bridge!fixed, Bridge!dockerVars, BridgeInv, BridgeTypes, LockInv
  <2>2. CASE closing \/ c \in answered
    <3>1. handler' = [handler EXCEPT ![c] = "over"] /\ lock' = lock
      BY <2>2 DEF Bridge!Enter, Bridge!Known, Bridge!Goto
    <3> QED
      BY <2>1, <3>1 DEF BridgeInv, BridgeTypes, LockInv
  <2>3. CASE ~(closing \/ c \in answered)
    <3>1. lock' = c /\ handler' = [handler EXCEPT ![c] =
             IF form = "functions" THEN "send" ELSE IF gate THEN "gate" ELSE "plain"]
      BY <2>3 DEF Bridge!Enter, Bridge!Known, Bridge!Goto
    <3>2. \A d \in Requests : d # c => handler'[d] = handler[d] /\ handler[d] \notin Busy
      BY <2>1, <3>1 DEF BridgeInv, BridgeTypes
    <3>3. handler'[c] = IF form = "functions" THEN "send" ELSE IF gate THEN "gate" ELSE "plain"
      BY <3>1 DEF BridgeInv, BridgeTypes
    <3>4. form \in {"terminal", "functions"}
      BY DEF BridgeInv, BridgeTypes
    <3>5. \A d \in Requests : handler'[d] \in Busy <=> lock' = d
      BY <3>1, <3>2, <3>3
    <3>6. ASSUME NEW d \in Requests, handler'[d] \in Busy
          PROVE  /\ d \notin answered' /\ (handler'[d] \in Gated => gate')
                 /\ handler'[d] \in Gated \cup Ungated => form' = "terminal"
                 /\ handler'[d] \in Remote => form' = "functions"
      <4>1. d = c /\ handler'[c] = IF form = "functions" THEN "send"
                ELSE IF gate THEN "gate" ELSE "plain"
        BY <3>1, <3>3, <3>5, <3>6
      <4>2. gate' = gate /\ form' = form /\ answered' = answered /\ c \notin answered
        BY <2>1, <2>3
      <4> QED
        BY <3>4, <4>1, <4>2
    <3> QED
      BY <3>5, <3>6 DEF LockInv
  <2> QED
    BY <2>2, <2>3
<1>3. RanInv'
  <2>1. /\ handler[c] = "waits"
        /\ UNCHANGED <<Bridge!fixed, Bridge!ownerVars, answered, Bridge!dockerVars,
               Bridge!workerVars>>
        /\ handler' = [handler EXCEPT ![c] = handler'[c]]
        /\ handler'[c] = IF closing \/ c \in answered THEN "over" ELSE
                         IF form = "functions" THEN "send" ELSE IF gate THEN "gate" ELSE "plain"
    BY DEF Bridge!Enter, Bridge!Known, Bridge!Goto, BridgeInv, BridgeTypes
  <2>2. ASSUME NEW d \in Requests, d # c PROVE RanOk(d)'
    <3>1. handler'[d] = handler[d]
      BY <2>1, <2>2 DEF BridgeInv, BridgeTypes
    <3> QED
      BY <2>1, <2>2, <3>1, OtherRan DEF BridgeInv, Bridge!fixed, Bridge!ownerVars,
         Bridge!dockerVars, Bridge!workerVars
  <2>3. RanOk(c)'
    <3>1. NeverAgain(c) => NeverAgain(c)' \/ c \in answered
      BY <2>1 DEF NeverAgain, Bridge!fixed, Bridge!ownerVars, Bridge!dockerVars,
         Bridge!workerVars
    <3> QED
      BY <2>1, <3>1 DEF BridgeInv, RanInv, RanOk, Bridge!fixed, Bridge!ownerVars,
         Bridge!dockerVars, Bridge!workerVars
  <2> QED
    BY <2>2, <2>3 DEF RanInv
<1>4. OwnerInv'
  BY DEF Bridge!Enter, Bridge!Known, Bridge!Goto, Bridge!fixed, Bridge!ownerVars,
     Bridge!bridgeVars, Bridge!dockerVars, Bridge!workerVars, Bridge!sidecarVars, BridgeInv,
     BridgeTypes, LockInv, OwnerInv
<1> QED
  BY <1>1, <1>2, <1>3, <1>4 DEF BridgeInv

\* Gate keeps the invariant.
LEMMA GateStep ==
    ASSUME Bridge!BridgeAssumption, BridgeInv, NEW c \in Requests, Bridge!Gate(c)
    PROVE  BridgeInv'
<1>1. BridgeTypes'
  BY DEF Bridge!Gate, Bridge!Goto, Bridge!Over, Bridge!fixed, Bridge!ownerVars,
     Bridge!bridgeVars, Bridge!dockerVars, Bridge!workerVars, Bridge!sidecarVars, BridgeInv,
     BridgeTypes, LockInv, OwnerInv
<1>2. LockInv'
  <2>1. lock = c
    BY DEF Bridge!Gate, BridgeInv, LockInv
  <2>2. Bridge!Over(c, FALSE) \/ HandlerAt(c, "gated") \/ HandlerAt(c, "plain")
    <3>1. handler[c] = "gate" /\ gate /\ form' = form
      BY DEF Bridge!Gate, Bridge!fixed, BridgeInv, LockInv
    <3> QED
      BY <3>1 DEF Bridge!Gate, Bridge!Goto, HandlerAt
  <2>3. Bridge!Over(c, FALSE) /\ UNCHANGED <<gate, form>> => LockInv'
    BY <2>1, LockOver DEF BridgeInv
  <2> QED
    BY <2>1, <2>2, <2>3, LockGoes, LockOver DEF BridgeInv
<1>3. RanInv'
  <2>1. /\ UNCHANGED <<Bridge!fixed, Bridge!ownerVars, ran, lost, container,
               Bridge!workerVars>> /\ answered' = answered
        /\ handler[c] = "gate" /\ (gate' = gate \/ ~tooLate)
        /\ \/ tooLate /\ handler' = [handler EXCEPT ![c] = "over"] /\ gate' = gate
           \/ ~tooLate /\ container = "up" /\ handler' = [handler EXCEPT ![c] = "gated"]
           \/ ~tooLate /\ handler' = [handler EXCEPT ![c] = "plain"]
    BY DEF Bridge!Gate, Bridge!Goto, Bridge!Over
  <2>2. ASSUME NEW d \in Requests, d # c PROVE RanOk(d)'
    <3>1. handler'[d] = handler[d]
      BY <2>1, <2>2 DEF BridgeInv, BridgeTypes
    <3> QED
      BY <2>1, <2>2, <3>1, OtherRan DEF BridgeInv, Bridge!fixed, Bridge!ownerVars,
         Bridge!workerVars
  <2>3. RanOk(c)'
    <3>1. /\ tooLate => handler'[c] = "over" /\ gate' = gate
          /\ form = "terminal"
      BY <2>1 DEF BridgeInv, BridgeTypes, LockInv
    <3>2. NeverAgain(c) => NeverAgain(c)'
      BY <2>1, <3>1 DEF NeverAgain, Bridge!fixed, Bridge!ownerVars, Bridge!workerVars
    <3> QED
      BY <2>1, <3>2 DEF BridgeInv, RanInv, RanOk
  <2> QED
    BY <2>2, <2>3 DEF RanInv
<1>4. OwnerInv'
  BY DEF Bridge!Gate, Bridge!Goto, Bridge!Over, Bridge!fixed, Bridge!ownerVars,
     Bridge!bridgeVars, Bridge!dockerVars, Bridge!workerVars, Bridge!sidecarVars, BridgeInv,
     BridgeTypes, LockInv, OwnerInv
<1> QED
  BY <1>1, <1>2, <1>3, <1>4 DEF BridgeInv

\* Release keeps the invariant.
LEMMA ReleaseStep ==
    ASSUME Bridge!BridgeAssumption, BridgeInv, NEW c \in Requests, Bridge!Release(c)
    PROVE  BridgeInv'
<1>1. LockInv' /\ handler' \in [Requests -> {"none", "waits", "over"} \cup Busy]
          /\ answered' \in SUBSET Requests
  <2>1. lock = c /\ form' = form /\ gate' = gate
    BY DEF Bridge!Release, Bridge!fixed, Bridge!dockerVars, BridgeInv, LockInv
  <2>2. Bridge!Over(c, FALSE) \/ HandlerAt(c, "runs")
    BY DEF Bridge!Release, Bridge!Goto, HandlerAt, Bridge!fixed, BridgeInv, LockInv
  <2>3. answered \in SUBSET Requests
    BY DEF BridgeInv, BridgeTypes
  <2> QED
    BY <2>1, <2>2, <2>3, LockGoes, LockOver DEF BridgeInv, HandlerAt
<1>2. BridgeTypes'
  <2>1. /\ payload' \in {[payload EXCEPT ![c] = "none"], [payload EXCEPT ![c] = "alive"]}
        /\ ran' \in {ran, [ran EXCEPT ![c] = @ + 1]}
        /\ UNCHANGED <<Bridge!fixed, Bridge!ownerVars, lost, container, Bridge!workerVars>>
    BY DEF Bridge!Release, Bridge!Starts, Bridge!Stopped
  <2>2. payload' \in [Requests -> {"none", "gated", "alive"}] /\ ran' \in [Requests -> Nat]
    <3>1. ran[c] + 1 \in Nat
      <4>1. ran[c] \in Nat
        BY DEF BridgeInv, BridgeTypes
      <4> QED
        BY <4>1
    <3> QED
      BY <2>1, <3>1 DEF BridgeInv, BridgeTypes
  <2> QED
    BY <1>1, <2>1, <2>2 DEF Bridge!fixed, Bridge!ownerVars, Bridge!workerVars, BridgeInv,
       BridgeTypes
<1>3. RanInv'
  <2>1. /\ UNCHANGED <<Bridge!fixed, Bridge!ownerVars, gate, lost, container,
               Bridge!workerVars>> /\ handler[c] = "gated"
        /\ handler' = [handler EXCEPT ![c] = handler'[c]] /\ answered \subseteq answered'
        /\ \/ ran' = ran /\ handler'[c] = "over"
           \/ /\ ~tooLate /\ ~closing
              /\ payload[c] # "none" /\ handler'[c] = "runs" /\ ran' = [ran EXCEPT ![c] = @ + 1]
    BY DEF Bridge!Release, Bridge!Goto, Bridge!Over, Bridge!Starts, Bridge!Interrupted,
       BridgeInv, BridgeTypes
  <2>2. ASSUME NEW d \in Requests, d # c PROVE RanOk(d)'
    <3>1. handler'[d] = handler[d] /\ ran'[d] = ran[d]
      BY <2>1, <2>2 DEF BridgeInv, BridgeTypes
    <3> QED
      BY <2>1, <2>2, <3>1, OtherRan DEF BridgeInv, Bridge!fixed, Bridge!ownerVars,
         Bridge!workerVars
  <2>3. RanOk(c)'
    <3>1. RanOk(c) /\ c \notin answered /\ ran[c] \in Nat /\ handler[c] \notin Executing
      BY <2>1 DEF BridgeInv, BridgeTypes, RanInv, LockInv
    <3>2. CASE ran' = ran /\ handler'[c] = "over"
      BY <2>1, <3>1, <3>2 DEF RanOk, NeverAgain, Bridge!fixed, Bridge!ownerVars,
         Bridge!workerVars
    <3>3. CASE ~tooLate /\ ~closing /\ payload[c] # "none" /\ handler'[c] = "runs"
              /\ ran' = [ran EXCEPT ![c] = @ + 1]
      <4>1. /\ ~tooLate /\ ~closing /\ payload[c] # "none"
            /\ handler'[c] = "runs" /\ ran'[c] = ran[c] + 1
        BY <2>1, <3>3 DEF BridgeInv, BridgeTypes
      <4>2. ~NeverAgain(c)
        BY <2>1, <4>1 DEF NeverAgain, BridgeInv, LockInv, OwnerInv
      <4>3. c \in lost \/ ran[c] = 0
        <5>1. c \in lost \/ (ran[c] <= 1 /\ ran[c] # 1)
          BY <3>1, <4>2, Zenon DEF RanOk
        <5>2. ran[c] \in Nat
          BY <3>1
        <5> QED
          BY <5>1, <5>2
      <4>4. lost' = lost
        BY <2>1
      <4>5. c \in lost' \/ ran'[c] = 1
        <5>1. ran'[c] = ran[c] + 1
          BY <4>1
        <5>2. 0 + 1 = 1
          OBVIOUS
        <5> QED
          BY <4>3, <4>4, <5>1, <5>2
      <4>6. ran'[c] = 1 => ran'[c] <= 1
        OBVIOUS
      <4>7. handler'[c] \in Executing
        BY <4>1
      <4> QED
        BY <4>5, <4>6, <4>7 DEF RanOk
    <3> QED
      BY <2>1, <3>2, <3>3
  <2> QED
    BY <2>2, <2>3 DEF RanInv
<1>4. OwnerInv'
  BY ZenonT(40) DEF Bridge!Release, Bridge!Goto, Bridge!Over, Bridge!Starts, Bridge!Stopped,
     Bridge!Interrupted, Bridge!fixed, Bridge!ownerVars, Bridge!bridgeVars, Bridge!dockerVars,
     Bridge!workerVars, Bridge!sidecarVars, BridgeInv, BridgeTypes, LockInv, OwnerInv
<1> QED
  BY <1>1, <1>2, <1>3, <1>4 DEF BridgeInv

\* Plain keeps the invariant.
LEMMA PlainStep ==
    ASSUME Bridge!BridgeAssumption, BridgeInv, NEW c \in Requests, Bridge!Plain(c)
    PROVE  BridgeInv'
<1>1. LockInv' /\ handler' \in [Requests -> {"none", "waits", "over"} \cup Busy]
          /\ answered' \in SUBSET Requests
  <2>1. lock = c /\ form' = form /\ gate' = gate
    BY DEF Bridge!Plain, Bridge!fixed, Bridge!dockerVars, BridgeInv, LockInv
  <2>2. Bridge!Over(c, TRUE) \/ HandlerAt(c, "plain runs")
    BY DEF Bridge!Plain, Bridge!Goto, HandlerAt, Bridge!fixed, BridgeInv, LockInv
  <2>3. answered \in SUBSET Requests
    BY DEF BridgeInv, BridgeTypes
  <2> QED
    BY <2>1, <2>2, <2>3, LockGoes, LockOver DEF BridgeInv, HandlerAt
<1>2. BridgeTypes'
  <2>1. /\ payload' \in {payload, [payload EXCEPT ![c] = "alive"]}
        /\ ran' \in {ran, [ran EXCEPT ![c] = @ + 1]}
        /\ UNCHANGED <<Bridge!fixed, Bridge!ownerVars, lost, container, Bridge!workerVars>>
    BY DEF Bridge!Plain, Bridge!Starts
  <2>2. payload' \in [Requests -> {"none", "gated", "alive"}] /\ ran' \in [Requests -> Nat]
    <3>1. ran[c] + 1 \in Nat
      <4>1. ran[c] \in Nat
        BY DEF BridgeInv, BridgeTypes
      <4> QED
        BY <4>1
    <3> QED
      BY <2>1, <3>1 DEF BridgeInv, BridgeTypes
  <2> QED
    BY <1>1, <2>1, <2>2 DEF Bridge!fixed, Bridge!ownerVars, Bridge!workerVars, BridgeInv,
       BridgeTypes
<1>3. RanInv'
  <2>1. /\ UNCHANGED <<Bridge!fixed, Bridge!ownerVars, gate, lost, container,
               Bridge!workerVars>> /\ handler[c] = "plain"
        /\ handler' = [handler EXCEPT ![c] = handler'[c]] /\ answered \subseteq answered'
        /\ \/ ran' = ran /\ handler'[c] = "over" /\ c \in answered'
           \/ /\ container = "up"
              /\ handler'[c] = "plain runs" /\ ran' = [ran EXCEPT ![c] = @ + 1]
    BY DEF Bridge!Plain, Bridge!Goto, Bridge!Over, Bridge!Starts, Bridge!Interrupted,
       BridgeInv, BridgeTypes
  <2>2. ASSUME NEW d \in Requests, d # c PROVE RanOk(d)'
    <3>1. handler'[d] = handler[d] /\ ran'[d] = ran[d]
      BY <2>1, <2>2 DEF BridgeInv, BridgeTypes
    <3> QED
      BY <2>1, <2>2, <3>1, OtherRan DEF BridgeInv, Bridge!fixed, Bridge!ownerVars,
         Bridge!workerVars
  <2>3. RanOk(c)'
    <3>1. RanOk(c) /\ c \notin answered /\ ran[c] \in Nat /\ handler[c] \notin Executing
      BY <2>1 DEF BridgeInv, BridgeTypes, RanInv, LockInv
    <3>2. CASE ran' = ran /\ handler'[c] = "over" /\ c \in answered'
      BY <2>1, <3>1, <3>2 DEF RanOk, NeverAgain, Bridge!fixed, Bridge!ownerVars,
         Bridge!workerVars
    <3>3. CASE container = "up" /\ handler'[c] = "plain runs"
              /\ ran' = [ran EXCEPT ![c] = @ + 1]
      <4>1. /\ container = "up"
            /\ handler'[c] = "plain runs" /\ ran'[c] = ran[c] + 1
        BY <2>1, <3>3 DEF BridgeInv, BridgeTypes
      <4>2. ~NeverAgain(c)
        BY <2>1, <4>1 DEF NeverAgain, BridgeInv, LockInv, OwnerInv
      <4>3. c \in lost \/ ran[c] = 0
        <5>1. c \in lost \/ (ran[c] <= 1 /\ ran[c] # 1)
          BY <3>1, <4>2, Zenon DEF RanOk
        <5>2. ran[c] \in Nat
          BY <3>1
        <5> QED
          BY <5>1, <5>2
      <4>4. lost' = lost
        BY <2>1
      <4>5. c \in lost' \/ ran'[c] = 1
        <5>1. ran'[c] = ran[c] + 1
          BY <4>1
        <5>2. 0 + 1 = 1
          OBVIOUS
        <5> QED
          BY <4>3, <4>4, <5>1, <5>2
      <4>6. ran'[c] = 1 => ran'[c] <= 1
        OBVIOUS
      <4>7. handler'[c] \in Executing
        BY <4>1
      <4> QED
        BY <4>5, <4>6, <4>7 DEF RanOk
    <3> QED
      BY <2>1, <3>2, <3>3
  <2> QED
    BY <2>2, <2>3 DEF RanInv
<1>4. OwnerInv'
  BY DEF Bridge!Plain, Bridge!Goto, Bridge!Over, Bridge!Starts, Bridge!fixed, Bridge!ownerVars,
     Bridge!bridgeVars, Bridge!dockerVars, Bridge!workerVars, Bridge!sidecarVars, BridgeInv,
     BridgeTypes, LockInv, OwnerInv
<1> QED
  BY <1>1, <1>2, <1>3, <1>4 DEF BridgeInv

\* Finish keeps the invariant.
LEMMA FinishStep ==
    ASSUME Bridge!BridgeAssumption, BridgeInv, NEW c \in Requests, Bridge!Finish(c)
    PROVE  BridgeInv'
<1>1. LockInv' /\ handler' \in [Requests -> {"none", "waits", "over"} \cup Busy]
          /\ answered' \in SUBSET Requests
  <2>1. lock = c /\ form' = form /\ gate' = gate
    BY DEF Bridge!Finish, Bridge!fixed, Bridge!dockerVars, BridgeInv, LockInv
  <2>2. Bridge!Over(c, TRUE) \/ Bridge!Over(c, FALSE)
    BY DEF Bridge!Finish, Bridge!Goto, HandlerAt, Bridge!fixed, BridgeInv, LockInv
  <2>3. answered \in SUBSET Requests
    BY DEF BridgeInv, BridgeTypes
  <2> QED
    BY <2>1, <2>2, <2>3, LockGoes, LockOver DEF BridgeInv, HandlerAt
<1>2. BridgeTypes'
  <2>1. /\ \E ok \in BOOLEAN : lost' = IF ok THEN lost ELSE lost \cup {c}
        /\ container' \in {container, "stopped"}
        /\ payload' \in {payload, [d \in Requests |-> "none"]}
        /\ UNCHANGED <<Bridge!fixed, Bridge!ownerVars, gate, ran, Bridge!workerVars>>
    BY DEF Bridge!Finish, Bridge!ContainerStops, Bridge!SameContainer
  <2>2. payload' \in [Requests -> {"none", "gated", "alive"}] /\ lost' \in SUBSET Requests
    BY <2>1 DEF BridgeInv, BridgeTypes
  <2> QED
    BY <1>1, <2>1, <2>2, ZenonT(40) DEF Bridge!fixed, Bridge!ownerVars, Bridge!workerVars, BridgeInv,
       BridgeTypes
<1>3. RanInv'
  <2>1. PICK ok \in BOOLEAN : Bridge!Over(c, ok) /\ lost' = IF ok THEN lost ELSE lost \cup {c}
    BY DEF Bridge!Finish
  <2>2. /\ UNCHANGED <<Bridge!fixed, Bridge!ownerVars, gate, ran, Bridge!workerVars>>
        /\ lost \subseteq lost'
        /\ container' # container => container' # "up"
        /\ answered' = (IF ok THEN answered \cup {c} ELSE answered)
               /\ handler' = [handler EXCEPT ![c] = "over"]
    BY <2>1 DEF Bridge!Finish, Bridge!Over, Bridge!Goto, Bridge!ContainerStops,
       Bridge!SameContainer
  <2>3. ASSUME NEW d \in Requests, d # c PROVE RanOk(d)'
    <3>1. handler'[d] = handler[d]
      BY <2>2, <2>3 DEF BridgeInv, BridgeTypes
    <3>2. answered \subseteq answered'
      BY <2>2
    <3> QED
      BY <2>2, <2>3, <3>1, <3>2, OtherRan DEF BridgeInv, Bridge!fixed, Bridge!ownerVars,
         Bridge!workerVars
  <2>4. RanOk(c)'
    <3>1. RanOk(c)
      BY DEF BridgeInv, RanInv
    <3>2. c \in answered' \/ c \in lost'
      BY <2>1, <2>2
    <3>3. c \in lost => c \in lost'
      BY <2>2
    <3>4. ran' = ran
      BY <2>2
    <3> QED
      BY <3>1, <3>2, <3>3, <3>4 DEF RanOk
  <2> QED
    BY <2>3, <2>4 DEF RanInv
<1>4. OwnerInv'
  BY ZenonT(40) DEF Bridge!Finish, Bridge!Over, Bridge!Goto, Bridge!ContainerStops, Bridge!SameContainer,
     Bridge!fixed, Bridge!ownerVars, Bridge!bridgeVars, Bridge!dockerVars, Bridge!workerVars,
     Bridge!sidecarVars, BridgeInv, BridgeTypes, LockInv, OwnerInv
<1> QED
  BY <1>1, <1>2, <1>3, <1>4 DEF BridgeInv

\* Abort keeps the invariant.
LEMMA AbortStep ==
    ASSUME Bridge!BridgeAssumption, BridgeInv, NEW c \in Requests, Bridge!Abort(c)
    PROVE  BridgeInv'
<1>1. BridgeTypes'
  BY ZenonT(40) DEF Bridge!Abort, Bridge!Over, Bridge!Goto, Bridge!Interrupted, Bridge!SameContainer,
     Bridge!ContainerStops, Bridge!Stopped, Bridge!fixed, Bridge!ownerVars, Bridge!bridgeVars,
     Bridge!dockerVars, Bridge!workerVars, Bridge!sidecarVars, BridgeInv, BridgeTypes, LockInv,
     OwnerInv
<1>2. LockInv'
  BY DEF Bridge!Abort, Bridge!Over, Bridge!Goto, Bridge!Interrupted, Bridge!SameContainer,
     Bridge!ContainerStops, Bridge!Stopped, Bridge!fixed, Bridge!ownerVars, Bridge!bridgeVars,
     Bridge!dockerVars, Bridge!workerVars, Bridge!sidecarVars, BridgeInv, BridgeTypes, LockInv,
     OwnerInv
<1>3. RanInv'
  BY ZenonT(40) DEF Bridge!Abort, Bridge!Over, Bridge!Goto, Bridge!Interrupted, Bridge!SameContainer,
     Bridge!ContainerStops, Bridge!Stopped, Bridge!fixed, Bridge!ownerVars, Bridge!bridgeVars,
     Bridge!dockerVars, Bridge!workerVars, Bridge!sidecarVars, BridgeInv, BridgeTypes, LockInv,
     OwnerInv, RanInv, RanOk, NeverAgain
<1>4. OwnerInv'
  BY ZenonT(40) DEF Bridge!Abort, Bridge!Over, Bridge!Goto, Bridge!Interrupted, Bridge!SameContainer,
     Bridge!ContainerStops, Bridge!Stopped, Bridge!fixed, Bridge!ownerVars, Bridge!bridgeVars,
     Bridge!dockerVars, Bridge!workerVars, Bridge!sidecarVars, BridgeInv, BridgeTypes, LockInv,
     OwnerInv
<1> QED
  BY <1>1, <1>2, <1>3, <1>4 DEF BridgeInv

\* Serve keeps the invariant.
LEMMA ServeStep ==
    ASSUME Bridge!BridgeAssumption, BridgeInv, NEW c \in Requests, Bridge!Serve(c)
    PROVE  BridgeInv'
<1>1. LockInv' /\ handler' \in [Requests -> {"none", "waits", "over"} \cup Busy]
          /\ answered' \in SUBSET Requests
  <2>1. lock = c /\ form' = form /\ gate' = gate
    BY DEF Bridge!Serve, Bridge!fixed, Bridge!dockerVars, BridgeInv, LockInv
  <2>2. Bridge!Over(c, FALSE) \/ HandlerAt(c, "served")
    BY DEF Bridge!Serve, Bridge!Goto, HandlerAt, Bridge!fixed, BridgeInv, LockInv
  <2>3. answered \in SUBSET Requests
    BY DEF BridgeInv, BridgeTypes
  <2> QED
    BY <2>1, <2>2, <2>3, LockGoes, LockOver DEF BridgeInv, HandlerAt
<1>2. BridgeTypes'
  <2>1. ran' \in {ran, [ran EXCEPT ![c] = @ + 1]} /\ UNCHANGED <<Bridge!fixed,
            Bridge!ownerVars, payload, lost, container, Bridge!workerVars>>
    BY DEF Bridge!Serve
  <2>2. ran' \in [Requests -> Nat]
    <3>1. ran[c] + 1 \in Nat
      <4>1. ran[c] \in Nat
        BY DEF BridgeInv, BridgeTypes
      <4> QED
        BY <4>1
    <3> QED
      BY <2>1, <3>1 DEF BridgeInv, BridgeTypes
  <2> QED
    BY <1>1, <2>1, <2>2 DEF Bridge!fixed, Bridge!ownerVars, Bridge!workerVars, BridgeInv,
       BridgeTypes
<1>3. RanInv'
  <2>1. /\ UNCHANGED <<Bridge!fixed, Bridge!ownerVars, gate, lost, container,
               Bridge!workerVars>> /\ handler[c] = "send"
        /\ handler' = [handler EXCEPT ![c] = handler'[c]] /\ answered \subseteq answered'
        /\ \/ ran' = ran /\ handler'[c] = "over"
           \/ /\ toolWorker = "ready"
              /\ handler'[c] = "served" /\ ran' = [ran EXCEPT ![c] = @ + 1]
    BY DEF Bridge!Serve, Bridge!Goto, Bridge!Over, Bridge!Starts, Bridge!Interrupted,
       BridgeInv, BridgeTypes
  <2>2. ASSUME NEW d \in Requests, d # c PROVE RanOk(d)'
    <3>1. handler'[d] = handler[d] /\ ran'[d] = ran[d]
      BY <2>1, <2>2 DEF BridgeInv, BridgeTypes
    <3> QED
      BY <2>1, <2>2, <3>1, OtherRan DEF BridgeInv, Bridge!fixed, Bridge!ownerVars,
         Bridge!workerVars
  <2>3. RanOk(c)'
    <3>1. RanOk(c) /\ c \notin answered /\ ran[c] \in Nat /\ handler[c] \notin Executing
      BY <2>1 DEF BridgeInv, BridgeTypes, RanInv, LockInv
    <3>2. CASE ran' = ran /\ handler'[c] = "over"
      BY <2>1, <3>1, <3>2 DEF RanOk, NeverAgain, Bridge!fixed, Bridge!ownerVars,
         Bridge!workerVars
    <3>3. CASE toolWorker = "ready" /\ handler'[c] = "served"
              /\ ran' = [ran EXCEPT ![c] = @ + 1]
      <4>1. /\ toolWorker = "ready"
            /\ handler'[c] = "served" /\ ran'[c] = ran[c] + 1
        BY <2>1, <3>3 DEF BridgeInv, BridgeTypes
      <4>2. ~NeverAgain(c)
        BY <2>1, <4>1 DEF NeverAgain, BridgeInv, LockInv, OwnerInv
      <4>3. c \in lost \/ ran[c] = 0
        <5>1. c \in lost \/ (ran[c] <= 1 /\ ran[c] # 1)
          BY <3>1, <4>2, Zenon DEF RanOk
        <5>2. ran[c] \in Nat
          BY <3>1
        <5> QED
          BY <5>1, <5>2
      <4>4. lost' = lost
        BY <2>1
      <4>5. c \in lost' \/ ran'[c] = 1
        <5>1. ran'[c] = ran[c] + 1
          BY <4>1
        <5>2. 0 + 1 = 1
          OBVIOUS
        <5> QED
          BY <4>3, <4>4, <5>1, <5>2
      <4>6. ran'[c] = 1 => ran'[c] <= 1
        OBVIOUS
      <4>7. handler'[c] \in Executing
        BY <4>1
      <4> QED
        BY <4>5, <4>6, <4>7 DEF RanOk
    <3> QED
      BY <2>1, <3>2, <3>3
  <2> QED
    BY <2>2, <2>3 DEF RanInv
<1>4. OwnerInv'
  BY DEF Bridge!Serve, Bridge!Goto, Bridge!Over, Bridge!fixed, Bridge!ownerVars,
     Bridge!bridgeVars, Bridge!dockerVars, Bridge!workerVars, Bridge!sidecarVars, BridgeInv,
     BridgeTypes, LockInv, OwnerInv
<1> QED
  BY <1>1, <1>2, <1>3, <1>4 DEF BridgeInv

\* Served keeps the invariant.
LEMMA ServedStep ==
    ASSUME Bridge!BridgeAssumption, BridgeInv, NEW c \in Requests, Bridge!Served(c)
    PROVE  BridgeInv'
<1>1. BridgeTypes'
  BY DEF Bridge!Served, Bridge!Over, Bridge!Goto, Bridge!fixed, Bridge!ownerVars,
     Bridge!bridgeVars, Bridge!dockerVars, Bridge!workerVars, Bridge!sidecarVars, BridgeInv,
     BridgeTypes, LockInv, OwnerInv
<1>2. LockInv' /\ handler' \in [Requests -> {"none", "waits", "over"} \cup Busy]
          /\ answered' \in SUBSET Requests
  <2>1. lock = c /\ form' = form /\ gate' = gate
    BY DEF Bridge!Served, Bridge!fixed, Bridge!dockerVars, BridgeInv, LockInv
  <2>2. Bridge!Over(c, TRUE) \/ Bridge!Over(c, FALSE)
    BY DEF Bridge!Served, Bridge!Goto, HandlerAt, Bridge!fixed, BridgeInv, LockInv
  <2>3. answered \in SUBSET Requests
    BY DEF BridgeInv, BridgeTypes
  <2> QED
    BY <2>1, <2>2, <2>3, LockGoes, LockOver DEF BridgeInv, HandlerAt
<1>3. RanInv'
  BY DEF Bridge!Served, Bridge!Over, Bridge!Goto, Bridge!fixed, Bridge!ownerVars,
     Bridge!bridgeVars, Bridge!dockerVars, Bridge!workerVars, Bridge!sidecarVars, BridgeInv,
     BridgeTypes, LockInv, OwnerInv, RanInv, RanOk, NeverAgain
<1>4. OwnerInv'
  BY DEF Bridge!Served, Bridge!Over, Bridge!Goto, Bridge!fixed, Bridge!ownerVars,
     Bridge!bridgeVars, Bridge!dockerVars, Bridge!workerVars, Bridge!sidecarVars, BridgeInv,
     BridgeTypes, LockInv, OwnerInv
<1> QED
  BY <1>1, <1>2, <1>3, <1>4 DEF BridgeInv

\* ServedStops keeps the invariant.
LEMMA ServedStopsStep ==
    ASSUME Bridge!BridgeAssumption, BridgeInv, NEW c \in Requests, Bridge!ServedStops(c)
    PROVE  BridgeInv'
<1>1. BridgeTypes'
  BY DEF Bridge!ServedStops, Bridge!StopWorker, Bridge!Ways, Bridge!Over, Bridge!Goto,
     Bridge!Interrupted, Bridge!fixed, Bridge!ownerVars, Bridge!bridgeVars, Bridge!dockerVars,
     Bridge!workerVars, Bridge!sidecarVars, BridgeInv, BridgeTypes, LockInv, OwnerInv
<1>2. LockInv'
  BY DEF Bridge!ServedStops, Bridge!StopWorker, Bridge!Ways, Bridge!Over, Bridge!Goto,
     Bridge!Interrupted, Bridge!fixed, Bridge!ownerVars, Bridge!bridgeVars, Bridge!dockerVars,
     Bridge!workerVars, Bridge!sidecarVars, BridgeInv, BridgeTypes, LockInv, OwnerInv
<1>3. RanInv'
  BY DEF Bridge!ServedStops, Bridge!StopWorker, Bridge!Ways, Bridge!Over, Bridge!Goto,
     Bridge!Interrupted, Bridge!fixed, Bridge!ownerVars, Bridge!bridgeVars, Bridge!dockerVars,
     Bridge!workerVars, Bridge!sidecarVars, BridgeInv, BridgeTypes, LockInv, OwnerInv, RanInv,
     RanOk, NeverAgain
<1>4. OwnerInv'
  BY DEF Bridge!ServedStops, Bridge!StopWorker, Bridge!Ways, Bridge!Over, Bridge!Goto,
     Bridge!Interrupted, Bridge!fixed, Bridge!ownerVars, Bridge!bridgeVars, Bridge!dockerVars,
     Bridge!workerVars, Bridge!sidecarVars, BridgeInv, BridgeTypes, LockInv, OwnerInv
<1> QED
  BY <1>1, <1>2, <1>3, <1>4 DEF BridgeInv

\* CommandEnds keeps the invariant.
LEMMA CommandEndsStep ==
    ASSUME Bridge!BridgeAssumption, BridgeInv, NEW c \in Requests, Bridge!CommandEnds(c)
    PROVE  BridgeInv'
<1>1. BridgeTypes'
  BY DEF Bridge!CommandEnds, Bridge!Stopped, Bridge!fixed, Bridge!ownerVars, Bridge!bridgeVars,
     Bridge!dockerVars, Bridge!workerVars, Bridge!sidecarVars, BridgeInv, BridgeTypes, LockInv,
     OwnerInv
<1>2. LockInv'
  BY DEF Bridge!CommandEnds, Bridge!Stopped, Bridge!fixed, Bridge!ownerVars, Bridge!bridgeVars,
     Bridge!dockerVars, Bridge!workerVars, Bridge!sidecarVars, BridgeInv, BridgeTypes, LockInv,
     OwnerInv
<1>3. RanInv'
  BY DEF Bridge!CommandEnds, Bridge!Stopped, Bridge!fixed, Bridge!ownerVars, Bridge!bridgeVars,
     Bridge!dockerVars, Bridge!workerVars, Bridge!sidecarVars, BridgeInv, BridgeTypes, LockInv,
     OwnerInv, RanInv, RanOk, NeverAgain
<1>4. OwnerInv'
  BY DEF Bridge!CommandEnds, Bridge!Stopped, Bridge!fixed, Bridge!ownerVars, Bridge!bridgeVars,
     Bridge!dockerVars, Bridge!workerVars, Bridge!sidecarVars, BridgeInv, BridgeTypes, LockInv,
     OwnerInv
<1> QED
  BY <1>1, <1>2, <1>3, <1>4 DEF BridgeInv

-----------------------------------------------------------------------------
\* Nothing is sent at first.
LEMMA BridgeInvInit == Bridge!BridgeAssumption /\ Bridge!Init => BridgeInv
<1> SUFFICES ASSUME Bridge!BridgeAssumption, Bridge!Init PROVE BridgeInv
  OBVIOUS
<1> USE DEF Gated, Ungated, Remote, Busy, Executing, Making, Early, Owners, Bridge!Running
<1>1. BridgeTypes
  BY DEF Bridge!Init, BridgeTypes
<1>2. OwnerInv
  BY DEF Bridge!Init, OwnerInv
<1>3. RanInv
  <2> SUFFICES ASSUME NEW c \in Requests PROVE RanOk(c)
    BY DEF RanInv
  <2>1. ran[c] = 0 /\ 0 <= 1 /\ 0 # 1
    BY DEF Bridge!Init
  <2> QED
    BY <2>1 DEF RanOk
<1>4. LockInv
  BY DEF Bridge!Init, LockInv, Bridge!BridgeAssumption
<1> QED
  BY <1>1, <1>2, <1>3, <1>4 DEF BridgeInv

\* The invariant of a bridged task.
LEMMA BridgeInvAlways == Bridge!BridgeAssumption => (Bridge!Spec => []BridgeInv)
<1> SUFFICES ASSUME Bridge!BridgeAssumption PROVE Bridge!Spec => []BridgeInv
  OBVIOUS
<1>1. Bridge!Init => BridgeInv
  BY BridgeInvInit
<1>2. BridgeInv /\ [Bridge!Next]_(Bridge!taskVars) => BridgeInv'
  <2>1. ASSUME BridgeInv, UNCHANGED Bridge!taskVars PROVE BridgeInv'
    <3>1. UNCHANGED <<form, tooLate, owner, agent, closing, handler, lock, answered, gate,
              payload, ran, lost,
                      container, toolWorker, kids, admitted, unheard, told, released>>
      BY <2>1 DEF Bridge!taskVars, Bridge!fixed, Bridge!ownerVars, Bridge!bridgeVars,
         Bridge!dockerVars, Bridge!workerVars, Bridge!sidecarVars
    <3>2. BridgeTypes' /\ LockInv'
      BY <2>1, <3>1, ZenonT(40) DEF BridgeInv, BridgeTypes, LockInv
    <3>4. OwnerInv'
      BY <2>1, <3>1 DEF BridgeInv, OwnerInv, Bridge!Running
    <3>3. \A c \in Requests : RanOk(c)' <=> RanOk(c)
      BY <3>1 DEF RanOk, NeverAgain, Bridge!Running
    <3> QED
      BY <2>1, <3>2, <3>3, <3>4 DEF BridgeInv, RanInv
  <2>2. ASSUME BridgeInv, Bridge!Owner PROVE BridgeInv'
    BY <2>2, SetUpStep, AdmitStep, LoadStep, UnmakeStep, AgentEndsStep, LeaveBridgeStep,
       QuiesceStep,
       DownStep, CloseStep, TellAbortStep, TellDrainStep, ReleaseScopeStep DEF Bridge!Owner
  <2>3. ASSUME BridgeInv, NEW c \in Requests, Bridge!Handler(c) PROVE BridgeInv'
    BY <2>3, EnterStep, GateStep, ReleaseStep, PlainStep, FinishStep, AbortStep, ServeStep,
       ServedStep,
       ServedStopsStep DEF Bridge!Handler
  <2> QED
    BY <2>1, <2>2, <2>3, LateStep, WorkerDiesStep, ArriveStep, CommandEndsStep DEF Bridge!Next
<1> QED
  BY <1>1, <1>2, PTL DEF Bridge!Spec

\* Commands run once, and have ended with their worker when the sidecar is told so.
THEOREM ToolsStayOwned == Bridge!BridgeAssumption => (Bridge!Spec => []ToolsAreOwned)
<1> SUFFICES ASSUME Bridge!BridgeAssumption PROVE Bridge!Spec => []ToolsAreOwned
  OBVIOUS
<1>1. BridgeInv => Bridge!ToolsAreOwned
  <2> SUFFICES ASSUME BridgeInv PROVE Bridge!ToolsAreOwned
    OBVIOUS
  <2>1. Bridge!RunsOnce
    <3> SUFFICES ASSUME NEW c \in Requests, ran[c] > 1, c \notin lost PROVE FALSE
      BY DEF Bridge!RunsOnce
    <3>1. RanOk(c) /\ ran[c] \in Nat
      BY DEF BridgeInv, RanInv, BridgeTypes
    <3>2. ran[c] <= 1
      BY <3>1 DEF RanOk
    <3> QED
      BY <3>1, <3>2
  <2>2. Bridge!ToldIsQuiet
    <3>1. told => /\ \A c \in Requests : payload[c] = "none"
                  /\ ~Bridge!Running /\ (kids => unheard)
      BY DEF BridgeInv, OwnerInv
    <3> QED
      BY <3>1 DEF Bridge!ToldIsQuiet
  <2>3. Bridge!WorkerIsAdmitted
    BY DEF BridgeInv, OwnerInv, Bridge!WorkerIsAdmitted
  <2> QED
    BY <2>1, <2>2, <2>3 DEF Bridge!ToolsAreOwned
<1> QED
  BY <1>1, BridgeInvAlways, PTL DEF ToolsAreOwned
=============================================================================
