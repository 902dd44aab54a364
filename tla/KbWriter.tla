------------------------------ MODULE KbWriter ------------------------------
(***************************************************************************)
(* Online learning and its durability (predictors/tool_resource.py):        *)
(* operations of the predictor update the in-memory knowledge bases, the     *)
(* write coordinator's worker thread publishes lattice batches, and only a   *)
(* barrier (flush or close) saves snapshots and commits them through         *)
(* StateStore.checkpoint.  The commit is the atomic step that StateStore     *)
(* implements.  The process may die at any step; the next one starts from    *)
(* the commit.                                                               *)
(*                                                                           *)
(* An observation is abstracted to <<execution, kind>>: the resource rows    *)
(* that finish_execution learns, the memory rows that the completion hook    *)
(* (or close) adds, and the completed call of the runtime knowledge base.    *)
(***************************************************************************)
EXTENDS Naturals, Sequences, FiniteSets, SequencesExt

CONSTANTS Executions,   \* tool executions of the run
          Hooked,       \* those whose completion hook arrives
          Flushers,     \* callers of flush_kb_updates (drains), once each
          MaxBatch,     \* max_batch_size
          MaxStops      \* bound: processes that die or end

Backends == {"runtime", "clause", "lattice"}
Direct == {"runtime", "clause"}
Observations == Executions \X {"resource", "memory", "call"}

ASSUME WriterAssumption ==
    /\ MaxBatch \in Nat \ {0} /\ MaxStops \in Nat
    /\ IsFiniteSet(Executions) /\ Hooked \subseteq Executions

VARIABLES
    op,         \* execution -> progress of its learning operations
    closing,    \* the predictor's _closing
    closer,     \* progress of the one closing thread (_close_lock)
    learned,    \* backend learned under the lock -> observations in memory
    lattice,    \* published lattice observations, in order
    queue,      \* updates and barriers
    worker,     \* program counter of the worker thread, "none" if not alive
    hand,       \* the items of the worker's current batch
    retry,      \* _retry_observations
    inflight,   \* _inflight
    failed,     \* the batch raised
    captured,   \* snapshots taken and not written yet
    accepting,  \* _accepting
    shutdown,   \* _shutdown: "none", or the state of its future
    flush,      \* flusher -> progress
    work,       \* backend -> observations in the working snapshot
    committed,  \* backend -> observations in the committed snapshot
    stops,      \* processes that have ended
    promised,   \* history: flusher -> what its flush has to make durable
    acked       \* history: backend -> what acknowledged barriers promised

memory == <<op, learned, lattice>>
writer == <<queue, worker, hand, retry, inflight, failed, captured>>
disk == <<work, committed>>
history == <<promised, acked>>
vars == <<memory, writer, closing, closer, accepting, shutdown, flush, disk, stops, history>>

NoneLearned == [b \in Backends |-> {}]
Update(o) == [type |-> "update", obs |-> o]
Barrier(f) == [type |-> "barrier", by |-> f]
Stop == [type |-> "stop"]
IsBarrier(item) == item.type # "update"
Updates(items) == {items[i].obs : i \in {j \in DOMAIN items : ~IsBarrier(items[j])}}
HasBarrier(items) == \E i \in DOMAIN items : IsBarrier(items[i])
\* What the worker takes in one round: updates, and a barrier at most behind them.
ObsIn(items) == [i \in 1 .. (IF HasBarrier(items) THEN Len(items) - 1 ELSE Len(items)) |->
                    items[i].obs]
HasStop == \E i \in DOMAIN hand : hand[i] = Stop

\* What a backend holds in memory, and what was submitted to the lattice.
InMemory(b) == IF b = "lattice" THEN ToSet(lattice) ELSE learned[b]
Submitted == ToSet(lattice) \cup ToSet(retry) \cup Updates(hand) \cup Updates(queue)
ToSave == [b \in Backends |-> IF b = "lattice" THEN Submitted ELSE learned[b]]
Active == {e \in Executions : op[e] \in {"finishing", "learned", "completing", "labelled"}}

TypeOK ==
    /\ op \in [Executions -> {"new", "finishing", "learned", "finished",
                              "completing", "labelled", "completed", "past"}]
    /\ closing \in BOOLEAN /\ inflight \in BOOLEAN
    /\ failed \in BOOLEAN /\ accepting \in BOOLEAN
    /\ closer \in {"open", "fenced", "waiting", "raised", "closed"}
    /\ learned \in [Direct -> SUBSET Observations]
    /\ lattice \in Seq(Observations) /\ retry \in Seq(Observations)
    /\ \A i \in DOMAIN (hand \o queue) :
          (hand \o queue)[i] \in {Update(o) : o \in Observations}
                                 \cup {Barrier(f) : f \in Flushers} \cup {Stop}
    /\ worker \in {"none", "get", "idle", "got", "collect", "apply", "capture",
                   "write", "resolve", "resolved"}
    /\ hand = <<>> <=> worker \in {"none", "get", "idle"}
    /\ inflight <=> worker \notin {"none", "get", "idle", "got"}
    /\ DOMAIN captured \subseteq Backends
    /\ shutdown \in {"none", "pending", "ok", "error"}
    /\ flush \in [Flushers -> {"new", "waiting", "ok", "error", "timeout", "refused"}]
    /\ work \in [Backends -> SUBSET Observations]
    /\ committed \in [Backends -> SUBSET Observations]
    /\ acked \in [Backends -> SUBSET Observations]
    /\ stops \in 0 .. MaxStops

\* A process that has loaded the committed snapshots.
Loaded(c) ==
    /\ learned' = [b \in Direct |-> c[b]]
    /\ lattice' \in SetToSeqs(c["lattice"])
    /\ work' = c

\* The executions have come as far as "progress" says, without any rows learned.
InitAt(progress, ended) ==
    /\ op = progress
    /\ closing = FALSE /\ closer = "open" /\ accepting = TRUE /\ shutdown = "none"
    /\ learned = [b \in Direct |-> {}] /\ lattice = <<>>
    /\ queue = <<>> /\ worker = "none" /\ hand = <<>> /\ retry = <<>>
    /\ inflight = FALSE /\ failed = FALSE /\ captured = <<>>
    /\ flush = [f \in Flushers |-> "new"]
    /\ work = NoneLearned /\ committed = NoneLearned
    /\ stops = ended
    /\ promised = [f \in Flushers |-> NoneLearned] /\ acked = NoneLearned

Init == InitAt([e \in Executions |-> "new"], 0)

-----------------------------------------------------------------------------
(* Predictor operations: each runs under _open_operation.                   *)

\* put under _state_lock, then _ensure_worker.
Put(items) ==
    /\ queue' = queue \o items
    /\ worker' = IF worker = "none" THEN "get" ELSE worker

Learn(b, obs) == learned' = [learned EXCEPT ![b] = @ \cup obs]

Begin(e, from, to) ==
    /\ op[e] = from
    /\ ~closing
    /\ op' = [op EXCEPT ![e] = to]
    /\ UNCHANGED <<learned, lattice, writer, closing, closer, accepting, shutdown,
                   flush, disk, stops, history>>

BeginFinish(e) == Begin(e, "new", "finishing")
BeginCompletion(e) == e \in Hooked /\ Begin(e, "finished", "completing")

\* finish_execution learns clauses under _kb_lock ...
LearnResources(e) ==
    /\ op[e] = "finishing"
    /\ op' = [op EXCEPT ![e] = "learned"]
    /\ Learn("clause", {<<e, "resource">>})
    /\ UNCHANGED <<lattice, writer, closing, closer, accepting, shutdown, flush,
                   disk, stops, history>>

\* ... and enqueues them for the lattice after it has released the lock.
EnqueueResources(e) ==
    /\ op[e] = "learned"
    /\ accepting
    /\ op' = [op EXCEPT ![e] = "finished"]
    /\ Put(<<Update(<<e, "resource">>)>>)
    /\ UNCHANGED <<learned, lattice, hand, retry, inflight, failed, captured, closing,
                   closer, accepting, shutdown, flush, disk, stops, history>>

\* _observe_completion adds the memory rows under _kb_lock, the enqueue included.
LearnMemory(e) ==
    /\ op[e] = "completing"
    /\ accepting
    /\ op' = [op EXCEPT ![e] = "labelled"]
    /\ Learn("clause", {<<e, "memory">>})
    /\ Put(<<Update(<<e, "memory">>)>>)
    /\ UNCHANGED <<lattice, hand, retry, inflight, failed, captured, closing,
                   closer, accepting, shutdown, flush, disk, stops, history>>

LearnCall(e) ==
    /\ op[e] = "labelled"
    /\ op' = [op EXCEPT ![e] = "completed"]
    /\ Learn("runtime", {<<e, "call">>})
    /\ UNCHANGED <<lattice, writer, closing, closer, accepting, shutdown, flush,
                   disk, stops, history>>

-----------------------------------------------------------------------------
(* flush: a barrier behind everything enqueued so far.                      *)

Flush(f) ==
    /\ flush[f] = "new"
    /\ closer # "closed"
    /\ IF accepting
       THEN /\ flush' = [flush EXCEPT ![f] = "waiting"]
            /\ promised' = [promised EXCEPT ![f] = ToSave]
            /\ Put(<<Barrier(f)>>)
       ELSE /\ flush' = [flush EXCEPT ![f] = "refused"]
            /\ UNCHANGED <<queue, worker, promised>>
    /\ UNCHANGED <<memory, hand, retry, inflight, failed, captured, closing, closer,
                   accepting, shutdown, disk, stops, acked>>

\* The caller gives up; its barrier stays in the queue.
FlushTimeout(f) ==
    /\ flush[f] = "waiting"
    /\ flush' = [flush EXCEPT ![f] = "timeout"]
    /\ UNCHANGED <<memory, writer, closing, closer, accepting, shutdown, disk, stops, history>>

-----------------------------------------------------------------------------
(* The worker thread.                                                       *)

Take ==
    /\ worker = "get"
    /\ queue # <<>>
    /\ hand' = <<Head(queue)>>
    /\ queue' = Tail(queue)
    /\ worker' = "got"
    /\ UNCHANGED <<memory, retry, inflight, failed, captured, closing, closer,
                   accepting, shutdown, flush, disk, stops, history>>

\* queue.get timed out; the decision to exit is taken later, under the lock.
TakeTimeout ==
    /\ worker = "get"
    /\ queue = <<>>
    /\ worker' = "idle"
    /\ UNCHANGED <<memory, queue, hand, retry, inflight, failed, captured, closing,
                   closer, accepting, shutdown, flush, disk, stops, history>>

\* Mutant: the worker leaves without looking at the queue again.
IdleExitUnchecked ==
    /\ worker = "idle"
    /\ worker' = "none"
    /\ UNCHANGED <<memory, queue, hand, retry, inflight, failed, captured, closing,
                   closer, accepting, shutdown, flush, disk, stops, history>>

IdleExit ==
    /\ worker = "idle"
    /\ worker' = IF queue = <<>> THEN "none" ELSE "get"
    /\ UNCHANGED <<memory, queue, hand, retry, inflight, failed, captured, closing,
                   closer, accepting, shutdown, flush, disk, stops, history>>

MarkInflight ==
    /\ worker = "got"
    /\ inflight' = TRUE
    /\ worker' = IF HasBarrier(hand) THEN "apply" ELSE "collect"
    /\ UNCHANGED <<memory, queue, hand, retry, failed, captured, closing, closer,
                   accepting, shutdown, flush, disk, stops, history>>

Collect ==
    /\ worker = "collect"
    /\ Len(hand) < MaxBatch
    /\ queue # <<>>
    /\ hand' = Append(hand, Head(queue))
    /\ queue' = Tail(queue)
    /\ worker' = IF IsBarrier(Head(queue)) THEN "apply" ELSE "collect"
    /\ UNCHANGED <<memory, retry, inflight, failed, captured, closing, closer,
                   accepting, shutdown, flush, disk, stops, history>>

\* _apply_batch publishes a fork with every observation ...
Publish(batch) ==
    /\ lattice' = lattice \o batch
    /\ retry' = <<>>
    /\ worker' = IF HasBarrier(hand) THEN "capture" ELSE "resolve"
    /\ UNCHANGED failed

\* Mutant: only what failed before is kept.
DropNew(batch) ==
    /\ batch # <<>>
    /\ failed' = TRUE
    /\ worker' = "resolve"
    /\ UNCHANGED <<lattice, retry>>

\* ... or leaves the lattice alone, and all of them are kept for the next batch.
KeepForRetry(batch) ==
    /\ batch # <<>>
    /\ retry' = batch
    /\ failed' = TRUE
    /\ worker' = "resolve"
    /\ UNCHANGED lattice

\* The batch ends with a barrier, when it is full or when its window elapses.
Apply ==
    /\ worker \in {"collect", "apply"}
    /\ LET batch == retry \o ObsIn(hand) IN Publish(batch) \/ KeepForRetry(batch)
    /\ UNCHANGED <<op, learned, queue, hand, inflight, captured, closing, closer,
                   accepting, shutdown, flush, disk, stops, history>>

\* One _kb_lock section takes every backend newer than its snapshot; taking one
\* may raise.
Dirty == {b \in Backends : InMemory(b) # work[b]}

Capture ==
    /\ worker = "capture"
    /\ \E taken \in SUBSET Dirty :
          /\ captured' = [b \in taken |-> InMemory(b)]
          /\ failed' = IF taken = Dirty THEN FALSE ELSE TRUE
    /\ worker' = "write"
    /\ UNCHANGED <<memory, queue, hand, retry, inflight, closing, closer, accepting,
                   shutdown, flush, disk, stops, history>>

\* The snapshots are written one by one; a failure does not stop the others.
WriteFile(b) ==
    /\ worker = "write"
    /\ b \in DOMAIN captured
    /\ \/ work' = [work EXCEPT ![b] = captured[b]] /\ UNCHANGED failed
       \/ failed' = TRUE /\ UNCHANGED work
    /\ captured' = [c \in DOMAIN captured \ {b} |-> captured[c]]
    /\ UNCHANGED <<memory, queue, worker, hand, retry, inflight, closing, closer,
                   accepting, shutdown, flush, committed, stops, history>>

\* Mutant: a snapshot that could not be written does not stop the checkpoint.
CommitRegardless ==
    /\ worker = "write"
    /\ DOMAIN captured = {}
    /\ committed' = work
    /\ worker' = "resolve"
    /\ UNCHANGED <<memory, queue, hand, retry, inflight, failed, captured, closing,
                   closer, accepting, shutdown, flush, work, stops, history>>

\* After an error there is no checkpoint; store.checkpoint() itself may raise
\* before its commit point, or after it.
EndPersist ==
    /\ worker = "write"
    /\ DOMAIN captured = {}
    /\ \/ ~failed /\ committed' = work /\ failed' \in BOOLEAN
       \/ failed' = TRUE /\ UNCHANGED committed
    /\ worker' = "resolve"
    /\ UNCHANGED <<memory, queue, hand, retry, inflight, captured, closing, closer,
                   accepting, shutdown, flush, work, stops, history>>

\* The futures of the batch's barrier get the result or the exception.
InHand(f) == \E i \in DOMAIN hand : hand[i] = Barrier(f)

\* Mutant: the exception is logged and the barrier released.
AlwaysOk == "ok"

Answer == IF failed THEN "error" ELSE "ok"

Resolve ==
    /\ worker = "resolve"
    /\ flush' = [f \in Flushers |-> IF InHand(f) /\ flush[f] = "waiting"
                                    THEN Answer ELSE flush[f]]
    /\ shutdown' = IF HasStop THEN Answer ELSE shutdown
    /\ acked' = [b \in Backends |->
                   acked[b] \cup UNION {promised[f][b] : f \in
                                {g \in Flushers : flush'[g] = "ok" /\ flush[g] # "ok"}}]
    /\ worker' = "resolved"
    /\ UNCHANGED <<memory, queue, hand, retry, inflight, failed, captured, closing,
                   closer, accepting, disk, stops, promised>>

\* _inflight is cleared after the callers have been answered; a batch that
\* ends with Stop ends the thread.
EndRound ==
    /\ worker = "resolved"
    /\ inflight' = FALSE
    /\ worker' = IF HasStop THEN "none" ELSE "get"
    /\ hand' = <<>> /\ failed' = FALSE
    /\ UNCHANGED <<memory, queue, retry, captured, closing, closer, accepting,
                   shutdown, flush, disk, stops, history>>

Worker == \/ Take \/ TakeTimeout \/ IdleExit \/ MarkInflight \/ Collect
          \/ Apply \/ Capture \/ EndPersist \/ Resolve \/ EndRound
          \/ \E b \in Backends : WriteFile(b)

-----------------------------------------------------------------------------
(* close(): fence, wait for admitted operations, stop the writer.           *)

CloseFence ==
    /\ closer \in {"open", "raised"}
    /\ closing' = TRUE
    /\ closer' = "fenced"
    /\ UNCHANGED <<memory, writer, accepting, shutdown, flush, disk, stops, history>>

\* With no operation left, the missing memory rows are imputed and the writer's
\* close stops intake and posts the Stop barrier unless one is pending.
CloseStop ==
    /\ closer = "fenced"
    /\ Active = {}
    /\ LET waiting == {e \in Executions : op[e] = "finished"}
           rows == {<<e, "memory">> : e \in waiting}
           stop == IF shutdown = "none" THEN <<Stop>> ELSE <<>> IN
       /\ op' = [e \in Executions |-> IF e \in waiting THEN "completed" ELSE op[e]]
       /\ Learn("clause", rows)
       /\ \E updates \in SetToSeqs({Update(o) : o \in rows}) : Put(updates \o stop)
    /\ accepting' = FALSE
    /\ shutdown' = IF shutdown = "none" THEN "pending" ELSE shutdown
    /\ closer' = "waiting"
    /\ UNCHANGED <<lattice, hand, retry, inflight, failed, captured, closing, flush,
                   disk, stops, history>>

\* A bounded close gives up; the pending Stop stays owned.
CloseTimeout ==
    /\ closer \in {"fenced", "waiting"}
    /\ shutdown # "error"
    /\ closer' = "raised"
    /\ UNCHANGED <<memory, writer, closing, accepting, shutdown, flush, disk, stops, history>>

\* The final save failed: join the worker, then allow another Stop.
CloseFailed ==
    /\ closer = "waiting"
    /\ shutdown = "error"
    /\ worker = "none"
    /\ shutdown' = "none"
    /\ closer' = "raised"
    /\ UNCHANGED <<memory, writer, closing, accepting, flush, disk, stops, history>>

CloseDone ==
    /\ closer = "waiting"
    /\ shutdown = "ok"
    /\ worker = "none"
    /\ closer' = "closed"
    /\ UNCHANGED <<memory, writer, closing, accepting, shutdown, flush, disk, stops, history>>

Close == CloseFence \/ CloseStop \/ CloseTimeout \/ CloseFailed \/ CloseDone

-----------------------------------------------------------------------------
(* The process ends, by a crash or after close; the next one loads the      *)
(* commit.  An execution whose learning had begun is not observed again.    *)

NextProcess ==
    /\ stops < MaxStops
    /\ stops' = stops + 1
    /\ Loaded(committed)
    /\ op' = [e \in Executions |-> IF op[e] = "new" THEN "new" ELSE "past"]
    /\ closing' = FALSE /\ closer' = "open" /\ accepting' = TRUE /\ shutdown' = "none"
    /\ queue' = <<>> /\ worker' = "none" /\ hand' = <<>> /\ retry' = <<>>
    /\ inflight' = FALSE /\ failed' = FALSE /\ captured' = <<>>
    /\ flush' = [f \in Flushers |-> IF flush[f] = "waiting" THEN "error" ELSE flush[f]]
    /\ UNCHANGED <<committed, promised, acked>>

Operation(e) == \/ BeginFinish(e) \/ LearnResources(e) \/ EnqueueResources(e)
                \/ BeginCompletion(e) \/ LearnMemory(e) \/ LearnCall(e)

Next == \/ \E e \in Executions : Operation(e)
        \/ \E f \in Flushers : Flush(f) \/ FlushTimeout(f)
        \/ Worker \/ Close \/ NextProcess

Spec == Init /\ [][Next]_vars

\* The worker is a live thread, admitted operations run to their end, and a
\* closing thread goes on when what it waits for has happened.
Progress(e) == LearnResources(e) \/ EnqueueResources(e) \/ LearnMemory(e) \/ LearnCall(e)

Fairness == /\ WF_vars(Worker)
            /\ WF_vars(CloseStop) /\ WF_vars(CloseFailed) /\ WF_vars(CloseDone)
            /\ \A e \in Executions : WF_vars(Progress(e))

FairSpec == Spec /\ Fairness

-----------------------------------------------------------------------------
(* Properties.                                                              *)

\* "An acknowledged save includes every queued batch": once flush has returned,
\* what it covered is in the committed snapshots, whatever batch failed, was
\* retried or timed out before, and it stays there through later crashes; and
\* after a successful close the next process knows what this one knew.
DurableWhenTold ==
    \A b \in Backends : /\ acked[b] \subseteq committed[b]
                       /\ closer = "closed" => committed[b] = InMemory(b)

\* "... exactly once": no retry and no restart publishes an observation twice, and
\* every one that an operation of this process has learned is published, kept for
\* retry, in the worker's hand, queued, or about to be enqueued: no failed batch,
\* idle exit or close drops one.
ExactlyOnce ==
    /\ IsInjective(lattice)
    /\ \A o \in learned["clause"] : o \in Submitted \/ op[o[1]] \in {"learned", "past"}

\* The two clause knowledge bases are committed in step: the lattice never
\* holds a clause that the recurrence index of the same commit has not learned.
LatticeNeverAheadOfClause == committed["lattice"] \subseteq committed["clause"]

\* Every caller is answered, whatever fails: a flush, and a close that has fenced
\* the predictor (which may raise), unless their process ends.
CallersReturn ==
    /\ \A f \in Flushers : flush[f] = "waiting" ~> flush[f] # "waiting"
    /\ closer = "fenced" ~> closer \in {"raised", "closed", "open"}
=============================================================================
