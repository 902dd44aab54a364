---------------------------- MODULE RuleGenerator ----------------------------
(***************************************************************************)
(* How the command parser learns new grammars (command_parser/generation.py,  *)
(* help_runner.py, evidence.py).  A prediction that meets an unknown command   *)
(* queues it; one worker waits until nothing is measured, reads the source of   *)
(* a script or runs the tool's --help in a container of its own, asks a         *)
(* provider for a rule and adds it.  The container is started under the lock     *)
(* that begin_execution takes (predictors/tool_resource.py).                    *)
(*                                                                             *)
(* The state of an entry is kept under a key: the entry and the version of its   *)
(* source.  The source of a script in a container is read by the worker, so     *)
(* that such an entry waits under a key of its own.  One repository.             *)
(***************************************************************************)
EXTENDS Naturals, Sequences

CONSTANTS Tools,      \* entries that are no scripts
          Local,      \* scripts of the workspace
          Contained,  \* scripts in a container
          Execs,      \* measured executions
          QueueSize,  \* items that wait (64)
          Budget,     \* repo_budget
          MaxEdits,   \* bound: edits of each script
          MaxCools    \* bound: cooldowns that pass

RuleAssumption ==
    /\ QueueSize \in Nat /\ Budget \in Nat /\ MaxEdits \in Nat
    /\ {"free", "probe"} \cap Execs = {}

VARIABLES
    content,  \* script -> version of its source
    found,    \* the service has asked for the scripts of the workspace
    states,   \* _states: key -> "none", "queued", "generating", "settled", "cold"
    queue,    \* _queue
    counts,   \* _counts
    worker,   \* the thread and its locals
    lock,     \* _execution_start_lock: "free", "probe" or its execution
    exec,     \* execution -> "new", "starting", "active", "closing", "ended"
    probe,    \* the help container: "none", "running", "lingering"
    stop,     \* _stop
    closer,   \* close(): "open", "joining", "raised", "closed"
    asks,     \* history: key -> generations that went to the provider, since it was last cold
    asked,    \* history: the same in total
    cools

shared == <<states, queue, counts>>
measured == <<lock, exec, probe>>
history == <<asks, asked, cools>>
vars == <<content, found, shared, worker, measured, stop, closer, history>>

Scripts == Local \cup Contained
Entries == Tools \cup Scripts
Pending == MaxEdits + 1   \* "pending_container_source"
NoSource == MaxEdits + 2
Keys == Entries \X (0 .. NoSource)

WorkerAt(at) == [at |-> at, key |-> <<>>, source |-> NoSource, again |-> FALSE]
Discovery == <<>>         \* the item of discover()
EntryOf(k) == k[1]

Init ==
    /\ content = [s \in Scripts |-> 0] /\ found = FALSE
    /\ states = [k \in Keys |-> "none"] /\ queue = <<>> /\ counts = 0
    /\ worker = WorkerAt("none")
    /\ lock = "free" /\ exec = [x \in Execs |-> "new"] /\ probe = "none"
    /\ stop = FALSE /\ closer = "open"
    /\ asks = [k \in Keys |-> 0] /\ asked = 0 /\ cools = 0

Alive == worker.at \notin {"none", "gone", "dead"}

TypeOK ==
    /\ states \in [Keys -> {"none", "queued", "generating", "settled", "cold"}]
    /\ Len(queue) <= QueueSize /\ counts \in 0 .. Budget
    /\ lock \in {"free", "probe"} \cup Execs
    /\ probe = "running" => lock = "probe"
    /\ worker.at \in {"probing"} => probe = "running"
    /\ closer # "open" => stop

-----------------------------------------------------------------------------
(* Queueing, under _lock.                                                    *)

\* The first item starts the thread, which is never started again.
Put(item) ==
    /\ queue' = Append(queue, item)
    /\ worker' = [worker EXCEPT !.at = IF @ = "none" THEN "getting" ELSE @]

Known(k) == states[k] \in {"queued", "generating", "settled"}
Affordable == counts < Budget

\* enqueue: the key of a script in a container says nothing of its source yet,
\* and costs nothing.
KeyOf(e, source) == <<e, IF e \in Contained THEN Pending ELSE source>>
Accepts(k) == ~Known(k) /\ ~stop /\ Affordable /\ Len(queue) < QueueSize

Accept(k) ==
    /\ states' = [states EXCEPT ![k] = "queued"]
    /\ counts' = IF EntryOf(k) \in Contained THEN counts ELSE counts + 1

\* A source may not be readable, or be no text.
Readable(e) == IF e \in Scripts THEN {content[e], NoSource} ELSE {NoSource}

\* A parse that lacks a rule; close() waits for predictions first.
Enqueue(e) ==
    /\ closer = "open"
    /\ \E source \in Readable(e) :
          LET k == KeyOf(e, source) IN
          /\ Accepts(k) /\ Accept(k) /\ Put(k)
    /\ UNCHANGED <<content, found, measured, stop, closer, history>>

\* Once for a workspace, and a full queue drops it for good.
Discover ==
    /\ closer = "open" /\ ~found
    /\ found' = TRUE
    /\ IF Len(queue) < QueueSize THEN Put(Discovery) ELSE UNCHANGED <<queue, worker>>
    /\ UNCHANGED <<content, states, counts, measured, stop, closer, history>>

-----------------------------------------------------------------------------
(* The worker.                                                               *)

\* The task is done: the next round begins, unless stopped.
Round == worker' = WorkerAt(IF stop THEN "gone" ELSE "getting")

Get ==
    /\ worker.at = "getting"
    /\ IF queue = <<>>
       THEN stop /\ Round /\ UNCHANGED shared
       ELSE LET item == Head(queue) IN
            /\ queue' = Tail(queue)
            /\ UNCHANGED counts
            /\ IF item = Discovery
               THEN /\ worker' = [worker EXCEPT !.at = "discovering"]
                    /\ UNCHANGED states
               ELSE /\ worker' = [worker EXCEPT !.at = "waiting", !.key = item]
                    /\ states' = [states EXCEPT ![item] = "generating"]
    /\ UNCHANGED <<content, found, measured, stop, closer, history>>

\* Scripts of the workspace are queued by the worker itself.  A source that
\* cannot be parsed at all raises what the loop does not catch.
Search ==
    /\ worker.at = "discovering"
    /\ \/ /\ \E e \in Local : \E source \in Readable(e) :
                LET k == KeyOf(e, source) IN
                IF Accepts(k)
                THEN Accept(k) /\ queue' = Append(queue, k)
                ELSE UNCHANGED shared
          /\ Round
       \/ worker' = WorkerAt("dead") /\ UNCHANGED shared
    /\ UNCHANGED <<content, found, measured, stop, closer, history>>

Settle(k) == states' = [states EXCEPT ![k] = "settled"]

\* The end of a generation, failed or not: the state says which, the loop goes on.
Finish ==
    /\ Settle(worker.key) /\ Round
    /\ UNCHANGED <<queue, counts>>
Fail == Finish

Go(at) == worker' = [worker EXCEPT !.at = at] /\ UNCHANGED shared

Idle == \A x \in Execs : exec[x] # "active"

\* The loop over idle(), and the first look at _stop.
Wait ==
    /\ worker.at = "waiting" /\ (Idle \/ stop)
    /\ IF stop THEN Fail ELSE Go("reading")
    /\ UNCHANGED <<content, found, measured, stop, closer, history>>

\* The source of a script in a container decides under which key it goes on.
\* Mutant: the state of that key is not looked at.
UnlessNewCheap(k) == Affordable
UnlessNew(k) == ~Known(k) /\ Affordable

Resolve(source) ==
    LET k == <<EntryOf(worker.key), source>>
        popped == [states EXCEPT ![worker.key] = "none"] IN
    IF UnlessNew(k)
    THEN /\ states' = [popped EXCEPT ![k] = "generating"]
         /\ counts' = counts + 1
         /\ worker' = [worker EXCEPT !.at = "generating", !.key = k, !.source = source]
    ELSE states' = popped /\ UNCHANGED counts /\ Round

ReadSource ==
    /\ worker.at = "reading"
    /\ LET e == EntryOf(worker.key) IN
       IF e \in Contained
       THEN \E source \in Readable(e) : Resolve(source) /\ UNCHANGED queue
       ELSE \E source \in Readable(e) :
               /\ worker' = [worker EXCEPT !.at = "generating", !.source = source]
               /\ UNCHANGED shared
    /\ UNCHANGED <<content, found, measured, stop, closer, history>>

\* generate: what has no source needs the help of the tool.
Generate ==
    /\ worker.at = "generating"
    /\ IF stop THEN Fail
       ELSE Go(IF worker.source # NoSource THEN "asking" ELSE "helping")
    /\ UNCHANGED <<content, found, measured, stop, closer, history>>

\* acquire: the lock is held while the container runs, and nothing is probed
\* unless nothing is measured.  Mutant: the worker has seen an idle predictor.
MayProbeAlways == TRUE
MayProbe == Idle

Acquire ==
    /\ worker.at = "helping" /\ lock = "free"
    /\ IF MayProbe
       THEN \/ Go("probing") /\ lock' = "probe" /\ probe' = "running"
            \/ Fail /\ UNCHANGED <<lock, probe>>   \* no image, no docker
       ELSE Fail /\ UNCHANGED <<lock, probe>>
    /\ UNCHANGED <<content, found, exec, stop, closer, history>>

\* The container is removed whatever it said; docker may take too long for that.
\* A script without a source gets no rule, helped or not.
ProbeEnds ==
    /\ worker.at = "probing"
    /\ lock' = "free"
    /\ \/ /\ probe' = "none"
          /\ Fail \/ (EntryOf(worker.key) \in Tools /\ Go("asking"))
       \/ probe' = "lingering" /\ Fail
    /\ UNCHANGED <<content, found, exec, stop, closer, history>>

Ask ==
    /\ worker.at = "asking"
    /\ IF stop THEN Fail /\ UNCHANGED history
       ELSE /\ Go("answering")
            /\ LET new == IF worker.again THEN 0 ELSE 1 IN
               asks' = [asks EXCEPT ![worker.key] = @ + new] /\ asked' = asked + new
            /\ UNCHANGED cools
    /\ UNCHANGED <<content, found, measured, stop, closer>>

\* The answer is a valid rule of the source as it is now, or is repaired once.
Unchanged ==
    LET e == EntryOf(worker.key) IN e \in Scripts => content[e] = worker.source

Answer ==
    /\ worker.at = "answering"
    /\ \/ Unchanged /\ Go("adding")
       \/ ~worker.again /\ worker' = [worker EXCEPT !.at = "asking", !.again = TRUE] /\ UNCHANGED shared
       \/ Fail                                     \* no answer, or a second bad one
    /\ UNCHANGED <<content, found, measured, stop, closer, history>>

\* The rule is in the registry, saved or not, unless the generator was stopped.
Add ==
    /\ worker.at = "adding"
    /\ Finish
    /\ UNCHANGED <<content, found, measured, stop, closer, history>>

-----------------------------------------------------------------------------
(* Measured executions: begin_execution starts the collector under the lock;      *)
(* finish_execution takes it out of the active ones first and then closes its      *)
(* window, without that lock.                                                   *)

Begin(x) ==
    /\ exec[x] = "new" /\ lock = "free" /\ closer = "open"
    /\ lock' = x /\ exec' = [exec EXCEPT ![x] = "starting"]
    /\ UNCHANGED <<content, found, shared, worker, probe, stop, closer, history>>

Started(x) ==
    /\ lock = x
    /\ lock' = "free"
    /\ \E ok \in BOOLEAN : exec' = [exec EXCEPT ![x] = IF ok THEN "active" ELSE "ended"]
    /\ UNCHANGED <<content, found, shared, worker, probe, stop, closer, history>>

End(x) ==
    /\ exec[x] = "active"
    /\ exec' = [exec EXCEPT ![x] = "closing"]
    /\ UNCHANGED <<content, found, shared, worker, lock, probe, stop, closer, history>>

\* The last events have 30 ms to arrive; or the collector cannot be stopped.
WindowCloses(x) ==
    /\ exec[x] = "closing"
    /\ exec' = [exec EXCEPT ![x] = "ended"]
    /\ UNCHANGED <<content, found, shared, worker, lock, probe, stop, closer, history>>

-----------------------------------------------------------------------------
(* close(), which may be called again when it raised.                         *)

CloseBegin ==
    /\ closer \in {"open", "raised"}
    /\ closer' = "joining" /\ stop' = TRUE
    /\ UNCHANGED <<content, found, shared, worker, measured, history>>

CloseTimeout ==
    /\ closer = "joining" /\ Alive
    /\ closer' = "raised"
    /\ UNCHANGED <<content, found, shared, worker, measured, stop, history>>

\* No worker is left: what is queued is cancelled.
Cancelled == {queue[n] : n \in DOMAIN queue} \ {Discovery}

CloseEnds ==
    /\ closer = "joining" /\ ~Alive
    /\ closer' = "closed"
    /\ states' = [k \in Keys |-> IF k \in Cancelled THEN "settled" ELSE states[k]]
    /\ queue' = <<>>
    /\ UNCHANGED <<content, found, counts, worker, measured, stop, history>>

-----------------------------------------------------------------------------
(* A script is edited; the cooldown of a key is over.                         *)

Edit(s) ==
    /\ content[s] < MaxEdits
    /\ content' = [content EXCEPT ![s] = @ + 1]
    /\ UNCHANGED <<found, shared, worker, measured, stop, closer, history>>

Cool(k) ==
    /\ states[k] = "settled" /\ cools < MaxCools
    /\ states' = [states EXCEPT ![k] = "cold"]
    /\ asks' = [asks EXCEPT ![k] = 0]
    /\ cools' = cools + 1
    /\ UNCHANGED <<content, found, queue, counts, worker, measured, stop, closer, asked>>

Next == \/ \E e \in Entries : Enqueue(e)
        \/ Discover \/ Get \/ Search \/ Wait \/ ReadSource \/ Generate
        \/ Acquire \/ ProbeEnds \/ Ask \/ Answer \/ Add
        \/ \E x \in Execs : Begin(x) \/ Started(x) \/ End(x) \/ WindowCloses(x)
        \/ CloseBegin \/ CloseTimeout \/ CloseEnds
        \/ \E s \in Scripts : Edit(s)
        \/ \E k \in Keys : Cool(k)

Spec == Init /\ [][Next]_vars

-----------------------------------------------------------------------------
(* Properties.                                                               *)

\* "Probes wait outside the sidecar's active measured execution windows": no
\* container of a help probe runs while an execution is measured or about to be,
\* unless docker failed to remove it, or the execution has been taken out of the
\* active ones and only its window is still open.
Measured(x) == exec[x] \in {"starting", "active", "closing"}
ProbesRunAlone ==
    probe = "running" => \A x \in Execs : Measured(x) => exec[x] = "closing"

\* A source is generated from once until its cooldown is over, and a repository's
\* budget is kept, also for the scripts whose identity is known late.
ProviderIsSpared == asked <= Budget /\ \A k \in Keys : asks[k] <= 1

\* When close() has returned, nothing of the generator goes on and every key that
\* was accepted has an outcome.
SettledAtClose ==
    closer = "closed" =>
        /\ ~Alive /\ queue = <<>> /\ probe # "running"
        /\ \A k \in Keys : states[k] \notin {"queued", "generating"}

GeneratorKeepsOff == ProbesRunAlone /\ ProviderIsSpared /\ SettledAtClose

=============================================================================
