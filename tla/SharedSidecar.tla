----------------------------- MODULE SharedSidecar -----------------------------
(***************************************************************************)
(* The plugin starts the sidecar it needs (sidecar-launcher.ts).  Copies of   *)
(* the plugin in one Node process share an entry per endpoint that counts     *)
(* them; several Node processes may race for the endpoint.  The last copy to  *)
(* shut down stops the child, and all of them wait for that.                  *)
(***************************************************************************)
EXTENDS Naturals, FiniteSets

CONSTANTS Procs,       \* Node processes
          Regs,        \* plugin registrations
          In,          \* registration -> its process
          MaxFaults    \* bound: crashes, timeouts, failing signals, unclean exits

SidecarAssumption == IsFiniteSet(Regs) /\ In \in [Regs -> Procs]

VARIABLES
    phase,    \* process -> "none", "launching", "up", "foreign" (null child), "stopping"
    refs,     \* process -> references of its entry
    child,    \* process -> "none", "starting", "bound", "dying", "exited", "lost" (not ended by
              \*   the signal, and no longer known)
    stray,    \* process -> "none", "starting", "bound": a sidecar it started and no longer knows
    reg,      \* registration -> what it does
    shell,    \* process -> a custom command runs the sidecar under a shell
    faults

vars == <<phase, refs, child, stray, reg, shell, faults>>

Mine(n) == {r \in Regs : In[r] = n}
Fault == faults < MaxFaults /\ faults' = faults + 1
Served == \E n \in Procs : "bound" \in {child[n], stray[n]}   \* the endpoint answers
Alive == {"starting", "bound"}

Init ==
    /\ phase = [n \in Procs |-> "none"] /\ refs = [n \in Procs |-> 0]
    /\ child = [n \in Procs |-> "none"] /\ stray = [n \in Procs |-> "none"]
    /\ reg = [r \in Regs |-> "off"]
    /\ shell \in [Procs -> BOOLEAN] /\ faults = 0

TypeOK ==
    /\ phase \in [Procs -> {"none", "launching", "up", "foreign", "stopping"}]
    /\ child \in [Procs -> Alive \union {"none", "dying", "exited", "lost"}]
    /\ stray \in [Procs -> Alive \union {"none"}]
    /\ reg \in [Regs -> {"off", "waiting", "joined", "ready", "failed", "closing", "closed"}]
    /\ \A n \in Procs : refs[n] = Cardinality({r \in Mine(n) : reg[r] \in {"joined", "ready"}})

\* ensureSidecarRunning: the first registration launches, the others join; an
\* entry without references is on its way out and is waited for.
Register(r) ==
    LET n == In[r] IN
    /\ reg[r] = "off"
    /\ \/ /\ phase[n] = "stopping"
          /\ reg' = [reg EXCEPT ![r] = "waiting"] /\ UNCHANGED <<phase, refs, child>>
       \/ /\ phase[n] = "none" /\ Served
          /\ phase' = [phase EXCEPT ![n] = "foreign"] /\ refs' = [refs EXCEPT ![n] = 1]
          /\ reg' = [reg EXCEPT ![r] = "ready"] /\ UNCHANGED child
       \/ /\ phase[n] = "none" /\ ~Served
          /\ phase' = [phase EXCEPT ![n] = "launching"] /\ refs' = [refs EXCEPT ![n] = 1]
          /\ reg' = [reg EXCEPT ![r] = "joined"]
          /\ child' = [child EXCEPT ![n] = "starting"]
       \/ /\ phase[n] \notin {"stopping", "none"}
          /\ refs' = [refs EXCEPT ![n] = @ + 1]
          /\ reg' = [reg EXCEPT ![r] = IF phase[n] = "launching" THEN "joined" ELSE "ready"]
          /\ UNCHANGED <<phase, child>>
    /\ UNCHANGED <<stray, shell, faults>>

\* A sidecar takes the port, or finds it taken and exits.
Bind(n) ==
    /\ \/ /\ child[n] = "starting"
          /\ child' = [child EXCEPT ![n] = IF Served THEN "exited" ELSE "bound"]
          /\ UNCHANGED stray
       \/ /\ stray[n] = "starting"
          /\ stray' = [stray EXCEPT ![n] = IF Served THEN "none" ELSE "bound"]
          /\ UNCHANGED child
    /\ UNCHANGED <<phase, refs, reg, shell, faults>>

Crash(n) ==
    /\ Fault
    /\ \/ /\ child[n] \in Alive /\ child' = [child EXCEPT ![n] = "exited"] /\ UNCHANGED stray
       \/ /\ stray[n] \in Alive /\ stray' = [stray EXCEPT ![n] = "none"] /\ UNCHANGED child
    /\ UNCHANGED <<phase, refs, reg, shell>>

\* A custom command leaves its sidecar in the background; nothing signals it.
Daemonizes(n) ==
    /\ shell[n] /\ child[n] = "starting" /\ stray[n] = "none"
    /\ child' = [child EXCEPT ![n] = "exited"] /\ stray' = [stray EXCEPT ![n] = "starting"]
    /\ UNCHANGED <<phase, refs, reg, shell, faults>>

\* ensureSidecarRunningOnce: the endpoint is healthy.
Healthy(n) ==
    /\ phase[n] = "launching" /\ Served
    /\ phase' = [phase EXCEPT ![n] = IF child[n] = "exited" THEN "foreign" ELSE "up"]
    /\ reg' = [r \in Regs |-> IF In[r] = n /\ reg[r] = "joined" THEN "ready" ELSE reg[r]]
    /\ UNCHANGED <<refs, child, stray, shell, faults>>

\* SIGTERM to the child, or to its process group (whole): a sidecar under a shell
\* that is signalled alone, and one whose signal fails, stay as strays.
Kill(n, whole, fails) ==
    /\ child' = [child EXCEPT ![n] =
            IF @ \notin Alive THEN @ ELSE IF fails THEN "lost" ELSE "dying"]
    /\ stray' = [stray EXCEPT ![n] =
            IF child[n] \in Alive /\ @ # "bound" /\ (fails \/ (shell[n] /\ ~whole))
            THEN child[n] ELSE @]

TimesOut(n) ==
    /\ phase[n] = "launching" /\ IF child[n] = "exited" THEN UNCHANGED faults ELSE Fault
    /\ \E fails \in BOOLEAN : Kill(n, FALSE, fails)
    /\ phase' = [phase EXCEPT ![n] = "none"] /\ refs' = [refs EXCEPT ![n] = 0]
    /\ reg' = [r \in Regs |-> IF In[r] = n /\ reg[r] = "joined" THEN "failed" ELSE reg[r]]
    /\ UNCHANGED shell

\* Mutant: the first registration that goes stops the sidecar.
LastAlways(n) == TRUE
Last(n) == refs[n] = 1

\* shutdown waits for its own launch, then gives its reference back.
Shutdown(r) ==
    LET n == In[r] IN
    /\ \/ /\ reg[r] = "ready" /\ reg' = [reg EXCEPT ![r] = "closing"]
          /\ refs' = [refs EXCEPT ![n] = @ - 1]
          /\ IF Last(n)
             THEN /\ phase' = [phase EXCEPT ![n] = "stopping"]
                  /\ \/ phase[n] = "up" /\ Kill(n, TRUE, FALSE) /\ UNCHANGED faults
                     \/ phase[n] = "up" /\ child[n] \in Alive /\ Kill(n, TRUE, TRUE) /\ Fault
                     \/ phase[n] # "up" /\ UNCHANGED <<child, stray, faults>>
             ELSE UNCHANGED <<phase, child, stray, faults>>
       \/ /\ reg[r] = "failed" /\ reg' = [reg EXCEPT ![r] = "closed"]
          /\ UNCHANGED <<phase, refs, child, stray, faults>>
    /\ UNCHANGED shell

Dies(n) ==
    /\ child[n] = "dying" /\ child' = [child EXCEPT ![n] = "exited"]
    /\ UNCHANGED <<phase, refs, stray, reg, shell, faults>>

\* existing.shutdown.then: it starts over, unless the stop itself failed.
Again(failed) == IF failed THEN "failed" ELSE "off"

\* entry.shutdown settles: the child is gone, cleanly or not, or its signal failed.
Stopped(n) ==
    /\ phase[n] = "stopping" /\ child[n] # "dying"
    /\ \E failed \in BOOLEAN :
       /\ IF child[n] = "lost" THEN failed /\ UNCHANGED faults
          ELSE IF failed THEN Fault ELSE UNCHANGED faults
       /\ reg' = [r \in Regs |->
            IF In[r] = n /\ reg[r] = "closing" THEN "closed"
            ELSE IF In[r] = n /\ reg[r] = "waiting" THEN Again(failed) ELSE reg[r]]
    /\ phase' = [phase EXCEPT ![n] = "none"] /\ UNCHANGED <<refs, child, stray, shell>>

Next ==
    \/ \E r \in Regs : Register(r) \/ Shutdown(r)
    \/ \E n \in Procs : Bind(n) \/ Crash(n) \/ Daemonizes(n) \/ Healthy(n) \/ TimesOut(n)
                        \/ Dies(n) \/ Stopped(n)

Spec == Init /\ [][Next]_vars

\* Timers and events come; the host unloads what it loaded.
Fairness ==
    /\ \A r \in Regs : WF_vars(Register(r) /\ reg[r] = "off") /\ WF_vars(Shutdown(r))
    /\ \A n \in Procs : WF_vars(Bind(n)) /\ WF_vars(Healthy(n)) /\ WF_vars(Dies(n))
                        /\ WF_vars((TimesOut(n) \/ Stopped(n)) /\ faults' = faults)
FairSpec == Spec /\ Fairness

-----------------------------------------------------------------------------
(* Properties.                                                              *)

\* The plugin never ends its sidecar, or tries to, under a registration that still
\* counts on it, whatever joins, shuts down or races for the endpoint.
StopsForTheLast ==
    [][\A n \in Procs : child[n] \notin {"dying", "lost"} /\ child'[n] \in {"dying", "lost"} =>
         \A r \in Mine(n) : reg'[r] # "ready"]_vars

\* When the last registration of a process has closed or failed, the process
\* has no sidecar left that it started, but one that its signal did not reach
\* (a stray: its shell hid it, or the signal failed).
NoneLeftBehind ==
    \A n \in Procs :
        (\A r \in Mine(n) : reg[r] \in {"failed", "closed"}) => child[n] \notin Alive

\* What a process started, it stops: for the last registration, and then surely.
StopsForTheLastOnly == StopsForTheLast /\ []NoneLeftBehind

\* Every registration closes.
EveryoneCloses == <>(\A r \in Regs : reg[r] = "closed")

=============================================================================
