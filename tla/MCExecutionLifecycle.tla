------------------------ MODULE MCExecutionLifecycle ------------------------
(* Either a launched execution is alone and everything may happen to it: its  *)
(* report repeated, its completion yielded, failed or retried; or it shares    *)
(* the runtime with a marker execution, a scope handler that works through a   *)
(* list, an abort and a drain, and no completion comes.                        *)
EXTENDS ExecutionLifecycle

CONSTANTS launched, marker
VARIABLE others

EitherInit == Init /\ others \in {o \in BOOLEAN : o => yielding = {}}

EitherNext ==
    /\ Next
    /\ IF others THEN completion' = completion /\ reports'[launched] <= 1
                 ELSE record'[marker] = "none"
    /\ UNCHANGED others

EitherSpec == EitherInit /\ [][EitherNext]_<<vars, others>> /\ Fairness
=============================================================================
