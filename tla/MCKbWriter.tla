----------------------------- MODULE MCKbWriter -----------------------------
(* Either one execution learns everything and its process may die and start  *)
(* again, or the finish of one execution and the completion of another, whose *)
(* finish found no rows, run concurrently in a process that lives on.         *)
EXTENDS KbWriter

CONSTANTS e1, e2

Alone == InitAt((e1 :> "past") @@ (e2 :> "new"), 0)
Together == InitAt((e1 :> "new") @@ (e2 :> "finished"), MaxStops)

EitherSpec == (Alone \/ Together) /\ [][Next]_vars /\ Fairness
=============================================================================
