-------------------------- MODULE AcknowledgedStore --------------------------
(* What the write-behind components promise: items become durable at any     *)
(* time and stay durable, and whatever has been acknowledged is durable.     *)
(* TraceWriter and KbWriter implement it.                                    *)

VARIABLES durable,  \* items that survive a crash
          acked     \* items a caller was told are safe

Init == durable = {} /\ acked = {}

Step == durable \subseteq durable' /\ acked \subseteq acked' /\ acked' \subseteq durable'

Spec == Init /\ [][Step]_<<durable, acked>>
=============================================================================
