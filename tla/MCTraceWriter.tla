---------------------------- MODULE MCTraceWriter ----------------------------
(***************************************************************************)
(* The trace of one runtime: what becomes of its records between the handlers *)
(* and the files, and, apart from that, what the proxy says of model calls: two *)
(* that are streamed at the same time, or one that is not and so shares nothing *)
(* with them.                                                                 *)
(***************************************************************************)
EXTENDS TraceWriter
CONSTANTS r1
OneRuntime == [x \in Spans \cup Captures |-> r1]

CONSTANTS Calls, Streamed, CallOf, Replies, s1, s2, a1
VARIABLES call, activity, released, shut
Proxy == INSTANCE LlmProxy
proxyVars == <<call, activity, released, shut>>
ASSUME Proxy!ReplyAssumption

MCCallOf == [c \in Calls |-> r1]
Says(status, events) == [status |-> status, events |-> events]
Long == {Says(200, <<"role", "thought", "done">>), Says(200, <<"text", "text">>),
         Says(200, <<"text", "error", "done">>), Says(200, <<"role", "done">>),
         Says(200, <<"done", "text">>)}
Short == {Says(200, <<"text">>), Says(500, <<"error">>), Says(500, <<>>), Says(200, <<>>)}
MCReplies == [c \in Calls |-> IF c = s1 THEN Long ELSE Short]

VARIABLE part

AllInit ==
    /\ Init /\ Proxy!Init
    /\ part \in {"writer", "streams", "plain"}

AllNext ==
    /\ \/ part = "writer" /\ Next /\ UNCHANGED proxyVars
       \/ part = "streams" /\ Proxy!Next /\ call'[a1] = call[a1] /\ UNCHANGED vars
       \/ part = "plain" /\ Proxy!Next /\ (\A s \in Streamed : call'[s] = call[s]) /\ UNCHANGED vars
    /\ UNCHANGED part

AllSpec == AllInit /\ [][AllNext]_<<vars, proxyVars, part>>

\* What the proxy records of a call is what its client was answered, and an idle
\* runtime has left its records (LlmProxy).
CapturedAsAnswered == Proxy!CapturedAsAnswered
=============================================================================
