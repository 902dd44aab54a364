----------------------------- MODULE KbWriterProofs -----------------------------
(***************************************************************************)
(* Proofs about KbWriter for any executions, flushers, batch size and number *)
(* of processes.  What a bounded run might hide is a longer queue: barriers  *)
(* behind several batches of which some failed, a second close behind a      *)
(* failed one, a restart after many commits.                                 *)
(***************************************************************************)
EXTENDS KbWriter, FiniteSetTheorems, TLAPS

\* Any process of the run, a first one or one whose executions have come so far.
AnyStart ==
    \E progress \in [Executions -> {"new", "finished", "past"}], ended \in 0 .. MaxStops :
        InitAt(progress, ended)
AnySpec == AnyStart /\ [][Next]_vars

Items == {Update(o) : o \in Observations} \cup {Barrier(f) : f \in Flushers} \cup {Stop}
Published == ToSet(lattice)
Kept == ToSet(retry)
Pending == worker \in {"got", "collect", "apply"}   \* the hand is not applied yet

WriterTypeOK ==
    /\ op \in [Executions -> {"new", "finishing", "learned", "finished",
                              "completing", "labelled", "completed", "past"}]
    /\ closer \in {"open", "fenced", "waiting", "raised", "closed"}
    /\ learned \in [Direct -> SUBSET Observations]
    /\ lattice \in Seq(Observations) /\ retry \in Seq(Observations)
    /\ queue \in Seq(Items) /\ hand \in Seq(Items)
    /\ worker \in {"none", "get", "idle", "got", "collect", "apply", "capture",
                   "write", "resolve", "resolved"}
    /\ DOMAIN captured \subseteq Backends
    /\ \A b \in DOMAIN captured : captured[b] \subseteq Observations
    /\ shutdown \in {"none", "pending", "ok", "error"}
    /\ work \in [Backends -> SUBSET Observations]
    /\ committed \in [Backends -> SUBSET Observations]
    /\ acked \in [Backends -> SUBSET Observations]
    /\ promised \in [Flushers -> [Backends -> SUBSET Observations]]
    /\ flush \in [Flushers -> {"new", "waiting", "ok", "error", "timeout", "refused"}]
    /\ stops \in 0 .. MaxStops

\* A round is some updates with at most one barrier behind them.
HandShape ==
    /\ hand = <<>> <=> worker \in {"none", "get", "idle"}
    /\ \A i \in DOMAIN hand : IsBarrier(hand[i]) => i = Len(hand)
    /\ worker = "collect" => ~HasBarrier(hand)
    /\ worker \in {"capture", "write"} => HasBarrier(hand)

ShapeInv == WriterTypeOK /\ HandShape

-----------------------------------------------------------------------------
(* Exactly once.                                                            *)

\* An observation appears only when its operation has come so far.
Known(o) ==
    \/ o[2] = "resource" /\ op[o[1]] \notin {"new", "finishing"}
    \/ o[2] = "memory" /\ op[o[1]] \in {"labelled", "completed", "past"}
Sent(o) == Known(o) /\ (o[2] = "resource" => op[o[1]] # "learned")

DistinctUpdates(items) ==
    \A i, j \in DOMAIN items : ~IsBarrier(items[i]) /\ items[i] = items[j] => i = j

\* Published, kept for retry, in the hand or queued: one of them, once.
OnePlace ==
    /\ IsInjective(lattice) /\ IsInjective(retry)
    /\ DistinctUpdates(hand) /\ DistinctUpdates(queue)
    /\ Published \cap Kept = {}
    /\ Updates(queue) \cap (Published \cup Kept \cup Updates(hand)) = {}
    /\ Pending => Updates(hand) \cap (Published \cup Kept) = {}
    /\ ~Pending => Updates(hand) \subseteq Published \cup Kept

LearnedIsSent ==
    /\ \A o \in learned["clause"] : Known(o)
    /\ \A o \in learned["clause"] : o \in Submitted \/ op[o[1]] \in {"learned", "past"}
    /\ \A o \in Submitted : Sent(o) /\ o \in learned["clause"]
    /\ \A e \in Executions : op[e] = "learned" => <<e, "resource">> \in learned["clause"]

OnceInv == OnePlace /\ LearnedIsSent

-----------------------------------------------------------------------------
(* Durable and in step.                                                     *)

\* What the working snapshot of a backend is when the current save has ended.
Upcoming(b) == IF b \in DOMAIN captured THEN captured[b] ELSE work[b]

SavedIsInMemory ==
    \A b \in Backends :
        /\ committed[b] \subseteq work[b]
        /\ work[b] \subseteq Upcoming(b)
        /\ Upcoming(b) \subseteq InMemory(b)

InStep ==
    /\ worker = "write" /\ ~failed => Upcoming("lattice") \subseteq Upcoming("clause")
    /\ committed["lattice"] \subseteq committed["clause"]

DiskInv == SavedIsInMemory /\ InStep

\* What a barrier promises is ahead of it until it is saved.
Queued(k) == {queue[i].obs : i \in {j \in 1 .. k - 1 : ~IsBarrier(queue[j])}}
Ahead(k) == Published \cup Kept \cup Updates(hand) \cup Queued(k)

PromiseInv ==
    /\ \A f \in Flushers, k \in DOMAIN queue : queue[k] = Barrier(f) =>
          /\ flush[f] # "new"
          /\ promised[f]["lattice"] \subseteq Ahead(k)
          /\ \A b \in Direct : promised[f][b] \subseteq learned[b]
    /\ \A f \in Flushers : InHand(f) =>
          /\ flush[f] # "new"
          /\ \A b \in Direct : promised[f][b] \subseteq learned[b]
          /\ Pending => promised[f]["lattice"] \subseteq Published \cup Kept \cup Updates(hand)
          /\ worker = "capture" => promised[f]["lattice"] \subseteq Published
          /\ worker = "write" /\ ~failed => \A b \in Backends : promised[f][b] \subseteq Upcoming(b)
          /\ worker = "resolve" /\ ~failed => \A b \in Backends : promised[f][b] \subseteq committed[b]
    /\ \A b \in Backends : acked[b] \subseteq committed[b]

-----------------------------------------------------------------------------
(* Closed.                                                                  *)

\* Nothing is learned once the writer has stopped its intake.
IntakeStopped ==
    /\ closer # "open" => closing
    /\ closer \in {"waiting", "closed"} => ~accepting
    /\ ~accepting => closing /\ Active = {} /\ \A e \in Executions : op[e] # "finished"

\* The last barrier is the last item.
StopIsLast ==
    /\ \A k \in DOMAIN queue : queue[k] = Stop =>
          k = Len(queue) /\ ~accepting /\ shutdown = "pending" /\ ~HasStop
    /\ HasStop => /\ ~accepting /\ queue = <<>> /\ shutdown # "none"
                  /\ worker # "resolved" => shutdown = "pending"
                  /\ worker \in {"capture", "write"} => retry = <<>>
                  /\ worker = "write" /\ ~failed => \A b \in Backends : Upcoming(b) = InMemory(b)
                  /\ worker = "resolve" /\ ~failed =>
                        retry = <<>> /\ \A b \in Backends : committed[b] = InMemory(b)

SavedAtClose ==
    /\ shutdown = "ok" => /\ ~accepting /\ queue = <<>> /\ retry = <<>>
                          /\ worker \in {"none", "get", "idle", "resolved"}
                          /\ \A b \in Backends : committed[b] = InMemory(b)
    /\ closer = "closed" => shutdown = "ok"

ShutInv == IntakeStopped /\ StopIsLast /\ SavedAtClose

\* The inductive invariant.
KbInv == ShapeInv /\ OnceInv /\ DiskInv /\ PromiseInv /\ ShutInv

-----------------------------------------------------------------------------
(* Items and sequences of them.                                             *)

LEMMA ItemFacts ==
    /\ \A o \in Observations : Update(o) \in Items /\ ~IsBarrier(Update(o)) /\ Update(o).obs = o
    /\ \A f \in Flushers : Barrier(f) \in Items /\ IsBarrier(Barrier(f)) /\ Barrier(f) # Stop
    /\ \A f, g \in Flushers : Barrier(f) = Barrier(g) => f = g
    /\ Stop \in Items /\ IsBarrier(Stop)
    /\ \A x \in Items : ~IsBarrier(x) => x.obs \in Observations /\ x = Update(x.obs)
<1> USE DEF Items, Update, Barrier, Stop, IsBarrier
<1>1. \A o \in Observations : Update(o) \in Items /\ ~IsBarrier(Update(o)) /\ Update(o).obs = o
  OBVIOUS
<1>2. \A f \in Flushers : Barrier(f) \in Items /\ IsBarrier(Barrier(f)) /\ Barrier(f) # Stop
  <2> SUFFICES ASSUME NEW f \in Flushers
               PROVE  Barrier(f) \in Items /\ IsBarrier(Barrier(f)) /\ Barrier(f) # Stop
    OBVIOUS
  <2>1. Barrier(f).type # Stop.type
    OBVIOUS
  <2> QED
    BY <2>1
<1>3. \A f, g \in Flushers : Barrier(f) = Barrier(g) => f = g
  <2> SUFFICES ASSUME NEW f \in Flushers, NEW g \in Flushers, Barrier(f) = Barrier(g) PROVE f = g
    OBVIOUS
  <2>1. Barrier(f).by = Barrier(g).by
    OBVIOUS
  <2> QED
    BY <2>1
<1>4. Stop \in Items /\ IsBarrier(Stop)
  OBVIOUS
<1>5. \A x \in Items : ~IsBarrier(x) => x.obs \in Observations /\ x = Update(x.obs)
  OBVIOUS
<1> QED
  BY <1>1, <1>2, <1>3, <1>4, <1>5

LEMMA MemberOf ==
  ASSUME NEW S, NEW s \in Seq(S), NEW i \in 1 .. Len(s)
  PROVE  s[i] \in ToSet(s)
  BY DEF ToSet

LEMMA UpdateOf ==
  ASSUME NEW s \in Seq(Items), NEW i \in 1 .. Len(s), ~IsBarrier(s[i])
  PROVE  s[i].obs \in Updates(s)
  BY DEF Updates

LEMMA ConcatSet ==
  ASSUME NEW S, NEW s \in Seq(S), NEW t \in Seq(S)
  PROVE  /\ s \o t \in Seq(S) /\ ToSet(s \o t) = ToSet(s) \cup ToSet(t)
         /\ IsInjective(s) /\ IsInjective(t) /\ ToSet(s) \cap ToSet(t) = {} => IsInjective(s \o t)
<1> DEFINE c == s \o t
<1>1. /\ c \in Seq(S) /\ Len(c) = Len(s) + Len(t)
      /\ \A i \in 1 .. Len(s) : c[i] = s[i]
      /\ \A i \in 1 .. Len(t) : c[Len(s) + i] = t[i]
      /\ \A i \in 1 .. Len(c) : i \notin 1 .. Len(s) =>
            i - Len(s) \in 1 .. Len(t) /\ c[i] = t[i - Len(s)]
  OBVIOUS
<1> HIDE DEF c
<1>2. ToSet(c) \subseteq ToSet(s) \cup ToSet(t)
  BY <1>1 DEF ToSet
<1>3. ToSet(s) \subseteq ToSet(c)
  BY <1>1 DEF ToSet
<1>4. ToSet(t) \subseteq ToSet(c)
  <2> SUFFICES ASSUME NEW i \in 1 .. Len(t) PROVE t[i] \in ToSet(c)
    BY DEF ToSet
  <2>1. Len(s) + i \in 1 .. Len(c) /\ c[Len(s) + i] = t[i]
    BY <1>1
  <2> QED
    BY <1>1, <2>1, MemberOf
<1>5. IsInjective(s) /\ IsInjective(t) /\ ToSet(s) \cap ToSet(t) = {} => IsInjective(c)
  <2> SUFFICES ASSUME IsInjective(s), IsInjective(t), ToSet(s) \cap ToSet(t) = {},
                      NEW i \in 1 .. Len(c), NEW j \in 1 .. Len(c), c[i] = c[j]
               PROVE  i = j
    BY <1>1 DEF IsInjective
  <2>1. CASE i \in 1 .. Len(s) /\ j \in 1 .. Len(s)
    BY <1>1, <2>1 DEF IsInjective
  <2>2. CASE i \notin 1 .. Len(s) /\ j \notin 1 .. Len(s)
    <3>1. t[i - Len(s)] = t[j - Len(s)] /\ i - Len(s) \in 1 .. Len(t) /\ j - Len(s) \in 1 .. Len(t)
      BY <1>1, <2>2
    <3>2. i - Len(s) = j - Len(s)
      BY <3>1 DEF IsInjective
    <3> QED
      BY <3>2
  <2>3. CASE i \in 1 .. Len(s) /\ j \notin 1 .. Len(s)
    <3>1. c[i] \in ToSet(s) /\ c[j] \in ToSet(t)
      BY <1>1, <2>3, MemberOf
    <3> QED
      BY <3>1
  <2>4. CASE i \notin 1 .. Len(s) /\ j \in 1 .. Len(s)
    <3>1. c[j] \in ToSet(s) /\ c[i] \in ToSet(t)
      BY <1>1, <2>4, MemberOf
    <3> QED
      BY <3>1
  <2> QED
    BY <2>1, <2>2, <2>3, <2>4
<1> QED
  BY <1>1, <1>2, <1>3, <1>4, <1>5 DEF c

LEMMA ConcatUpdates ==
  ASSUME NEW s \in Seq(Items), NEW t \in Seq(Items)
  PROVE  /\ s \o t \in Seq(Items) /\ Updates(s \o t) = Updates(s) \cup Updates(t)
         /\ DistinctUpdates(s) /\ DistinctUpdates(t) /\ Updates(s) \cap Updates(t) = {}
               => DistinctUpdates(s \o t)
<1> DEFINE c == s \o t
<1>1. /\ c \in Seq(Items) /\ Len(c) = Len(s) + Len(t)
      /\ \A i \in 1 .. Len(s) : c[i] = s[i]
      /\ \A i \in 1 .. Len(t) : c[Len(s) + i] = t[i]
      /\ \A i \in 1 .. Len(c) : i \notin 1 .. Len(s) =>
            i - Len(s) \in 1 .. Len(t) /\ c[i] = t[i - Len(s)]
  OBVIOUS
<1> HIDE DEF c
<1>2. Updates(c) \subseteq Updates(s) \cup Updates(t)
  <2> SUFFICES ASSUME NEW i \in 1 .. Len(c), ~IsBarrier(c[i])
               PROVE  c[i].obs \in Updates(s) \cup Updates(t)
    <3>1. c \in Seq(Items)
      BY <1>1
    <3> QED
      BY <3>1 DEF Updates
  <2>1. CASE i \in 1 .. Len(s)
    BY <1>1, <2>1, UpdateOf
  <2>2. CASE i \notin 1 .. Len(s)
    BY <1>1, <2>2, UpdateOf
  <2> QED
    BY <2>1, <2>2
<1>3. Updates(s) \subseteq Updates(c)
  <2> SUFFICES ASSUME NEW i \in 1 .. Len(s), ~IsBarrier(s[i]) PROVE s[i].obs \in Updates(c)
    BY DEF Updates
  <2>1. i \in 1 .. Len(c) /\ c[i] = s[i]
    BY <1>1
  <2> QED
    BY <1>1, <2>1, UpdateOf
<1>4. Updates(t) \subseteq Updates(c)
  <2> SUFFICES ASSUME NEW i \in 1 .. Len(t), ~IsBarrier(t[i]) PROVE t[i].obs \in Updates(c)
    BY DEF Updates
  <2>1. Len(s) + i \in 1 .. Len(c) /\ c[Len(s) + i] = t[i]
    BY <1>1
  <2> QED
    BY <1>1, <2>1, UpdateOf
<1>5. DistinctUpdates(s) /\ DistinctUpdates(t) /\ Updates(s) \cap Updates(t) = {}
        => DistinctUpdates(c)
  <2> SUFFICES ASSUME DistinctUpdates(s), DistinctUpdates(t), Updates(s) \cap Updates(t) = {},
                      NEW i \in 1 .. Len(c), NEW j \in 1 .. Len(c), ~IsBarrier(c[i]), c[i] = c[j]
               PROVE  i = j
    BY <1>1 DEF DistinctUpdates
  <2>1. CASE i \in 1 .. Len(s) /\ j \in 1 .. Len(s)
    BY <1>1, <2>1 DEF DistinctUpdates
  <2>2. CASE i \notin 1 .. Len(s) /\ j \notin 1 .. Len(s)
    <3>1. /\ t[i - Len(s)] = t[j - Len(s)] /\ ~IsBarrier(t[i - Len(s)])
          /\ i - Len(s) \in 1 .. Len(t) /\ j - Len(s) \in 1 .. Len(t)
      BY <1>1, <2>2
    <3>2. i - Len(s) = j - Len(s)
      BY <3>1 DEF DistinctUpdates
    <3> QED
      BY <3>2
  <2>3. CASE i \in 1 .. Len(s) /\ j \notin 1 .. Len(s)
    <3>1. c[i].obs \in Updates(s) /\ c[j].obs \in Updates(t)
      BY <1>1, <2>3, UpdateOf, ZenonT(40)
    <3> QED
      BY <3>1
  <2>4. CASE i \notin 1 .. Len(s) /\ j \in 1 .. Len(s)
    <3>1. c[j].obs \in Updates(s) /\ c[i].obs \in Updates(t)
      BY <1>1, <2>4, UpdateOf
    <3> QED
      BY <3>1
  <2> QED
    BY <2>1, <2>2, <2>3, <2>4
<1> QED
  BY <1>1, <1>2, <1>3, <1>4, <1>5 DEF c

LEMMA OneItem ==
  ASSUME NEW x \in Items
  PROVE  /\ <<x>> \in Seq(Items) /\ DistinctUpdates(<<x>>)
         /\ Updates(<<x>>) = IF IsBarrier(x) THEN {} ELSE {x.obs}
         /\ <<>> \in Seq(Items) /\ Updates(<<>>) = {} /\ DistinctUpdates(<<>>)
<1>1. Len(<<x>>) = 1 /\ <<x>>[1] = x /\ <<x>> \in Seq(Items)
  OBVIOUS
<1>2. Updates(<<x>>) = IF IsBarrier(x) THEN {} ELSE {x.obs}
  BY <1>1 DEF Updates
<1>3. DistinctUpdates(<<x>>) /\ DistinctUpdates(<<>>)
  BY DEF DistinctUpdates
<1>4. <<>> \in Seq(Items) /\ Updates(<<>>) = {}
  BY DEF Updates
<1> QED
  BY <1>1, <1>2, <1>3, <1>4

\* Taking the first item.
LEMMA FirstItem ==
  ASSUME NEW q \in Seq(Items), q # <<>>
  PROVE  /\ Head(q) \in Items /\ Tail(q) \in Seq(Items)
         /\ Updates(q) = Updates(<<Head(q)>>) \cup Updates(Tail(q))
         /\ DistinctUpdates(q) =>
               DistinctUpdates(Tail(q)) /\ Updates(<<Head(q)>>) \cap Updates(Tail(q)) = {}
<1> DEFINE t == Tail(q)
<1>1. /\ Head(q) \in Items /\ t \in Seq(Items) /\ Head(q) = q[1] /\ Len(t) = Len(q) - 1
      /\ Len(q) \in Nat \ {0} /\ \A i \in 1 .. Len(t) : t[i] = q[i + 1]
  OBVIOUS
<1> HIDE DEF t
<1>2. Updates(<<q[1]>>) = IF IsBarrier(q[1]) THEN {} ELSE {q[1].obs}
  BY <1>1, OneItem
<1>3. Updates(q) \subseteq Updates(<<q[1]>>) \cup Updates(t)
  <2> SUFFICES ASSUME NEW i \in 1 .. Len(q), ~IsBarrier(q[i])
               PROVE  q[i].obs \in Updates(<<q[1]>>) \cup Updates(t)
    BY DEF Updates
  <2>1. CASE i = 1
    BY <1>2, <2>1
  <2>2. CASE i # 1
    <3>1. i - 1 \in 1 .. Len(t) /\ t[i - 1] = q[i]
      BY <1>1, <2>2
    <3> QED
      BY <1>1, <3>1 DEF Updates
  <2> QED
    BY <2>1, <2>2
<1>4. Updates(<<q[1]>>) \subseteq Updates(q)
  BY <1>1, <1>2 DEF Updates
<1>5. Updates(t) \subseteq Updates(q)
  <2> SUFFICES ASSUME NEW i \in 1 .. Len(t), ~IsBarrier(t[i]) PROVE t[i].obs \in Updates(q)
    BY <1>1 DEF Updates
  <2>1. i + 1 \in 1 .. Len(q) /\ q[i + 1] = t[i]
    BY <1>1
  <2> QED
    BY <2>1 DEF Updates
<1>6. ASSUME DistinctUpdates(q)
      PROVE  DistinctUpdates(t) /\ Updates(<<q[1]>>) \cap Updates(t) = {}
  <2>1. DistinctUpdates(t)
    <3> SUFFICES ASSUME NEW i \in 1 .. Len(t), NEW j \in 1 .. Len(t), ~IsBarrier(t[i]), t[i] = t[j]
                 PROVE  i = j
      BY <1>1 DEF DistinctUpdates
    <3>1. i + 1 \in 1 .. Len(q) /\ j + 1 \in 1 .. Len(q) /\ q[i + 1] = t[i] /\ q[j + 1] = t[j]
      BY <1>1
    <3>2. i + 1 = j + 1
      BY <1>6, <3>1 DEF DistinctUpdates
    <3> QED
      BY <3>2
  <2>2. ASSUME NEW i \in 1 .. Len(t), ~IsBarrier(t[i]), ~IsBarrier(q[1]), t[i].obs = q[1].obs
        PROVE  FALSE
    <3>1. i + 1 \in 1 .. Len(q) /\ 1 \in 1 .. Len(q) /\ q[i + 1] = t[i]
      BY <1>1
    <3>2. t[i] = q[1]
      BY <1>1, <2>2, <3>1, ItemFacts
    <3>3. i + 1 = 1
      BY <1>6, <2>2, <3>1, <3>2 DEF DistinctUpdates
    <3> QED
      BY <3>3
  <2>3. Updates(<<q[1]>>) \cap Updates(t) = {}
    BY <1>1, <1>2, <2>2 DEF Updates
  <2> QED
    BY <2>1, <2>3
<1> QED
  BY <1>1, <1>3, <1>4, <1>5, <1>6 DEF t

\* The observations of a round.
LEMMA RoundObservations ==
  ASSUME ShapeInv
  PROVE  /\ ObsIn(hand) \in Seq(Observations) /\ ToSet(ObsIn(hand)) = Updates(hand)
         /\ DistinctUpdates(hand) => IsInjective(ObsIn(hand))
<1> DEFINE n == IF HasBarrier(hand) THEN Len(hand) - 1 ELSE Len(hand)
           c == ObsIn(hand)
<1>0. hand \in Seq(Items) /\ \A i \in 1 .. Len(hand) : hand[i] \in Items
  BY DEF ShapeInv, WriterTypeOK
<1>1. n \in Nat /\ \A i \in 1 .. Len(hand) : ~IsBarrier(hand[i]) <=> i \in 1 .. n
  BY <1>0 DEF ShapeInv, HandShape, HasBarrier
<1>2. \A i \in 1 .. n : i \in 1 .. Len(hand) /\ ~IsBarrier(hand[i]) /\ hand[i].obs \in Observations
                          /\ hand[i] = Update(hand[i].obs)
  <2> SUFFICES ASSUME NEW i \in 1 .. n
               PROVE  /\ i \in 1 .. Len(hand) /\ ~IsBarrier(hand[i])
                      /\ hand[i].obs \in Observations /\ hand[i] = Update(hand[i].obs)
    OBVIOUS
  <2>1. i \in 1 .. Len(hand)
    BY <1>0
  <2> QED
    BY <1>0, <1>1, <2>1, ItemFacts
<1>3. c = [i \in 1 .. n |-> hand[i].obs]
  BY DEF ObsIn
<1> HIDE DEF n, c
<1>4. c \in Seq(Observations) /\ Len(c) = n /\ \A i \in 1 .. n : c[i] = hand[i].obs
  BY <1>1, <1>2, <1>3
<1>5. ToSet(c) = Updates(hand)
  <2>1. ToSet(c) = {hand[i].obs : i \in 1 .. n}
    BY <1>1, <1>3 DEF ToSet
  <2>2. 1 .. n = {j \in DOMAIN hand : ~IsBarrier(hand[j])}
    BY <1>0, <1>1, <1>2
  <2> QED
    BY <2>1, <2>2 DEF Updates
<1>6. ASSUME DistinctUpdates(hand), NEW i \in 1 .. n, NEW j \in 1 .. n, c[i] = c[j]
      PROVE  i = j
  <2>1. hand[i] = hand[j]
    BY <1>2, <1>4, <1>6
  <2> QED
    BY <1>0, <1>2, <1>6, <2>1 DEF DistinctUpdates
<1>7. DistinctUpdates(hand) => IsInjective(c)
  BY <1>4, <1>6 DEF IsInjective
<1> QED
  BY <1>4, <1>5, <1>7 DEF c

\* Some order of a finite set.
LEMMA SomeOrder ==
  ASSUME NEW S, IsFiniteSet(S), NEW s \in SetToSeqs(S)
  PROVE  s \in Seq(S) /\ ToSet(s) = S /\ IsInjective(s)
<1>1. Cardinality(S) \in Nat
  BY FS_CardinalityType
<1> DEFINE n == Cardinality(S)
<1>2. s \in [1 .. n -> S] /\ \A i, j \in 1 .. n : i # j => s[i] # s[j]
  BY DEF SetToSeqs
<1>3. s \in Injection(1 .. n, S)
  BY <1>2 DEF Injection, IsInjective
<1>4. Cardinality(1 .. n) = n
  BY <1>1, FS_Interval
<1>5. s \in Surjection(1 .. n, S)
  BY <1>3, <1>4, FS_Injection
<1>6. s \in Seq(S)
  BY <1>1, <1>2
<1>7. ToSet(s) = S
  BY <1>2, <1>5 DEF Surjection, ToSet
<1> QED
  BY <1>2, <1>6, <1>7 DEF IsInjective

\* Some order of the updates for a finite set of observations.
LEMMA SomeUpdates ==
  ASSUME NEW S \in SUBSET Observations, IsFiniteSet(S), NEW s \in SetToSeqs({Update(o) : o \in S})
  PROVE  s \in Seq(Items) /\ Updates(s) = S /\ DistinctUpdates(s)
         /\ \A i \in DOMAIN s : ~IsBarrier(s[i])
<1> DEFINE U == {Update(o) : o \in S}
<1>1. IsFiniteSet(U)
  <2> DEFINE f == [o \in S |-> Update(o)]
  <2>1. f \in Surjection(S, U)
    BY DEF Surjection
  <2> QED
    BY <2>1, FS_Surjection
<1>2. s \in Seq(U) /\ ToSet(s) = U /\ IsInjective(s)
  BY <1>1, SomeOrder
<1>3. \A x \in U : x \in Items /\ ~IsBarrier(x) /\ x.obs \in S /\ x = Update(x.obs)
  BY ItemFacts
<1>4. \A o \in S : Update(o) \in U /\ Update(o).obs = o
  BY ItemFacts
<1> HIDE DEF U
<1>5. s \in Seq(Items) /\ \A i \in DOMAIN s : s[i] \in U
  BY <1>2, <1>3
<1>6. Updates(s) \subseteq S
  BY <1>3, <1>5 DEF Updates
<1>7. S \subseteq Updates(s)
  <2> SUFFICES ASSUME NEW o \in S PROVE o \in Updates(s)
    OBVIOUS
  <2>1. PICK i \in DOMAIN s : s[i] = Update(o)
    BY <1>2, <1>4 DEF ToSet
  <2> QED
    BY <1>3, <1>4, <1>5, <2>1 DEF Updates
<1> QED
  BY <1>2, <1>3, <1>5, <1>6, <1>7 DEF DistinctUpdates, IsInjective

-----------------------------------------------------------------------------
(* Types and the shape of a round.                                          *)

LEMMA StartShape == AnyStart => ShapeInv
<1> SUFFICES ASSUME NEW progress \in [Executions -> {"new", "finished", "past"}],
                    NEW ended \in 0 .. MaxStops, InitAt(progress, ended)
             PROVE  ShapeInv
  BY DEF AnyStart
<1>1. WriterTypeOK
  BY DEF InitAt, WriterTypeOK, NoneLearned, Direct, Backends
<1>2. HandShape
  BY DEF InitAt, HandShape, HasBarrier
<1> QED
  BY <1>1, <1>2 DEF ShapeInv

\* What an operation of the predictor, or the close, changes of the writer.
LEMMA PutShape ==
  ASSUME ShapeInv, NEW items \in Seq(Items), Put(items), UNCHANGED hand
  PROVE  /\ queue' \in Seq(Items) /\ HandShape'
         /\ worker' \in {"none", "get", "idle", "got", "collect", "apply", "capture",
                        "write", "resolve", "resolved"}
  BY DEF ShapeInv, WriterTypeOK, HandShape, HasBarrier, Put

LEMMA LearnType ==
  ASSUME WriterTypeOK, NEW b \in Direct, NEW obs \in SUBSET Observations, Learn(b, obs)
  PROVE  learned' \in [Direct -> SUBSET Observations]
  BY DEF WriterTypeOK, Learn

LEMMA InMemoryType ==
  ASSUME WriterTypeOK, NEW b \in Backends
  PROVE  InMemory(b) \subseteq Observations
  BY DEF WriterTypeOK, InMemory, Backends, Direct, ToSet

LEMMA ObservationKinds ==
  ASSUME NEW e \in Executions
  PROVE  <<e, "resource">> \in Observations /\ <<e, "memory">> \in Observations
         /\ <<e, "call">> \in Observations
  BY DEF Observations

LEMMA OperationShape ==
  ASSUME ShapeInv, NEW e \in Executions, Operation(e)
  PROVE  ShapeInv'
<1> USE ObservationKinds DEF memory, writer, disk, history
<1>1. CASE BeginFinish(e) \/ BeginCompletion(e)
  BY <1>1 DEF ShapeInv, BeginFinish, BeginCompletion, Begin, WriterTypeOK, HandShape, HasBarrier
<1>2. CASE LearnResources(e) \/ LearnCall(e)
  <2>1. learned' \in [Direct -> SUBSET Observations]
    BY <1>2, LearnType DEF LearnResources, LearnCall, ShapeInv, Direct
  <2> QED
    BY <1>2, <2>1, ZenonT(40) DEF ShapeInv, LearnResources, LearnCall, WriterTypeOK, HandShape, HasBarrier
<1>3. CASE EnqueueResources(e)
  <2>1. <<Update(<<e, "resource">>)>> \in Seq(Items)
    BY ItemFacts, OneItem
  <2>2. /\ queue' \in Seq(Items) /\ HandShape'
        /\ worker' \in {"none", "get", "idle", "got", "collect", "apply", "capture",
                       "write", "resolve", "resolved"}
    BY <1>3, <2>1, PutShape DEF EnqueueResources
  <2> QED
    BY <1>3, <2>2 DEF ShapeInv, EnqueueResources, WriterTypeOK
<1>4. CASE LearnMemory(e)
  <2>1. <<Update(<<e, "memory">>)>> \in Seq(Items)
    BY ItemFacts, OneItem
  <2>2. /\ queue' \in Seq(Items) /\ HandShape'
        /\ worker' \in {"none", "get", "idle", "got", "collect", "apply", "capture",
                       "write", "resolve", "resolved"}
    BY <1>4, <2>1, PutShape DEF LearnMemory
  <2>3. learned' \in [Direct -> SUBSET Observations]
    BY <1>4, LearnType DEF LearnMemory, ShapeInv, Direct
  <2> QED
    BY <1>4, <2>2, <2>3 DEF ShapeInv, LearnMemory, WriterTypeOK
<1> QED
  BY <1>1, <1>2, <1>3, <1>4 DEF Operation

LEMMA WorkerShape ==
  ASSUME ShapeInv, Worker
  PROVE  ShapeInv'
<1> USE DEF memory, writer, disk, history
<1>1. CASE Take
  <2>1. /\ Head(queue) \in Items /\ queue' \in Seq(Items) /\ hand' \in Seq(Items)
        /\ hand' # <<>> /\ Len(hand') = 1
    BY <1>1, FirstItem, OneItem DEF Take, ShapeInv, WriterTypeOK
  <2>2. WriterTypeOK'
    BY <1>1, <2>1 DEF Take, ShapeInv, WriterTypeOK
  <2>3. HandShape'
    BY <1>1, <2>1 DEF Take, HandShape
  <2> QED
    BY <2>2, <2>3 DEF ShapeInv
<1>2. CASE TakeTimeout \/ IdleExit \/ MarkInflight
  BY <1>2 DEF TakeTimeout, IdleExit, MarkInflight, ShapeInv, WriterTypeOK, HandShape, HasBarrier
<1>3. CASE Collect
  <2>1. /\ Head(queue) \in Items /\ queue' \in Seq(Items) /\ hand' \in Seq(Items)
        /\ hand \in Seq(Items) /\ hand' # <<>> /\ Len(hand') = Len(hand) + 1
        /\ hand'[Len(hand) + 1] = Head(queue)
        /\ \A i \in 1 .. Len(hand) : hand'[i] = hand[i]
    BY <1>3, FirstItem DEF Collect, ShapeInv, WriterTypeOK
  <2>2. WriterTypeOK'
    BY <1>3, <2>1 DEF Collect, ShapeInv, WriterTypeOK
  <2>3. \A i \in 1 .. Len(hand) : ~IsBarrier(hand[i])
    BY <1>3, <2>1 DEF Collect, ShapeInv, HandShape, HasBarrier
  <2>4. \A i \in 1 .. Len(hand') : IsBarrier(hand'[i]) => i = Len(hand') /\ IsBarrier(Head(queue))
    BY <2>1, <2>3
  <2>5. HandShape'
    BY <1>3, <2>1, <2>4 DEF Collect, HandShape, HasBarrier
  <2> QED
    BY <2>2, <2>5 DEF ShapeInv
<1>4. CASE Apply
  <2>1. retry \o ObsIn(hand) \in Seq(Observations)
        /\ lattice \o (retry \o ObsIn(hand)) \in Seq(Observations)
    BY RoundObservations, ConcatSet DEF ShapeInv, WriterTypeOK
  <2>2. WriterTypeOK'
    <3> DEFINE batch == retry \o ObsIn(hand)
    <3>1. batch \in Seq(Observations) /\ lattice \o batch \in Seq(Observations)
      BY <2>1
    <3>2. Publish(batch) \/ KeepForRetry(batch)
      BY <1>4 DEF Apply
    <3> HIDE DEF batch
    <3>0. <<>> \in Seq(Observations)
      OBVIOUS
    <3>3. lattice' \in Seq(Observations) /\ retry' \in Seq(Observations)
      BY <3>0, <3>1, <3>2 DEF Publish, KeepForRetry, ShapeInv, WriterTypeOK
    <3>4. worker' \in {"capture", "resolve"}
      BY <3>2 DEF Publish, KeepForRetry
    <3> QED
      BY <1>4, <3>3, <3>4 DEF Apply, ShapeInv, WriterTypeOK
  <2>3. HandShape'
    BY <1>4 DEF Apply, Publish, KeepForRetry, ShapeInv, HandShape, HasBarrier
  <2> QED
    BY <2>2, <2>3 DEF ShapeInv
<1>5. CASE Capture
  <2>1. PICK taken \in SUBSET Dirty : captured' = [b \in taken |-> InMemory(b)]
    BY <1>5 DEF Capture
  <2>2. DOMAIN captured' \subseteq Backends
        /\ \A b \in DOMAIN captured' : captured'[b] \subseteq Observations
    BY <2>1, InMemoryType DEF Dirty, ShapeInv
  <2> QED
    BY <1>5, <2>2 DEF Capture, ShapeInv, WriterTypeOK, HandShape, HasBarrier
<1>6. ASSUME NEW b \in Backends, WriteFile(b) PROVE ShapeInv'
  <2>1. work' \in [Backends -> SUBSET Observations]
    BY <1>6 DEF WriteFile, ShapeInv, WriterTypeOK
  <2>2. DOMAIN captured' \subseteq Backends
        /\ \A c \in DOMAIN captured' : captured'[c] \subseteq Observations
    BY <1>6 DEF WriteFile, ShapeInv, WriterTypeOK
  <2> QED
    BY <1>6, <2>1, <2>2 DEF WriteFile, ShapeInv, WriterTypeOK, HandShape, HasBarrier
<1>7. CASE EndPersist
  BY <1>7 DEF EndPersist, ShapeInv, WriterTypeOK, HandShape, HasBarrier
<1>8. CASE Resolve
  <2>1. flush' \in [Flushers -> {"new", "waiting", "ok", "error", "timeout", "refused"}]
    BY <1>8 DEF Resolve, Answer, ShapeInv, WriterTypeOK
  <2>2. acked' \in [Backends -> SUBSET Observations]
    BY <1>8 DEF Resolve, ShapeInv, WriterTypeOK
  <2>3. shutdown' \in {"none", "pending", "ok", "error"}
    BY <1>8 DEF Resolve, Answer, ShapeInv, WriterTypeOK
  <2> QED
    BY <1>8, <2>1, <2>2, <2>3 DEF Resolve, ShapeInv, WriterTypeOK, HandShape, HasBarrier
<1>9. CASE EndRound
  BY <1>9 DEF EndRound, ShapeInv, WriterTypeOK, HandShape, HasBarrier
<1> QED
  BY <1>1, <1>2, <1>3, <1>4, <1>5, <1>6, <1>7, <1>8, <1>9 DEF Worker

\* What close puts behind everything queued.
LEMMA CloseItems ==
  ASSUME NEW waiting \in SUBSET Executions,
         NEW updates \in SetToSeqs({Update(o) : o \in {<<e, "memory">> : e \in waiting}}),
         NEW stop \in {<<>>, <<Stop>>}
  PROVE  /\ updates \in Seq(Items) /\ stop \in Seq(Items) /\ updates \o stop \in Seq(Items)
         /\ Updates(updates \o stop) = {<<e, "memory">> : e \in waiting}
         /\ DistinctUpdates(updates \o stop)
         /\ \A i \in DOMAIN updates : ~IsBarrier(updates[i])
         /\ waiting = {} => updates = <<>>
<1> DEFINE rows == {<<e, "memory">> : e \in waiting}
<1>1. IsFiniteSet(rows)
  <2>1. IsFiniteSet(waiting)
    BY WriterAssumption, FS_Subset
  <2> DEFINE f == [e \in waiting |-> <<e, "memory">>]
  <2>2. f \in Surjection(waiting, rows)
    BY DEF Surjection
  <2> QED
    BY <2>1, <2>2, FS_Surjection
<1>2. rows \in SUBSET Observations
  BY ObservationKinds
<1>3. /\ updates \in Seq(Items) /\ Updates(updates) = rows /\ DistinctUpdates(updates)
      /\ \A i \in DOMAIN updates : ~IsBarrier(updates[i])
  BY <1>1, <1>2, SomeUpdates
<1>4. stop \in Seq(Items) /\ Updates(stop) = {} /\ DistinctUpdates(stop)
  BY ItemFacts, OneItem
<1>5. waiting = {} => updates = <<>>
  <2> SUFFICES ASSUME waiting = {} PROVE updates = <<>>
    OBVIOUS
  <2>1. Updates(updates) = {}
    BY <1>3
  <2>2. ASSUME NEW i \in 1 .. Len(updates) PROVE FALSE
    BY <1>3, <2>1, UpdateOf
  <2> QED
    BY <1>3, <2>2
<1> QED
  BY <1>3, <1>4, <1>5, ConcatUpdates

LEMMA CloseShape ==
  ASSUME ShapeInv, Close
  PROVE  ShapeInv'
<1> USE DEF memory, writer, disk, history
<1>1. CASE CloseFence \/ CloseTimeout \/ CloseFailed \/ CloseDone
  BY <1>1 DEF CloseFence, CloseTimeout, CloseFailed, CloseDone, ShapeInv, WriterTypeOK,
              HandShape, HasBarrier
<1>2. CASE CloseStop
  <2> DEFINE waiting == {e \in Executions : op[e] = "finished"}
             rows == {<<e, "memory">> : e \in waiting}
             stop == IF shutdown = "none" THEN <<Stop>> ELSE <<>>
  <2>1. PICK updates \in SetToSeqs({Update(o) : o \in rows}) : Put(updates \o stop)
    BY <1>2 DEF CloseStop
  <2>2. updates \o stop \in Seq(Items)
    BY <2>1, CloseItems
  <2>3. /\ queue' \in Seq(Items) /\ HandShape'
        /\ worker' \in {"none", "get", "idle", "got", "collect", "apply", "capture",
                       "write", "resolve", "resolved"}
    BY <1>2, <2>1, <2>2, PutShape DEF CloseStop
  <2>4. learned' \in [Direct -> SUBSET Observations]
    BY <1>2, LearnType, ObservationKinds DEF CloseStop, ShapeInv, Direct
  <2>5. op' \in [Executions -> {"new", "finishing", "learned", "finished",
                              "completing", "labelled", "completed", "past"}]
    BY <1>2 DEF CloseStop, ShapeInv, WriterTypeOK
  <2> QED
    BY <1>2, <2>3, <2>4, <2>5 DEF CloseStop, ShapeInv, WriterTypeOK
<1> QED
  BY <1>1, <1>2 DEF Close

\* The state that the next process loads.
LEMMA LoadedLattice ==
  ASSUME ShapeInv, committed["lattice"] \subseteq Published, Loaded(committed)
  PROVE  lattice' \in Seq(Observations) /\ ToSet(lattice') = committed["lattice"]
         /\ IsInjective(lattice')
<1>1. IsFiniteSet(Published)
  <2>1. lattice \in Surjection(1 .. Len(lattice), Published)
    <3>1. lattice \in Seq(Observations)
      BY DEF ShapeInv, WriterTypeOK
    <3>2. DOMAIN lattice = 1 .. Len(lattice) /\ lattice \in [1 .. Len(lattice) -> Published]
      BY <3>1, MemberOf DEF Published
    <3> QED
      BY <3>2 DEF Published, ToSet, Surjection
  <2>2. IsFiniteSet(1 .. Len(lattice))
    BY FS_Interval DEF ShapeInv, WriterTypeOK
  <2> QED
    BY <2>1, <2>2, FS_Surjection
<1>2. IsFiniteSet(committed["lattice"]) /\ committed["lattice"] \subseteq Observations
  BY <1>1, FS_Subset DEF ShapeInv, WriterTypeOK, Backends
<1> QED
  BY <1>2, SomeOrder DEF Loaded

-----------------------------------------------------------------------------
(* Exactly once.                                                            *)

\* Whether an observation is submitted and how far its operation has come decide
\* LearnedIsSent.
LEMMA SentStays ==
  ASSUME LearnedIsSent, UNCHANGED <<op, learned>>, Submitted' = Submitted
  PROVE  LearnedIsSent'
  BY DEF LearnedIsSent, Known, Sent

LEMMA StartOnce == AnyStart => OnceInv
<1> SUFFICES ASSUME NEW progress \in [Executions -> {"new", "finished", "past"}],
                    NEW ended \in 0 .. MaxStops, InitAt(progress, ended)
             PROVE  OnceInv
  BY DEF AnyStart
<1>1. ToSet(lattice) = {} /\ ToSet(retry) = {} /\ Updates(hand) = {} /\ Updates(queue) = {}
  BY DEF InitAt, ToSet, Updates
<1>2. OnePlace
  BY <1>1 DEF InitAt, OnePlace, IsInjective, DistinctUpdates, Published, Kept
<1>3. LearnedIsSent
  BY <1>1 DEF InitAt, LearnedIsSent, Submitted, Direct
<1> QED
  BY <1>2, <1>3 DEF OnceInv

\* An observation of an operation that has not submitted it is nowhere yet.
LEMMA PutOnce ==
  ASSUME ShapeInv, OnePlace, NEW items \in Seq(Items), Put(items),
         DistinctUpdates(items), Updates(items) \cap Submitted = {},
         UNCHANGED <<lattice, retry, hand>>
  PROVE  OnePlace' /\ Submitted' = Submitted \cup Updates(items)
<1>1. queue \in Seq(Items) /\ queue' = queue \o items
  BY DEF ShapeInv, WriterTypeOK, Put
<1>2. /\ Updates(queue') = Updates(queue) \cup Updates(items)
      /\ DistinctUpdates(queue) /\ Updates(queue) \cap Updates(items) = {} => DistinctUpdates(queue')
  BY <1>1, ConcatUpdates
<1>3. Submitted' = Submitted \cup Updates(items)
  BY <1>2 DEF Submitted
<1>4. Pending' <=> Pending
  BY DEF Put, Pending, ShapeInv, WriterTypeOK
<1>5. OnePlace'
  BY <1>2, <1>4 DEF OnePlace, Submitted, Published, Kept
<1> QED
  BY <1>3, <1>5

LEMMA OperationOnce ==
  ASSUME ShapeInv, OnceInv, NEW e \in Executions, Operation(e)
  PROVE  OnceInv'
<1> USE ObservationKinds DEF memory, writer, disk, history, OnceInv
<1>0. \A o \in learned["clause"] \cup Submitted : o \in Observations /\ o = <<o[1], o[2]>> /\ o[1] \in Executions
  BY DEF ShapeInv, WriterTypeOK, Direct, LearnedIsSent, Observations
<1>1. CASE BeginFinish(e) \/ BeginCompletion(e)
  <2>1. OnePlace' /\ Submitted' = Submitted
    BY <1>1 DEF BeginFinish, BeginCompletion, Begin, OnePlace, Published, Kept, Pending, Submitted
  <2>2. /\ learned' = learned
        /\ op \in [Executions -> {"new", "finishing", "learned", "finished",
                              "completing", "labelled", "completed", "past"}]
    BY <1>1 DEF BeginFinish, BeginCompletion, Begin, ShapeInv, WriterTypeOK
  <2>3. LearnedIsSent'
    <3>1. CASE op[e] = "new" /\ op' = [op EXCEPT ![e] = "finishing"]
      BY <1>0, <2>1, <2>2, <3>1 DEF LearnedIsSent, Known, Sent
    <3>2. CASE op[e] = "finished" /\ op' = [op EXCEPT ![e] = "completing"]
      BY <1>0, <2>1, <2>2, <3>2 DEF LearnedIsSent, Known, Sent
    <3> QED
      BY <1>1, <3>1, <3>2 DEF BeginFinish, BeginCompletion, Begin
  <2> QED
    BY <2>1, <2>3
<1>2. CASE LearnResources(e)
  <2>1. OnePlace' /\ Submitted' = Submitted
    BY <1>2 DEF LearnResources, OnePlace, Published, Kept, Pending, Submitted
  <2>2. learned'["clause"] = learned["clause"] \cup {<<e, "resource">>}
    BY <1>2 DEF LearnResources, Learn, ShapeInv, WriterTypeOK, Direct
  <2>3. /\ op' = [op EXCEPT ![e] = "learned"] /\ op[e] = "finishing"
        /\ op \in [Executions -> {"new", "finishing", "learned", "finished",
                              "completing", "labelled", "completed", "past"}]
    BY <1>2 DEF LearnResources, ShapeInv, WriterTypeOK
  <2>4. \A o \in learned["clause"] \cup Submitted : o[1] # e
    BY <2>3, <1>0 DEF LearnedIsSent, Known, Sent
  <2>5. LearnedIsSent'
    BY <1>0, <2>1, <2>2, <2>3, <2>4 DEF LearnedIsSent, Known, Sent
  <2> QED
    BY <2>1, <2>5
<1>3. CASE EnqueueResources(e)
  <2> DEFINE o == <<e, "resource">>
             items == <<Update(o)>>
  <2>1. items \in Seq(Items) /\ DistinctUpdates(items) /\ Updates(items) = {o}
    BY ItemFacts, OneItem
  <2>2. op[e] = "learned" /\ op' = [op EXCEPT ![e] = "finished"]
        /\ op \in [Executions -> {"new", "finishing", "learned", "finished",
                              "completing", "labelled", "completed", "past"}]
    BY <1>3 DEF EnqueueResources, ShapeInv, WriterTypeOK
  <2>3. o \notin Submitted
    BY <2>2 DEF LearnedIsSent, Sent
  <2>4. OnePlace' /\ Submitted' = Submitted \cup {o}
    BY <1>3, <2>1, <2>3, PutOnce DEF EnqueueResources
  <2>5. \A x \in learned["clause"] : x[1] = e => x = o
    BY <1>0, <2>2 DEF LearnedIsSent, Known
  <2>6. o \in learned["clause"] /\ learned' = learned
    BY <1>3, <2>2 DEF EnqueueResources, LearnedIsSent
  <2>7. LearnedIsSent'
    BY <1>0, <2>2, <2>4, <2>5, <2>6 DEF LearnedIsSent, Known, Sent
  <2> QED
    BY <2>4, <2>7
<1>4. CASE LearnMemory(e)
  <2> DEFINE o == <<e, "memory">>
             items == <<Update(o)>>
  <2>1. items \in Seq(Items) /\ DistinctUpdates(items) /\ Updates(items) = {o}
    BY ItemFacts, OneItem
  <2>2. op[e] = "completing" /\ op' = [op EXCEPT ![e] = "labelled"]
        /\ op \in [Executions -> {"new", "finishing", "learned", "finished",
                              "completing", "labelled", "completed", "past"}]
    BY <1>4 DEF LearnMemory, ShapeInv, WriterTypeOK
  <2>3. o \notin Submitted
    BY <2>2 DEF LearnedIsSent, Sent, Known
  <2>4. OnePlace' /\ Submitted' = Submitted \cup {o}
    BY <1>4, <2>1, <2>3, PutOnce DEF LearnMemory
  <2>5. learned'["clause"] = learned["clause"] \cup {o}
    BY <1>4 DEF LearnMemory, Learn, ShapeInv, WriterTypeOK, Direct
  <2>6. LearnedIsSent'
    BY <1>0, <2>2, <2>4, <2>5 DEF LearnedIsSent, Known, Sent
  <2> QED
    BY <2>4, <2>6
<1>5. CASE LearnCall(e)
  <2>1. OnePlace' /\ Submitted' = Submitted
    BY <1>5 DEF LearnCall, OnePlace, Published, Kept, Pending, Submitted
  <2>2. learned'["clause"] = learned["clause"]
    BY <1>5 DEF LearnCall, Learn, ShapeInv, WriterTypeOK, Direct
  <2>3. op[e] = "labelled" /\ op' = [op EXCEPT ![e] = "completed"]
        /\ op \in [Executions -> {"new", "finishing", "learned", "finished",
                              "completing", "labelled", "completed", "past"}]
    BY <1>5 DEF LearnCall, ShapeInv, WriterTypeOK
  <2>4. LearnedIsSent'
    BY <1>0, <2>1, <2>2, <2>3 DEF LearnedIsSent, Known, Sent
  <2> QED
    BY <2>1, <2>4
<1> QED
  BY <1>1, <1>2, <1>3, <1>4, <1>5 DEF Operation

LEMMA FlushOnce ==
  ASSUME ShapeInv, OnceInv, NEW f \in Flushers, Flush(f) \/ FlushTimeout(f)
  PROVE  OnceInv'
<1> USE DEF memory, writer, disk, history, OnceInv
<1>1. CASE Flush(f) /\ accepting
  <2> DEFINE items == <<Barrier(f)>>
  <2>1. items \in Seq(Items) /\ DistinctUpdates(items) /\ Updates(items) = {}
    BY ItemFacts, OneItem
  <2>2. OnePlace' /\ Submitted' = Submitted
    BY <1>1, <2>1, PutOnce DEF Flush
  <2> QED
    BY <1>1, <2>2, SentStays DEF Flush
<1>2. CASE (Flush(f) /\ ~accepting) \/ FlushTimeout(f)
  <2>1. OnePlace' /\ Submitted' = Submitted /\ UNCHANGED <<op, learned>>
    BY <1>2 DEF Flush, FlushTimeout, OnePlace, Published, Kept, Pending, Submitted
  <2> QED
    BY <2>1, SentStays
<1> QED
  BY <1>1, <1>2

LEMMA WorkerOnce ==
  ASSUME ShapeInv, OnceInv, Worker
  PROVE  OnceInv'
<1> USE DEF memory, writer, disk, history, OnceInv
<1>0. UNCHANGED <<op, learned>>
  BY DEF Worker, Take, TakeTimeout, IdleExit, MarkInflight, Collect, Apply, Capture, WriteFile,
         EndPersist, Resolve, EndRound
<1> SUFFICES OnePlace' /\ Submitted' = Submitted
  BY <1>0, SentStays
<1>1. CASE Take
  <2>1. queue \in Seq(Items) /\ queue # <<>> /\ hand = <<>> /\ ~Pending
    BY <1>1 DEF Take, ShapeInv, WriterTypeOK, HandShape, Pending
  <2>2. /\ Updates(queue) = Updates(hand') \cup Updates(queue')
        /\ DistinctUpdates(queue') /\ Updates(hand') \cap Updates(queue') = {}
    BY <1>1, <2>1, FirstItem DEF Take, OnePlace
  <2>3. DistinctUpdates(hand') /\ Updates(hand) = {}
    BY <1>1, <2>1, FirstItem, OneItem DEF Take
  <2>4. lattice' = lattice /\ retry' = retry
    BY <1>1 DEF Take
  <2> QED
    BY <1>1, <2>1, <2>2, <2>3, <2>4 DEF Take, OnePlace, Published, Kept, Submitted, Pending
<1>2. CASE TakeTimeout \/ IdleExit \/ MarkInflight
  BY <1>2 DEF TakeTimeout, IdleExit, MarkInflight, ShapeInv, HandShape, OnePlace, Published, Kept, Submitted, Pending
<1>3. CASE Collect
  <2>1. /\ queue \in Seq(Items) /\ queue # <<>> /\ Head(queue) \in Items /\ hand \in Seq(Items)
        /\ hand' = hand \o <<Head(queue)>> /\ <<Head(queue)>> \in Seq(Items)
    BY <1>3, FirstItem, OneItem DEF Collect, ShapeInv, WriterTypeOK
  <2>2. /\ Updates(queue) = Updates(<<Head(queue)>>) \cup Updates(queue')
        /\ DistinctUpdates(queue') /\ Updates(<<Head(queue)>>) \cap Updates(queue') = {}
    BY <1>3, <2>1, FirstItem DEF Collect, OnePlace
  <2>3. Updates(hand') = Updates(hand) \cup Updates(<<Head(queue)>>) /\ DistinctUpdates(hand')
    BY <2>1, <2>2, ConcatUpdates, OneItem DEF OnePlace
  <2>4. lattice' = lattice /\ retry' = retry /\ Pending /\ Pending'
    BY <1>3 DEF Collect, Pending
  <2> QED
    BY <2>2, <2>3, <2>4 DEF OnePlace, Published, Kept, Submitted
<1>4. CASE Apply
  <2> DEFINE batch == retry \o ObsIn(hand)
  <2>1. /\ lattice \in Seq(Observations) /\ retry \in Seq(Observations) /\ <<>> \in Seq(Observations)
        /\ ObsIn(hand) \in Seq(Observations) /\ ToSet(ObsIn(hand)) = Updates(hand)
        /\ IsInjective(ObsIn(hand))
    BY RoundObservations DEF ShapeInv, WriterTypeOK, OnePlace
  <2>2. Pending /\ ~Pending'
    BY <1>4 DEF Apply, Publish, KeepForRetry, Pending
  <2>3. batch \in Seq(Observations) /\ ToSet(batch) = Kept \cup Updates(hand) /\ IsInjective(batch)
    BY <2>1, <2>2, ConcatSet DEF OnePlace, Kept
  <2>4. ToSet(lattice \o batch) = Published \cup Kept \cup Updates(hand) /\ IsInjective(lattice \o batch)
    <3>1. ToSet(lattice) \cap ToSet(batch) = {} /\ IsInjective(lattice)
      BY <2>2, <2>3 DEF OnePlace, Published
    <3> HIDE DEF batch
    <3>2. ToSet(lattice \o batch) = ToSet(lattice) \cup ToSet(batch) /\ IsInjective(lattice \o batch)
      BY <2>1, <2>3, <3>1, ConcatSet
    <3> QED
      BY <2>3, <3>2 DEF Published
  <2>5. ToSet(<<>>) = {} /\ IsInjective(<<>>)
    BY DEF ToSet, IsInjective
  <2>6. hand' = hand /\ queue' = queue
    BY <1>4 DEF Apply
  <2>7. CASE Publish(batch)
    <3>1. Published' = Published \cup Kept \cup Updates(hand) /\ Kept' = {}
      BY <2>4, <2>5, <2>7 DEF Publish, Published, Kept
    <3>2. IsInjective(lattice') /\ IsInjective(retry')
      BY <2>4, <2>5, <2>7 DEF Publish
    <3> QED
      BY <2>2, <2>6, <3>1, <3>2 DEF OnePlace, Submitted, Published, Kept
  <2>8. CASE KeepForRetry(batch)
    <3>1. Published' = Published /\ Kept' = Kept \cup Updates(hand)
      BY <2>3, <2>8 DEF KeepForRetry, Published, Kept
    <3>2. IsInjective(lattice') /\ IsInjective(retry')
      BY <2>3, <2>8 DEF KeepForRetry, OnePlace
    <3> QED
      BY <2>2, <2>6, <3>1, <3>2 DEF OnePlace, Submitted, Published, Kept
  <2> QED
    BY <1>4, <2>7, <2>8 DEF Apply
<1>5. CASE Capture \/ (\E b \in Backends : WriteFile(b)) \/ EndPersist \/ Resolve
  BY <1>5 DEF Capture, WriteFile, EndPersist, Resolve, OnePlace, Published, Kept, Submitted, Pending
<1>6. CASE EndRound
  <2>1. Updates(hand') = {} /\ DistinctUpdates(hand') /\ ~Pending /\ ~Pending'
    BY <1>6, OneItem, ItemFacts DEF EndRound, Pending
  <2> QED
    BY <1>6, <2>1 DEF EndRound, OnePlace, Published, Kept, Submitted
<1> QED
  BY <1>1, <1>2, <1>3, <1>4, <1>5, <1>6 DEF Worker

LEMMA CloseOnce ==
  ASSUME ShapeInv, OnceInv, Close
  PROVE  OnceInv'
<1> USE DEF memory, writer, disk, history, OnceInv
<1>1. CASE CloseFence \/ CloseTimeout \/ CloseFailed \/ CloseDone
  <2>1. OnePlace' /\ Submitted' = Submitted /\ UNCHANGED <<op, learned>>
    BY <1>1 DEF CloseFence, CloseTimeout, CloseFailed, CloseDone, OnePlace, Published, Kept, Pending,
                Submitted
  <2> QED
    BY <2>1, SentStays
<1>2. CASE CloseStop
  <2> DEFINE waiting == {e \in Executions : op[e] = "finished"}
             rows == {<<e, "memory">> : e \in waiting}
             stop == IF shutdown = "none" THEN <<Stop>> ELSE <<>>
  <2>1. PICK updates \in SetToSeqs({Update(o) : o \in rows}) : Put(updates \o stop)
    BY <1>2 DEF CloseStop
  <2>2. /\ updates \o stop \in Seq(Items) /\ Updates(updates \o stop) = rows
        /\ DistinctUpdates(updates \o stop)
    BY <2>1, CloseItems
  <2>3. rows \cap Submitted = {}
    BY DEF LearnedIsSent, Sent, Known
  <2>4. OnePlace' /\ Submitted' = Submitted \cup rows
    BY <1>2, <2>1, <2>2, <2>3, PutOnce DEF CloseStop
  <2>5. learned'["clause"] = learned["clause"] \cup rows
    BY <1>2 DEF CloseStop, Learn, ShapeInv, WriterTypeOK, Direct
  <2>6. /\ op \in [Executions -> {"new", "finishing", "learned", "finished",
                              "completing", "labelled", "completed", "past"}]
        /\ op' = [e \in Executions |-> IF e \in waiting THEN "completed" ELSE op[e]]
    BY <1>2 DEF CloseStop, ShapeInv, WriterTypeOK
  <2>7. \A o \in learned["clause"] \cup Submitted : o[1] \in Executions
    BY DEF ShapeInv, WriterTypeOK, Direct, LearnedIsSent, Observations
  <2>8. LearnedIsSent'
    BY <2>4, <2>5, <2>6, <2>7 DEF LearnedIsSent, Known, Sent
  <2> QED
    BY <2>4, <2>8
<1> QED
  BY <1>1, <1>2 DEF Close

-----------------------------------------------------------------------------
(* The snapshots.                                                           *)

LEMMA StartDisk == AnyStart => DiskInv
  BY DEF AnyStart, InitAt, DiskInv, SavedIsInMemory, InStep, Upcoming, NoneLearned, Backends

\* Nothing that has been learned is forgotten while the process lives.
LEMMA MemoryGrows ==
  ASSUME ShapeInv, SavedIsInMemory, UNCHANGED <<disk, captured>>,
         \A b \in Backends : InMemory(b) \subseteq InMemory(b)'
  PROVE  SavedIsInMemory'
  BY DEF SavedIsInMemory, Upcoming, disk

LEMMA OperationDisk ==
  ASSUME ShapeInv, DiskInv, NEW e \in Executions, Operation(e)
  PROVE  DiskInv'
<1> USE DEF memory, writer, disk, history
<1>1. \A b \in Backends : InMemory(b) \subseteq InMemory(b)'
  BY DEF Operation, BeginFinish, BeginCompletion, Begin, LearnResources, EnqueueResources, LearnMemory,
         LearnCall, Learn, InMemory, ShapeInv, WriterTypeOK, Direct, Backends
<1>2. UNCHANGED <<work, committed, captured, failed>>
  BY DEF Operation, BeginFinish, BeginCompletion, Begin, LearnResources, EnqueueResources, LearnMemory,
         LearnCall
<1>3. worker' = "write" => worker = "write"
  BY DEF Operation, BeginFinish, BeginCompletion, Begin, LearnResources, EnqueueResources, LearnMemory,
         LearnCall, Put
<1>4. SavedIsInMemory'
  BY <1>1, <1>2, MemoryGrows DEF DiskInv
<1> QED
  BY <1>2, <1>3, <1>4 DEF DiskInv, InStep, Upcoming

LEMMA FlushDisk ==
  ASSUME ShapeInv, DiskInv, NEW f \in Flushers, Flush(f) \/ FlushTimeout(f)
  PROVE  DiskInv'
<1> USE DEF memory, writer, disk, history
<1>1. UNCHANGED <<op, learned, lattice, work, committed, captured, failed>>
  BY DEF Flush, FlushTimeout, Put
<1>2. worker' = "write" => worker = "write"
  BY DEF Flush, FlushTimeout, Put
<1> QED
  BY <1>1, <1>2 DEF DiskInv, SavedIsInMemory, InStep, Upcoming, InMemory

LEMMA CloseDisk ==
  ASSUME ShapeInv, DiskInv, Close
  PROVE  DiskInv'
<1> USE DEF memory, writer, disk, history
<1>1. UNCHANGED <<lattice, work, committed, captured, failed>>
  BY DEF Close, CloseFence, CloseStop, CloseTimeout, CloseFailed, CloseDone, Put
<1>2. worker' = "write" => worker = "write"
  BY DEF Close, CloseFence, CloseStop, CloseTimeout, CloseFailed, CloseDone, Put
<1>3. \A b \in Direct : learned[b] \subseteq learned'[b]
  BY DEF Close, CloseFence, CloseStop, CloseTimeout, CloseFailed, CloseDone, Learn, ShapeInv,
         WriterTypeOK
<1>4. \A b \in Backends : InMemory(b) \subseteq InMemory(b)'
  BY <1>1, <1>3 DEF InMemory, Backends, Direct
<1>5. SavedIsInMemory'
  BY <1>1, <1>4, MemoryGrows DEF DiskInv
<1> QED
  BY <1>1, <1>2, <1>5 DEF DiskInv, InStep, Upcoming

LEMMA WorkerDisk ==
  ASSUME ShapeInv, OnceInv, DiskInv, Worker
  PROVE  DiskInv'
<1> USE DEF memory, writer, disk, history, DiskInv
<1>1. CASE Take \/ TakeTimeout \/ IdleExit \/ MarkInflight \/ Collect \/ Resolve \/ EndRound
  <2>1. UNCHANGED <<learned, lattice, work, committed, captured>> /\ worker' # "write"
    BY <1>1 DEF Take, TakeTimeout, IdleExit, MarkInflight, Collect, Resolve, EndRound
  <2> QED
    BY <2>1 DEF SavedIsInMemory, InStep, Upcoming, InMemory
<1>2. CASE Apply
  <2>1. Published \subseteq ToSet(lattice')
    <3> DEFINE batch == retry \o ObsIn(hand)
    <3>1. lattice \in Seq(Observations) /\ batch \in Seq(Observations)
      BY RoundObservations, ConcatSet DEF ShapeInv, WriterTypeOK
    <3>2. lattice' = lattice \/ lattice' = lattice \o batch
      BY <1>2 DEF Apply, Publish, KeepForRetry
    <3> HIDE DEF batch
    <3>3. ToSet(lattice \o batch) = ToSet(lattice) \cup ToSet(batch)
      BY <3>1, ConcatSet
    <3> QED
      BY <3>2, <3>3 DEF Published
  <2>2. \A b \in Backends : InMemory(b) \subseteq InMemory(b)'
    BY <1>2, <2>1 DEF Apply, InMemory, Published
  <2>3. SavedIsInMemory'
    BY <1>2, <2>2, MemoryGrows DEF Apply
  <2> QED
    BY <1>2, <2>3 DEF Apply, Publish, KeepForRetry, InStep
<1>3. CASE Capture
  <2>1. PICK taken \in SUBSET Dirty :
           /\ captured' = [b \in taken |-> InMemory(b)]
           /\ failed' = IF taken = Dirty THEN FALSE ELSE TRUE
    BY <1>3 DEF Capture
  <2>2. UNCHANGED <<learned, lattice, work, committed>>
    BY <1>3 DEF Capture
  <2>3. \A b \in Backends : Upcoming(b)' = IF b \in taken THEN InMemory(b) ELSE work[b]
    BY <2>1, <2>2 DEF Upcoming
  <2>4. ~failed' => \A b \in Backends : Upcoming(b)' = InMemory(b)
    BY <2>1, <2>3 DEF Dirty
  <2>5. \A b \in Backends : work[b] \subseteq InMemory(b)
    BY DEF SavedIsInMemory
  <2>6. SavedIsInMemory'
    BY <2>2, <2>3, <2>5 DEF SavedIsInMemory, InMemory
  <2>7. InMemory("lattice") \subseteq InMemory("clause")
    BY DEF OnceInv, LearnedIsSent, Submitted, InMemory
  <2>8. InStep'
    BY <2>2, <2>4, <2>7 DEF InStep, Backends
  <2> QED
    BY <2>6, <2>8
<1>4. ASSUME NEW b \in Backends, WriteFile(b) PROVE DiskInv'
  <2>1. /\ b \in DOMAIN captured /\ captured' = [c \in DOMAIN captured \ {b} |-> captured[c]]
        /\ UNCHANGED <<learned, lattice, committed, worker>>
        /\ work \in [Backends -> SUBSET Observations]
    BY <1>4 DEF WriteFile, ShapeInv, WriterTypeOK
  <2>2. CASE work' = [work EXCEPT ![b] = captured[b]] /\ UNCHANGED failed
    <3>1. \A c \in Backends : Upcoming(c)' = Upcoming(c) /\ work[c] \subseteq work'[c]
                                /\ work'[c] \subseteq Upcoming(c)
      BY <2>1, <2>2 DEF Upcoming, SavedIsInMemory
    <3>2. SavedIsInMemory'
      BY <2>1, <3>1 DEF SavedIsInMemory, InMemory
    <3>3. InStep'
      BY <2>1, <2>2, <3>1 DEF InStep, Backends
    <3> QED
      BY <3>2, <3>3
  <2>3. CASE failed' = TRUE /\ UNCHANGED work
    <3>1. \A c \in Backends : Upcoming(c)' \in {work[c], Upcoming(c)}
      BY <2>1, <2>3 DEF Upcoming
    <3> QED
      BY <2>1, <2>3, <3>1 DEF SavedIsInMemory, InMemory, InStep
  <2> QED
    BY <1>4, <2>2, <2>3 DEF WriteFile
<1>5. CASE EndPersist
  <2>1. /\ worker = "write" /\ worker' = "resolve" /\ DOMAIN captured = {}
        /\ UNCHANGED <<learned, lattice, work, captured>>
        /\ (~failed /\ committed' = work) \/ committed' = committed
    BY <1>5 DEF EndPersist
  <2>2. \A b \in Backends : Upcoming(b) = work[b] /\ Upcoming(b)' = work[b]
    BY <2>1 DEF Upcoming
  <2>3. SavedIsInMemory'
    BY <2>1, <2>2 DEF SavedIsInMemory, InMemory
  <2>4. InStep'
    BY <2>1, <2>2 DEF InStep, Backends
  <2> QED
    BY <2>3, <2>4
<1> QED
  BY <1>1, <1>2, <1>3, <1>4, <1>5 DEF Worker

-----------------------------------------------------------------------------
(* What barriers promise.                                                   *)

LEMMA StartPromise == AnyStart => PromiseInv
  BY DEF AnyStart, InitAt, PromiseInv, InHand, NoneLearned

\* A barrier keeps its promise while what is ahead of it only grows.
LEMMA QueuedKept ==
  ASSUME ShapeInv, NEW items \in Seq(Items), queue' = queue \o items,
         NEW k \in DOMAIN queue
  PROVE  k \in DOMAIN queue' /\ queue'[k] = queue[k] /\ Queued(k)' = Queued(k)
<1>1. queue \in Seq(Items)
  BY DEF ShapeInv, WriterTypeOK
<1>2. \A i \in 1 .. Len(queue) : i \in DOMAIN queue' /\ queue'[i] = queue[i]
  BY <1>1
<1>3. k \in 1 .. Len(queue) /\ \A i \in 1 .. k - 1 : i \in 1 .. Len(queue)
  BY <1>1
<1>4. Queued(k)' = Queued(k)
  BY <1>2, <1>3 DEF Queued
<1> QED
  BY <1>2, <1>3, <1>4

\* Operations, flush and close only put something behind what is queued.
LEMMA PutPromise ==
  ASSUME ShapeInv, PromiseInv, NEW items \in Seq(Items),
         queue' = queue \o items,
         \A i \in DOMAIN items : \A f \in Flushers : items[i] # Barrier(f),
         UNCHANGED <<lattice, retry, hand, failed, captured, work, committed, acked, promised>>,
         worker' = worker \/ worker = "none",
         \A b \in Direct : learned[b] \subseteq learned'[b],
         \A f \in Flushers : flush[f] # "new" => flush'[f] # "new"
  PROVE  PromiseInv'
<1>1. queue \in Seq(Items) /\ hand \in Seq(Items) /\ (worker = "none" => hand = <<>>)
  BY DEF ShapeInv, WriterTypeOK, HandShape
<1>2. ASSUME NEW f \in Flushers, NEW k \in DOMAIN queue', queue'[k] = Barrier(f)
      PROVE  /\ flush'[f] # "new" /\ promised'[f]["lattice"] \subseteq Ahead(k)'
             /\ \A b \in Direct : promised'[f][b] \subseteq learned'[b]
  <2>1. k \in DOMAIN queue
    <3> SUFFICES ASSUME k \notin DOMAIN queue PROVE FALSE
      OBVIOUS
    <3>1. k - Len(queue) \in DOMAIN items /\ queue'[k] = items[k - Len(queue)]
      BY <1>1
    <3> QED
      BY <1>2, <3>1
  <2>2. queue'[k] = queue[k] /\ Queued(k)' = Queued(k)
    BY <2>1, QueuedKept
  <2>3. /\ flush[f] # "new" /\ promised[f]["lattice"] \subseteq Ahead(k)
        /\ \A b \in Direct : promised[f][b] \subseteq learned[b]
    BY <1>2, <2>1, <2>2 DEF PromiseInv
  <2>4. Ahead(k)' = Ahead(k)
    BY <2>2 DEF Ahead, Published, Kept
  <2> QED
    BY <2>3, <2>4
<1>3. ASSUME NEW f \in Flushers, InHand(f)'
      PROVE  /\ flush'[f] # "new"
             /\ \A b \in Direct : promised'[f][b] \subseteq learned'[b]
             /\ Pending' => promised'[f]["lattice"] \subseteq (Published \cup Kept \cup Updates(hand))'
             /\ worker' = "capture" => promised'[f]["lattice"] \subseteq Published'
             /\ worker' = "write" /\ ~failed' => \A b \in Backends : promised'[f][b] \subseteq Upcoming(b)'
             /\ worker' = "resolve" /\ ~failed' => \A b \in Backends : promised'[f][b] \subseteq committed'[b]
  <2>1. InHand(f) /\ worker' = worker
    BY <1>1, <1>3 DEF InHand
  <2> QED
    BY <2>1 DEF PromiseInv, Pending, Published, Kept, Upcoming
<1> QED
  BY <1>2, <1>3 DEF PromiseInv

LEMMA OperationPromise ==
  ASSUME ShapeInv, PromiseInv, NEW e \in Executions, Operation(e)
  PROVE  PromiseInv'
<1> USE DEF memory, writer, disk, history
<1>1. UNCHANGED <<lattice, retry, hand, failed, captured, work, committed, acked, promised, flush>>
  BY DEF Operation, BeginFinish, BeginCompletion, Begin, LearnResources, EnqueueResources, LearnMemory,
         LearnCall
<1>2. \A b \in Direct : learned[b] \subseteq learned'[b]
  BY DEF Operation, BeginFinish, BeginCompletion, Begin, LearnResources, EnqueueResources, LearnMemory,
         LearnCall, Learn, ShapeInv, WriterTypeOK
<1>3. CASE EnqueueResources(e) \/ LearnMemory(e)
  <2>1. PICK o \in Observations : Put(<<Update(o)>>)
    BY <1>3, ObservationKinds DEF EnqueueResources, LearnMemory
  <2> DEFINE items == <<Update(o)>>
  <2>2. /\ items \in Seq(Items) /\ \A i \in DOMAIN items : items[i] = Update(o)
        /\ \A f \in Flushers : Update(o) # Barrier(f)
    BY ItemFacts, OneItem
  <2>3. queue' = queue \o items /\ (worker' = worker \/ worker = "none")
    BY <2>1 DEF Put
  <2> HIDE DEF items
  <2> QED
    BY <1>1, <1>2, <2>2, <2>3, PutPromise
<1>4. CASE BeginFinish(e) \/ BeginCompletion(e) \/ LearnResources(e) \/ LearnCall(e)
  <2>1. UNCHANGED <<queue, worker>>
    BY <1>4 DEF BeginFinish, BeginCompletion, Begin, LearnResources, LearnCall
  <2> QED
    BY <1>1, <1>2, <2>1 DEF PromiseInv, Ahead, Queued, Published, Kept, Pending, Upcoming, InHand
<1> QED
  BY <1>3, <1>4 DEF Operation

LEMMA ClosePromise ==
  ASSUME ShapeInv, PromiseInv, Close
  PROVE  PromiseInv'
<1> USE DEF memory, writer, disk, history
<1>1. CASE CloseFence \/ CloseTimeout \/ CloseFailed \/ CloseDone
  BY <1>1 DEF CloseFence, CloseTimeout, CloseFailed, CloseDone, PromiseInv, Ahead, Queued, Published,
              Kept, Pending, Upcoming, InHand
<1>2. CASE CloseStop
  <2> DEFINE waiting == {e \in Executions : op[e] = "finished"}
             rows == {<<e, "memory">> : e \in waiting}
             stop == IF shutdown = "none" THEN <<Stop>> ELSE <<>>
  <2>1. PICK updates \in SetToSeqs({Update(o) : o \in rows}) : Put(updates \o stop)
    BY <1>2 DEF CloseStop
  <2>2. /\ updates \in Seq(Items) /\ stop \in Seq(Items) /\ updates \o stop \in Seq(Items)
        /\ \A i \in DOMAIN updates : ~IsBarrier(updates[i])
    BY <2>1, CloseItems
  <2>3. \A i \in DOMAIN stop : stop[i] = Stop
    OBVIOUS
  <2>4. \A i \in DOMAIN (updates \o stop) : \A f \in Flushers : (updates \o stop)[i] # Barrier(f)
    <3> SUFFICES ASSUME NEW i \in DOMAIN (updates \o stop), NEW f \in Flushers
                 PROVE  (updates \o stop)[i] # Barrier(f)
      OBVIOUS
    <3> HIDE DEF stop
    <3>1. \/ i \in DOMAIN updates /\ (updates \o stop)[i] = updates[i]
          \/ i - Len(updates) \in DOMAIN stop /\ (updates \o stop)[i] = stop[i - Len(updates)]
      BY <2>2
    <3> QED
      BY <2>2, <2>3, <3>1, ItemFacts
  <2>5. queue' = queue \o (updates \o stop) /\ (worker' = worker \/ worker = "none")
    BY <2>1 DEF Put
  <2>6. \A b \in Direct : learned[b] \subseteq learned'[b]
    BY <1>2 DEF CloseStop, Learn, ShapeInv, WriterTypeOK
  <2>7. UNCHANGED <<lattice, retry, hand, failed, captured, work, committed, acked, promised, flush>>
    BY <1>2 DEF CloseStop
  <2> HIDE DEF stop
  <2> QED
    BY <2>2, <2>4, <2>5, <2>6, <2>7, PutPromise
<1> QED
  BY <1>1, <1>2 DEF Close

\* A new barrier promises everything submitted so far.
LEMMA FlushPromise ==
  ASSUME ShapeInv, OnceInv, PromiseInv, NEW f \in Flushers, Flush(f) \/ FlushTimeout(f)
  PROVE  PromiseInv'
<1> USE DEF memory, writer, disk, history
<1>1. CASE (Flush(f) /\ ~accepting) \/ FlushTimeout(f)
  <2>1. /\ UNCHANGED <<lattice, retry, hand, failed, captured, work, committed, acked, promised, learned,
                       queue, worker>>
        /\ \A g \in Flushers : flush[g] # "new" => flush'[g] # "new"
    BY <1>1 DEF Flush, FlushTimeout, ShapeInv, WriterTypeOK
  <2> QED
    BY <2>1 DEF PromiseInv, Ahead, Queued, Published, Kept, Pending, Upcoming, InHand
<1>2. CASE Flush(f) /\ accepting
  <2>0. PICK n : n = Len(queue) + 1
    OBVIOUS
  <2>1. /\ flush[f] = "new" /\ flush' = [flush EXCEPT ![f] = "waiting"]
        /\ promised' = [promised EXCEPT ![f] = ToSave]
        /\ queue' = queue \o <<Barrier(f)>> /\ (worker' = worker \/ worker = "none")
        /\ UNCHANGED <<lattice, learned, retry, hand, failed, captured, work, committed, acked>>
    BY <1>2 DEF Flush, Put
  <2>2. queue \in Seq(Items) /\ <<Barrier(f)>> \in Seq(Items) /\ hand \in Seq(Items)
        /\ (worker = "none" => hand = <<>>) /\ Len(queue) \in Nat
        /\ flush \in [Flushers -> {"new", "waiting", "ok", "error", "timeout", "refused"}]
        /\ promised \in [Flushers -> [Backends -> SUBSET Observations]]
    BY ItemFacts, OneItem DEF ShapeInv, WriterTypeOK, HandShape
  <2>3. /\ DOMAIN queue' = 1 .. n /\ queue'[n] = Barrier(f) /\ DOMAIN queue = 1 .. Len(queue)
        /\ \A k \in 1 .. n : k # n => k \in DOMAIN queue
    BY <2>0, <2>1, <2>2
  <2>4. \A k \in DOMAIN queue : queue'[k] = queue[k] /\ Queued(k)' = Queued(k)
    BY <2>1, <2>2, QueuedKept
  <2>5. \A k \in DOMAIN queue : queue[k] # Barrier(f)
    BY <2>1 DEF PromiseInv
  <2>6. ~InHand(f)
    BY <2>1 DEF PromiseInv
  <2>7. \A g \in Flushers : g # f => flush'[g] = flush[g] /\ promised'[g] = promised[g]
    BY <2>1, <2>2
  <2>8. ASSUME NEW g \in Flushers, NEW k \in DOMAIN queue', queue'[k] = Barrier(g)
        PROVE  /\ flush'[g] # "new" /\ promised'[g]["lattice"] \subseteq Ahead(k)'
               /\ \A b \in Direct : promised'[g][b] \subseteq learned'[b]
    <3>1. CASE k = n
      <4>1. g = f
        BY <2>3, <2>8, <3>1, ItemFacts
      <4>2. flush'[f] = "waiting" /\ promised'[f] = ToSave
        BY <2>1, <2>2
      <4>3. Queued(n)' = Updates(queue)
        <5>1. n - 1 = Len(queue) /\ \A i \in 1 .. Len(queue) : queue'[i] = queue[i]
          BY <2>0, <2>2, <2>3, <2>4
        <5> QED
          BY <2>3, <5>1 DEF Queued, Updates
      <4>4. ToSave["lattice"] = Submitted /\ \A b \in Direct : ToSave[b] = learned[b]
        BY DEF ToSave, Backends, Direct
      <4>5. Ahead(n)' = Submitted
        BY <2>1, <4>3 DEF Ahead, Submitted, Published, Kept
      <4> QED
        BY <2>1, <3>1, <4>1, <4>2, <4>4, <4>5
    <3>2. CASE k # n
      <4>1. k \in DOMAIN queue /\ queue[k] = Barrier(g) /\ g # f
        BY <2>3, <2>4, <2>5, <2>8, <3>2
      <4>2. Ahead(k)' = Ahead(k)
        BY <2>1, <2>4, <4>1 DEF Ahead, Published, Kept
      <4> QED
        BY <2>1, <2>7, <4>1, <4>2 DEF PromiseInv
    <3> QED
      BY <3>1, <3>2
  <2>9. ASSUME NEW g \in Flushers, InHand(g)'
        PROVE  /\ flush'[g] # "new"
               /\ \A b \in Direct : promised'[g][b] \subseteq learned'[b]
               /\ Pending' => promised'[g]["lattice"] \subseteq (Published \cup Kept \cup Updates(hand))'
               /\ worker' = "capture" => promised'[g]["lattice"] \subseteq Published'
               /\ worker' = "write" /\ ~failed' => \A b \in Backends : promised'[g][b] \subseteq Upcoming(b)'
               /\ worker' = "resolve" /\ ~failed' => \A b \in Backends : promised'[g][b] \subseteq committed'[b]
    <3>1. InHand(g) /\ g # f
      BY <2>1, <2>6, <2>9 DEF InHand
    <3>2. worker' = worker
      BY <2>1, <2>2, <3>1 DEF InHand
    <3> QED
      BY <2>1, <2>7, <3>1, <3>2 DEF PromiseInv, Pending, Published, Kept, Upcoming
  <2> QED
    BY <2>1, <2>8, <2>9 DEF PromiseInv
<1> QED
  BY <1>1, <1>2

LEMMA QueuedShift ==
  ASSUME ShapeInv, queue # <<>>, queue' = Tail(queue), NEW k \in DOMAIN queue'
  PROVE  /\ k + 1 \in DOMAIN queue /\ queue'[k] = queue[k + 1]
         /\ Queued(k + 1) = Updates(<<Head(queue)>>) \cup Queued(k)'
<1>1. queue \in Seq(Items) /\ Head(queue) = queue[1] /\ Head(queue) \in Items /\ Len(queue) \in Nat
      /\ DOMAIN queue = 1 .. Len(queue)
  BY DEF ShapeInv, WriterTypeOK
<1>2. /\ DOMAIN queue' = 1 .. Len(queue) - 1 /\ k \in 1 .. Len(queue) - 1
      /\ \A i \in 1 .. Len(queue) - 1 : queue'[i] = queue[i + 1]
  BY <1>1
<1>3. Updates(<<queue[1]>>) = IF IsBarrier(queue[1]) THEN {} ELSE {queue[1].obs}
  BY <1>1, OneItem
<1>4. ASSUME NEW i \in 1 .. k, ~IsBarrier(queue[i])
      PROVE  queue[i].obs \in Updates(<<queue[1]>>) \cup Queued(k)'
  <2>1. CASE i = 1
    BY <1>3, <1>4, <2>1
  <2>2. CASE i # 1
    <3>1. i - 1 \in 1 .. k - 1 /\ queue'[i - 1] = queue[i]
      BY <1>2, <2>2
    <3> QED
      BY <1>4, <3>1 DEF Queued
  <2> QED
    BY <2>1, <2>2
<1>5. ASSUME NEW i \in 1 .. k - 1, ~IsBarrier(queue'[i])
      PROVE  queue'[i].obs \in Queued(k + 1)
  <2>1. i + 1 \in 1 .. (k + 1) - 1 /\ queue'[i] = queue[i + 1]
    BY <1>2
  <2> QED
    BY <1>5, <2>1 DEF Queued
<1>6. Updates(<<queue[1]>>) \subseteq Queued(k + 1)
  <2>1. 1 \in 1 .. (k + 1) - 1
    BY <1>2
  <2> QED
    BY <1>3, <2>1 DEF Queued
<1>7. 1 .. (k + 1) - 1 = 1 .. k
  BY <1>2
<1>8. Queued(k + 1) \subseteq Updates(<<queue[1]>>) \cup Queued(k)'
  BY <1>4, <1>7 DEF Queued
<1>9. Queued(k)' \subseteq Queued(k + 1)
  BY <1>5 DEF Queued
<1> QED
  BY <1>1, <1>2, <1>6, <1>8, <1>9

\* The first item: what it promised is not queued any more.
LEMMA QueuedFirst ==
  ASSUME ShapeInv, queue # <<>>
  PROVE  1 \in DOMAIN queue /\ Head(queue) = queue[1] /\ Queued(1) = {}
<1>1. queue \in Seq(Items)
  BY DEF ShapeInv, WriterTypeOK
<1>2. 1 \in DOMAIN queue /\ Head(queue) = queue[1]
  BY <1>1
<1>3. Queued(1) = {}
  BY DEF Queued
<1> QED
  BY <1>2, <1>3

\* The hand takes the first item, alone or behind what it holds.
LEMMA TakenPromise ==
  ASSUME ShapeInv, PromiseInv, queue # <<>>, queue' = Tail(queue),
         hand' = hand \o <<Head(queue)>>, ~HasBarrier(hand), Pending',
         UNCHANGED <<lattice, learned, retry, committed, acked, promised, flush>>
  PROVE  PromiseInv'
<1>1. /\ queue \in Seq(Items) /\ hand \in Seq(Items) /\ Head(queue) \in Items
      /\ <<Head(queue)>> \in Seq(Items)
  BY FirstItem, OneItem DEF ShapeInv, WriterTypeOK
<1>2. Updates(hand') = Updates(hand) \cup Updates(<<Head(queue)>>)
  BY <1>1, ConcatUpdates
<1>3. ASSUME NEW f \in Flushers, NEW k \in DOMAIN queue', queue'[k] = Barrier(f)
      PROVE  /\ flush'[f] # "new" /\ promised'[f]["lattice"] \subseteq Ahead(k)'
             /\ \A b \in Direct : promised'[f][b] \subseteq learned'[b]
  <2>1. /\ k + 1 \in DOMAIN queue /\ queue[k + 1] = Barrier(f)
        /\ Queued(k + 1) = Updates(<<Head(queue)>>) \cup Queued(k)'
    BY <1>3, QueuedShift
  <2>2. Ahead(k)' = Ahead(k + 1)
    BY <1>2, <2>1 DEF Ahead, Published, Kept
  <2> QED
    BY <2>1, <2>2 DEF PromiseInv
<1>4. ASSUME NEW f \in Flushers, InHand(f)'
      PROVE  /\ flush'[f] # "new"
             /\ \A b \in Direct : promised'[f][b] \subseteq learned'[b]
             /\ promised'[f]["lattice"] \subseteq (Published \cup Kept \cup Updates(hand))'
  <2>1. Head(queue) = Barrier(f)
    <3>1. PICK i \in DOMAIN hand' : hand'[i] = Barrier(f)
      BY <1>4 DEF InHand
    <3>2. \/ i \in DOMAIN hand /\ hand'[i] = hand[i]
          \/ hand'[i] = Head(queue)
      BY <1>1, <3>1
    <3> QED
      BY <3>1, <3>2, ItemFacts DEF HasBarrier
  <2>2. /\ flush[f] # "new" /\ promised[f]["lattice"] \subseteq Ahead(1)
        /\ \A b \in Direct : promised[f][b] \subseteq learned[b]
    BY <2>1, QueuedFirst DEF PromiseInv
  <2>3. Ahead(1) = Published \cup Kept \cup Updates(hand)
    BY QueuedFirst DEF Ahead
  <2> QED
    BY <1>2, <2>2, <2>3 DEF Published, Kept
<1> QED
  BY <1>3, <1>4 DEF PromiseInv, Pending

\* A step that leaves the queue, the hand and what is ahead of them.
LEMMA SamePromises ==
  ASSUME PromiseInv, UNCHANGED <<queue, hand, promised, learned>>,
         (Published \cup Kept \cup Updates(hand))' = Published \cup Kept \cup Updates(hand),
         \A f \in Flushers : flush[f] # "new" => flush'[f] # "new"
  PROVE  /\ \A f \in Flushers, k \in DOMAIN queue' : queue'[k] = Barrier(f) =>
               /\ flush'[f] # "new"
               /\ promised'[f]["lattice"] \subseteq Ahead(k)'
               /\ \A b \in Direct : promised'[f][b] \subseteq learned'[b]
         /\ \A f \in Flushers : InHand(f)' =>
               InHand(f) /\ flush'[f] # "new" /\ \A b \in Direct : promised'[f][b] \subseteq learned'[b]
<1>1. \A k \in DOMAIN queue : Ahead(k)' = Ahead(k)
  BY DEF Ahead, Queued
<1>2. \A f \in Flushers : InHand(f)' <=> InHand(f)
  BY DEF InHand
<1> QED
  BY <1>1, <1>2 DEF PromiseInv

LEMMA WorkerPromise ==
  ASSUME ShapeInv, OnceInv, DiskInv, PromiseInv, Worker
  PROVE  PromiseInv'
<1> USE DEF memory, writer, disk, history
<1>1. CASE Take
  <2>1. queue # <<>> /\ queue \in Seq(Items) /\ hand = <<>> /\ ~HasBarrier(hand)
    BY <1>1 DEF Take, ShapeInv, WriterTypeOK, HandShape, HasBarrier
  <2>2. hand' = hand \o <<Head(queue)>>
    BY <1>1, <2>1, FirstItem, OneItem DEF Take
  <2>3. /\ queue' = Tail(queue) /\ Pending'
        /\ UNCHANGED <<lattice, learned, retry, committed, acked, promised, flush>>
    BY <1>1 DEF Take, Pending
  <2> QED
    BY <2>1, <2>2, <2>3, TakenPromise
<1>2. CASE Collect
  <2>1. /\ queue # <<>> /\ queue \in Seq(Items) /\ hand \in Seq(Items) /\ ~HasBarrier(hand)
        /\ queue' = Tail(queue) /\ hand' = Append(hand, Head(queue)) /\ Pending'
        /\ UNCHANGED <<lattice, learned, retry, committed, acked, promised, flush>>
    BY <1>2 DEF Collect, Pending, ShapeInv, WriterTypeOK, HandShape
  <2>2. hand' = hand \o <<Head(queue)>>
    BY <2>1, FirstItem
  <2> QED
    BY <2>1, <2>2, TakenPromise
<1>3. CASE TakeTimeout \/ IdleExit \/ MarkInflight
  BY <1>3 DEF TakeTimeout, IdleExit, MarkInflight, PromiseInv, Ahead, Queued, Published, Kept, Pending,
              InHand, ShapeInv, HandShape
<1>4. CASE Apply
  <2> DEFINE batch == retry \o ObsIn(hand)
  <2>1. /\ lattice \in Seq(Observations) /\ batch \in Seq(Observations)
        /\ ToSet(batch) = Kept \cup Updates(hand)
    BY RoundObservations, ConcatSet DEF ShapeInv, WriterTypeOK, Kept
  <2>2. /\ UNCHANGED <<queue, hand, promised, learned, committed, acked, flush>> /\ Pending
        /\ (Publish(batch) \/ KeepForRetry(batch))
    BY <1>4 DEF Apply, Pending
  <2> HIDE DEF batch
  <2>3. CASE Publish(batch)
    <3>1. Published' = Published \cup Kept \cup Updates(hand) /\ Kept' = {}
      <4>1. ToSet(lattice \o batch) = ToSet(lattice) \cup ToSet(batch)
        BY <2>1, ConcatSet
      <4>2. ToSet(<<>>) = {}
        BY DEF ToSet
      <4> QED
        BY <2>1, <2>3, <4>1, <4>2 DEF Publish, Published, Kept
    <3>2. (Published \cup Kept \cup Updates(hand))' = Published \cup Kept \cup Updates(hand)
      BY <2>2, <3>1
    <3>3. worker' \in {"capture", "resolve"} /\ (worker' = "resolve" => ~HasBarrier(hand))
      BY <2>3 DEF Publish
    <3>4. \A f \in Flushers : InHand(f) => HasBarrier(hand)
      BY ItemFacts DEF InHand, HasBarrier
    <3> QED
      BY <2>2, <3>1, <3>2, <3>3, <3>4, SamePromises DEF PromiseInv, Pending
  <2>4. CASE KeepForRetry(batch)
    <3>1. Published' = Published /\ Kept' = Kept \cup Updates(hand)
      BY <2>1, <2>4 DEF KeepForRetry, Published, Kept
    <3>2. (Published \cup Kept \cup Updates(hand))' = Published \cup Kept \cup Updates(hand)
      BY <2>2, <3>1
    <3>3. worker' = "resolve" /\ failed' = TRUE
      BY <2>4 DEF KeepForRetry
    <3> QED
      BY <2>2, <3>2, <3>3, SamePromises DEF PromiseInv, Pending
  <2> QED
    BY <2>2, <2>3, <2>4
<1>5. CASE Capture
  <2>1. /\ worker = "capture" /\ worker' = "write"
        /\ UNCHANGED <<queue, hand, promised, learned, lattice, retry, work, committed, acked, flush>>
    BY <1>5 DEF Capture
  <2>2. ~failed' => \A b \in Backends : Upcoming(b)' = InMemory(b)
    <3>1. PICK taken \in SUBSET Dirty :
             /\ captured' = [b \in taken |-> InMemory(b)]
             /\ failed' = IF taken = Dirty THEN FALSE ELSE TRUE
      BY <1>5 DEF Capture
    <3> QED
      BY <2>1, <3>1 DEF Upcoming, Dirty
  <2>3. \A f \in Flushers : InHand(f) => \A b \in Backends : promised[f][b] \subseteq InMemory(b)
    BY <2>1 DEF PromiseInv, InMemory, Published, Backends, Direct
  <2>4. (Published \cup Kept \cup Updates(hand))' = Published \cup Kept \cup Updates(hand)
    BY <2>1 DEF Published, Kept
  <2> QED
    BY <2>1, <2>2, <2>3, <2>4, SamePromises DEF PromiseInv, Pending
<1>6. ASSUME NEW b \in Backends, WriteFile(b) PROVE PromiseInv'
  <2>1. /\ worker = "write" /\ worker' = "write" /\ b \in DOMAIN captured
        /\ captured' = [c \in DOMAIN captured \ {b} |-> captured[c]]
        /\ UNCHANGED <<queue, hand, promised, learned, lattice, retry, committed, acked, flush>>
        /\ work \in [Backends -> SUBSET Observations]
    BY <1>6 DEF WriteFile, ShapeInv, WriterTypeOK
  <2>2. ~failed' => ~failed /\ \A c \in Backends : Upcoming(c)' = Upcoming(c)
    <3>1. CASE work' = [work EXCEPT ![b] = captured[b]] /\ UNCHANGED failed
      BY <2>1, <3>1 DEF Upcoming
    <3>2. CASE failed' = TRUE
      BY <3>2
    <3> QED
      BY <1>6, <3>1, <3>2 DEF WriteFile
  <2>3. (Published \cup Kept \cup Updates(hand))' = Published \cup Kept \cup Updates(hand)
    BY <2>1 DEF Published, Kept
  <2> QED
    BY <2>1, <2>2, <2>3, SamePromises DEF PromiseInv, Pending
<1>7. CASE EndPersist
  <2>1. /\ worker = "write" /\ worker' = "resolve" /\ DOMAIN captured = {}
        /\ UNCHANGED <<queue, hand, promised, learned, lattice, retry, work, acked, flush>>
        /\ (~failed /\ committed' = work) \/ (failed' = TRUE /\ committed' = committed)
    BY <1>7 DEF EndPersist
  <2>2. \A b \in Backends : Upcoming(b) = work[b] /\ committed[b] \subseteq work[b]
    BY <2>1 DEF Upcoming, DiskInv, SavedIsInMemory
  <2>3. (Published \cup Kept \cup Updates(hand))' = Published \cup Kept \cup Updates(hand)
    BY <2>1 DEF Published, Kept
  <2>4. \A b \in Backends : acked'[b] \subseteq committed'[b]
    BY <2>1, <2>2 DEF PromiseInv
  <2> QED
    BY <2>1, <2>2, <2>3, <2>4, SamePromises DEF PromiseInv, Pending
<1>8. CASE Resolve
  <2>1. /\ worker = "resolve" /\ worker' = "resolved"
        /\ UNCHANGED <<queue, hand, promised, learned, lattice, retry, work, committed>>
        /\ \A f \in Flushers : flush[f] # "new" => flush'[f] # "new"
    BY <1>8 DEF Resolve, Answer
  <2>2. \A f \in Flushers : flush'[f] = "ok" /\ flush[f] # "ok" => InHand(f) /\ ~failed
    BY <1>8 DEF Resolve, Answer
  <2>3. \A b \in Backends : acked'[b] =
           acked[b] \cup UNION {promised[f][b] : f \in {g \in Flushers : flush'[g] = "ok" /\ flush[g] # "ok"}}
    BY <1>8 DEF Resolve
  <2>4. \A b \in Backends : acked'[b] \subseteq committed'[b]
    BY <2>1, <2>2, <2>3 DEF PromiseInv
  <2>5. (Published \cup Kept \cup Updates(hand))' = Published \cup Kept \cup Updates(hand)
    BY <2>1 DEF Published, Kept
  <2> QED
    BY <2>1, <2>4, <2>5, SamePromises DEF PromiseInv, Pending
<1>9. CASE EndRound
  <2>1. /\ hand' = <<>> /\ Updates(hand') = {} /\ Updates(hand) \subseteq Published \cup Kept
        /\ UNCHANGED <<queue, promised, learned, lattice, retry, committed, acked, flush>>
    BY <1>9, OneItem, ItemFacts DEF EndRound, OnceInv, OnePlace, Pending
  <2>2. \A k \in DOMAIN queue : Ahead(k)' = Ahead(k)
    BY <2>1 DEF Ahead, Queued, Published, Kept
  <2>3. \A f \in Flushers : ~InHand(f)'
    BY <2>1 DEF InHand
  <2> QED
    BY <2>1, <2>2, <2>3 DEF PromiseInv
<1> QED
  BY <1>1, <1>2, <1>3, <1>4, <1>5, <1>6, <1>7, <1>8, <1>9 DEF Worker

-----------------------------------------------------------------------------
(* The last save.                                                           *)

LEMMA StartShut == AnyStart => ShutInv
  BY DEF AnyStart, InitAt, ShutInv, IntakeStopped, StopIsLast, SavedAtClose, HasStop

LEMMA OperationShut ==
  ASSUME ShapeInv, ShutInv, NEW e \in Executions, Operation(e)
  PROVE  ShutInv'
<1> USE DEF memory, writer, disk, history, ShutInv
<1>1. accepting
  <2>1. CASE closing
    <3>1. e \in Active
      BY <2>1 DEF Operation, BeginFinish, BeginCompletion, Begin, LearnResources, EnqueueResources,
             LearnMemory, LearnCall, Active
    <3> QED
      BY <3>1 DEF IntakeStopped
  <2> QED
    BY <2>1 DEF IntakeStopped
<1>2. UNCHANGED <<accepting, closing, closer, shutdown, hand>>
  BY DEF Operation, BeginFinish, BeginCompletion, Begin, LearnResources, EnqueueResources, LearnMemory,
         LearnCall
<1>3. \A k \in DOMAIN queue' : queue'[k] # Stop
  <2>1. queue \in Seq(Items) /\ \A k \in DOMAIN queue : queue[k] # Stop
    BY <1>1 DEF StopIsLast, ShapeInv, WriterTypeOK
  <2>2. CASE EnqueueResources(e) \/ LearnMemory(e)
    <3>1. PICK o \in Observations : queue' = queue \o <<Update(o)>>
      BY <2>2, ObservationKinds DEF EnqueueResources, LearnMemory, Put
    <3>2. Update(o) # Stop
      BY ItemFacts
    <3> QED
      BY <2>1, <3>1, <3>2
  <2>3. CASE UNCHANGED queue
    BY <2>1, <2>3
  <2> QED
    BY <2>2, <2>3 DEF Operation, BeginFinish, BeginCompletion, Begin, LearnResources, LearnCall
<1> QED
  BY <1>1, <1>2, <1>3 DEF IntakeStopped, StopIsLast, SavedAtClose, HasStop

LEMMA FlushShut ==
  ASSUME ShapeInv, ShutInv, NEW f \in Flushers, Flush(f) \/ FlushTimeout(f)
  PROVE  ShutInv'
<1> USE DEF memory, writer, disk, history, ShutInv
<1>1. CASE Flush(f) /\ accepting
  <2>1. UNCHANGED <<op, accepting, closing, closer, shutdown, hand>> /\ queue' = queue \o <<Barrier(f)>>
    BY <1>1 DEF Flush, Put
  <2>2. queue \in Seq(Items) /\ (\A k \in DOMAIN queue : queue[k] # Stop) /\ Barrier(f) # Stop
    BY <1>1, ItemFacts DEF StopIsLast, ShapeInv, WriterTypeOK
  <2>3. \A k \in DOMAIN queue' : queue'[k] # Stop
    BY <2>1, <2>2
  <2> QED
    BY <1>1, <2>1, <2>3 DEF IntakeStopped, StopIsLast, SavedAtClose, HasStop
<1>2. CASE (Flush(f) /\ ~accepting) \/ FlushTimeout(f)
  BY <1>2 DEF Flush, FlushTimeout, IntakeStopped, StopIsLast, SavedAtClose, HasStop, Active, InMemory,
              Upcoming
<1> QED
  BY <1>1, <1>2

LEMMA CloseShut ==
  ASSUME ShapeInv, ShutInv, Close
  PROVE  ShutInv'
<1> USE DEF memory, writer, disk, history, ShutInv
<1>1. CASE CloseFence \/ CloseTimeout \/ CloseDone
  BY <1>1 DEF CloseFence, CloseTimeout, CloseDone, IntakeStopped, StopIsLast, SavedAtClose,
              HasStop, Active, InMemory, Upcoming
<1>2. CASE CloseFailed
  <2>1. hand = <<>> /\ \A k \in DOMAIN queue : queue[k] # Stop
    BY <1>2 DEF CloseFailed, ShapeInv, HandShape, StopIsLast
  <2> QED
    BY <1>2, <2>1 DEF CloseFailed, IntakeStopped, StopIsLast, SavedAtClose, HasStop, Active
<1>3. CASE CloseStop
  <2> DEFINE waiting == {e \in Executions : op[e] = "finished"}
             rows == {<<e, "memory">> : e \in waiting}
             stop == IF shutdown = "none" THEN <<Stop>> ELSE <<>>
  <2>1. PICK updates \in SetToSeqs({Update(o) : o \in rows}) : Put(updates \o stop)
    BY <1>3 DEF CloseStop
  <2>2. /\ updates \in Seq(Items) /\ stop \in Seq(Items) /\ updates \o stop \in Seq(Items)
        /\ \A i \in DOMAIN updates : ~IsBarrier(updates[i])
        /\ waiting = {} => updates = <<>>
    BY <2>1, CloseItems
  <2>3. /\ closer = "fenced" /\ closer' = "waiting" /\ closing' = closing /\ ~accepting' /\ Active = {}
        /\ UNCHANGED <<lattice, hand, retry, failed, captured, work, committed>>
        /\ op' = [e \in Executions |-> IF e \in waiting THEN "completed" ELSE op[e]]
        /\ op \in [Executions -> {"new", "finishing", "learned", "finished",
                              "completing", "labelled", "completed", "past"}]
        /\ Learn("clause", rows) /\ queue \in Seq(Items)
        /\ shutdown' = IF shutdown = "none" THEN "pending" ELSE shutdown
    BY <1>3 DEF CloseStop, ShapeInv, WriterTypeOK
  <2>4. IntakeStopped'
    BY <2>3 DEF IntakeStopped, Active
  <2>5. queue' = queue \o (updates \o stop) /\ worker' = IF worker = "none" THEN "get" ELSE worker
    BY <2>1 DEF Put
  <2>6. ~accepting => waiting = {} /\ updates = <<>> /\ \A b \in Backends : InMemory(b)' = InMemory(b)
    BY <2>2, <2>3 DEF IntakeStopped, Learn, InMemory, ShapeInv, WriterTypeOK, Direct, Backends
  <2>7. CASE shutdown = "none"
    <3>1. ~HasStop /\ \A k \in DOMAIN queue : queue[k] # Stop
      BY <2>7 DEF StopIsLast
    <3>2. /\ stop = <<Stop>> /\ Len(updates \o stop) = Len(updates) + 1
          /\ \A i \in 1 .. Len(updates) : (updates \o stop)[i] = updates[i]
      BY <2>2, <2>7
    <3>3. \A i \in 1 .. Len(updates) : updates[i] # Stop
      BY <2>2, ItemFacts
    <3>4. \A k \in DOMAIN queue' : queue'[k] = Stop => k = Len(queue')
      <4> SUFFICES ASSUME NEW k \in DOMAIN queue', queue'[k] = Stop PROVE k = Len(queue')
        OBVIOUS
      <4> HIDE DEF stop
      <4>1. k \notin DOMAIN queue
        BY <2>2, <2>3, <2>5, <3>1
      <4>2. k - Len(queue) \in 1 .. Len(updates \o stop) /\ (updates \o stop)[k - Len(queue)] = Stop
        BY <2>2, <2>3, <2>5, <4>1
      <4>3. k - Len(queue) \notin 1 .. Len(updates)
        BY <3>2, <3>3, <4>2
      <4>4. Len(queue') = Len(queue) + Len(updates) + 1
        BY <2>2, <2>3, <2>5, <3>2
      <4> QED
        BY <2>2, <2>3, <3>2, <4>2, <4>3, <4>4
    <3> QED
      BY <2>3, <2>4, <2>7, <3>1, <3>4 DEF StopIsLast, SavedAtClose, HasStop
  <2>8. CASE shutdown # "none"
    <3>1. stop = <<>> /\ shutdown' = shutdown
      BY <2>3, <2>8
    <3>2. CASE ~accepting
      <4>1. queue' = queue /\ \A b \in Backends : InMemory(b)' = InMemory(b)
        BY <2>3, <2>5, <2>6, <3>1, <3>2
      <4> QED
        BY <2>3, <2>4, <2>5, <3>1, <3>2, <4>1 DEF StopIsLast, SavedAtClose, HasStop, Upcoming
    <3>3. CASE accepting
      <4>1. ~HasStop /\ (\A k \in DOMAIN queue : queue[k] # Stop) /\ shutdown # "ok"
        BY <3>3 DEF StopIsLast, SavedAtClose
      <4>2. \A i \in DOMAIN updates : updates[i] # Stop
        BY <2>2, ItemFacts
      <4>3. updates \o stop = updates
        BY <2>2, <3>1
      <4>4. \A k \in DOMAIN queue' : queue'[k] # Stop
        BY <2>2, <2>3, <2>5, <4>1, <4>2, <4>3
      <4> QED
        BY <2>3, <2>4, <3>1, <4>1, <4>4 DEF StopIsLast, SavedAtClose, HasStop
    <3> QED
      BY <3>2, <3>3
  <2> QED
    BY <2>7, <2>8
<1> QED
  BY <1>1, <1>2, <1>3 DEF Close

LEMMA WorkerShut ==
  ASSUME ShapeInv, ShutInv, Worker
  PROVE  ShutInv'
<1> USE DEF memory, writer, disk, history, ShutInv
<1>0. UNCHANGED <<op, closing, closer, accepting, learned>>
  BY DEF Worker, Take, TakeTimeout, IdleExit, MarkInflight, Collect, Apply, Capture, WriteFile,
         EndPersist, Resolve, EndRound
<1>i. IntakeStopped'
  BY <1>0 DEF IntakeStopped, Active
<1> SUFFICES StopIsLast' /\ SavedAtClose'
  BY <1>i
<1>1. CASE Take \/ Collect
  <2>1. /\ queue # <<>> /\ queue \in Seq(Items) /\ hand \in Seq(Items) /\ ~HasStop
        /\ queue' = Tail(queue) /\ worker \in {"get", "collect"} /\ Pending'
        /\ UNCHANGED <<shutdown, lattice, retry>>
    BY <1>1, ItemFacts DEF Take, Collect, ShapeInv, WriterTypeOK, HandShape, HasBarrier, HasStop, Pending
  <2>2. HasStop' => Head(queue) = Stop
    <3>1. CASE Take
      BY <3>1 DEF Take, HasStop
    <3>2. CASE Collect
      <4> SUFFICES ASSUME NEW i \in DOMAIN hand', hand'[i] = Stop PROVE Head(queue) = Stop
        BY DEF HasStop
      <4>1. hand' = Append(hand, Head(queue))
        BY <3>2 DEF Collect
      <4>2. hand'[i] = Head(queue) \/ (i \in DOMAIN hand /\ hand'[i] = hand[i])
        BY <2>1, <4>1
      <4> QED
        BY <2>1, <4>2 DEF HasStop
    <3> QED
      BY <1>1, <3>1, <3>2
  <2>3. shutdown # "ok"
    BY <2>1 DEF SavedAtClose
  <2>4. /\ Head(queue) = queue[1] /\ 1 \in DOMAIN queue /\ Len(queue') = Len(queue) - 1
        /\ \A k \in DOMAIN queue' : k + 1 \in DOMAIN queue /\ queue'[k] = queue[k + 1]
        /\ DOMAIN queue' = 1 .. Len(queue) - 1
    BY <2>1
  <2>5. HasStop' => queue' = <<>> /\ ~accepting /\ shutdown = "pending"
    <3>1. queue[1] = Stop => 1 = Len(queue) /\ ~accepting /\ shutdown = "pending"
      BY <2>4 DEF StopIsLast
    <3> QED
      BY <2>1, <2>2, <2>4, <3>1
  <2>6. \A k \in DOMAIN queue' : queue'[k] = Stop =>
           k + 1 = Len(queue) /\ ~accepting /\ shutdown = "pending"
    BY <2>4 DEF StopIsLast
  <2>7. \A k \in DOMAIN queue' : queue'[k] = Stop => k = Len(queue') /\ ~HasStop'
    <3> SUFFICES ASSUME NEW k \in DOMAIN queue', queue'[k] = Stop PROVE k = Len(queue') /\ ~HasStop'
      OBVIOUS
    <3>1. k + 1 = Len(queue) /\ k \in 1 .. Len(queue) - 1
      BY <2>4, <2>6
    <3>2. queue' # <<>>
      BY <2>1, <2>4, <3>1
    <3> QED
      BY <2>4, <2>5, <3>1, <3>2
  <2>8. worker' \notin {"resolved", "capture", "write", "resolve"}
    BY <2>1 DEF Pending
  <2> QED
    BY <1>0, <2>1, <2>3, <2>5, <2>6, <2>7, <2>8 DEF StopIsLast, SavedAtClose
<1>2. CASE TakeTimeout \/ IdleExit \/ MarkInflight
  BY <1>0, <1>2 DEF TakeTimeout, IdleExit, MarkInflight, StopIsLast, SavedAtClose, HasStop, InMemory,
              Upcoming, ShapeInv, HandShape
<1>3. CASE Apply
  <2>1. /\ UNCHANGED <<queue, hand, shutdown>> /\ worker \in {"collect", "apply"}
        /\ \/ retry' = <<>> /\ worker' \in {"capture", "resolve"}
              /\ (worker' = "resolve" => ~HasBarrier(hand))
           \/ worker' = "resolve" /\ failed' = TRUE
    BY <1>3 DEF Apply, Publish, KeepForRetry
  <2>2. HasStop => HasBarrier(hand)
    BY ItemFacts DEF HasStop, HasBarrier
  <2> QED
    BY <1>0, <2>1, <2>2 DEF StopIsLast, SavedAtClose, HasStop
<1>4. CASE Capture
  <2>1. PICK taken \in SUBSET Dirty :
           /\ captured' = [b \in taken |-> InMemory(b)]
           /\ failed' = IF taken = Dirty THEN FALSE ELSE TRUE
    BY <1>4 DEF Capture
  <2>2. /\ worker = "capture" /\ worker' = "write"
        /\ UNCHANGED <<queue, hand, shutdown, lattice, retry, work, committed>>
    BY <1>4 DEF Capture
  <2>3. ~failed' => \A b \in Backends : Upcoming(b)' = InMemory(b)
    BY <2>1, <2>2 DEF Upcoming, Dirty
  <2>4. \A b \in Backends : InMemory(b)' = InMemory(b)
    BY <1>0, <2>2 DEF InMemory
  <2> QED
    BY <1>0, <2>2, <2>3, <2>4 DEF StopIsLast, SavedAtClose, HasStop
<1>5. ASSUME NEW b \in Backends, WriteFile(b) PROVE StopIsLast' /\ SavedAtClose'
  <2>1. /\ worker = "write" /\ worker' = "write" /\ b \in DOMAIN captured
        /\ captured' = [c \in DOMAIN captured \ {b} |-> captured[c]]
        /\ UNCHANGED <<queue, hand, shutdown, lattice, retry, committed>>
        /\ work \in [Backends -> SUBSET Observations]
    BY <1>5 DEF WriteFile, ShapeInv, WriterTypeOK
  <2>2. ~failed' => ~failed /\ \A c \in Backends : Upcoming(c)' = Upcoming(c)
    <3>1. CASE work' = [work EXCEPT ![b] = captured[b]] /\ UNCHANGED failed
      BY <2>1, <3>1 DEF Upcoming
    <3>2. CASE failed' = TRUE
      BY <3>2
    <3> QED
      BY <1>5, <3>1, <3>2 DEF WriteFile
  <2>3. \A c \in Backends : InMemory(c)' = InMemory(c)
    BY <1>0, <2>1 DEF InMemory
  <2> QED
    BY <1>0, <2>1, <2>2, <2>3 DEF StopIsLast, SavedAtClose, HasStop
<1>6. CASE EndPersist
  <2>1. /\ worker = "write" /\ worker' = "resolve" /\ DOMAIN captured = {}
        /\ UNCHANGED <<queue, hand, shutdown, lattice, retry, work>>
        /\ (~failed /\ committed' = work) \/ (failed' = TRUE /\ committed' = committed)
    BY <1>6 DEF EndPersist
  <2>2. \A b \in Backends : Upcoming(b) = work[b] /\ InMemory(b)' = InMemory(b)
    BY <1>0, <2>1 DEF Upcoming, InMemory
  <2> QED
    BY <1>0, <2>1, <2>2 DEF StopIsLast, SavedAtClose, HasStop
<1>7. CASE Resolve
  <2>1. /\ worker = "resolve" /\ worker' = "resolved"
        /\ UNCHANGED <<queue, hand, lattice, retry, work, committed>>
        /\ shutdown' = IF HasStop THEN (IF failed THEN "error" ELSE "ok") ELSE shutdown
    BY <1>7 DEF Resolve, Answer
  <2>2. \A b \in Backends : InMemory(b)' = InMemory(b)
    BY <1>0, <2>1 DEF InMemory
  <2>3. HasStop' = HasStop
    BY <2>1 DEF HasStop
  <2>4. CASE HasStop
    BY <1>0, <2>1, <2>2, <2>3, <2>4 DEF StopIsLast, SavedAtClose
  <2>5. CASE ~HasStop
    BY <1>0, <2>1, <2>2, <2>3, <2>5 DEF StopIsLast, SavedAtClose
  <2> QED
    BY <2>4, <2>5
<1>8. CASE EndRound
  <2>1. /\ worker' \in {"none", "get"} /\ hand' = <<>>
        /\ UNCHANGED <<queue, shutdown, lattice, retry, committed>>
    BY <1>8 DEF EndRound
  <2>2. ~HasStop' /\ \A b \in Backends : InMemory(b)' = InMemory(b)
    BY <1>0, <2>1 DEF HasStop, InMemory
  <2> QED
    BY <1>0, <2>1, <2>2 DEF StopIsLast, SavedAtClose
<1> QED
  BY <1>1, <1>2, <1>3, <1>4, <1>5, <1>6, <1>7, <1>8 DEF Worker

-----------------------------------------------------------------------------
(* The next process, and the theorems.                                      *)

LEMMA ProcessKbInv == KbInv /\ NextProcess => KbInv'
<1> SUFFICES ASSUME KbInv, NextProcess PROVE KbInv'
  OBVIOUS
<1> USE DEF KbInv
<1>1. committed["lattice"] \subseteq Published
  BY DEF DiskInv, SavedIsInMemory, Upcoming, InMemory, Published, Backends
<1>2. /\ lattice' \in Seq(Observations) /\ ToSet(lattice') = committed["lattice"] /\ IsInjective(lattice')
  BY <1>1, LoadedLattice DEF NextProcess
<1>3. /\ queue' = <<>> /\ worker' = "none" /\ hand' = <<>> /\ retry' = <<>> /\ captured' = <<>>
      /\ shutdown' = "none" /\ closer' = "open" /\ accepting' = TRUE /\ closing' = FALSE
      /\ learned' = [b \in Direct |-> committed[b]] /\ work' = committed
      /\ op' = [e \in Executions |-> IF op[e] = "new" THEN "new" ELSE "past"]
      /\ UNCHANGED <<committed, promised, acked>>
  BY DEF NextProcess, Loaded
<1>4. ShapeInv'
  <2>1. WriterTypeOK'
    <3>1. <<>> \in Seq(Observations) /\ <<>> \in Seq(Items) /\ DOMAIN captured' = {}
      BY <1>3
    <3>2. learned' \in [Direct -> SUBSET Observations]
      BY <1>3 DEF ShapeInv, WriterTypeOK, Direct, Backends
    <3>3. op' \in [Executions -> {"new", "finishing", "learned", "finished",
                              "completing", "labelled", "completed", "past"}]
      BY <1>3
    <3>4. flush' \in [Flushers -> {"new", "waiting", "ok", "error", "timeout", "refused"}]
      BY DEF NextProcess, ShapeInv, WriterTypeOK
    <3>5. stops' \in 0 .. MaxStops
      BY WriterAssumption DEF NextProcess, ShapeInv, WriterTypeOK
    <3> QED
      BY <1>2, <1>3, <3>1, <3>2, <3>3, <3>4, <3>5 DEF ShapeInv, WriterTypeOK
  <2>2. HandShape'
    BY <1>3 DEF HandShape, HasBarrier
  <2> QED
    BY <2>1, <2>2 DEF ShapeInv
<1>5. /\ ToSet(retry') = {} /\ Updates(hand') = {} /\ Updates(queue') = {} /\ IsInjective(retry')
      /\ DistinctUpdates(hand') /\ DistinctUpdates(queue')
  BY <1>3 DEF ToSet, Updates, IsInjective, DistinctUpdates
<1>6. OnceInv'
  <2>1. OnePlace'
    BY <1>2, <1>5 DEF OnePlace, Published, Kept
  <2>2. Submitted' = committed["lattice"] /\ learned'["clause"] = committed["clause"]
    BY <1>2, <1>3, <1>5 DEF Submitted, Direct
  <2>3. committed["clause"] \subseteq learned["clause"] /\ committed["lattice"] \subseteq committed["clause"]
    BY DEF DiskInv, InStep, SavedIsInMemory, Upcoming, InMemory, Backends
  <2>4. \A o \in committed["clause"] : /\ op[o[1]] # "new" /\ (o[2] = "resource" \/ o[2] = "memory")
                                       /\ o[1] \in Executions
    BY <2>3 DEF OnceInv, LearnedIsSent, Known, ShapeInv, WriterTypeOK, Backends, Observations
  <2>5. \A o \in committed["clause"] : Known(o)' /\ Sent(o)' /\ op'[o[1]] = "past"
    BY <1>3, <2>4 DEF Known, Sent
  <2>6. \A e \in Executions : op'[e] # "learned"
    BY <1>3
  <2>7. LearnedIsSent'
    BY <2>2, <2>3, <2>5, <2>6 DEF LearnedIsSent
  <2> QED
    BY <2>1, <2>7 DEF OnceInv
<1>7. DiskInv'
  <2>1. \A b \in Backends : Upcoming(b)' = committed[b] /\ InMemory(b)' = committed[b]
    BY <1>2, <1>3 DEF Upcoming, InMemory, Backends, Direct
  <2> QED
    BY <1>3, <2>1 DEF DiskInv, SavedIsInMemory, InStep
<1>8. PromiseInv'
  BY <1>3 DEF PromiseInv, InHand
<1>9. ShutInv'
  BY <1>3 DEF ShutInv, IntakeStopped, StopIsLast, SavedAtClose, HasStop
<1> QED
  BY <1>4, <1>6, <1>7, <1>8, <1>9

LEMMA StartKbInv == AnyStart => KbInv
  BY StartShape, StartOnce, StartDisk, StartPromise, StartShut DEF KbInv

LEMMA FlushShape ==
  ASSUME ShapeInv, NEW f \in Flushers, Flush(f) \/ FlushTimeout(f)
  PROVE  ShapeInv'
<1> USE DEF memory, writer, disk, history
<1>1. CASE Flush(f) /\ accepting
  <2>1. <<Barrier(f)>> \in Seq(Items)
    BY ItemFacts, OneItem
  <2>2. /\ queue' \in Seq(Items) /\ HandShape'
        /\ worker' \in {"none", "get", "idle", "got", "collect", "apply", "capture",
                       "write", "resolve", "resolved"}
    BY <1>1, <2>1, PutShape DEF Flush
  <2>3. ToSave \in [Backends -> SUBSET Observations]
    <3>1. Submitted \subseteq Observations
      <4>1. ToSet(lattice) \subseteq Observations /\ ToSet(retry) \subseteq Observations
        BY DEF ShapeInv, WriterTypeOK, ToSet
      <4>2. Updates(hand) \subseteq Observations /\ Updates(queue) \subseteq Observations
        BY ItemFacts DEF ShapeInv, WriterTypeOK, Updates
      <4> QED
        BY <4>1, <4>2 DEF Submitted
    <3> QED
      BY <3>1 DEF ToSave, ShapeInv, WriterTypeOK, Backends, Direct
  <2>4. promised' \in [Flushers -> [Backends -> SUBSET Observations]]
    BY <1>1, <2>3 DEF Flush, ShapeInv, WriterTypeOK
  <2>5. flush' \in [Flushers -> {"new", "waiting", "ok", "error", "timeout", "refused"}]
    BY <1>1 DEF Flush, ShapeInv, WriterTypeOK
  <2> QED
    BY <1>1, <2>2, <2>4, <2>5 DEF Flush, ShapeInv, WriterTypeOK
<1>2. CASE (Flush(f) /\ ~accepting) \/ FlushTimeout(f)
  BY <1>2, ZenonT(40) DEF Flush, FlushTimeout, ShapeInv, WriterTypeOK, HandShape, HasBarrier
<1> QED
  BY <1>1, <1>2

LEMMA NextKbInv == KbInv /\ [Next]_vars => KbInv'
<1> SUFFICES ASSUME KbInv, [Next]_vars PROVE KbInv'
  OBVIOUS
<1>1. ASSUME NEW e \in Executions, Operation(e) PROVE KbInv'
  BY <1>1, OperationShape, OperationOnce, OperationDisk, OperationPromise, OperationShut DEF KbInv
<1>2. ASSUME NEW f \in Flushers, Flush(f) \/ FlushTimeout(f) PROVE KbInv'
  BY <1>2, FlushShape, FlushOnce, FlushDisk, FlushPromise, FlushShut DEF KbInv
<1>3. CASE Worker
  BY <1>3, WorkerShape, WorkerOnce, WorkerDisk, WorkerPromise, WorkerShut DEF KbInv
<1>4. CASE Close
  BY <1>4, CloseShape, CloseOnce, CloseDisk, ClosePromise, CloseShut DEF KbInv
<1>5. CASE NextProcess
  BY <1>5, ProcessKbInv
<1>6. CASE UNCHANGED vars
  <2> USE <1>6 DEF vars, memory, writer, disk, history, KbInv
  <2>1. ShapeInv'
    BY DEF ShapeInv, WriterTypeOK, HandShape, HasBarrier
  <2>2. OnceInv'
    BY DEF OnceInv, OnePlace, LearnedIsSent, Published, Kept, Pending, Submitted, Known, Sent
  <2>3. DiskInv'
    BY DEF DiskInv, SavedIsInMemory, InStep, Upcoming, InMemory
  <2>4. PromiseInv'
    BY DEF PromiseInv, Ahead, Queued, Published, Kept, Pending, Upcoming, InHand
  <2>5. ShutInv'
    BY DEF ShutInv, IntakeStopped, StopIsLast, SavedAtClose, HasStop, Active, Upcoming, InMemory
  <2> QED
    BY <2>1, <2>2, <2>3, <2>4, <2>5
<1> QED
  BY <1>1, <1>2, <1>3, <1>4, <1>5, <1>6 DEF Next

LEMMA InitIsAStart == Init => AnyStart
  BY WriterAssumption DEF Init, AnyStart

LEMMA KbInvariant == (Spec => []KbInv) /\ (AnySpec => []KbInv)
  BY InitIsAStart, StartKbInv, NextKbInv, PTL DEF Spec, AnySpec

\* What a flush acknowledged is in the commit and stays there, whatever fails or
\* dies afterwards; a successful close has saved everything (_KnowledgeBaseWrite-
\* Coordinator, _persist_kb_snapshots, close).
THEOREM AcknowledgedIsDurable == (Spec => []DurableWhenTold) /\ (AnySpec => []DurableWhenTold)
<1>1. KbInv => DurableWhenTold
  BY DEF KbInv, PromiseInv, ShutInv, SavedAtClose, DurableWhenTold
<1> QED
  BY <1>1, KbInvariant, PTL

\* No retry, restart or close publishes an observation twice or drops one.
THEOREM LearnedExactlyOnce == (Spec => []ExactlyOnce) /\ (AnySpec => []ExactlyOnce)
<1>1. KbInv => ExactlyOnce
  BY DEF KbInv, OnceInv, OnePlace, LearnedIsSent, ExactlyOnce
<1> QED
  BY <1>1, KbInvariant, PTL

\* A commit never holds a lattice clause that its recurrence index lacks, although
\* the two snapshots are written one after the other and either write may fail.
THEOREM CommittedInStep ==
    (Spec => []LatticeNeverAheadOfClause) /\ (AnySpec => []LatticeNeverAheadOfClause)
<1>1. KbInv => LatticeNeverAheadOfClause
  BY DEF KbInv, DiskInv, InStep, LatticeNeverAheadOfClause
<1> QED
  BY <1>1, KbInvariant, PTL

=============================================================================
