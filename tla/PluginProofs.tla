---------------------------- MODULE PluginProofs ----------------------------
(***************************************************************************)
(* The plugin's part of the surroundings, for any number of processes,        *)
(* registrations, calls, runs, writers and faults: the sidecar that            *)
(* registrations share, and the plugin's own trace.                            *)
(***************************************************************************)
EXTENDS MCSurroundings, FiniteSetTheorems, TLAPS

-----------------------------------------------------------------------------
(* The shared sidecar.  An entry counts the registrations that have joined it,   *)
(* and a child that nobody counts on is being ended.                            *)

\* The model's finite sets are those of the theorems on finite sets.
LEMMA SameFinite == \A S : Started!IsFiniteSet(S) <=> IsFiniteSet(S)
BY DEF Started!IsFiniteSet, IsFiniteSet

\* The registrations that an entry counts.
Counting(n) == {r \in Started!Mine(n) : reg[r] \in {"joined", "ready"}}

\* Who counts on an entry is as far as the entry is, and a child that nobody counts
\* on is being ended.
EntryInv(n) ==
    /\ refs[n] = Cardinality(Counting(n))
    /\ launch[n] \in {"none", "stopping"} <=> Counting(n) = {}
    /\ launch[n] = "launching" => \A r \in Started!Mine(n) : reg[r] # "ready"
    /\ launch[n] \in {"up", "foreign"} => \A r \in Started!Mine(n) : reg[r] # "joined"
    /\ child[n] \in Started!Alive => launch[n] \in {"launching", "up"}

EntryTypes ==
    /\ launch \in [Procs -> {"none", "launching", "up", "foreign", "stopping"}]
    /\ child \in [Procs -> {"none", "starting", "bound", "dying", "exited", "lost"}]
    /\ reg \in [Regs -> {"off", "waiting", "joined", "ready", "failed", "closing", "closed"}]
    /\ refs \in [Procs -> Nat]

SidecarInv == EntryTypes /\ \A n \in Procs : EntryInv(n)

\* A step of one process leaves the entries of the others alone.
Elsewhere(n) ==
    \A m \in Procs \ {n} :
        /\ launch'[m] = launch[m] /\ child'[m] = child[m] /\ refs'[m] = refs[m]
        /\ \A r \in Started!Mine(m) : reg'[r] = reg[r]

\* A step of one process is about its own entry.
LEMMA EntryFrame ==
    ASSUME SidecarInv, NEW n \in Procs, Elsewhere(n), EntryTypes', EntryInv(n)'
    PROVE  SidecarInv'
<1>1. ASSUME NEW m \in Procs \ {n} PROVE EntryInv(m)'
  <2>1. EntryInv(m)
    BY DEF SidecarInv
  <2>2. Counting(m)' = Counting(m) /\ Started!Mine(m)' = Started!Mine(m)
    BY DEF Elsewhere, Counting, Started!Mine
  <2>3. /\ launch'[m] = launch[m] /\ child'[m] = child[m] /\ refs'[m] = refs[m]
        /\ \A r \in Started!Mine(m) : reg'[r] = reg[r]
    BY DEF Elsewhere
  <2> QED
    BY <2>1, <2>2, <2>3 DEF EntryInv, Started!Alive
<1> QED
  BY <1>1 DEF SidecarInv

\* What is counted.
LEMMA Counted ==
    ASSUME IsFiniteSet(Regs), NEW S \in SUBSET Regs
    PROVE  /\ Cardinality(S) \in Nat /\ (Cardinality(S) = 0 <=> S = {})
           /\ \A r \in Regs : r \notin S => Cardinality(S \cup {r}) = Cardinality(S) + 1
           /\ \A r \in S : Cardinality(S \ {r}) = Cardinality(S) - 1
<1>1. IsFiniteSet(S)
  BY FS_Subset
<1> QED
  BY <1>1, FS_CardinalityType, FS_EmptySet, FS_AddElement, FS_RemoveElement

\* No entry exists at first.
LEMMA SidecarInvInit == Started!SidecarAssumption /\ Started!Init => SidecarInv
<1> SUFFICES ASSUME Started!SidecarAssumption, Started!Init PROVE SidecarInv
  OBVIOUS
<1>1. EntryTypes
  BY DEF Started!Init, EntryTypes
<1>2. ASSUME NEW n \in Procs PROVE EntryInv(n)
  <2>1. Counting(n) = {}
    BY DEF Started!Init, Counting, Started!Mine
  <2>2. Cardinality({}) = 0
    BY FS_EmptySet
  <2> QED
    BY <2>1, <2>2 DEF Started!Init, EntryInv, Started!Alive
<1> QED
  BY <1>1, <1>2 DEF SidecarInv

\* A registration joins an entry, or waits for one that ends.
LEMMA RegisterStep ==
    ASSUME Started!SidecarAssumption, SidecarInv, NEW r \in Regs, Started!Register(r)
    PROVE  SidecarInv'
<1> DEFINE n == In[r]
<1>1. n \in Procs /\ r \in Started!Mine(n) /\ Counting(n) \in SUBSET Regs
          /\ r \notin Counting(n) /\ EntryInv(n)
  BY DEF Started!SidecarAssumption, SidecarInv, Started!Register, Counting, Started!Mine
<1>2. /\ Cardinality(Counting(n)) \in Nat
      /\ Cardinality(Counting(n)) = 0 <=> Counting(n) = {}
      /\ Cardinality(Counting(n) \cup {r}) = Cardinality(Counting(n)) + 1
  BY <1>1, Counted, SameFinite DEF Started!SidecarAssumption
<1>3. Elsewhere(n)
  BY <1>1 DEF Started!Register, Elsewhere, Started!Mine, SidecarInv, EntryTypes
<1>4. EntryTypes'
  BY <1>1 DEF Started!Register, SidecarInv, EntryTypes
<1>5. /\ Started!Mine(n)' = Started!Mine(n)
      /\ \A s \in Started!Mine(n) \ {r} : reg'[s] = reg[s]
      /\ Counting(n)' = IF reg'[r] \in {"joined", "ready"} THEN Counting(n) \cup {r}
             ELSE Counting(n)
  BY <1>1 DEF Started!Register, Counting, Started!Mine, SidecarInv, EntryTypes
<1>6. CASE launch[n] = "stopping"
  <2>1. reg'[r] = "waiting" /\ UNCHANGED <<launch, refs, child>>
    BY <1>1, <1>6 DEF Started!Register, SidecarInv, EntryTypes
  <2>2. EntryInv(n)'
    BY <1>1, <1>5, <1>6, <2>1 DEF EntryInv
  <2> QED
    BY <1>1, <1>3, <1>4, <2>2, EntryFrame
<1>7. CASE launch[n] = "none"
  <2>1. Counting(n) = {} /\ Cardinality(Counting(n)) = 0
    BY <1>1, <1>2, <1>7 DEF EntryInv
  <2>2. /\ refs'[n] = 1
        /\ \/ launch'[n] = "foreign" /\ reg'[r] = "ready" /\ child'[n] = child[n]
           \/ launch'[n] = "launching" /\ reg'[r] = "joined"
    BY <1>1, <1>7 DEF Started!Register, SidecarInv, EntryTypes
  <2>3. Counting(n)' = {r} /\ Cardinality(Counting(n))' = 1
    BY <1>2, <1>5, <2>1, <2>2
  <2>4. \A s \in Started!Mine(n) \ {r} : reg'[s] \notin {"joined", "ready"}
    BY <1>5, <2>1 DEF Counting
  <2>5. EntryInv(n)'
    BY <1>1, <1>5, <1>7, <2>2, <2>3, <2>4 DEF EntryInv
  <2> QED
    BY <1>1, <1>3, <1>4, <2>5, EntryFrame
<1>8. CASE launch[n] \notin {"none", "stopping"}
  <2>1. /\ refs'[n] = refs[n] + 1 /\ UNCHANGED <<launch, child>>
        /\ reg'[r] = IF launch[n] = "launching" THEN "joined" ELSE "ready"
    BY <1>1, <1>8 DEF Started!Register, SidecarInv, EntryTypes
  <2>2. refs'[n] = Cardinality(Counting(n))' /\ Counting(n)' # {}
    BY <1>1, <1>2, <1>5, <2>1 DEF EntryInv
  <2>3. EntryInv(n)'
    BY <1>1, <1>5, <1>8, <2>1, <2>2 DEF EntryInv
  <2> QED
    BY <1>1, <1>3, <1>4, <2>3, EntryFrame
<1> QED
  BY <1>6, <1>7, <1>8

\* A registration leaves; the last one ends the child.
LEMMA ShutdownStep ==
    ASSUME Started!SidecarAssumption, SidecarInv, NEW r \in Regs, Started!Shutdown(r)
    PROVE  SidecarInv'
<1> DEFINE n == In[r]
<1>1. n \in Procs /\ r \in Started!Mine(n) /\ Counting(n) \in SUBSET Regs /\ EntryInv(n)
  BY DEF Started!SidecarAssumption, SidecarInv, Counting, Started!Mine
<1>2. Elsewhere(n)
  BY <1>1 DEF Started!Shutdown, Started!Kill, Elsewhere, Started!Mine, SidecarInv, EntryTypes
<1>3. Started!Mine(n)' = Started!Mine(n) /\ \A s \in Started!Mine(n) \ {r} : reg'[s] = reg[s]
  BY <1>1 DEF Started!Shutdown, Started!Mine, SidecarInv, EntryTypes
<1>4. CASE reg[r] = "failed"
  <2>1. reg'[r] = "closed" /\ UNCHANGED <<launch, refs, child>>
    BY <1>4 DEF Started!Shutdown, SidecarInv, EntryTypes
  <2>2. Counting(n)' = Counting(n)
    BY <1>1, <1>3, <1>4, <2>1 DEF Counting
  <2>3. EntryTypes'
    BY <1>4 DEF Started!Shutdown, SidecarInv, EntryTypes
  <2>4. EntryInv(n)'
    BY <1>1, <1>3, <2>1, <2>2 DEF EntryInv
  <2> QED
    BY <1>1, <1>2, <2>3, <2>4, EntryFrame
<1>5. CASE reg[r] = "ready"
  <2>1. reg'[r] = "closing" /\ refs'[n] = refs[n] - 1
    BY <1>1, <1>5 DEF Started!Shutdown, SidecarInv, EntryTypes
  <2>2. r \in Counting(n) /\ Counting(n)' = Counting(n) \ {r}
    BY <1>1, <1>3, <1>5, <2>1 DEF Counting
  <2>3. /\ Cardinality(Counting(n)) \in Nat \ {0}
        /\ Cardinality(Counting(n))' = Cardinality(Counting(n)) - 1
        /\ Cardinality(Counting(n))' = 0 <=> Counting(n)' = {}
    <3>1. Counting(n)' \in SUBSET Regs
      BY <1>1, <2>2
    <3> QED
      BY <1>1, <2>2, <3>1, Counted, SameFinite DEF Started!SidecarAssumption
  <2>4. EntryTypes'
    <3>1. refs[n] \in Nat \ {0}
      BY <1>1, <2>3 DEF EntryInv
    <3>2. refs' = [refs EXCEPT ![n] = @ - 1] /\ reg' = [reg EXCEPT ![r] = "closing"]
      BY <1>5 DEF Started!Shutdown
    <3>3. /\ launch' = launch \/ launch' = [launch EXCEPT ![n] = "stopping"]
          /\ child' = child \/ child' = [child EXCEPT ![n] = "dying"]
                 \/ child' = [child EXCEPT ![n] = "lost"] \/ child' = [child EXCEPT ![n] = child[n]]
      BY <1>5 DEF Started!Shutdown, Started!Kill
    <3> QED
      BY <1>1, <3>1, <3>2, <3>3 DEF SidecarInv, EntryTypes
  <2>5. CASE refs[n] = 1
    <3>1. /\ launch'[n] = "stopping"
          /\ launch[n] = "up" => child'[n] \notin Started!Alive
          /\ launch[n] # "up" => child'[n] = child[n]
      BY <1>1, <1>5, <2>5
      DEF Started!Shutdown, Started!Last, Started!Kill, Started!Alive, SidecarInv, EntryTypes
    <3>2. Counting(n)' = {} /\ refs'[n] = Cardinality(Counting(n))'
      BY <1>1, <2>1, <2>3, <2>5 DEF EntryInv
    <3>3. launch[n] # "launching"
      BY <1>1, <1>5 DEF EntryInv
    <3>4. EntryInv(n)'
      BY <1>1, <2>1, <3>1, <3>2, <3>3 DEF EntryInv
    <3> QED
      BY <1>1, <1>2, <2>4, <3>4, EntryFrame
  <2>6. CASE refs[n] # 1
    <3>1. UNCHANGED <<launch, child>>
      BY <1>1, <1>5, <2>6 DEF Started!Shutdown, Started!Last
    <3>2. Counting(n)' # {} /\ refs'[n] = Cardinality(Counting(n))'
      BY <1>1, <2>1, <2>3, <2>6 DEF EntryInv
    <3>3. launch[n] \notin {"none", "stopping"}
      BY <1>1, <2>2 DEF EntryInv
    <3>4. EntryInv(n)'
      BY <1>1, <1>3, <2>1, <3>1, <3>2, <3>3 DEF EntryInv
    <3> QED
      BY <1>1, <1>2, <2>4, <3>4, EntryFrame
  <2> QED
    BY <2>5, <2>6
<1> QED
  BY <1>4, <1>5 DEF Started!Shutdown

\* Everything else is a step of a process.
LEMMA ProcessStep ==
    ASSUME Started!SidecarAssumption, SidecarInv, NEW n \in Procs,
           Started!Bind(n) \/ Started!Crash(n) \/ Started!Daemonizes(n) \/ Started!Healthy(n)
               \/ Started!TimesOut(n) \/ Started!Dies(n) \/ Started!Stopped(n)
    PROVE  SidecarInv'
<1>1. EntryInv(n) /\ Counting(n) \in SUBSET Regs
  BY DEF SidecarInv, Counting, Started!Mine
<1>2. Cardinality({}) = 0
  BY FS_EmptySet
<1>3. CASE Started!Bind(n) \/ Started!Crash(n) \/ Started!Daemonizes(n) \/ Started!Dies(n)
  <2>1. UNCHANGED <<launch, refs, reg>>
    BY <1>3 DEF Started!Bind, Started!Crash, Started!Daemonizes, Started!Dies
  <2>2. \/ child' = child \/ child' = [child EXCEPT ![n] = "exited"]
        \/ child' = [child EXCEPT ![n] = "bound"] /\ child[n] = "starting"
    BY <1>3
    DEF Started!Bind, Started!Crash, Started!Daemonizes, Started!Dies, SidecarInv, EntryTypes
  <2>3. Counting(n)' = Counting(n) /\ Started!Mine(n)' = Started!Mine(n)
    BY <2>1 DEF Counting, Started!Mine
  <2>4. EntryInv(n)' /\ EntryTypes' /\ Elsewhere(n)
    BY <1>1, <2>1, <2>2, <2>3 DEF EntryInv, SidecarInv, EntryTypes, Elsewhere, Started!Alive
  <2> QED
    BY <2>4, EntryFrame
<1>4. CASE Started!Healthy(n)
  <2>1. /\ launch[n] = "launching" /\ UNCHANGED <<refs, child>>
        /\ launch'[n] = IF child[n] = "exited" THEN "foreign" ELSE "up"
        /\ reg' = [r \in Regs |-> IF In[r] = n /\ reg[r] = "joined" THEN "ready" ELSE reg[r]]
    BY <1>4 DEF Started!Healthy, SidecarInv, EntryTypes
  <2>2. Counting(n)' = Counting(n) /\ Started!Mine(n)' = Started!Mine(n)
    BY <2>1 DEF Counting, Started!Mine
  <2>3. \A r \in Started!Mine(n) : reg'[r] # "joined"
    BY <2>1 DEF Started!Mine
  <2>4. EntryInv(n)'
    BY <1>1, <2>1, <2>2, <2>3 DEF EntryInv, Started!Alive
  <2>5. EntryTypes' /\ Elsewhere(n)
    BY <1>4, <2>1 DEF Started!Healthy, SidecarInv, EntryTypes, Elsewhere, Started!Mine
  <2> QED
    BY <2>4, <2>5, EntryFrame
<1>5. CASE Started!TimesOut(n)
  <2>1. /\ launch[n] = "launching" /\ launch'[n] = "none" /\ refs'[n] = 0
        /\ child'[n] \notin Started!Alive
        /\ reg' = [r \in Regs |-> IF In[r] = n /\ reg[r] = "joined" THEN "failed" ELSE reg[r]]
    BY <1>5 DEF Started!TimesOut, Started!Kill, Started!Alive, SidecarInv, EntryTypes
  <2>2. Counting(n)' = {}
    BY <1>1, <2>1 DEF Counting, Started!Mine, EntryInv
  <2>3. EntryInv(n)'
    BY <1>2, <2>1, <2>2 DEF EntryInv
  <2>4. Elsewhere(n)
    BY <1>5, <2>1 DEF Started!TimesOut, Started!Kill, SidecarInv, EntryTypes, Elsewhere, Started!Mine
  <2>5. EntryTypes'
    BY <1>5, <2>1 DEF Started!TimesOut, Started!Kill, Started!Alive, SidecarInv, EntryTypes
  <2> QED
    BY <2>3, <2>4, <2>5, EntryFrame
<1>6. CASE Started!Stopped(n)
  <2>1. /\ launch[n] = "stopping" /\ launch'[n] = "none" /\ UNCHANGED <<refs, child>>
        /\ launch' = [launch EXCEPT ![n] = "none"]
    BY <1>6 DEF Started!Stopped, SidecarInv, EntryTypes
  <2>2. PICK after \in {"failed", "off"} :
           reg' = [r \in Regs |-> IF In[r] = n /\ reg[r] = "closing" THEN "closed"
                                  ELSE IF In[r] = n /\ reg[r] = "waiting" THEN after
                                      ELSE reg[r]]
    BY <1>6 DEF Started!Stopped, Started!Again
  <2>3. Counting(n)' = Counting(n) /\ Started!Mine(n)' = Started!Mine(n)
    BY <2>2 DEF Counting, Started!Mine
  <2>4. Counting(n) = {} /\ refs[n] = 0
    BY <1>1, <1>2, <2>1 DEF EntryInv
  <2>5. EntryInv(n)'
    BY <1>1, <1>2, <2>1, <2>3, <2>4 DEF EntryInv
  <2>6. EntryTypes' /\ Elsewhere(n)
    BY <2>1, <2>2 DEF SidecarInv, EntryTypes, Elsewhere, Started!Mine
  <2> QED
    BY <2>5, <2>6, EntryFrame
<1> QED
  BY <1>3, <1>4, <1>5, <1>6

\* The invariant of the entries.
LEMMA SidecarInvAlways == Started!SidecarAssumption => (Started!Spec => []SidecarInv)
<1> SUFFICES ASSUME Started!SidecarAssumption PROVE Started!Spec => []SidecarInv
  OBVIOUS
<1>1. Started!Init => SidecarInv
  BY SidecarInvInit
<1>2. SidecarInv /\ [Started!Next]_(Started!vars) => SidecarInv'
  <2>1. ASSUME SidecarInv, UNCHANGED Started!vars PROVE SidecarInv'
    <3>1. UNCHANGED <<launch, refs, child, reg, shell>>
      BY <2>1 DEF Started!vars
    <3>2. ASSUME NEW n \in Procs PROVE EntryInv(n)'
      <4>1. EntryInv(n) /\ Counting(n)' = Counting(n) /\ Started!Mine(n)' = Started!Mine(n)
        BY <2>1, <3>1 DEF SidecarInv, Counting, Started!Mine
      <4> QED
        BY <3>1, <4>1 DEF EntryInv
    <3> QED
      BY <2>1, <3>1, <3>2 DEF SidecarInv, EntryTypes
  <2> QED
    BY <2>1, RegisterStep, ShutdownStep, ProcessStep DEF Started!Next
<1> QED
  BY <1>1, <1>2, PTL DEF Started!Spec

\* What a process started, it stops: for the last registration, and then surely.
THEOREM SidecarStopsForTheLast == Started!SidecarAssumption => (Started!Spec =>
    StopsForTheLastOnly)
<1> SUFFICES ASSUME Started!SidecarAssumption PROVE Started!Spec => StopsForTheLastOnly
  OBVIOUS
<1>1. SidecarInv => Started!NoneLeftBehind
  <2> SUFFICES ASSUME SidecarInv, NEW n \in Procs,
                      \A r \in Started!Mine(n) : reg[r] \in {"failed", "closed"}
               PROVE  child[n] \notin Started!Alive
    BY DEF Started!NoneLeftBehind
  <2>1. Counting(n) = {} /\ EntryInv(n)
    BY DEF Counting, SidecarInv
  <2> QED
    BY <2>1 DEF EntryInv
<1>2. SidecarInv /\ [Started!Next]_(Started!vars) =>
         [\A n \in Procs : child[n] \notin {"dying", "lost"} /\ child'[n] \in {"dying", "lost"} =>
             \A r \in Started!Mine(n) : reg'[r] # "ready"]_(Started!vars)
  <2> SUFFICES ASSUME SidecarInv, Started!Next, NEW n \in Procs,
                      child[n] \notin {"dying", "lost"}, child'[n] \in {"dying", "lost"},
                      NEW s \in Started!Mine(n)
               PROVE  reg'[s] # "ready"
    OBVIOUS
  <2>1. EntryInv(n)
    BY DEF SidecarInv
  <2>2. ASSUME NEW r \in Regs, Started!Shutdown(r) PROVE reg'[s] # "ready"
    <3>1. In[r] = n /\ Started!Last(n) /\ reg[r] = "ready"
              /\ reg' = [reg EXCEPT ![r] = "closing"]
      BY <2>2
      DEF Started!Shutdown, Started!Kill, SidecarInv, EntryTypes, Started!SidecarAssumption
    <3>2. Cardinality(Counting(n) \ {r}) = 0 /\ Counting(n) \ {r} \in SUBSET Regs
      <4>1. r \in Counting(n) /\ Counting(n) \in SUBSET Regs
        BY <3>1 DEF Counting, Started!Mine
      <4>2. Cardinality(Counting(n)) = 1
        BY <2>1, <3>1 DEF Started!Last, EntryInv
      <4>3. Cardinality(Counting(n) \ {r}) = Cardinality(Counting(n)) - 1
        BY <4>1, Counted, SameFinite DEF Started!SidecarAssumption
      <4> QED
        BY <4>1, <4>2, <4>3
    <3>3. Counting(n) \ {r} = {}
      BY <3>2, Counted, SameFinite DEF Started!SidecarAssumption
    <3> QED
      BY <3>1, <3>3 DEF Counting, Started!Mine, SidecarInv, EntryTypes
  <2>3. ASSUME NEW m \in Procs, Started!TimesOut(m) PROVE reg'[s] # "ready"
    <3>1. m = n
      BY <2>3 DEF Started!TimesOut, Started!Kill, SidecarInv, EntryTypes
    <3> QED
      BY <2>1, <2>3, <3>1 DEF Started!TimesOut, EntryInv, Started!Mine
  <2>4. ASSUME NEW r \in Regs, Started!Register(r) PROVE FALSE
    BY <2>4 DEF Started!Register, SidecarInv, EntryTypes, Started!SidecarAssumption
  <2>5. ASSUME NEW m \in Procs,
               Started!Bind(m) \/ Started!Crash(m) \/ Started!Daemonizes(m) \/ Started!Healthy(m)
                   \/ Started!Dies(m) \/ Started!Stopped(m) PROVE FALSE
    BY <2>5 DEF Started!Bind, Started!Crash, Started!Daemonizes, Started!Healthy, Started!Dies,
       Started!Stopped, SidecarInv, EntryTypes
  <2> QED
    BY <2>2, <2>3, <2>4, <2>5 DEF Started!Next
<1> QED
  BY <1>1, <1>2, SidecarInvAlways, PTL DEF Started!Spec, Started!StopsForTheLastOnly,
     Started!StopsForTheLast, StopsForTheLastOnly

-----------------------------------------------------------------------------
(* The trace.  A span that is open has no end, any other has one for its start;  *)
(* a writer that is awaited has no handle, and a run that is done has none       *)
(* either.                                                                       *)

TraceTypes ==
    /\ hook \in [Calls -> {"idle", "start", "ask", "called", "blocked", "tell", "end", "done"}]
    /\ starts \in [Calls -> {0, 1}] /\ ends \in [Calls -> {0, 1}]
    /\ creating \in [Writers -> {0, 1}] /\ handles \in [Writers -> {0, 1}]
    /\ fin \in [Runs -> {"no", "interrupt", "closing", "done"}]
    /\ todo \in [Runs -> SUBSET Calls]
    /\ active \subseteq Calls /\ broken \subseteq Writers /\ down \in {TRUE, FALSE}

\* A span that is open, or whose hook is about to tell, has no end yet, any other
\* has one for its start; and whoever is past the wait for its writer finds it
\* open until its run is done.
CallInv(c) ==
    LET w == WriterOf[c]
        r == RunOf[c] IN
    /\ hook[c] # "end"
    /\ hook[c] = "start" => creating[w] = 1 /\ starts[c] = 0
    /\ hook[c] = "idle" => starts[c] = 0
    /\ hook[c] = "tell" => fin[r] = "no"
    /\ hook[c] \in {"idle", "tell", "done"} => c \notin active \cup todo[r]
    /\ fin[r] = "no" /\ hook[c] \in {"start", "ask", "called", "blocked"} => c \in active
    /\ hook[c] = "start" => c \in active \cup todo[r]
    /\ hook[c] \notin {"idle", "start"} /\ fin[r] # "done" =>
          handles[w] = 1 /\ starts[c] = IF w \in broken THEN 0 ELSE 1
    /\ ends[c] = IF c \in active \cup todo[r] \/ hook[c] = "tell" THEN 0 ELSE starts[c]

RunInv(r) ==
    /\ fin[r] # "no" => active \cap Plugin!Of(r) = {}
    /\ todo[r] \subseteq Plugin!Of(r)
    /\ fin[r] # "interrupt" => todo[r] = {}

DoneInv == \A c \in Calls : fin[RunOf[c]] = "done" =>
              ends[c] = starts[c] /\ handles[WriterOf[c]] = 0 /\ creating[WriterOf[c]] = 0

WriterInv == \A w \in Writers : creating[w] = 1 => handles[w] = 0

\* After the shutdown nothing moves.
Up == WriterInv /\ (\A c \in Calls : CallInv(c)) /\ (\A r \in Runs : RunInv(r))
TraceInv == TraceTypes /\ DoneInv /\ (~down => Up)

-----------------------------------------------------------------------------
\* Nothing is open at first.
LEMMA TraceInvInit == Plugin!TraceAssumption /\ Plugin!Init => TraceInv
<1> SUFFICES ASSUME Plugin!TraceAssumption, Plugin!Init PROVE TraceInv
  OBVIOUS
<1>1. TraceTypes
  BY DEF Plugin!Init, TraceTypes
<1>2. ASSUME NEW c \in Calls PROVE CallInv(c) /\ fin[RunOf[c]] = "no"
  BY DEF Plugin!TraceAssumption, Plugin!Init, CallInv
<1>3. \A r \in Runs : RunInv(r)
  BY DEF Plugin!Init, RunInv
<1>4. WriterInv
  BY DEF Plugin!Init, WriterInv
<1> QED
  BY <1>1, <1>2, <1>3, <1>4 DEF TraceInv, DoneInv, Up

\* A span begins and waits for its writer, or finds it open.
LEMMA BeginStep ==
    ASSUME Plugin!TraceAssumption, TraceInv, NEW c \in Calls, Plugin!Begin(c)
    PROVE  TraceInv'
<1> DEFINE w == WriterOf[c]
           r == RunOf[c]
<1>1. /\ w \in Writers /\ r \in Runs /\ Up /\ hook[c] = "idle" /\ fin[r] = "no" /\ ~down
      /\ CallInv(c) /\ starts[c] = 0 /\ TraceTypes /\ DoneInv
  BY DEF Plugin!TraceAssumption, Plugin!Begin, TraceInv, Up, CallInv
<1>2. /\ active' = active \cup {c} /\ UNCHANGED <<handles, broken, ends, fin, todo, down>>
      /\ creating' = [creating EXCEPT ![w] = IF Plugin!Creates(w) THEN @ + 1 ELSE @]
      /\ \/ handles[w] = 1 /\ hook' = [hook EXCEPT ![c] = "ask"]
                /\ starts' = Plugin!Written(starts, c)
         \/ handles[w] = 0 /\ hook' = [hook EXCEPT ![c] = "start"] /\ starts' = starts
  BY <1>1 DEF Plugin!Begin, Plugin!Get, TraceTypes
<1>3. creating' = [creating EXCEPT ![w] = IF handles[w] = 0 THEN 1 ELSE @]
  <2> HIDE DEF w
  <2>1. creating[w] \in {0, 1} /\ handles[w] \in {0, 1} /\ 0 + 1 = 1
    BY <1>1 DEF TraceTypes
  <2>2. CASE handles[w] = 0 /\ creating[w] = 0
    BY <1>2, <2>1, <2>2 DEF Plugin!Creates
  <2>3. CASE ~(handles[w] = 0 /\ creating[w] = 0)
    <3>1. creating' = [creating EXCEPT ![w] = @]
      BY <1>2, <2>3 DEF Plugin!Creates
    <3>2. creating[w] = IF handles[w] = 0 THEN 1 ELSE creating[w]
      BY <2>1, <2>3
    <3> QED
      BY <3>1, <3>2
  <2> QED
    BY <2>2, <2>3
<1>4. \/ handles[w] = 1 /\ hook' = [hook EXCEPT ![c] = "ask"]
         /\ starts' = [starts EXCEPT ![c] = IF w \in broken THEN 0 ELSE 1]
      \/ handles[w] = 0 /\ hook' = [hook EXCEPT ![c] = "start"] /\ starts' = starts
  BY <1>1, <1>2 DEF Plugin!Written, TraceTypes
<1>5. TraceTypes'
  <2>1. creating' \in [Writers -> {0, 1}]
    BY <1>1, <1>3 DEF TraceTypes
  <2>2. hook' \in [Calls -> {"idle", "start", "ask", "called", "blocked", "tell", "end",
            "done"}]
    BY <1>1, <1>4 DEF TraceTypes
  <2>3. starts' \in [Calls -> {0, 1}]
    BY <1>1, <1>4 DEF TraceTypes
  <2> QED
    BY <1>1, <1>2, <2>1, <2>2, <2>3 DEF TraceTypes
<1>6. WriterInv'
  BY <1>1, <1>2, <1>3 DEF Up, WriterInv, TraceTypes
<1>7. ASSUME NEW d \in Calls PROVE CallInv(d)'
  <2>1. CallInv(d) /\ RunInv(RunOf[d]) /\ WriterOf[d] \in Writers /\ RunOf[d] \in Runs
    BY <1>1 DEF Up, Plugin!TraceAssumption
  <2>2. CASE d = c
    <3>1. c \notin todo[r] /\ ends[c] = 0
      BY <1>1 DEF CallInv
    <3> QED
      BY <1>1, <1>2, <1>3, <1>4, <2>2, <3>1 DEF CallInv, TraceTypes
  <2>3. CASE d # c
    <3>1. hook'[d] = hook[d] /\ starts'[d] = starts[d] /\ (d \in active' <=> d \in active)
      BY <1>1, <1>2, <1>4, <2>3 DEF TraceTypes
    <3>2. hook[d] = "start" => creating'[WriterOf[d]] = 1
      BY <1>1, <1>3, <2>1 DEF CallInv, TraceTypes
    <3> QED
      BY <1>2, <2>1, <3>1, <3>2 DEF CallInv
  <2> QED
    BY <2>2, <2>3
<1>8. ASSUME NEW q \in Runs PROVE RunInv(q)'
  BY <1>1, <1>2, <1>8 DEF Up, RunInv, Plugin!Of
<1>9. DoneInv'
  <2> SUFFICES ASSUME NEW d \in Calls, fin[RunOf[d]] = "done"
               PROVE  ends[d] = starts'[d] /\ handles[WriterOf[d]] = 0
                   /\ creating'[WriterOf[d]] = 0
    BY <1>2 DEF DoneInv
  <2>1. WriterOf[d] # w /\ d # c
    BY <1>1 DEF Plugin!TraceAssumption
  <2> QED
    BY <1>1, <1>3, <1>4, <2>1 DEF DoneInv, TraceTypes
<1> QED
  BY <1>5, <1>6, <1>7, <1>8, <1>9 DEF TraceInv, Up

\* A writer opens, or fails to, and all that wait for it go on.
LEMMA OpenedStep ==
    ASSUME Plugin!TraceAssumption, TraceInv, NEW w \in Writers, Plugin!Opened(w)
    PROVE  TraceInv'
<1>1. Up /\ ~down /\ creating[w] = 1 /\ handles[w] = 0 /\ TraceTypes /\ DoneInv
  <2>1. ~down /\ creating[w] > 0 /\ creating[w] \in {0, 1}
    BY DEF Plugin!Opened, TraceInv, TraceTypes
  <2>2. creating[w] = 1
    BY <2>1
  <2> QED
    BY <2>1, <2>2 DEF TraceInv, Up, WriterInv
<1>2. /\ creating' = [creating EXCEPT ![w] = 0] /\ handles' = [handles EXCEPT ![w] = 1]
      /\ UNCHANGED <<active, fin, todo, down>> /\ broken' \in {broken, broken \cup {w}}
  BY <1>1 DEF Plugin!Opened, TraceTypes
<1>3. ASSUME NEW c \in Calls
      PROVE  /\ hook[c] # "end"
             /\ WriterOf[c] = w => hook[c] \in {"idle", "start"} /\ fin[RunOf[c]] # "done"
  BY <1>1 DEF Up, CallInv, DoneInv
<1>4. /\ hook' = [c \in Calls |-> IF WriterOf[c] = w /\ hook[c] = "start" THEN "ask"
             ELSE hook[c]]
      /\ starts' = [c \in Calls |-> starts[c] +
                       (IF WriterOf[c] = w /\ hook[c] = "start" /\ w \notin broken' THEN 1
                           ELSE 0)]
      /\ ends' = [c \in Calls |-> ends[c]]
  <2>1. \A c \in Calls : c \notin {d \in Calls : WriterOf[d] = w /\ hook[d] = "end"}
    BY <1>3
  <2>2. ends' = [c \in Calls |-> ends[c] + 0]
    BY <2>1 DEF Plugin!Opened
  <2>3. \A c \in Calls : ends[c] + 0 = ends[c]
    BY <1>1 DEF TraceTypes
  <2> QED
    BY <2>1, <2>2, <2>3 DEF Plugin!Opened
<1>5. ends' = ends
  BY <1>1, <1>4 DEF TraceTypes
<1>6. ASSUME NEW c \in Calls
      PROVE  /\ starts'[c] \in {0, 1}
             /\ ~(WriterOf[c] = w /\ hook[c] = "start") => starts'[c] = starts[c]
                    /\ hook'[c] = hook[c]
             /\ WriterOf[c] = w /\ hook[c] = "start" =>
                   starts'[c] = (IF w \in broken' THEN 0 ELSE 1) /\ hook'[c] = "ask"
  BY <1>1, <1>4 DEF Up, CallInv, TraceTypes
<1>7. TraceTypes'
  BY <1>1, <1>2, <1>4, <1>5, <1>6 DEF TraceTypes
<1>8. WriterInv'
  BY <1>1, <1>2 DEF Up, WriterInv, TraceTypes
<1>9. ASSUME NEW c \in Calls PROVE CallInv(c)'
  <2>1. CallInv(c) /\ RunInv(RunOf[c]) /\ WriterOf[c] \in Writers /\ RunOf[c] \in Runs
    BY <1>1 DEF Up, Plugin!TraceAssumption
  <2>2. CASE WriterOf[c] = w
    BY <1>1, <1>2, <1>3, <1>5, <1>6, <2>1, <2>2 DEF CallInv, TraceTypes
  <2>3. CASE WriterOf[c] # w
    <3>1. /\ creating'[WriterOf[c]] = creating[WriterOf[c]]
          /\ handles'[WriterOf[c]] = handles[WriterOf[c]]
          /\ WriterOf[c] \in broken' <=> WriterOf[c] \in broken
      BY <1>1, <1>2, <2>1, <2>3 DEF TraceTypes
    <3> QED
      BY <1>2, <1>5, <1>6, <2>1, <2>3, <3>1 DEF CallInv
  <2> QED
    BY <2>2, <2>3
<1>10. ASSUME NEW r \in Runs PROVE RunInv(r)'
  BY <1>1, <1>2 DEF Up, RunInv, Plugin!Of
<1>11. DoneInv'
  <2> SUFFICES ASSUME NEW c \in Calls, fin[RunOf[c]] = "done"
               PROVE  ends[c] = starts'[c] /\ handles'[WriterOf[c]] = 0
                   /\ creating'[WriterOf[c]] = 0
    BY <1>2, <1>5 DEF DoneInv
  <2>1. WriterOf[c] # w /\ WriterOf[c] \in Writers
    BY <1>3 DEF Plugin!TraceAssumption
  <2> QED
    BY <1>1, <1>2, <1>6, <2>1 DEF DoneInv, TraceTypes
<1> QED
  BY <1>7, <1>8, <1>9, <1>10, <1>11 DEF TraceInv, Up

\* The steps of a hook that is past the wait for its writer.
LEMMA HookStep ==
    ASSUME Plugin!TraceAssumption, TraceInv, NEW c \in Calls,
           Plugin!Ask(c) \/ Plugin!Finish(c) \/ Plugin!Tell(c)
    PROVE  TraceInv'
<1> DEFINE w == WriterOf[c]
           r == RunOf[c]
<1>1. w \in Writers /\ r \in Runs /\ Up /\ ~down /\ CallInv(c) /\ RunInv(r) /\ TraceTypes
          /\ DoneInv
  BY DEF Plugin!TraceAssumption, Plugin!Ask, Plugin!Finish, Plugin!Tell, TraceInv, Up
<1>2. /\ UNCHANGED <<creating, handles, broken, starts, fin, todo, down>>
      /\ \/ /\ hook[c] = "ask" /\ active' = active /\ ends' = ends
            /\ \/ hook' = [hook EXCEPT ![c] = "called"]
               \/ hook' = [hook EXCEPT ![c] = "blocked"]
         \/ /\ hook[c] = "called" /\ fin[r] = "no" /\ active' = active \ {c} /\ ends' = ends
            /\ hook' = [hook EXCEPT ![c] = "tell"]
         \/ /\ hook[c] = "tell" /\ active' = active /\ hook' = [hook EXCEPT ![c] = "done"]
            /\ ends' = [ends EXCEPT ![c] = starts[c]]
  <2>1. CASE Plugin!Ask(c)
    BY <2>1 DEF Plugin!Ask, Plugin!files
  <2>2. CASE Plugin!Finish(c)
    BY <2>2 DEF Plugin!Finish, Plugin!Taken, Plugin!files
  <2>3. CASE Plugin!Tell(c)
    <3>1. hook[c] = "tell" /\ handles[w] = 1 /\ starts[c] = (IF w \in broken THEN 0 ELSE 1)
              /\ ends[c] = 0
      BY <1>1, <2>3 DEF Plugin!Tell, CallInv
    <3>2. creating' = creating
      BY <1>1, <2>3, <3>1 DEF Plugin!Tell, Plugin!Get, Plugin!Creates, TraceTypes
    <3>3. ends' = Plugin!Written(ends, c) /\ hook' = [hook EXCEPT ![c] = "done"]
          /\ UNCHANGED <<active, handles, broken, starts, fin, todo, down>>
      BY <2>3, <3>1 DEF Plugin!Tell
    <3>4. ends' = [ends EXCEPT ![c] = starts[c]]
      <4>1. CASE w \in broken
        <5>1. ends' = ends /\ starts[c] = ends[c]
          BY <3>1, <3>3, <4>1 DEF Plugin!Written
        <5> QED
          BY <1>1, <5>1 DEF TraceTypes
      <4>2. CASE w \notin broken
        <5>1. ends' = [ends EXCEPT ![c] = ends[c] + 1] /\ ends[c] + 1 = starts[c]
          BY <3>1, <3>3, <4>2 DEF Plugin!Written
        <5> QED
          BY <5>1
      <4> QED
        BY <4>1, <4>2
    <3> QED
      BY <3>1, <3>2, <3>3, <3>4
  <2> QED
    BY <2>1, <2>2, <2>3
<1>3. TraceTypes'
  BY <1>1, <1>2 DEF TraceTypes
<1>4. WriterInv'
  BY <1>1, <1>2 DEF Up, WriterInv
<1>5. ASSUME NEW d \in Calls PROVE CallInv(d)'
  <2>1. CallInv(d)
    BY <1>1 DEF Up
  <2>2. CASE d = c
    BY <1>1, <1>2, <2>2 DEF CallInv, RunInv, TraceTypes
  <2>3. CASE d # c
    <3>1. /\ hook'[d] = hook[d] /\ ends'[d] = ends[d] /\ (d \in active' <=> d \in active)
      BY <1>1, <1>2, <2>3 DEF TraceTypes
    <3> QED
      BY <1>2, <2>1, <3>1 DEF CallInv
  <2> QED
    BY <2>2, <2>3
<1>6. ASSUME NEW q \in Runs PROVE RunInv(q)'
  BY <1>1, <1>2 DEF Up, RunInv, Plugin!Of
<1>7. DoneInv'
  <2>1. hook[c] = "tell" => fin[r] # "done"
    BY <1>1 DEF CallInv
  <2> QED
    BY <1>1, <1>2, <2>1 DEF DoneInv, TraceTypes
<1> QED
  BY <1>3, <1>4, <1>5, <1>6, <1>7 DEF TraceInv, Up

\* The steps of agent_end.
LEMMA EndStep ==
    ASSUME Plugin!TraceAssumption, TraceInv, NEW r \in Runs,
           Plugin!AgentEnd(r) \/ Plugin!Interrupt(r)
    PROVE  TraceInv'
<1>1. Up /\ ~down /\ RunInv(r) /\ TraceTypes /\ DoneInv
  BY DEF Plugin!AgentEnd, Plugin!Interrupt, TraceInv, Up
<1>2. /\ UNCHANGED <<creating, handles, broken, starts, hook, down>>
      /\ \/ /\ fin[r] = "no" /\ fin' = [fin EXCEPT ![r] = "interrupt"]
            /\ \A c \in Plugin!Of(r) : hook[c] # "tell"
            /\ todo' = [todo EXCEPT ![r] = active \cap Plugin!Of(r)]
            /\ active' = active \ Plugin!Of(r)
            /\ ends' = ends
         \/ /\ fin[r] = "interrupt" /\ fin' = fin /\ active' = active
            /\ \E c \in todo[r] : /\ ends' = [ends EXCEPT ![c] = starts[c]] /\ hook[c] # "start"
                                  /\ todo' = [todo EXCEPT ![r] = @ \ {c}]
         \/ /\ fin[r] = "interrupt" /\ fin' = [fin EXCEPT ![r] = "closing"]
            /\ todo[r] = {} /\ UNCHANGED <<active, ends, todo>>
  <2>1. CASE Plugin!AgentEnd(r)
    BY <2>1 DEF Plugin!AgentEnd, Plugin!files
  <2>2. CASE Plugin!Interrupt(r)
    <3>1. /\ fin[r] = "interrupt" /\ UNCHANGED <<hook, active, handles, broken, starts, down>>
      BY <2>2 DEF Plugin!Interrupt
    <3>2. ASSUME NEW c \in todo[r]
          PROVE  /\ WriterOf[c] \in Writers /\ ~Plugin!Creates(WriterOf[c]) /\ ends[c] = 0
                 /\ handles[WriterOf[c]] > 0 =>
                       hook[c] # "start" /\ starts[c] = IF WriterOf[c] \in broken THEN 0 ELSE 1
      <4>1. c \in Calls /\ RunOf[c] = r /\ WriterOf[c] \in Writers /\ CallInv(c)
        BY <1>1 DEF RunInv, Plugin!Of, Up, Plugin!TraceAssumption
      <4>2. hook[c] \notin {"idle", "tell", "done", "end"} /\ ends[c] = 0
        BY <4>1 DEF CallInv
      <4>3. hook[c] = "start" => creating[WriterOf[c]] = 1 /\ handles[WriterOf[c]] = 0
        BY <1>1, <4>1 DEF CallInv, Up, WriterInv
      <4>4. hook[c] # "start" => /\ handles[WriterOf[c]] = 1
                                 /\ starts[c] = IF WriterOf[c] \in broken THEN 0 ELSE 1
        BY <3>1, <4>1, <4>2 DEF CallInv
      <4> QED
        BY <4>1, <4>2, <4>3, <4>4 DEF Plugin!Creates
    <3>3. CASE todo[r] = {} /\ fin' = [fin EXCEPT ![r] = "closing"] /\ UNCHANGED <<creating,
              ends, todo>>
      BY <3>1, <3>3
    <3>4. ASSUME NEW c \in todo[r],
                 IF handles[WriterOf[c]] > 0
                 THEN /\ ends' = Plugin!Written(ends, c) /\ todo' = [todo EXCEPT ![r] = @ \ {c}]
                      /\ UNCHANGED <<creating, fin>>
                 ELSE Plugin!Creates(WriterOf[c]) /\ Plugin!Get(WriterOf[c])
                     /\ UNCHANGED <<ends, todo, fin>>
          PROVE  /\ UNCHANGED <<creating, fin>>
                 /\ ends' = [ends EXCEPT ![c] = starts[c]] /\ hook[c] # "start"
                 /\ todo' = [todo EXCEPT ![r] = @ \ {c}]
      <4>1. handles[WriterOf[c]] > 0
        BY <3>2, <3>4
      <4>2. ends' = [ends EXCEPT ![c] = starts[c]]
        BY <1>1, <3>2, <3>4, <4>1 DEF Plugin!Written, TraceTypes
      <4> QED
        BY <3>2, <3>4, <4>1, <4>2
    <3> QED
      BY <2>2, <3>1, <3>3, <3>4 DEF Plugin!Interrupt
  <2> QED
    BY <2>1, <2>2
<1>3. TraceTypes'
  <2>1. ends' \in [Calls -> {0, 1}]
    <3>1. todo[r] \subseteq Calls
      BY <1>1 DEF TraceTypes
    <3> QED
      BY <1>1, <1>2, <3>1 DEF TraceTypes
  <2>2. todo' \in [Runs -> SUBSET Calls]
    BY <1>1, <1>2 DEF TraceTypes
  <2>3. fin' \in [Runs -> {"no", "interrupt", "closing", "done"}]
    BY <1>1, <1>2 DEF TraceTypes
  <2>4. active' \subseteq Calls
    BY <1>1, <1>2 DEF TraceTypes
  <2> QED
    BY <1>1, <1>2, <2>1, <2>2, <2>3, <2>4 DEF TraceTypes
<1>4. WriterInv'
  BY <1>1, <1>2 DEF Up, WriterInv
<1>5. ASSUME NEW d \in Calls PROVE CallInv(d)'
  <2>1. CallInv(d) /\ RunOf[d] \in Runs /\ RunInv(RunOf[d])
    BY <1>1 DEF Up, Plugin!TraceAssumption
  <2>2. CASE RunOf[d] = r
    <3>1. d \in Plugin!Of(r)
      BY <2>2 DEF Plugin!Of
    <3> QED
      BY <1>1, <1>2, <2>1, <2>2, <3>1 DEF CallInv, RunInv, TraceTypes
  <2>3. CASE RunOf[d] # r
    <3>1. d \notin Plugin!Of(r) /\ d \notin todo[r]
      BY <1>1, <2>3 DEF Plugin!Of, RunInv
    <3>2. /\ ends'[d] = ends[d] /\ (d \in active' <=> d \in active)
          /\ fin'[RunOf[d]] = fin[RunOf[d]] /\ todo'[RunOf[d]] = todo[RunOf[d]]
      BY <1>1, <1>2, <2>1, <2>3, <3>1 DEF TraceTypes
    <3> QED
      BY <1>2, <2>1, <3>2 DEF CallInv
  <2> QED
    BY <2>2, <2>3
<1>6. ASSUME NEW q \in Runs PROVE RunInv(q)'
  <2>1. RunInv(q)
    BY <1>1 DEF Up
  <2> QED
    BY <1>1, <1>2, <2>1 DEF RunInv, Plugin!Of, TraceTypes
<1>7. DoneInv'
  <2> SUFFICES ASSUME NEW d \in Calls, fin'[RunOf[d]] = "done"
               PROVE  ends'[d] = starts[d] /\ handles[WriterOf[d]] = 0
                   /\ creating[WriterOf[d]] = 0
    BY <1>2 DEF DoneInv
  <2>1. RunOf[d] # r /\ fin[RunOf[d]] = "done" /\ RunOf[d] \in Runs
    BY <1>1, <1>2 DEF TraceTypes, Plugin!TraceAssumption
  <2>2. d \notin todo[r]
    BY <1>1, <2>1 DEF RunInv, Plugin!Of
  <2>3. ends'[d] = ends[d]
    BY <1>1, <1>2, <2>2 DEF TraceTypes
  <2> QED
    BY <1>1, <2>1, <2>3 DEF DoneInv
<1> QED
  BY <1>3, <1>4, <1>5, <1>6, <1>7 DEF TraceInv, Up

\* Writers close with their run.
LEMMA CloseRunStep ==
    ASSUME Plugin!TraceAssumption, TraceInv, NEW r \in Runs, Plugin!CloseRun(r)
    PROVE  TraceInv'
<1>1. Up /\ ~down /\ RunInv(r) /\ TraceTypes /\ DoneInv /\ fin[r] = "closing"
  BY DEF Plugin!CloseRun, TraceInv, Up
<1>2. /\ UNCHANGED <<hook, active, creating, starts, ends, todo, down>>
      /\ handles' = [w \in Writers |-> IF w \in Plugin!WritersOf(r) /\ handles[w] > 0
                                       THEN handles[w] - 1 ELSE handles[w]]
      /\ broken' = broken \ Plugin!WritersOf(r) /\ fin' = [fin EXCEPT ![r] = "done"]
      /\ \A w \in Plugin!WritersOf(r) : creating[w] = 0
  BY DEF Plugin!CloseRun, Plugin!Settled
<1>3. ASSUME NEW w \in Writers
      PROVE handles'[w] = IF w \in Plugin!WritersOf(r) THEN 0 ELSE handles[w]
  BY <1>1, <1>2 DEF TraceTypes
<1>4. ASSUME NEW d \in Calls
      PROVE  /\ RunOf[d] \in Runs /\ WriterOf[d] \in Writers
             /\ WriterOf[d] \in Plugin!WritersOf(r) <=> RunOf[d] = r
  BY DEF Plugin!WritersOf, Plugin!Of, Plugin!TraceAssumption
<1>5. TraceTypes'
  <2>1. handles' \in [Writers -> {0, 1}]
    BY <1>1, <1>2, <1>3 DEF TraceTypes
  <2> QED
    BY <1>1, <1>2, <2>1 DEF TraceTypes
<1>6. WriterInv'
  BY <1>1, <1>2, <1>3 DEF Up, WriterInv
<1>7. ASSUME NEW d \in Calls PROVE CallInv(d)'
  <2>1. CallInv(d)
    BY <1>1 DEF Up
  <2>2. CASE RunOf[d] = r
    <3>1. creating[WriterOf[d]] = 0 /\ fin'[r] = "done" /\ hook[d] # "tell"
      BY <1>1, <1>2, <1>4, <2>1, <2>2 DEF CallInv, TraceTypes
    <3> QED
      BY <1>2, <2>1, <2>2, <3>1 DEF CallInv
  <2>3. CASE RunOf[d] # r
    <3>1. /\ fin'[RunOf[d]] = fin[RunOf[d]] /\ handles'[WriterOf[d]] = handles[WriterOf[d]]
          /\ WriterOf[d] \in broken' <=> WriterOf[d] \in broken
      BY <1>1, <1>2, <1>3, <1>4, <2>3 DEF TraceTypes
    <3> QED
      BY <1>2, <2>1, <3>1 DEF CallInv
  <2> QED
    BY <2>2, <2>3
<1>8. ASSUME NEW q \in Runs PROVE RunInv(q)'
  BY <1>1, <1>2 DEF Up, RunInv, Plugin!Of, TraceTypes
<1>9. DoneInv'
  <2> SUFFICES ASSUME NEW d \in Calls, fin'[RunOf[d]] = "done"
               PROVE  ends[d] = starts[d] /\ handles'[WriterOf[d]] = 0
                   /\ creating[WriterOf[d]] = 0
    BY <1>2 DEF DoneInv
  <2>1. CASE RunOf[d] = r
    <3>1. CallInv(d) /\ d \notin todo[r] /\ d \notin active
      BY <1>1, <2>1 DEF Up, RunInv, Plugin!Of
    <3>2. ends[d] = starts[d]
      BY <1>1, <2>1, <3>1 DEF CallInv
    <3> QED
      BY <1>2, <1>3, <1>4, <2>1, <3>2
  <2>2. CASE RunOf[d] # r
    <3>1. fin[RunOf[d]] = "done"
      BY <1>1, <1>2, <1>4, <2>2 DEF TraceTypes
    <3> QED
      BY <1>1, <1>3, <1>4, <2>2, <3>1 DEF DoneInv
  <2> QED
    BY <2>1, <2>2
<1> QED
  BY <1>5, <1>6, <1>7, <1>8, <1>9 DEF TraceInv, Up

\* A shutdown interrupts what is active and closes every writer.
LEMMA PluginDown ==
    ASSUME Plugin!TraceAssumption, TraceInv, Plugin!Shutdown
    PROVE  TraceInv'
<1>1. Up /\ TraceTypes /\ DoneInv
  BY DEF Plugin!Shutdown, TraceInv
<1>2. /\ UNCHANGED <<hook, creating, starts, fin, todo>> /\ down' = TRUE /\ active' = {}
      /\ broken' = {}
      /\ handles' = [w \in Writers |-> 0]
      /\ ends' \in {ends, [c \in Calls |-> IF c \in active THEN Plugin!Written(ends, c)[c]
             ELSE ends[c]]}
  BY DEF Plugin!Shutdown
<1>3. ASSUME NEW c \in Calls
      PROVE  ends'[c] \in {0, 1} /\ (c \notin active => ends'[c] = ends[c])
  <2>1. CallInv(c) /\ ends[c] \in {0, 1}
    BY <1>1 DEF Up, TraceTypes
  <2>2. CASE c \in active
    <3>1. ends[c] = 0
      BY <2>1, <2>2 DEF CallInv
    <3>2. Plugin!Written(ends, c)[c] \in {0, 1}
      BY <1>1, <3>1 DEF Plugin!Written, TraceTypes
    <3> QED
      BY <1>2, <2>1, <2>2, <3>2
  <2>3. CASE c \notin active
    BY <1>2, <2>1, <2>3
  <2> QED
    BY <2>2, <2>3
<1>4. TraceTypes'
  <2>1. ends' = [c \in Calls |-> ends'[c]]
    BY <1>1, <1>2 DEF TraceTypes
  <2>2. ends' \in [Calls -> {0, 1}]
    BY <1>3, <2>1
  <2> QED
    BY <1>1, <1>2, <2>2 DEF TraceTypes
<1>5. DoneInv'
  <2> SUFFICES ASSUME NEW c \in Calls, fin[RunOf[c]] = "done"
               PROVE  ends'[c] = starts[c] /\ handles'[WriterOf[c]] = 0
                   /\ creating[WriterOf[c]] = 0
    BY <1>2 DEF DoneInv
  <2>1. RunInv(RunOf[c]) /\ WriterOf[c] \in Writers
    BY <1>1 DEF Up, Plugin!TraceAssumption
  <2>2. c \notin active
    BY <2>1 DEF RunInv, Plugin!Of
  <2> QED
    BY <1>1, <1>2, <1>3, <2>1, <2>2 DEF DoneInv
<1> QED
  BY <1>2, <1>4, <1>5 DEF TraceInv

\* The invariant of the trace.
LEMMA TraceInvAlways == Plugin!TraceAssumption => (Plugin!Spec => []TraceInv)
<1> SUFFICES ASSUME Plugin!TraceAssumption PROVE Plugin!Spec => []TraceInv
  OBVIOUS
<1>1. Plugin!Init => TraceInv
  BY TraceInvInit
<1>2. TraceInv /\ [Plugin!Next]_(Plugin!vars) => TraceInv'
  <2>1. ASSUME TraceInv, UNCHANGED Plugin!vars PROVE TraceInv'
    <3>1. UNCHANGED <<hook, active, creating, handles, broken, starts, ends, fin, todo, down>>
      BY <2>1 DEF Plugin!vars, Plugin!files
    <3>2. \A c \in Calls : CallInv(c)' <=> CallInv(c)
      BY <3>1 DEF CallInv
    <3>3. \A r \in Runs : RunInv(r)' <=> RunInv(r)
      BY <3>1 DEF RunInv, Plugin!Of
    <3> QED
      BY <2>1, <3>1, <3>2, <3>3 DEF TraceInv, TraceTypes, DoneInv, Up, WriterInv
  <2> QED
    BY <2>1, BeginStep, OpenedStep, HookStep, EndStep, CloseRunStep, PluginDown DEF Plugin!Next
<1> QED
  BY <1>1, <1>2, PTL DEF Plugin!Spec

\* Spans end once and with their run, and a closed run leaves no handle open.
THEOREM SpansEndWithTheirRun == Plugin!TraceAssumption => (Plugin!Spec => []RunsEndClean)
<1> SUFFICES ASSUME Plugin!TraceAssumption PROVE Plugin!Spec => []RunsEndClean
  OBVIOUS
<1>1. TraceInv => Plugin!RunsEndClean
  <2> SUFFICES ASSUME TraceInv PROVE Plugin!RunsEndClean
    OBVIOUS
  <2>1. \A c \in Calls : ends[c] <= 1
    BY DEF TraceInv, TraceTypes
  <2>2. \A r \in Runs : fin[r] = "done" => \A w \in Plugin!WritersOf(r) : handles[w] = 0
            /\ creating[w] = 0
    BY DEF TraceInv, DoneInv, Plugin!WritersOf, Plugin!Of
  <2> QED
    BY <2>1, <2>2 DEF TraceInv, DoneInv, Plugin!RunsEndClean
<1> QED
  BY <1>1, TraceInvAlways, PTL DEF RunsEndClean
=============================================================================
