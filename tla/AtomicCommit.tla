---------------------------- MODULE AtomicCommit ----------------------------
(***************************************************************************)
(* What the managed knowledge-base directory promises its one writer       *)
(* (docstring of StateStore, clawtune_kb/store.py): the snapshots of all    *)
(* backends are committed together or not at all, a process that stops      *)
(* loses what it had not committed and nothing else, and the next process   *)
(* starts from the last commit.  Only a power loss may damage the commit.   *)
(***************************************************************************)
CONSTANTS Files,      \* the snapshot files of the knowledge bases
          Contents,   \* what a snapshot may contain
          NoCommit,   \* what is committed before the first checkpoint
          Damaged,    \* what a power loss may leave of a commit, {} if none can happen
          Seed        \* the snapshots the directory is initialised with

VARIABLES working,    \* the snapshots the running process would checkpoint
          committed,  \* the snapshots a restart would load, or NoCommit
          up          \* whether a process owns the directory

commitVars == <<working, committed, up>>

AfterStop == IF committed = NoCommit THEN working ELSE committed

CInit == working = Seed /\ committed = NoCommit /\ up = TRUE

\* One snapshot is replaced in the working set.
Replace(f, version) ==
    /\ up = TRUE
    /\ working' = [working EXCEPT ![f] = version]
    /\ UNCHANGED <<committed, up>>

\* The whole working set becomes the committed state in one step.
Commit ==
    /\ up = TRUE
    /\ committed' = working
    /\ UNCHANGED <<working, up>>

\* The process ends, orderly or not.
Stop ==
    /\ up = TRUE
    /\ up' = FALSE
    /\ working' = AfterStop
    /\ UNCHANGED committed

\* The machine goes down; the commit is as it was, or damaged as a whole.
LosePower ==
    /\ committed # NoCommit
    /\ up' = FALSE
    /\ \E left \in Damaged \cup {committed} : committed' = left /\ working' = left

Restart == up = FALSE /\ up' = TRUE /\ UNCHANGED <<working, committed>>

CNext == Commit \/ Stop \/ LosePower \/ Restart \/ \E f \in Files, v \in Contents : Replace(f, v)

CSpec == CInit /\ [][CNext]_commitVars
=============================================================================
