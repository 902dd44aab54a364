----------------------------- MODULE StateStore -----------------------------
(***************************************************************************)
(* The managed knowledge-base directory of clawtune_kb/store.py: a working  *)
(* set of snapshot files that the predictor replaces one by one, numbered   *)
(* generation directories, and the CURRENT file whose replacement is the    *)
(* commit point.  One process at a time owns the directory (flock on        *)
(* .writer.lock); it can stop between any two file operations, and any file *)
(* operation of a checkpoint can raise.                                     *)
(*                                                                          *)
(* A snapshot's content is abstracted to a version number: two contents are *)
(* the same file (st_ino, st_mtime_ns) exactly when the numbers are equal.  *)
(***************************************************************************)
EXTENDS Integers, FiniteSets

CONSTANTS Files,              \* FILES: the snapshot files
          Missing,            \* a file not yet in its generation directory
          Torn,               \* a file whose unsynced bytes were lost
          NoStats,            \* _snapshot_stats is None
          MaxVersion,         \* bound: versions of a snapshot
          MaxGeneration,      \* bound: generation numbers
          PowerLossPossible   \* whether a stop may also lose unsynced bytes

Versions == 0 .. MaxVersion
Generations == 1 .. MaxGeneration
Contents == Versions \cup {Torn}
Empty == [f \in Files |-> Missing]

ASSUME StoreAssumption ==
    /\ MaxVersion \in Nat /\ MaxGeneration \in Nat
    /\ PowerLossPossible \in BOOLEAN
    /\ Missing \notin Int /\ Torn \notin Int /\ Missing # Torn
    /\ Files # {}
    /\ NoStats \notin [Files -> Contents]

VARIABLES
    work,      \* the working set: file -> version
    rootGen,   \* "generation" in the working set's state.json
    dirs,      \* numbers of the existing generation directories
    copy,      \* generation -> file -> version copied there, or Missing
    sealed,    \* generations whose own state.json is written
    current,   \* what CURRENT names, 0 while it does not exist
    volatile,  \* generations whose snapshot copies are not synced yet
    stats,     \* _snapshot_stats of the running process
    phase,     \* where the owning process is
    target     \* the generation the running checkpoint writes

vars == <<work, rootGen, dirs, copy, sealed, current, volatile, stats,
          phase, target>>

Committing == {"copying", "switching", "rooting", "trimming"}
Phases == {"down", "restoring", "open"} \cup Committing

TypeOK ==
    /\ work \in [Files -> Contents]
    /\ rootGen \in 0 .. MaxGeneration
    /\ dirs \subseteq Generations
    /\ copy \in [Generations -> [Files -> Contents \cup {Missing}]]
    /\ sealed \subseteq dirs
    /\ current \in 0 .. MaxGeneration
    /\ volatile \subseteq dirs
    /\ stats \in [Files -> Contents] \cup {NoStats}
    /\ phase \in Phases
    /\ target \in 0 .. MaxGeneration

\* initialize_state has copied the seed and written state.json, and owns the
\* directory for its first checkpoint.
Init ==
    /\ work = [f \in Files |-> 0]
    /\ rootGen = 0
    /\ dirs = {}
    /\ copy = [g \in Generations |-> Empty]
    /\ sealed = {}
    /\ current = 0
    /\ volatile = {}
    /\ stats = NoStats
    /\ phase = "open"
    /\ target = 0

-----------------------------------------------------------------------------
(* The owner's writes and its checkpoint, one file operation per step.      *)

\* _write_json_atomic: a snapshot of the working set is replaced whole.
WriteSnapshot(f) ==
    /\ phase = "open"
    /\ work[f] < MaxVersion
    /\ work' = [work EXCEPT ![f] = @ + 1]
    /\ UNCHANGED <<rootGen, dirs, copy, sealed, current, volatile, stats,
                   phase, target>>

\* The early return: nothing changed since the last commit or restore.
Unchanged == current # 0 /\ work = stats

\* The first number after state["generation"] that no directory has taken.
FirstFree(g) ==
    /\ g > rootGen
    /\ g \notin dirs
    /\ \A h \in Generations : rootGen < h /\ h < g => h \in dirs

MakeDirectory ==
    /\ phase = "open"
    /\ ~Unchanged
    /\ \E g \in Generations :
          /\ FirstFree(g)
          /\ dirs' = dirs \cup {g}
          /\ target' = g
    /\ phase' = "copying"
    /\ UNCHANGED <<work, rootGen, copy, sealed, current, volatile, stats>>

\* The page cache only needs tracking where the power may be lost.
Unsynced == IF PowerLossPossible THEN {target} ELSE {}

\* shutil.copyfile does not sync what it writes.
CopySnapshot(f) ==
    /\ phase = "copying"
    /\ copy[target][f] = Missing
    /\ copy' = [copy EXCEPT ![target][f] = work[f]]
    /\ volatile' = volatile \cup Unsynced
    /\ UNCHANGED <<work, rootGen, dirs, sealed, current, stats, phase, target>>

\* write_json(folder / "state.json", state)
SealGeneration ==
    /\ phase = "copying"
    /\ \A f \in Files : copy[target][f] # Missing
    /\ sealed' = sealed \cup {target}
    /\ phase' = "switching"
    /\ UNCHANGED <<work, rootGen, dirs, copy, current, volatile, stats, target>>

\* os.replace(temp, CURRENT): the commit point.
SwitchCurrent ==
    /\ phase = "switching"
    /\ current' = target
    /\ phase' = "rooting"
    /\ UNCHANGED <<work, rootGen, dirs, copy, sealed, volatile, stats, target>>

\* The working set's state.json, then the in-memory change detector.
WriteRootState ==
    /\ phase = "rooting"
    /\ rootGen' = target
    /\ stats' = work
    /\ phase' = "trimming"
    /\ UNCHANGED <<work, dirs, copy, sealed, current, volatile, target>>

\* Mutant: the candidates sorted the other way round.
StaleAscending == {g \in dirs : \E h, i \in dirs : h < i /\ i < g}

\* candidates[2:]: every directory with two newer ones.
Stale == {g \in dirs : \E h, i \in dirs : g < h /\ h < i}

\* rmtree of the stale directories, newest first.
Trim ==
    /\ phase = "trimming"
    /\ \E g \in Stale :
          /\ \A h \in Stale : h <= g
          /\ dirs' = dirs \ {g}
          /\ sealed' = sealed \ {g}
          /\ volatile' = volatile \ {g}
          /\ copy' = [copy EXCEPT ![g] = Empty]
    /\ UNCHANGED <<work, rootGen, current, stats, phase, target>>

FinishCheckpoint ==
    /\ phase = "trimming"
    /\ Stale = {}
    /\ phase' = "open"
    /\ target' = 0
    /\ UNCHANGED <<work, rootGen, dirs, copy, sealed, current, volatile, stats>>

\* A file operation raises: checkpoint() propagates it and its owner may
\* checkpoint again.
FailCheckpoint ==
    /\ phase \in Committing
    /\ phase' = "open"
    /\ target' = 0
    /\ UNCHANGED <<work, rootGen, dirs, copy, sealed, current, volatile, stats>>

-----------------------------------------------------------------------------
(* Stopping and starting.                                                   *)

\* __exit__, or the death of the process at any point.
StopProcess ==
    /\ phase # "down"
    /\ phase' = "down"
    /\ target' = 0
    /\ stats' = NoStats
    /\ UNCHANGED <<work, rootGen, dirs, copy, sealed, current, volatile>>

\* Mutant: the next owner works on whatever the last one left.
EnterUnrestored ==
    /\ phase = "down"
    /\ phase' = "open"
    /\ UNCHANGED <<work, rootGen, dirs, copy, sealed, current, volatile, stats,
                   target>>

\* __enter__ takes the lock; restore() returns early without a CURRENT.
Enter ==
    /\ phase = "down"
    /\ phase' = IF current = 0 THEN "open" ELSE "restoring"
    /\ UNCHANGED <<work, rootGen, dirs, copy, sealed, current, volatile, stats,
                   target>>

RestoreSnapshot(f) ==
    /\ phase = "restoring"
    /\ work[f] # copy[current][f]
    /\ work' = [work EXCEPT ![f] = copy[current][f]]
    /\ UNCHANGED <<rootGen, dirs, copy, sealed, current, volatile, stats, phase,
                   target>>

\* Mutant: a snapshot that does not parse is taken for an empty one.
FinishRestoreUnparsed ==
    /\ phase = "restoring"
    /\ work = copy[current]
    /\ rootGen' = current
    /\ phase' = "open"
    /\ stats' = work
    /\ UNCHANGED <<work, dirs, copy, sealed, current, volatile, target>>

\* state.json comes back last.  A snapshot that does not parse makes the
\* predictor's start fail and give the lock back.
FinishRestore ==
    /\ phase = "restoring"
    /\ work = copy[current]
    /\ rootGen' = current
    /\ IF Torn \in {work[f] : f \in Files}
       THEN phase' = "down" /\ stats' = NoStats
       ELSE phase' = "open" /\ stats' = work
    /\ UNCHANGED <<work, dirs, copy, sealed, current, volatile, target>>

-----------------------------------------------------------------------------
(* The page cache.  state.json and CURRENT are synced by the code, the      *)
(* snapshot copies are written back by the kernel some time later.          *)

WriteBack(g) ==
    /\ g \in volatile
    /\ volatile' = volatile \ {g}
    /\ UNCHANGED <<work, rootGen, dirs, copy, sealed, current, stats, phase,
                   target>>

LosePower ==
    /\ PowerLossPossible
    /\ current # 0
    /\ phase' = "down"
    /\ target' = 0
    /\ stats' = NoStats
    /\ \E lost \in SUBSET volatile :
          copy' = [g \in Generations |->
                     IF g \in lost THEN [f \in Files |-> Torn] ELSE copy[g]]
    /\ volatile' = {}
    /\ UNCHANGED <<work, rootGen, dirs, sealed, current>>

Checkpoint == \/ MakeDirectory \/ SealGeneration \/ SwitchCurrent
              \/ WriteRootState \/ Trim \/ FinishCheckpoint \/ FailCheckpoint
              \/ \E f \in Files : CopySnapshot(f)

Environment == StopProcess \/ LosePower \/ \E g \in volatile : WriteBack(g)

Restoration == Enter \/ FinishRestore \/ \E f \in Files : RestoreSnapshot(f)

Next == \/ Checkpoint
        \/ Restoration
        \/ Environment
        \/ \E f \in Files : WriteSnapshot(f)

Spec == Init /\ [][Next]_vars

-----------------------------------------------------------------------------
(* Properties.                                                              *)

\* Whatever step the owner stopped at, CURRENT names a directory that the
\* trimming has not removed, whose state.json is written and which holds every
\* snapshot: a restart can always load it (committed_state, restore).
CurrentIsWhole ==
    current # 0 => /\ current \in sealed
                   /\ \A f \in Files : copy[current][f] # Missing

\* No checkpoint, restore or stop moves CURRENT back to an older generation,
\* even after failed checkpoints have left higher-numbered directories behind.
CurrentNeverGoesBack == [][current' >= current]_vars

\* A damaged commit never becomes the base of further learning: the process
\* that finds it does not start, and CURRENT keeps naming it.
NeverLearnsFromTornSnapshots ==
    phase = "open" \/ phase \in Committing => \A f \in Files : work[f] # Torn

\* The abstract store: the working set is lost with its process, and the
\* committed snapshots are those of the generation CURRENT names.
Stopped == phase \in {"down", "restoring"}
CommittedNow == IF current = 0 THEN NoStats ELSE copy[current]
WorkingNow == IF Stopped /\ current # 0 THEN copy[current] ELSE work

AC == INSTANCE AtomicCommit
        WITH NoCommit <- NoStats, Seed <- [f \in Files |-> 0],
             Damaged <- IF PowerLossPossible THEN {[f \in Files |-> Torn]} ELSE {},
             working <- WorkingNow, committed <- CommittedNow, up <- ~Stopped

\* The directory implements the abstract store: a commit is one step.
ImplementsAtomicCommit == AC!CSpec
=============================================================================
