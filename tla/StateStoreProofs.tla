-------------------------- MODULE StateStoreProofs --------------------------
(***************************************************************************)
(* Proofs about StateStore for any set of snapshot files and any bounds.    *)
(* What makes CURRENT safe from the trimming is that it names the newest    *)
(* directory whenever the trimming runs; that holds because the numbers in  *)
(* use above rootGen have no gap, so that the first free one is the newest. *)
(***************************************************************************)
EXTENDS StateStore, TLAPS

NoGapAboveRoot ==
    \A d \in dirs, h \in Generations : rootGen < h /\ h < d => h \in dirs

TargetIsNewest ==
    phase \in Committing => target \in dirs /\ \A d \in dirs : d <= target

PhaseFacts ==
    /\ rootGen <= current
    /\ phase \in {"copying", "switching"} => current < target
    /\ phase = "switching" => target \in sealed
    /\ phase \in {"rooting", "trimming"} => current = target
    /\ phase = "trimming" => rootGen = target
    /\ phase = "restoring" => current # 0

SealedIsWhole == \A g \in sealed, f \in Files : copy[g][f] # Missing

NoDirectoryNoCopy == \A g \in Generations \ dirs : copy[g] = Empty

CopiesTheWorkingSet ==
    phase \in {"copying", "switching"} =>
        \A f \in Files : copy[target][f] \in {Missing, work[f]}

WorkIsReadable ==
    phase = "open" \/ phase \in Committing \/ current = 0 =>
        \A f \in Files : work[f] # Torn

\* The inductive invariant.
StoreInv ==
    /\ TypeOK
    /\ (current # 0 => current \in sealed)
    /\ NoGapAboveRoot
    /\ TargetIsNewest
    /\ PhaseFacts
    /\ SealedIsWhole
    /\ NoDirectoryNoCopy
    /\ CopiesTheWorkingSet
    /\ WorkIsReadable

-----------------------------------------------------------------------------

LEMMA InitStoreInv == Init => StoreInv
<1> SUFFICES ASSUME Init PROVE StoreInv
  OBVIOUS
<1> USE StoreAssumption DEF Init
<1>1. TypeOK
  BY DEF TypeOK, Phases, Contents, Versions, Generations, Empty
<1>2. NoGapAboveRoot /\ TargetIsNewest /\ PhaseFacts /\ CopiesTheWorkingSet
  BY DEF NoGapAboveRoot, TargetIsNewest, PhaseFacts, CopiesTheWorkingSet, Committing
<1>3. SealedIsWhole /\ NoDirectoryNoCopy /\ WorkIsReadable
  BY DEF SealedIsWhole, NoDirectoryNoCopy, WorkIsReadable
<1> QED
  BY <1>1, <1>2, <1>3 DEF StoreInv

LEMMA NextStoreInv == StoreInv /\ [Next]_vars => StoreInv'
<1> SUFFICES ASSUME StoreInv, [Next]_vars PROVE StoreInv'
  OBVIOUS
<1> USE StoreAssumption DEF StoreInv, TypeOK, NoGapAboveRoot, TargetIsNewest, PhaseFacts,
        SealedIsWhole, NoDirectoryNoCopy, CopiesTheWorkingSet, WorkIsReadable,
        Phases, Committing, Contents, Versions, Generations
<1>1. ASSUME NEW f \in Files, WriteSnapshot(f) PROVE StoreInv'
  BY <1>1 DEF WriteSnapshot
<1>2. CASE MakeDirectory
  <2>1. PICK g \in Generations :
          FirstFree(g) /\ dirs' = dirs \cup {g} /\ target' = g
    BY <1>2 DEF MakeDirectory
  \* The first free number is above every directory: a higher directory would
  \* leave a gap.
  <2>2. \A d \in dirs : d < g
    BY <2>1 DEF FirstFree
  <2>3. TypeOK'
    BY <1>2, <2>1 DEF MakeDirectory
  <2>4. NoGapAboveRoot' /\ TargetIsNewest' /\ PhaseFacts'
    BY <1>2, <2>1, <2>2 DEF MakeDirectory, FirstFree
  <2>5. CopiesTheWorkingSet'
    BY <1>2, <2>1 DEF MakeDirectory, FirstFree, Empty
  <2>6. (current # 0 => current \in sealed)' /\ SealedIsWhole' /\ NoDirectoryNoCopy'
          /\ WorkIsReadable'
    BY <1>2, <2>1 DEF MakeDirectory
  <2> QED
    BY <2>3, <2>4, <2>5, <2>6
<1>3. ASSUME NEW f \in Files, CopySnapshot(f) PROVE StoreInv'
  BY <1>3 DEF CopySnapshot, Unsynced
<1>4. CASE SealGeneration
  BY <1>4 DEF SealGeneration
<1>5. CASE SwitchCurrent
  BY <1>5 DEF SwitchCurrent
<1>6. CASE WriteRootState
  BY <1>6 DEF WriteRootState
<1>7. CASE Trim
  <2>1. PICK g \in Stale :
          /\ dirs' = dirs \ {g}
          /\ sealed' = sealed \ {g}
          /\ volatile' = volatile \ {g}
          /\ copy' = [copy EXCEPT ![g] = Empty]
    BY <1>7 DEF Trim
  \* CURRENT names the newest directory here, and a stale one has two newer.
  <2>2. g \in dirs /\ g # current
    BY <1>7, <2>1 DEF Trim, Stale
  <2>3. TypeOK'
    BY <1>7, <2>1, <2>2 DEF Trim, Empty
  <2>4. (current # 0 => current \in sealed)' /\ NoGapAboveRoot' /\ TargetIsNewest'
          /\ PhaseFacts'
    BY <1>7, <2>1, <2>2 DEF Trim
  <2>5. SealedIsWhole' /\ NoDirectoryNoCopy'
    BY <1>7, <2>1, <2>2 DEF Trim
  <2>6. CopiesTheWorkingSet' /\ WorkIsReadable'
    BY <1>7, <2>1 DEF Trim
  <2> QED
    BY <2>3, <2>4, <2>5, <2>6
<1>8. CASE FinishCheckpoint
  BY <1>8 DEF FinishCheckpoint
<1>9. CASE FailCheckpoint
  BY <1>9 DEF FailCheckpoint
<1>10. CASE Enter
  BY <1>10 DEF Enter
<1>11. ASSUME NEW f \in Files, RestoreSnapshot(f) PROVE StoreInv'
  BY <1>11 DEF RestoreSnapshot
<1>12. CASE FinishRestore
  BY <1>12 DEF FinishRestore
<1>13. CASE StopProcess
  BY <1>13 DEF StopProcess
<1>14. CASE LosePower
  BY <1>14 DEF LosePower
<1>15. ASSUME NEW g \in volatile, WriteBack(g) PROVE StoreInv'
  BY <1>15 DEF WriteBack
<1>16. CASE UNCHANGED vars
  BY <1>16 DEF vars
<1> QED
  BY <1>1, <1>2, <1>3, <1>4, <1>5, <1>6, <1>7, <1>8, <1>9, <1>10, <1>11, <1>12, <1>13,
     <1>14, <1>15, <1>16
  DEF Next, Checkpoint, Restoration, Environment

-----------------------------------------------------------------------------

LEMMA StoreInvAlways == Spec => []StoreInv
  BY InitStoreInv, NextStoreInv, PTL DEF Spec

\* Every reachable state is well typed (the invariant TypeOK of the runs).
THEOREM TypeCorrect == Spec => []TypeOK
<1>1. StoreInv => TypeOK
  BY DEF StoreInv
<1> QED
  BY <1>1, StoreInvAlways, PTL

\* Whatever step a checkpoint, a restore or a trimming was stopped at, CURRENT
\* names a whole generation, for any files and bounds and with power losses.
THEOREM CurrentAlwaysWhole == Spec => []CurrentIsWhole
<1>1. StoreInv => CurrentIsWhole
  BY DEF StoreInv, SealedIsWhole, CurrentIsWhole
<1> QED
  BY <1>1, StoreInvAlways, PTL

\* A torn commit stops the start of the process instead of being learned from.
THEOREM TornNeverLearned == Spec => []NeverLearnsFromTornSnapshots
<1>1. StoreInv => NeverLearnsFromTornSnapshots
  BY DEF StoreInv, WorkIsReadable, NeverLearnsFromTornSnapshots
<1> QED
  BY <1>1, StoreInvAlways, PTL

\* CURRENT only moves forward.
THEOREM CurrentMonotone == Spec => CurrentNeverGoesBack
<1>1. StoreInv /\ [Next]_vars => [current' >= current]_vars
  <2> SUFFICES ASSUME StoreInv, [Next]_vars PROVE current' >= current
    OBVIOUS
  <2>1. current \in Int
    BY StoreAssumption DEF StoreInv, TypeOK
  <2>2. CASE SwitchCurrent
    BY <2>1, <2>2, StoreAssumption DEF SwitchCurrent, StoreInv, PhaseFacts, TypeOK
  <2>3. CASE UNCHANGED current
    BY <2>1, <2>3
  <2>4. SwitchCurrent \/ UNCHANGED current
    BY DEF Next, Checkpoint, Restoration, Environment, WriteSnapshot, MakeDirectory,
           CopySnapshot, SealGeneration, WriteRootState, Trim, FinishCheckpoint,
           FailCheckpoint, Enter, RestoreSnapshot, FinishRestore, StopProcess,
           LosePower, WriteBack, vars
  <2> QED
    BY <2>2, <2>3, <2>4
<1> QED
  BY <1>1, StoreInvAlways, PTL DEF Spec, CurrentNeverGoesBack

-----------------------------------------------------------------------------
(* Refinement: the directory is an atomic store that a power loss damages   *)
(* as a whole, if at all.                                                   *)

LEMMA InitRefines == Init => AC!CInit
  BY DEF Init, AC!CInit, WorkingNow, CommittedNow, Stopped

LEMMA StepRefines == StoreInv /\ [Next]_vars => [AC!CNext]_(AC!commitVars)
<1> SUFFICES ASSUME StoreInv, [Next]_vars
             PROVE  AC!CNext \/ UNCHANGED AC!commitVars
  OBVIOUS
<1> USE DEF WorkingNow, CommittedNow, Stopped, AC!commitVars
<1>0. /\ TypeOK /\ PhaseFacts
      /\ current # 0 => current \in Generations /\ copy[current] \in [Files -> Contents]
  <2>1. TypeOK /\ PhaseFacts /\ SealedIsWhole /\ (current # 0 => current \in sealed)
    BY DEF StoreInv
  <2> QED
    BY <2>1 DEF TypeOK, SealedIsWhole
<1>1. ASSUME NEW f \in Files, WriteSnapshot(f) PROVE AC!CNext
  <2>1. work[f] + 1 \in Contents
    BY <1>0, <1>1, StoreAssumption
    DEF WriteSnapshot, StoreInv, WorkIsReadable, TypeOK, Contents, Versions
  <2>2. AC!Replace(f, work[f] + 1)
    BY <1>1 DEF WriteSnapshot, AC!Replace
  <2> QED
    BY <2>1, <2>2 DEF AC!CNext
<1>2. CASE SwitchCurrent
  <2>1. \A f \in Files : copy[target][f] = work[f]
    BY <1>2 DEF SwitchCurrent, StoreInv, PhaseFacts, SealedIsWhole, CopiesTheWorkingSet
  <2>2. target # 0 /\ target \in Generations
    BY <1>0, <1>2, StoreAssumption DEF SwitchCurrent, PhaseFacts, TypeOK, Generations
  <2>3. copy[target] = work
    BY <1>0, <2>1, <2>2 DEF TypeOK
  <2>4. AC!Commit
    BY <1>2, <2>2, <2>3 DEF SwitchCurrent, AC!Commit
  <2> QED
    BY <2>4 DEF AC!CNext
<1>3. CASE StopProcess
  <2>1. current # 0 => copy[current] # NoStats
    BY <1>0, StoreAssumption
  <2>2. CASE phase = "restoring"
    BY <1>0, <1>3, <2>2 DEF StopProcess, PhaseFacts
  <2>3. CASE phase # "restoring"
    <3>1. AC!Stop
      BY <1>3, <2>1, <2>3 DEF StopProcess, AC!Stop, AC!AfterStop
    <3> QED
      BY <3>1 DEF AC!CNext
  <2> QED
    BY <2>2, <2>3
<1>4. CASE Enter
  <2>1. CASE current = 0
    BY <1>4, <2>1 DEF Enter, AC!CNext, AC!Restart
  <2>2. CASE current # 0
    BY <1>4, <2>2 DEF Enter
  <2> QED
    BY <2>1, <2>2
<1>5. CASE FinishRestore
  <2>1. CASE phase' = "down"
    BY <1>0, <1>5, <2>1 DEF FinishRestore, PhaseFacts
  <2>2. CASE phase' = "open"
    BY <1>0, <1>5, <2>2 DEF FinishRestore, PhaseFacts, AC!CNext, AC!Restart
  <2> QED
    BY <1>5, <2>1, <2>2 DEF FinishRestore
<1>6. ASSUME NEW f \in Files, RestoreSnapshot(f) PROVE UNCHANGED AC!commitVars
  BY <1>0, <1>6 DEF RestoreSnapshot, PhaseFacts
\* A checkpoint only fills and removes directories that CURRENT does not name.
<1>7. ASSUME NEW f \in Files, CopySnapshot(f) PROVE UNCHANGED AC!commitVars
  <2>1. current # target
    BY <1>0, <1>7, StoreAssumption DEF CopySnapshot, PhaseFacts, TypeOK
  <2>2. current # 0 => copy'[current] = copy[current]
    BY <1>0, <1>7, <2>1 DEF CopySnapshot, TypeOK
  <2> QED
    BY <1>7, <2>2 DEF CopySnapshot
<1>8. CASE Trim
  <2>1. PICK g \in Stale : copy' = [copy EXCEPT ![g] = Empty]
    BY <1>8 DEF Trim
  <2>2. g # current
    BY <1>0, <1>8, <2>1, StoreAssumption
    DEF Trim, Stale, StoreInv, TargetIsNewest, PhaseFacts, TypeOK, Generations, Committing
  <2>3. current # 0 => copy'[current] = copy[current]
    BY <1>0, <2>1, <2>2 DEF TypeOK
  <2> QED
    BY <1>8, <2>3 DEF Trim
<1>9. CASE \/ MakeDirectory \/ SealGeneration \/ WriteRootState \/ FinishCheckpoint
           \/ FailCheckpoint \/ UNCHANGED vars \/ \E g \in volatile : WriteBack(g)
  BY <1>9 DEF MakeDirectory, SealGeneration, WriteRootState, FinishCheckpoint,
              FailCheckpoint, Committing, WriteBack, vars
\* The lost copies are whole directories: CURRENT's is as it was, or all torn.
<1>10. CASE LosePower
  <2>1. PICK lost \in SUBSET volatile :
          copy' = [g \in Generations |->
                     IF g \in lost THEN [f \in Files |-> Torn] ELSE copy[g]]
    BY <1>10 DEF LosePower
  <2>2. /\ copy'[current] = copy[current] \/ copy'[current] = [f \in Files |-> Torn]
        /\ current' = current /\ current # 0 /\ phase' = "down" /\ PowerLossPossible
    BY <1>0, <1>10, <2>1 DEF LosePower
  <2>3. copy[current] # NoStats
    BY <1>0, <2>2, StoreAssumption
  <2>4. AC!LosePower
    BY <2>2, <2>3 DEF AC!LosePower
  <2> QED
    BY <2>4 DEF AC!CNext
<1> QED
  BY <1>1, <1>2, <1>3, <1>4, <1>5, <1>6, <1>7, <1>8, <1>9, <1>10
  DEF Next, Checkpoint, Restoration, Environment

\* The directory implements the atomic store: all snapshots are committed by one
\* step, a restart loads the last commit, and only a power loss can damage it.
THEOREM StoreImplementsAtomicCommit == Spec => ImplementsAtomicCommit
<1>1. StoreInv /\ [Next]_vars => [AC!CNext]_(AC!commitVars)
  BY StepRefines
<1> QED
  BY <1>1, InitRefines, StoreInvAlways, PTL DEF Spec, ImplementsAtomicCommit, AC!CSpec
=============================================================================
