-------------------------- MODULE AdmissionProofs --------------------------
(***************************************************************************)
(* Proofs about Admission for any calls, runtimes, demands and limits.      *)
(* What TLC's bound of two calls might hide is interference between calls:  *)
(* every step writes the lease and the record of one call only, except for  *)
(* the expiry and the sweep, which bound leases and claimed records survive.*)
(***************************************************************************)
EXTENDS Admission, FiniteSetTheorems, WellFoundedInduction, TLAPS

\* A record that its registration has bound a lease to, claimed or not.
RegisteredHoldsItsLease ==
    \A c \in handed \ givenBack :
        record[c].known /\ ~record[c].exited => lease[c] = "bound"

\* An authenticated exit comes from a claimed execution, which has then given
\* its lease back and cannot be registered again.
ReportedIsRetired ==
    \A c \in Calls : record[c].known /\ record[c].reported =>
        record[c].claimed /\ record[c].exited /\ lease[c] # "bound"

\* What a running or finished abort has dealt with.
AbortedIsRetired ==
    \A c \in Calls \ targets :
        RuntimeOf[c] \in finalizing \cup finalized /\ record[c].known =>
            record[c].exited /\ lease[c] # "bound"

\* Behind the fence no handler is left.
ClosedIsQuiet == \A c \in Calls : ~Open(c) => completion[c] \notin Processing

\* A lease comes from the one decision of its call.
LeaseHasDemand == \A c \in Calls : lease[c] # "none" => demand[c] # 0

AbortsOnce == finalizing \cap finalized = {}

\* The sum of the weights w of a set.
Total(w, S) == MapThenSumSet(LAMBDA c : w[c], S)

\* The reserved demands of all leases, by the operator of the lemmas on sums.
CpuWithin == Total(demand, Held) <= CpuBudget

\* The inductive invariant.
AdmissionInv ==
    /\ TypeOK
    /\ RegisteredHoldsItsLease
    /\ ReportedIsRetired
    /\ AbortedIsRetired
    /\ ClosedIsQuiet
    /\ LeaseHasDemand
    /\ AbortsOnce

-----------------------------------------------------------------------------

LEMMA ReservedInBudget == \A d \in Demands : Reserved(d) \in 1 .. CpuBudget
  BY AdmissionAssumption DEF Reserved

LEMMA InitAdmissionInv == Init => AdmissionInv
<1> SUFFICES ASSUME Init PROVE AdmissionInv
  OBVIOUS
<1>1. TypeOK
  BY AdmissionAssumption DEF Init, TypeOK, Records, NoRecord
<1>2. RegisteredHoldsItsLease /\ ReportedIsRetired /\ AbortedIsRetired /\ ClosedIsQuiet
        /\ LeaseHasDemand /\ AbortsOnce
  BY DEF Init, RegisteredHoldsItsLease, ReportedIsRetired, AbortedIsRetired,
         ClosedIsQuiet, LeaseHasDemand, AbortsOnce, NoRecord, Open, Processing, Admitted, Settled
<1> QED
  BY <1>1, <1>2 DEF AdmissionInv

LEMMA RecordUpdates ==
    /\ NoRecord \in Records /\ Registered \in Records
    /\ \A rec \in Records : /\ Ended(rec) \in Records
                           /\ [rec EXCEPT !.claimed = TRUE] \in Records
                           /\ [rec EXCEPT !.reported = TRUE] \in Records
  BY DEF NoRecord, Registered, Ended, Records

\* What a sweep may change: a record disappears as a whole.
LEMMA SweptRecords ==
  ASSUME TypeOK
  PROVE  /\ Swept \in [Calls -> Records]
         /\ \A c \in Calls : Swept[c] = record[c] \/ Swept[c] = NoRecord
         /\ \A c \in Calls : Swept[c].known => Swept[c] = record[c]
<1>1. NoRecord \in Records /\ ~NoRecord.known
  BY DEF NoRecord, Records
<1>2. \A c \in Calls : Swept[c] = IF Sweepable(c) THEN NoRecord ELSE record[c]
  BY DEF Swept
<1> QED
  BY <1>1, <1>2 DEF Swept, TypeOK

\* What the expiry may change: a provisional lease disappears.
LEMMA UnexpiredLeases ==
  ASSUME TypeOK
  PROVE  /\ Unexpired \in [Calls -> {"none", "provisional", "bound"}]
         /\ \A c \in Calls : Unexpired[c] = "bound" <=> lease[c] = "bound"
         /\ \A c \in Calls : Unexpired[c] = lease[c] \/ Unexpired[c] = "none"
  BY DEF Unexpired, TypeOK

-----------------------------------------------------------------------------

\* The parts of the invariant that the steps below disturb or carry over.
LEMMA NextAdmissionInv == AdmissionInv /\ [Next]_vars => AdmissionInv'
<1> SUFFICES ASSUME AdmissionInv, [Next]_vars PROVE AdmissionInv'
  OBVIOUS
<1> USE AdmissionAssumption DEF AdmissionInv, RegisteredHoldsItsLease, ReportedIsRetired,
        AbortedIsRetired, ClosedIsQuiet, LeaseHasDemand, AbortsOnce, Open, Processing,
        Admitted, Settled, leases, abort
<1>s. /\ Swept \in [Calls -> Records]
      /\ \A c \in Calls : Swept[c] = record[c] \/ Swept[c] = NoRecord
      /\ \A c \in Calls : Swept[c].known => Swept[c] = record[c]
  BY SweptRecords
<1>u. /\ Unexpired \in [Calls -> {"none", "provisional", "bound"}]
      /\ \A c \in Calls : Unexpired[c] = "bound" <=> lease[c] = "bound"
      /\ \A c \in Calls : Unexpired[c] = lease[c] \/ Unexpired[c] = "none"
  BY UnexpiredLeases
<1>1. CASE Expire
  BY <1>1, <1>u DEF Expire, TypeOK
<1>2. CASE Sweep
  BY <1>2, <1>s DEF Sweep, TypeOK, NoRecord
<1>3. ASSUME NEW c \in Calls, Lapse(c) PROVE AdmissionInv'
  BY <1>3 DEF Lapse, TypeOK
<1>4. ASSUME NEW c \in Calls, NEW d \in Deadlines, PassDeadline(c, d) PROVE AdmissionInv'
  BY <1>4 DEF PassDeadline, TypeOK, Records
<1>5. ASSUME NEW c \in Calls, NEW d \in Demands, Decide(c, d) PROVE AdmissionInv'
  <2>1. TypeOK'
    BY <1>5, <1>u, ReservedInBudget DEF Decide, TypeOK
  <2>2. RegisteredHoldsItsLease'
    BY <1>5, <1>u, ReservedInBudget DEF Decide, TypeOK
  <2>3. ReportedIsRetired'
    BY <1>5, <1>u, ReservedInBudget DEF Decide, TypeOK
  <2>4. AbortedIsRetired'
    BY <1>5, <1>u, ReservedInBudget DEF Decide, TypeOK
  <2>5. ClosedIsQuiet'
    BY <1>5, <1>u, ReservedInBudget DEF Decide, TypeOK
  <2>6. LeaseHasDemand' /\ AbortsOnce'
    BY <1>5, <1>u, ReservedInBudget DEF Decide, TypeOK
  <2> QED
    BY <2>1, <2>2, <2>3, <2>4, <2>5, <2>6
<1>6. ASSUME NEW c \in Calls, Withdraw(c) PROVE AdmissionInv'
  BY <1>6 DEF Withdraw, TypeOK
<1>7. ASSUME NEW c \in Calls, Register(c) PROVE AdmissionInv'
  <2>1. TypeOK'
    BY <1>7, <1>s, <1>u, RecordUpdates DEF Register, Bind, TypeOK
  <2>2. RegisteredHoldsItsLease'
    BY <1>7, <1>s, <1>u DEF Register, Bind, TypeOK, Registered, NoRecord, Records
  <2>3. ReportedIsRetired'
    BY <1>7, <1>s, <1>u DEF Register, Bind, TypeOK, Registered, NoRecord, Records
  <2>4. AbortedIsRetired'
    BY <1>7, <1>s, <1>u DEF Register, Bind, TypeOK, Registered, NoRecord, Records
  <2>5. ClosedIsQuiet'
    BY <1>7, <1>s, <1>u DEF Register, Bind, TypeOK, Registered, NoRecord, Records
  <2>6. LeaseHasDemand'
    <3>1. lease' \in {lease, [Unexpired EXCEPT ![c] = "bound"]} /\ demand' = demand
      BY <1>7 DEF Register, Bind
    <3>2. lease'[c] # "none" => lease[c] # "none"
      BY <1>7 DEF Register, Bind, Live, Held
    <3> QED
      BY <3>1, <3>2, <1>u DEF TypeOK
  <2>7. AbortsOnce'
    BY <1>7 DEF Register
  <2> QED
    BY <2>1, <2>2, <2>3, <2>4, <2>5, <2>6, <2>7
<1>8. ASSUME NEW c \in Calls, Claim(c) PROVE AdmissionInv'
  <2>1. TypeOK'
    BY <1>8, <1>s, RecordUpdates DEF Claim, TypeOK
  <2>2. RegisteredHoldsItsLease'
    BY <1>8, <1>s DEF Claim, TypeOK, Records, NoRecord
  <2>3. ReportedIsRetired'
    BY <1>8, <1>s DEF Claim, TypeOK, Records, NoRecord
  <2>4. AbortedIsRetired'
    BY <1>8, <1>s DEF Claim, TypeOK, Records, NoRecord
  <2>5. ClosedIsQuiet'
    BY <1>8, <1>s DEF Claim, TypeOK, Records, NoRecord
  <2>6. LeaseHasDemand' /\ AbortsOnce'
    BY <1>8, <1>s DEF Claim, TypeOK, Records, NoRecord
  <2> QED
    BY <2>1, <2>2, <2>3, <2>4, <2>5, <2>6
<1>9. ASSUME NEW c \in Calls, Exited(c) PROVE AdmissionInv'
  <2>1. TypeOK'
    BY <1>9, <1>s, RecordUpdates DEF Exited, ReleaseExecution, TypeOK
  <2>2. RegisteredHoldsItsLease'
    BY <1>9, <1>s DEF Exited, Ended, ReleaseExecution, TypeOK, Records, NoRecord
  <2>3. ReportedIsRetired'
    BY <1>9, <1>s DEF Exited, Ended, ReleaseExecution, TypeOK, Records, NoRecord
  <2>4. AbortedIsRetired'
    BY <1>9, <1>s DEF Exited, Ended, ReleaseExecution, TypeOK, Records, NoRecord
  <2>5. ClosedIsQuiet'
    BY <1>9, <1>s DEF Exited, Ended, ReleaseExecution, TypeOK, Records, NoRecord
  <2>6. LeaseHasDemand' /\ AbortsOnce'
    BY <1>9, <1>s DEF Exited, Ended, ReleaseExecution, TypeOK, Records, NoRecord
  <2> QED
    BY <2>1, <2>2, <2>3, <2>4, <2>5, <2>6
<1>10. ASSUME NEW c \in Calls, BeginCompletion(c) PROVE AdmissionInv'
  <2>1. TypeOK'
    <3>1. PICK kind \in Admitted : completion' = [completion EXCEPT ![c] = kind]
      BY <1>10 DEF BeginCompletion
    <3>2. completion' \in [Calls -> {"none", "done", "failed"} \cup Processing]
      BY <3>1 DEF TypeOK
    <3> QED
      BY <1>10, <1>s, <3>2 DEF BeginCompletion, TypeOK
  <2>2. RegisteredHoldsItsLease'
    BY <1>10, <1>s DEF BeginCompletion, TypeOK, NoRecord
  <2>3. ReportedIsRetired'
    BY <1>10, <1>s DEF BeginCompletion, TypeOK, NoRecord
  <2>4. AbortedIsRetired'
    BY <1>10, <1>s DEF BeginCompletion, TypeOK, NoRecord
  <2>5. ClosedIsQuiet'
    BY <1>10, <1>s DEF BeginCompletion, TypeOK, NoRecord
  <2>6. LeaseHasDemand' /\ AbortsOnce'
    BY <1>10, <1>s DEF BeginCompletion, TypeOK, NoRecord
  <2> QED
    BY <2>1, <2>2, <2>3, <2>4, <2>5, <2>6
<1>11. ASSUME NEW c \in Calls, CompletionRelease(c) PROVE AdmissionInv'
  BY <1>11 DEF CompletionRelease, ReleaseNamedLease, TypeOK
<1>12. ASSUME NEW c \in Calls, FinishCompletion(c) PROVE AdmissionInv'
  <2>1. TypeOK'
    <3>1. completion' \in [Calls -> {"none", "done", "failed"} \cup Processing]
      BY <1>12 DEF FinishCompletion, TypeOK
    <3>2. record' \in [Calls -> Records]
      BY <1>12, RecordUpdates DEF FinishCompletion, TypeOK
    <3> QED
      BY <1>12, <3>1, <3>2 DEF FinishCompletion, TypeOK
  <2>2. RegisteredHoldsItsLease'
    BY <1>12 DEF FinishCompletion, Ended, TypeOK, Records
  <2>3. ReportedIsRetired'
    BY <1>12 DEF FinishCompletion, Ended, TypeOK, Records
  <2>4. AbortedIsRetired'
    BY <1>12 DEF FinishCompletion, Ended, TypeOK, Records
  <2>5. ClosedIsQuiet'
    BY <1>12 DEF FinishCompletion, Ended, TypeOK, Records
  <2>6. LeaseHasDemand' /\ AbortsOnce'
    BY <1>12 DEF FinishCompletion, Ended, TypeOK, Records
  <2> QED
    BY <2>1, <2>2, <2>3, <2>4, <2>5, <2>6
<1>13. ASSUME NEW c \in Calls, FailCompletion(c) PROVE AdmissionInv'
  BY <1>13 DEF FailCompletion, TypeOK
<1>14. ASSUME NEW r \in Runtimes, AbortBegin(r) PROVE AdmissionInv'
  <2>1. TypeOK'
    BY <1>14, <1>s DEF AbortBegin, Busy, Of, TypeOK, NoRecord
  <2>2. RegisteredHoldsItsLease'
    BY <1>14, <1>s DEF AbortBegin, Busy, Of, TypeOK, NoRecord
  <2>3. ReportedIsRetired'
    BY <1>14, <1>s DEF AbortBegin, Busy, Of, TypeOK, NoRecord
  <2>4. AbortedIsRetired'
    BY <1>14, <1>s DEF AbortBegin, Busy, Of, TypeOK, NoRecord
  <2>5. ClosedIsQuiet'
    BY <1>14, <1>s DEF AbortBegin, Busy, Of, TypeOK, NoRecord
  <2>6. LeaseHasDemand' /\ AbortsOnce'
    BY <1>14, <1>s DEF AbortBegin, Busy, Of, TypeOK, NoRecord
  <2> QED
    BY <2>1, <2>2, <2>3, <2>4, <2>5, <2>6
<1>15. ASSUME NEW c \in Calls, AbortExecution(c) PROVE AdmissionInv'
  <2>1. TypeOK'
    BY <1>15, RecordUpdates DEF AbortExecution, ReleaseExecution, TypeOK
  <2>2. RegisteredHoldsItsLease'
    BY <1>15 DEF AbortExecution, Ended, ReleaseExecution, TypeOK, Records
  <2>3. ReportedIsRetired'
    BY <1>15 DEF AbortExecution, Ended, ReleaseExecution, TypeOK, Records
  <2>4. AbortedIsRetired'
    BY <1>15 DEF AbortExecution, Ended, ReleaseExecution, TypeOK, Records
  <2>5. ClosedIsQuiet'
    BY <1>15 DEF AbortExecution, Ended, ReleaseExecution, TypeOK, Records
  <2>6. LeaseHasDemand' /\ AbortsOnce'
    BY <1>15 DEF AbortExecution, Ended, ReleaseExecution, TypeOK, Records
  <2> QED
    BY <2>1, <2>2, <2>3, <2>4, <2>5, <2>6
<1>16. ASSUME NEW c \in Calls, AbortBreaks(c) PROVE AdmissionInv'
  <2>1. TypeOK'
    BY <1>16 DEF AbortBreaks, Of, TypeOK
  <2>2. RegisteredHoldsItsLease'
    BY <1>16 DEF AbortBreaks, Of, TypeOK
  <2>3. ReportedIsRetired'
    BY <1>16 DEF AbortBreaks, Of, TypeOK
  <2>4. AbortedIsRetired'
    BY <1>16 DEF AbortBreaks, Of, TypeOK
  <2>5. ClosedIsQuiet'
    BY <1>16 DEF AbortBreaks, Of, TypeOK
  <2>6. LeaseHasDemand' /\ AbortsOnce'
    BY <1>16 DEF AbortBreaks, Of, TypeOK
  <2> QED
    BY <2>1, <2>2, <2>3, <2>4, <2>5, <2>6
<1>17. ASSUME NEW r \in Runtimes, AbortFinish(r) PROVE AdmissionInv'
  BY <1>17 DEF AbortFinish, Of, TypeOK
<1>18. ASSUME NEW r \in Runtimes, Teardown(r) PROVE AdmissionInv'
  BY <1>18 DEF Teardown, Of, Held, TypeOK
<1>19. CASE UNCHANGED vars
  BY <1>19 DEF vars, TypeOK
<1> QED
  BY <1>1, <1>2, <1>3, <1>4, <1>5, <1>6, <1>7, <1>8, <1>9, <1>10, <1>11, <1>12, <1>13,
     <1>14, <1>15, <1>16, <1>17, <1>18, <1>19 DEF Next, Time, Handler, Abort

LEMMA AdmissionInvAlways == Spec => []AdmissionInv
  BY InitAdmissionInv, NextAdmissionInv, PTL DEF Spec

-----------------------------------------------------------------------------
(* Sums over finite sets.  The sum of MapThenSumSet is a recursive function   *)
(* over the subsets; that it exists, and what it is, follows from the least    *)
(* number principle.                                                           *)

\* The natural numbers are well ordered.
Below == {p \in Nat \X Nat : p[1] < p[2]}
LEMMA LeastNumber ==
    ASSUME NEW T \in SUBSET Nat, T # {}
    PROVE  \E n \in T : \A m \in T : n <= m
<1>1. OpToRel(<, Nat) = Below
  BY DEF OpToRel, Below
<1>2. IsWellFoundedOn(Below, Nat)
  BY <1>1, NatLessThanWellFounded
<1>3. PICK n \in T : \A m \in T : ~ (<<m, n>> \in Below)
  BY <1>2, WFMin
<1>4. \A m \in T : ~ (m < n)
  BY <1>3 DEF Below
<1> QED
  BY <1>4

\* A set with 0 and the successor of each of its numbers has them all.
LEMMA SuccessorsAreAll ==
    ASSUME NEW T, 0 \in T, \A n \in Nat : n \in T => n + 1 \in T
    PROVE  Nat \subseteq T
<1> DEFINE Rest == Nat \ T
<1>1. Rest \in SUBSET Nat /\ 0 \notin Rest /\ \A n \in Nat : n + 1 \in Rest => n \in Rest
  OBVIOUS
<1>2. Rest = {} => Nat \subseteq T
  OBVIOUS
<1> HIDE DEF Rest
<1>3. CASE Rest # {}
  <2>1. PICK n \in Rest : \A m \in Rest : n <= m
    BY <1>1, <1>3, LeastNumber
  <2>2. n - 1 \in Nat /\ (n - 1) + 1 \in Rest
    BY <1>1, <2>1
  <2>3. n - 1 \in Rest
    BY <1>1, <2>2
  <2> QED
    BY <1>1, <2>1, <2>3
<1> QED
  BY <1>2, <1>3

\* Finite sets are built by adding one member at a time.
LEMMA SubsetInduction ==
    ASSUME NEW S, IsFiniteSet(S), NEW T, {} \in T,
           \A s \in SUBSET S : s # {} /\ (\A x \in s : s \ {x} \in T) => s \in T
    PROVE  SUBSET S \subseteq T
<1> DEFINE K == {k \in Nat : \A s \in SUBSET S : Cardinality(s) <= k => s \in T}
<1>1. \A s \in SUBSET S : IsFiniteSet(s) /\ Cardinality(s) \in Nat
  BY FS_Subset, FS_CardinalityType
<1>2. 0 \in K
  <2>1. \A s \in SUBSET S : Cardinality(s) <= 0 => s = {}
    BY <1>1, FS_EmptySet
  <2> QED
    BY <2>1
<1>3. ASSUME NEW k \in Nat, k \in K PROVE k + 1 \in K
  <2>1. ASSUME NEW s \in SUBSET S, Cardinality(s) <= k + 1 PROVE s \in T
    <3>1. CASE s = {}
      BY <3>1
    <3>2. CASE s # {}
      <4>1. ASSUME NEW x \in s PROVE s \ {x} \in T
        <5>1. Cardinality(s \ {x}) = Cardinality(s) - 1
          BY <1>1, FS_RemoveElement
        <5>2. Cardinality(s \ {x}) <= k /\ s \ {x} \in SUBSET S
          BY <1>1, <2>1, <5>1
        <5> QED
          BY <1>3, <5>2
      <4> QED
        BY <3>2, <4>1
    <3> QED
      BY <3>1, <3>2
  <2> QED
    BY <2>1
<1>4. Nat \subseteq K
  <2> HIDE DEF K
  <2> QED
    BY <1>2, <1>3, SuccessorsAreAll
<1>5. ASSUME NEW s \in SUBSET S PROVE s \in T
  <2>1. Cardinality(s) \in K /\ Cardinality(s) \in Nat
    BY <1>1, <1>4
  <2> QED
    BY <2>1
<1> QED
  BY <1>5

\* One round of the sum: some member and the sum of the others.
Some(s) == CHOOSE c \in s : TRUE
Round(w, g, s) == IF s = {} THEN 0 ELSE w[Some(s)] + g[s \ {Some(s)}]
Sums(w, S) == CHOOSE g : g = [s \in SUBSET S |-> Round(w, g, s)]
\* A function that obeys the recursion for the subsets of up to n members.
SumsTo(w, S, n, g) == \A s \in SUBSET S : Cardinality(s) <= n => g[s] = Round(w, g, s)
Weighs(w, S) == \A c \in S : w[c] \in Nat

LEMMA SomeMember == ASSUME NEW s, s # {} PROVE Some(s) \in s
BY DEF Some

LEMMA TotalIsSums == ASSUME NEW w, NEW S PROVE Total(w, S) = Sums(w, S)[S]
BY DEF Total, MapThenSumSet, MapThenFoldSet, Sums, Round, Some

\* The recursion is defined: up to any size there is a function that obeys it.
LEMMA SumsUpTo ==
    ASSUME NEW S, IsFiniteSet(S), NEW w, Weighs(w, S)
    PROVE  \A n \in Nat : \E g \in [SUBSET S -> Nat] : SumsTo(w, S, n, g)
<1> DEFINE T == {k \in Nat : \E g \in [SUBSET S -> Nat] : SumsTo(w, S, k, g)}
<1>0. \A s \in SUBSET S : IsFiniteSet(s) /\ Cardinality(s) \in Nat
  BY FS_Subset, FS_CardinalityType
<1>1. 0 \in T
  <2> DEFINE g == [s \in SUBSET S |-> 0]
  <2>1. \A s \in SUBSET S : Cardinality(s) <= 0 => s = {}
    BY <1>0, FS_EmptySet
  <2>2. \A s \in SUBSET S : Cardinality(s) <= 0 => g[s] = Round(w, g, s)
    BY <2>1 DEF Round
  <2>3. g \in [SUBSET S -> Nat]
    OBVIOUS
  <2> HIDE DEF g
  <2>4. SumsTo(w, S, 0, g)
    BY <2>2 DEF SumsTo
  <2> QED
    BY <2>3, <2>4
<1>2. ASSUME NEW k \in Nat, k \in T PROVE k + 1 \in T
  <2>1. PICK g \in [SUBSET S -> Nat] : SumsTo(w, S, k, g)
    BY <1>2
  <2>2. ASSUME NEW s \in SUBSET S, s # {}
        PROVE  /\ w[Some(s)] \in Nat /\ s \ {Some(s)} \in SUBSET S
               /\ Cardinality(s \ {Some(s)}) = Cardinality(s) - 1
    BY <1>0, <2>2, SomeMember, FS_RemoveElement DEF Weighs
  <2>3. ASSUME NEW s \in SUBSET S PROVE Round(w, g, s) \in Nat
    <3>1. CASE s = {}
      BY <3>1 DEF Round
    <3>2. CASE s # {}
      <4>1. w[Some(s)] \in Nat /\ g[s \ {Some(s)}] \in Nat
        BY <2>2, <3>2
      <4> QED
        BY <3>2, <4>1 DEF Round
    <3> QED
      BY <3>1, <3>2
  <2> DEFINE h == [s \in SUBSET S |-> IF Cardinality(s) <= k THEN g[s] ELSE Round(w, g, s)]
  <2>4. h \in [SUBSET S -> Nat]
    BY <2>3
  <2>5. ASSUME NEW s \in SUBSET S, Cardinality(s) <= k + 1 PROVE h[s] = Round(w, h, s)
    <3>1. h[s] = Round(w, g, s)
      BY <2>1 DEF SumsTo
    <3>2. CASE s = {}
      BY <3>1, <3>2 DEF Round
    <3>3. CASE s # {}
      <4>1. Cardinality(s \ {Some(s)}) <= k /\ s \ {Some(s)} \in SUBSET S
        BY <1>0, <2>2, <2>5, <3>3
      <4>2. h[s \ {Some(s)}] = g[s \ {Some(s)}]
        BY <4>1
      <4> QED
        BY <3>1, <3>3, <4>2 DEF Round
    <3> QED
      BY <3>2, <3>3
  <2> HIDE DEF h
  <2>6. SumsTo(w, S, k + 1, h)
    BY <2>5 DEF SumsTo
  <2> QED
    BY <2>4, <2>6
<1>3. Nat \subseteq T
  <2> HIDE DEF T
  <2> QED
    BY <1>1, <1>2, SuccessorsAreAll
<1> QED
  BY <1>3

\* So the sum of every subset is the weight of some member and the sum of the rest.
LEMMA SumsAre ==
    ASSUME NEW S, IsFiniteSet(S), NEW w, Weighs(w, S)
    PROVE  \A s \in SUBSET S : /\ Sums(w, S)[s] = Round(w, Sums(w, S), s)
                               /\ Sums(w, S)[s] \in Nat
<1>0. PICK n \in Nat : n = Cardinality(S)
  BY FS_CardinalityType
<1>1. PICK g \in [SUBSET S -> Nat] : SumsTo(w, S, n, g)
  BY SumsUpTo
<1>2. \A s \in SUBSET S : g[s] = Round(w, g, s)
  BY <1>0, <1>1, FS_Subset DEF SumsTo
<1>3. g = [s \in SUBSET S |-> Round(w, g, s)]
  BY <1>2
<1> DEFINE G == Sums(w, S)
<1>4. G = [s \in SUBSET S |-> Round(w, G, s)]
  BY <1>3 DEF Sums
<1> HIDE DEF G
<1>5. \A s \in SUBSET S : G[s] = Round(w, G, s)
  BY <1>4
<1> DEFINE T == {s \in SUBSET S : G[s] \in Nat}
<1>6. {} \in T
  <2>1. Round(w, G, {}) = 0
    BY DEF Round
  <2> QED
    BY <1>5, <2>1
<1>7. ASSUME NEW s \in SUBSET S, s # {}, \A x \in s : s \ {x} \in T PROVE s \in T
  <2>1. Some(s) \in s /\ w[Some(s)] \in Nat /\ G[s \ {Some(s)}] \in Nat
    BY <1>7, SomeMember DEF Weighs
  <2>2. Round(w, G, s) \in Nat
    BY <1>7, <2>1 DEF Round
  <2> QED
    BY <1>5, <2>2
<1>8. SUBSET S \subseteq T
  <2> HIDE DEF T
  <2> QED
    BY <1>6, <1>7, SubsetInduction
<1> QED
  BY <1>5, <1>8 DEF G

\* The sum depends on the weights of the members only.
LEMMA SumsAgree ==
    ASSUME NEW S, IsFiniteSet(S), NEW R \in SUBSET S, NEW w, NEW v, Weighs(w, S),
           \A c \in R : v[c] = w[c]
    PROVE  \A s \in SUBSET R : Sums(v, R)[s] = Sums(w, S)[s]
<1> DEFINE F == Sums(v, R)
           G == Sums(w, S)
           T == {s \in SUBSET R : F[s] = G[s]}
<1>1. IsFiniteSet(R) /\ Weighs(v, R)
  BY FS_Subset DEF Weighs
<1>2. /\ \A s \in SUBSET R : F[s] = Round(v, F, s)
      /\ \A s \in SUBSET S : G[s] = Round(w, G, s)
  BY <1>1, SumsAre
<1> HIDE DEF F, G
<1>3. {} \in T
  BY <1>2 DEF Round
<1>4. ASSUME NEW s \in SUBSET R, s # {}, \A x \in s : s \ {x} \in T PROVE s \in T
  <2>1. Some(s) \in s /\ v[Some(s)] = w[Some(s)] /\ F[s \ {Some(s)}] = G[s \ {Some(s)}]
    BY <1>4, SomeMember
  <2>2. F[s] = v[Some(s)] + F[s \ {Some(s)}] /\ G[s] = w[Some(s)] + G[s \ {Some(s)}]
    BY <1>2, <1>4 DEF Round
  <2> QED
    BY <2>1, <2>2
<1>5. SUBSET R \subseteq T
  <2> HIDE DEF T
  <2> QED
    BY <1>1, <1>3, <1>4, SubsetInduction
<1> QED
  BY <1>5 DEF F, G

\* What the sum of a finite set is: nothing for the empty set, and every member
\* adds its weight.
LEMMA TotalIsNat ==
    ASSUME NEW S, IsFiniteSet(S), NEW w, Weighs(w, S)
    PROVE  Total(w, S) \in Nat
BY SumsAre, TotalIsSums

LEMMA TotalIsEqual ==
    ASSUME NEW S, IsFiniteSet(S), NEW w, NEW v, Weighs(w, S), \A c \in S : v[c] = w[c]
    PROVE  Total(v, S) = Total(w, S)
<1>1. Sums(v, S)[S] = Sums(w, S)[S]
  BY SumsAgree
<1> QED
  BY <1>1, TotalIsSums

LEMMA TotalOfNone == ASSUME NEW w PROVE Total(w, {}) = 0
<1>1. IsFiniteSet({}) /\ Weighs(w, {})
  BY FS_EmptySet DEF Weighs
<1> QED
  BY <1>1, SumsAre, TotalIsSums DEF Round

LEMMA TotalOfSome ==
    ASSUME NEW S, IsFiniteSet(S), NEW w, Weighs(w, S), S # {}
    PROVE  Total(w, S) = w[Some(S)] + Total(w, S \ {Some(S)})
<1>1. Sums(w, S)[S] = w[Some(S)] + Sums(w, S)[S \ {Some(S)}]
  BY SumsAre DEF Round
<1>2. Sums(w, S \ {Some(S)})[S \ {Some(S)}] = Sums(w, S)[S \ {Some(S)}]
  BY SumsAgree
<1> QED
  BY <1>1, <1>2, TotalIsSums

LEMMA TotalOfMember ==
    ASSUME NEW S, IsFiniteSet(S), NEW w, Weighs(w, S), NEW y \in S
    PROVE  Total(w, S) = w[y] + Total(w, S \ {y})
<1> DEFINE T == {s \in SUBSET S : \A x \in s : Total(w, s) = w[x] + Total(w, s \ {x})}
<1>0. \A s \in SUBSET S : IsFiniteSet(s) /\ Weighs(w, s) /\ Total(w, s) \in Nat
  BY FS_Subset, TotalIsNat DEF Weighs
<1>1. {} \in T
  OBVIOUS
<1>2. ASSUME NEW s \in SUBSET S, s # {}, \A x \in s : s \ {x} \in T PROVE s \in T
  <2>1. ASSUME NEW x \in s PROVE Total(w, s) = w[x] + Total(w, s \ {x})
    <3> DEFINE z == Some(s)
    <3>1. z \in s /\ Total(w, s) = w[z] + Total(w, s \ {z})
      BY <1>0, <1>2, SomeMember, TotalOfSome
    <3> HIDE DEF z
    <3>2. CASE x = z
      BY <3>1, <3>2
    <3>3. CASE x # z
      <4>1. Total(w, s \ {z}) = w[x] + Total(w, (s \ {z}) \ {x})
        BY <1>2, <3>1, <3>3
      <4>2. Total(w, s \ {x}) = w[z] + Total(w, (s \ {x}) \ {z})
        BY <1>2, <3>1, <3>3
      <4>3. (s \ {z}) \ {x} = (s \ {x}) \ {z}
        OBVIOUS
      <4>4. w[x] \in Nat /\ w[z] \in Nat /\ Total(w, (s \ {x}) \ {z}) \in Nat
        BY <1>0, <3>1 DEF Weighs
      <4>5. PICK k \in Nat : k = Total(w, (s \ {x}) \ {z})
        BY <4>4
      <4>6. Total(w, s) = w[z] + (w[x] + k) /\ Total(w, s \ {x}) = w[z] + k
        BY <3>1, <4>1, <4>2, <4>3, <4>5
      <4> QED
        BY <4>4, <4>6
    <3> QED
      BY <3>2, <3>3
  <2> QED
    BY <2>1
<1>3. SUBSET S \subseteq T
  <2> HIDE DEF T
  <2> QED
    BY <1>1, <1>2, SubsetInduction
<1> QED
  BY <1>3

LEMMA TotalOfPart ==
    ASSUME NEW S, IsFiniteSet(S), NEW w, Weighs(w, S), NEW R \in SUBSET S
    PROVE  Total(w, R) <= Total(w, S)
<1> DEFINE T == {s \in SUBSET S : \A r \in SUBSET s : Total(w, r) <= Total(w, s)}
<1>0. \A s \in SUBSET S : IsFiniteSet(s) /\ Weighs(w, s) /\ Total(w, s) \in Nat
  BY FS_Subset, TotalIsNat DEF Weighs
<1>1. {} \in T
  BY <1>0
<1>2. ASSUME NEW s \in SUBSET S, s # {}, \A x \in s : s \ {x} \in T PROVE s \in T
  <2>1. ASSUME NEW r \in SUBSET s PROVE Total(w, r) <= Total(w, s)
    <3>1. CASE r = s
      BY <1>0, <3>1
    <3>2. ASSUME NEW x \in s \ r PROVE Total(w, r) <= Total(w, s)
      <4>1. Total(w, s) = w[x] + Total(w, s \ {x}) /\ w[x] \in Nat
        BY <1>0, TotalOfMember DEF Weighs
      <4>2. r \in SUBSET (s \ {x}) /\ s \ {x} \in T
        BY <1>2
      <4>3. Total(w, r) <= Total(w, s \ {x})
        BY <4>2
      <4>4. Total(w, r) \in Nat /\ Total(w, s \ {x}) \in Nat
        BY <1>0
      <4> QED
        BY <4>1, <4>3, <4>4
    <3> QED
      BY <3>1, <3>2
  <2> QED
    BY <2>1
<1>3. SUBSET S \subseteq T
  <2> HIDE DEF T
  <2> QED
    BY <1>1, <1>2, SubsetInduction
<1> QED
  BY <1>3

-----------------------------------------------------------------------------

\* A step may give one call a lease and with it its demand, and only when the
\* live leases leave a slot and the budget for it.
LEMMA LeasesAfterStep ==
  ASSUME AdmissionInv, [Next]_vars
  PROVE  \/ Held' \subseteq Held /\ demand' = demand
         \/ \E c \in Calls, d \in Demands :
               /\ Held' = Live \cup {c} /\ c \notin Live
               /\ demand' = [demand EXCEPT ![c] = Reserved(d)]
               /\ Cardinality(Live) < MaxGlobal
               /\ UsedMcpu + Reserved(d) <= CpuBudget
<1> USE DEF AdmissionInv, TypeOK, Held
<1>1. ASSUME NEW c \in Calls, NEW d \in Demands, Decide(c, d)
      PROVE  /\ Held' = Live \cup {c} /\ c \notin Live
             /\ demand' = [demand EXCEPT ![c] = Reserved(d)]
             /\ Cardinality(Live) < MaxGlobal
             /\ UsedMcpu + Reserved(d) <= CpuBudget
  BY <1>1 DEF Decide, Fits, Live, Unexpired, LeaseHasDemand
<1>2. ASSUME ~ \E c \in Calls, d \in Demands : Decide(c, d)
      PROVE  demand' = demand
  BY <1>2 DEF Next, Time, Abort, Handler, Withdraw, Register, Claim, Exited, BeginCompletion,
              CompletionRelease, FinishCompletion, FailCompletion, leases, Expire, Sweep, Lapse,
              PassDeadline, AbortExecution, AbortBreaks, AbortBegin, AbortFinish, Teardown, vars
<1>3. ASSUME ~ \E c \in Calls, d \in Demands : Decide(c, d)
      PROVE  Held' \subseteq Held
  <2>1. ASSUME NEW c \in Calls, Handler(c) PROVE Held' \subseteq Held
    BY <1>3, <2>1 DEF Handler, Withdraw, Register, Bind, Live, Unexpired, Claim, Exited,
                ReleaseExecution, BeginCompletion, CompletionRelease, ReleaseNamedLease,
                FinishCompletion, FailCompletion, leases
  <2>2. ASSUME Time \/ Abort \/ (\E r \in Runtimes : Teardown(r)) \/ UNCHANGED vars
        PROVE  Held' \subseteq Held
    BY <2>2 DEF Time, Expire, Unexpired, Sweep, Lapse, PassDeadline, Abort, AbortExecution,
                ReleaseExecution, AbortBreaks, AbortBegin, AbortFinish, Teardown, vars, leases
  <2> QED
    BY <2>1, <2>2 DEF Next
<1> QED
  BY <1>1, <1>2, <1>3

\* Claims and evidence of a fenced runtime stay as they are.
LEMMA ClosedStaysFinal ==
  ASSUME AdmissionInv, [Next]_vars, NEW c \in Calls, ~Open(c)
  PROVE  /\ completion'[c] = completion[c]
         /\ record'[c].known => /\ record[c].known
                                /\ record'[c].claimed = record[c].claimed
                                /\ record'[c].reported = record[c].reported
<1> USE DEF AdmissionInv, TypeOK, Records
<1>s. /\ \A b \in Calls : Swept[b] = record[b] \/ Swept[b] = NoRecord
      /\ Swept \in [Calls -> Records]
      /\ ~NoRecord.known
  BY SweptRecords DEF NoRecord
<1>q. completion[c] \notin Processing
  BY DEF ClosedIsQuiet
<1>1. CASE Time
  BY <1>1, <1>s DEF Time, Expire, Sweep, Lapse, PassDeadline
<1>2. ASSUME NEW b \in Calls, NEW d \in Demands, Decide(b, d)
      PROVE  UNCHANGED <<record, completion>>
  BY <1>2 DEF Decide
<1>3. ASSUME NEW b \in Calls, Withdraw(b) PROVE UNCHANGED <<record, completion>>
  BY <1>3 DEF Withdraw
<1>4. ASSUME NEW b \in Calls, Register(b) \/ Claim(b) \/ Exited(b)
      PROVE  completion' = completion /\ b # c /\ record'[c] = Swept[c]
  BY <1>4, <1>s DEF Register, Claim, Exited
<1>5. ASSUME NEW b \in Calls,
             BeginCompletion(b) \/ CompletionRelease(b) \/ FinishCompletion(b) \/ FailCompletion(b)
      PROVE  completion'[c] = completion[c] /\ record'[c] \in {record[c], Swept[c]}
  <2>1. b # c
    BY <1>5, <1>q DEF BeginCompletion, CompletionRelease, FinishCompletion, FailCompletion, Processing
  <2> QED
    BY <1>5, <2>1, <1>s DEF BeginCompletion, CompletionRelease, FinishCompletion, FailCompletion
<1>6. CASE Abort
  <2>1. ASSUME NEW b \in Calls, AbortExecution(b)
        PROVE  /\ completion' = completion /\ record[b].known
               /\ record'[c] \in {record[c], IF b = c THEN Ended(record[c]) ELSE record[c]}
    BY <1>6, <2>1 DEF AbortExecution
  <2>2. ASSUME NEW b \in Calls, AbortBreaks(b) PROVE UNCHANGED <<record, completion>>
    BY <2>2 DEF AbortBreaks
  <2>3. ASSUME NEW r \in Runtimes, AbortBegin(r)
        PROVE  completion' = completion /\ record' = Swept
    BY <2>3 DEF AbortBegin
  <2>4. ASSUME NEW r \in Runtimes, AbortFinish(r) PROVE UNCHANGED <<record, completion>>
    BY <2>4 DEF AbortFinish
  <2>5. /\ Ended(record[c]).claimed = record[c].claimed
        /\ Ended(record[c]).reported = record[c].reported
    BY DEF Ended
  <2> QED
    BY <1>6, <1>s, <2>1, <2>2, <2>3, <2>4, <2>5 DEF Abort
<1>7. ASSUME NEW r \in Runtimes, Teardown(r) PROVE UNCHANGED <<record, completion>>
  BY <1>7 DEF Teardown
<1>8. CASE UNCHANGED vars
  BY <1>8 DEF vars
<1>9. CASE completion'[c] = completion[c] /\ record'[c] \in {record[c], Swept[c]}
  BY <1>9, <1>s
<1> QED
  BY <1>1, <1>2, <1>3, <1>4, <1>5, <1>6, <1>7, <1>8, <1>9 DEF Next, Handler

-----------------------------------------------------------------------------

\* Every lease, record and completion keeps its type, and the targets of an
\* abort belong to a runtime that is being aborted.
THEOREM AdmissionTypeCorrect == Spec => []TypeOK
  BY AdmissionInvAlways, PTL DEF AdmissionInv

\* The leases never exceed the global slots, however the decisions, expiries,
\* retries and aborts of any number of calls interleave.
THEOREM SlotsNeverExceeded == Spec => []WithinSlots
<1>1. \A S \in SUBSET Calls : IsFiniteSet(S) /\ Cardinality(S) \in Nat
  BY AdmissionAssumption, FS_Subset, FS_CardinalityType
<1>2. Init => WithinSlots
  <2>1. Init => Held = {}
    BY DEF Init, Held
  <2> QED
    BY <2>1, FS_EmptySet, AdmissionAssumption DEF WithinSlots
<1>3. ASSUME AdmissionInv, WithinSlots, [Next]_vars PROVE WithinSlots'
  <2>1. Held \in SUBSET Calls /\ Live \in SUBSET Calls
    BY DEF Held, Live
  <2>2. CASE Held' \subseteq Held
    BY <1>1, <1>3, <2>1, <2>2, FS_Subset, FS_CardinalityType, AdmissionAssumption DEF WithinSlots
  <2>3. ASSUME NEW c \in Calls, Held' = Live \cup {c}, Cardinality(Live) < MaxGlobal
        PROVE  WithinSlots'
    <3>1. Cardinality(Held') <= Cardinality(Live) + 1 /\ Cardinality(Held') \in Nat
      BY <1>1, <2>1, <2>3, FS_AddElement
    <3> QED
      BY <1>1, <2>1, <2>3, <3>1, AdmissionAssumption DEF WithinSlots
  <2> QED
    BY <1>3, <2>2, <2>3, LeasesAfterStep
<1> QED
  BY <1>2, <1>3, AdmissionInvAlways, PTL DEF Spec

\* The reserved demands of the leases never exceed the CPU budget, however many
\* calls compete and whatever expires or is given back in between.
THEOREM BudgetNeverExceeded == Spec => []WithinBudget
<1>1. ASSUME AdmissionInv
      PROVE  /\ Held \in SUBSET Calls /\ Live \in SUBSET Held
             /\ IsFiniteSet(Held) /\ IsFiniteSet(Live)
             /\ demand \in [Calls -> Nat] /\ Weighs(demand, Calls)
  <2>1. Held \in SUBSET Calls /\ Live \in SUBSET Held
    BY DEF Held, Live
  <2>2. demand \in [Calls -> Nat]
    BY <1>1, AdmissionAssumption DEF AdmissionInv, TypeOK
  <2> QED
    BY <2>1, <2>2, FS_Subset, AdmissionAssumption DEF Weighs
<1>2. /\ WithinBudget <=> WithinSlots /\ Total(demand, Held) <= CpuBudget
      /\ UsedMcpu = Total(demand, Live)
  BY DEF WithinBudget, UsedMcpu, Total
<1>3. Init => CpuWithin
  <2>1. Init => Held = {}
    BY DEF Init, Held
  <2> QED
    BY <2>1, TotalOfNone, AdmissionAssumption DEF CpuWithin
<1>4. ASSUME AdmissionInv, AdmissionInv', CpuWithin, [Next]_vars PROVE CpuWithin'
  <2>1. /\ Total(demand, Held) \in Nat /\ Total(demand, Live) \in Nat
        /\ Weighs(demand, Held) /\ Weighs(demand, Live)
    BY <1>1, <1>4, TotalIsNat DEF Weighs
  <2>2. CASE Held' \subseteq Held /\ demand' = demand
    <3>1. Total(demand, Held') <= Total(demand, Held)
      BY <1>1, <1>4, <2>1, <2>2, TotalOfPart
    <3>2. Total(demand, Held') \in Nat
      BY <1>1, <1>4, <2>2, FS_Subset, TotalIsNat DEF Weighs
    <3> QED
      BY <1>4, <2>1, <2>2, <3>1, <3>2, AdmissionAssumption DEF CpuWithin
  <2>3. ASSUME NEW c \in Calls, NEW d \in Demands, Held' = Live \cup {c}, c \notin Live,
               demand' = [demand EXCEPT ![c] = Reserved(d)],
               UsedMcpu + Reserved(d) <= CpuBudget
        PROVE  CpuWithin'
    <3>1. Reserved(d) \in Nat /\ demand'[c] = Reserved(d)
      BY <1>1, <1>4, <2>3, ReservedInBudget, AdmissionAssumption
    <3>2. Weighs(demand', Held') /\ \A x \in Live : demand'[x] = demand[x]
      BY <1>1, <1>4, <2>3, <3>1 DEF Weighs
    <3>3. IsFiniteSet(Held') /\ Held' \ {c} = Live /\ c \in Held'
      BY <1>1, <1>4, <2>3, FS_AddElement
    <3>4. Total(demand', Held') = demand'[c] + Total(demand', Live)
      BY <3>2, <3>3, TotalOfMember
    <3>5. Total(demand', Live) = Total(demand, Live)
      BY <1>1, <1>4, <2>1, <3>2, TotalIsEqual
    <3> QED
      BY <1>2, <2>1, <2>3, <3>1, <3>4, <3>5, AdmissionAssumption DEF CpuWithin
  <2> QED
    BY <1>4, <2>2, <2>3, LeasesAfterStep
<1>5. Spec => []CpuWithin
  BY <1>3, <1>4, AdmissionInvAlways, PTL DEF Spec
<1>6. WithinSlots /\ CpuWithin => WithinBudget
  BY <1>2 DEF CpuWithin
<1> QED
  BY <1>5, <1>6, SlotsNeverExceeded, PTL

\* A claimed execution that has not ended is never without its lease, whatever
\* the other calls and the deadlines do.
THEOREM RunningKeepsItsLease == Spec => []RunningHoldsItsLease
<1>1. AdmissionInv => RunningHoldsItsLease
  BY DEF AdmissionInv, RegisteredHoldsItsLease, RunningHoldsItsLease, Running
<1> QED
  BY <1>1, AdmissionInvAlways, PTL

\* A successful abort leaves neither running executions nor their leases.
THEOREM AbortRetiresItsRuntime == Spec => []FinalizedIsRetired
<1>1. AdmissionInv => FinalizedIsRetired
  <2> SUFFICES ASSUME AdmissionInv, NEW c \in Calls, RuntimeOf[c] \in finalized, record[c].known
               PROVE  record[c].exited /\ lease[c] # "bound"
    BY DEF FinalizedIsRetired
  <2>1. c \notin targets
    BY DEF AdmissionInv, TypeOK, AbortsOnce
  <2> QED
    BY <2>1 DEF AdmissionInv, AbortedIsRetired
<1> QED
  BY <1>1, AdmissionInvAlways, PTL

\* Behind the fence of a runtime nothing is registered, claimed, reported or
\* completed any more.
THEOREM ClosedRuntimeStaysFinal == Spec => ClosedRuntimeIsFinal
<1>1. AdmissionInv /\ [Next]_vars =>
        [\A c \in Calls : ~Open(c) =>
            /\ completion'[c] = completion[c]
            /\ record'[c].known => /\ record[c].known
                                   /\ record'[c].claimed = record[c].claimed
                                   /\ record'[c].reported = record[c].reported]_vars
  BY ClosedStaysFinal
<1> QED
  BY <1>1, AdmissionInvAlways, PTL DEF Spec, ClosedRuntimeIsFinal
=============================================================================
