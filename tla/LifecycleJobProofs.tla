------------------------- MODULE LifecycleJobProofs -------------------------
(***************************************************************************)
(* Theorems about LifecycleJob, for any replicas, items and durations.     *)
(***************************************************************************)
EXTENDS LifecycleJob, TLAPS

USE LifecycleAssumption

\* A key that exists has time left.
KeyLives == key # None => ttl > 0

IInv == TypeOK /\ KeyLives

LEMMA InitIInv == Init => IInv
BY DEF Init, IInv, TypeOK, KeyLives, Stages

\* Processing and ageing stay within the stages.
LEMMA StageTypes ==
  ASSUME NEW st \in Stages
  PROVE  /\ \A p \in Phases : Processed(p, st) \in Stages
         /\ st \in DOMAIN Aged => Aged[st] \in Stages
BY DEF Stages, Phases, Processed, Aged

LEMMA StepIInv == IInv /\ [Next]_vars => IInv'
<1> SUFFICES ASSUME IInv, [Next]_vars PROVE IInv'
  OBVIOUS
<1> USE DEF IInv, TypeOK, KeyLives
<1>1. ASSUME NEW r \in Replicas, Acquire(r) \/ AcquireError(r)
      PROVE  IInv'
  BY <1>1 DEF Acquire, AcquireError, Phases
<1>2. ASSUME NEW r \in Replicas, Release(r) \/ LeaveLock(r)
      PROVE  IInv'
  BY <1>2 DEF Release, LeaveLock
<1>3. ASSUME NEW r \in Replicas, NEW p \in Phases, RunPhase(r, p)
      PROVE  IInv'
  <2>1. After[p] \in Phases \cup {"idle", "release"}
    BY DEF After, Phases
  <2> QED BY <1>3, <2>1, StageTypes DEF RunPhase
<1>4. ASSUME NEW r \in Replicas, NEW p \in Phases, PhaseFails(r, p)
      PROVE  IInv'
  <2> PICK S \in SUBSET Items :
        stage' = [i \in Items |-> IF i \in S THEN Processed(p, stage[i])
                                             ELSE stage[i]]
    BY <1>4 DEF PhaseFails
  <2> QED BY <1>4, StageTypes DEF PhaseFails
<1>5. ASSUME NEW i \in Items, GrowOld(i)
      PROVE  IInv'
  BY <1>5, StageTypes DEF GrowOld
<1>6. ASSUME Tick
      PROVE  IInv'
  <2>1. elapsed' \in [Replicas -> 0..MaxRun]
    BY <1>6 DEF Tick, Running
  <2>2. CASE key = None
    BY <1>6, <2>1, <2>2 DEF Tick
  <2>3. CASE key # None
    BY <1>6, <2>1, <2>3 DEF Tick
  <2> QED BY <2>2, <2>3
<1>7. CASE UNCHANGED vars
  BY <1>7 DEF vars
<1> QED BY <1>1, <1>2, <1>3, <1>4, <1>5, <1>6, <1>7 DEF Next

THEOREM Inductive == Spec => []IInv
BY InitIInv, StepIInv, PTL DEF Spec

\* Every reachable state of the job and its lock is well typed: no lock
\* outlives its time, no run exceeds the bound of the instance.
THEOREM TypeCorrect == Spec => []TypeOK
BY Inductive, PTL DEF IInv

\* The release script never removes another running replica's lock.
THEOREM ReleaseIsSafe == Spec => ReleaseFreesOwnLock
<1>1. IInv /\ [Next]_vars =>
        [\A r \in Replicas : key = r /\ Running(r) /\ key' # r =>
           UNCHANGED pc \/ (pc[r] = "release" /\ ~Running(r)')]_vars
  <2> SUFFICES ASSUME IInv, [Next]_vars, NEW r \in Replicas,
                      key = r, Running(r), key' # r
               PROVE  UNCHANGED pc \/ (pc[r] = "release" /\ ~Running(r)')
    OBVIOUS
  <2>1. ASSUME NEW q \in Replicas, Release(q)
        PROVE  pc[r] = "release" /\ ~Running(r)'
    <3>1. q = r
      BY <2>1 DEF Release
    <3> QED BY <2>1, <3>1 DEF Release, Running, IInv, TypeOK
  <2>2. ASSUME NEW q \in Replicas, Acquire(q) \/ AcquireError(q) \/ LeaveLock(q)
        PROVE  FALSE
    BY <2>2 DEF Acquire, AcquireError, LeaveLock
  <2>3. ASSUME NEW q \in Replicas, NEW p \in Phases, RunPhase(q, p) \/ PhaseFails(q, p)
        PROVE  FALSE
    BY <2>3 DEF RunPhase, PhaseFails
  <2>4. ASSUME (\E i \in Items : GrowOld(i)) \/ Tick \/ UNCHANGED vars
        PROVE  UNCHANGED pc
    BY <2>4 DEF GrowOld, Tick, vars
  <2> QED BY <2>1, <2>2, <2>3, <2>4 DEF Next
<1> QED BY <1>1, Inductive, PTL DEF Spec, ReleaseFreesOwnLock

-----------------------------------------------------------------------------
(* Mutual exclusion, as far as the lock's lifetime carries it.             *)

\* A run that is younger than the lock's lifetime still holds the key it took,
\* and the two clocks agree on its age.
HoldsKey ==
  \A r \in Replicas :
    Running(r) /\ elapsed[r] < Ttl => key = r /\ elapsed[r] + ttl = Ttl

LEMMA HoldsKeyStep == IInv /\ HoldsKey /\ [Next]_vars => HoldsKey'
<1> SUFFICES ASSUME IInv, HoldsKey, [Next]_vars,
                    NEW q \in Replicas, Running(q)', elapsed'[q] < Ttl
             PROVE  key' = q /\ elapsed'[q] + ttl' = Ttl
  BY DEF HoldsKey
<1> USE DEF IInv, TypeOK, KeyLives, HoldsKey, Running
<1>1. ASSUME NEW r \in Replicas, Acquire(r) \/ AcquireError(r)
      PROVE  key' = q /\ elapsed'[q] + ttl' = Ttl
  BY <1>1 DEF Acquire, AcquireError
<1>2. ASSUME NEW r \in Replicas, Release(r) \/ LeaveLock(r)
      PROVE  key' = q /\ elapsed'[q] + ttl' = Ttl
  BY <1>2 DEF Release, LeaveLock
<1>3. ASSUME NEW r \in Replicas, NEW p \in Phases, RunPhase(r, p) \/ PhaseFails(r, p)
      PROVE  key' = q /\ elapsed'[q] + ttl' = Ttl
  <2>1. Running(q)
    BY <1>3 DEF RunPhase, PhaseFails, Phases
  <2> QED BY <1>3, <2>1 DEF RunPhase, PhaseFails
<1>4. ASSUME NEW i \in Items, GrowOld(i)
      PROVE  key' = q /\ elapsed'[q] + ttl' = Ttl
  BY <1>4 DEF GrowOld
<1>5. ASSUME Tick
      PROVE  key' = q /\ elapsed'[q] + ttl' = Ttl
  <2>1. Running(q) /\ elapsed'[q] = elapsed[q] + 1
    BY <1>5 DEF Tick
  <2>2. key = q /\ elapsed[q] + ttl = Ttl
    BY <2>1
  <2>3. ttl > 1
    BY <2>1, <2>2
  <2> QED BY <1>5, <2>1, <2>2, <2>3 DEF Tick
<1>6. CASE UNCHANGED vars
  BY <1>6 DEF vars
<1> QED BY <1>1, <1>2, <1>3, <1>4, <1>5, <1>6 DEF Next

LEMMA HoldsKeyAlways == Spec => []HoldsKey
<1>1. Init => HoldsKey
  BY DEF Init, HoldsKey, Running
<1> QED BY <1>1, HoldsKeyStep, Inductive, PTL DEF Spec

\* Two runs overlap only if one of them has outlived the lock.
THEOREM OverlapIsOverrun == Spec => []OverlapNeedsOverrun
<1>1. IInv /\ HoldsKey => OverlapNeedsOverrun
  BY DEF IInv, TypeOK, HoldsKey, OverlapNeedsOverrun
<1> QED BY <1>1, HoldsKeyAlways, Inductive, PTL

\* If no run takes as long as the lock lives, only one replica runs at a time.
THEOREM ExclusionInTime ==
  ASSUME MaxRun < Ttl
  PROVE  Spec => []OneInstance
<1>1. IInv /\ HoldsKey => OneInstance
  BY MaxRun < Ttl DEF IInv, TypeOK, HoldsKey, OneInstance
<1> QED BY <1>1, HoldsKeyAlways, Inductive, PTL
=============================================================================
