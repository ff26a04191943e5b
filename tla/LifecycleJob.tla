---------------------------- MODULE LifecycleJob ----------------------------
(***************************************************************************)
(* The lifecycle job of every replica and the Redis lock that should keep  *)
(* two replicas from running it at once (main.py).  A run takes the lock   *)
(* with SET NX EX, executes four phases, each with commits of its own, and *)
(* deletes the lock if it still holds it.  An exception in a phase skips   *)
(* the phases after it.                                                    *)
(*                                                                         *)
(* Time passes in ticks.  The lock lives Ttl ticks; how long a run takes   *)
(* is not bounded by the code: MaxRun is the longest run an instance       *)
(* considers, below or above Ttl.                                          *)
(***************************************************************************)
EXTENDS Integers

CONSTANTS Replicas,   \* backend processes with a scheduler each
          Items,      \* bookings and price overrides the job works on
          Ttl,        \* lifetime of the lock, in ticks
          MaxRun,     \* the longest a run may take, in ticks
          None        \* "the lock key does not exist"

ASSUME LifecycleAssumption ==
  /\ Ttl \in Nat \ {0}
  /\ MaxRun \in Nat
  /\ None \notin Replicas

Phases == {"cancel", "complete", "delete", "overrides"}

\* What an item waits for.  "overdue": PROCESSING and unpaid for too long;
\* "departed": CONFIRMED and flown; "expired": CANCELLED for too long;
\* "lapsed": an active override past its end date.
Stages == {"processing", "overdue", "cancelled", "expired", "gone",
           "confirmed", "departed", "completed",
           "active", "lapsed", "inactive"}

VARIABLES
  key,      \* the replica whose lock value Redis holds, or None
  ttl,      \* ticks until the key expires
  pc,       \* pc[r]: "idle", a phase, or "release"
  elapsed,  \* elapsed[r]: ticks since r's run took the lock
  stage     \* stage[i]: where item i is

vars == <<key, ttl, pc, elapsed, stage>>

Running(r) == pc[r] # "idle"

Init ==
  /\ key = None
  /\ ttl = 0
  /\ pc = [r \in Replicas |-> "idle"]
  /\ elapsed = [r \in Replicas |-> 0]
  /\ stage \in [Items -> {"processing", "confirmed", "active"}]

-----------------------------------------------------------------------------
(* The lock.                                                               *)

\* Mutant: SET without NX.
AcquireAnyway(r) ==
  /\ ~Running(r)
  /\ key' = r
  /\ ttl' = Ttl
  /\ pc' = [pc EXCEPT ![r] = "cancel"]
  /\ elapsed' = [elapsed EXCEPT ![r] = 0]
  /\ UNCHANGED stage

\* The scheduler fires (never while the replica's last run is still going) and
\* the key does not exist.  When it does the run is skipped: no step.
Acquire(r) ==
  /\ ~Running(r)
  /\ key = None
  /\ key' = r
  /\ ttl' = Ttl
  /\ pc' = [pc EXCEPT ![r] = "cancel"]
  /\ elapsed' = [elapsed EXCEPT ![r] = 0]
  /\ UNCHANGED stage

\* The reply to SET is lost: the key exists, the run logs an error and ends.
AcquireError(r) ==
  /\ ~Running(r)
  /\ key = None
  /\ key' = r
  /\ ttl' = Ttl
  /\ UNCHANGED <<pc, elapsed, stage>>

\* Mutant: the key is deleted whoever holds it.
ReleaseAnyway(r) ==
  /\ pc[r] = "release"
  /\ key' = None
  /\ ttl' = 0
  /\ pc' = [pc EXCEPT ![r] = "idle"]
  /\ elapsed' = [elapsed EXCEPT ![r] = 0]
  /\ UNCHANGED stage

\* The release script compares the key with the run's own value first.
Release(r) ==
  /\ pc[r] = "release"
  /\ IF key = r THEN key' = None /\ ttl' = 0 ELSE UNCHANGED <<key, ttl>>
  /\ pc' = [pc EXCEPT ![r] = "idle"]
  /\ elapsed' = [elapsed EXCEPT ![r] = 0]
  /\ UNCHANGED stage

\* The release fails, or the process dies and is restarted: the key stays.
LeaveLock(r) ==
  /\ Running(r)
  /\ pc' = [pc EXCEPT ![r] = "idle"]
  /\ elapsed' = [elapsed EXCEPT ![r] = 0]
  /\ UNCHANGED <<key, ttl, stage>>

\* Mutant: the key is set without an expiry.
TickForever ==
  /\ \A r \in Replicas : Running(r) => elapsed[r] < MaxRun
  /\ elapsed' = [r \in Replicas |-> IF Running(r) THEN elapsed[r] + 1 ELSE elapsed[r]]
  /\ UNCHANGED <<key, ttl, pc, stage>>

\* Time passes; Redis drops a key whose time is up.
Tick ==
  /\ \A r \in Replicas : Running(r) => elapsed[r] < MaxRun
  /\ elapsed' = [r \in Replicas |-> IF Running(r) THEN elapsed[r] + 1 ELSE elapsed[r]]
  /\ IF key = None THEN UNCHANGED <<key, ttl>>
                   ELSE ttl' = ttl - 1 /\ key' = IF ttl = 1 THEN None ELSE key
  /\ UNCHANGED <<pc, stage>>

-----------------------------------------------------------------------------
(* The phases.                                                             *)

After == [cancel |-> "complete", complete |-> "delete",
          delete |-> "overrides", overrides |-> "release"]

\* What a phase does to the items it finds.
Processed(p, st) ==
  CASE p = "cancel"    /\ st = "overdue"  -> "cancelled"
    [] p = "complete"  /\ st = "departed" -> "completed"
    [] p = "delete"    /\ st = "expired"  -> "gone"
    [] p = "overrides" /\ st = "lapsed"   -> "inactive"
    [] OTHER -> st

\* Mutant: the phase after the cancellation is forgotten.
RunPhaseSkipping(r, p) ==
  /\ pc[r] = p
  /\ stage' = [i \in Items |-> Processed(p, stage[i])]
  /\ pc' = [pc EXCEPT ![r] = IF p = "cancel" THEN "delete" ELSE After[p]]
  /\ UNCHANGED <<key, ttl, elapsed>>

RunPhase(r, p) ==
  /\ pc[r] = p
  /\ stage' = [i \in Items |-> Processed(p, stage[i])]
  /\ pc' = [pc EXCEPT ![r] = After[p]]
  /\ UNCHANGED <<key, ttl, elapsed>>

\* A phase raises: it is rolled back (the deletions commit in batches, so some
\* of them may be done), the later phases do not run, the lock is released.
PhaseFails(r, p) ==
  /\ pc[r] = p
  /\ \E S \in SUBSET Items :
       /\ p # "delete" => S = {}
       /\ stage' = [i \in Items |-> IF i \in S THEN Processed(p, stage[i])
                                               ELSE stage[i]]
  /\ pc' = [pc EXCEPT ![r] = "release"]
  /\ UNCHANGED <<key, ttl, elapsed>>

\* An item passes one of the job's time limits.
Aged == [processing |-> "overdue", confirmed |-> "departed",
         cancelled |-> "expired", active |-> "lapsed"]

GrowOld(i) ==
  /\ stage[i] \in DOMAIN Aged
  /\ stage' = [stage EXCEPT ![i] = Aged[stage[i]]]
  /\ UNCHANGED <<key, ttl, pc, elapsed>>

Next ==
  \/ \E r \in Replicas : Acquire(r) \/ AcquireError(r) \/ Release(r) \/ LeaveLock(r)
  \/ \E r \in Replicas, p \in Phases : RunPhase(r, p) \/ PhaseFails(r, p)
  \/ \E i \in Items : GrowOld(i)
  \/ Tick

Spec == Init /\ [][Next]_vars

\* Time passes and items age; the schedulers keep firing; failures, of Redis,
\* of a phase or of the process, are not permanent: what is tried again and
\* again succeeds some day.
Fairness ==
  /\ WF_vars(Tick)
  /\ \A i \in Items : WF_vars(GrowOld(i))
  /\ \A r \in Replicas : WF_vars(Release(r))
  /\ SF_vars(\E r \in Replicas : Acquire(r))
  /\ \A p \in Phases : SF_vars(\E r \in Replicas : RunPhase(r, p))

FairSpec == Spec /\ Fairness

-----------------------------------------------------------------------------
(* Properties.                                                             *)

TypeOK ==
  /\ key \in Replicas \cup {None}
  /\ ttl \in 0..Ttl
  /\ pc \in [Replicas -> Phases \cup {"idle", "release"}]
  /\ elapsed \in [Replicas -> 0..MaxRun]
  /\ stage \in [Items -> Stages]

\* README.md, line 517: the lock "ensures only one instance executes the jobs".
OneInstance ==
  \A r, q \in Replicas : Running(r) /\ Running(q) => r = q

\* Two replicas run the job at once only if one of the runs has outlived the
\* lock, whoever crashed, failed to release or lost a reply before.
OverlapNeedsOverrun ==
  \A r, q \in Replicas :
    r # q /\ Running(r) /\ Running(q) => elapsed[r] >= Ttl \/ elapsed[q] >= Ttl

\* No replica takes the lock away from another: while the holder of the key
\* runs, only its own release, or the expiry, removes the key.
ReleaseFreesOwnLock ==
  [][\A r \in Replicas : key = r /\ Running(r) /\ key' # r =>
       UNCHANGED pc \/ (pc[r] = "release" /\ ~Running(r)')]_vars

\* An unpaid booking is cancelled and, later, deleted, whatever runs crash,
\* fail halfway or leave their lock behind.
OverdueIsDeleted == \A i \in Items : stage[i] = "overdue" ~> stage[i] = "gone"

\* A departed booking is completed and an expired override is deactivated,
\* although they are the work of later phases, which an earlier failure skips.
LaterPhasesRun ==
  \A i \in Items : /\ stage[i] = "departed" ~> stage[i] = "completed"
                   /\ stage[i] = "lapsed" ~> stage[i] = "inactive"
=============================================================================
