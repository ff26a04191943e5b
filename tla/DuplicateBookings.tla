------------------------- MODULE DuplicateBookings -------------------------
(***************************************************************************)
(* create_booking's guard against a booking submitted twice.               *)
(*                                                                         *)
(* The requests of this module come from one customer and agree in type,   *)
(* adults and canonical flight snapshot, the prices included; they may     *)
(* differ in bundle_key.  Each takes the advisory lock of its fingerprint, *)
(* looks for a PROCESSING twin created within the window, and inserts its  *)
(* row; the lock ends with the transaction.                                *)
(*                                                                         *)
(* created_at is now() of the database: the time at which the transaction  *)
(* BEGAN, before it waited for the lock.  The cutoff is computed from the  *)
(* application's clock after the wait.                                     *)
(***************************************************************************)
EXTENDS Integers

CONSTANTS Requests,   \* calls of create_booking; a call names the row it inserts
          Bundles,    \* bundle keys
          NoBundle,   \* the bundle_key of a request that has none
          Free,       \* "nobody holds this advisory lock"
          Window,     \* _DUPLICATE_BOOKING_WINDOW_SECONDS, in ticks
          Skew,       \* how far the application's clock is ahead of the database's
          MaxTx,      \* the longest a transaction may take (a bound on Tick)
          MaxTime     \* the last instant considered (a bound on Tick)

ASSUME DuplicateAssumption ==
  /\ NoBundle \in Bundles
  /\ Free \notin Requests
  /\ Window \in Nat /\ MaxTx \in Nat /\ MaxTime \in Nat
  /\ Skew \in Int

VARIABLES
  now,     \* the database's clock
  pc,      \* pc[r]: where call r is
  bundle,  \* bundle[r]: the bundle_key of its payload
  start,   \* start[r]: when its transaction began, its row's created_at
  end,     \* end[r]: when it committed
  lock     \* lock[k]: the call that holds the advisory lock of bundle k

vars == <<now, pc, bundle, start, end, lock>>

\* "booked": the row is committed and PROCESSING; "moved": it has another
\* status, or is gone.
Points  == {"idle", "waiting", "checking", "inserting", "booked", "moved", "refused"}
Running == {"waiting", "checking", "inserting"}

Init ==
  /\ now = 0
  /\ pc = [r \in Requests |-> "idle"]
  /\ bundle = [r \in Requests |-> NoBundle]
  /\ start = [r \in Requests |-> 0]
  /\ end = [r \in Requests |-> 0]
  /\ lock = [k \in Bundles |-> Free]

\* The first query of the request begins the transaction; pricing follows.
Begin(r, k) ==
  /\ pc[r] = "idle"
  /\ pc' = [pc EXCEPT ![r] = "waiting"]
  /\ bundle' = [bundle EXCEPT ![r] = k]
  /\ start' = [start EXCEPT ![r] = now]
  /\ UNCHANGED <<now, end, lock>>

\* Mutant: the lock is taken by whoever comes.
LockAnyway(r) ==
  /\ pc[r] = "waiting"
  /\ lock' = [lock EXCEPT ![bundle[r]] = r]
  /\ pc' = [pc EXCEPT ![r] = "checking"]
  /\ UNCHANGED <<now, bundle, start, end>>

\* pg_advisory_xact_lock waits until the lock is free.
Lock(r) ==
  /\ pc[r] = "waiting"
  /\ lock[bundle[r]] = Free
  /\ lock' = [lock EXCEPT ![bundle[r]] = r]
  /\ pc' = [pc EXCEPT ![r] = "checking"]
  /\ UNCHANGED <<now, bundle, start, end>>

Unlock(r) == lock' = [k \in Bundles |-> IF lock[k] = r THEN Free ELSE lock[k]]

\* Mutant: the filter always asks for the same bundle key.
TwinsOfSameBundle(r) ==
  {q \in Requests : /\ pc[q] = "booked"
                    /\ start[q] >= now + Skew - Window
                    /\ bundle[q] = bundle[r]}

\* duplicate_filters: the bundle key is compared only if the payload has one.
Twins(r) ==
  {q \in Requests : /\ pc[q] = "booked"
                    /\ start[q] >= now + Skew - Window
                    /\ bundle[r] = NoBundle \/ bundle[q] = bundle[r]}

Refuse(r) ==
  /\ pc[r] = "checking"
  /\ Twins(r) # {}
  /\ pc' = [pc EXCEPT ![r] = "refused"]
  /\ Unlock(r)
  /\ UNCHANGED <<now, bundle, start, end>>

Accept(r) ==
  /\ pc[r] = "checking"
  /\ Twins(r) = {}
  /\ pc' = [pc EXCEPT ![r] = "inserting"]
  /\ UNCHANGED <<now, bundle, start, end, lock>>

Insert(r) ==
  /\ pc[r] = "inserting"
  /\ pc' = [pc EXCEPT ![r] = "booked"]
  /\ end' = [end EXCEPT ![r] = now]
  /\ Unlock(r)
  /\ UNCHANGED <<now, bundle, start>>

\* The transaction fails, or its process dies.
Abort(r) ==
  /\ pc[r] \in Running
  /\ pc' = [pc EXCEPT ![r] = "refused"]
  /\ Unlock(r)
  /\ UNCHANGED <<now, bundle, start, end>>

\* The booking is confirmed, completed, cancelled or deleted.
MoveOn(r) ==
  /\ pc[r] = "booked"
  /\ pc' = [pc EXCEPT ![r] = "moved"]
  /\ UNCHANGED <<now, bundle, start, end, lock>>

Tick ==
  /\ now < MaxTime
  /\ \A r \in Requests : pc[r] \in Running => now < start[r] + MaxTx
  /\ now' = now + 1
  /\ UNCHANGED <<pc, bundle, start, end, lock>>

Next ==
  \/ \E r \in Requests :
       \/ \E k \in Bundles : Begin(r, k)
       \/ Lock(r) \/ Refuse(r) \/ Accept(r) \/ Insert(r) \/ Abort(r) \/ MoveOn(r)
  \/ Tick

Spec == Init /\ [][Next]_vars

-----------------------------------------------------------------------------
(* Properties.                                                             *)

TypeOK ==
  /\ now \in 0..MaxTime
  /\ pc \in [Requests -> Points]
  /\ bundle \in [Requests -> Bundles]
  /\ start \in [Requests -> Nat]
  /\ end \in [Requests -> Nat]
  /\ lock \in [Bundles -> Requests \cup {Free}]

\* What is left of the window: the check of a slow transaction looks back from
\* its end, and its row is dated at its beginning.
Gap == Window - MaxTx - Skew

\* Two live bookings of the same bundle were created more than Gap apart,
\* however many submissions raced: this needs the lock.
TwinsAreApart ==
  \A q, r \in Requests :
    q # r /\ pc[q] = "booked" /\ pc[r] = "booked" /\ bundle[q] = bundle[r] =>
      start[r] - start[q] > Gap \/ start[q] - start[r] > Gap

\* A submission without a bundle key also respects the live bookings of every
\* bundle, although their lock is another one, when it began after they were
\* committed.
LaterSubmissionIsApart ==
  \A q, r \in Requests :
    /\ q # r /\ pc[q] = "booked" /\ pc[r] = "booked"
    /\ bundle[r] = NoBundle \/ bundle[q] = bundle[r]
    /\ end[q] < start[r]
    => start[r] - start[q] > Gap
=============================================================================
