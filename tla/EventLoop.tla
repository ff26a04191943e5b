------------------------------ MODULE EventLoop ------------------------------
(***************************************************************************)
(* One process serves every request with an event loop and a pool of       *)
(* threads.  Handlers declared with def run in a thread; async handlers    *)
(* (the ticket files) run on the loop, and so do their calls of the        *)
(* database, which block it.  The session of a request is closed when the  *)
(* loop comes round to its end: until then a handler that raised, or that  *)
(* returned early, keeps its row lock and its connection.                  *)
(*                                                                         *)
(* The requests here all work on one booking.  Neither PostgreSQL nor the  *)
(* engine has a lock timeout; the pool of connections has a timeout.       *)
(***************************************************************************)
EXTENDS Integers, FiniteSets

CONSTANTS Threaded,  \* requests of the handlers that SELECT ... FOR UPDATE
          Uploads,   \* requests of upload_ticket, replace_file, delete_file
          PoolSize,  \* DB_POOL_SIZE + DB_MAX_OVERFLOW
          Nobody

WebRequests == Threaded \cup Uploads

ASSUME LoopAssumption ==
  /\ Threaded \cap Uploads = {}
  /\ Nobody \notin WebRequests
  /\ PoolSize \in Nat \ {0}

VARIABLES
  pc,      \* pc[r]: where request r is
  loop,    \* the upload that occupies the event loop, or Nobody
  holder,  \* the request whose transaction has locked the booking, or Nobody
  conns    \* the requests that have a connection checked out

loopVars == <<pc, loop, holder, conns>>

LoopInit ==
  /\ pc = [r \in WebRequests |-> "idle"]
  /\ loop = Nobody
  /\ holder = Nobody
  /\ conns = {}

IsAt(r, where)   == pc[r] = where
GoesTo(r, where) == pc' = [pc EXCEPT ![r] = where]
LoopIsFree     == loop = Nobody

\* Mutant: one connection too many.
PoolOverflows == Cardinality(conns) > PoolSize

PoolIsFull == Cardinality(conns) >= PoolSize

-----------------------------------------------------------------------------
(* What every request goes through.                                        *)

Accept(r) ==
  /\ LoopIsFree
  /\ IsAt(r, "idle")
  /\ GoesTo(r, "depends")
  /\ UNCHANGED <<loop, holder, conns>>

\* The dependencies load the caller, in a thread; they may refuse him.
LoadCaller(r) ==
  /\ IsAt(r, "depends")
  /\ ~PoolIsFull
  /\ conns' = conns \cup {r}
  /\ \/ GoesTo(r, "ready")
     \/ GoesTo(r, "ended")
  /\ UNCHANGED <<loop, holder>>

\* Mutant: no pool_timeout.
WaitsForConnection(r) ==
  /\ FALSE
  /\ UNCHANGED loopVars

\* pool_timeout passes without a free connection.
CheckoutTimesOut(r) ==
  /\ pc[r] \in {"depends", "refresh"}
  /\ PoolIsFull
  /\ GoesTo(r, "ended")
  /\ loop' = IF loop = r THEN Nobody ELSE loop
  /\ UNCHANGED <<holder, conns>>

\* The loop hands the call to a thread, or runs the coroutine itself.
Dispatch(r) ==
  /\ LoopIsFree
  /\ IsAt(r, "ready")
  /\ GoesTo(r, "handler")
  /\ loop' = IF r \in Uploads THEN r ELSE Nobody
  /\ UNCHANGED <<holder, conns>>

\* Mutant: the thread that served the request closes its session.
ClosedByThread(r) ==
  /\ IsAt(r, "ended")
  /\ GoesTo(r, "idle")
  /\ holder' = IF holder = r THEN Nobody ELSE holder
  /\ conns' = conns \ {r}
  /\ UNCHANGED loop

\* The exit of get_db, which the loop has to start: the transaction, if there is
\* still one, is rolled back.
Close(r) ==
  /\ LoopIsFree
  /\ IsAt(r, "ended")
  /\ GoesTo(r, "idle")
  /\ holder' = IF holder = r THEN Nobody ELSE holder
  /\ conns' = conns \ {r}
  /\ UNCHANGED loop

\* db.refresh after a commit, in a thread or on the loop.
Refresh(r) ==
  /\ IsAt(r, "refresh")
  /\ ~PoolIsFull
  /\ conns' = conns \cup {r}
  /\ \/ GoesTo(r, "ended")
     \/ r \in Uploads /\ GoesTo(r, "cleaning")
  /\ loop' = IF loop = r THEN Nobody ELSE loop
  /\ UNCHANGED holder

-----------------------------------------------------------------------------
(* Handlers in threads: update_payment_status, update_booking_status,      *)
(* add_passengers and the deletion of a booking.                           *)

Lock(r) ==
  /\ r \in Threaded /\ IsAt(r, "handler")
  /\ holder = Nobody
  /\ holder' = r
  /\ GoesTo(r, "locked")
  /\ UNCHANGED <<loop, conns>>

\* An HTTPException, or the answer that there is nothing to do: before the lock
\* when the booking is not found, after it in every other case.
EndEarly(r) ==
  /\ r \in Threaded /\ pc[r] \in {"handler", "locked"}
  /\ GoesTo(r, "ended")
  /\ UNCHANGED <<loop, holder, conns>>

\* A commit, or a rollback by the handler: lock and connection are given back.
Commit(r) ==
  /\ r \in Threaded /\ IsAt(r, "locked")
  /\ holder' = Nobody
  /\ conns' = conns \ {r}
  /\ \/ GoesTo(r, "refresh")
     \/ GoesTo(r, "ended")
  /\ UNCHANGED loop

-----------------------------------------------------------------------------
(* Handlers on the loop.                                                   *)

\* The booking is selected, without a lock, and the request refused, or the file
\* read and stored: the awaits of the validation and of the storage are one.
Await(r) ==
  /\ loop = r /\ IsAt(r, "handler")
  /\ \/ GoesTo(r, "storing")
     \/ GoesTo(r, "ended")
  /\ loop' = Nobody
  /\ UNCHANGED <<holder, conns>>

\* The storage is done with it, well or badly.
Stored(r) ==
  /\ \/ IsAt(r, "storing")  /\ GoesTo(r, "stored")
     \/ IsAt(r, "cleaning") /\ GoesTo(r, "ended")
  /\ UNCHANGED <<loop, holder, conns>>

\* Back on the loop: to an UPDATE, to a commit of nothing new, or to a 500.
Resume(r) ==
  /\ LoopIsFree
  /\ IsAt(r, "stored")
  /\ \/ GoesTo(r, "update") /\ loop' = r /\ UNCHANGED conns
     \/ GoesTo(r, "ended")  /\ UNCHANGED <<loop, conns>>
     \/ GoesTo(r, "ended")  /\ conns' = conns \ {r} /\ UNCHANGED loop
  /\ UNCHANGED holder

\* The UPDATE waits for the row lock with the loop in its hand.  delete_file
\* has no refresh.
CommitOnLoop(r) ==
  /\ loop = r /\ IsAt(r, "update")
  /\ holder = Nobody
  /\ conns' = conns \ {r}
  /\ \/ GoesTo(r, "refresh") /\ UNCHANGED loop
     \/ GoesTo(r, "ended")   /\ loop' = Nobody
  /\ UNCHANGED holder

-----------------------------------------------------------------------------

\* Steps that need nothing but a thread, a database or a storage that works.
OwnStep(r) ==
  \/ LoadCaller(r)
  \/ CheckoutTimesOut(r)
  \/ Refresh(r)
  \/ EndEarly(r)
  \/ Commit(r)
  \/ Await(r)
  \/ Stored(r)

\* Steps that wait for their turn on the loop, or for the row lock.
LoopStep(r) == Dispatch(r) \/ Resume(r) \/ Close(r)
RowStep(r)  == Lock(r) \/ CommitOnLoop(r)

LoopNext == \E r \in WebRequests : Accept(r) \/ OwnStep(r) \/ LoopStep(r) \/ RowStep(r)

\* The loop runs its callbacks in their order, and PostgreSQL grants a row lock in
\* the order of the requests for it: who waits gets his turn if turns come.
LoopFairness ==
  \A r \in WebRequests :
    WF_loopVars(OwnStep(r)) /\ SF_loopVars(LoopStep(r)) /\ SF_loopVars(RowStep(r))

LoopSpec == LoopInit /\ [][LoopNext]_loopVars /\ LoopFairness

-----------------------------------------------------------------------------
(* Properties.                                                             *)

\* Who is on the loop, who has locked, who has a connection.
LoopTypeOK ==
  /\ pc \in [WebRequests -> {"idle", "depends", "ready", "handler", "locked", "refresh",
                          "storing", "stored", "update", "cleaning", "ended"}]
  /\ loop \in Uploads \cup {Nobody}
  /\ holder \in Threaded \cup {Nobody}
  /\ conns \in SUBSET WebRequests
  /\ Cardinality(conns) <= PoolSize

\* The loop waits for a row lock whose holder has ended and waits for the loop.
Hung ==
  /\ loop # Nobody /\ IsAt(loop, "update")
  /\ holder # Nobody /\ IsAt(holder, "ended")

\* Every request comes to its end, unless the process hangs in that one way:
\* an upload that updates the row a handler has locked and refused.  Neither the
\* pool of connections, which can be empty when the loop asks it for one, nor
\* the row lock of a handler that commits can stop the loop for good.
RequestEnds == \A r \in WebRequests : ~IsAt(r, "idle") ~> (IsAt(r, "idle") \/ Hung)

\* Nothing ends a hang: PostgreSQL sees a transaction that is idle and one that
\* waits for it, no deadlock, and there is no timeout of locks or statements.
HangLasts == [][Hung => Hung']_loopVars
=============================================================================
