------------------------------ MODULE Bookings ------------------------------
(***************************************************************************)
(* The bookings table and every handler and job that writes it.            *)
(*                                                                         *)
(* A request (an HTTP handler or a lifecycle job) runs in one database     *)
(* transaction at READ COMMITTED.  It is modelled by two steps: the SELECT *)
(* that loads the rows it decides on, and the commit that writes them; any *)
(* number of steps of other requests may fall in between.  Four handlers   *)
(* select FOR UPDATE and hold the row lock from the first step to the      *)
(* second; the ticket handlers and the jobs do not, so the copy they       *)
(* decide on may be stale when they commit.  An UPDATE writes only the     *)
(* columns the handler assigned, waits for the row's lock, and fails as a  *)
(* whole (StaleDataError, rollback) when a row it must update is gone.     *)
(*                                                                         *)
(* Time is abstracted: which bookings are old enough for a job, and which  *)
(* flights have departed, is a free choice (the administrator may pass any *)
(* expire_minutes).  Timestamps and the *_by_admin_id audit columns are    *)
(* left out.                                                               *)
(***************************************************************************)
EXTENDS Integers

CONSTANTS Bookings,     \* booking ids; an id is never used twice
          Requests,     \* concurrent requests and job runs
          RoundTrip,    \* the bookings of type ROUND_TRIP, the others are ONE_WAY
          Adults,       \* number of adults of a booking
          Ops,          \* the operations requests may call
          Free          \* "no request holds this row lock"

\* The handlers that load their booking WITH FOR UPDATE.
LockedOps == {"add_passengers", "update_payment_status",
              "update_booking_status", "delete_booking"}

\* The asynchronous ticket handlers: no lock, awaits between load and commit.
TicketOps == {"upload_ticket", "replace_file", "delete_file"}

\* The lifecycle job's phases that work on bookings; an administrator may trigger
\* auto_cancel as well.
JobOps == {"auto_cancel", "auto_complete", "auto_delete"}

AllOps == LockedOps \cup TicketOps \cup JobOps

ASSUME BookingsAssumption ==
  /\ RoundTrip \subseteq Bookings
  /\ Adults \in Nat \ {0}
  /\ Ops \subseteq AllOps
  /\ Free \notin Requests

Statuses == {"PROCESSING", "CONFIRMED", "COMPLETED", "CANCELLED"}
Payments == {"PENDING", "PAID", "FAILED"}
Legs     == {"outbound", "inbound"}

\* A row of the table, with the rows of booking_passengers that reference it
\* counted in passengers.  "flown" stands for outbound/inbound_completed,
\* "coded" for a booking_code that is set, "ticket" for a ticket_file_url.
Row == [status : Statuses \cup {"ABSENT", "DELETED"}, payment : Payments,
        passengers : Nat, coded : BOOLEAN, flown : SUBSET Legs,
        ticket : BOOLEAN]

\* No row (yet): also the value of "not loaded" in a request's copies.
Absent == [status |-> "ABSENT", payment |-> "PENDING", passengers |-> 0,
           coded |-> FALSE, flown |-> {}, ticket |-> FALSE]

Deleted == [Absent EXCEPT !.status = "DELETED"]

VARIABLES
  row,    \* row[b]: the committed row of booking b
  lock,   \* lock[b]: the request that holds b's row lock, or Free
  log,    \* log[b]: how many booking_deletion_logs rows name b
  op,     \* op[r]: what request r is doing, "idle" when nothing
  seen    \* seen[r][b]: the copy of b's row that r loaded, Absent if none

vars == <<row, lock, log, op, seen>>

Exists(b) == row[b].status \in Statuses

Loaded(r) == {b \in Bookings : seen[r][b] # Absent}

Init ==
  /\ row  = [b \in Bookings |-> Absent]
  /\ lock = [b \in Bookings |-> Free]
  /\ log  = [b \in Bookings |-> 0]
  /\ op   = [r \in Requests |-> "idle"]
  /\ seen = [r \in Requests |-> [b \in Bookings |-> Absent]]

-----------------------------------------------------------------------------
(* The first step of a request: load rows, perhaps lock one.               *)

\* Mutants: a handler that forgets FOR UPDATE.
PassengersUnlocked == LockedOps \ {"add_passengers"}
StatusUnlocked     == LockedOps \ {"update_booking_status"}

\* The operations whose SELECT carries FOR UPDATE.
ForUpdate == LockedOps

\* Request r starts operation o with copies of the rows of S.
Start(r, o, S) ==
  /\ op[r] = "idle"
  /\ o \in Ops
  /\ op'   = [op EXCEPT ![r] = o]
  /\ seen' = [seen EXCEPT ![r] =
                [b \in Bookings |-> IF b \in S THEN row[b] ELSE Absent]]
  /\ UNCHANGED <<row, log>>

\* The SELECT of a handler that works on one booking under its row lock.  It
\* waits while another request holds the lock; a missing row is a 404.
SelectForUpdate(r, b, o) ==
  /\ o \in LockedOps
  /\ Exists(b)
  /\ IF o \in ForUpdate
       THEN lock[b] = Free /\ lock' = [lock EXCEPT ![b] = r]
       ELSE UNCHANGED lock
  /\ Start(r, o, {b})

\* upload_ticket reads the booking and runs its five checks before it awaits
\* the validation of the file and its storage.
UploadTicketRead(r, b) ==
  /\ Exists(b)
  /\ row[b].status \notin {"CANCELLED", "COMPLETED"}
  /\ row[b].payment = "PAID"
  /\ ~row[b].ticket
  /\ Start(r, "upload_ticket", {b})
  /\ UNCHANGED lock

\* replace_file and delete_file read a booking that has a ticket.
FileRead(r, b, o) ==
  /\ o \in {"replace_file", "delete_file"}
  /\ Exists(b)
  /\ row[b].ticket
  /\ row[b].status \notin {"CANCELLED", "COMPLETED"}
  /\ Start(r, o, {b})
  /\ UNCHANGED lock

\* auto_cancel loads the PROCESSING, PENDING bookings that are old enough.
AutoCancelRead(r) ==
  /\ \E S \in SUBSET {b \in Bookings : /\ row[b].status = "PROCESSING"
                                       /\ row[b].payment = "PENDING"} :
       S # {} /\ Start(r, "auto_cancel", S)
  /\ UNCHANGED lock

\* auto_complete loads every CONFIRMED booking.
AutoCompleteRead(r) ==
  /\ LET S == {b \in Bookings : row[b].status = "CONFIRMED"}
     IN  S # {} /\ Start(r, "auto_complete", S)
  /\ UNCHANGED lock

\* auto_delete loads one batch of CANCELLED bookings that are old enough.
AutoDeleteRead(r) ==
  /\ \E S \in SUBSET {b \in Bookings : row[b].status = "CANCELLED"} :
       S # {} /\ Start(r, "auto_delete", S)
  /\ UNCHANGED lock

-----------------------------------------------------------------------------
(* The last step of a request: commit or rollback, release, forget.        *)

Finish(r) ==
  /\ op'   = [op EXCEPT ![r] = "idle"]
  /\ seen' = [seen EXCEPT ![r] = [b \in Bookings |-> Absent]]
  /\ lock' = [b \in Bookings |-> IF lock[b] = r THEN Free ELSE lock[b]]

\* A flush waits for every row lock held by another request.
Unblocked(r, S) == \A b \in S : lock[b] \in {Free, r}

\* The transaction of r updates the rows in the domain of new and commits.
Commit(r, new) ==
  /\ \A b \in DOMAIN new : Exists(b)
  /\ Unblocked(r, DOMAIN new)
  /\ row' = [b \in Bookings |-> IF b \in DOMAIN new THEN new[b] ELSE row[b]]
  /\ Finish(r)

\* Every other end: an early return or an HTTPException of a check, a storage
\* failure, a StaleDataError, a lost connection, a crash of the process.
Rollback(r) ==
  /\ op[r] # "idle"
  /\ Finish(r)
  /\ UNCHANGED <<row, log>>

\* create_booking: the INSERT.
CreateBooking(b) ==
  /\ row[b].status = "ABSENT"
  /\ row' = [row EXCEPT ![b] = [Absent EXCEPT !.status = "PROCESSING"]]
  /\ UNCHANGED <<lock, log, op, seen>>

\* The check that no passenger is stored yet runs under the lock.
AddPassengers(r, b) ==
  /\ op[r] = "add_passengers"
  /\ seen[r][b].status \notin {"CANCELLED", "COMPLETED"}
  /\ seen[r][b].passengers = 0
  /\ Commit(r, [x \in {b} |-> [row[b] EXCEPT !.passengers = @ + Adults,
                                             !.coded = TRUE]])
  /\ UNCHANGED log

UpdatePaymentStatus(r, b, p) ==
  /\ op[r] = "update_payment_status"
  /\ seen[r][b].status \notin {"CANCELLED", "COMPLETED"}
  /\ Commit(r, [x \in {b} |->
       [row[b] EXCEPT !.payment = p,
                      !.status = IF p = "FAILED" THEN "CANCELLED" ELSE @]])
  /\ UNCHANGED log

\* Mutant: a cancelled booking can be confirmed again.
Reopening == [PROCESSING |-> {"CONFIRMED", "CANCELLED"},
              CONFIRMED  |-> {"COMPLETED", "CANCELLED"},
              COMPLETED  |-> {},
              CANCELLED  |-> {"CONFIRMED"}]

\* Mutant: a paid booking can be completed without having been confirmed.
SkippingConfirmation == [PROCESSING |-> {"CONFIRMED", "COMPLETED", "CANCELLED"},
                         CONFIRMED  |-> {"COMPLETED", "CANCELLED"},
                         COMPLETED  |-> {},
                         CANCELLED  |-> {}]

\* allowed_transitions, without the statuses that return early.
Transitions == [PROCESSING |-> {"CONFIRMED", "CANCELLED"},
                CONFIRMED  |-> {"COMPLETED", "CANCELLED"},
                COMPLETED  |-> {},
                CANCELLED  |-> {}]

UpdateBookingStatus(r, b, s) ==
  /\ op[r] = "update_booking_status"
  /\ s \in Transitions[seen[r][b].status]
  /\ s = "COMPLETED" => seen[r][b].payment = "PAID"
  /\ Commit(r, [x \in {b} |->
       [row[b] EXCEPT !.status = s,
                      !.flown = IF b \in RoundTrip /\ s = "COMPLETED"
                                THEN Legs ELSE @]])
  /\ UNCHANGED log

\* Mutant: the deletion is not logged.
DeleteUnlogged(r, b) ==
  /\ op[r] = "delete_booking"
  /\ seen[r][b].status = "CANCELLED"
  /\ Commit(r, [x \in {b} |-> Deleted])
  /\ UNCHANGED log

\* The log row and the deletion (passengers cascade) are one transaction.
DeleteBooking(r, b) ==
  /\ op[r] = "delete_booking"
  /\ seen[r][b].status = "CANCELLED"
  /\ Commit(r, [x \in {b} |-> Deleted])
  /\ log' = [log EXCEPT ![b] = @ + 1]

\* Mutant: the upload leaves the status to the administrator.
UploadWithoutConfirming(r, b) ==
  /\ op[r] = "upload_ticket"
  /\ Commit(r, [x \in {b} |-> [row[b] EXCEPT !.ticket = TRUE]])
  /\ UNCHANGED log

\* The status is assigned only when the loaded copy is not CONFIRMED.
UploadTicket(r, b) ==
  /\ op[r] = "upload_ticket"
  /\ Commit(r, [x \in {b} |->
       [row[b] EXCEPT !.ticket = TRUE,
                      !.status = IF seen[r][b].status # "CONFIRMED"
                                 THEN "CONFIRMED" ELSE @]])
  /\ UNCHANGED log

ReplaceFile(r, b) ==
  /\ op[r] = "replace_file"
  /\ Commit(r, [x \in {b} |-> [row[b] EXCEPT !.ticket = TRUE]])
  /\ UNCHANGED log

DeleteFile(r, b) ==
  /\ op[r] = "delete_file"
  /\ Commit(r, [x \in {b} |-> [row[b] EXCEPT !.ticket = FALSE]])
  /\ UNCHANGED log

AutoCancel(r) ==
  /\ op[r] = "auto_cancel"
  /\ Commit(r, [b \in Loaded(r) |-> [row[b] EXCEPT !.status = "CANCELLED"]])
  /\ UNCHANGED log

\* departed[b]: the legs whose departure time has passed (for a ONE_WAY
\* booking: any leg).  Payment is not looked at.
FlownBy(r, b, departed) ==
  seen[r][b].flown \cup IF b \in RoundTrip THEN departed[b] ELSE {}

\* Mutant: one departed leg completes a round trip.
CompletedByEither(r, b, departed) == departed[b] # {}

CompletedBy(r, b, departed) ==
  IF b \in RoundTrip THEN FlownBy(r, b, departed) = Legs ELSE departed[b] # {}

AutoComplete(r, departed) ==
  /\ op[r] = "auto_complete"
  /\ LET touched == {b \in Loaded(r) : \/ CompletedBy(r, b, departed)
                                       \/ FlownBy(r, b, departed) # seen[r][b].flown}
     IN  Commit(r, [b \in touched |->
           [row[b] EXCEPT !.flown = @ \cup (FlownBy(r, b, departed) \ seen[r][b].flown),
                          !.status = IF CompletedBy(r, b, departed)
                                     THEN "COMPLETED" ELSE @]])
  /\ UNCHANGED log

\* Whatever the row became since it was loaded, it is deleted; when it is
\* already gone the DELETE matches nothing, and the log row is still written.
AutoDelete(r) ==
  /\ op[r] = "auto_delete"
  /\ Unblocked(r, Loaded(r))
  /\ row' = [b \in Bookings |-> IF b \in Loaded(r) THEN Deleted ELSE row[b]]
  /\ log' = [b \in Bookings |-> IF b \in Loaded(r) THEN log[b] + 1 ELSE log[b]]
  /\ Finish(r)

Select ==
  \E r \in Requests :
    \/ \E b \in Bookings, o \in LockedOps : SelectForUpdate(r, b, o)
    \/ \E b \in Bookings : UploadTicketRead(r, b)
    \/ \E b \in Bookings, o \in TicketOps : FileRead(r, b, o)
    \/ AutoCancelRead(r)
    \/ AutoCompleteRead(r)
    \/ AutoDeleteRead(r)

HandlerCommit ==
  \E r \in Requests : \E b \in Loaded(r) :
    \/ AddPassengers(r, b)
    \/ \E p \in Payments : UpdatePaymentStatus(r, b, p)
    \/ \E s \in Statuses : UpdateBookingStatus(r, b, s)
    \/ DeleteBooking(r, b)
    \/ UploadTicket(r, b)
    \/ ReplaceFile(r, b)
    \/ DeleteFile(r, b)

JobCommit ==
  \E r \in Requests :
    \/ AutoCancel(r)
    \/ \E departed \in [Bookings -> SUBSET Legs] : AutoComplete(r, departed)
    \/ AutoDelete(r)

Next ==
  \/ \E b \in Bookings : CreateBooking(b)
  \/ Select
  \/ HandlerCommit
  \/ JobCommit
  \/ \E r \in Requests : Rollback(r)

Spec == Init /\ [][Next]_vars

-----------------------------------------------------------------------------
(* Properties.                                                             *)

\* Every variable keeps its shape.
TypeOK ==
  /\ row  \in [Bookings -> Row]
  /\ lock \in [Bookings -> Requests \cup {Free}]
  /\ log  \in [Bookings -> Nat]
  /\ op   \in [Requests -> AllOps \cup {"idle"}]
  /\ seen \in [Requests -> [Bookings -> Row]]

\* What SELECT ... FOR UPDATE is for: as long as one of the four handlers runs,
\* it holds the lock of the row it loaded, and the copy it decides on is the row
\* in the table, whatever jobs and unlocked ticket handlers do meanwhile.
LockHolderIsCurrent ==
  \A r \in Requests, b \in Bookings :
    op[r] \in LockedOps /\ b \in Loaded(r) => lock[b] = r /\ seen[r][b] = row[b]

\* A booking's passengers are stored once, all of them, and together with its
\* booking code, however many add_passengers calls race.
PassengersAllOrNothing ==
  \A b \in Bookings : /\ row[b].passengers \in {0, Adults}
                      /\ row[b].coded <=> row[b].passengers = Adults

\* A booking that has a ticket is past PROCESSING, even when the upload's
\* decision to skip the status assignment was made on a stale copy.
TicketedIsPastProcessing ==
  \A b \in Bookings : row[b].ticket => row[b].status # "PROCESSING"

\* A completed round trip has both legs marked, whether the administrator or
\* the job completed it and whichever partial updates came before.
CompletedFlewBothLegs ==
  \A b \in RoundTrip : row[b].status = "COMPLETED" => row[b].flown = Legs

\* A booking is gone if and only if a deletion log row names it.
DeletedIffLogged ==
  \A b \in Bookings : row[b].status = "DELETED" <=> log[b] > 0

\* Some unlocked request commits now with a copy of b that is out of date.
StaleWrite(b) ==
  \E r \in Requests : /\ op[r] \in TicketOps \cup JobOps
                      /\ op'[r] = "idle"
                      /\ b \in Loaded(r)
                      /\ seen[r][b] # row[b]

FailedIsCancelled(b) == row[b].payment = "FAILED" => row[b].status = "CANCELLED"

\* update_payment_status cancels the booking whose payment failed.  Only a
\* stale write of an unlocked request can separate the two again.
FailedIsCancelledUnlessStale ==
  [][\A b \in Bookings :
       FailedIsCancelled(b) => FailedIsCancelled(b)' \/ StaleWrite(b)]_vars

\* COMPLETED and CANCELLED are final: apart from the deletion of a cancelled
\* booking, only a stale write of an unlocked request moves a booking on.
FinalUnlessStale ==
  [][\A b \in Bookings :
       \/ row[b].status \notin {"COMPLETED", "CANCELLED"}
       \/ row'[b].status = row[b].status
       \/ row[b].status = "CANCELLED" /\ row'[b].status = "DELETED"
       \/ StaleWrite(b)]_vars

\* booking_auto_cancel.py, lines 8 and 9: a booking is cancelled by the job
\* ONLY if its payment status is still PENDING.
AutoCancelOnlyPending ==
  [][\A r \in Requests : op[r] = "auto_cancel" /\ op'[r] = "idle" =>
       \A b \in Loaded(r) : row'[b].status = "CANCELLED" /\ row'[b] # row[b] =>
         row[b].payment = "PENDING"]_vars
=============================================================================
