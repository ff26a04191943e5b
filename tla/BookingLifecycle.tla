-------------------------- MODULE BookingLifecycle --------------------------
(***************************************************************************)
(* The life of a booking as its customer sees it: no requests, no locks,   *)
(* no copies of rows.  Jobs and ticket handlers may act late, on a booking *)
(* that has changed since they looked at it; what remains true of each of  *)
(* their steps is that the booking once was what the step asks for.        *)
(***************************************************************************)
CONSTANT Bookings

VARIABLES
  status,   \* status[b]: of booking b, "ABSENT" before and "DELETED" after it
  payment,  \* payment[b]: its payment status
  past      \* past[b]: every status and payment status it has had

vars == <<status, payment, past>>

Init ==
  /\ status  = [b \in Bookings |-> "ABSENT"]
  /\ payment = [b \in Bookings |-> "PENDING"]
  /\ past    = [b \in Bookings |-> {}]

Becomes(b, s, p) ==
  /\ status'[b] = s
  /\ payment'[b] = p
  /\ past'[b] = past[b] \cup {s, p}

Live(b)   == status[b] \in {"PROCESSING", "CONFIRMED"}
Exists(b) == status[b] \notin {"ABSENT", "DELETED"}

Create(b) == status[b] = "ABSENT" /\ Becomes(b, "PROCESSING", "PENDING")

Pay(b) == Live(b) /\ \E p \in {"PENDING", "PAID"} : Becomes(b, status[b], p)

FailPayment(b) == Live(b) /\ Becomes(b, "CANCELLED", "FAILED")

Confirm(b) == status[b] = "PROCESSING" /\ Becomes(b, "CONFIRMED", payment[b])

\* The auto-cancel job may cancel whatever a booking has become.
Cancel(b) == Exists(b) /\ Becomes(b, "CANCELLED", payment[b])

\* A ticket confirms a booking that was paid for at some time.
Ticket(b) == /\ Exists(b) /\ "PAID" \in past[b]
             /\ Becomes(b, "CONFIRMED", payment[b])

\* Only a booking that was confirmed at some time is completed.
Complete(b) == /\ Exists(b) /\ "CONFIRMED" \in past[b]
               /\ Becomes(b, "COMPLETED", payment[b])

\* Only a booking that was cancelled at some time is deleted, and for good.
Delete(b) == /\ Exists(b) /\ "CANCELLED" \in past[b]
             /\ Becomes(b, "DELETED", "PENDING")

Stays(b) ==
  /\ status'[b] = status[b]
  /\ payment'[b] = payment[b]
  /\ past'[b] = past[b]

Step(b) ==
  \/ Create(b)
  \/ Pay(b)
  \/ FailPayment(b)
  \/ Confirm(b)
  \/ Cancel(b)
  \/ Ticket(b)
  \/ Complete(b)
  \/ Delete(b)

\* A job works on several bookings in one transaction.
Next == \A b \in Bookings : Step(b) \/ Stays(b)

Spec == Init /\ [][Next]_vars
=============================================================================
