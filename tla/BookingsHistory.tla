--------------------------- MODULE BookingsHistory ---------------------------
(***************************************************************************)
(* Bookings with a history variable that remembers what each booking has   *)
(* been, and the refinement: the table, its locks and its stale copies     *)
(* implement the life of BookingLifecycle.                                 *)
(***************************************************************************)
EXTENDS Bookings

VARIABLE past   \* past[b]: the statuses and payment statuses row b has had

Remember ==
  past' = [b \in Bookings |->
             IF row'[b] = row[b] THEN past[b]
             ELSE past[b] \cup {row'[b].status, row'[b].payment}]

HistoryInit == Init /\ past = [b \in Bookings |-> {}]
HistoryNext == Next /\ Remember
HistorySpec == HistoryInit /\ [][HistoryNext]_<<vars, past>>

Lifecycle == INSTANCE BookingLifecycle
               WITH status  <- [b \in Bookings |-> row[b].status],
                    payment <- [b \in Bookings |-> row[b].payment]

\* Whatever handlers and jobs race, and however stale their copies are, nothing
\* is completed that was never confirmed, confirmed by a ticket that was never
\* paid for, or deleted that was never cancelled, and no booking comes back
\* from its deletion or returns to PROCESSING.
ImplementsLifecycle == Lifecycle!Spec
=============================================================================
