--------------------------- MODULE BookingsProofs ---------------------------
(***************************************************************************)
(* Theorems about Bookings, for any bookings, requests and set of enabled  *)
(* operations.  A step is a SELECT, which only gives a request its copies, *)
(* or the end of a request, which only changes rows its locks allow: the   *)
(* two kinds are treated once each, by SelectKeeps and CommitKeeps, and    *)
(* every action is shown to be of its kind.                                *)
(***************************************************************************)
EXTENDS BookingsHistory, TLAPS

Final == {"COMPLETED", "CANCELLED"}

\* What a copy satisfied when operation o loaded it, and still does: a copy
\* never changes.
Eligible(o, copy) ==
  /\ o = "upload_ticket" => copy.payment = "PAID"
  /\ o \in TicketOps => copy.status \notin Final
  /\ o \in {"replace_file", "delete_file"} => copy.status = "CONFIRMED"
  /\ o = "auto_cancel" => copy.status = "PROCESSING" /\ copy.payment = "PENDING"
  /\ o = "auto_complete" => copy.status = "CONFIRMED"
  /\ o = "auto_delete" => copy.status = "CANCELLED"

\* A stale copy is an earlier version of its row: the row is not back in
\* PROCESSING unless the copy is, and no leg was unmarked since.
CopiesAreOld ==
  \A r \in Requests : \A b \in Loaded(r) :
    /\ seen[r][b].status \in Statuses
    /\ Eligible(op[r], seen[r][b])
    /\ row[b].status # "ABSENT"
    /\ row[b].status = "PROCESSING" => seen[r][b].status = "PROCESSING"
    /\ Exists(b) => seen[r][b].flown \subseteq row[b].flown

\* The invariants of one row, together.
Sound(b) ==
  /\ row[b].passengers \in {0, Adults}
  /\ row[b].coded <=> row[b].passengers = Adults
  /\ row[b].ticket => row[b].status # "PROCESSING"
  /\ b \in RoundTrip /\ row[b].status = "COMPLETED" => row[b].flown = Legs
  /\ row[b].status = "DELETED" <=> log[b] > 0

\* The inductive invariant.
IInv ==
  /\ TypeOK
  /\ CopiesAreOld
  /\ LockHolderIsCurrent
  /\ \A b \in Bookings : Sound(b)

USE BookingsAssumption

LEMMA RowTypes ==
  Absent \in Row /\ Deleted \in Row
BY DEF Absent, Deleted, Row, Statuses, Payments

LEMMA InitIInv == Init => IInv
BY RowTypes DEF Init, IInv, TypeOK, CopiesAreOld, Loaded, LockHolderIsCurrent,
                Sound, Absent

-----------------------------------------------------------------------------
(* The first step of a request.                                            *)

\* Request r starts operation o on existing, eligible rows, under a new lock
\* on its only row or under none.
Selects(r, o, S) ==
  /\ Start(r, o, S)
  /\ S \subseteq Bookings
  /\ \A b \in S : Exists(b) /\ Eligible(o, row[b])
  /\ \/ /\ o \in LockedOps
        /\ \E b \in Bookings : /\ S = {b}
                               /\ lock[b] = Free
                               /\ lock' = [lock EXCEPT ![b] = r]
     \/ o \notin LockedOps /\ UNCHANGED lock

LEMMA SelectEffect ==
  ASSUME IInv, Select
  PROVE  \E r \in Requests, o \in AllOps : \E S : Selects(r, o, S)
<1> PICK r \in Requests :
      \/ \E b \in Bookings, o \in LockedOps : SelectForUpdate(r, b, o)
      \/ \E b \in Bookings : UploadTicketRead(r, b)
      \/ \E b \in Bookings, o \in TicketOps : FileRead(r, b, o)
      \/ AutoCancelRead(r)
      \/ AutoCompleteRead(r)
      \/ AutoDeleteRead(r)
  BY DEF Select
<1> USE DEF Selects, Eligible, Final, LockedOps, TicketOps, JobOps, AllOps
<1>1. CASE \E b \in Bookings, o \in LockedOps : SelectForUpdate(r, b, o)
  BY <1>1 DEF SelectForUpdate, ForUpdate
<1>2. CASE \E b \in Bookings : UploadTicketRead(r, b)
  BY <1>2 DEF UploadTicketRead
<1>3. CASE \E b \in Bookings, o \in TicketOps : FileRead(r, b, o)
  <2> PICK b \in Bookings, o \in TicketOps : FileRead(r, b, o)
    BY <1>3
  <2>1. row[b].status = "CONFIRMED"
    BY DEF FileRead, IInv, Sound, Exists, Statuses
  <2> QED BY <2>1 DEF FileRead
<1>4. CASE AutoCancelRead(r)
  BY <1>4 DEF AutoCancelRead, Exists, Statuses
<1>5. CASE AutoCompleteRead(r)
  BY <1>5 DEF AutoCompleteRead, Exists, Statuses
<1>6. CASE AutoDeleteRead(r)
  BY <1>6 DEF AutoDeleteRead, Exists, Statuses
<1> QED BY <1>1, <1>2, <1>3, <1>4, <1>5, <1>6

LEMMA SelectKeeps ==
  ASSUME IInv, NEW r \in Requests, NEW o \in AllOps, NEW S, Selects(r, o, S)
  PROVE  IInv'
<1> USE DEF IInv, Selects, Start
<1>1. TypeOK'
  BY RowTypes DEF TypeOK
<1>2. ASSUME NEW q \in Requests, NEW b \in Bookings
      PROVE  \/ seen'[q][b] = seen[q][b] /\ op'[q] = op[q] /\ q # r
             \/ q = r /\ b \in S /\ seen'[q][b] = row[b] /\ op'[q] = o
             \/ q = r /\ b \notin S /\ seen'[q][b] = Absent
  BY DEF TypeOK
<1>3. CopiesAreOld'
  <2> SUFFICES ASSUME NEW q \in Requests, NEW b \in Bookings, seen'[q][b] # Absent
               PROVE  /\ seen'[q][b].status \in Statuses
                      /\ Eligible(op'[q], seen'[q][b])
                      /\ row[b].status # "ABSENT"
                      /\ row[b].status = "PROCESSING" => seen'[q][b].status = "PROCESSING"
                      /\ Exists(b) => seen'[q][b].flown \subseteq row[b].flown
    BY DEF CopiesAreOld, Loaded, Exists, Eligible
  <2>1. CASE q # r
    BY <2>1, <1>2 DEF CopiesAreOld, Loaded
  <2>2. CASE q = r
    BY <2>2, <1>2 DEF Exists, Statuses
  <2> QED BY <2>1, <2>2
<1>4. LockHolderIsCurrent'
  <2> SUFFICES ASSUME NEW q \in Requests, NEW b \in Bookings,
                      op'[q] \in LockedOps, seen'[q][b] # Absent
               PROVE  lock'[b] = q /\ seen'[q][b] = row[b]
    BY DEF LockHolderIsCurrent, Loaded
  <2>1. CASE q # r
    BY <2>1, <1>2 DEF LockHolderIsCurrent, Loaded, TypeOK
  <2>2. CASE q = r
    BY <2>2, <1>2 DEF TypeOK
  <2> QED BY <2>1, <2>2
<1>5. \A b \in Bookings : Sound(b)'
  BY DEF Sound
<1> QED BY <1>1, <1>3, <1>4, <1>5

-----------------------------------------------------------------------------
(* The last step of a request.                                             *)

\* How the end of request r may change row b.
Advances(b) ==
  \/ row'[b] = row[b]
  \/ row[b].status # "ABSENT" /\ row'[b] = Deleted
  \/ /\ Exists(b)
     /\ row'[b].status \in Statuses
     /\ row'[b].status = "PROCESSING" => row[b].status = "PROCESSING"
     /\ row[b].flown \subseteq row'[b].flown

\* The two action properties, for one booking.
OnlyStaleBreaks(b) ==
  /\ FailedIsCancelled(b) => FailedIsCancelled(b)' \/ StaleWrite(b)
  /\ \/ row[b].status \notin Final
     \/ row'[b].status = row[b].status
     \/ row[b].status = "CANCELLED" /\ row'[b].status = "DELETED"
     \/ StaleWrite(b)

Ends(r) ==
  /\ Finish(r)
  /\ row' \in [Bookings -> Row]
  /\ log' \in [Bookings -> Nat]
  /\ \A b \in Bookings : /\ Advances(b)
                         /\ row'[b] # row[b] => lock[b] \in {Free, r}
                         /\ Sound(b)'
                         /\ OnlyStaleBreaks(b)

LEMMA CommitKeeps ==
  ASSUME IInv, NEW r \in Requests, Ends(r)
  PROVE  IInv'
<1> USE DEF IInv, Ends, Finish
<1>1. TypeOK'
  BY RowTypes DEF TypeOK
<1>2. ASSUME NEW q \in Requests, NEW b \in Bookings
      PROVE  \/ seen'[q][b] = seen[q][b] /\ op'[q] = op[q] /\ q # r
             \/ q = r /\ seen'[q][b] = Absent
  BY DEF TypeOK
<1>3. CopiesAreOld'
  <2> SUFFICES ASSUME NEW q \in Requests, NEW b \in Bookings, seen'[q][b] # Absent
               PROVE  /\ seen'[q][b].status \in Statuses
                      /\ Eligible(op'[q], seen'[q][b])
                      /\ row'[b].status # "ABSENT"
                      /\ row'[b].status = "PROCESSING" => seen'[q][b].status = "PROCESSING"
                      /\ row'[b].status \in Statuses => seen'[q][b].flown \subseteq row'[b].flown
    BY DEF CopiesAreOld, Loaded, Exists, Eligible
  <2>1. /\ seen'[q][b] = seen[q][b]
        /\ op'[q] = op[q]
        /\ b \in Loaded(q)
    BY <1>2 DEF Loaded
  <2>2. Advances(b)
    OBVIOUS
  <2> QED BY <2>1, <2>2 DEF CopiesAreOld, Advances, Exists, Statuses, Deleted, Absent
<1>4. LockHolderIsCurrent'
  <2> SUFFICES ASSUME NEW q \in Requests, NEW b \in Bookings,
                      op'[q] \in LockedOps, seen'[q][b] # Absent
               PROVE  lock'[b] = q /\ seen'[q][b] = row'[b]
    BY DEF LockHolderIsCurrent, Loaded
  <2>1. q # r /\ lock[b] = q /\ seen[q][b] = row[b] /\ seen'[q][b] = seen[q][b]
    BY <1>2 DEF LockHolderIsCurrent, Loaded
  <2>2. row'[b] = row[b]
    BY <2>1
  <2> QED BY <2>1, <2>2
<1> QED BY <1>1, <1>3, <1>4

LEMMA Untouched ==
  ASSUME IInv, NEW b \in Bookings, row'[b] = row[b], log'[b] = log[b]
  PROVE  Advances(b) /\ Sound(b)' /\ OnlyStaleBreaks(b)
BY DEF IInv, Advances, Sound, OnlyStaleBreaks, FailedIsCancelled

\* A commit is judged by the rows it writes.
LEMMA CommitEnds ==
  ASSUME IInv, NEW r \in Requests, NEW new, Commit(r, new),
         DOMAIN new \subseteq Bookings,
         log' \in [Bookings -> Nat],
         \A b \in Bookings : b \notin DOMAIN new => log'[b] = log[b],
         \A b \in DOMAIN new :
           /\ new[b] \in Row
           /\ row'[b] = new[b] => Advances(b) /\ Sound(b)' /\ OnlyStaleBreaks(b)
  PROVE  Ends(r)
<1>1. Finish(r)
  BY DEF Commit
<1>2. row' \in [Bookings -> Row]
  BY DEF Commit, IInv, TypeOK
<1>3. ASSUME NEW b \in Bookings
      PROVE  /\ row'[b] # row[b] => lock[b] \in {Free, r}
             /\ Advances(b) /\ Sound(b)' /\ OnlyStaleBreaks(b)
  <2>1. CASE b \in DOMAIN new
    <3>1. row'[b] = new[b] /\ lock[b] \in {Free, r}
      BY <2>1 DEF Commit, Unblocked
    <3> QED BY <2>1, <3>1
  <2>2. CASE b \notin DOMAIN new
    <3>1. row'[b] = row[b] /\ log'[b] = log[b]
      BY <2>2 DEF Commit
    <3> QED BY <3>1, Untouched
  <2> QED BY <2>1, <2>2
<1> QED BY <1>1, <1>2, <1>3 DEF Ends

\* What the copy of a loaded row tells about the row.
LEMMA CopyFacts ==
  ASSUME IInv, NEW r \in Requests, NEW b \in Loaded(r)
  PROVE  /\ b \in Bookings
         /\ row[b] \in Row /\ seen[r][b] \in Row
         /\ log[b] \in Nat
         /\ row[b].status # "ABSENT"
         /\ seen[r][b].status \in Statuses
         /\ row[b].status = "PROCESSING" => seen[r][b].status = "PROCESSING"
         /\ Exists(b) => seen[r][b].flown \subseteq row[b].flown
         /\ Eligible(op[r], seen[r][b])
         /\ op[r] \in LockedOps => seen[r][b] = row[b]
         /\ Sound(b)
BY DEF IInv, TypeOK, Loaded, CopiesAreOld, LockHolderIsCurrent

\* An unlocked request with a stale copy may do anything.
LEMMA StaleExcuses ==
  ASSUME NEW r \in Requests, NEW b \in Loaded(r), Finish(r), IInv,
         op[r] \in TicketOps \cup JobOps, seen[r][b] # row[b]
  PROVE  OnlyStaleBreaks(b)
BY DEF OnlyStaleBreaks, StaleWrite, Finish, IInv, TypeOK

-----------------------------------------------------------------------------
(* The handlers under a row lock: the copy is the row.                     *)

LEMMA AddPassengersEnds ==
  ASSUME IInv, NEW r \in Requests, NEW b \in Loaded(r), AddPassengers(r, b)
  PROVE  Ends(r)
<1> DEFINE new == [x \in {b} |-> [row[b] EXCEPT !.passengers = @ + Adults,
                                               !.coded = TRUE]]
<1>1. Commit(r, new) /\ log' = log /\ Exists(b)
  BY DEF AddPassengers, Commit
<1>2. seen[r][b] = row[b] /\ row[b].passengers = 0
  BY CopyFacts DEF AddPassengers, LockedOps
<1>0. row[b].passengers + Adults = Adults /\ Adults \in Nat
  BY <1>2
<1> HIDE BookingsAssumption
<1>3. new[b] \in Row
  <2>1. [row[b] EXCEPT !.passengers = Adults, !.coded = TRUE] \in Row
    BY <1>0, CopyFacts DEF Row
  <2> QED BY <1>0, <2>1
<1>4. ASSUME row'[b] = new[b]
      PROVE  Advances(b) /\ Sound(b)' /\ OnlyStaleBreaks(b)
  <2>1. /\ row'[b].status = row[b].status
        /\ row'[b].payment = row[b].payment
        /\ row'[b].flown = row[b].flown
        /\ row'[b].ticket = row[b].ticket
        /\ row'[b].passengers = Adults
        /\ row'[b].coded = TRUE
    <3>1. row'[b] = [row[b] EXCEPT !.passengers = Adults, !.coded = TRUE]
      BY <1>0, <1>4
    <3> HIDE DEF new
    <3> QED BY <3>1, CopyFacts DEF Row
  <2> QED BY <1>1, <2>1, CopyFacts
          DEF Advances, Sound, OnlyStaleBreaks, FailedIsCancelled, Exists
<1> HIDE DEF new
<1>5. DOMAIN new = {b}
  BY DEF new
<1> QED BY <1>1, <1>3, <1>4, <1>5, CommitEnds, CopyFacts DEF IInv, TypeOK

LEMMA UpdatePaymentStatusEnds ==
  ASSUME IInv, NEW r \in Requests, NEW b \in Loaded(r), NEW p \in Payments,
         UpdatePaymentStatus(r, b, p)
  PROVE  Ends(r)
<1> DEFINE new == [x \in {b} |->
             [row[b] EXCEPT !.payment = p,
                            !.status = IF p = "FAILED" THEN "CANCELLED" ELSE @]]
<1>1. Commit(r, new) /\ log' = log /\ Exists(b)
  BY DEF UpdatePaymentStatus, Commit
<1>2. seen[r][b] = row[b] /\ row[b].status \notin Final
  BY CopyFacts DEF UpdatePaymentStatus, LockedOps, Final
<1>3. new[b] \in Row
  BY CopyFacts DEF Row, Statuses
<1>4. ASSUME row'[b] = new[b]
      PROVE  Advances(b) /\ Sound(b)' /\ OnlyStaleBreaks(b)
  <2>1. /\ row'[b].status = IF p = "FAILED" THEN "CANCELLED" ELSE row[b].status
        /\ row'[b].payment = p
        /\ row'[b].flown = row[b].flown
        /\ row'[b].ticket = row[b].ticket
        /\ row'[b].passengers = row[b].passengers
        /\ row'[b].coded = row[b].coded
    BY <1>4, CopyFacts DEF Row
  <2> QED BY <1>1, <1>2, <2>1, CopyFacts
          DEF Advances, Sound, OnlyStaleBreaks, FailedIsCancelled, Exists,
              Statuses, Final
<1> HIDE DEF new
<1>5. DOMAIN new = {b}
  BY DEF new
<1> QED BY <1>1, <1>3, <1>4, <1>5, CommitEnds, CopyFacts DEF IInv, TypeOK

LEMMA UpdateBookingStatusEnds ==
  ASSUME IInv, NEW r \in Requests, NEW b \in Loaded(r), NEW s \in Statuses,
         UpdateBookingStatus(r, b, s)
  PROVE  Ends(r)
<1> DEFINE new == [x \in {b} |->
             [row[b] EXCEPT !.status = s,
                            !.flown = IF b \in RoundTrip /\ s = "COMPLETED"
                                      THEN Legs ELSE @]]
<1>1. Commit(r, new) /\ log' = log /\ Exists(b)
  BY DEF UpdateBookingStatus, Commit
<1>2. seen[r][b] = row[b] /\ s \in Transitions[row[b].status]
  BY CopyFacts DEF UpdateBookingStatus, LockedOps
<1>3. row[b].status \notin Final /\ s # "PROCESSING"
  BY <1>1, <1>2 DEF Transitions, Final, Exists, Statuses
<1>4. new[b] \in Row
  BY CopyFacts DEF Row, Statuses
<1>5. ASSUME row'[b] = new[b]
      PROVE  Advances(b) /\ Sound(b)' /\ OnlyStaleBreaks(b)
  <2>1. /\ row'[b].status = s
        /\ row'[b].payment = row[b].payment
        /\ row'[b].flown = IF b \in RoundTrip /\ s = "COMPLETED"
                           THEN Legs ELSE row[b].flown
        /\ row'[b].ticket = row[b].ticket
        /\ row'[b].passengers = row[b].passengers
        /\ row'[b].coded = row[b].coded
    BY <1>5, CopyFacts DEF Row
  <2>2. row[b].flown \subseteq Legs
    BY CopyFacts DEF Row
  <2> QED BY <1>1, <1>3, <2>1, <2>2, CopyFacts
          DEF Advances, Sound, OnlyStaleBreaks, FailedIsCancelled, Exists,
              Statuses, Final
<1> HIDE DEF new
<1>6. DOMAIN new = {b}
  BY DEF new
<1> QED BY <1>1, <1>4, <1>5, <1>6, CommitEnds, CopyFacts DEF IInv, TypeOK

LEMMA DeleteBookingEnds ==
  ASSUME IInv, NEW r \in Requests, NEW b \in Loaded(r), DeleteBooking(r, b)
  PROVE  Ends(r)
<1> DEFINE new == [x \in {b} |-> Deleted]
<1>1. Commit(r, new) /\ log' = [log EXCEPT ![b] = @ + 1]
  BY DEF DeleteBooking
<1>2. row[b].status = "CANCELLED"
  BY CopyFacts DEF DeleteBooking, LockedOps
<1>3. log' \in [Bookings -> Nat] /\ log'[b] > 0
  BY <1>1, CopyFacts DEF IInv, TypeOK
<1>4. new[b] \in Row
  BY RowTypes
<1>5. ASSUME row'[b] = new[b]
      PROVE  Advances(b) /\ Sound(b)' /\ OnlyStaleBreaks(b)
  BY <1>2, <1>3, <1>5 DEF Advances, Sound, OnlyStaleBreaks, FailedIsCancelled,
                          Deleted, Absent
<1> HIDE DEF new
<1>6. DOMAIN new = {b}
  BY DEF new
<1> QED BY <1>1, <1>3, <1>4, <1>5, <1>6, CommitEnds, CopyFacts DEF IInv, TypeOK

-----------------------------------------------------------------------------
(* The ticket handlers and the jobs: the copy is the row, or it is stale.  *)

LEMMA UploadTicketEnds ==
  ASSUME IInv, NEW r \in Requests, NEW b \in Loaded(r), UploadTicket(r, b)
  PROVE  Ends(r)
<1> DEFINE new == [x \in {b} |->
             [row[b] EXCEPT !.ticket = TRUE,
                            !.status = IF seen[r][b].status # "CONFIRMED"
                                       THEN "CONFIRMED" ELSE @]]
<1>1. Commit(r, new) /\ log' = log /\ Exists(b) /\ Finish(r)
  BY DEF UploadTicket, Commit
<1>2. op[r] \in TicketOps /\ Eligible("upload_ticket", seen[r][b])
  BY CopyFacts DEF UploadTicket, TicketOps
<1>3. new[b] \in Row
  BY CopyFacts DEF Row, Statuses
<1>4. ASSUME row'[b] = new[b]
      PROVE  Advances(b) /\ Sound(b)' /\ OnlyStaleBreaks(b)
  <2>1. /\ row'[b].status = IF seen[r][b].status # "CONFIRMED"
                            THEN "CONFIRMED" ELSE row[b].status
        /\ row'[b].payment = row[b].payment
        /\ row'[b].flown = row[b].flown
        /\ row'[b].ticket = TRUE
        /\ row'[b].passengers = row[b].passengers
        /\ row'[b].coded = row[b].coded
    BY <1>4, CopyFacts DEF Row
  <2>2. Advances(b) /\ Sound(b)'
    BY <1>1, <2>1, CopyFacts DEF Advances, Sound, Exists, Statuses
  <2>3. ASSUME seen[r][b] = row[b] PROVE OnlyStaleBreaks(b)
    BY <1>2, <2>1, <2>3 DEF OnlyStaleBreaks, FailedIsCancelled, Eligible, TicketOps
  <2> QED BY <1>1, <1>2, <2>2, <2>3, StaleExcuses
<1> HIDE DEF new
<1>5. DOMAIN new = {b}
  BY DEF new
<1> QED BY <1>1, <1>3, <1>4, <1>5, CommitEnds, CopyFacts DEF IInv, TypeOK

\* replace_file and delete_file write no column but the ticket's.
LEMMA FileEnds ==
  ASSUME IInv, NEW r \in Requests, NEW b \in Loaded(r), NEW t \in BOOLEAN,
         op[r] \in {"replace_file", "delete_file"}, log' = log,
         Commit(r, [x \in {b} |-> [row[b] EXCEPT !.ticket = t]])
  PROVE  Ends(r)
<1> DEFINE new == [x \in {b} |-> [row[b] EXCEPT !.ticket = t]]
<1>1. Commit(r, new) /\ Exists(b) /\ Finish(r)
  BY DEF Commit
<1>2. seen[r][b].status = "CONFIRMED" /\ row[b].status # "PROCESSING"
  BY CopyFacts DEF Eligible
<1>3. new[b] \in Row
  BY CopyFacts DEF Row
<1>4. ASSUME row'[b] = new[b]
      PROVE  Advances(b) /\ Sound(b)' /\ OnlyStaleBreaks(b)
  <2>1. /\ row'[b].status = row[b].status
        /\ row'[b].payment = row[b].payment
        /\ row'[b].flown = row[b].flown
        /\ row'[b].passengers = row[b].passengers
        /\ row'[b].coded = row[b].coded
    BY <1>4, CopyFacts DEF Row
  <2> QED BY <1>1, <1>2, <2>1, CopyFacts
          DEF Advances, Sound, OnlyStaleBreaks, FailedIsCancelled, Exists
<1> HIDE DEF new
<1>5. DOMAIN new = {b}
  BY DEF new
<1> QED BY <1>1, <1>3, <1>4, <1>5, CommitEnds, CopyFacts DEF IInv, TypeOK

LEMMA AutoCancelEnds ==
  ASSUME IInv, NEW r \in Requests, AutoCancel(r)
  PROVE  Ends(r)
<1> DEFINE new == [b \in Loaded(r) |-> [row[b] EXCEPT !.status = "CANCELLED"]]
<1>1. Commit(r, new) /\ log' = log /\ Finish(r)
  BY DEF AutoCancel, Commit
<1>2. ASSUME NEW b \in DOMAIN new
      PROVE  /\ new[b] \in Row
             /\ row'[b] = new[b] => Advances(b) /\ Sound(b)' /\ OnlyStaleBreaks(b)
  <2>1. b \in Loaded(r) /\ Exists(b)
    BY <1>1 DEF Commit
  <2>2. new[b] = [row[b] EXCEPT !.status = "CANCELLED"]
    BY <2>1
  <2> HIDE DEF new
  <2>3. new[b] \in Row
    BY <2>1, <2>2, CopyFacts DEF Row, Statuses
  <2>4. ASSUME row'[b] = new[b]
        PROVE  Advances(b) /\ Sound(b)' /\ OnlyStaleBreaks(b)
    <3>1. /\ row'[b].status = "CANCELLED"
          /\ row'[b].payment = row[b].payment
          /\ row'[b].flown = row[b].flown
          /\ row'[b].passengers = row[b].passengers
          /\ row'[b].coded = row[b].coded
      BY <2>1, <2>2, <2>4, CopyFacts DEF Row
    <3>2. Advances(b) /\ Sound(b)'
      BY <1>1, <2>1, <3>1, CopyFacts DEF Advances, Sound, Exists, Statuses
    <3>3. ASSUME seen[r][b] = row[b] PROVE OnlyStaleBreaks(b)
      <4>1. row[b].status = "PROCESSING"
        BY <2>1, <3>3, CopyFacts DEF AutoCancel, Eligible
      <4> QED BY <3>1, <4>1 DEF OnlyStaleBreaks, FailedIsCancelled, Final
    <3>4. ASSUME seen[r][b] # row[b] PROVE OnlyStaleBreaks(b)
      BY <1>1, <2>1, <3>4, StaleExcuses DEF AutoCancel, JobOps
    <3> QED BY <3>2, <3>3, <3>4
  <2> QED BY <2>3, <2>4
<1>3. DOMAIN new = Loaded(r) /\ Loaded(r) \subseteq Bookings
  BY DEF Loaded
<1> HIDE DEF new
<1> QED BY <1>1, <1>2, <1>3, CommitEnds DEF IInv, TypeOK

LEMMA AutoCompleteEnds ==
  ASSUME IInv, NEW r \in Requests, NEW departed \in [Bookings -> SUBSET Legs],
         AutoComplete(r, departed)
  PROVE  Ends(r)
<1> DEFINE flownNow(b) == FlownBy(r, b, departed)
           done(b) == CompletedBy(r, b, departed)
           touched == {b \in Loaded(r) : done(b) \/ flownNow(b) # seen[r][b].flown}
           new == [b \in touched |->
             [row[b] EXCEPT !.flown = @ \cup (flownNow(b) \ seen[r][b].flown),
                            !.status = IF done(b) THEN "COMPLETED" ELSE @]]
<1>1. Commit(r, new) /\ log' = log /\ Finish(r)
  BY DEF AutoComplete, Commit
<1>2. ASSUME NEW b \in DOMAIN new
      PROVE  /\ new[b] \in Row
             /\ row'[b] = new[b] => Advances(b) /\ Sound(b)' /\ OnlyStaleBreaks(b)
  <2>1. b \in Loaded(r) /\ Exists(b)
    BY <1>1 DEF Commit
  <2>2. new[b] = [row[b] EXCEPT
                    !.flown = @ \cup (flownNow(b) \ seen[r][b].flown),
                    !.status = IF done(b) THEN "COMPLETED" ELSE @]
    OBVIOUS
  <2>3. flownNow(b) \subseteq Legs /\ seen[r][b].flown \subseteq row[b].flown
    BY <2>1, CopyFacts DEF FlownBy, Row
  <2>4. b \in RoundTrip /\ done(b) => flownNow(b) = Legs
    BY DEF CompletedBy
  <2> DEFINE f == row[b].flown \cup (flownNow(b) \ seen[r][b].flown)
             s == IF done(b) THEN "COMPLETED" ELSE row[b].status
  <2> HIDE DEF new, flownNow, done
  <2>5. /\ new[b] = [row[b] EXCEPT !.flown = f, !.status = s]
        /\ f \in SUBSET Legs /\ s \in Statuses /\ row[b] \in Row
    BY <2>1, <2>2, <2>3, CopyFacts DEF Row, Exists, Statuses
  <2> HIDE DEF f, s
  <2>6. ASSUME row'[b] = new[b]
        PROVE  Advances(b) /\ Sound(b)' /\ OnlyStaleBreaks(b)
    <3>0. /\ row'[b].status = s /\ row'[b].flown = f
          /\ row'[b].payment = row[b].payment
          /\ row'[b].ticket = row[b].ticket
          /\ row'[b].passengers = row[b].passengers
          /\ row'[b].coded = row[b].coded
      BY <2>5, <2>6 DEF Row
    <3>1. /\ row'[b].status = IF done(b) THEN "COMPLETED" ELSE row[b].status
          /\ row'[b].flown = row[b].flown \cup (flownNow(b) \ seen[r][b].flown)
      BY <3>0 DEF f, s
    <3>2. row[b].flown \subseteq row'[b].flown /\ row'[b].flown \subseteq Legs
      BY <2>1, <2>3, <3>1, CopyFacts DEF Row
    <3>3. b \in RoundTrip /\ done(b) => row'[b].flown = Legs
      BY <2>3, <2>4, <3>1, <3>2
    <3>4. Advances(b)
      BY <2>1, <3>1, <3>2 DEF Advances, Exists, Statuses
    <3>5. Sound(b)'
      BY <1>1, <2>1, <3>0, <3>1, <3>2, <3>3, CopyFacts DEF Sound, Exists, Statuses
    <3>6. ASSUME seen[r][b] = row[b] PROVE OnlyStaleBreaks(b)
      <4>1. row[b].status = "CONFIRMED"
        BY <2>1, <3>6, CopyFacts DEF AutoComplete, Eligible
      <4> QED BY <3>0, <3>1, <4>1 DEF OnlyStaleBreaks, FailedIsCancelled, Final
    <3>7. ASSUME seen[r][b] # row[b] PROVE OnlyStaleBreaks(b)
      BY <1>1, <2>1, <3>7, StaleExcuses DEF AutoComplete, JobOps
    <3> QED BY <3>4, <3>5, <3>6, <3>7
  <2>7. new[b] \in Row
    BY <2>5 DEF Row, Statuses
  <2> QED BY <2>6, <2>7
<1>3. DOMAIN new \subseteq Bookings
  BY DEF Loaded
<1> HIDE DEF new
<1> QED BY <1>1, <1>2, <1>3, CommitEnds DEF IInv, TypeOK

LEMMA AutoDeleteEnds ==
  ASSUME IInv, NEW r \in Requests, AutoDelete(r)
  PROVE  Ends(r)
<1>1. Finish(r) /\ op[r] \in JobOps
  BY DEF AutoDelete, JobOps
<1>2. row' \in [Bookings -> Row] /\ log' \in [Bookings -> Nat]
  BY RowTypes DEF AutoDelete, IInv, TypeOK
<1>3. ASSUME NEW b \in Bookings
      PROVE  /\ row'[b] # row[b] => lock[b] \in {Free, r}
             /\ Advances(b) /\ Sound(b)' /\ OnlyStaleBreaks(b)
  <2>1. CASE b \in Loaded(r)
    <3>1. row'[b] = Deleted /\ log'[b] > 0 /\ lock[b] \in {Free, r}
      BY <2>1 DEF AutoDelete, Unblocked, IInv, TypeOK
    <3>2. Advances(b) /\ Sound(b)'
      BY <2>1, <3>1, CopyFacts DEF Advances, Sound, Deleted, Absent
    <3>3. ASSUME seen[r][b] = row[b] PROVE OnlyStaleBreaks(b)
      <4>1. row[b].status = "CANCELLED"
        BY <2>1, <3>3, CopyFacts DEF AutoDelete, Eligible
      <4> QED BY <3>1, <4>1 DEF OnlyStaleBreaks, FailedIsCancelled, Deleted, Absent
    <3>4. ASSUME seen[r][b] # row[b] PROVE OnlyStaleBreaks(b)
      BY <1>1, <2>1, <3>4, StaleExcuses
    <3> QED BY <3>1, <3>2, <3>3, <3>4
  <2>2. CASE b \notin Loaded(r)
    <3>1. row'[b] = row[b] /\ log'[b] = log[b]
      BY <2>2 DEF AutoDelete
    <3> QED BY <3>1, Untouched
  <2> QED BY <2>1, <2>2
<1> QED BY <1>1, <1>2, <1>3 DEF Ends

LEMMA RollbackEnds ==
  ASSUME IInv, NEW r \in Requests, Rollback(r)
  PROVE  Ends(r)
<1>1. \A b \in Bookings : Advances(b) /\ Sound(b)' /\ OnlyStaleBreaks(b)
  BY Untouched DEF Rollback
<1> QED BY <1>1 DEF Rollback, Ends, IInv, TypeOK

-----------------------------------------------------------------------------
(* The insertion of a booking belongs to no modelled request.              *)

LEMMA CreateKeeps ==
  ASSUME IInv, NEW b \in Bookings, CreateBooking(b)
  PROVE  IInv' /\ \A x \in Bookings : OnlyStaleBreaks(x)
<1> USE DEF IInv, CreateBooking
<1> DEFINE fresh == [Absent EXCEPT !.status = "PROCESSING"]
<1>1. fresh \in Row /\ \A x \in Bookings : row'[x] = IF x = b THEN fresh ELSE row[x]
  BY RowTypes DEF TypeOK, Row, Absent, Statuses
<1>2. TypeOK'
  BY <1>1 DEF TypeOK
<1>3. \A r \in Requests : b \notin Loaded(r)
  BY DEF CopiesAreOld
<1>4. CopiesAreOld'
  BY <1>1, <1>3 DEF CopiesAreOld, Loaded, Exists, Eligible
<1>5. LockHolderIsCurrent'
  BY <1>1, <1>3 DEF LockHolderIsCurrent, Loaded
<1>6. \A x \in Bookings : Sound(x)'
  BY <1>1 DEF Sound, Absent
<1>7. \A x \in Bookings : OnlyStaleBreaks(x)
  BY <1>1 DEF OnlyStaleBreaks, FailedIsCancelled, Final, Absent
<1> QED BY <1>2, <1>4, <1>5, <1>6, <1>7

-----------------------------------------------------------------------------
(* The theorems.                                                           *)

LEMMA CommitStep ==
  ASSUME IInv, HandlerCommit \/ JobCommit \/ \E r \in Requests : Rollback(r)
  PROVE  \E r \in Requests : Ends(r)
<1>1. CASE HandlerCommit
  <2> PICK r \in Requests : \E b \in Loaded(r) :
        \/ AddPassengers(r, b)
        \/ \E p \in Payments : UpdatePaymentStatus(r, b, p)
        \/ \E s \in Statuses : UpdateBookingStatus(r, b, s)
        \/ DeleteBooking(r, b)
        \/ UploadTicket(r, b)
        \/ ReplaceFile(r, b)
        \/ DeleteFile(r, b)
    BY <1>1 DEF HandlerCommit
  <2> PICK b \in Loaded(r) :
        \/ AddPassengers(r, b)
        \/ \E p \in Payments : UpdatePaymentStatus(r, b, p)
        \/ \E s \in Statuses : UpdateBookingStatus(r, b, s)
        \/ DeleteBooking(r, b)
        \/ UploadTicket(r, b)
        \/ ReplaceFile(r, b)
        \/ DeleteFile(r, b)
    OBVIOUS
  <2>1. CASE ReplaceFile(r, b) \/ DeleteFile(r, b)
    BY <2>1, FileEnds DEF ReplaceFile, DeleteFile
  <2> QED BY <2>1, AddPassengersEnds, UpdatePaymentStatusEnds,
             UpdateBookingStatusEnds, DeleteBookingEnds, UploadTicketEnds
<1>2. CASE JobCommit
  BY <1>2, AutoCancelEnds, AutoCompleteEnds, AutoDeleteEnds DEF JobCommit
<1>3. CASE \E r \in Requests : Rollback(r)
  BY <1>3, RollbackEnds
<1> QED BY <1>1, <1>2, <1>3

LEMMA StepKeeps ==
  ASSUME IInv, [Next]_vars
  PROVE  IInv' /\ \A b \in Bookings : OnlyStaleBreaks(b)
<1>1. CASE \E b \in Bookings : CreateBooking(b)
  BY <1>1, CreateKeeps
<1>2. CASE Select
  <2>1. UNCHANGED <<row, log>>
    BY <1>2, SelectEffect DEF Selects, Start
  <2> QED BY <1>2, <2>1, SelectEffect, SelectKeeps, Untouched
<1>3. CASE HandlerCommit \/ JobCommit \/ \E r \in Requests : Rollback(r)
  <2> PICK r \in Requests : Ends(r)
    BY <1>3, CommitStep
  <2> QED BY CommitKeeps DEF Ends
<1>4. CASE UNCHANGED vars
  <2>1. UNCHANGED <<row, log>>
    BY <1>4 DEF vars
  <2>2. IInv'
    BY <1>4 DEF vars, IInv, TypeOK, CopiesAreOld, Loaded, Exists, Eligible,
                LockHolderIsCurrent, Sound
  <2> QED BY <2>1, <2>2, Untouched
<1> QED BY <1>1, <1>2, <1>3, <1>4 DEF Next

THEOREM Inductive == Spec => []IInv
<1>1. IInv /\ [Next]_vars => IInv'
  BY StepKeeps
<1> QED BY <1>1, InitIInv, PTL DEF Spec

\* Every reachable state of the bookings table is well typed.
THEOREM TypeCorrect == Spec => []TypeOK
BY Inductive, PTL DEF IInv

\* A handler that selected FOR UPDATE decides on the current row.
THEOREM LocksProtect == Spec => []LockHolderIsCurrent
BY Inductive, PTL DEF IInv

\* The passengers of a booking are stored once, with its booking code.
THEOREM PassengersOnce == Spec => []PassengersAllOrNothing
<1>1. IInv => PassengersAllOrNothing
  BY DEF IInv, Sound, PassengersAllOrNothing
<1> QED BY <1>1, Inductive, PTL

\* No ticketed booking is in PROCESSING, stale uploads included.
THEOREM TicketsConfirm == Spec => []TicketedIsPastProcessing
<1>1. IInv => TicketedIsPastProcessing
  BY DEF IInv, Sound, TicketedIsPastProcessing
<1> QED BY <1>1, Inductive, PTL

\* A completed round trip has both legs marked.
THEOREM RoundTripsFly == Spec => []CompletedFlewBothLegs
<1>1. IInv => CompletedFlewBothLegs
  BY DEF IInv, Sound, CompletedFlewBothLegs
<1> QED BY <1>1, Inductive, PTL

\* Deletions and deletion log rows go together.
THEOREM DeletionsAreLogged == Spec => []DeletedIffLogged
<1>1. IInv => DeletedIffLogged
  BY DEF IInv, Sound, DeletedIffLogged
<1> QED BY <1>1, Inductive, PTL

\* Only a stale write can leave a failed payment on a live booking.
THEOREM FailedPaymentCancels == Spec => FailedIsCancelledUnlessStale
<1>1. IInv /\ [Next]_vars =>
        [\A b \in Bookings :
           FailedIsCancelled(b) => FailedIsCancelled(b)' \/ StaleWrite(b)]_vars
  BY StepKeeps DEF OnlyStaleBreaks
<1> QED BY <1>1, Inductive, PTL DEF Spec, FailedIsCancelledUnlessStale

\* Only a stale write can move a completed or cancelled booking on.
THEOREM FinalStatuses == Spec => FinalUnlessStale
<1>1. IInv /\ [Next]_vars =>
        [\A b \in Bookings :
           \/ row[b].status \notin {"COMPLETED", "CANCELLED"}
           \/ row'[b].status = row[b].status
           \/ row[b].status = "CANCELLED" /\ row'[b].status = "DELETED"
           \/ StaleWrite(b)]_vars
  BY StepKeeps DEF OnlyStaleBreaks, Final
<1> QED BY <1>1, Inductive, PTL DEF Spec, FinalUnlessStale

-----------------------------------------------------------------------------
(* The refinement.                                                         *)

\* What the history knows about booking b: all that it is, and all that the
\* requests believe it to be.
Remembered(b) ==
  /\ row[b].status # "ABSENT" => {row[b].status, row[b].payment} \subseteq past[b]
  /\ row[b].status = "DELETED" => row[b] = Deleted
  /\ \A r \in Requests :
       b \in Loaded(r) => {seen[r][b].status, seen[r][b].payment} \subseteq past[b]

HInv == /\ IInv
        /\ past = [b \in Bookings |-> past[b]]
        /\ \A b \in Bookings : Remembered(b)

\* The steps of a booking's life, said of its row.
Moves(b) ==
  \/ row'[b] = row[b]
  \/ row[b].status = "ABSENT" /\ row'[b].status = "PROCESSING" /\ row'[b].payment = "PENDING"
  \/ /\ row[b].status \in {"PROCESSING", "CONFIRMED"}
     /\ \/ row'[b].status = row[b].status /\ row'[b].payment \in {"PENDING", "PAID"}
        \/ row'[b].status = "CANCELLED"   /\ row'[b].payment = "FAILED"
  \/ /\ Exists(b)
     /\ row'[b].payment = row[b].payment
     /\ \/ row'[b].status = row[b].status
        \/ row'[b].status = "CONFIRMED" /\ (row[b].status = "PROCESSING" \/ "PAID" \in past[b])
        \/ row'[b].status = "CANCELLED"
        \/ row'[b].status = "COMPLETED" /\ "CONFIRMED" \in past[b]
  \/ Exists(b) /\ "CANCELLED" \in past[b] /\ row'[b] = Deleted

LEMMA MovesSimulate ==
  ASSUME HInv, Remember, NEW b \in Bookings, Moves(b)
  PROVE  Lifecycle!Step(b) \/ Lifecycle!Stays(b)
<1>1. past'[b] = IF row'[b] = row[b] THEN past[b]
                 ELSE past[b] \cup {row'[b].status, row'[b].payment}
  BY DEF Remember
<1>2. row[b].status # "ABSENT" => {row[b].status, row[b].payment} \subseteq past[b]
  BY DEF HInv, Remembered
<1>3. CASE row'[b].status = row[b].status /\ row'[b].payment = row[b].payment
           /\ row[b].status # "ABSENT"
  BY <1>1, <1>2, <1>3 DEF Lifecycle!Stays
<1>4. CASE row'[b] = row[b]
  BY <1>1, <1>4 DEF Lifecycle!Stays
<1>5. CASE row'[b] # row[b] /\ ~(row'[b].status = row[b].status /\ row'[b].payment = row[b].payment
           /\ row[b].status # "ABSENT")
  BY <1>1, <1>5 DEF Moves, Exists, Statuses, Deleted, Absent,
       Lifecycle!Step, Lifecycle!Create, Lifecycle!Pay, Lifecycle!FailPayment,
       Lifecycle!Confirm, Lifecycle!Cancel, Lifecycle!Ticket, Lifecycle!Complete,
       Lifecycle!Delete, Lifecycle!Becomes, Lifecycle!Live, Lifecycle!Exists
<1> QED BY <1>3, <1>4, <1>5

\* A request that changes one row, and no payment status.
LEMMA OneRowMoves ==
  ASSUME HInv, NEW r \in Requests, NEW b \in Loaded(r), NEW value,
         Commit(r, [x \in {b} |-> value]),
         row'[b] = value => Moves(b)
  PROVE  \A x \in Bookings : Moves(x)
BY DEF Commit, Moves

LEMMA HandlerMoves ==
  ASSUME HInv, HandlerCommit
  PROVE  \A x \in Bookings : Moves(x)
<1> PICK r \in Requests : \E b \in Loaded(r) :
      \/ AddPassengers(r, b)
      \/ \E p \in Payments : UpdatePaymentStatus(r, b, p)
      \/ \E s \in Statuses : UpdateBookingStatus(r, b, s)
      \/ DeleteBooking(r, b)
      \/ UploadTicket(r, b)
      \/ ReplaceFile(r, b)
      \/ DeleteFile(r, b)
  BY DEF HandlerCommit
<1> PICK b \in Loaded(r) :
      \/ AddPassengers(r, b)
      \/ \E p \in Payments : UpdatePaymentStatus(r, b, p)
      \/ \E s \in Statuses : UpdateBookingStatus(r, b, s)
      \/ DeleteBooking(r, b)
      \/ UploadTicket(r, b)
      \/ ReplaceFile(r, b)
      \/ DeleteFile(r, b)
  OBVIOUS
<1>0. /\ IInv /\ b \in Bookings /\ row[b] \in Row /\ Remembered(b)
      /\ op[r] \in LockedOps => seen[r][b] = row[b]
      /\ Eligible(op[r], seen[r][b])
  BY CopyFacts DEF HInv
<1>1. CASE AddPassengers(r, b)
  <2> DEFINE value == [row[b] EXCEPT !.passengers = @ + Adults, !.coded = TRUE]
  <2>1. Commit(r, [x \in {b} |-> value]) /\ Exists(b)
    BY <1>1 DEF AddPassengers, Commit
  <2>2. value.status = row[b].status /\ value.payment = row[b].payment
    BY <1>0 DEF Row
  <2> HIDE DEF value
  <2> QED BY <2>1, <2>2, OneRowMoves DEF Moves
<1>2. ASSUME NEW p \in Payments, UpdatePaymentStatus(r, b, p)
      PROVE  \A x \in Bookings : Moves(x)
  <2> DEFINE value == [row[b] EXCEPT !.payment = p,
                                     !.status = IF p = "FAILED" THEN "CANCELLED" ELSE @]
  <2>1. Commit(r, [x \in {b} |-> value]) /\ Exists(b)
    BY <1>2 DEF UpdatePaymentStatus, Commit
  <2>2. /\ value.status = IF p = "FAILED" THEN "CANCELLED" ELSE row[b].status
        /\ value.payment = p
    BY <1>0 DEF Row
  <2>3. row[b].status \in {"PROCESSING", "CONFIRMED"}
    BY <1>0, <1>2, <2>1 DEF UpdatePaymentStatus, LockedOps, Exists, Statuses
  <2> HIDE DEF value
  <2> QED BY <2>1, <2>2, <2>3, OneRowMoves DEF Moves, Payments
<1>3. ASSUME NEW s \in Statuses, UpdateBookingStatus(r, b, s)
      PROVE  \A x \in Bookings : Moves(x)
  <2> DEFINE value == [row[b] EXCEPT !.status = s,
                                     !.flown = IF b \in RoundTrip /\ s = "COMPLETED"
                                               THEN Legs ELSE @]
  <2>1. Commit(r, [x \in {b} |-> value]) /\ Exists(b)
    BY <1>3 DEF UpdateBookingStatus, Commit
  <2>2. value.status = s /\ value.payment = row[b].payment
    BY <1>0 DEF Row
  <2>3. s \in Transitions[row[b].status]
    BY <1>0, <1>3 DEF UpdateBookingStatus, LockedOps
  <2>4. \/ s = "CONFIRMED" /\ row[b].status = "PROCESSING"
        \/ s = "COMPLETED" /\ row[b].status = "CONFIRMED"
        \/ s = "CANCELLED"
    BY <2>1, <2>3 DEF Transitions, Exists, Statuses
  <2> HIDE DEF value
  <2> QED BY <1>0, <2>1, <2>2, <2>4, OneRowMoves DEF Moves, Remembered
<1>4. CASE DeleteBooking(r, b)
  <2>1. Commit(r, [x \in {b} |-> Deleted]) /\ Exists(b) /\ row[b].status = "CANCELLED"
    BY <1>0, <1>4 DEF DeleteBooking, Commit, LockedOps
  <2> QED BY <1>0, <2>1, OneRowMoves DEF Moves, Remembered
<1>5. CASE UploadTicket(r, b)
  <2> DEFINE value == [row[b] EXCEPT !.ticket = TRUE,
                                     !.status = IF seen[r][b].status # "CONFIRMED"
                                                THEN "CONFIRMED" ELSE @]
  <2>1. Commit(r, [x \in {b} |-> value]) /\ Exists(b) /\ op[r] = "upload_ticket"
    BY <1>5 DEF UploadTicket, Commit
  <2>2. /\ value.status \in {"CONFIRMED", row[b].status}
        /\ value.payment = row[b].payment
    BY <1>0 DEF Row
  <2>3. "PAID" \in past[b]
    BY <1>0, <2>1 DEF Eligible, Remembered
  <2> HIDE DEF value
  <2> QED BY <2>1, <2>2, <2>3, OneRowMoves DEF Moves
<1>6. ASSUME NEW t \in BOOLEAN, Commit(r, [x \in {b} |-> [row[b] EXCEPT !.ticket = t]])
      PROVE  \A x \in Bookings : Moves(x)
  <2> DEFINE value == [row[b] EXCEPT !.ticket = t]
  <2>1. Commit(r, [x \in {b} |-> value]) /\ Exists(b)
    BY <1>6 DEF Commit
  <2>2. value.status = row[b].status /\ value.payment = row[b].payment
    BY <1>0 DEF Row
  <2> HIDE DEF value
  <2> QED BY <2>1, <2>2, OneRowMoves DEF Moves
<1>7. CASE ReplaceFile(r, b) \/ DeleteFile(r, b)
  BY <1>6, <1>7 DEF ReplaceFile, DeleteFile
<1> QED BY <1>1, <1>2, <1>3, <1>4, <1>5, <1>7

LEMMA JobMoves ==
  ASSUME HInv, JobCommit
  PROVE  \A x \in Bookings : Moves(x)
<1> SUFFICES ASSUME NEW x \in Bookings PROVE Moves(x)
  OBVIOUS
<1> PICK r \in Requests :
      \/ AutoCancel(r)
      \/ \E departed \in [Bookings -> SUBSET Legs] : AutoComplete(r, departed)
      \/ AutoDelete(r)
  BY DEF JobCommit
<1>0. /\ IInv /\ row[x] \in Row /\ Remembered(x)
      /\ x \in Loaded(r) => Eligible(op[r], seen[r][x])
  BY CopyFacts DEF HInv, IInv, TypeOK
<1>1. CASE AutoCancel(r)
  <2>1. CASE x \in Loaded(r)
    <3>1. Exists(x) /\ row'[x] = [row[x] EXCEPT !.status = "CANCELLED"]
      BY <1>1, <2>1 DEF AutoCancel, Commit
    <3>2. row'[x].status = "CANCELLED" /\ row'[x].payment = row[x].payment
      BY <1>0, <3>1 DEF Row
    <3> QED BY <3>1, <3>2 DEF Moves
  <2>2. CASE x \notin Loaded(r)
    BY <1>1, <2>2 DEF AutoCancel, Commit, Moves
  <2> QED BY <2>1, <2>2
<1>2. ASSUME NEW departed \in [Bookings -> SUBSET Legs], AutoComplete(r, departed)
      PROVE  Moves(x)
  <2> DEFINE touched == {b \in Loaded(r) : \/ CompletedBy(r, b, departed)
                                           \/ FlownBy(r, b, departed) # seen[r][b].flown}
             legs == row[x].flown \cup (FlownBy(r, x, departed) \ seen[r][x].flown)
             status == IF CompletedBy(r, x, departed) THEN "COMPLETED" ELSE row[x].status
  <2>1. CASE x \in touched
    <3>1. /\ Exists(x) /\ x \in Loaded(r) /\ op[r] = "auto_complete"
          /\ row'[x] = [row[x] EXCEPT !.flown = legs, !.status = status]
      BY <1>2, <2>1 DEF AutoComplete, Commit
    <3>2. status \in {"COMPLETED", row[x].status}
      OBVIOUS
    <3> HIDE DEF legs, status
    <3>3. row'[x].status = status /\ row'[x].payment = row[x].payment
      BY <1>0, <3>1 DEF Row
    <3>4. "CONFIRMED" \in past[x]
      BY <1>0, <3>1 DEF Eligible, Remembered
    <3> QED BY <3>1, <3>2, <3>3, <3>4 DEF Moves
  <2>2. CASE x \notin touched
    BY <1>2, <2>2 DEF AutoComplete, Commit, Moves
  <2> QED BY <2>1, <2>2
<1>3. CASE AutoDelete(r)
  <2>1. CASE x \in Loaded(r)
    <3>1. row'[x] = Deleted /\ row[x].status # "ABSENT" /\ "CANCELLED" \in past[x]
      BY <1>0, <1>3, <2>1, CopyFacts DEF AutoDelete, Eligible, Remembered
    <3>2. CASE row[x].status = "DELETED"
      BY <1>0, <3>1, <3>2 DEF Remembered, Moves
    <3>3. CASE row[x].status # "DELETED"
      <4>1. Exists(x)
        BY <1>0, <3>1, <3>3 DEF Exists, Row
      <4> QED BY <3>1, <4>1 DEF Moves
    <3> QED BY <3>2, <3>3
  <2>2. CASE x \notin Loaded(r)
    BY <1>3, <2>2 DEF AutoDelete, Moves
  <2> QED BY <2>1, <2>2
<1> QED BY <1>1, <1>2, <1>3

LEMMA EveryStepMoves ==
  ASSUME HInv, Next
  PROVE  \A x \in Bookings : Moves(x)
<1>1. CASE \E b \in Bookings : CreateBooking(b)
  <2> PICK b \in Bookings : CreateBooking(b)
    BY <1>1
  <2>1. row'[b].status = "PROCESSING" /\ row'[b].payment = "PENDING"
    BY DEF CreateBooking, Absent, HInv, IInv, TypeOK
  <2>2. \A x \in Bookings : x # b => row'[x] = row[x]
    BY DEF CreateBooking, HInv, IInv, TypeOK
  <2> QED BY <2>1, <2>2 DEF CreateBooking, Moves
<1>2. CASE Select
  <2>1. UNCHANGED row
    BY <1>2, SelectEffect DEF Selects, Start, HInv
  <2> QED BY <2>1 DEF Moves
<1>3. CASE \E r \in Requests : Rollback(r)
  BY <1>3 DEF Rollback, Moves
<1> QED BY <1>1, <1>2, <1>3, HandlerMoves, JobMoves DEF Next

\* A copy is old, or it was made of a row by this very step.
LEMMA CopiesComeFromRows ==
  ASSUME IInv, Next, NEW q \in Requests, NEW b \in Bookings, seen'[q][b] # Absent
  PROVE  \/ seen'[q][b] = seen[q][b]
         \/ seen'[q][b] = row[b] /\ Exists(b)
<1>1. CASE \E x \in Bookings : CreateBooking(x)
  BY <1>1 DEF CreateBooking
<1>2. CASE Select
  <2> PICK r \in Requests, o \in AllOps : \E S : Selects(r, o, S)
    BY <1>2, SelectEffect
  <2> QED BY DEF Selects, Start, IInv, TypeOK
<1>3. CASE HandlerCommit \/ JobCommit \/ \E r \in Requests : Rollback(r)
  <2> PICK r \in Requests : Ends(r)
    BY <1>3, CommitStep
  <2> QED BY DEF Ends, Finish, IInv, TypeOK
<1> QED BY <1>1, <1>2, <1>3 DEF Next

LEMMA HistoryStep ==
  ASSUME HInv, HistoryNext
  PROVE  HInv' /\ Lifecycle!Next
<1> USE DEF HistoryNext
<1>1. \A b \in Bookings : Moves(b)
  BY EveryStepMoves
<1>2. Lifecycle!Next
  BY <1>1, MovesSimulate DEF Lifecycle!Next
<1>3. IInv'
  BY StepKeeps DEF HInv
<1>4. (past = [b \in Bookings |-> past[b]])'
  BY DEF Remember
<1>5. ASSUME NEW b \in Bookings
      PROVE  Remembered(b)'
  <2>0. Moves(b) /\ Remembered(b)
    BY <1>1 DEF HInv
  <2>1. past'[b] = IF row'[b] = row[b] THEN past[b]
                   ELSE past[b] \cup {row'[b].status, row'[b].payment}
    BY DEF Remember
  <2>2. row'[b].status # "ABSENT" => {row'[b].status, row'[b].payment} \subseteq past'[b]
    BY <2>0, <2>1 DEF Remembered
  <2>3. row'[b].status = "DELETED" => row'[b] = Deleted
    BY <2>0 DEF Remembered, Moves, Exists, Statuses
  <2>4. ASSUME NEW q \in Requests, seen'[q][b] # Absent
        PROVE  {seen'[q][b].status, seen'[q][b].payment} \subseteq past'[b]
    <3>1. CASE seen'[q][b] = seen[q][b]
      BY <2>0, <2>1, <2>4, <3>1 DEF Remembered, Loaded
    <3>2. CASE seen'[q][b] = row[b] /\ Exists(b)
      BY <2>0, <2>1, <3>2 DEF Remembered, Exists, Statuses
    <3> QED BY <2>4, <3>1, <3>2, CopiesComeFromRows DEF HInv
  <2> QED BY <2>2, <2>3, <2>4 DEF Remembered, Loaded
<1> QED BY <1>2, <1>3, <1>4, <1>5 DEF HInv

LEMMA HistoryStutter ==
  ASSUME HInv, UNCHANGED <<vars, past>>
  PROVE  HInv' /\ UNCHANGED Lifecycle!vars
<1> USE DEF vars
<1>1. IInv'
  BY StepKeeps DEF HInv
<1> QED BY <1>1 DEF HInv, Remembered, Loaded, Lifecycle!vars

LEMMA HistoryStart == HistoryInit => HInv /\ Lifecycle!Init
<1> SUFFICES ASSUME HistoryInit PROVE HInv /\ Lifecycle!Init
  OBVIOUS
<1>1. IInv
  BY InitIInv DEF HistoryInit
<1>2. \A b \in Bookings : Remembered(b)
  BY DEF HistoryInit, Init, Remembered, Loaded, Absent
<1>3. Lifecycle!Init
  BY DEF HistoryInit, Init, Absent, Lifecycle!Init
<1> QED BY <1>1, <1>2, <1>3 DEF HInv, HistoryInit

\* The table implements the life of a booking, for any number of bookings and of
\* racing requests.
THEOREM Refinement == HistorySpec => ImplementsLifecycle
<1>1. HInv /\ [HistoryNext]_<<vars, past>> => HInv' /\ [Lifecycle!Next]_(Lifecycle!vars)
  BY HistoryStep, HistoryStutter
<1> QED BY <1>1, HistoryStart, PTL DEF HistorySpec, ImplementsLifecycle, Lifecycle!Spec
=============================================================================
