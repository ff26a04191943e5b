---------------------- MODULE DuplicateBookingsProofs ----------------------
(***************************************************************************)
(* Theorems about DuplicateBookings, for any number of submissions, any    *)
(* window, clock skew and length of a transaction.                         *)
(***************************************************************************)
EXTENDS DuplicateBookings, TLAPS

USE DuplicateAssumption

\* A call between its check and its insert has the lock of its bundle.
HoldsLock ==
  \A r \in Requests : pc[r] \in {"checking", "inserting"} => lock[bundle[r]] = r

\* No transaction began in the future, and a running one is at most MaxTx old.
Young ==
  \A r \in Requests : /\ start[r] <= now
                      /\ pc[r] \in Running => now <= start[r] + MaxTx

\* What an accepted call has seen: the live rows of its own bundle, and of
\* every bundle if it has none and began after they were committed, are far.
Checked ==
  \A q, r \in Requests :
    /\ q # r /\ pc[q] = "booked" /\ pc[r] = "inserting"
    /\ bundle[q] = bundle[r] \/ (bundle[r] = NoBundle /\ end[q] < start[r])
    => start[r] - start[q] > Gap

IInv == /\ TypeOK /\ HoldsLock /\ Young /\ Checked
        /\ TwinsAreApart /\ LaterSubmissionIsApart

LEMMA InitIInv == Init => IInv
BY DEF Init, IInv, TypeOK, HoldsLock, Young, Checked, TwinsAreApart,
       LaterSubmissionIsApart, Points, Running

LEMMA TypeStep == TypeOK /\ [Next]_vars => TypeOK'
<1> SUFFICES ASSUME TypeOK, [Next]_vars PROVE TypeOK'
  OBVIOUS
<1> USE DEF TypeOK, Points
<1>1. ASSUME NEW r \in Requests, NEW k \in Bundles, Begin(r, k) PROVE TypeOK'
  BY <1>1 DEF Begin
<1>2. ASSUME NEW r \in Requests, Lock(r) PROVE TypeOK'
  BY <1>2 DEF Lock
<1>3. ASSUME NEW r \in Requests, Refuse(r) \/ Abort(r) PROVE TypeOK'
  BY <1>3 DEF Refuse, Abort, Unlock
<1>4. ASSUME NEW r \in Requests, Accept(r) \/ MoveOn(r) PROVE TypeOK'
  BY <1>4 DEF Accept, MoveOn
<1>5. ASSUME NEW r \in Requests, Insert(r) PROVE TypeOK'
  BY <1>5 DEF Insert, Unlock
<1>6. CASE Tick
  BY <1>6 DEF Tick
<1>7. CASE UNCHANGED vars
  BY <1>7 DEF vars
<1> QED BY <1>1, <1>2, <1>3, <1>4, <1>5, <1>6, <1>7 DEF Next

LEMMA LockStep == TypeOK /\ HoldsLock /\ [Next]_vars => HoldsLock'
<1> SUFFICES ASSUME TypeOK, HoldsLock, [Next]_vars PROVE HoldsLock'
  OBVIOUS
<1> USE DEF TypeOK, HoldsLock, Points
<1>1. ASSUME NEW r \in Requests, NEW k \in Bundles, Begin(r, k) PROVE HoldsLock'
  BY <1>1 DEF Begin
<1>2. ASSUME NEW r \in Requests, Lock(r) PROVE HoldsLock'
  BY <1>2 DEF Lock
<1>3. ASSUME NEW r \in Requests, Refuse(r) \/ Abort(r) \/ Insert(r) PROVE HoldsLock'
  BY <1>3 DEF Refuse, Abort, Insert, Unlock
<1>4. ASSUME NEW r \in Requests, Accept(r) \/ MoveOn(r) PROVE HoldsLock'
  BY <1>4 DEF Accept, MoveOn
<1>5. CASE Tick
  BY <1>5 DEF Tick
<1>6. CASE UNCHANGED vars
  BY <1>6 DEF vars
<1> QED BY <1>1, <1>2, <1>3, <1>4, <1>5, <1>6 DEF Next

LEMMA YoungStep == TypeOK /\ Young /\ [Next]_vars => Young'
<1> SUFFICES ASSUME TypeOK, Young, [Next]_vars PROVE Young'
  OBVIOUS
<1> USE DEF TypeOK, Young, Points, Running
<1>1. ASSUME NEW r \in Requests, NEW k \in Bundles, Begin(r, k) PROVE Young'
  BY <1>1 DEF Begin
<1>2. ASSUME NEW r \in Requests,
             Lock(r) \/ Refuse(r) \/ Abort(r) \/ Insert(r) \/ Accept(r) \/ MoveOn(r)
      PROVE  Young'
  BY <1>2 DEF Lock, Refuse, Abort, Insert, Accept, MoveOn
<1>3. CASE Tick
  BY <1>3 DEF Tick
<1>4. CASE UNCHANGED vars
  BY <1>4 DEF vars
<1> QED BY <1>1, <1>2, <1>3, <1>4 DEF Next

\* Accepting a call establishes Checked for it: the cutoff it looked back to
\* is at most MaxTx later than its own beginning.
LEMMA AcceptChecks ==
  ASSUME IInv, NEW r \in Requests, Accept(r)
  PROVE  Checked'
<1> SUFFICES ASSUME NEW q \in Requests, NEW s \in Requests,
                    q # s, pc'[q] = "booked", pc'[s] = "inserting",
                    \/ bundle[q] = bundle[s]
                    \/ bundle[s] = NoBundle /\ end[q] < start[s]
             PROVE  start[s] - start[q] > Gap
  BY DEF Accept, Checked
<1>1. pc[q] = "booked"
  BY DEF Accept, IInv, TypeOK
<1>2. CASE s = r
  <2>1. q \notin Twins(r)
    BY DEF Accept
  <2>2. start[q] < now + Skew - Window
    BY <2>1, <1>1, <1>2 DEF Twins, IInv, TypeOK
  <2>3. now <= start[r] + MaxTx
    BY DEF Accept, IInv, Young, Running
  <2> QED BY <2>2, <2>3, <1>2 DEF Gap, IInv, TypeOK
<1>3. CASE s # r
  <2>1. pc[s] = "inserting"
    BY <1>3 DEF Accept, IInv, TypeOK
  <2> QED BY <2>1, <1>1 DEF IInv, Checked
<1> QED BY <1>2, <1>3

\* Inserting keeps Checked: nobody else of the bundle is that far, and a call
\* that commits now did not commit before another running call began.
LEMMA InsertChecks ==
  ASSUME IInv, NEW r \in Requests, Insert(r)
  PROVE  Checked'
<1> SUFFICES ASSUME NEW q \in Requests, NEW s \in Requests,
                    q # s, pc'[q] = "booked", pc'[s] = "inserting",
                    \/ bundle[q] = bundle[s]
                    \/ bundle[s] = NoBundle /\ end'[q] < start[s]
             PROVE  start[s] - start[q] > Gap
  BY DEF Insert, Checked
<1>1. s # r /\ pc[s] = "inserting"
  BY DEF Insert, IInv, TypeOK
<1>2. CASE q = r
  <2>1. bundle[q] # bundle[s]
    BY <1>1, <1>2 DEF Insert, IInv, HoldsLock
  <2>2. end'[q] = now /\ start[s] <= now
    BY <1>1, <1>2 DEF Insert, IInv, TypeOK, Young, Running
  <2> QED BY <2>1, <2>2 DEF IInv, TypeOK
<1>3. CASE q # r
  <2>1. pc[q] = "booked" /\ end'[q] = end[q]
    BY <1>3 DEF Insert, IInv, TypeOK
  <2> QED BY <2>1, <1>1 DEF IInv, Checked
<1> QED BY <1>2, <1>3

LEMMA InsertApart ==
  ASSUME IInv, NEW r \in Requests, Insert(r)
  PROVE  TwinsAreApart' /\ LaterSubmissionIsApart'
<1>1. ASSUME NEW q \in Requests, q # r, pc'[q] = "booked"
      PROVE  pc[q] = "booked" /\ end'[q] = end[q]
  BY <1>1 DEF Insert, IInv, TypeOK
<1>2. pc[r] = "inserting" /\ end'[r] = now /\ UNCHANGED <<bundle, start>>
  BY DEF Insert, IInv, TypeOK
<1>3. ASSUME NEW q \in Requests, q # r, pc'[q] = "booked", bundle[q] = bundle[r]
      PROVE  start[r] - start[q] > Gap
  BY <1>1, <1>2, <1>3 DEF IInv, Checked
<1>4. TwinsAreApart'
  <2> SUFFICES ASSUME NEW q \in Requests, NEW s \in Requests, q # s,
                      pc'[q] = "booked", pc'[s] = "booked", bundle[q] = bundle[s]
               PROVE  start[s] - start[q] > Gap \/ start[q] - start[s] > Gap
    BY <1>2 DEF TwinsAreApart, Gap
  <2>1. CASE q = r \/ s = r
    BY <1>3, <2>1
  <2>2. CASE q # r /\ s # r
    BY <1>1, <2>2 DEF IInv, TwinsAreApart
  <2> QED BY <2>1, <2>2
<1>5. LaterSubmissionIsApart'
  <2> SUFFICES ASSUME NEW q \in Requests, NEW s \in Requests, q # s,
                      pc'[q] = "booked", pc'[s] = "booked",
                      bundle[s] = NoBundle \/ bundle[q] = bundle[s],
                      end'[q] < start[s]
               PROVE  start[s] - start[q] > Gap
    BY <1>2 DEF LaterSubmissionIsApart, Gap
  <2>1. CASE s = r
    BY <1>1, <1>2, <2>1 DEF IInv, Checked
  <2>2. CASE q = r
    <3>1. s # r /\ pc[s] = "booked"
      BY <1>1, <2>2
    <3>2. now < start[s]
      BY <1>2, <2>2
    <3>3. start[s] <= now
      BY DEF IInv, Young
    <3> QED BY <3>2, <3>3 DEF IInv, TypeOK
  <2>3. CASE q # r /\ s # r
    BY <1>1, <2>3 DEF IInv, LaterSubmissionIsApart
  <2> QED BY <2>1, <2>2, <2>3
<1> QED BY <1>4, <1>5

LEMMA StepIInv == IInv /\ [Next]_vars => IInv'
<1> SUFFICES ASSUME IInv, [Next]_vars PROVE IInv'
  OBVIOUS
<1>1. TypeOK' /\ HoldsLock' /\ Young'
  BY TypeStep, LockStep, YoungStep DEF IInv
<1>2. Checked' /\ TwinsAreApart' /\ LaterSubmissionIsApart'
  <2> USE DEF IInv, TypeOK, Checked, TwinsAreApart, LaterSubmissionIsApart, Gap
  <2>1. ASSUME NEW r \in Requests, NEW k \in Bundles, Begin(r, k)
        PROVE  Checked' /\ TwinsAreApart' /\ LaterSubmissionIsApart'
    BY <2>1 DEF Begin
  <2>2. ASSUME NEW r \in Requests, Lock(r) \/ Refuse(r) \/ Abort(r) \/ MoveOn(r)
        PROVE  Checked' /\ TwinsAreApart' /\ LaterSubmissionIsApart'
    BY <2>2 DEF Lock, Refuse, Abort, MoveOn
  <2>3. ASSUME NEW r \in Requests, Accept(r)
        PROVE  Checked' /\ TwinsAreApart' /\ LaterSubmissionIsApart'
    <3>1. TwinsAreApart' /\ LaterSubmissionIsApart'
      BY <2>3 DEF Accept
    <3> QED BY <2>3, <3>1, AcceptChecks
  <2>4. ASSUME NEW r \in Requests, Insert(r)
        PROVE  Checked' /\ TwinsAreApart' /\ LaterSubmissionIsApart'
    BY <2>4, InsertChecks, InsertApart
  <2>5. CASE Tick
    BY <2>5 DEF Tick
  <2>6. CASE UNCHANGED vars
    BY <2>6 DEF vars
  <2> QED BY <2>1, <2>2, <2>3, <2>4, <2>5, <2>6 DEF Next
<1> QED BY <1>1, <1>2 DEF IInv

THEOREM Inductive == Spec => []IInv
BY InitIInv, StepIInv, PTL DEF Spec

\* Every reachable state of the submissions and their locks is well typed.
THEOREM TypeCorrect == Spec => []TypeOK
BY Inductive, PTL DEF IInv

\* Live bookings of one bundle were created more than Window - MaxTx - Skew
\* apart, however many submissions race.
THEOREM TwinsApart == Spec => []TwinsAreApart
BY Inductive, PTL DEF IInv

\* So does a submission without a bundle key that began after the others had
\* been committed.
THEOREM LaterApart == Spec => []LaterSubmissionIsApart
BY Inductive, PTL DEF IInv
=============================================================================
