------------------------- MODULE AdminAccountsProofs -------------------------
(***************************************************************************)
(* Theorems about AdminAccounts, for any accounts, addresses and number of *)
(* requests in flight.  Most steps move one request and leave the table    *)
(* alone; three kinds matter: a signup that decides, an INSERT, and the    *)
(* flush of a staff handler.                                               *)
(***************************************************************************)
EXTENDS AdminAccounts, FiniteSetTheorems, TLAPS

\* What a request knows still holds when it commits: accounts are never
\* removed and their roles never change.
RequestSound(r) ==
  /\ req[r].actor # Nobody => Exists(req[r].actor)
  /\ r \in Bootstraps => req[r].role = "SUPER_ADMIN"
  /\ req[r].pc = "loaded" => /\ req[r].target \in Accounts
                             /\ acc[req[r].target].role = "STAFF"

\* The inductive invariant.
IInv ==
  /\ TypeOK
  /\ \A r \in Requests : RequestSound(r)
  /\ SuperAdminPresent
  /\ EmailsDistinct
  /\ BootstrapsBounded

USE AdminAssumption

LEMMA ValueTypes ==
  /\ Absent \in Account
  /\ Idle \in Request
BY DEF Absent, Account, Idle, Request, Roles

LEMMA CountRequests ==
  ASSUME NEW S \in SUBSET Requests
  PROVE  /\ IsFiniteSet(S) /\ Cardinality(S) \in Nat
         /\ Cardinality(S) <= Cardinality(Requests)
BY FS_Subset, FS_CardinalityType

LEMMA Counts ==
  /\ IsFiniteSet(Unauthorised) /\ Cardinality(Unauthorised) \in Nat
  /\ IsFiniteSet(Bootstraps) /\ Cardinality(Bootstraps) \in Nat
  /\ Cardinality(Bootstraps) <= Cardinality(Requests)
  /\ Cardinality(Requests) \in Nat
  /\ Cardinality(Bootstraps') \in Nat
  /\ Cardinality(Bootstraps') <= Cardinality(Requests)
<1>1. Unauthorised \subseteq Accounts /\ Bootstraps \subseteq Requests
  BY DEF Unauthorised, Admins, Bootstraps
<1>2. Bootstraps' \subseteq Requests
  BY DEF Bootstraps
<1> QED BY <1>1, <1>2, CountRequests, FS_Subset, FS_CardinalityType

LEMMA InitIInv == Init => IInv
<1> SUFFICES ASSUME Init PROVE IInv
  OBVIOUS
<1>1. TypeOK
  BY ValueTypes DEF Init, TypeOK
<1>2. Admins = {} /\ Bootstraps = {}
  BY DEF Init, Admins, Exists, Absent, Roles, Bootstraps, At, Idle
<1>3. \A r \in Requests : RequestSound(r)
  BY <1>2 DEF Init, RequestSound, Idle
<1>4. BootstrapsBounded
  <2>1. Unauthorised = {}
    BY <1>2 DEF Unauthorised
  <2> QED BY <1>1, <2>1, Counts, FS_EmptySet DEF BootstrapsBounded
<1> QED BY <1>1, <1>2, <1>3, <1>4 DEF IInv, SuperAdminPresent, EmailsDistinct

-----------------------------------------------------------------------------
(* Steps that move one request and write no account.                       *)

\* Request r goes on to a sound state that makes it no bootstrap.
Moves(r, state) ==
  /\ Move(r, state)
  /\ UNCHANGED acc
  /\ state \in Request
  /\ state.actor # Nobody => Exists(state.actor)
  /\ state.pc = "loaded" => /\ state.target \in Accounts
                            /\ acc[state.target].role = "STAFF"
  /\ ~(state.op = "admin_signup" /\ state.pc = "insert" /\ state.actor = Nobody)

LEMMA MoveKeeps ==
  ASSUME IInv, NEW r \in Requests, NEW state, Moves(r, state)
  PROVE  IInv'
<1> USE DEF IInv, Moves, Move
<1>1. TypeOK'
  BY DEF TypeOK
<1>2. \A q \in Requests : req'[q] = IF q = r THEN state ELSE req[q]
  BY DEF TypeOK
<1>3. Bootstraps' = Bootstraps \ {r}
  BY <1>2 DEF Bootstraps, At
<1>4. \A q \in Requests : RequestSound(q)'
  BY <1>2, <1>3 DEF RequestSound, Exists
<1>5. BootstrapsBounded'
  <2>1. Unauthorised' = Unauthorised
    BY DEF Unauthorised, Admins, Exists
  <2>2. Cardinality(Bootstraps') <= Cardinality(Bootstraps)
    BY <1>3, Counts, FS_Subset
  <2>3. Cardinality(Bootstraps') \in Nat
    BY Counts
  <2> QED BY <2>1, <2>2, <2>3, Counts DEF BootstrapsBounded
<1>6. SuperAdminPresent' /\ EmailsDistinct'
  BY DEF SuperAdminPresent, EmailsDistinct, Admins, Exists
<1> QED BY <1>1, <1>4, <1>5, <1>6

-----------------------------------------------------------------------------
(* The signup.                                                             *)

LEMMA RoleKeeps ==
  ASSUME IInv, NEW r \in Requests, NEW role \in Roles, SignupRole(r, role)
  PROVE  IInv'
<1> DEFINE state == [req[r] EXCEPT !.pc = "insert", !.role = role]
<1> USE DEF IInv
<1>1. Move(r, state) /\ UNCHANGED acc
  BY DEF SignupRole
<1>2. /\ state \in Request
      /\ state.op = "admin_signup" /\ state.pc = "insert"
      /\ state.role = role /\ state.actor = req[r].actor
  BY DEF TypeOK, Request, SignupRole, At
<1> HIDE DEF state
<1>3. RequestSound(r)
  OBVIOUS
<1>4. CASE req[r].actor # Nobody
  BY <1>1, <1>2, <1>3, <1>4, MoveKeeps DEF Moves, RequestSound
<1>5. CASE req[r].actor = Nobody
  <2>1. Admins = {} /\ role = "SUPER_ADMIN"
    BY <1>5 DEF SignupRole
  <2>2. TypeOK'
    BY <1>1, <1>2 DEF TypeOK, Move
  <2>3. \A q \in Requests : req'[q] = IF q = r THEN state ELSE req[q]
    BY <1>1 DEF TypeOK, Move
  <2>4. \A q \in Requests : RequestSound(q)'
    <3> SUFFICES ASSUME NEW q \in Requests PROVE RequestSound(q)'
      OBVIOUS
    <3>1. CASE q = r
      BY <1>1, <1>2, <1>5, <2>1, <2>3, <3>1 DEF RequestSound, Bootstraps, At
    <3>2. CASE q # r
      BY <1>1, <2>3, <3>2 DEF RequestSound, Bootstraps, At, Exists
    <3> QED BY <3>1, <3>2
  <2>5. BootstrapsBounded'
    <3>1. Unauthorised' = {}
      BY <1>1, <2>1 DEF Unauthorised, Admins, Exists, Move
    <3>2. Cardinality(Bootstraps') <= Cardinality(Requests) /\ Cardinality(Bootstraps') \in Nat
      BY Counts
    <3> QED BY <3>1, <3>2, Counts, FS_EmptySet DEF BootstrapsBounded
  <2>6. SuperAdminPresent' /\ EmailsDistinct'
    BY <1>1 DEF SuperAdminPresent, EmailsDistinct, Admins, Exists
  <2> QED BY <2>2, <2>4, <2>5, <2>6
<1> QED BY <1>4, <1>5

LEMMA CreateKeeps ==
  ASSUME IInv, NEW r \in Requests, NEW a \in Accounts, CreateAdmin(r, a)
  PROVE  IInv'
<1> USE DEF IInv
<1> DEFINE new == [role |-> req[r].role, email |-> req[r].email, active |-> TRUE]
<1>1. new \in Account /\ req[r].role \in Roles /\ req[r].actor \in Accounts \cup {Nobody}
  BY DEF TypeOK, Request, Account
<1>2. /\ \A x \in Accounts : acc'[x] = IF x = a THEN new ELSE acc[x]
      /\ \A x \in Accounts : maker'[x] = IF x = a THEN req[r].actor ELSE maker[x]
      /\ \A q \in Requests : req'[q] = IF q = r THEN Idle ELSE req[q]
  BY DEF CreateAdmin, TypeOK
<1>3. TypeOK'
  BY <1>1, ValueTypes DEF CreateAdmin, TypeOK
<1>4. Admins' = Admins \cup {a} /\ a \notin Admins
  BY <1>1, <1>2 DEF Admins, Exists, CreateAdmin
<1>5. Bootstraps' = Bootstraps \ {r}
  BY <1>2 DEF Bootstraps, At, Idle
<1>6. \A q \in Requests : RequestSound(q)'
  <2> SUFFICES ASSUME NEW q \in Requests PROVE RequestSound(q)'
    OBVIOUS
  <2>1. CASE q = r
    BY <1>2, <1>5, <2>1 DEF RequestSound, Idle
  <2>2. CASE q # r
    <3>1. req'[q] = req[q] /\ RequestSound(q) /\ req[q].actor \in Accounts \cup {Nobody}
      BY <1>2, <2>2 DEF TypeOK, Request
    <3>2. \A x \in Accounts : Exists(x) => acc'[x] = acc[x]
      BY <1>2 DEF CreateAdmin
    <3> QED BY <1>5, <3>1, <3>2 DEF RequestSound, Exists, Roles
  <2> QED BY <2>1, <2>2
<1>7. SuperAdminPresent'
  <2>1. CASE Admins = {}
    <3>1. r \in Bootstraps
      BY <1>1, <2>1 DEF RequestSound, Bootstraps, CreateAdmin, Admins
    <3> QED BY <1>2, <1>4, <3>1 DEF RequestSound, SuperAdminPresent
  <2>2. CASE Admins # {}
    BY <1>2, <1>4, <2>2 DEF SuperAdminPresent, Admins
  <2> QED BY <2>1, <2>2
<1>8. EmailsDistinct'
  <2>1. \A x \in Admins : acc[x].email # req[r].email
    BY <1>4 DEF CreateAdmin, EmailUnique
  <2>2. \A x \in Admins : acc'[x] = acc[x]
    BY <1>2, <1>4 DEF Admins
  <2>3. acc'[a].email = req[r].email
    BY <1>2
  <2> QED BY <1>4, <2>1, <2>2, <2>3 DEF EmailsDistinct
<1>9. BootstrapsBounded'
  <2>1. Cardinality(Bootstraps') \in Nat
    BY Counts
  <2>2. CASE req[r].actor = Nobody
    <3>1. r \in Bootstraps
      BY <2>2 DEF Bootstraps, CreateAdmin
    <3>2. Unauthorised' = Unauthorised \cup {a} /\ a \notin Unauthorised
      BY <1>2, <1>4, <2>2 DEF Unauthorised, Admins
    <3>3. Cardinality(Unauthorised') = Cardinality(Unauthorised) + 1
      BY <3>2, Counts, FS_AddElement
    <3>4. Cardinality(Bootstraps') = Cardinality(Bootstraps) - 1
      BY <1>5, <3>1, Counts, FS_RemoveElement
    <3> QED BY <3>3, <3>4, Counts DEF BootstrapsBounded
  <2>3. CASE req[r].actor # Nobody
    <3>1. Unauthorised' = Unauthorised
      BY <1>2, <1>4, <2>3 DEF Unauthorised, Admins
    <3>2. Cardinality(Bootstraps') <= Cardinality(Bootstraps)
      BY <1>5, Counts, FS_Subset
    <3> QED BY <2>1, <3>1, <3>2, Counts DEF BootstrapsBounded
  <2> QED BY <2>2, <2>3
<1> QED BY <1>3, <1>6, <1>7, <1>8, <1>9

-----------------------------------------------------------------------------
(* The staff handlers.                                                     *)

LEMMA FlushKeeps ==
  ASSUME IInv, NEW r \in Requests, NEW new \in Account,
         req[r].pc = "loaded", Flush(r, new)
  PROVE  /\ IInv'
         /\ \A a \in Admins : ~acc[a].active /\ acc'[a].active =>
              /\ req[r].target = a
              /\ req'[r] = Idle
              /\ ~req[r].copy.active
<1> DEFINE s == req[r].target
           e == IF new.email # req[r].copy.email THEN new.email ELSE acc[s].email
           v == IF new.active # req[r].copy.active THEN new.active ELSE acc[s].active
<1> USE DEF IInv
<1>1. s \in Accounts /\ acc[s].role = "STAFF"
  BY DEF RequestSound
<1>2. /\ EmailUnique(s, e)
      /\ acc' = [acc EXCEPT ![s].email = e, ![s].active = v]
      /\ Move(r, Idle)
  BY DEF Flush
<1>3. e \in Emails /\ v \in BOOLEAN
  BY <1>1 DEF TypeOK, Account, Request
<1>4. v /\ ~acc[s].active => ~req[r].copy.active
  BY <1>1 DEF TypeOK, Account, Request
<1> HIDE DEF s, e, v
<1>5. \A x \in Accounts : acc'[x] = IF x = s THEN [acc[s] EXCEPT !.email = e, !.active = v]
                                             ELSE acc[x]
  BY <1>1, <1>2 DEF TypeOK
<1>6. [acc[s] EXCEPT !.email = e, !.active = v] \in Account
  BY <1>1, <1>3 DEF TypeOK, Account
<1>7. /\ \A x \in Accounts : /\ acc'[x].role = acc[x].role
                             /\ x # s => acc'[x] = acc[x]
      /\ acc'[s].email = e /\ acc'[s].active = v
  BY <1>1, <1>5 DEF TypeOK, Account
<1>8. TypeOK'
  <2>1. acc' = [x \in Accounts |-> acc'[x]]
    BY <1>2 DEF TypeOK
  <2>2. \A x \in Accounts : acc'[x] \in Account
    BY <1>5, <1>6 DEF TypeOK
  <2>3. acc' \in [Accounts -> Account]
    BY <2>1, <2>2
  <2> QED BY <1>2, <2>3, ValueTypes DEF TypeOK, Move
<1>9. Admins' = Admins
  BY <1>7 DEF Admins, Exists
<1>10. \A q \in Requests : req'[q] = IF q = r THEN Idle ELSE req[q]
  BY <1>2 DEF Move, TypeOK
<1>11. Bootstraps' = Bootstraps \ {r}
  BY <1>10 DEF Bootstraps, At, Idle
<1>12. \A q \in Requests : RequestSound(q)'
  <2> SUFFICES ASSUME NEW q \in Requests PROVE RequestSound(q)'
    OBVIOUS
  <2>1. CASE q = r
    BY <1>10, <1>11, <2>1 DEF RequestSound, Idle
  <2>2. CASE q # r
    <3>1. req'[q] = req[q] /\ RequestSound(q) /\ req[q].actor \in Accounts \cup {Nobody}
      BY <1>10, <2>2 DEF TypeOK, Request
    <3> QED BY <1>7, <1>11, <3>1 DEF RequestSound, Exists
  <2> QED BY <2>1, <2>2
<1>13. SuperAdminPresent'
  BY <1>1, <1>7, <1>9 DEF SuperAdminPresent, Admins
<1>14. EmailsDistinct'
  <2>1. \A x \in Admins \ {s} : acc'[x].email = acc[x].email /\ acc[x].email # e
    BY <1>2, <1>7 DEF EmailUnique, Admins
  <2> QED BY <1>7, <1>9, <2>1 DEF EmailsDistinct
<1>15. BootstrapsBounded'
  <2>1. Unauthorised' = Unauthorised
    BY <1>2, <1>9 DEF Unauthorised, Move
  <2>2. Cardinality(Bootstraps') <= Cardinality(Bootstraps)
    BY <1>11, Counts, FS_Subset
  <2>3. Cardinality(Bootstraps') \in Nat
    BY Counts
  <2> QED BY <2>1, <2>2, <2>3, Counts DEF BootstrapsBounded
<1>16. ASSUME NEW a \in Admins, ~acc[a].active, acc'[a].active
       PROVE  req[r].target = a /\ req'[r] = Idle /\ ~req[r].copy.active
  <2>1. a = s
    BY <1>7, <1>16 DEF Admins
  <2> QED BY <1>4, <1>7, <1>10, <1>16, <2>1 DEF s
<1> QED BY <1>8, <1>12, <1>13, <1>14, <1>15, <1>16

-----------------------------------------------------------------------------
(* The theorems.                                                           *)

\* The body of NoAccidentalReactivation.
Reactivated(a) ==
  ~acc[a].active /\ acc'[a].active =>
    \E r \in Requests : /\ req[r].target = a
                        /\ req'[r] = Idle
                        /\ ~req[r].copy.active

LEMMA MoveStep ==
  ASSUME IInv, NEW r \in Requests, NEW state, Moves(r, state)
  PROVE  IInv' /\ \A a \in Admins : Reactivated(a)
BY MoveKeeps DEF Moves, Reactivated

LEMMA FlushStep ==
  ASSUME IInv, NEW r \in Requests, NEW new \in Account,
         req[r].pc = "loaded", Flush(r, new)
  PROVE  IInv' /\ \A a \in Admins : Reactivated(a)
BY FlushKeeps DEF Reactivated

LEMMA SignupStep ==
  ASSUME IInv, NEW r \in Requests, Signup(r)
  PROVE  IInv' /\ \A a \in Admins : Reactivated(a)
<1>1. CASE \E a \in Accounts \cup {Nobody}, e \in Emails : SignupAuth(r, a, e)
  <2> PICK a \in Accounts \cup {Nobody}, e \in Emails : SignupAuth(r, a, e)
    BY <1>1
  <2> DEFINE state == [Idle EXCEPT !.op = "admin_signup", !.actor = a, !.email = e]
  <2>1. /\ state \in Request /\ state.pc = "begun" /\ state.actor = a
    BY ValueTypes DEF Request, Idle
  <2> HIDE DEF state
  <2>2. Moves(r, state)
    <3>1. Move(r, state) /\ UNCHANGED acc /\ (a # Nobody => Exists(a))
      BY DEF SignupAuth, MayAct, state
    <3> QED BY <2>1, <3>1 DEF Moves
  <2> QED BY <2>2, MoveStep
<1>2. CASE SignupEmail(r)
  <2> DEFINE state == [req[r] EXCEPT !.pc = "email_free"]
  <2>1. /\ state \in Request /\ state.pc = "email_free" /\ state.actor = req[r].actor
    BY DEF IInv, TypeOK, Request
  <2> HIDE DEF state
  <2>2. Moves(r, state)
    <3>1. Move(r, state) /\ UNCHANGED acc /\ RequestSound(r)
      BY <1>2 DEF SignupEmail, state, IInv
    <3> QED BY <2>1, <3>1 DEF Moves, RequestSound
  <2> QED BY <2>2, MoveStep
<1>3. CASE \E role \in Roles : SignupRole(r, role)
  <2>1. UNCHANGED acc
    BY <1>3 DEF SignupRole
  <2> QED BY <1>3, <2>1, RoleKeeps DEF Reactivated
<1>4. CASE \E a \in Accounts : CreateAdmin(r, a)
  <2> PICK a \in Accounts : CreateAdmin(r, a)
    BY <1>4
  <2>1. \A x \in Admins : acc'[x] = acc[x]
    BY DEF CreateAdmin, Admins, IInv, TypeOK
  <2> QED BY <2>1, CreateKeeps DEF Reactivated
<1> QED BY <1>1, <1>2, <1>3, <1>4 DEF Signup

LEMMA StaffStep ==
  ASSUME IInv, NEW r \in Requests, ManageStaff(r)
  PROVE  IInv' /\ \A a \in Admins : Reactivated(a)
<1>0. /\ req[r] \in Request
      /\ req[r].copy \in Account
      /\ RequestSound(r)
  BY DEF IInv, TypeOK, Request
<1>1. CASE \E a \in Accounts, o \in StaffOps : StaffAuth(r, a, o)
  <2> PICK a \in Accounts, o \in StaffOps : StaffAuth(r, a, o)
    BY <1>1
  <2> DEFINE state == [Idle EXCEPT !.op = o, !.actor = a]
  <2>1. /\ state \in Request /\ state.pc = "begun" /\ state.actor = a
    BY ValueTypes DEF Request, Idle
  <2> HIDE DEF state
  <2>2. Moves(r, state)
    <3>1. Move(r, state) /\ UNCHANGED acc /\ Exists(a)
      BY DEF StaffAuth, MayAct, state
    <3> QED BY <2>1, <3>1 DEF Moves
  <2> QED BY <2>2, MoveStep
<1>2. CASE \E s \in Accounts, o \in StaffOps : GetStaff(r, s, o)
  <2> PICK s \in Accounts, o \in StaffOps : GetStaff(r, s, o)
    BY <1>2
  <2> DEFINE state == [req[r] EXCEPT !.pc = "loaded", !.target = s, !.copy = acc[s]]
  <2>1. /\ state \in Request /\ state.pc = "loaded"
        /\ state.actor = req[r].actor /\ state.target = s
    BY <1>0 DEF IInv, TypeOK, Request
  <2> HIDE DEF state
  <2>2. Moves(r, state)
    <3>1. Move(r, state) /\ UNCHANGED acc /\ acc[s].role = "STAFF"
      BY DEF GetStaff, state
    <3> QED BY <1>0, <2>1, <3>1 DEF Moves, RequestSound
  <2> QED BY <2>2, MoveStep
<1>3. CASE \E e \in Emails, v \in BOOLEAN : UpdateStaff(r, e, v)
  <2> PICK e \in Emails, v \in BOOLEAN : UpdateStaff(r, e, v)
    BY <1>3
  <2>1. [req[r].copy EXCEPT !.email = e, !.active = v] \in Account
    BY <1>0 DEF Account
  <2> QED BY <2>1, FlushStep DEF UpdateStaff, At
<1>4. CASE DeactivateStaff(r)
  <2>1. [req[r].copy EXCEPT !.active = FALSE] \in Account
    BY <1>0 DEF Account
  <2> QED BY <1>4, <2>1, FlushStep DEF DeactivateStaff, At
<1>5. CASE ActivateStaff(r)
  <2>1. [req[r].copy EXCEPT !.active = TRUE] \in Account
    BY <1>0 DEF Account
  <2> QED BY <1>5, <2>1, FlushStep DEF ActivateStaff, At
<1> QED BY <1>1, <1>2, <1>3, <1>4, <1>5 DEF ManageStaff

LEMMA StepKeeps ==
  ASSUME IInv, [Next]_vars
  PROVE  IInv' /\ \A a \in Admins : Reactivated(a)
<1>1. CASE \E a \in Accounts : AdminToken(a) \/ TokenExpires(a)
  <2>1. UNCHANGED <<acc, req, maker>> /\ token' \subseteq Accounts
    BY <1>1 DEF AdminToken, TokenExpires, IInv, TypeOK
  <2>2. TypeOK'
    BY <2>1 DEF IInv, TypeOK
  <2> QED BY <2>1, <2>2 DEF IInv, RequestSound, Bootstraps, Unauthorised, At, Exists,
                Admins, SuperAdminPresent, EmailsDistinct, BootstrapsBounded, Reactivated
<1>2. CASE \E r \in Requests : Signup(r) \/ ManageStaff(r)
  BY <1>2, SignupStep, StaffStep
<1>3. CASE \E r \in Requests : Abort(r)
  <2> PICK r \in Requests : Abort(r)
    BY <1>3
  <2>1. Moves(r, Idle)
    BY ValueTypes DEF Abort, Moves, Idle
  <2> QED BY <2>1, MoveStep
<1>4. CASE UNCHANGED vars
  <2>1. UNCHANGED <<acc, token, req, maker>>
    BY <1>4 DEF vars
  <2> QED BY <2>1 DEF IInv, TypeOK, RequestSound, Bootstraps, Unauthorised, At, Exists,
                Admins, SuperAdminPresent, EmailsDistinct, BootstrapsBounded, Reactivated
<1> QED BY <1>1, <1>2, <1>3, <1>4 DEF Next

THEOREM Inductive == Spec => []IInv
<1>1. IInv /\ [Next]_vars => IInv'
  BY StepKeeps
<1> QED BY <1>1, InitIInv, PTL DEF Spec

\* Every reachable state of the accounts and the requests is well typed.
THEOREM TypeCorrect == Spec => []TypeOK
BY Inductive, PTL DEF IInv

\* From the first account on, there is an active super admin.
THEOREM NobodyIsLockedOut == Spec => []SuperAdminPresent
BY Inductive, PTL DEF IInv

\* Racing first signups create at most as many super admins as there are
\* requests in flight.
THEOREM FirstSignupsBounded == Spec => []BootstrapsBounded
BY Inductive, PTL DEF IInv

\* No two administrators share an address.
THEOREM AddressesDistinct == Spec => []EmailsDistinct
BY Inductive, PTL DEF IInv

\* Only a request that saw the account inactive makes it active.
THEOREM DeactivationSurvivesUpdates == Spec => NoAccidentalReactivation
<1>1. IInv /\ [Next]_vars =>
        [\A a \in Admins : ~acc[a].active /\ acc'[a].active =>
           \E r \in Requests : /\ req[r].target = a
                               /\ req'[r] = Idle
                               /\ ~req[r].copy.active]_vars
  BY StepKeeps DEF Reactivated
<1> QED BY <1>1, Inductive, PTL DEF Spec, NoAccidentalReactivation

\* A deactivation that ends writes FALSE, or finds its copy FALSE already: then the
\* row is as it was, inactive or activated meanwhile.
THEOREM DeactivationTakes == Spec => DeactivationTakesUnlessStale
<1>1. ASSUME IInv, NEW r \in Requests, DeactivateStaff(r)
      PROVE  \/ ~acc'[req[r].target].active
             \/ ~req[r].copy.active /\ acc[req[r].target].active
  <2> DEFINE s == req[r].target
             new == [req[r].copy EXCEPT !.active = FALSE]
             v == IF new.active # req[r].copy.active THEN new.active ELSE acc[s].active
             e == IF new.email # req[r].copy.email THEN new.email ELSE acc[s].email
  <2>1. s \in Accounts /\ acc[s] \in Account /\ req[r].copy \in Account
    BY <1>1 DEF IInv, RequestSound, DeactivateStaff, At, TypeOK, Request
  <2>2. acc' = [acc EXCEPT ![s].email = e, ![s].active = v]
    BY <1>1 DEF DeactivateStaff, Flush
  <2>3. new.active = FALSE
    BY <2>1 DEF Account
  <2> HIDE DEF new, e
  <2>4. acc'[s].active = v
    BY <1>1, <2>1, <2>2 DEF IInv, TypeOK, Account
  <2>5. CASE req[r].copy.active
    BY <2>1, <2>3, <2>4, <2>5 DEF Account
  <2>6. CASE ~req[r].copy.active
    BY <2>1, <2>3, <2>4, <2>6 DEF Account
  <2> QED BY <2>5, <2>6
<1>2. IInv =>
        [\A r \in Requests : DeactivateStaff(r) =>
           \/ ~acc'[req[r].target].active
           \/ ~req[r].copy.active /\ acc[req[r].target].active]_vars
  BY <1>1
<1> QED BY <1>2, Inductive, PTL DEF DeactivationTakesUnlessStale
=============================================================================
