--------------------------- MODULE AdminAccounts ---------------------------
(***************************************************************************)
(* The admin_users table: administrators sign up, sign in and manage the   *)
(* accounts of the staff.                                                  *)
(*                                                                         *)
(* A request authenticates, reads and commits in separate statements of a  *)
(* READ COMMITTED transaction without row locks, and each statement sees   *)
(* what others committed before it.  Hashing a password takes a good part  *)
(* of a second between the checks of a signup and its INSERT.  SQLAlchemy  *)
(* updates only the columns that differ from the copy it loaded.  Names    *)
(* and passwords are left out, so signing in with the right password is a  *)
(* free choice of the account.                                             *)
(***************************************************************************)
EXTENDS Integers, FiniteSets

CONSTANTS Accounts,   \* account ids; an id is never used twice
          Emails,     \* normalised e-mail addresses
          Requests,   \* requests that may be in flight at once
          Nobody      \* no account: an anonymous caller, no target

ASSUME AdminAssumption ==
  /\ Nobody \notin Accounts
  /\ IsFiniteSet(Accounts)
  /\ IsFiniteSet(Requests)
  /\ Emails # {}

Roles    == {"STAFF", "SUPER_ADMIN"}
StaffOps == {"update_staff", "deactivate_staff", "activate_staff"}

\* A row of the table; role "ABSENT" when there is none.
Account == [role : Roles \cup {"ABSENT"}, email : Emails, active : BOOLEAN]

Absent == [role |-> "ABSENT", email |-> CHOOSE e \in Emails : TRUE,
           active |-> FALSE]

\* A request: its handler and how far it is, who makes it, the e-mail address
\* and (once decided) the role of a signup, the account a staff handler loaded
\* and its copy.
Request == [op : StaffOps \cup {"none", "admin_signup"},
            pc : {"begun", "email_free", "insert", "loaded"},
            actor : Accounts \cup {Nobody}, email : Emails, role : Roles,
            target : Accounts \cup {Nobody}, copy : Account]

Idle == [op |-> "none", pc |-> "begun", actor |-> Nobody, email |-> Absent.email,
         role |-> "STAFF", target |-> Nobody, copy |-> Absent]

VARIABLES
  acc,     \* acc[a]: the committed row of account a
  token,   \* the accounts somebody holds an unexpired access token of
  req,     \* req[r]: the state of request r
  maker    \* maker[a]: who was acting when a was inserted (history)

vars == <<acc, token, req, maker>>

Exists(a) == acc[a].role \in Roles

Admins == {a \in Accounts : Exists(a)}

\* Request r is in handler o and has done the steps up to pc.
At(r, o, pc) == req[r].op = o /\ req[r].pc = pc

Init ==
  /\ acc   = [a \in Accounts |-> Absent]
  /\ token = {}
  /\ req   = [r \in Requests |-> Idle]
  /\ maker = [a \in Accounts |-> Nobody]

-----------------------------------------------------------------------------
(* Signing in.                                                             *)

\* admin_token: an inactive account is refused, whatever the password.
AdminToken(a) ==
  /\ Exists(a)
  /\ acc[a].active
  /\ token' = token \cup {a}
  /\ UNCHANGED <<acc, req, maker>>

\* A token only ends by its expiry; the server keeps no list of tokens.
TokenExpires(a) ==
  /\ a \in token
  /\ token' = token \ {a}
  /\ UNCHANGED <<acc, req, maker>>

\* The role of the token only has to be an administrator's; what counts is the
\* row, which must exist and be active.
MayAct(a) == a \in token /\ Exists(a) /\ acc[a].active

-----------------------------------------------------------------------------
(* admin_signup.                                                           *)

Move(r, state) ==
  /\ req' = [req EXCEPT ![r] = state]
  /\ UNCHANGED <<token, maker>>

\* The caller sends no credentials or those of an account that may act.
SignupAuth(r, a, e) ==
  /\ req[r] = Idle
  /\ a = Nobody \/ MayAct(a)
  /\ Move(r, [Idle EXCEPT !.op = "admin_signup", !.actor = a, !.email = e])
  /\ UNCHANGED acc

SignupEmail(r) ==
  /\ At(r, "admin_signup", "begun")
  /\ \A a \in Admins : acc[a].email # req[r].email
  /\ Move(r, [req[r] EXCEPT !.pc = "email_free"])
  /\ UNCHANGED acc

\* Mutant: the table counts as empty while it has no account of this address.
SignupRoleByEmail(r, role) ==
  /\ At(r, "admin_signup", "email_free")
  /\ IF \E a \in Admins : acc[a].email = req[r].email
       THEN req[r].actor # Nobody /\ acc[req[r].actor].role = "SUPER_ADMIN"
       ELSE role = "SUPER_ADMIN"
  /\ Move(r, [req[r] EXCEPT !.pc = "insert", !.role = role])
  /\ UNCHANGED acc

\* With an administrator in the table only a super admin may create another,
\* of either role; the first one is a super admin made by anybody.  The role of
\* the caller is the one loaded with its account: no handler changes a role.
SignupRole(r, role) ==
  /\ At(r, "admin_signup", "email_free")
  /\ IF Admins # {}
       THEN req[r].actor # Nobody /\ acc[req[r].actor].role = "SUPER_ADMIN"
       ELSE role = "SUPER_ADMIN"
  /\ Move(r, [req[r] EXCEPT !.pc = "insert", !.role = role])
  /\ UNCHANGED acc

\* Mutant: the column has no constraint, the check before has to do.
EmailUnconstrained(a, e) == TRUE

\* The unique constraint on the e-mail column: it refuses an INSERT or UPDATE
\* (IntegrityError, rollback) that the check before could not foresee.
EmailUnique(a, e) == \A x \in Admins \ {a} : acc[x].email # e

\* The password is hashed, then the row inserted.
CreateAdmin(r, a) ==
  /\ At(r, "admin_signup", "insert")
  /\ ~Exists(a)
  /\ EmailUnique(a, req[r].email)
  /\ acc'   = [acc EXCEPT ![a] = [role |-> req[r].role, email |-> req[r].email,
                                  active |-> TRUE]]
  /\ maker' = [maker EXCEPT ![a] = req[r].actor]
  /\ req'   = [req EXCEPT ![r] = Idle]
  /\ UNCHANGED token

-----------------------------------------------------------------------------
(* The staff handlers, for super admins.                                   *)

StaffAuth(r, a, o) ==
  /\ req[r] = Idle
  /\ MayAct(a)
  /\ acc[a].role = "SUPER_ADMIN"
  /\ Move(r, [Idle EXCEPT !.op = o, !.actor = a])
  /\ UNCHANGED acc

\* get_staff finds accounts of role STAFF only.
GetStaff(r, s, o) ==
  /\ o \in StaffOps
  /\ At(r, o, "begun")
  /\ acc[s].role = "STAFF"
  /\ Move(r, [req[r] EXCEPT !.pc = "loaded", !.target = s,
                            !.copy = acc[s]])
  /\ UNCHANGED acc

\* Mutant: the whole copy is written, the unchanged columns with it.
FlushAll(r, new) ==
  LET s == req[r].target
  IN  /\ EmailUnique(s, new.email)
      /\ acc' = [acc EXCEPT ![s] = new]
      /\ Move(r, Idle)

\* The commit of a staff handler that left its copy as new: only the columns
\* that it changed are written.
Flush(r, new) ==
  LET s == req[r].target
      changed(field) == IF new[field] # req[r].copy[field]
                        THEN new[field] ELSE acc[s][field]
  IN  /\ EmailUnique(s, changed("email"))
      /\ acc' = [acc EXCEPT ![s].email  = changed("email"),
                            ![s].active = changed("active")]
      /\ Move(r, Idle)

\* update_staff: a field that is not sent keeps the value of the copy, and
\* "role" is skipped.
UpdateStaff(r, email, active) ==
  /\ At(r, "update_staff", "loaded")
  /\ Flush(r, [req[r].copy EXCEPT !.email = email, !.active = active])

\* Mutant: the flag is set on the copy and never committed.
DeactivateUncommitted(r) ==
  /\ At(r, "deactivate_staff", "loaded")
  /\ Move(r, Idle)
  /\ UNCHANGED acc

\* The account of the caller is refused (it is no staff account anyway).
DeactivateStaff(r) ==
  /\ At(r, "deactivate_staff", "loaded")
  /\ req[r].target # req[r].actor
  /\ Flush(r, [req[r].copy EXCEPT !.active = FALSE])

ActivateStaff(r) ==
  /\ At(r, "activate_staff", "loaded")
  /\ Flush(r, [req[r].copy EXCEPT !.active = TRUE])

\* A refusal (400, 403, 404, 409), a rollback or a crash.
Abort(r) ==
  /\ req[r] # Idle
  /\ Move(r, Idle)
  /\ UNCHANGED acc

Signup(r) ==
  \/ \E a \in Accounts \cup {Nobody}, e \in Emails : SignupAuth(r, a, e)
  \/ SignupEmail(r)
  \/ \E role \in Roles : SignupRole(r, role)
  \/ \E a \in Accounts : CreateAdmin(r, a)

ManageStaff(r) ==
  \/ \E a \in Accounts, o \in StaffOps : StaffAuth(r, a, o)
  \/ \E s \in Accounts, o \in StaffOps : GetStaff(r, s, o)
  \/ \E e \in Emails, active \in BOOLEAN : UpdateStaff(r, e, active)
  \/ DeactivateStaff(r)
  \/ ActivateStaff(r)

Next ==
  \/ \E a \in Accounts : AdminToken(a) \/ TokenExpires(a)
  \/ \E r \in Requests : Signup(r) \/ ManageStaff(r) \/ Abort(r)

Spec == Init /\ [][Next]_vars

-----------------------------------------------------------------------------
(* Properties.                                                             *)

\* The tables and the requests keep their types.
TypeOK ==
  /\ acc   \in [Accounts -> Account]
  /\ token \subseteq Accounts
  /\ req   \in [Requests -> Request]
  /\ maker \in [Accounts -> Accounts \cup {Nobody}]

\* The system cannot lock its owners out: from the first account on there is
\* always an active super admin, whatever signups and staff handlers race.
SuperAdminPresent ==
  Admins # {} =>
    \E a \in Admins : acc[a].role = "SUPER_ADMIN" /\ acc[a].active

\* The accounts nobody was acting for, and the signups that will insert one.
Unauthorised == {a \in Admins : maker[a] = Nobody}
Bootstraps   == {r \in Requests : /\ At(r, "admin_signup", "insert")
                                  /\ req[r].actor = Nobody}

\* "Only super admins can create admin accounts" (auth_routes.py, line 315), and
\* the first one is free.  Signups that race on the empty table all count as
\* first, but no more of them than can be in flight at once: afterwards the
\* door is shut.
BootstrapsBounded ==
  Cardinality(Unauthorised) + Cardinality(Bootstraps) <= Cardinality(Requests)

\* Two signups, or a signup and a change of a staff account's address, that both
\* found an address free never both take it: an address signs in one account.
EmailsDistinct ==
  \A a, b \in Admins : acc[a].email = acc[b].email => a = b

\* A request that loaded an account while it was active never reactivates it: a
\* change of address does not undo a deactivation that was committed meanwhile.
NoAccidentalReactivation ==
  [][\A a \in Admins : ~acc[a].active /\ acc'[a].active =>
       \E r \in Requests : /\ req[r].target = a
                           /\ req'[r] = Idle
                           /\ ~req[r].copy.active]_vars

\* A deactivation that ends leaves its account inactive (or refused), except when
\* it had loaded an account that was inactive and has been activated since:
\* then nothing differs from the copy and nothing is written.
DeactivationTakesUnlessStale ==
  [][\A r \in Requests : DeactivateStaff(r) =>
       \/ ~acc'[req[r].target].active
       \/ ~req[r].copy.active /\ acc[req[r].target].active]_vars
=============================================================================
