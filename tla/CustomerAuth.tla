---------------------------- MODULE CustomerAuth ----------------------------
(***************************************************************************)
(* One customer account and its e-mailed tokens: signup, verification,     *)
(* password reset and password change.                                     *)
(*                                                                         *)
(* Each handler makes several commits, and other requests, or a crash, may *)
(* fall between them: signup commits the account and then its token and    *)
(* mails it last, verify_email and reset_password commit their effect and  *)
(* then mark the token as used.  None of them locks a row.                 *)
(***************************************************************************)
EXTENDS Naturals

CONSTANTS Requests,     \* concurrent requests
          VerifyTokens, \* ids of tokens of type VERIFY_EMAIL, and
          ResetTokens,  \* of type RESET_PASSWORD; a dead token's id serves again
          Passwords,    \* the passwords a customer may choose
          MaxApplied,   \* a bound on applied: what is more counts as MaxApplied
          None          \* no token

Tokens == VerifyTokens \cup ResetTokens

ASSUME AuthAssumption ==
  /\ VerifyTokens \cap ResetTokens = {}
  /\ None \notin Tokens
  /\ Passwords # {}
  /\ MaxApplied \in Nat /\ MaxApplied > 1

VARIABLES
  account,  \* the row of customer_users
  token,    \* token[t]: the row of auth_tokens, and whether it was mailed
  applied,  \* applied[t]: how often t's effect was committed (history)
  req       \* req[r]: what request r does

vars == <<account, token, applied, req>>

Account == [exists : BOOLEAN, verified : BOOLEAN, active : BOOLEAN,
            password : Passwords]

Token == [issued : BOOLEAN, used : BOOLEAN, expired : BOOLEAN, mailed : BOOLEAN]

\* pc: the commit, or the e-mail, that is next.  old: the password hash that
\* change_password compared with.
Request == [op : {"none", "signup", "resend", "forgot", "verify", "reset", "change"},
            pc : {"idle", "insert", "issue", "mail", "apply", "mark", "change"},
            token : Tokens \cup {None}, old : Passwords]

SomePassword == CHOOSE p \in Passwords : TRUE

NoToken == [issued |-> FALSE, used |-> FALSE, expired |-> FALSE, mailed |-> FALSE]
Idle == [op |-> "none", pc |-> "idle", token |-> None, old |-> SomePassword]

Init ==
  /\ account = [exists |-> FALSE, verified |-> FALSE, active |-> TRUE,
                password |-> SomePassword]
  /\ token = [t \in Tokens |-> NoToken]
  /\ applied = [t \in Tokens |-> 0]
  /\ req = [r \in Requests |-> Idle]

At(r, p) == req[r].pc = p

Begin(r, o, p) ==
  /\ At(r, "idle")
  /\ req' = [req EXCEPT ![r] = [Idle EXCEPT !.op = o, !.pc = p]]
  /\ UNCHANGED <<account, token, applied>>

End(r) == req' = [req EXCEPT ![r] = Idle]

-----------------------------------------------------------------------------
(* Signup, resend_verification and forgot_password: a token is issued.     *)

SignupRead(r) == ~account.exists /\ Begin(r, "signup", "insert")

\* Mutant: no unique constraint, the second signup replaces the account.
SignupReplaces(r, p) ==
  /\ At(r, "insert")
  /\ account' = [exists |-> TRUE, verified |-> FALSE, active |-> TRUE, password |-> p]
  /\ req' = [req EXCEPT ![r].pc = "issue"]
  /\ UNCHANGED <<token, applied>>

\* The unique e-mail address lets one of several signups through.
SignupInsert(r, p) ==
  /\ At(r, "insert")
  /\ IF account.exists
       THEN End(r) /\ UNCHANGED account
       ELSE /\ account' = [exists |-> TRUE, verified |-> FALSE, active |-> TRUE,
                           password |-> p]
            /\ req' = [req EXCEPT ![r].pc = "issue"]
  /\ UNCHANGED <<token, applied>>

\* Mutant: no second token while a first is on file.
ResendOnce(r) ==
  /\ account.exists /\ ~account.verified
  /\ \A t \in VerifyTokens : ~token[t].issued
  /\ Begin(r, "resend", "issue")

ResendRead(r) == account.exists /\ ~account.verified /\ Begin(r, "resend", "issue")

ForgotRead(r) == account.exists /\ Begin(r, "forgot", "issue")

\* A token nobody can use any more; its id may stand for a new one.
Spare(t) ==
  /\ ~token[t].issued \/ token[t].used \/ token[t].expired
  /\ \A r \in Requests : req[r].token # t

Issue(r, t) ==
  /\ At(r, "issue")
  /\ t \in IF req[r].op = "forgot" THEN ResetTokens ELSE VerifyTokens
  /\ Spare(t)
  /\ token' = [token EXCEPT ![t] = [NoToken EXCEPT !.issued = TRUE]]
  /\ applied' = [applied EXCEPT ![t] = 0]
  /\ req' = [req EXCEPT ![r].pc = "mail", ![r].token = t]
  /\ UNCHANGED account

\* The background task that runs after the response.
Mail(r) ==
  /\ At(r, "mail")
  /\ token' = [token EXCEPT ![req[r].token].mailed = TRUE]
  /\ End(r)
  /\ UNCHANGED <<account, applied>>

Expire(t) ==
  /\ token[t].issued /\ ~token[t].expired
  /\ token' = [token EXCEPT ![t].expired = TRUE]
  /\ UNCHANGED <<account, applied, req>>

-----------------------------------------------------------------------------
(* verify_email and reset_password: a token is used.                       *)

\* Mutant: the lookup does not filter on used.
PresentUsed(r, t) ==
  /\ At(r, "idle")
  /\ token[t].mailed /\ ~token[t].expired
  /\ req' = [req EXCEPT ![r] =
       [Idle EXCEPT !.op = IF t \in VerifyTokens THEN "verify" ELSE "reset",
                    !.pc = "apply", !.token = t]]
  /\ UNCHANGED <<account, token, applied>>

\* get_valid_auth_token, for a token the customer found in the mailbox and
\* sent to the endpoint it is meant for.
Present(r, t) ==
  /\ At(r, "idle")
  /\ token[t].mailed /\ ~token[t].used /\ ~token[t].expired
  /\ req' = [req EXCEPT ![r] =
       [Idle EXCEPT !.op = IF t \in VerifyTokens THEN "verify" ELSE "reset",
                    !.pc = "apply", !.token = t]]
  /\ UNCHANGED <<account, token, applied>>

\* Mutant: the token is marked first, its effect comes second.
ApplyLast(r, p) ==
  /\ At(r, "apply")
  /\ token' = [token EXCEPT ![req[r].token].used = TRUE]
  /\ req' = [req EXCEPT ![r].pc = "mark"]
  /\ UNCHANGED <<account, applied>>

Apply(r, p) ==
  /\ At(r, "apply")
  /\ account' = IF req[r].op = "verify" THEN [account EXCEPT !.verified = TRUE]
                                        ELSE [account EXCEPT !.password = p]
  /\ applied' = [applied EXCEPT ![req[r].token] =
                   IF @ < MaxApplied THEN @ + 1 ELSE @]
  /\ req' = [req EXCEPT ![r].pc = "mark"]
  /\ UNCHANGED token

Mark(r) ==
  /\ At(r, "mark")
  /\ token' = [token EXCEPT ![req[r].token].used = TRUE]
  /\ End(r)
  /\ UNCHANGED <<account, applied>>

-----------------------------------------------------------------------------
(* change_password, the administrator, and failures.                       *)

\* The request authenticates and its old_password matches the hash it loaded.
ChangeRead(r) ==
  /\ account.exists /\ account.verified /\ account.active
  /\ At(r, "idle")
  /\ req' = [req EXCEPT ![r] = [op |-> "change", pc |-> "change", token |-> None,
                                old |-> account.password]]
  /\ UNCHANGED <<account, token, applied>>

ChangeCommit(r, p) ==
  /\ At(r, "change")
  /\ p # req[r].old
  /\ account' = [account EXCEPT !.password = p]
  /\ End(r)
  /\ UNCHANGED <<token, applied>>

SetActive(b) ==
  /\ account.exists
  /\ account.active # b
  /\ account' = [account EXCEPT !.active = b]
  /\ UNCHANGED <<token, applied, req>>

\* A commit or the mail fails for good, or the process dies.
Abort(r) ==
  /\ ~At(r, "idle")
  /\ End(r)
  /\ UNCHANGED <<account, token, applied>>

Next ==
  \/ \E r \in Requests :
       \/ SignupRead(r) \/ ResendRead(r) \/ ForgotRead(r) \/ ChangeRead(r)
       \/ \E p \in Passwords : SignupInsert(r, p) \/ Apply(r, p) \/ ChangeCommit(r, p)
       \/ \E t \in Tokens : Issue(r, t) \/ Present(r, t)
       \/ Mail(r) \/ Mark(r) \/ Abort(r)
  \/ \E t \in Tokens : Expire(t)
  \/ \E b \in BOOLEAN : SetActive(b)

Spec == Init /\ [][Next]_vars

\* Some step of the request r, which ends sooner or later.
Proceed(r) ==
  \/ \E p \in Passwords : SignupInsert(r, p) \/ Apply(r, p) \/ ChangeCommit(r, p)
  \/ \E t \in Tokens : Issue(r, t)
  \/ Mail(r) \/ Mark(r) \/ Abort(r)

\* Every request ends and every token expires.  A customer who is not verified
\* keeps asking for another e-mail and opening it, and each step of that, tried
\* again and again, succeeds some day: no failure is permanent, and not every
\* e-mail takes longer than the lifetime of its token.
Fairness ==
  /\ \A r \in Requests : WF_vars(Proceed(r))
  /\ \A t \in Tokens : WF_vars(Expire(t))
  /\ SF_vars(\E r \in Requests : ResendRead(r))
  /\ SF_vars(\E r \in Requests : req[r].op = "resend" /\ \E t \in Tokens : Issue(r, t))
  /\ SF_vars(\E r \in Requests : /\ req[r].op = "resend" /\ Mail(r)
                                /\ ~token[req[r].token].expired)
  /\ SF_vars(\E r \in Requests, t \in VerifyTokens : Present(r, t))
  /\ SF_vars(\E r \in Requests, p \in Passwords : req[r].op = "verify" /\ Apply(r, p))

FairSpec == Spec /\ Fairness

-----------------------------------------------------------------------------
(* Properties.                                                             *)

TypeOK ==
  /\ account \in Account
  /\ token \in [Tokens -> Token]
  /\ applied \in [Tokens -> 0..MaxApplied]
  /\ req \in [Requests -> Request]

\* No token is spent in vain: one that is marked as used had its effect, so the
\* crash between the two commits never locks a customer out.
SpentHadItsEffect ==
  \A t \in Tokens :
    /\ token[t].used => applied[t] > 0
    /\ t \in VerifyTokens /\ applied[t] > 0 => account.verified

\* A used token that no request in flight has accepted before.
Dead(t) == /\ token[t].used
           /\ \A r \in Requests : At(r, "apply") => req[r].token # t

\* A dead token stays dead: nothing but the issue of a new token under its id
\* brings it back.
DeadTokenStaysDead ==
  [][\A t \in Tokens : Dead(t) /\ ~Dead(t)' => \E r \in Requests : Issue(r, t)]_vars

\* A customer's password and verification are never lost to a second signup.
AccountIsNotReplaced ==
  [][account.exists =>
       /\ account'.exists
       /\ account.verified => account'.verified
       /\ account'.password # account.password =>
            \E r \in Requests : req[r].op \in {"reset", "change"} /\ req'[r] # req[r]]_vars

\* Whatever commit or e-mail of the signup failed: a customer who signed up is
\* verified in the end.
VerifiedAtLast == account.exists ~> account.verified

\* README.md, line 697: tokens "are single-use".
SingleUse == \A t \in Tokens : applied[t] < 2
=============================================================================
