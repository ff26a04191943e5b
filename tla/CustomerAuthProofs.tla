------------------------- MODULE CustomerAuthProofs -------------------------
(***************************************************************************)
(* Theorems about CustomerAuth, for any number of requests and tokens, and *)
(* about the rate limiter in front of its endpoints.                       *)
(***************************************************************************)
EXTENDS CustomerAuth, RateLimit, TLAPS

USE AuthAssumption

\* What a request holds at each point: its token, whose effect is committed
\* before the token is marked, and the operation that brought it there.
Holds(r) ==
  /\ req[r].pc \in {"mail", "apply", "mark"} => req[r].token \in Tokens
  /\ At(r, "apply") => req[r].op = IF req[r].token \in VerifyTokens THEN "verify" ELSE "reset"
  /\ At(r, "mark") => applied[req[r].token] > 0
  /\ At(r, "change") => req[r].op = "change"

\* Before the account exists there is nothing to verify or reset.
NothingBefore ==
  ~account.exists => /\ \A t \in Tokens : token[t] = NoToken /\ applied[t] = 0
                     /\ \A r \in Requests : req[r].pc \in {"idle", "insert"}

IInv == /\ TypeOK /\ NothingBefore /\ SpentHadItsEffect
        /\ \A r \in Requests : Holds(r)

LEMMA SomePasswordType == SomePassword \in Passwords
BY DEF SomePassword

LEMMA IdleType == Idle \in Request
BY SomePasswordType DEF Idle, Request

LEMMA InitIInv == Init => IInv
BY SomePasswordType, IdleType
   DEF Init, IInv, TypeOK, NothingBefore, SpentHadItsEffect, Holds, Account, Token,
       NoToken, Idle, At

-----------------------------------------------------------------------------
(* One lemma per group of actions.                                         *)

\* A request that begins to work has no token yet, and the account to work on.
Fresh(x) ==
  /\ x \in Request
  /\ x.pc \in {"insert", "issue", "change"}
  /\ x.pc = "change" => x.op = "change"
  /\ x.pc # "insert" => account.exists

Starts(r) == SignupRead(r) \/ ResendRead(r) \/ ForgotRead(r) \/ ChangeRead(r)

LEMMA BeginShape ==
  ASSUME IInv, NEW r \in Requests, Starts(r)
  PROVE  /\ UNCHANGED <<account, token, applied>>
         /\ At(r, "idle")
         /\ \E x : Fresh(x) /\ req' = [req EXCEPT ![r] = x]
<1> USE SomePasswordType DEF IInv, TypeOK, At, Fresh, Begin, Idle, Request
<1>1. CASE SignupRead(r)
  BY <1>1 DEF SignupRead
<1>2. CASE ResendRead(r)
  BY <1>2 DEF ResendRead
<1>3. CASE ForgotRead(r)
  BY <1>3 DEF ForgotRead
<1>4. CASE ChangeRead(r)
  <2>1. account.password \in Passwords
    BY DEF Account
  <2> QED BY <1>4, <2>1 DEF ChangeRead
<1> QED BY <1>1, <1>2, <1>3, <1>4 DEF Starts

\* It only touches its own record.
LEMMA BeginKeeps ==
  ASSUME IInv, NEW r \in Requests, Starts(r)
  PROVE  IInv'
<1> USE DEF IInv, TypeOK, At
<1>1. UNCHANGED <<account, token, applied>>
  BY BeginShape
<1>2. PICK x : Fresh(x) /\ req' = [req EXCEPT ![r] = x]
  BY BeginShape
<1>3. req' \in [Requests -> Request]
  BY <1>2 DEF Fresh
<1>4. \A q \in Requests : Holds(q)'
  BY <1>1, <1>2 DEF Fresh, Holds
<1>5. NothingBefore'
  BY <1>1, <1>2 DEF Fresh, NothingBefore
<1>6. SpentHadItsEffect'
  BY <1>1 DEF SpentHadItsEffect
<1> QED BY <1>1, <1>3, <1>4, <1>5, <1>6

LEMMA SignupKeeps ==
  ASSUME IInv, NEW r \in Requests, NEW p \in Passwords, SignupInsert(r, p)
  PROVE  IInv'
<1> USE DEF IInv, TypeOK, At
<1>1. UNCHANGED <<token, applied>> /\ account'.exists /\ account' \in Account
  <2>1. CASE account.exists
    BY <2>1 DEF SignupInsert, End
  <2>2. CASE ~account.exists
    <3>1. account' = [exists |-> TRUE, verified |-> FALSE, active |-> TRUE, password |-> p]
      BY <2>2 DEF SignupInsert
    <3>2. UNCHANGED <<token, applied>>
      BY DEF SignupInsert
    <3> QED BY <3>1, <3>2 DEF Account
  <2> QED BY <2>1, <2>2
<1>2. req' \in [Requests -> Request]
  BY IdleType DEF SignupInsert, End, Request
<1>3. \A q \in Requests : Holds(q)'
  BY <1>1 DEF SignupInsert, End, Idle, Holds, Request
<1>4. SpentHadItsEffect'
  BY <1>1 DEF SignupInsert, SpentHadItsEffect, NothingBefore, NoToken
<1>5. NothingBefore'
  BY <1>1 DEF NothingBefore
<1> QED BY <1>1, <1>2, <1>3, <1>4, <1>5

LEMMA IssueKeeps ==
  ASSUME IInv, NEW r \in Requests, NEW t \in Tokens, Issue(r, t)
  PROVE  IInv'
<1> USE DEF IInv, TypeOK, At
<1>1. account' = account /\ token' \in [Tokens -> Token]
      /\ applied' \in [Tokens -> 0..MaxApplied] /\ req' \in [Requests -> Request]
  <2>1. account' = account /\ token' \in [Tokens -> Token]
    BY DEF Issue, NoToken, Token
  <2>2. applied' \in [Tokens -> 0..MaxApplied]
    BY DEF Issue
  <2>3. req' \in [Requests -> Request]
    <3> DEFINE mailing == [req[r] EXCEPT !.pc = "mail", !.token = t]
    <3>1. mailing \in Request
      BY DEF Request
    <3>2. req' = [req EXCEPT ![r] = mailing]
      BY DEF Issue
    <3> HIDE DEF mailing
    <3> QED BY <3>1, <3>2
  <2> QED BY <2>1, <2>2, <2>3
<1>2. account.exists
  BY DEF Issue, NothingBefore
<1>3. ASSUME NEW q \in Requests
      PROVE  Holds(q)'
  <2>1. CASE q = r
    BY <2>1 DEF Issue, Holds, Request
  <2>2. CASE q # r
    <3>1. req'[q] = req[q] /\ req[q].token # t
      BY <2>2 DEF Issue, Spare
    <3> QED BY <3>1 DEF Issue, Holds
  <2> QED BY <2>1, <2>2
<1>4. SpentHadItsEffect'
  BY <1>1 DEF Issue, NoToken, SpentHadItsEffect
<1> QED BY <1>1, <1>2, <1>3, <1>4 DEF NothingBefore

\* Mailing and expiry change a token's mailed or expired only.
LEMMA MailKeeps ==
  ASSUME IInv, NEW r \in Requests, Mail(r)
  PROVE  IInv'
<1> USE DEF IInv, TypeOK, At
<1>1. req[r].token \in Tokens /\ account.exists
  BY DEF Mail, Holds, NothingBefore
<1>2. UNCHANGED <<account, applied>> /\ token' \in [Tokens -> Token]
      /\ req' \in [Requests -> Request]
  BY <1>1, IdleType DEF Mail, End, Token
<1>3. \A q \in Requests : Holds(q)'
  BY <1>2 DEF Mail, End, Idle, Holds
<1>4. SpentHadItsEffect'
  BY <1>2 DEF Mail, SpentHadItsEffect, Token
<1> QED BY <1>1, <1>2, <1>3, <1>4 DEF NothingBefore

LEMMA ExpireKeeps ==
  ASSUME IInv, NEW t \in Tokens, Expire(t)
  PROVE  IInv'
<1> USE DEF IInv, TypeOK, At
<1>1. UNCHANGED <<account, applied, req>> /\ token' \in [Tokens -> Token]
  BY DEF Expire, Token
<1>2. account.exists
  BY DEF Expire, NothingBefore, NoToken
<1>3. \A q \in Requests : Holds(q)'
  BY <1>1 DEF Holds
<1>4. SpentHadItsEffect'
  BY <1>1 DEF Expire, SpentHadItsEffect, Token
<1> QED BY <1>1, <1>2, <1>3, <1>4 DEF NothingBefore

LEMMA PresentKeeps ==
  ASSUME IInv, NEW r \in Requests, NEW t \in Tokens, Present(r, t)
  PROVE  IInv'
<1> USE DEF IInv, TypeOK, At
<1>1. UNCHANGED <<account, token, applied>> /\ req' \in [Requests -> Request]
  BY SomePasswordType DEF Present, Idle, Request
<1>2. account.exists
  BY DEF Present, NothingBefore, NoToken
<1>3. \A q \in Requests : Holds(q)'
  BY <1>1 DEF Present, Holds, Idle
<1>4. SpentHadItsEffect'
  BY <1>1 DEF SpentHadItsEffect
<1> QED BY <1>1, <1>2, <1>3, <1>4 DEF NothingBefore

LEMMA ApplyKeeps ==
  ASSUME IInv, NEW r \in Requests, NEW p \in Passwords, Apply(r, p)
  PROVE  IInv'
<1> USE DEF IInv, TypeOK, At
<1>1. req[r].token \in Tokens /\ account.exists
  BY DEF Apply, Holds, NothingBefore
<1>2. /\ token' = token /\ account' \in Account /\ account'.exists
      /\ req' \in [Requests -> Request]
  <2>1. token' = token
    BY DEF Apply
  <2>2. account' \in Account /\ account'.exists
    BY <1>1 DEF Apply, Account
  <2>3. [req[r] EXCEPT !.pc = "mark"] \in Request
    BY DEF Request
  <2>4. req' = [req EXCEPT ![r] = [req[r] EXCEPT !.pc = "mark"]]
    BY DEF Apply
  <2> QED BY <2>1, <2>2, <2>3, <2>4
<1>3. /\ applied' \in [Tokens -> 0..MaxApplied]
      /\ \A t \in Tokens : applied[t] > 0 => applied'[t] > 0
      /\ applied'[req[r].token] > 0
      /\ \A t \in Tokens : t # req[r].token => applied'[t] = applied[t]
  BY <1>1 DEF Apply
<1>4. \A q \in Requests : Holds(q)'
  <2> SUFFICES ASSUME NEW q \in Requests PROVE Holds(q)'
    OBVIOUS
  <2>1. CASE q = r
    <3>1. req'[q].token = req[r].token /\ req'[q].pc = "mark"
      BY <2>1 DEF Apply, Request
    <3> QED BY <3>1, <1>1, <1>3 DEF Holds
  <2>2. CASE q # r
    BY <2>2, <1>3 DEF Apply, Holds
  <2> QED BY <2>1, <2>2
<1>5. SpentHadItsEffect'
  <2>1. account.verified => account'.verified
    BY DEF Apply, Account
  <2>2. req[r].token \in VerifyTokens => account'.verified
    BY DEF Apply, Holds, Account
  <2> QED BY <1>2, <1>3, <2>1, <2>2 DEF SpentHadItsEffect
<1> QED BY <1>2, <1>3, <1>4, <1>5 DEF NothingBefore

LEMMA MarkKeeps ==
  ASSUME IInv, NEW r \in Requests, Mark(r)
  PROVE  IInv'
<1> USE DEF IInv, TypeOK, At
<1>1. req[r].token \in Tokens /\ applied[req[r].token] > 0 /\ account.exists
  BY DEF Mark, Holds, NothingBefore
<1>2. UNCHANGED <<account, applied>> /\ token' \in [Tokens -> Token]
      /\ req' \in [Requests -> Request]
  BY <1>1, IdleType DEF Mark, End, Token
<1>3. \A q \in Requests : Holds(q)'
  BY <1>2 DEF Mark, End, Idle, Holds
<1>4. SpentHadItsEffect'
  BY <1>1, <1>2 DEF Mark, SpentHadItsEffect, Token
<1> QED BY <1>1, <1>2, <1>3, <1>4 DEF NothingBefore

LEMMA OthersKeep ==
  ASSUME IInv, NEW r \in Requests,
         (\E p \in Passwords : ChangeCommit(r, p)) \/ Abort(r)
  PROVE  IInv'
<1> USE DEF IInv, TypeOK, At
<1>1. /\ UNCHANGED <<token, applied>> /\ req' \in [Requests -> Request]
      /\ account' \in Account /\ account'.exists = account.exists
      /\ account'.verified = account.verified
  BY IdleType DEF ChangeCommit, Abort, End, Account
<1>2. \A q \in Requests : Holds(q)'
  BY <1>1 DEF ChangeCommit, Abort, End, Idle, Holds
<1>3. NothingBefore'
  BY <1>1 DEF ChangeCommit, Abort, End, Idle, NothingBefore
<1>4. SpentHadItsEffect'
  BY <1>1 DEF SpentHadItsEffect
<1> QED BY <1>1, <1>2, <1>3, <1>4

LEMMA SetActiveKeeps ==
  ASSUME IInv, NEW b \in BOOLEAN, SetActive(b)
  PROVE  IInv'
BY DEF SetActive, IInv, TypeOK, Account, NothingBefore, SpentHadItsEffect, Holds, At

LEMMA StepIInv == IInv /\ [Next]_vars => IInv'
<1> SUFFICES ASSUME IInv, [Next]_vars PROVE IInv'
  OBVIOUS
<1>1. CASE UNCHANGED vars
  BY <1>1 DEF vars, IInv, TypeOK, NothingBefore, SpentHadItsEffect, Holds, At
<1> QED BY <1>1, BeginKeeps, SignupKeeps, IssueKeeps, MailKeeps, ExpireKeeps,
           PresentKeeps, ApplyKeeps, MarkKeeps, OthersKeep, SetActiveKeeps
           DEF Next, Starts

-----------------------------------------------------------------------------
(* Theorems.                                                               *)

THEOREM Inductive == Spec => []IInv
BY InitIInv, StepIInv, PTL DEF Spec

\* Every reachable state of the account, its tokens and the requests is well
\* typed.
THEOREM TypeCorrect == Spec => []TypeOK
BY Inductive, PTL DEF IInv

\* A token that is marked as used had its effect, whatever failed in between.
THEOREM SpentTokensWorked == Spec => []SpentHadItsEffect
BY Inductive, PTL DEF IInv

\* No request brings a dead token back to life.
THEOREM DeadStaysDead == Spec => DeadTokenStaysDead
<1>1. IInv /\ [Next]_vars =>
        [\A t \in Tokens : Dead(t) /\ ~Dead(t)' => \E r \in Requests : Issue(r, t)]_vars
  <2> SUFFICES ASSUME IInv, Next, NEW t \in Tokens, Dead(t), ~Dead(t)'
               PROVE  \E r \in Requests : Issue(r, t)
    OBVIOUS
  <2> USE DEF IInv, TypeOK, Dead, At
  <2>1. ASSUME NEW r \in Requests, Starts(r)
        PROVE  FALSE
    BY <2>1, BeginShape DEF Fresh
  <2>2. ASSUME NEW r \in Requests, NEW p \in Passwords,
               SignupInsert(r, p) \/ Apply(r, p) \/ ChangeCommit(r, p)
        PROVE  FALSE
    <3>1. CASE SignupInsert(r, p)
      <4>1. token' = token
        BY <3>1 DEF SignupInsert
      <4>2. \A q \in Requests : req'[q] = req[q] \/ req'[q].pc # "apply"
        BY <3>1 DEF SignupInsert, End, Idle, Request
      <4> QED BY <4>1, <4>2
    <3>2. CASE Apply(r, p)
      BY <3>2 DEF Apply
    <3>3. CASE ChangeCommit(r, p)
      BY <3>3 DEF ChangeCommit, End, Idle
    <3> QED BY <2>2, <3>1, <3>2, <3>3
  <2>3. ASSUME NEW r \in Requests, NEW u \in Tokens, Issue(r, u)
        PROVE  u = t
    BY <2>3 DEF Issue
  <2>4. ASSUME NEW r \in Requests, NEW u \in Tokens, Present(r, u)
        PROVE  FALSE
    BY <2>4 DEF Present, Idle
  <2>5. ASSUME NEW r \in Requests, Mail(r) \/ Mark(r) \/ Abort(r)
        PROVE  FALSE
    BY <2>5 DEF Mail, Mark, Abort, End, Idle, Token
  <2>6. ASSUME NEW u \in Tokens, Expire(u)
        PROVE  FALSE
    BY <2>6 DEF Expire, Token
  <2>7. ASSUME NEW b \in BOOLEAN, SetActive(b)
        PROVE  FALSE
    BY <2>7 DEF SetActive
  <2> QED BY <2>1, <2>2, <2>3, <2>4, <2>5, <2>6, <2>7 DEF Next, Starts
<1> QED BY <1>1, Inductive, PTL DEF Spec, DeadTokenStaysDead

\* Only a reset or a change touches the password of an account that exists, and
\* a verified account stays verified.
THEOREM AccountSurvives == Spec => AccountIsNotReplaced
<1> DEFINE Kept ==
      account.exists =>
        /\ account'.exists
        /\ account.verified => account'.verified
        /\ account'.password # account.password =>
             \E r \in Requests : req[r].op \in {"reset", "change"} /\ req'[r] # req[r]
<1>1. IInv /\ [Next]_vars => [Kept]_vars
  <2> SUFFICES ASSUME IInv, Next PROVE Kept
    OBVIOUS
  <2> USE DEF IInv, TypeOK, At, Account
  <2>1. ASSUME NEW r \in Requests, Starts(r)
        PROVE  Kept
    BY <2>1, BeginShape
  <2>2. ASSUME NEW r \in Requests, NEW p \in Passwords, SignupInsert(r, p)
        PROVE  Kept
    BY <2>2 DEF SignupInsert
  <2>3. ASSUME NEW r \in Requests, NEW p \in Passwords, Apply(r, p)
        PROVE  Kept
    <3>1. req[r].op \in {"verify", "reset"} /\ req'[r] # req[r]
      BY <2>3 DEF Apply, Holds, Request
    <3> QED BY <2>3, <3>1 DEF Apply
  <2>4. ASSUME NEW r \in Requests, NEW p \in Passwords, ChangeCommit(r, p)
        PROVE  Kept
    <3>1. req[r].op = "change" /\ req'[r] # req[r]
      BY <2>4 DEF ChangeCommit, Holds, End, Idle
    <3> QED BY <2>4, <3>1 DEF ChangeCommit
  <2>5. ASSUME NEW r \in Requests, NEW t \in Tokens, Issue(r, t) \/ Present(r, t)
        PROVE  Kept
    BY <2>5 DEF Issue, Present
  <2>6. ASSUME NEW r \in Requests, Mail(r) \/ Mark(r) \/ Abort(r)
        PROVE  Kept
    BY <2>6 DEF Mail, Mark, Abort
  <2>7. ASSUME NEW t \in Tokens, Expire(t)
        PROVE  Kept
    BY <2>7 DEF Expire
  <2>8. ASSUME NEW b \in BOOLEAN, SetActive(b)
        PROVE  Kept
    BY <2>8 DEF SetActive
  <2> QED BY <2>1, <2>2, <2>3, <2>4, <2>5, <2>6, <2>7, <2>8 DEF Next, Starts
<1> QED BY <1>1, Inductive, PTL DEF Spec, AccountIsNotReplaced

-----------------------------------------------------------------------------
(* The endpoints above stand behind a rate limiter: module RateLimit, for  *)
(* any calls, limit and window.                                            *)

USE RateLimitAssumption

\* The calls that counted first and have not set the lifetime yet.
Waiting == {r \in Calls : pc[r] = "expire"}

\* A lifetime is set once, by the call that counted first and waits alone.
FirstIsAlone ==
  /\ ttl > 0 => count > 0 /\ Waiting = {}
  /\ Waiting # {} => count > 0
  /\ \A r, q \in Waiting : r = q

\* The calls that the current lifetime may have let through.
Used ==
  (IF count > Limit THEN Limit ELSE count) - (IF Waiting = {} THEN 0 ELSE 1)

\* The last Window ticks meet the current lifetime and at most one before, and the
\* ticks since the lifetime was set meet no other.
TwoLifetimes ==
  \A n \in 1..Window : /\ recent[n] <= Limit + Used
                       /\ ttl > 0 /\ n <= Window - ttl => recent[n] <= Used

LimiterInv ==
  /\ LimiterTypeOK
  /\ NoLifetimeHasACause
  /\ FirstIsAlone
  /\ TwoLifetimes

LEMMA LimiterInitKeeps ==
  ASSUME LimiterInit
  PROVE  LimiterInv
<1>1. LimiterTypeOK
  <2>1. limiter \in {"script", "calls"} /\ lost \in BOOLEAN
    BY DEF LimiterInit
  <2>2. count \in 0..Limit + 1 /\ ttl \in 0..Window
    BY DEF LimiterInit
  <2>3. pc \in [Calls -> {"idle", "expire"}] /\ recent \in [1..Window -> Nat]
    BY DEF LimiterInit
  <2> QED BY <2>1, <2>2, <2>3 DEF LimiterTypeOK
<1>2. Waiting = {}
  BY DEF LimiterInit, Waiting
<1>3. FirstIsAlone /\ TwoLifetimes
  BY <1>2 DEF LimiterInit, FirstIsAlone, TwoLifetimes, Used
<1> QED BY <1>1, <1>3 DEF LimiterInv, LimiterInit, NoLifetimeHasACause

\* What a call that is answered does to the recent calls, if the answer is yes.
LEMMA AnswerEffect ==
  ASSUME LimiterTypeOK, Window \in Nat \ {0}, Limit \in Nat \ {0},
         NEW n \in Nat, Answer(n)
  PROVE  /\ recent' \in [1..Window -> Nat]
         /\ n > Limit => recent' = recent
         /\ n <= Limit => \A i \in 1..Window : recent'[i] = recent[i] + 1
BY DEF LimiterTypeOK, Answer, LetThrough

LEMMA IncreasedEffect ==
  ASSUME LimiterInv
  PROVE  /\ Increased \in 1..Limit + 1
         /\ Increased = 1 <=> count = 0
         /\ count <= Limit => Increased = count + 1
         /\ count > Limit => Increased = count
BY DEF LimiterInv, LimiterTypeOK, Increased

LEMMA NoTickYet ==
  ASSUME NEW w \in Nat, NEW n \in 1..w, NEW t, t = w \/ t = 0
  PROVE  ~(t > 0 /\ n <= w - t)
OBVIOUS

\* A counted call that is answered at once, of either limiter.
LEMMA LimiterCountKeeps ==
  ASSUME LimiterInv, count' = Increased, UNCHANGED <<limiter, pc>>,
         lost' \in BOOLEAN, NoLifetimeHasACause',
         ttl' \in 0..Window, count # 0 => ttl' = ttl,
         count = 0 => ttl' \in {0, Window},
         Answer(Increased) \/ UNCHANGED recent
  PROVE  LimiterInv'
<1> USE DEF LimiterInv
<1>1. Waiting' = Waiting
  BY DEF Waiting
<1>2. /\ count \in 0..Limit + 1 /\ count' \in 1..Limit + 1
      /\ count <= Limit => count' = count + 1
      /\ count > Limit => count' = count
  BY IncreasedEffect DEF LimiterTypeOK
<1>3. recent \in [1..Window -> Nat] /\ ttl \in 0..Window /\ Limit \in Nat /\ Window \in Nat
  BY DEF LimiterTypeOK
<1>4. /\ recent' \in [1..Window -> Nat]
      /\ \A n \in 1..Window : \/ recent'[n] = recent[n]
                              \/ count' <= Limit /\ recent'[n] = recent[n] + 1
  <2>1. CASE Answer(Increased)
    <3>1. Increased \in Nat
      BY <1>2
    <3> QED BY <1>2, <2>1, <3>1, AnswerEffect
  <2>2. CASE UNCHANGED recent
    BY <1>3, <2>2
  <2> QED BY <2>1, <2>2
<1>5. LimiterTypeOK'
  BY <1>2, <1>4 DEF LimiterTypeOK
<1>7. count = 0 => Waiting = {} /\ ttl = 0
  BY <1>2, <1>3 DEF FirstIsAlone
<1>8. FirstIsAlone'
  BY <1>1, <1>2, <1>3, <1>7 DEF FirstIsAlone
<1>9. TwoLifetimes'
  <2>1. Used \in Int /\ Used' \in Int /\ Used <= Used'
        /\ (count' <= Limit => Used' = Used + 1)
    BY <1>1, <1>2 DEF Used
  <2> SUFFICES ASSUME NEW n \in 1..Window
               PROVE  /\ recent'[n] <= Limit + Used'
                      /\ ttl' > 0 /\ n <= Window - ttl' => recent'[n] <= Used'
    BY DEF TwoLifetimes
  <2>2. recent[n] \in Nat /\ recent[n] <= Limit + Used
        /\ (ttl > 0 /\ n <= Window - ttl => recent[n] <= Used)
    BY <1>3 DEF TwoLifetimes
  <2>3. recent'[n] = recent[n] \/ (count' <= Limit /\ recent'[n] = recent[n] + 1)
    BY <1>4
  <2>4. recent'[n] <= Limit + Used' /\ (recent[n] <= Used => recent'[n] <= Used')
    BY <1>3, <2>1, <2>2, <2>3
  <2>5. CASE ttl' = ttl
    <3>1. ttl' > 0 /\ n <= Window - ttl' => recent[n] <= Used
      BY <2>2, <2>5
    <3> QED BY <2>4, <3>1
  <2>6. CASE ttl' = Window \/ ttl' = 0
    <3>3. ~(ttl' > 0 /\ n <= Window - ttl')
      BY <1>3, <2>6, NoTickYet
    <3> QED BY <2>4, <3>3
  <2> QED BY <2>5, <2>6
<1> QED BY <1>5, <1>8, <1>9

LEMMA LimiterScriptKeeps == ASSUME LimiterInv, Script PROVE LimiterInv'
<1>1. count' = Increased /\ UNCHANGED <<limiter, pc, lost>>
  BY DEF Script
<1>2. ttl' = (IF count = 0 THEN Window ELSE ttl) /\ Answer(Increased)
  BY <1>1, IncreasedEffect DEF Script
<1>3. ttl' \in 0..Window /\ lost \in BOOLEAN
  BY <1>2 DEF LimiterInv, LimiterTypeOK
<1>4. NoLifetimeHasACause'
  <2>1. CASE count = 0
    BY <1>2, <2>1 DEF NoLifetimeHasACause, LimiterInv
  <2>2. CASE count # 0
    <3>1. count > 0 /\ ttl' = ttl /\ pc' = pc /\ lost' = lost
      BY <1>1, <1>2, <2>2 DEF LimiterInv, LimiterTypeOK
    <3> QED BY <3>1 DEF NoLifetimeHasACause, LimiterInv
  <2> QED BY <2>1, <2>2
<1> QED BY <1>1, <1>2, <1>3, <1>4, LimiterCountKeeps

LEMMA LimiterReplyLostKeeps == ASSUME LimiterInv, ReplyLost PROVE LimiterInv'
<1>1. count' = Increased /\ UNCHANGED <<limiter, pc, recent>>
  BY DEF ReplyLost
<1>2. /\ ttl' = (IF limiter = "script" /\ count = 0 THEN Window ELSE ttl)
      /\ lost' = (IF limiter = "calls" /\ count = 0 THEN TRUE ELSE lost)
  BY <1>1, IncreasedEffect DEF ReplyLost
<1>3. ttl \in 0..Window /\ limiter \in {"script", "calls"} /\ lost \in BOOLEAN
      /\ (count = 0 => ttl = 0) /\ Window \in Nat
  BY DEF LimiterInv, LimiterTypeOK, FirstIsAlone
<1>4. NoLifetimeHasACause'
  <2>1. CASE count = 0 /\ limiter = "script"
    BY <1>2, <1>3, <2>1 DEF NoLifetimeHasACause, LimiterInv
  <2>2. CASE count = 0 /\ limiter = "calls"
    BY <1>2, <2>2 DEF NoLifetimeHasACause
  <2>3. CASE count # 0
    <3>1. count > 0 /\ ttl' = ttl /\ pc' = pc
      BY <1>1, <1>2, <2>3 DEF LimiterInv, LimiterTypeOK
    <3>2. lost' = lost
      BY <1>2, <2>3
    <3> QED BY <3>1, <3>2 DEF NoLifetimeHasACause, LimiterInv
  <2> QED BY <1>3, <2>1, <2>2, <2>3
<1>5. lost' \in BOOLEAN
  BY <1>2, <1>3
<1>6. ttl' \in 0..Window /\ (count # 0 => ttl' = ttl) /\ (count = 0 => ttl' \in {0, Window})
  BY <1>2, <1>3
<1> QED BY <1>1, <1>4, <1>5, <1>6, LimiterCountKeeps

LEMMA LimiterIncrKeeps ==
  ASSUME LimiterInv, NEW r \in Calls, Incr(r) PROVE LimiterInv'
<1>1. /\ limiter = "calls" /\ pc[r] = "idle" /\ count' = Increased
      /\ UNCHANGED <<limiter, ttl, lost>>
      /\ IF count = 0 THEN pc' = [pc EXCEPT ![r] = "expire"] /\ UNCHANGED recent
                      ELSE Answer(Increased) /\ UNCHANGED pc
  BY IncreasedEffect DEF Incr
<1>2. ttl \in 0..Window /\ lost \in BOOLEAN
  BY DEF LimiterInv, LimiterTypeOK
<1>3. CASE count # 0
  <2>1. NoLifetimeHasACause'
    <3>1. count > 0 /\ ttl' = ttl /\ pc' = pc /\ lost' = lost
      BY <1>1, <1>3 DEF LimiterInv, LimiterTypeOK
    <3> QED BY <3>1 DEF NoLifetimeHasACause, LimiterInv
  <2> QED BY <1>1, <1>2, <1>3, <2>1, LimiterCountKeeps
<1>4. CASE count = 0
  <2> USE DEF LimiterInv
  <2>1. Waiting = {} /\ ttl = 0
    BY <1>2, <1>4 DEF FirstIsAlone, LimiterTypeOK
  <2>2. count' = 1 /\ 1 <= Limit /\ ttl' = 0
    BY <1>1, <1>4, <2>1, IncreasedEffect
  <2>3. Waiting' = {r}
    BY <1>1, <1>4, <2>1 DEF Waiting, LimiterTypeOK
  <2>4. LimiterTypeOK'
    BY <1>1, <1>4, <2>2 DEF LimiterTypeOK
  <2>5. NoLifetimeHasACause' /\ FirstIsAlone'
    BY <2>2, <2>3 DEF NoLifetimeHasACause, FirstIsAlone, Waiting
  <2>6. Used = 0 /\ Used' = 0
    BY <1>4, <2>1, <2>2, <2>3 DEF Used
  <2>7. TwoLifetimes'
    BY <1>1, <1>4, <2>1, <2>2, <2>6 DEF TwoLifetimes
  <2> QED BY <2>4, <2>5, <2>7
<1> QED BY <1>3, <1>4

\* Expire and ExpireFails: the one call that waited does so no longer.
LEMMA LimiterExpireKeeps ==
  ASSUME LimiterInv, NEW r \in Calls,
         SetLifetime(r) \/ ExpireFails(r)
  PROVE  LimiterInv'
<1> USE DEF LimiterInv
<1>1. /\ pc[r] = "expire" /\ pc' = [pc EXCEPT ![r] = "idle"]
      /\ UNCHANGED <<limiter, count>>
  BY DEF SetLifetime, ExpireFails
<1>2. Waiting = {r} /\ Waiting' = {} /\ count > 0 /\ ttl = 0
  BY <1>1 DEF Waiting, FirstIsAlone, LimiterTypeOK
<1>3. /\ recent \in [1..Window -> Nat] /\ recent' \in [1..Window -> Nat]
      /\ \A n \in 1..Window : recent'[n] \in {recent[n], recent[n] + 1}
      /\ (ttl' = Window /\ lost' = lost) \/ (ttl' = 0 /\ lost' = TRUE)
  <2>1. CASE SetLifetime(r)
    <3>1. Answer(1) /\ ttl' = Window /\ lost' = lost
      BY <2>1 DEF SetLifetime
    <3>2. recent' \in [1..Window -> Nat] /\ \A n \in 1..Window : recent'[n] = recent[n] + 1
      BY <3>1, AnswerEffect
    <3>3. recent \in [1..Window -> Nat]
      BY DEF LimiterTypeOK
    <3> QED BY <3>1, <3>2, <3>3
  <2>2. CASE ExpireFails(r)
    BY <1>2, <2>2 DEF ExpireFails, LimiterTypeOK
  <2> QED BY <2>1, <2>2
<1>4. LimiterTypeOK'
  <2>0. lost \in BOOLEAN
    BY DEF LimiterTypeOK
  <2>3. lost' \in BOOLEAN
    BY <1>3, <2>0
  <2>1. ttl' \in 0..Window
    BY <1>3
  <2>2. pc' \in [Calls -> {"idle", "expire"}]
    BY <1>1 DEF LimiterTypeOK
  <2> QED BY <1>1, <1>3, <2>1, <2>2, <2>3 DEF LimiterTypeOK
<1>5. NoLifetimeHasACause'
  BY <1>3 DEF NoLifetimeHasACause
<1>6. FirstIsAlone'
  BY <1>1, <1>2 DEF FirstIsAlone
<1>7. Used \in Int /\ Used' = Used + 1
  BY <1>1, <1>2 DEF Used, LimiterTypeOK
<1>8. TwoLifetimes'
  <2> SUFFICES ASSUME NEW n \in 1..Window
               PROVE  /\ recent'[n] <= Limit + Used'
                      /\ ttl' > 0 /\ n <= Window - ttl' => recent'[n] <= Used'
    BY DEF TwoLifetimes
  <2>1. recent[n] \in Nat /\ recent'[n] \in {recent[n], recent[n] + 1}
        /\ recent[n] <= Limit + Used
    BY <1>3 DEF TwoLifetimes
  <2> QED BY <1>3, <1>7, <2>1
<1> QED BY <1>4, <1>5, <1>6, <1>8

LEMMA LimiterTickKeeps == ASSUME LimiterInv, Tick PROVE LimiterInv'
<1> USE DEF LimiterInv
<1>1. /\ count' = (IF ttl = 1 THEN 0 ELSE count)
      /\ ttl' = (IF ttl = 0 THEN 0 ELSE ttl - 1)
      /\ recent' = [n \in 1..Window |-> IF n = 1 THEN 0 ELSE recent[n - 1]]
      /\ UNCHANGED <<limiter, pc, lost>>
  BY DEF Tick
<1>2. Waiting' = Waiting
  BY <1>1 DEF Waiting
<1>3. count \in 0..Limit + 1 /\ ttl \in 0..Window /\ recent \in [1..Window -> Nat]
  BY DEF LimiterTypeOK
<1>4. recent'[1] = 0 /\ \A n \in 2..Window : n - 1 \in 1..Window /\ recent'[n] = recent[n - 1]
  BY <1>1
<1>5. LimiterTypeOK'
  BY <1>1, <1>3 DEF LimiterTypeOK
<1>6. NoLifetimeHasACause'
  BY <1>1, <1>3 DEF NoLifetimeHasACause, FirstIsAlone
<1>7. FirstIsAlone'
  BY <1>1, <1>2, <1>3 DEF FirstIsAlone
<1>8. TwoLifetimes'
  <2>1. Used \in Nat
    BY <1>3 DEF Used, FirstIsAlone
  <2>2. CASE ttl = 1
    <3>1. Used' = 0 /\ ttl' = 0
      BY <1>1, <1>2, <2>2 DEF Used, FirstIsAlone
    <3>2. Used <= Limit
      BY <1>3 DEF Used
    <3>3. ASSUME NEW n \in 1..Window PROVE recent'[n] <= Limit
      <4>1. CASE n = 1
        BY <1>4, <4>1
      <4>2. CASE n # 1
        <5>1. n - 1 \in 1..Window /\ n - 1 <= Window - ttl /\ recent'[n] = recent[n - 1]
          BY <1>4, <2>2, <4>2
        <5>2. recent[n - 1] <= Used /\ recent[n - 1] \in Nat
          BY <1>3, <2>2, <5>1 DEF TwoLifetimes
        <5> QED BY <2>1, <3>2, <5>1, <5>2
      <4> QED BY <4>1, <4>2
    <3> QED BY <3>1, <3>3 DEF TwoLifetimes
  <2>3. CASE ttl # 1
    <3>1. Used' = Used
      BY <1>1, <1>2, <2>3 DEF Used
    <3> SUFFICES ASSUME NEW n \in 1..Window
                 PROVE  /\ recent'[n] <= Limit + Used
                        /\ ttl' > 0 /\ n <= Window - ttl' => recent'[n] <= Used
      BY <3>1 DEF TwoLifetimes
    <3>2. CASE n = 1
      BY <1>4, <2>1, <3>2
    <3>3. CASE n # 1
      <4>1. n - 1 \in 1..Window /\ recent'[n] = recent[n - 1]
        BY <1>4, <3>3
      <4>2. /\ recent[n - 1] <= Limit + Used
            /\ ttl > 0 /\ n - 1 <= Window - ttl => recent[n - 1] <= Used
        BY <4>1 DEF TwoLifetimes
      <4>3. ttl' > 0 /\ n <= Window - ttl' => ttl > 0 /\ n - 1 <= Window - ttl
        BY <1>1, <1>3
      <4> QED BY <4>1, <4>2, <4>3
    <3> QED BY <3>2, <3>3
  <2> QED BY <2>2, <2>3
<1> QED BY <1>5, <1>6, <1>7, <1>8

LEMMA LimiterNextKeeps ==
  ASSUME LimiterInv, [LimiterNext]_limiterVars PROVE LimiterInv'
<1>1. CASE UNCHANGED limiterVars
  BY <1>1 DEF limiterVars, LimiterInv, LimiterTypeOK, NoLifetimeHasACause,
              FirstIsAlone, TwoLifetimes, Used, Waiting
<1>2. CASE Script
  BY <1>2, LimiterScriptKeeps
<1>3. CASE \E r \in Calls :
             Incr(r) \/ SetLifetime(r) \/ ExpireFails(r)
  BY <1>3, LimiterIncrKeeps, LimiterExpireKeeps
<1>4. CASE ReplyLost
  BY <1>4, LimiterReplyLostKeeps
<1>5. CASE Tick
  BY <1>5, LimiterTickKeeps
<1> QED BY <1>1, <1>2, <1>3, <1>4, <1>5 DEF LimiterNext

LEMMA LimiterInductive == LimiterSpec => []LimiterInv
<1>1. LimiterInit => LimiterInv
  BY LimiterInitKeeps
<1>2. LimiterInv /\ [LimiterNext]_limiterVars => LimiterInv'
  BY LimiterNextKeeps
<1> QED BY <1>1, <1>2, PTL DEF LimiterSpec

\* Counter, lifetime, calls and history keep their types.
THEOREM LimiterTypeCorrect == LimiterSpec => []LimiterTypeOK
<1>1. LimiterInv => LimiterTypeOK
  BY DEF LimiterInv
<1> QED BY <1>1, LimiterInductive, PTL

\* For any limit, window and number of calls, whatever fails: what either limiter
\* lets through in any Window ticks is at most twice the limit.
THEOREM LimitHoldsTwice == LimiterSpec => []TwiceTheLimitAtMost
<1>1. ASSUME LimiterInv PROVE TwiceTheLimitAtMost
  <2>1. Window \in 1..Window /\ recent[Window] \in Nat
    BY <1>1 DEF LimiterInv, LimiterTypeOK
  <2>2. Used \in Int /\ Used <= Limit /\ Limit \in Nat
    BY <1>1 DEF Used, LimiterInv, LimiterTypeOK
  <2> QED BY <1>1, <2>1, <2>2 DEF LimiterInv, TwoLifetimes, TwiceTheLimitAtMost
<1>2. LimiterInv => TwiceTheLimitAtMost
  BY <1>1
<1> QED BY <1>2, LimiterInductive, PTL

\* A counter lacks a lifetime only while its first call is about to set it, or
\* because that call failed.
THEOREM LifetimeIsSet == LimiterSpec => []NoLifetimeHasACause
<1>1. LimiterInv => NoLifetimeHasACause
  BY DEF LimiterInv
<1> QED BY <1>1, LimiterInductive, PTL
=============================================================================
