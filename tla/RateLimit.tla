----------------------------- MODULE RateLimit -----------------------------
(***************************************************************************)
(* The two rate limiters, each a Redis counter with a lifetime.            *)
(*                                                                         *)
(* enforce_rate_limit counts and sets the lifetime in one Lua script;      *)
(* check_rate_limit does so in two calls, between which other calls are    *)
(* counted, time passes, and Redis or the process may fail.  The counter   *)
(* of one key is modelled, for one limiter or the other.                   *)
(*                                                                         *)
(* A call that Redis does not answer is let through or denied, as the      *)
(* endpoint asks for (fail_open); the limiter makes no promise about it.   *)
(***************************************************************************)
EXTENDS Integers

CONSTANTS Calls,   \* concurrent calls of the limiter
          Limit,   \* calls that a window lets through
          Window   \* the lifetime of a counter, in ticks

ASSUME RateLimitAssumption == Limit \in Nat \ {0} /\ Window \in Nat \ {0}

VARIABLES
  limiter,  \* "script" or "calls"; never changes
  count,    \* the counter, 0 when the key does not exist, at most Limit + 1
  ttl,      \* ticks until the key expires, 0 when it has no lifetime
  pc,       \* pc[r] = "expire": r counted first and has to set the lifetime
  lost,     \* a call that counted first did not set the lifetime
  recent    \* recent[n]: calls that the counter let through since the n-th last
            \* tick (history)

limiterVars == <<limiter, count, ttl, pc, lost, recent>>

LimiterInit ==
  /\ limiter \in {"script", "calls"}
  /\ count = 0
  /\ ttl = 0
  /\ pc = [r \in Calls |-> "idle"]
  /\ lost = FALSE
  /\ recent = [n \in 1..Window |-> 0]

\* What INCR returns and stores; no test tells values above the limit apart.
Increased == IF count > Limit THEN count ELSE count + 1

LetThrough == recent' = [n \in 1..Window |-> recent[n] + 1]

\* Mutant: the comparison is off by one.
AnswerLate(n) == IF n > Limit + 1 THEN UNCHANGED recent ELSE LetThrough

\* The call that was the n-th is let through or refused (429).
Answer(n) == IF n > Limit THEN UNCHANGED recent ELSE LetThrough

\* Mutant: every call sets the lifetime.
ScriptAlways ==
  /\ limiter = "script"
  /\ count' = Increased
  /\ ttl' = Window
  /\ Answer(count')
  /\ UNCHANGED <<limiter, pc, lost>>

Script ==
  /\ limiter = "script"
  /\ count' = Increased
  /\ ttl' = IF count' = 1 THEN Window ELSE ttl
  /\ Answer(count')
  /\ UNCHANGED <<limiter, pc, lost>>

\* Mutant: the lifetime is set by the second call.
IncrSecond(r) ==
  /\ limiter = "calls"
  /\ pc[r] = "idle"
  /\ count' = Increased
  /\ IF count' = 2 THEN /\ pc' = [pc EXCEPT ![r] = "expire"]
                        /\ UNCHANGED recent
                   ELSE /\ Answer(count')
                        /\ UNCHANGED pc
  /\ UNCHANGED <<limiter, ttl, lost>>

\* A call that was not the first is answered at once.
Incr(r) ==
  /\ limiter = "calls"
  /\ pc[r] = "idle"
  /\ count' = Increased
  /\ IF count' = 1 THEN /\ pc' = [pc EXCEPT ![r] = "expire"]
                        /\ UNCHANGED recent
                   ELSE /\ Answer(count')
                        /\ UNCHANGED pc
  /\ UNCHANGED <<limiter, ttl, lost>>

SetLifetime(r) ==
  /\ pc[r] = "expire"
  /\ ttl' = Window
  /\ pc' = [pc EXCEPT ![r] = "idle"]
  /\ Answer(1)
  /\ UNCHANGED <<limiter, count, lost>>

\* The process dies or Redis fails before the lifetime is set.
ExpireFails(r) ==
  /\ pc[r] = "expire"
  /\ pc' = [pc EXCEPT ![r] = "idle"]
  /\ lost' = TRUE
  /\ UNCHANGED <<limiter, count, ttl, recent>>

\* Redis counts, but its reply does not arrive.
ReplyLost ==
  /\ count' = Increased
  /\ ttl' = IF limiter = "script" /\ count' = 1 THEN Window ELSE ttl
  /\ lost' = IF limiter = "calls" /\ count' = 1 THEN TRUE ELSE lost
  /\ UNCHANGED <<limiter, pc, recent>>

\* The key expires at the end of its last tick.
Tick ==
  /\ count' = IF ttl = 1 THEN 0 ELSE count
  /\ ttl' = IF ttl = 0 THEN 0 ELSE ttl - 1
  /\ recent' = [n \in 1..Window |-> IF n = 1 THEN 0 ELSE recent[n - 1]]
  /\ UNCHANGED <<limiter, pc, lost>>

LimiterNext ==
  \/ Script
  \/ \E r \in Calls : Incr(r) \/ SetLifetime(r) \/ ExpireFails(r)
  \/ ReplyLost
  \/ Tick

\* Time passes, and a request that is waiting for Redis ends one way or another.
LimiterFairness ==
  /\ WF_limiterVars(Tick)
  /\ \A r \in Calls : WF_limiterVars(SetLifetime(r) \/ ExpireFails(r))

LimiterSpec == LimiterInit /\ [][LimiterNext]_limiterVars

LimiterFairSpec == LimiterSpec /\ LimiterFairness

-----------------------------------------------------------------------------
(* Properties.                                                             *)

LimiterTypeOK ==
  /\ limiter \in {"script", "calls"}
  /\ count \in 0..Limit + 1
  /\ ttl \in 0..Window
  /\ pc \in [Calls -> {"idle", "expire"}]
  /\ lost \in BOOLEAN
  /\ recent \in [1..Window -> Nat]

\* Any Window ticks in a row meet at most two lifetimes of the counter, so at
\* most twice the limit is let through in them; no interleaving of calls with the
\* end of a window lets through more.
TwiceTheLimitAtMost == recent[Window] <= 2 * Limit

\* A counter without a lifetime, which would never let a call through again, is
\* one whose first call has still to set it or failed to.
NoLifetimeHasACause ==
  count > 0 /\ ttl = 0 => lost \/ \E r \in Calls : pc[r] = "expire"

\* However many keep calling, a window ends, unless its lifetime was lost.
WindowEnds == count > 0 ~> count = 0 \/ lost
=============================================================================
