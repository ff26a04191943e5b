------------------------------ MODULE Banners ------------------------------
(***************************************************************************)
(* The website's banners: the table, the administrators' handlers, and the *)
(* Redis cache of the active ones.                                         *)
(*                                                                         *)
(* A handler checks the limit and the priority by queries of their own,    *)
(* commits, and clears the cache; none of it is atomic.  A reader that     *)
(* misses the cache queries the table and fills the cache later, perhaps   *)
(* after a handler has cleared it.  What is shown after a banner was taken *)
(* off is bounded only by the lifetime of the cache.                       *)
(*                                                                         *)
(* Time passes in ticks and is kept as ages, so that it has no end.  Texts *)
(* and images are left out.                                                *)
(***************************************************************************)
EXTENDS Integers, FiniteSets

CONSTANTS Ids,        \* ids of banners; an id is never used twice
          Requests,   \* concurrent requests
          MaxActive,  \* _MAX_ACTIVE_BANNERS, also the highest priority
          Ttl,        \* _BANNERS_CACHE_TTL, in ticks
          MaxRead,    \* the longest time from a reader's query to its fill
          None        \* no banner

ASSUME BannersAssumption ==
  /\ MaxActive \in Nat \ {0}
  /\ Ttl \in Nat \ {0}
  /\ MaxRead \in Nat
  /\ None \notin Ids

Priorities == 1..MaxActive

VARIABLES
  row,    \* row[b]: the row of website_banners
  gone,   \* gone[b]: ticks since b was last active, as far as Horizon
  shown,  \* the banners in the cached list
  ttl,    \* ticks until the cached list expires, 0 when there is none
  req     \* req[r]: what request r does

vars == <<row, gone, shown, ttl, req>>

Row == [state : {"absent", "active", "inactive", "deleted"}, priority : Priorities]

\* state, priority: what a handler will write, "keep" and 0 for a column it
\* leaves alone; limit, check: whether the limit and which priority it has
\* still to check; list: the banners a reader found, age: how long ago.
Request == [pc : {"idle", "fill", "write", "clear"}, id : Ids \cup {None},
            state : {"keep", "new", "active", "inactive", "deleted"},
            priority : Priorities \cup {0},
            limit : BOOLEAN, check : Priorities \cup {0},
            list : SUBSET Ids, age : 0..MaxRead]

Absent == [state |-> "absent", priority |-> 1]
Deleted == [state |-> "deleted", priority |-> 1]

Idle == [pc |-> "idle", id |-> None, state |-> "keep", priority |-> 0,
         limit |-> FALSE, check |-> 0, list |-> {}, age |-> 0]

Horizon == MaxRead + Ttl

Init ==
  /\ row = [b \in Ids |-> Absent]
  /\ gone = [b \in Ids |-> Horizon]
  /\ shown = {}
  /\ ttl = 0
  /\ req = [r \in Requests |-> Idle]

Active == {b \in Ids : row[b].state = "active"}

At(r, p) == req[r].pc = p
End(r) == req' = [req EXCEPT ![r] = Idle]

-----------------------------------------------------------------------------
(* get_active_banners.                                                     *)

\* The cache is empty, or Redis does not answer: the table is queried.  A hit
\* changes nothing.
ReadMiss(r) ==
  /\ At(r, "idle")
  /\ req' = [req EXCEPT ![r] = [Idle EXCEPT !.pc = "fill", !.list = Active]]
  /\ UNCHANGED <<row, gone, shown, ttl>>

Fill(r) ==
  /\ At(r, "fill")
  /\ shown' = req[r].list
  /\ ttl' = Ttl
  /\ End(r)
  /\ UNCHANGED <<row, gone>>

-----------------------------------------------------------------------------
(* The administrators' handlers.                                           *)

Exists(b) == row[b].state \in {"active", "inactive"}

Write(r, b, s, p, limit, check) ==
  /\ At(r, "idle")
  /\ req' = [req EXCEPT ![r] = [Idle EXCEPT !.pc = "write", !.id = b, !.state = s,
                !.priority = p, !.limit = limit, !.check = check]]
  /\ UNCHANGED <<row, gone, shown, ttl>>

CreateBanner(r, b, p) ==
  /\ row[b].state = "absent"
  /\ \A q \in Requests : req[q].id # b
  /\ Write(r, b, "new", p, TRUE, p)

\* A value that was sent but equals the loaded one is not written.
Changed(sent, loaded, keep) == IF sent = loaded THEN keep ELSE sent

\* s and p: the is_active and the priority sent, "keep" and 0 when they are not.
UpdateBanner(r, b, s, p) ==
  /\ Exists(b)
  /\ Write(r, b, Changed(s, row[b].state, "keep"), Changed(p, row[b].priority, 0),
           s = "active" /\ row[b].state = "inactive", p)

DeactivateBanner(r, b) ==
  /\ Exists(b)
  /\ Write(r, b, Changed("inactive", row[b].state, "keep"), 0, FALSE, 0)

DeleteBanner(r, b) ==
  /\ Exists(b)
  /\ Write(r, b, "deleted", 0, FALSE, 0)

\* A check that fails ends the request (Abort).
AssertUnderLimit(r) ==
  /\ At(r, "write")
  /\ req[r].limit
  /\ Cardinality(Active) < MaxActive
  /\ req' = [req EXCEPT ![r].limit = FALSE]
  /\ UNCHANGED <<row, gone, shown, ttl>>

AssertPriorityFree(r) ==
  /\ At(r, "write")
  /\ req[r].check # 0
  /\ ~req[r].limit
  /\ \A b \in Active \ {req[r].id} : row[b].priority # req[r].check
  /\ req' = [req EXCEPT ![r].check = 0]
  /\ UNCHANGED <<row, gone, shown, ttl>>

\* Mutant: no partial unique index.
NoIndex(rows) == TRUE

\* The partial unique index on the priority of active banners.
Index(rows) ==
  \A b, c \in Ids :
    rows[b].state = "active" /\ rows[c].state = "active"
      /\ rows[b].priority = rows[c].priority => b = c

\* The row after the commit: only the changed columns are written.
Written(r) ==
  LET now == row[req[r].id]  s == req[r].state  p == req[r].priority
  IN  IF s = "deleted" THEN Deleted
      ELSE [state |-> CASE s = "new" -> "active" [] s = "keep" -> now.state [] OTHER -> s,
            priority |-> IF p = 0 THEN now.priority ELSE p]

\* An update of a row that is gone fails; a second deletion finds nothing to do.
Commit(r) ==
  LET b == req[r].id IN
  /\ At(r, "write")
  /\ ~req[r].limit
  /\ req[r].check = 0
  /\ Exists(b) \/ req[r].state \in {"new", "deleted"}
  /\ row' = [row EXCEPT ![b] = Written(r)]
  /\ Index(row')
  /\ gone' = [gone EXCEPT ![b] = IF b \in Active THEN 0 ELSE @]
  /\ req' = [req EXCEPT ![r] = [Idle EXCEPT !.pc = "clear"]]
  /\ UNCHANGED <<shown, ttl>>

\* _invalidate_banners_cache; when Redis fails, the list stays (Abort).
Clear(r) ==
  /\ At(r, "clear")
  /\ shown' = {}
  /\ ttl' = 0
  /\ End(r)
  /\ UNCHANGED <<row, gone>>

\* A check, a commit or Redis fails, or the process dies.
Abort(r) ==
  /\ ~At(r, "idle")
  /\ End(r)
  /\ UNCHANGED <<row, gone, shown, ttl>>

-----------------------------------------------------------------------------
(* Time.                                                                   *)

\* Mutant: the list is cached for a tick too long.
TickLate ==
  /\ \A r \in Requests : At(r, "fill") => req[r].age < MaxRead
  /\ gone' = [b \in Ids |-> IF b \notin Active /\ gone[b] < Horizon
                            THEN gone[b] + 1 ELSE gone[b]]
  /\ req' = [r \in Requests |-> IF At(r, "fill") THEN [req[r] EXCEPT !.age = @ + 1]
                                                 ELSE req[r]]
  /\ ttl' = IF ttl = 0 THEN 0 ELSE ttl - 1
  /\ shown' = IF ttl = 0 THEN {} ELSE shown
  /\ UNCHANGED row

Tick ==
  /\ \A r \in Requests : At(r, "fill") => req[r].age < MaxRead
  /\ gone' = [b \in Ids |-> IF b \notin Active /\ gone[b] < Horizon
                            THEN gone[b] + 1 ELSE gone[b]]
  /\ req' = [r \in Requests |-> IF At(r, "fill") THEN [req[r] EXCEPT !.age = @ + 1]
                                                 ELSE req[r]]
  /\ ttl' = IF ttl = 0 THEN 0 ELSE ttl - 1
  /\ shown' = IF ttl > 1 THEN shown ELSE {}
  /\ UNCHANGED row

Next ==
  \/ \E r \in Requests :
       \/ ReadMiss(r) \/ Fill(r)
       \/ \E b \in Ids :
            \/ \E p \in Priorities : CreateBanner(r, b, p)
            \/ \E s \in {"active", "inactive", "keep"}, p \in Priorities \cup {0} :
                 UpdateBanner(r, b, s, p)
            \/ DeactivateBanner(r, b)
            \/ DeleteBanner(r, b)
       \/ AssertUnderLimit(r) \/ AssertPriorityFree(r)
       \/ Commit(r) \/ Clear(r) \/ Abort(r)
  \/ Tick

Spec == Init /\ [][Next]_vars

-----------------------------------------------------------------------------
(* Properties.                                                             *)

TypeOK ==
  /\ row \in [Ids -> Row]
  /\ gone \in [Ids -> 0..Horizon]
  /\ shown \subseteq Ids
  /\ ttl \in 0..Ttl
  /\ req \in [Requests -> Request]

\* No more than MaxActive banners are active, although _assert_under_limit
\* counts them long before the commit: the unique index over as many
\* priorities is what holds the limit when handlers race.
ActiveWithinLimit == Cardinality(Active) <= MaxActive

\* A banner that was taken off leaves the cached list before Horizon ticks have
\* passed, also when the cache was not cleared or a slow reader filled it again
\* with what it had found before.
TakenOffVanishes == \A b \in shown : b \notin Active => gone[b] < Horizon
=============================================================================
