--------------------------- MODULE BannersProofs ---------------------------
(***************************************************************************)
(* Theorems about Banners, for any number of banners and requests, any     *)
(* limit, and any lifetime of the cache.                                   *)
(***************************************************************************)
EXTENDS Banners, FiniteSetTheorems, TLAPS

USE BannersAssumption

\* A handler that is about to write has a banner.
WritesOne == \A r \in Requests : At(r, "write") => req[r].id \in Ids

\* What a reader found and is no longer active went away since it looked.
ListIsYoung ==
  \A r \in Requests : At(r, "fill") =>
    \A b \in req[r].list : b \notin Active => gone[b] <= req[r].age

\* What the cache holds and is no longer active is younger the longer the
\* cache still lives.
CacheIsYoung ==
  /\ ttl = 0 => shown = {}
  /\ \A b \in shown : b \notin Active => gone[b] + ttl <= Horizon

IInv == TypeOK /\ WritesOne /\ Index(row) /\ ListIsYoung /\ CacheIsYoung

LEMMA HorizonType == Horizon \in Nat
BY DEF Horizon

LEMMA IdleType == Idle \in Request /\ Absent \in Row /\ Deleted \in Row
BY DEF Idle, Request, Absent, Deleted, Row, Priorities

LEMMA InitIInv == Init => IInv
<1> SUFFICES ASSUME Init PROVE IInv
  OBVIOUS
<1>1. TypeOK
  BY IdleType, HorizonType DEF Init, TypeOK
<1>2. WritesOne /\ ListIsYoung /\ CacheIsYoung
  BY DEF Init, WritesOne, ListIsYoung, CacheIsYoung, At, Idle
<1>3. Index(row)
  BY DEF Init, Index, Absent
<1> QED BY <1>1, <1>2, <1>3 DEF IInv

\* The steps of the handlers before the commit touch nothing but the request,
\* which does not become a reader.
LEMMA HandlerEffect ==
  ASSUME TypeOK, WritesOne, NEW r \in Requests,
         \/ \E b \in Ids :
              \/ \E p \in Priorities : CreateBanner(r, b, p)
              \/ \E s \in {"active", "inactive", "keep"}, p \in Priorities \cup {0} :
                   UpdateBanner(r, b, s, p)
              \/ DeactivateBanner(r, b)
              \/ DeleteBanner(r, b)
         \/ AssertUnderLimit(r) \/ AssertPriorityFree(r)
  PROVE  /\ UNCHANGED <<row, gone, shown, ttl>>
         /\ req' \in [Requests -> Request]
         /\ WritesOne'
         /\ \A q \in Requests : At(q, "fill")' => At(q, "fill") /\ req'[q] = req[q]
<1> DEFINE Goal == /\ UNCHANGED <<row, gone, shown, ttl>>
                   /\ req' \in [Requests -> Request]
                   /\ WritesOne'
                   /\ \A q \in Requests : At(q, "fill")' => At(q, "fill") /\ req'[q] = req[q]
<1>1. ASSUME NEW b \in Ids, NEW s \in {"keep", "new", "active", "inactive", "deleted"},
             NEW p \in Priorities \cup {0}, NEW limit \in BOOLEAN,
             NEW check \in Priorities \cup {0}, Write(r, b, s, p, limit, check)
      PROVE  Goal
  <2>1. req'[r] = [Idle EXCEPT !.pc = "write", !.id = b, !.state = s, !.priority = p,
                               !.limit = limit, !.check = check]
    BY <1>1 DEF Write, TypeOK
  <2>2. req'[r] \in Request /\ req'[r].pc = "write" /\ req'[r].id = b
    BY <2>1, IdleType DEF Request
  <2>3. req' = [req EXCEPT ![r] = req'[r]] /\ UNCHANGED <<row, gone, shown, ttl>>
    BY <1>1, <2>1 DEF Write
  <2> QED BY <2>2, <2>3 DEF TypeOK, WritesOne, At
<1>2. ASSUME NEW b \in Ids, NEW p \in Priorities, CreateBanner(r, b, p) PROVE Goal
  <2>1. Write(r, b, "new", p, TRUE, p)
    BY <1>2 DEF CreateBanner
  <2> QED BY <2>1, <1>1
<1>3. ASSUME NEW b \in Ids, NEW s \in {"active", "inactive", "keep"},
             NEW p \in Priorities \cup {0}, UpdateBanner(r, b, s, p)
      PROVE  Goal
  <2> DEFINE s1 == Changed(s, row[b].state, "keep")
             p1 == Changed(p, row[b].priority, 0)
             l1 == (s = "active" /\ row[b].state = "inactive")
  <2>1. Write(r, b, s1, p1, l1, p)
    BY <1>3 DEF UpdateBanner
  <2>2. s1 \in {"keep", "new", "active", "inactive", "deleted"}
        /\ p1 \in Priorities \cup {0} /\ l1 \in BOOLEAN
    BY DEF Changed
  <2> HIDE DEF s1, p1, l1
  <2> QED BY <2>1, <2>2, <1>1
<1>4. ASSUME NEW b \in Ids, DeactivateBanner(r, b) PROVE Goal
  <2> DEFINE s1 == Changed("inactive", row[b].state, "keep")
  <2>1. Write(r, b, s1, 0, FALSE, 0)
    BY <1>4 DEF DeactivateBanner
  <2>2. s1 \in {"keep", "new", "active", "inactive", "deleted"}
    BY DEF Changed
  <2> HIDE DEF s1
  <2> QED BY <2>1, <2>2, <1>1
<1>5. ASSUME NEW b \in Ids, DeleteBanner(r, b) PROVE Goal
  <2>1. Write(r, b, "deleted", 0, FALSE, 0)
    BY <1>5 DEF DeleteBanner
  <2> QED BY <2>1, <1>1
<1>6. CASE AssertUnderLimit(r) \/ AssertPriorityFree(r)
  <2> DEFINE next == IF AssertUnderLimit(r) THEN [req[r] EXCEPT !.limit = FALSE]
                                            ELSE [req[r] EXCEPT !.check = 0]
  <2>0. req[r] \in Request /\ At(r, "write") /\ req' = [req EXCEPT ![r] = next]
    BY <1>6 DEF AssertUnderLimit, AssertPriorityFree, TypeOK
  <2>1. next \in Request /\ next.pc = "write" /\ next.id = req[r].id
    BY <2>0 DEF Request, At
  <2>2. UNCHANGED <<row, gone, shown, ttl>>
    BY <1>6 DEF AssertUnderLimit, AssertPriorityFree
  <2> HIDE DEF next
  <2> QED BY <2>0, <2>1, <2>2 DEF TypeOK, WritesOne, At
<1> QED BY <1>2, <1>3, <1>4, <1>5, <1>6

\* A row that a handler writes is a row.
LEMMA WrittenType ==
  ASSUME TypeOK, NEW r \in Requests, req[r].id \in Ids,
         Exists(req[r].id) \/ req[r].state \in {"new", "deleted"}
  PROVE  Written(r) \in Row
<1> DEFINE now == row[req[r].id]
<1>1. now \in Row /\ req[r] \in Request
  BY DEF TypeOK
<1>2. CASE req[r].state = "deleted"
  BY <1>2, IdleType DEF Written
<1>3. CASE req[r].state # "deleted"
  BY <1>1, <1>3 DEF Written, Row, Request
<1> QED BY <1>2, <1>3

LEMMA CommitStep ==
  ASSUME IInv, NEW r \in Requests, Commit(r) PROVE IInv'
<1> DEFINE b == req[r].id
<1>1. /\ b \in Ids /\ row' = [row EXCEPT ![b] = Written(r)] /\ Index(row')
      /\ gone' = [gone EXCEPT ![b] = IF b \in Active THEN 0 ELSE @]
      /\ req' = [req EXCEPT ![r] = [Idle EXCEPT !.pc = "clear"]]
      /\ UNCHANGED <<shown, ttl>>
      /\ Exists(b) \/ req[r].state \in {"new", "deleted"}
  BY DEF Commit, IInv, WritesOne
<1>2. Written(r) \in Row
  BY <1>1, WrittenType DEF IInv
<1>3. [Idle EXCEPT !.pc = "clear"] \in Request
  BY IdleType DEF Idle, Request
<1> HIDE DEF b
<1>4. TypeOK'
  BY <1>1, <1>2, <1>3, HorizonType DEF IInv, TypeOK
<1>5. \A q \in Requests : q # r => req'[q] = req[q]
  BY <1>1 DEF IInv, TypeOK
<1>6. req'[r].pc = "clear"
  BY <1>1 DEF IInv, TypeOK, Idle
<1>7. \A c \in Ids : c \notin Active' => (gone'[c] = gone[c] /\ c \notin Active) \/ gone'[c] = 0
  BY <1>1 DEF IInv, TypeOK, Active
<1>8. WritesOne'
  BY <1>5, <1>6 DEF IInv, WritesOne, At
<1>9. ListIsYoung'
  <2> SUFFICES ASSUME NEW q \in Requests, At(q, "fill")', NEW c \in req'[q].list,
                      c \notin Active'
               PROVE  gone'[c] <= req'[q].age
    BY DEF ListIsYoung
  <2>1. req'[q] = req[q] /\ At(q, "fill")
    BY <1>5, <1>6 DEF At
  <2>2. c \in Ids /\ req[q].age \in Nat
    BY <2>1 DEF IInv, TypeOK, Request
  <2> QED BY <1>7, <2>1, <2>2 DEF IInv, ListIsYoung
<1>10. CacheIsYoung'
  <2> SUFFICES ASSUME NEW c \in shown, c \notin Active' PROVE gone'[c] + ttl <= Horizon
    BY <1>1 DEF IInv, CacheIsYoung
  <2>1. c \in Ids /\ ttl \in 0..Ttl /\ gone[c] \in Nat
    BY HorizonType DEF IInv, TypeOK
  <2>2. 0 + ttl <= Horizon
    BY <2>1 DEF Horizon
  <2> QED BY <1>7, <2>1, <2>2 DEF IInv, CacheIsYoung
<1> QED BY <1>1, <1>4, <1>8, <1>9, <1>10 DEF IInv

LEMMA FillStep ==
  ASSUME IInv, NEW r \in Requests, Fill(r) PROVE IInv'
<1>1. /\ At(r, "fill") /\ shown' = req[r].list /\ ttl' = Ttl
      /\ req' = [req EXCEPT ![r] = Idle] /\ UNCHANGED <<row, gone>>
  BY DEF Fill, End
<1>2. req[r] \in Request /\ req'[r] = Idle /\ \A q \in Requests : q # r => req'[q] = req[q]
  BY <1>1 DEF IInv, TypeOK
<1>3. TypeOK'
  BY <1>1, <1>2, IdleType DEF IInv, TypeOK, Request
<1>4. WritesOne' /\ ListIsYoung' /\ Index(row)'
  BY <1>1, <1>2 DEF IInv, WritesOne, ListIsYoung, At, Idle, Active, Index
<1>5. CacheIsYoung'
  <2> SUFFICES ASSUME NEW c \in shown', c \notin Active' PROVE gone'[c] + ttl' <= Horizon
    BY <1>1 DEF CacheIsYoung
  <2>1. c \in req[r].list /\ c \notin Active /\ gone'[c] = gone[c]
    BY <1>1 DEF Active
  <2>2. gone[c] <= req[r].age
    BY <1>1, <2>1 DEF IInv, ListIsYoung
  <2>3. gone[c] \in Nat /\ req[r].age \in 0..MaxRead
    BY <1>2, <2>1, HorizonType DEF IInv, TypeOK, Request
  <2> QED BY <1>1, <2>1, <2>2, <2>3 DEF Horizon
<1> QED BY <1>3, <1>4, <1>5 DEF IInv

LEMMA TickStep ==
  ASSUME IInv, Tick PROVE IInv'
<1> USE HorizonType
<1>0. gone' = [c \in Ids |-> gone'[c]] /\ req' = [r \in Requests |-> req'[r]]
  BY DEF Tick
<1>1. /\ \A r \in Requests : At(r, "fill") => req[r].age < MaxRead
      /\ \A c \in Ids : /\ gone'[c] \in 0..Horizon
                        /\ c \notin Active => gone'[c] <= gone[c] + 1
      /\ \A r \in Requests : req'[r] = IF At(r, "fill") THEN [req[r] EXCEPT !.age = @ + 1]
                                                         ELSE req[r]
      /\ ttl' = (IF ttl = 0 THEN 0 ELSE ttl - 1)
      /\ shown' = (IF ttl > 1 THEN shown ELSE {})
      /\ Active' = Active /\ row' = row
  BY DEF Tick, IInv, TypeOK, Active
<1>2. \A r \in Requests :
        /\ req[r] \in Request /\ req'[r] \in Request
        /\ req'[r].pc = req[r].pc /\ req'[r].id = req[r].id /\ req'[r].list = req[r].list
        /\ At(r, "fill") => req'[r].age = req[r].age + 1
  <2> TAKE r \in Requests
  <2>1. req[r] \in Request
    BY DEF IInv, TypeOK
  <2>2. CASE At(r, "fill")
    <3>1. req[r].age \in 0..MaxRead /\ req[r].age < MaxRead
      BY <1>1, <2>1, <2>2 DEF Request
    <3>2. req[r].age + 1 \in 0..MaxRead
      BY <3>1
    <3>3. req'[r] = [req[r] EXCEPT !.age = @ + 1]
      BY <1>1, <2>2
    <3> QED BY <2>1, <3>2, <3>3 DEF Request
  <2>3. CASE ~At(r, "fill")
    BY <1>1, <2>1, <2>3
  <2> QED BY <2>2, <2>3
<1>3. TypeOK'
  <2>1. gone' \in [Ids -> 0..Horizon]
    <3>1. \A c \in Ids : gone'[c] \in 0..Horizon
      BY <1>1
    <3> QED BY <3>1, <1>0
  <2>2. req' \in [Requests -> Request]
    BY <1>2, <1>0
  <2> QED BY <1>1, <2>1, <2>2 DEF IInv, TypeOK
<1>4. WritesOne' /\ Index(row)'
  BY <1>1, <1>2 DEF IInv, WritesOne, At, Index
<1>5. ListIsYoung'
  <2> SUFFICES ASSUME NEW q \in Requests, At(q, "fill")', NEW c \in req'[q].list,
                      c \notin Active'
               PROVE  gone'[c] <= req'[q].age
    BY DEF ListIsYoung
  <2>1. At(q, "fill") /\ c \in req[q].list /\ c \notin Active /\ c \in Ids
    BY <1>1, <1>2 DEF At, Request
  <2>4. req[q].age \in Nat /\ gone[c] \in Nat
    BY <2>1, <1>2 DEF Request, IInv, TypeOK
  <2>2. gone[c] <= req[q].age
    BY <2>1 DEF IInv, ListIsYoung
  <2>3. gone'[c] \in Nat /\ gone'[c] <= gone[c] + 1 /\ req'[q].age = req[q].age + 1
    BY <1>1, <1>2, <2>1
  <2> QED BY <2>2, <2>3, <2>4
<1>6. CacheIsYoung'
  <2>1. ttl' = 0 => shown' = {}
    BY <1>1 DEF IInv, TypeOK
  <2>2. ASSUME NEW c \in shown', c \notin Active' PROVE gone'[c] + ttl' <= Horizon
    <3>0. ttl \in Nat /\ shown \subseteq Ids
      BY DEF IInv, TypeOK
    <3>1. ttl > 1 /\ c \in shown /\ c \in Ids /\ c \notin Active /\ ttl' = ttl - 1
      BY <1>1, <2>2, <3>0
    <3>2. gone[c] + ttl <= Horizon /\ gone[c] \in Nat
      BY <3>1 DEF IInv, TypeOK, CacheIsYoung
    <3>3. gone'[c] \in Nat /\ gone'[c] <= gone[c] + 1
      BY <1>1, <3>1
    <3> QED BY <3>0, <3>1, <3>2, <3>3
  <2> QED BY <2>1, <2>2 DEF CacheIsYoung
<1> QED BY <1>3, <1>4, <1>5, <1>6 DEF IInv

LEMMA NextIInv == IInv /\ [Next]_vars => IInv'
<1> SUFFICES ASSUME IInv, [Next]_vars PROVE IInv'
  OBVIOUS
<1>1. ASSUME /\ UNCHANGED <<row, gone, shown, ttl>> /\ req' \in [Requests -> Request]
             /\ WritesOne'
             /\ \A q \in Requests : At(q, "fill")' => At(q, "fill") /\ req'[q] = req[q]
      PROVE  IInv'
  BY <1>1 DEF IInv, TypeOK, Index, ListIsYoung, CacheIsYoung, Active
<1>2. ASSUME NEW r \in Requests, ReadMiss(r) PROVE IInv'
  <2> DEFINE reader == [Idle EXCEPT !.pc = "fill", !.list = Active]
  <2>1. /\ req' = [req EXCEPT ![r] = reader] /\ UNCHANGED <<row, gone, shown, ttl>>
    BY <1>2 DEF ReadMiss
  <2>2. reader \in Request /\ reader.list = Active /\ reader.pc = "fill"
    BY IdleType DEF Request, Active
  <2> HIDE DEF reader
  <2> QED BY <2>1, <2>2 DEF IInv, TypeOK, Index, WritesOne, ListIsYoung, CacheIsYoung,
                            Active, At
<1>3. ASSUME NEW r \in Requests, NEW b \in Ids,
             \/ \E p \in Priorities : CreateBanner(r, b, p)
             \/ \E s \in {"active", "inactive", "keep"}, p \in Priorities \cup {0} :
                  UpdateBanner(r, b, s, p)
             \/ DeactivateBanner(r, b)
             \/ DeleteBanner(r, b)
      PROVE  IInv'
  BY <1>1, <1>3, HandlerEffect DEF IInv
<1>4. ASSUME NEW r \in Requests, AssertUnderLimit(r) \/ AssertPriorityFree(r) PROVE IInv'
  BY <1>1, <1>4, HandlerEffect DEF IInv
<1>5. ASSUME NEW r \in Requests, Clear(r) PROVE IInv'
  <2>1. req' = [req EXCEPT ![r] = Idle] /\ shown' = {} /\ ttl' = 0 /\ UNCHANGED <<row, gone>>
    BY <1>5 DEF Clear, End
  <2>2. Idle \in Request /\ Idle.pc = "idle"
    BY IdleType DEF Idle
  <2> QED BY <2>1, <2>2 DEF IInv, TypeOK, Index, WritesOne, ListIsYoung, CacheIsYoung,
                            Active, At
<1>6. ASSUME NEW r \in Requests, Abort(r) PROVE IInv'
  <2>1. req' = [req EXCEPT ![r] = Idle] /\ UNCHANGED <<row, gone, shown, ttl>>
    BY <1>6 DEF Abort, End
  <2>2. Idle \in Request /\ Idle.pc = "idle"
    BY IdleType DEF Idle
  <2> QED BY <2>1, <2>2, <1>1 DEF IInv, TypeOK, WritesOne, At
<1>7. CASE UNCHANGED vars
  BY <1>7 DEF vars, IInv, TypeOK, Index, WritesOne, ListIsYoung, CacheIsYoung, Active, At
<1> QED BY <1>2, <1>3, <1>4, <1>5, <1>6, <1>7, FillStep, CommitStep, TickStep DEF Next

\* Every reachable state satisfies the inductive invariant.
THEOREM Inductive == Spec => []IInv
BY InitIInv, NextIInv, PTL DEF Spec

\* Rows, cache and requests keep their types.
THEOREM TypeCorrect == Spec => []TypeOK
<1>1. IInv => TypeOK
  BY DEF IInv
<1> QED BY <1>1, Inductive, PTL

\* The unique index holds the limit: active banners have different priorities
\* and there are no more priorities than the limit allows banners.
LEMMA IndexBounds == TypeOK /\ Index(row) => ActiveWithinLimit
<1> SUFFICES ASSUME TypeOK, Index(row) PROVE ActiveWithinLimit
  OBVIOUS
<1> DEFINE f == [b \in Active |-> row[b].priority]
<1>1. f \in Injection(Active, Priorities)
  <2>1. \A b \in Active : b \in Ids /\ row[b].state = "active" /\ row[b].priority \in Priorities
    BY DEF Active, TypeOK, Row
  <2>2. f \in [Active -> Priorities]
    BY <2>1
  <2>3. \A a, b \in Active : f[a] = f[b] => a = b
    BY <2>1 DEF Index
  <2> QED BY <2>2, <2>3 DEF Injection, IsInjective
<1>2. IsFiniteSet(Priorities) /\ Cardinality(Priorities) = MaxActive
  BY FS_Interval DEF Priorities
<1>3. Cardinality(Active) <= Cardinality(Priorities)
  BY <1>1, <1>2, FS_Injection
<1> QED BY <1>2, <1>3 DEF ActiveWithinLimit

\* However create, update and their checks race, no more banners are active
\* than the limit allows.
THEOREM LimitHolds == Spec => []ActiveWithinLimit
<1>1. IInv => ActiveWithinLimit
  BY IndexBounds DEF IInv
<1> QED BY <1>1, Inductive, PTL

\* A banner that was taken off is out of the cached list after the longest
\* read and the lifetime of the cache, whether or not the cache was cleared.
THEOREM CacheForgets == Spec => []TakenOffVanishes
<1>1. IInv => TakenOffVanishes
  <2> SUFFICES ASSUME IInv, NEW b \in shown, b \notin Active PROVE gone[b] < Horizon
    BY DEF TakenOffVanishes
  <2>1. gone[b] \in Nat /\ ttl \in Nat /\ ttl # 0 /\ gone[b] + ttl <= Horizon
    BY HorizonType DEF IInv, TypeOK, CacheIsYoung
  <2> QED BY <2>1, HorizonType
<1> QED BY <1>1, Inductive, PTL
=============================================================================
