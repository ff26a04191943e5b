---------------------------- MODULE SalesProofs ----------------------------
(***************************************************************************)
(* Theorems about Sales, for any requests, writers and overrides, any      *)
(* rates and markups, lifetimes and holding times.                         *)
(***************************************************************************)
EXTENDS Sales, TLAPS

-----------------------------------------------------------------------------
(* The arithmetic: ROUND_HALF_UP is off by half a unit at most.            *)

LEMMA RoundedTenths ==
  ASSUME NEW n \in Nat
  PROVE  /\ Rounded(n, 10) \in Nat
         /\ 20 * Rounded(n, 10) <= 2 * n + 10
         /\ 2 * n + 10 < 20 * Rounded(n, 10) + 20
BY DEF Rounded

LEMMA RoundedRate ==
  ASSUME NEW n \in Nat
  PROVE  /\ Rounded(n, 10000) \in Nat
         /\ 20000 * Rounded(n, 10000) <= 2 * n + 10000
         /\ 2 * n + 10000 < 20000 * Rounded(n, 10000) + 20000
BY DEF Rounded

LEMMA Scaled ==
  ASSUME NEW a \in Int, NEW b \in Nat, NEW n \in Nat, -b <= a, a <= b
  PROVE  n * a \in (-(n * b))..(n * b)
<1>1. n * (b - a) >= 0 /\ n * (a + b) >= 0
  BY SMT
<1>2. n * (b - a) = n * b - n * a /\ n * (a + b) = n * a + n * b
  BY SMT
<1>3. n * a \in Int /\ n * b \in Int
  BY SMT
<1> QED BY <1>1, <1>2, <1>3

\* Marking up a rounded fare instead of the fare itself.
LEMMA MarkupOfRounded ==
  ASSUME NEW m \in Nat, NEW p \in Nat
  PROVE  /\ (p + 2999) \div 2000 \in Nat
         /\ MarkupPrice(m, p) \in Int /\ MarkupPrice(10 * Cents(m), p) \in Int
         /\ -((p + 2999) \div 2000) <= MarkupPrice(m, p) - MarkupPrice(10 * Cents(m), p)
         /\ MarkupPrice(m, p) - MarkupPrice(10 * Cents(m), p) <= (p + 2999) \div 2000
<1> DEFINE off == (p + 2999) \div 2000
           q == 1000 + p
           c == Cents(m)
           e == m - 10 * c
           n1 == m * q
           n2 == (10 * c) * q
           x == Rounded(n1, 10000)
           y == Rounded(n2, 10000)
<1>1. c \in Nat /\ e \in (-5)..5 /\ q \in Nat
  <2>1. c \in Nat /\ 20 * c <= 2 * m + 10 /\ 2 * m + 10 < 20 * c + 20
    BY RoundedTenths DEF Cents
  <2> QED BY <2>1
<1> HIDE DEF c
<1>2. n1 \in Nat /\ n2 \in Nat
  BY <1>1
<1>3. n1 = n2 + e * q
  BY <1>1
<1>4. e * q \in Int /\ -(5 * q) <= e * q /\ e * q <= 5 * q
  BY <1>1
<1>5. off \in Nat /\ 2000 * off > p + 999
  OBVIOUS
<1>6. x = MarkupPrice(m, p) /\ y = MarkupPrice(10 * Cents(m), p)
  BY DEF MarkupPrice, c
<1> HIDE DEF off, e, n1, n2
<1>7. x \in Nat /\ 20000 * x <= 2 * n1 + 10000 /\ 2 * n1 + 10000 < 20000 * x + 20000
  BY <1>2, RoundedRate
<1>8. y \in Nat /\ 20000 * y <= 2 * n2 + 10000 /\ 2 * n2 + 10000 < 20000 * y + 20000
  BY <1>2, RoundedRate
<1> HIDE DEF x, y
<1>9. -off <= x - y /\ x - y <= off
  BY <1>2, <1>3, <1>4, <1>5, <1>7, <1>8
<1> QED BY <1>5, <1>6, <1>7, <1>8, <1>9 DEF off

\* A total of cents lies between its estimates, before and after the conversion.
LEMMA EstimatesAround ==
  ASSUME NEW n \in Nat
  PROVE  /\ EstimateMin(n) \in Nat /\ EstimateMin(n) <= n
         /\ EstimateMax(n) \in Nat /\ n <= EstimateMax(n)
<1>1. /\ Rounded(n * 9, 10) \in Nat /\ 20 * Rounded(n * 9, 10) <= 18 * n + 10
  BY RoundedTenths, n * 9 \in Nat
<1>2. /\ Rounded(n * 11, 10) \in Nat /\ 22 * n + 10 < 20 * Rounded(n * 11, 10) + 20
  BY RoundedTenths, n * 11 \in Nat
<1> QED BY <1>1, <1>2 DEF EstimateMin, EstimateMax

LEMMA MmkMonotone ==
  ASSUME NEW a \in Nat, NEW b \in Nat, NEW k \in Nat, a <= b
  PROVE  TotalMmk(a, k) \in Nat /\ TotalMmk(b, k) \in Nat /\ TotalMmk(a, k) <= TotalMmk(b, k)
<1> DEFINE n == a * k
           o == b * k
<1>1. n \in Nat /\ o \in Nat
  OBVIOUS
<1>2. n <= o
  <2>1. (b - a) * k >= 0 /\ (b - a) * k = b * k - a * k
    OBVIOUS
  <2> QED BY <1>1, <2>1
<1> HIDE DEF n, o
<1>3. /\ Rounded(n, 10000) \in Nat /\ 20000 * Rounded(n, 10000) <= 2 * n + 10000
      /\ Rounded(o, 10000) \in Nat /\ 2 * o + 10000 < 20000 * Rounded(o, 10000) + 20000
  BY <1>1, RoundedRate
<1>4. Rounded(n, 10000) <= Rounded(o, 10000)
  BY <1>1, <1>2, <1>3
<1> QED BY <1>3, <1>4 DEF TotalMmk, n, o

\* To convert the estimate is to estimate the conversion, but for the rounding.
Tenths(n, g) == Rounded(n * g, 10)

Close(a, b, k) == a - b \in (-(k \div 20000 + 2))..(k \div 20000 + 2)

LEMMA EstimateThenConvert ==
  ASSUME NEW u \in Nat, NEW k \in Nat, NEW g \in {9, 11}
  PROVE  Close(TotalMmk(Tenths(u, g), k), Tenths(TotalMmk(u, k), g), k)
<1> DEFINE est == Rounded(u * g, 10)
           f == 10 * est - u * g
           n1 == est * k
           n2 == u * k
           x == Rounded(n1, 10000)
           m == Rounded(n2, 10000)
           y == Rounded(m * g, 10)
<1>1. est \in Nat /\ f \in (-5)..5
  <2>1. u * g \in Nat
    OBVIOUS
  <2>2. est \in Nat /\ 20 * est <= 2 * (u * g) + 10 /\ 2 * (u * g) + 10 < 20 * est + 20
    BY <2>1, RoundedTenths
  <2> QED BY <2>1, <2>2
<1> HIDE DEF est
<1>2. n1 \in Nat /\ n2 \in Nat
  BY <1>1
<1>3. 10 * n1 = n2 * g + f * k
  BY <1>1
<1>4. f * k \in Int /\ -(5 * k) <= f * k /\ f * k <= 5 * k
  BY <1>1
<1> HIDE DEF f, n1, n2
<1>5. x \in Nat /\ 20000 * x <= 2 * n1 + 10000 /\ 2 * n1 + 10000 < 20000 * x + 20000
  BY <1>2, RoundedRate
<1>6. m \in Nat /\ 20000 * m <= 2 * n2 + 10000 /\ 2 * n2 + 10000 < 20000 * m + 20000
  BY <1>2, RoundedRate
<1> HIDE DEF x, m
<1>7. y \in Nat /\ 20 * y <= 2 * (m * g) + 10 /\ 2 * (m * g) + 10 < 20 * y + 20
  <2>1. m * g \in Nat
    BY <1>6
  <2> QED BY <2>1, RoundedTenths
<1> HIDE DEF y
<1>8. x - y \in (-(k \div 20000 + 2))..(k \div 20000 + 2)
  <2>1. CASE g = 9
    BY <1>2, <1>3, <1>4, <1>5, <1>6, <1>7, <2>1
  <2>2. CASE g = 11
    BY <1>2, <1>3, <1>4, <1>5, <1>6, <1>7, <2>2
  <2> QED BY <2>1, <2>2
<1> QED BY <1>8 DEF TotalMmk, Tenths, Close, x, y, m, n1, n2, est

-----------------------------------------------------------------------------
(* The search: an entry of the cache loses as much of its lifetime as its  *)
(* list gains in age, and a list in hand ages with the time it is held.    *)

USE SalesAssumption DEF Settings!SettingsAssumption, Search!SearchAssumption

Entries == [ttl : 0..Ttl, age : Search!Ages, readable : BOOLEAN]
States  == [pc : {"idle", "look", "fetch", "fill", "fares"}, kind : Kinds,
            tries : 0..(Search!Attempts - 1), age : Search!Ages, held : 0..MaxHold]

Young(e) == e.ttl > 0 => e.age + e.ttl <= Ttl + MaxHold

Timely(s) ==
  /\ s.pc \in {"idle", "look", "fetch"} => s.held = 0
  /\ s.pc = "fill" => s.age = s.held
  /\ s.pc = "fares" => s.age < Ttl + MaxHold + s.held

SearchInv ==
  /\ Search!TypeOK
  /\ \A k \in Kinds : Young(cache[k])
  /\ \A r \in Requests : Timely(search[r])

LEMMA SearchTypes ==
  /\ Search!TypeOK <=> cache \in [Kinds -> Entries] /\ search \in [Requests -> States]
  /\ (Search!TypeOK <=> cache \in [Kinds -> Entries] /\ search \in [Requests -> States])'
BY DEF Search!TypeOK, Entries, States

LEMMA AgesType == Search!Ages = 0..(Ttl + 2 * MaxHold) /\ Search!Attempts = 3
BY DEF Search!Ages, Search!MaxAge, Search!Attempts

LEMMA GrowsOlder ==
  ASSUME NEW a \in Nat, NEW h \in Nat, a < Ttl + MaxHold + h, h < MaxHold
  PROVE  a + 1 \in Search!Ages /\ h + 1 \in 0..MaxHold
<1>1. Ttl \in Nat /\ MaxHold \in Nat
  OBVIOUS
<1> QED BY <1>1, AgesType

LEMMA NoEntryFits == Search!NoEntry \in Entries /\ Young(Search!NoEntry)
BY AgesType DEF Search!NoEntry, Entries, Young

LEMMA NoSearchFits ==
  ASSUME NEW k \in Kinds
  PROVE  Search!NoSearch(k) \in States /\ Timely(Search!NoSearch(k))
BY AgesType DEF Search!NoSearch, States, Timely

\* A step of one search, with at most one entry of the cache.
LEMMA SearchMoves ==
  ASSUME SearchInv, NEW r \in Requests, NEW s \in States, Timely(s),
         search' = [search EXCEPT ![r] = s],
         \/ UNCHANGED cache
         \/ \E k \in Kinds, e \in Entries : Young(e) /\ cache' = [cache EXCEPT ![k] = e]
  PROVE  SearchInv'
<1>1. cache \in [Kinds -> Entries] /\ search \in [Requests -> States]
  BY SearchTypes DEF SearchInv
<1>2. cache' \in [Kinds -> Entries] /\ search' \in [Requests -> States]
  BY <1>1
<1>3. \A k \in Kinds : Young(cache'[k])
  BY <1>1 DEF SearchInv
<1>4. \A q \in Requests : Timely(search'[q])
  BY <1>1 DEF SearchInv
<1> QED BY <1>2, <1>3, <1>4, SearchTypes DEF SearchInv, Young, Timely

LEMMA SearchEnded ==
  ASSUME SearchInv, NEW r \in Requests, Search!End(r),
         \/ UNCHANGED cache
         \/ \E k \in Kinds, e \in Entries : Young(e) /\ cache' = [cache EXCEPT ![k] = e]
  PROVE  SearchInv'
<1>1. search[r].kind \in Kinds
  BY SearchTypes DEF SearchInv, States
<1>2. search' = [search EXCEPT ![r] = Search!NoSearch(search[r].kind)]
  BY DEF Search!End
<1> QED BY <1>1, <1>2, NoSearchFits, SearchMoves

LEMMA SearchStepKeeps ==
  ASSUME SearchInv, NEW r \in Requests, Search!Step(r)
  PROVE  SearchInv'
<1> DEFINE s == search[r]
           Goes(t) == search' = [search EXCEPT ![r] = t]
<1>1. s \in States /\ Timely(s) /\ s.kind \in Kinds /\ Search!Entry(r) \in Entries
      /\ Young(Search!Entry(r)) /\ search \in [Requests -> States]
  BY SearchTypes DEF SearchInv, States, Search!Entry
<1>2. CASE Search!Hit(r)
  <2> DEFINE t == [s EXCEPT !.pc = "fares", !.age = Search!Entry(r).age]
  <2>1. Goes(t)
    BY <1>1, <1>2 DEF Search!Hit
  <2>2. t \in States
    BY <1>1 DEF States, Entries
  <2>3. Timely(t)
    BY <1>1, <1>2, AgesType DEF States, Entries, Timely, Young, Search!Hit
  <2> QED BY <1>2, <2>1, <2>2, <2>3, SearchMoves DEF Search!Hit
<1>3. CASE Search!Miss(r)
  <2> DEFINE t == [s EXCEPT !.pc = "fetch"]
  <2>1. Goes(t) /\ t \in States /\ Timely(t)
    BY <1>1, <1>3 DEF Search!Miss, Search!Goto, States, Timely
  <2> QED BY <1>3, <2>1, SearchMoves DEF Search!Miss
<1>4. CASE Search!Unreadable(r)
  <2>1. CASE Search!Goto(r, "fetch") /\ cache' = [cache EXCEPT ![s.kind] = Search!NoEntry]
    <3> DEFINE t == [s EXCEPT !.pc = "fetch"]
    <3>1. Goes(t) /\ t \in States /\ Timely(t)
      BY <1>1, <1>4, <2>1 DEF Search!Unreadable, Search!Goto, States, Timely
    <3> QED BY <1>1, <2>1, <3>1, NoEntryFits, SearchMoves
  <2>2. CASE Search!End(r) /\ UNCHANGED cache
    BY <2>2, SearchEnded
  <2> QED BY <1>4, <2>1, <2>2 DEF Search!Unreadable
<1>5. CASE Search!Answered(r)
  <2> DEFINE t == [s EXCEPT !.pc = "fill", !.age = 0, !.held = 0]
  <2>1. Goes(t)
    BY <1>1, <1>5 DEF Search!Answered
  <2>2. t \in States
    <3>1. 0 \in 0..MaxHold /\ 0 \in Search!Ages
      BY AgesType
    <3> QED BY <1>1, <3>1 DEF States
  <2>3. Timely(t)
    <3>1. t.pc = "fill" /\ t.age = 0 /\ t.held = 0
      <4>1. s \in States
        BY <1>1
      <4> HIDE DEF s
      <4> QED BY <4>1 DEF States
    <3> HIDE DEF t
    <3> QED BY <3>1 DEF Timely
  <2> QED BY <1>5, <2>1, <2>2, <2>3, SearchMoves DEF Search!Answered
<1>6. CASE Search!AttemptFails(r)
  <2>1. CASE s.tries + 1 < Search!Attempts /\ search' = [search EXCEPT ![r].tries = @ + 1]
    <3> DEFINE t == [s EXCEPT !.tries = @ + 1]
    <3>1. Goes(t)
      BY <1>1, <2>1
    <3>2. t \in States
      <4>1. s \in States /\ s.tries + 1 \in 0..(Search!Attempts - 1)
        BY <1>1, <2>1, AgesType DEF States
      <4> HIDE DEF s
      <4> QED BY <4>1 DEF States
    <3>3. t.pc = s.pc /\ t.age = s.age /\ t.held = s.held
      BY <1>1 DEF States
    <3>4. Timely(s)
      BY <1>1
    <3>5. Timely(t)
      <4> HIDE DEF s, t
      <4> QED BY <3>3, <3>4 DEF Timely
    <3> QED BY <1>6, <3>1, <3>2, <3>5, SearchMoves DEF Search!AttemptFails
  <2>2. CASE Search!End(r)
    BY <1>6, <2>2, SearchEnded DEF Search!AttemptFails
  <2> QED BY <1>6, <2>1, <2>2 DEF Search!AttemptFails
<1>7. CASE Search!AnswerGarbled(r)
  BY <1>7, SearchEnded DEF Search!AnswerGarbled
<1>8. CASE Search!Fill(r) \/ Search!FillFails(r)
  <2> DEFINE t == [s EXCEPT !.pc = "fares", !.held = 0]
             e == [ttl |-> Ttl, age |-> s.age, readable |-> TRUE]
  <2>1. Goes(t) /\ s.pc = "fill"
    BY <1>1, <1>8 DEF Search!Fill, Search!FillFails
  <2>2. s.age = s.held /\ s.held \in 0..MaxHold
    BY <1>1, <2>1 DEF Timely, States
  <2>3. t \in States /\ Timely(t)
    <3>1. 0 \in 0..MaxHold
      OBVIOUS
    <3>2. t \in States
      BY <1>1, <3>1 DEF States
    <3>3. Timely(t)
      BY <1>1, <2>2 DEF States, Timely
    <3> QED BY <3>2, <3>3
  <2>4. e \in Entries /\ Young(e)
    BY <1>1, <2>2, AgesType DEF Entries, Young
  <2>5. UNCHANGED cache \/ cache' = [cache EXCEPT ![s.kind] = e]
    BY <1>8 DEF Search!Fill, Search!FillFails
  <2> QED BY <1>1, <2>1, <2>3, <2>4, <2>5, SearchMoves
<1> QED BY <1>2, <1>3, <1>4, <1>5, <1>6, <1>7, <1>8 DEF Search!Step

LEMMA SearchBeginKeeps ==
  ASSUME SearchInv, NEW r \in Requests, NEW k \in Kinds, Search!Begin(r, k)
  PROVE  SearchInv'
<1> DEFINE t == [Search!NoSearch(k) EXCEPT !.pc = "look"]
<1>1. t \in States /\ Timely(t)
  BY AgesType DEF Search!NoSearch, States, Timely
<1> QED BY <1>1, SearchMoves DEF Search!Begin

LEMMA SearchGarbleKeeps ==
  ASSUME SearchInv, NEW k \in Kinds, Search!Garble(k)
  PROVE  SearchInv'
<1> DEFINE e == [cache[k] EXCEPT !.readable = FALSE]
<1>1. cache \in [Kinds -> Entries] /\ Young(cache[k]) /\ cache[k] \in Entries
  BY SearchTypes DEF SearchInv
<1>2. e \in Entries
  BY <1>1 DEF Entries
<1>3. Young(e)
  BY <1>1 DEF Entries, Young
<1>4. cache' = [cache EXCEPT ![k] = e] /\ UNCHANGED search
  BY <1>1 DEF Search!Garble
<1>5. cache' \in [Kinds -> Entries]
  BY <1>1, <1>2, <1>4
<1>6. \A i \in Kinds : Young(cache'[i])
  BY <1>1, <1>3, <1>4 DEF SearchInv
<1> QED BY <1>4, <1>5, <1>6, SearchTypes DEF SearchInv, Young, Timely

LEMMA SearchTickKeeps == ASSUME SearchInv, Search!Tick PROVE SearchInv'
<1>1. cache \in [Kinds -> Entries] /\ search \in [Requests -> States]
  BY SearchTypes DEF SearchInv
<1>2. ASSUME NEW k \in Kinds
      PROVE  cache'[k] \in Entries /\ Young(cache'[k])
  <2>1. CASE cache[k].ttl <= 1
    <3>1. cache'[k] = Search!NoEntry
      BY <2>1 DEF Search!Tick
    <3> QED BY <3>1, NoEntryFits
  <2>2. CASE ~(cache[k].ttl <= 1)
    <3> DEFINE e == [cache[k] EXCEPT !.ttl = @ - 1, !.age = @ + 1]
    <3>1. cache'[k] = e
      BY <2>2 DEF Search!Tick
    <3>2. cache[k] \in Entries /\ Young(cache[k])
      BY <1>1 DEF SearchInv
    <3>3. cache[k].ttl - 1 \in 0..Ttl /\ cache[k].age + 1 \in Search!Ages
      BY <2>2, <3>2, AgesType DEF Entries, Young
    <3>4. e \in Entries
      BY <3>2, <3>3 DEF Entries
    <3>5. Young(e)
      <4>1. e.ttl = cache[k].ttl - 1 /\ e.age = cache[k].age + 1
        BY <3>2 DEF Entries
      <4>2. cache[k].ttl \in Nat /\ cache[k].age \in Nat
        BY <3>2, AgesType DEF Entries
      <4> HIDE DEF e
      <4> QED BY <2>2, <3>2, <4>1, <4>2 DEF Young
    <3> QED BY <3>1, <3>4, <3>5
  <2> QED BY <2>1, <2>2
<1>3. ASSUME NEW r \in Requests
      PROVE  search'[r] \in States /\ Timely(search'[r])
  <2>1. search[r] \in States /\ Timely(search[r])
    BY <1>1 DEF SearchInv
  <2>2. CASE Search!Holding(r)
    <3> DEFINE t == [search[r] EXCEPT !.age = @ + 1, !.held = @ + 1]
    <3>1. search'[r] = t /\ search[r].held < MaxHold /\ search[r].pc \in {"fill", "fares"}
      BY <2>2 DEF Search!Tick, Search!Holding
    <3>2. search[r].age + 1 \in Search!Ages /\ search[r].held + 1 \in 0..MaxHold
      <4>1. search[r].age \in Nat /\ search[r].held \in Nat
        BY <2>1, AgesType DEF States
      <4>2. search[r].age < Ttl + MaxHold + search[r].held
        BY <2>1, <3>1, <4>1 DEF Timely
      <4> QED BY <3>1, <4>1, <4>2, GrowsOlder
    <3>3. t \in States
      BY <2>1, <3>2 DEF States
    <3>4. /\ search[r].age \in Nat /\ search[r].held \in Nat
          /\ t.pc = search[r].pc /\ t.age = search[r].age + 1 /\ t.held = search[r].held + 1
      BY <2>1, AgesType DEF States
    <3> HIDE DEF t
    <3>5. Timely(t)
      BY <2>1, <3>1, <3>4 DEF Timely
    <3> QED BY <3>1, <3>3, <3>5
  <2>3. CASE ~Search!Holding(r)
    BY <2>1, <2>3 DEF Search!Tick
  <2> QED BY <2>2, <2>3
<1>4. cache' \in [Kinds -> Entries] /\ search' \in [Requests -> States]
  BY <1>2, <1>3 DEF Search!Tick
<1> QED BY <1>2, <1>3, <1>4, SearchTypes DEF SearchInv, Young, Timely

LEMMA SearchInitKeeps == Search!Init => SearchInv
<1> SUFFICES ASSUME Search!Init PROVE SearchInv
  OBVIOUS
<1>1. cache \in [Kinds -> Entries] /\ \A k \in Kinds : Young(cache[k])
  BY NoEntryFits DEF Search!Init
<1>2. search \in [Requests -> States] /\ \A r \in Requests : Timely(search[r])
  BY NoSearchFits DEF Search!Init
<1> QED BY <1>1, <1>2, SearchTypes DEF SearchInv

-----------------------------------------------------------------------------
(* The overrides: of two creations one deactivates the other, or neither   *)
(* saw the other committed.                                                *)

Looked(o)  == stage[o] \in {"updated", "active"}
Unbegun(o) == stage[o] \in {"absent", "begun"}

\* o deactivates p when it commits, and p was committed when o looked.
ClearsRows == \A o, p \in Settings!Overrides :
  p \in cleared[o] => stage[o] = "updated" /\ stage[p] \in {"active", "inactive"}

\* Who has not looked yet was not committed when another looked.
LateAreUnseen == \A o, p \in Settings!Overrides :
  o # p /\ Looked(o) /\ Unbegun(p) => p \in blind[o]

ClearedOrOverlapped == \A o, p \in Settings!Overrides :
  o # p /\ Looked(o) /\ Looked(p) =>
    p \in cleared[o] \/ o \in cleared[p] \/ Settings!Overlapped(o, p)

OverrideInv == ClearsRows /\ LateAreUnseen /\ ClearedOrOverlapped

TableType ==
  /\ stage   \in [Settings!Overrides -> Settings!Stages]
  /\ life    \in [Settings!Overrides -> (0..Life) \cup {Forever}]
  /\ cleared \in [Settings!Overrides -> SUBSET Settings!Overrides]
  /\ blind   \in [Settings!Overrides -> SUBSET Settings!Overrides]

LEMMA BeginOverrideKeeps ==
  ASSUME TableType, OverrideInv, NEW o \in Settings!Overrides, Settings!BeginOverride(o)
  PROVE  TableType' /\ OverrideInv'
<1> USE DEF TableType, OverrideInv, Settings!BeginOverride
<1>1. TableType'
  BY DEF Settings!Stages
<1>2. \A p \in Settings!Overrides : /\ Looked(p)' => Looked(p)
                                    /\ Unbegun(p)' => Unbegun(p)
  BY DEF Looked, Unbegun
<1>3. ClearsRows'
  BY DEF ClearsRows
<1>4. LateAreUnseen'
  BY <1>2 DEF LateAreUnseen, Looked, Unbegun
<1>5. ClearedOrOverlapped'
  BY <1>2 DEF ClearedOrOverlapped, Looked, Settings!Overlapped
<1> QED BY <1>1, <1>3, <1>4, <1>5

LEMMA ClearOverridesKeeps ==
  ASSUME TableType, OverrideInv, NEW o \in Settings!Overrides,
         NEW ticks \in (1..Life) \cup {Forever}, Settings!ClearOverrides(o, ticks)
  PROVE  TableType' /\ OverrideInv'
<1> USE DEF TableType, OverrideInv, Settings!ClearOverrides
<1>1. TableType'
  <2>1. ticks \in (0..Life) \cup {Forever}
    OBVIOUS
  <2> QED BY <2>1 DEF Settings!Stages, Settings!Active, Settings!Uncommitted
<1>2. \A p \in Settings!Overrides \ {o} :
        stage'[p] = stage[p] /\ cleared'[p] = cleared[p] /\ blind'[p] = blind[p]
  OBVIOUS
<1>3. /\ stage[o] = "begun" /\ stage'[o] = "updated"
      /\ cleared'[o] = Settings!Active /\ blind'[o] = Settings!Uncommitted \ {o}
  OBVIOUS
<1>4. ClearsRows'
  BY <1>2, <1>3 DEF ClearsRows, Settings!Active
<1>5. LateAreUnseen'
  BY <1>2, <1>3 DEF LateAreUnseen, Looked, Unbegun, Settings!Uncommitted
<1>6. ASSUME NEW p \in Settings!Overrides \ {o}, Looked(p)
      PROVE  p \in cleared'[o] \/ Settings!Overlapped(o, p)'
  <2>1. CASE stage[p] = "active"
    BY <1>3, <2>1 DEF Settings!Active
  <2>2. CASE stage[p] = "updated"
    <3>1. o \in blind'[p]
      BY <1>2, <1>3, <1>6 DEF LateAreUnseen, Unbegun
    <3>2. p \in blind'[o]
      BY <1>3, <2>2 DEF Settings!Uncommitted
    <3> QED BY <3>1, <3>2 DEF Settings!Overlapped
  <2> QED BY <1>6, <2>1, <2>2 DEF Looked
<1>7. ClearedOrOverlapped'
  <2> SUFFICES ASSUME NEW p \in Settings!Overrides, NEW q \in Settings!Overrides,
                      p # q, Looked(p)', Looked(q)'
               PROVE  \/ q \in cleared'[p] \/ p \in cleared'[q]
                      \/ Settings!Overlapped(p, q)'
    BY DEF ClearedOrOverlapped
  <2>1. CASE p = o
    BY <1>2, <1>6, <2>1 DEF Looked
  <2>2. CASE q = o
    BY <1>2, <1>6, <2>2 DEF Looked, Settings!Overlapped
  <2>3. CASE p # o /\ q # o
    BY <1>2, <2>3 DEF ClearedOrOverlapped, Looked, Settings!Overlapped
  <2> QED BY <2>1, <2>2, <2>3
<1> QED BY <1>1, <1>4, <1>5, <1>7

LEMMA CommitOverrideKeeps ==
  ASSUME TableType, OverrideInv, NEW o \in Settings!Overrides, Settings!CommitOverride(o)
  PROVE  TableType' /\ OverrideInv'
<1> USE DEF TableType, OverrideInv, Settings!CommitOverride
<1>1. TableType'
  BY DEF Settings!Stages
<1>2. o \notin cleared[o] /\ stage[o] = "updated" /\ stage'[o] = "active" /\ cleared'[o] = {}
  BY DEF ClearsRows
<1>3. \A p \in cleared[o] : stage'[p] = "inactive" /\ cleared[p] = {}
  BY <1>2 DEF ClearsRows
<1>4. \A p \in Settings!Overrides : p \notin cleared[o] => blind'[p] = blind[p]
  OBVIOUS
<1>5. \A p \in Settings!Overrides \ {o} :
        /\ cleared'[p] = cleared[p]
        /\ p \notin cleared[o] => stage'[p] = stage[p]
  OBVIOUS
<1>6. ClearsRows'
  BY <1>2, <1>3, <1>5 DEF ClearsRows
<1> HIDE DEF TableType, Settings!CommitOverride
<1>7. ASSUME NEW p \in Settings!Overrides, Looked(p)'
      PROVE  Looked(p) /\ p \notin cleared[o] /\ blind'[p] = blind[p]
  BY <1>2, <1>3, <1>4, <1>5, <1>7 DEF Looked
<1>8. LateAreUnseen'
  <2> SUFFICES ASSUME NEW p \in Settings!Overrides, NEW q \in Settings!Overrides,
                      p # q, Looked(p)', Unbegun(q)'
               PROVE  q \in blind'[p]
    BY DEF LateAreUnseen
  <2>1. Unbegun(q)
    BY <1>2, <1>3, <1>5 DEF Unbegun
  <2> QED BY <1>7, <2>1 DEF LateAreUnseen
<1>9. ClearedOrOverlapped'
  <2> SUFFICES ASSUME NEW p \in Settings!Overrides, NEW q \in Settings!Overrides,
                      p # q, Looked(p)', Looked(q)'
               PROVE  \/ q \in cleared'[p] \/ p \in cleared'[q]
                      \/ Settings!Overlapped(p, q)'
    BY DEF ClearedOrOverlapped
  <2>1. q \in cleared[p] \/ p \in cleared[q] \/ Settings!Overlapped(p, q)
    BY <1>7 DEF ClearedOrOverlapped
  <2>2. \A i \in {p, q} : i = o \/ cleared'[i] = cleared[i]
    BY <1>5
  <2> QED BY <1>7, <2>1, <2>2 DEF Settings!Overlapped
<1> QED BY <1>1, <1>6, <1>8, <1>9

LEMMA OverrideFailsKeeps ==
  ASSUME TableType, OverrideInv, NEW o \in Settings!Overrides, Settings!OverrideFails(o)
  PROVE  TableType' /\ OverrideInv'
<1> USE DEF TableType, OverrideInv, Settings!OverrideFails
<1>1. TableType'
  BY DEF Settings!Stages
<1>2. \A p \in Settings!Overrides \ {o} :
        stage'[p] = stage[p] /\ cleared'[p] = cleared[p] /\ blind'[p] = blind[p]
  OBVIOUS
<1>3. stage[o] \in {"begun", "updated"} /\ stage'[o] = "failed" /\ cleared'[o] = {}
  OBVIOUS
<1>4. ClearsRows'
  BY <1>2, <1>3 DEF ClearsRows
<1>5. LateAreUnseen'
  BY <1>2, <1>3 DEF LateAreUnseen, Looked, Unbegun
<1>6. ClearedOrOverlapped'
  BY <1>2, <1>3 DEF ClearedOrOverlapped, Looked, Settings!Overlapped, ClearsRows
<1> QED BY <1>1, <1>4, <1>5, <1>6

LEMMA DeactivateKeeps ==
  ASSUME TableType, OverrideInv, NEW S \in SUBSET Settings!Active, Settings!Deactivate(S)
  PROVE  TableType' /\ OverrideInv'
<1> USE DEF TableType, OverrideInv, Settings!Deactivate
<1>1. TableType'
  BY DEF Settings!Stages
<1>2. \A p \in Settings!Overrides \ S : stage'[p] = stage[p] /\ blind'[p] = blind[p]
  OBVIOUS
<1>3. \A p \in S : p \in Settings!Overrides /\ stage[p] = "active" /\ stage'[p] = "inactive"
  BY DEF Settings!Active
<1>4. cleared' = cleared
  OBVIOUS
<1>5. ClearsRows'
  BY <1>2, <1>3, <1>4 DEF ClearsRows
<1>6. LateAreUnseen'
  BY <1>2, <1>3 DEF LateAreUnseen, Looked, Unbegun
<1>7. ClearedOrOverlapped'
  BY <1>2, <1>3, <1>4 DEF ClearedOrOverlapped, Looked, Settings!Overlapped
<1> QED BY <1>1, <1>5, <1>6, <1>7

LEMMA OverrideStepKeeps ==
  ASSUME TableType, OverrideInv,
         \/ \E o \in Settings!Overrides : Settings!OverrideStep(o)
         \/ Settings!DeactivateExpired
  PROVE  TableType' /\ OverrideInv'
<1>1. ASSUME NEW o \in Settings!Overrides, Settings!DeactivateOverride(o)
      PROVE  TableType' /\ OverrideInv'
  BY <1>1, DeactivateKeeps, {o} \in SUBSET Settings!Active DEF Settings!DeactivateOverride
<1>2. CASE Settings!DeactivateExpired
  <2>1. {o \in Settings!Active : life[o] = 0} \in SUBSET Settings!Active
    OBVIOUS
  <2> QED BY <1>2, <2>1, DeactivateKeeps DEF Settings!DeactivateExpired
<1> QED BY <1>1, <1>2, BeginOverrideKeeps, ClearOverridesKeeps, CommitOverrideKeeps,
           OverrideFailsKeeps DEF Settings!OverrideStep

LEMMA OverrideTickKeeps ==
  ASSUME TableType, OverrideInv, Settings!Tick
  PROVE  TableType' /\ OverrideInv'
<1>1. \A o \in Settings!Overrides : life'[o] \in (0..Life) \cup {Forever}
  BY DEF TableType, Settings!Tick
<1>2. TableType'
  BY <1>1 DEF TableType, Settings!Tick
<1> QED BY <1>2 DEF Settings!Tick, OverrideInv, ClearsRows, LateAreUnseen,
                    ClearedOrOverlapped, Looked, Unbegun, Settings!Overlapped

-----------------------------------------------------------------------------
(* Exchange rate and markup.                                               *)

ConfigType ==
  /\ rate \in Rates \cup {Unset}
  /\ markup \in Markups \cup {Unset}
  /\ writer \in [Writers -> [op : {"none", "update_global_markup", "update_exchange_rate"},
                             pc : {"begun", "found", "missing"},
                             copy : Rates \cup Markups \cup {Unset}]]

LEMMA DefaultMarkupType ==
  ASSUME ConfigType
  PROVE  Settings!DefaultMarkup \in Markups /\ Settings!DefaultMarkup # Unset
BY DEF ConfigType, Settings!DefaultMarkup

\* A writer changes one of the two values, and of the table nothing.
LEMMA WriterStepKeeps ==
  ASSUME ConfigType, NEW w \in Writers, Settings!WriterStep(w)
  PROVE  /\ ConfigType'
         /\ UNCHANGED <<stage, life, cleared, blind>>
         /\ rate' = rate \/ Settings!DefaultMarkup' = Settings!DefaultMarkup
<1> USE DEF ConfigType, Settings!Idle, Settings!TableUnchanged
<1>1. ASSUME NEW op \in {"update_global_markup", "update_exchange_rate"},
             Settings!WriterReads(w, op)
      PROVE  /\ ConfigType' /\ UNCHANGED <<stage, life, cleared, blind>>
             /\ rate' = rate \/ Settings!DefaultMarkup' = Settings!DefaultMarkup
  <2> DEFINE c == IF op = "update_global_markup" THEN markup ELSE rate
             q == [op |-> op, copy |-> c, pc |-> IF c = Unset THEN "missing" ELSE "found"]
  <2>1. c \in Rates \cup Markups \cup {Unset}
    OBVIOUS
  <2>2. writer' = [writer EXCEPT ![w] = q] /\ UNCHANGED <<rate, markup>>
        /\ UNCHANGED <<stage, life, cleared, blind>>
    BY <1>1 DEF Settings!WriterReads
  <2> HIDE DEF c
  <2>3. q \in [op : {"none", "update_global_markup", "update_exchange_rate"},
               pc : {"begun", "found", "missing"}, copy : Rates \cup Markups \cup {Unset}]
    BY <2>1
  <2> HIDE DEF q
  <2>4. writer' \in [Writers -> [op : {"none", "update_global_markup", "update_exchange_rate"},
                                 pc : {"begun", "found", "missing"},
                                 copy : Rates \cup Markups \cup {Unset}]]
    BY <2>2, <2>3
  <2> QED BY <2>2, <2>4
<1>2. CASE Settings!WriterCreatesConfig(w)
  <2>1. /\ markup' = Settings!DefaultMarkup /\ rate' = rate
        /\ writer' = [writer EXCEPT ![w].pc = "found", ![w].copy = Settings!DefaultMarkup]
        /\ UNCHANGED <<stage, life, cleared, blind>>
    BY <1>2 DEF Settings!WriterCreatesConfig
  <2>2. writer[w] \in [op : {"none", "update_global_markup", "update_exchange_rate"},
                       pc : {"begun", "found", "missing"}, copy : Rates \cup Markups \cup {Unset}]
    OBVIOUS
  <2> DEFINE q == [writer[w] EXCEPT !.pc = "found", !.copy = Settings!DefaultMarkup]
  <2>3. q \in [op : {"none", "update_global_markup", "update_exchange_rate"},
               pc : {"begun", "found", "missing"}, copy : Rates \cup Markups \cup {Unset}]
    BY <2>2, DefaultMarkupType
  <2>4. writer' = [writer EXCEPT ![w] = q]
    BY <2>1
  <2> HIDE DEF q
  <2>5. writer' \in [Writers -> [op : {"none", "update_global_markup", "update_exchange_rate"},
                                 pc : {"begun", "found", "missing"},
                                 copy : Rates \cup Markups \cup {Unset}]]
    BY <2>3, <2>4
  <2>6. ConfigType'
    BY <2>1, <2>5, DefaultMarkupType
  <2> QED BY <2>1, <2>6
<1>3. ASSUME NEW m \in Markups, Settings!WriterSetsMarkup(w, m)
      PROVE  /\ ConfigType' /\ UNCHANGED <<stage, life, cleared, blind>>
             /\ rate' = rate \/ Settings!DefaultMarkup' = Settings!DefaultMarkup
  BY <1>3 DEF Settings!WriterSetsMarkup
<1>4. ASSUME NEW k \in Rates, Settings!WriterSetsRate(w, k)
      PROVE  /\ ConfigType' /\ UNCHANGED <<stage, life, cleared, blind>>
             /\ rate' = rate \/ Settings!DefaultMarkup' = Settings!DefaultMarkup
  BY <1>4 DEF Settings!WriterSetsRate, Settings!DefaultMarkup
<1>5. CASE Settings!WriterFails(w)
  BY <1>5 DEF Settings!WriterFails
<1> QED BY <1>1, <1>2, <1>3, <1>4, <1>5 DEF Settings!WriterStep

-----------------------------------------------------------------------------
(* Prices: what a request has read is of its first settings or of the      *)
(* present ones, if at most one change was committed in between.           *)

Snapshots == [rate : Rates \cup {Unset}, markup : Markups,
              override : SUBSET Settings!Overrides]

Prices == [pc : {"none", "rate", "markup", "create", "override"},
           kind : {"ONE_WAY", "ROUND_TRIP"}, markup : Markups \cup {Unset},
           first : Snapshots, changes : 0..2]

\* At most one of the three settings differs.
Near(s, t) ==
  \/ s.rate = t.rate /\ s.markup = t.markup
  \/ s.rate = t.rate /\ s.override = t.override
  \/ s.markup = t.markup /\ s.override = t.override

Fits(p, now) ==
  /\ p.pc \in {"none", "rate"} => p.first = Blank /\ p.changes = 0
  /\ p.pc \in {"markup", "create", "override"} =>
       /\ p.first.rate # Unset
       /\ p.changes = 0 => p.first = now
       /\ p.changes = 1 => Near(p.first, now)
  /\ p.pc = "override" =>
       /\ p.markup \in Markups
       /\ p.changes # 2 => p.markup \in {p.first.markup, now.markup}

PriceInv == /\ price \in [Requests -> Prices]
            /\ \A r \in Requests : Fits(price[r], Current)

LEMMA NoPriceFits ==
  ASSUME NEW now
  PROVE  NoPrice \in Prices /\ Fits(NoPrice, now)
<1>1. Blank \in Snapshots /\ 0 \in 0..2
  BY DEF Blank, Snapshots
<1> QED BY <1>1 DEF NoPrice, Prices, Fits

LEMMA BegunFits ==
  ASSUME NEW now, NEW k \in {"ONE_WAY", "ROUND_TRIP"}
  PROVE  /\ [NoPrice EXCEPT !.pc = "rate", !.kind = k] \in Prices
         /\ Fits([NoPrice EXCEPT !.pc = "rate", !.kind = k], now)
<1> DEFINE p == [NoPrice EXCEPT !.pc = "rate", !.kind = k]
<1>1. p \in Prices
  BY NoPriceFits DEF Prices
<1>2. p.pc = "rate" /\ p.first = Blank /\ p.changes = 0
  BY DEF NoPrice
<1> HIDE DEF p
<1>3. Fits(p, now)
  BY <1>2 DEF Fits
<1> QED BY <1>1, <1>3 DEF p

LEMMA CurrentType == ConfigType => Current \in Snapshots
<1>1. Settings!InForce \in SUBSET Settings!Overrides
  BY DEF Settings!InForce, Settings!Active
<1> QED BY <1>1, DefaultMarkupType DEF ConfigType, Current, Snapshots

\* One change after another: the count and the first settings keep up.
LEMMA WatchKeeps ==
  ASSUME PriceInv, Watch, Near(Current, Current')
  PROVE  PriceInv'
<1>1. ASSUME NEW r \in Requests
      PROVE  price'[r] \in Prices /\ Fits(price'[r], Current')
  <2> DEFINE p == price[r]
             f == [Blank EXCEPT !.rate = p.first.rate]
             q == [p EXCEPT !.changes = 1]
             s == [p EXCEPT !.changes = 2, !.first = f]
             Still == p.first = Blank \/ Current' = Current \/ p.changes = 2
  <2>1. p \in Prices /\ Fits(p, Current)
    BY DEF PriceInv
  <2>2. price'[r] = IF Still THEN p ELSE IF p.changes = 0 THEN q ELSE s
    BY DEF Watch
  <2>3. CASE Still
    <3>1. p.first = Blank => p.first.rate = Unset
      BY DEF Blank
    <3>2. Fits(p, Current')
      BY <2>1, <2>3, <3>1 DEF Fits, Prices
    <3> QED BY <2>1, <2>2, <2>3, <3>2
  <2>4. CASE ~Still /\ p.changes = 0
    <3>1. price'[r] = q
      <4> HIDE DEF q, s, Still
      <4> QED BY <2>2, <2>4
    <3>2. q \in Prices
      BY <2>1 DEF Prices
    <3>3. /\ q.pc = p.pc /\ q.first = p.first /\ q.changes = 1 /\ q.markup = p.markup
          /\ p.pc \in {"markup", "create", "override"} /\ p.first = Current
      BY <2>1, <2>4 DEF Prices, Fits
    <3>4. Fits(q, Current')
      BY <2>1, <2>4, <3>3 DEF Fits
    <3> QED BY <3>1, <3>2, <3>4
  <2>5. CASE ~Still /\ p.changes = 1
    <3>1. price'[r] = s
      <4> HIDE DEF q, s, Still
      <4> QED BY <2>2, <2>5
    <3>2. f \in Snapshots /\ f.rate = p.first.rate
      BY <2>1 DEF Prices, Snapshots, Blank
    <3>3. /\ s.pc = p.pc /\ s.first = f /\ s.changes = 2 /\ s.markup = p.markup
          /\ p.pc \in {"markup", "create", "override"}
      BY <2>1, <2>5 DEF Prices, Fits
    <3> HIDE DEF f
    <3>4. s \in Prices
      BY <2>1, <3>2, 2 \in 0..2 DEF Prices
    <3> HIDE DEF s
    <3>5. Fits(s, Current')
      BY <2>1, <3>2, <3>3 DEF Fits
    <3> QED BY <3>1, <3>4, <3>5
  <2> QED BY <2>1, <2>3, <2>4, <2>5 DEF Prices
<1> QED BY <1>1 DEF Watch, PriceInv

\* A step of the settings, or time: one of the three settings changes at most.
LEMMA SettingsMove ==
  ASSUME ConfigType, TableType, OverrideInv, Settings!Next \/ Settings!Tick
  PROVE  /\ ConfigType' /\ TableType' /\ OverrideInv'
         /\ Near(Current, Current')
<1>1. CASE \E w \in Writers : Settings!WriterStep(w)
  <2>1. /\ ConfigType' /\ UNCHANGED <<stage, life, cleared, blind>>
        /\ rate' = rate \/ Settings!DefaultMarkup' = Settings!DefaultMarkup
    BY <1>1, WriterStepKeeps
  <2>2. TableType' /\ OverrideInv'
    BY <2>1 DEF TableType, OverrideInv, ClearsRows, LateAreUnseen, ClearedOrOverlapped,
                Looked, Unbegun, Settings!Overlapped
  <2>3. Settings!InForce' = Settings!InForce
    BY <2>1 DEF Settings!InForce, Settings!Active
  <2> QED BY <2>1, <2>2, <2>3 DEF Current, Near
<1>2. CASE \/ \E o \in Settings!Overrides : Settings!OverrideStep(o)
           \/ Settings!DeactivateExpired
           \/ Settings!Tick
  <2>1. UNCHANGED <<rate, markup, writer>>
    BY <1>2 DEF Settings!OverrideStep, Settings!BeginOverride, Settings!ClearOverrides,
                Settings!CommitOverride, Settings!OverrideFails, Settings!DeactivateOverride,
                Settings!DeactivateExpired, Settings!Deactivate, Settings!Tick,
                Settings!ConfigUnchanged
  <2>2. ConfigType'
    BY <2>1 DEF ConfigType
  <2>3. TableType' /\ OverrideInv'
    BY <1>2, OverrideStepKeeps, OverrideTickKeeps
  <2> QED BY <2>1, <2>2, <2>3 DEF Current, Near, Settings!DefaultMarkup
<1> QED BY <1>1, <1>2 DEF Settings!Next

\* A request reads, and nobody changes the settings.
LEMMA ReadKeeps ==
  ASSUME PriceInv, NEW r \in Requests, NEW p \in Prices, Fits(p, Current),
         price' = [price EXCEPT ![r] = p], Current' = Current
  PROVE  PriceInv'
<1>1. price' \in [Requests -> Prices]
  BY DEF PriceInv
<1>2. \A q \in Requests : Fits(price'[q], Current)
  BY DEF PriceInv
<1> QED BY <1>1, <1>2 DEF PriceInv

LEMMA GotMarkupFits ==
  ASSUME PriceInv, ConfigType, NEW r \in Requests, price[r].pc \in {"markup", "create"}
  PROVE  LET m == Settings!DefaultMarkup
         IN  GotMarkup(r, m) \in Prices /\ Fits(GotMarkup(r, m), Current)
<1> DEFINE m == Settings!DefaultMarkup
           p == price[r]
           q == [p EXCEPT !.pc = "override", !.markup = m]
<1>1. p \in Prices /\ Fits(p, Current) /\ m \in Markups /\ Current.markup = m
  BY DefaultMarkupType DEF PriceInv, Current
<1> HIDE DEF m
<1>2. q \in Prices
  BY <1>1 DEF Prices
<1>3. q.pc = "override" /\ q.first = p.first /\ q.changes = p.changes /\ q.markup = m
  BY <1>1 DEF Prices
<1> HIDE DEF p, q
<1>4. Fits(q, Current)
  BY <1>1, <1>3, p.pc \in {"markup", "create"} DEF Fits, p
<1> QED BY <1>2, <1>4, NoPriceFits DEF GotMarkup, m, p, q

SalesInv == ConfigType /\ TableType /\ OverrideInv /\ SearchInv /\ PriceInv

\* Reads of a request, and steps of its search, leave the settings as they are.
LEMMA SettingsStay ==
  ASSUME UNCHANGED settings, ConfigType, TableType, OverrideInv
  PROVE  ConfigType' /\ TableType' /\ OverrideInv' /\ Current' = Current
<1>1. UNCHANGED <<rate, markup, stage, life, cleared, blind, writer>>
  BY DEF settings
<1>2. ConfigType' /\ TableType'
  BY <1>1 DEF ConfigType, TableType
<1>3. OverrideInv'
  BY <1>1 DEF OverrideInv, ClearsRows, LateAreUnseen, ClearedOrOverlapped, Looked, Unbegun,
              Settings!Overlapped
<1>4. Current' = Current
  BY <1>1 DEF Current, Settings!DefaultMarkup, Settings!InForce, Settings!Active
<1> QED BY <1>2, <1>3, <1>4

LEMMA SearchStays == SearchInv /\ UNCHANGED searching => SearchInv'
BY DEF searching, SearchInv, Search!TypeOK, Young, Timely

LEMMA PriceStays == PriceInv /\ UNCHANGED price /\ Current' = Current => PriceInv'
BY DEF PriceInv

LEMMA ReadRateKeeps ==
  ASSUME SalesInv, NEW r \in Requests, ReadRate(r)
  PROVE  SalesInv'
<1> DEFINE p == price[r]
           q == [p EXCEPT !.pc = "markup", !.first = Current]
<1>1. /\ UNCHANGED settings /\ UNCHANGED searching /\ p.pc = "rate"
      /\ price' = [price EXCEPT ![r] = IF rate = Unset THEN NoPrice ELSE q]
  BY DEF ReadRate, Read, Pricing
<1>2. p \in Prices /\ Fits(p, Current) /\ Current \in Snapshots /\ Current.rate = rate
  BY CurrentType DEF SalesInv, PriceInv, Current
<1>3. q \in Prices
  BY <1>2 DEF Prices
<1>4. q.pc = "markup" /\ q.first = Current /\ q.changes = 0
  BY <1>1, <1>2 DEF Prices, Fits
<1> HIDE DEF q
<1>5. rate # Unset => Fits(q, Current)
  BY <1>2, <1>4 DEF Fits
<1> QED BY <1>1, <1>3, <1>5, NoPriceFits, SettingsStay, SearchStays, ReadKeeps DEF SalesInv

LEMMA ReadMarkupKeeps ==
  ASSUME SalesInv, NEW r \in Requests, ReadMarkup(r)
  PROVE  SalesInv'
<1> DEFINE p == price[r]
           q == [p EXCEPT !.pc = "create"]
<1>1. /\ UNCHANGED settings /\ UNCHANGED searching /\ p.pc = "markup"
      /\ price' = [price EXCEPT ![r] = IF markup = Unset THEN q ELSE GotMarkup(r, markup)]
  BY DEF ReadMarkup, Read, Pricing
<1>2. p \in Prices /\ Fits(p, Current)
  BY DEF SalesInv, PriceInv
<1>3. q \in Prices
  BY <1>2 DEF Prices
<1>4. q.pc = "create" /\ q.first = p.first /\ q.changes = p.changes
  BY <1>2 DEF Prices
<1>5. markup # Unset => Settings!DefaultMarkup = markup
  BY DEF Settings!DefaultMarkup
<1>6. markup # Unset => GotMarkup(r, markup) \in Prices /\ Fits(GotMarkup(r, markup), Current)
  BY <1>1, <1>5, GotMarkupFits DEF SalesInv
<1> HIDE DEF q
<1>7. Fits(q, Current)
  BY <1>1, <1>2, <1>4 DEF Fits
<1> QED BY <1>1, <1>3, <1>6, <1>7, SettingsStay, SearchStays, ReadKeeps DEF SalesInv

LEMMA CreateConfigKeeps ==
  ASSUME SalesInv, NEW r \in Requests, CreateConfig(r)
  PROVE  SalesInv'
<1>1. /\ UNCHANGED <<rate, stage, life, cleared, blind, writer>> /\ UNCHANGED searching
      /\ markup' = Settings!DefaultMarkup /\ price[r].pc = "create"
      /\ price' = [price EXCEPT ![r] = GotMarkup(r, Settings!DefaultMarkup)]
  BY DEF CreateConfig, Pricing
<1>2. ConfigType' /\ TableType' /\ OverrideInv'
  BY <1>1, DefaultMarkupType DEF SalesInv, ConfigType, TableType, OverrideInv, ClearsRows,
     LateAreUnseen, ClearedOrOverlapped, Looked, Unbegun, Settings!Overlapped
<1>3. Current' = Current
  <2>1. Settings!DefaultMarkup' = Settings!DefaultMarkup
    BY <1>1, DefaultMarkupType DEF SalesInv, Settings!DefaultMarkup
  <2>2. Settings!InForce' = Settings!InForce
    BY <1>1 DEF Settings!InForce, Settings!Active
  <2> QED BY <1>1, <2>1, <2>2 DEF Current
<1> QED BY <1>1, <1>2, <1>3, GotMarkupFits, SearchStays, ReadKeeps DEF SalesInv

LEMMA ReadOverrideKeeps ==
  ASSUME SalesInv, NEW r \in Requests, ReadOverride(r)
  PROVE  SalesInv'
<1>1. /\ UNCHANGED settings /\ UNCHANGED searching
      /\ price' = [price EXCEPT ![r] = NoPrice]
  BY DEF ReadOverride, Read
<1> QED BY <1>1, NoPriceFits, SettingsStay, SearchStays, ReadKeeps DEF SalesInv

LEMMA PriceBeginKeeps ==
  ASSUME SalesInv, NEW r \in Requests, NEW k \in {"ONE_WAY", "ROUND_TRIP"}, Begin(r, k)
  PROVE  /\ ConfigType' /\ TableType' /\ OverrideInv' /\ PriceInv'
<1>1. /\ UNCHANGED settings
      /\ price' = [price EXCEPT ![r] = [NoPrice EXCEPT !.pc = "rate", !.kind = k]]
  BY DEF Begin, Read
<1> QED BY <1>1, BegunFits, SettingsStay, ReadKeeps DEF SalesInv

LEMMA PriceStepKeeps ==
  ASSUME SalesInv, NEW r \in Requests, PriceStep(r)
  PROVE  SalesInv'
<1>1. CASE PriceFares(r)
  <2>1. Begin(r, search[r].kind) /\ Search!End(r) /\ UNCHANGED cache
    BY <1>1 DEF PriceFares
  <2>2. search[r].kind \in {"ONE_WAY", "ROUND_TRIP"}
    BY SearchTypes DEF SalesInv, SearchInv, States
  <2> QED BY <2>1, <2>2, PriceBeginKeeps, SearchEnded DEF SalesInv
<1> QED BY <1>1, ReadRateKeeps, ReadMarkupKeeps, CreateConfigKeeps, ReadOverrideKeeps
        DEF PriceStep

LEMMA SearchSideKeeps ==
  ASSUME SalesInv, NEW r \in Requests, BeginSearch(r) \/ SearchStep(r) \/ Garble
  PROVE  SalesInv'
<1>1. UNCHANGED settings /\ UNCHANGED price
  BY DEF BeginSearch, SearchStep, Garble
<1>2. SearchInv'
  BY SearchBeginKeeps, SearchStepKeeps, SearchGarbleKeeps
     DEF SalesInv, BeginSearch, SearchStep, Garble
<1> QED BY <1>1, <1>2, SettingsStay, PriceStays DEF SalesInv

-----------------------------------------------------------------------------
(* The invariant of the composition, and the theorems.                     *)

LEMMA SalesInit == Init => SalesInv
<1> SUFFICES ASSUME Init PROVE SalesInv
  OBVIOUS
<1> USE DEF Init, Settings!Init
<1>1. ConfigType
  BY DEF ConfigType, Settings!Idle
<1>2. TableType
  BY DEF TableType, Settings!Stages
<1>3. OverrideInv
  BY DEF OverrideInv, ClearsRows, LateAreUnseen, ClearedOrOverlapped, Looked
<1>4. PriceInv
  BY NoPriceFits DEF PriceInv
<1> QED BY <1>1, <1>2, <1>3, <1>4, SearchInitKeeps DEF SalesInv

LEMMA SalesNext == SalesInv /\ [Next]_vars => SalesInv'
<1> SUFFICES ASSUME SalesInv, [Next]_vars PROVE SalesInv'
  OBVIOUS
<1>1. CASE SettingsStep
  BY <1>1, SettingsMove, SearchStays, WatchKeeps DEF SalesInv, SettingsStep
<1>2. CASE Tick
  BY <1>2, SettingsMove, SearchTickKeeps, WatchKeeps DEF SalesInv, Tick
<1>3. ASSUME NEW r \in Requests, BeginSearch(r) \/ SearchStep(r)
      PROVE  SalesInv'
  BY <1>3, SearchSideKeeps
<1>4. CASE Garble
  <2>1. UNCHANGED settings /\ UNCHANGED price /\ SearchInv'
    BY <1>4, SearchGarbleKeeps DEF SalesInv, Garble
  <2> QED BY <2>1, SettingsStay, PriceStays DEF SalesInv
<1>5. ASSUME NEW r \in Requests, PriceStep(r)
      PROVE  SalesInv'
  BY <1>5, PriceStepKeeps
<1>6. ASSUME NEW r \in Requests, NEW k \in {"ONE_WAY", "ROUND_TRIP"}, PriceBooking(r, k)
      PROVE  SalesInv'
  <2>1. Begin(r, k) /\ UNCHANGED searching
    BY <1>6 DEF PriceBooking
  <2> QED BY <2>1, PriceBeginKeeps, SearchStays DEF SalesInv
<1>7. CASE UNCHANGED vars
  <2>1. UNCHANGED settings /\ UNCHANGED searching /\ UNCHANGED price
    BY <1>7 DEF vars
  <2> QED BY <2>1, SettingsStay, SearchStays, PriceStays DEF SalesInv
<1> QED BY <1>1, <1>2, <1>3, <1>4, <1>5, <1>6, <1>7 DEF Next

THEOREM SalesInductive == Spec => []SalesInv
BY SalesInit, SalesNext, PTL DEF Spec

\* Settings, overrides, the cache, searches and what was read keep their types, for
\* any lifetimes: no list of fares outgrows the range of ages.
THEOREM TypeCorrect == Spec => []TypeOK
<1>1. SalesInv => TypeOK
  BY DEF SalesInv, TypeOK, Settings!TypeOK, ConfigType, TableType, SearchInv, PriceInv,
         Prices, Snapshots
<1> QED BY <1>1, SalesInductive, PTL

\* Of any number of overrides of a flight, two are active together only if their
\* creations overlapped.
THEOREM OneActiveUnlessOverlapped == Spec => []ActiveTogetherOverlapped
<1>1. SalesInv => ActiveTogetherOverlapped
  BY DEF SalesInv, OverrideInv, ClearsRows, ClearedOrOverlapped, Looked,
         ActiveTogetherOverlapped, Settings!ActiveTogetherOverlapped, Settings!Active
<1> QED BY <1>1, SalesInductive, PTL

\* No list of fares that is priced is as old as a cache entry can get, plus two
\* holding times.
THEOREM FaresStayFresh == Spec => []FaresAreFresh
<1>1. ASSUME SalesInv PROVE FaresAreFresh
  <2>1. ASSUME NEW r \in Requests, search[r].pc = "fares"
        PROVE  search[r].age < Search!MaxAge
    <3>1. search[r] \in States /\ Timely(search[r])
      BY <1>1, SearchTypes DEF SalesInv, SearchInv
    <3>2. /\ search[r].age \in Nat /\ search[r].held \in 0..MaxHold
          /\ search[r].age < Ttl + MaxHold + search[r].held
      BY <2>1, <3>1, AgesType DEF States, Timely
    <3> QED BY <3>2 DEF Search!MaxAge
  <2> QED BY <2>1 DEF FaresAreFresh, Search!FaresAreFresh
<1>2. SalesInv => FaresAreFresh
  BY <1>1
<1> QED BY <1>2, SalesInductive, PTL

\* A markup that exists changes by an administrator's update only.
THEOREM DefaultsOverwriteNothing == Spec => OnlyAdminsChangeMarkup
<1> DEFINE ByAdmin == \E w \in Writers : /\ writer[w].op = "update_global_markup"
                                         /\ writer[w].pc = "found"
                                         /\ writer'[w] = Settings!Idle
<1>1. ASSUME SalesInv, [Next]_vars, markup # Unset, markup' # markup
      PROVE  ByAdmin
  <2>1. Settings!DefaultMarkup = markup
    BY <1>1 DEF Settings!DefaultMarkup
  <2>2. ASSUME NEW w \in Writers, Settings!WriterStep(w)
        PROVE  ByAdmin
    <3>1. PICK m \in Markups : Settings!WriterSetsMarkup(w, m)
      BY <1>1, <2>1, <2>2 DEF Settings!WriterStep, Settings!WriterReads,
         Settings!WriterCreatesConfig, Settings!WriterSetsRate, Settings!WriterFails
    <3> QED BY <1>1, <3>1 DEF Settings!WriterSetsMarkup, SalesInv, ConfigType
  <2>3. ASSUME \/ \E o \in Settings!Overrides : Settings!OverrideStep(o)
               \/ Settings!DeactivateExpired \/ Settings!Tick
        PROVE  markup' = markup
    BY <2>3 DEF Settings!OverrideStep, Settings!BeginOverride, Settings!ClearOverrides,
       Settings!CommitOverride, Settings!OverrideFails, Settings!DeactivateOverride,
       Settings!DeactivateExpired, Settings!Deactivate, Settings!Tick, Settings!ConfigUnchanged
  <2>4. ASSUME UNCHANGED settings \/ UNCHANGED vars
        PROVE  markup' = markup
    BY <2>4 DEF settings, vars
  <2>5. \A r \in Requests : ~CreateConfig(r)
    BY <1>1, <2>1 DEF CreateConfig
  <2>6. CASE Settings!Next \/ Settings!Tick
    BY <1>1, <2>2, <2>3, <2>6 DEF Settings!Next
  <2>7. CASE ~(Settings!Next \/ Settings!Tick)
    <3>1. UNCHANGED settings \/ UNCHANGED vars
      BY <1>1, <2>5, <2>7 DEF Next, SettingsStep, Tick, BeginSearch, SearchStep, Garble,
         PriceStep, PriceFares, PriceBooking, ReadRate, ReadMarkup, ReadOverride, Begin, Read
    <3> QED BY <1>1, <2>4, <3>1
  <2> QED BY <2>6, <2>7
<1>2. SalesInv /\ [Next]_vars =>
        [markup # Unset /\ markup' # markup => ByAdmin]_(Settings!settings)
  BY <1>1
<1> QED BY <1>2, SalesInductive, PTL
        DEF Spec, OnlyAdminsChangeMarkup, Settings!OnlyAdminsChangeMarkup

\* A one-way price is of the settings at one instant, or two changes were committed
\* while it was computed, for any number of administrators and requests.
THEOREM PricesAreOfAnInstant == Spec => MixedNeedsTwoChanges
<1> DEFINE Instant(r) ==
      LET used == [rate |-> price[r].first.rate, markup |-> price[r].markup,
                   override |-> Settings!InForce]
      IN  used \in {price[r].first, Current} \/ price[r].changes = 2
<1>1. ASSUME SalesInv, NEW r \in Requests, ReadOverride(r)
      PROVE  Instant(r)
  <2> DEFINE p == price[r]
             used == [rate |-> p.first.rate, markup |-> p.markup, override |-> Settings!InForce]
  <2>1. p.pc = "override" /\ p \in Prices /\ Fits(p, Current) /\ p.first \in Snapshots
    BY <1>1 DEF ReadOverride, Pricing, SalesInv, PriceInv, Prices
  <2>2. Current.override = Settings!InForce /\ Current \in Snapshots
    BY <1>1, CurrentType DEF Current, SalesInv
  <2>3. used.rate = p.first.rate /\ used.markup = p.markup /\ used.override = Current.override
    BY <2>2
  <2>4. \A s \in Snapshots : used.rate = s.rate /\ used.markup = s.markup
                              /\ used.override = s.override => used = s
    BY DEF Snapshots
  <2>5. /\ p.changes = 0 => p.first = Current
        /\ p.changes = 1 => Near(p.first, Current)
        /\ p.changes # 2 => p.markup \in {p.first.markup, Current.markup}
    BY <2>1 DEF Fits
  <2>6. p.changes \in {0, 1, 2}
    BY <2>1 DEF Prices
  <2> HIDE DEF used, p
  <2>7. p.changes = 0 => used = Current
    BY <2>1, <2>2, <2>3, <2>4, <2>5
  <2>8. p.changes = 1 => used \in {p.first, Current}
    BY <2>1, <2>2, <2>3, <2>4, <2>5 DEF Near
  <2>9. used \in {p.first, Current} \/ p.changes = 2
    BY <2>6, <2>7, <2>8
  <2> QED BY <2>9 DEF used, p
<1>2. SalesInv => [\A r \in Requests : ReadOverride(r) => Instant(r)]_vars
  BY <1>1
<1> QED BY <1>2, SalesInductive, PTL DEF MixedNeedsTwoChanges

\* A booking charges what the search showed, but for cents that the markup
\* bounds, whatever the fare, the markup and the number of passengers.
THEOREM ChargeNearShown ==
  ASSUME NEW m \in Nat, NEW fare \in Nat, NEW n \in Nat
  PROVE  LET off == n * ((m + 2999) \div 2000)
         IN  Shown(fare, m, n) - Charged(fare, m, n) \in (-off)..off
<1> DEFINE x == MarkupPrice(fare, m)
           y == MarkupPrice(10 * Cents(fare), m)
           off == (m + 2999) \div 2000
<1>1. off \in Nat /\ x \in Int /\ y \in Int /\ -off <= x - y /\ x - y <= off
  BY MarkupOfRounded
<1> HIDE DEF x, y, off
<1>2. n * (x - y) \in (-(n * off))..(n * off)
  BY <1>1, Scaled
<1>3. n * (x - y) = x * n - y * n
  BY <1>1
<1> QED BY <1>2, <1>3 DEF Shown, Charged, TotalUsd, x, y, off

\* Every total lies in the ranges displayed for it, and the ranges of a one-way
\* and a round trip agree but for rounding, whatever the total and the rate.
THEOREM EstimatesNearTotal ==
  ASSUME NEW k \in Nat, NEW usd \in Nat
  PROVE  /\ usd \in EstimateMin(usd)..EstimateMax(usd)
         /\ TotalMmk(usd, k) \in OneWayMinMmk(usd, k)..OneWayMaxMmk(usd, k)
         /\ TotalMmk(usd, k) \in RoundTripMinMmk(usd, k)..RoundTripMaxMmk(usd, k)
         /\ OneWayMinMmk(usd, k) - RoundTripMinMmk(usd, k)
               \in (-(k \div 20000 + 2))..(k \div 20000 + 2)
         /\ OneWayMaxMmk(usd, k) - RoundTripMaxMmk(usd, k)
               \in (-(k \div 20000 + 2))..(k \div 20000 + 2)
<1>1. /\ EstimateMin(usd) \in Nat /\ EstimateMin(usd) <= usd
      /\ EstimateMax(usd) \in Nat /\ usd <= EstimateMax(usd)
  BY EstimatesAround
<1>2. /\ TotalMmk(usd, k) \in Nat
      /\ OneWayMinMmk(usd, k) \in Nat /\ OneWayMinMmk(usd, k) <= TotalMmk(usd, k)
      /\ OneWayMaxMmk(usd, k) \in Nat /\ TotalMmk(usd, k) <= OneWayMaxMmk(usd, k)
  BY <1>1, MmkMonotone DEF OneWayMinMmk, OneWayMaxMmk
<1>3. /\ RoundTripMinMmk(usd, k) \in Nat /\ RoundTripMinMmk(usd, k) <= TotalMmk(usd, k)
      /\ RoundTripMaxMmk(usd, k) \in Nat /\ TotalMmk(usd, k) <= RoundTripMaxMmk(usd, k)
  BY <1>2, EstimatesAround DEF RoundTripMinMmk, RoundTripMaxMmk
<1>4. /\ OneWayMinMmk(usd, k) - RoundTripMinMmk(usd, k)
            \in (-(k \div 20000 + 2))..(k \div 20000 + 2)
      /\ OneWayMaxMmk(usd, k) - RoundTripMaxMmk(usd, k)
            \in (-(k \div 20000 + 2))..(k \div 20000 + 2)
  <2>1. /\ Close(TotalMmk(Tenths(usd, 9), k), Tenths(TotalMmk(usd, k), 9), k)
        /\ Close(TotalMmk(Tenths(usd, 11), k), Tenths(TotalMmk(usd, k), 11), k)
    BY EstimateThenConvert, 9 \in {9, 11}, 11 \in {9, 11}
  <2>2. /\ Close(OneWayMinMmk(usd, k), RoundTripMinMmk(usd, k), k)
        /\ Close(OneWayMaxMmk(usd, k), RoundTripMaxMmk(usd, k), k)
    BY <2>1 DEF OneWayMinMmk, OneWayMaxMmk, RoundTripMinMmk, RoundTripMaxMmk,
                EstimateMin, EstimateMax, Tenths
  <2> QED BY <2>2 DEF Close
<1> QED BY <1>1, <1>2, <1>3, <1>4

\* Whatever rate and markups an administrator sets: a booking charges what was
\* shown, but for cents that the markup bounds.
THEOREM ChargesMatch == Spec => ChargedIsShown
<1> DEFINE Within(m, fare, n) ==
             LET off == n * ((m + 2999) \div 2000)
             IN  Shown(fare, m, n) - Charged(fare, m, n) \in (-off)..off
           Matches(m) == \A fare \in Fares, adults \in Pax : Within(m, fare, adults)
<1>1. \A m, fare, n \in Nat : Within(m, fare, n)
  BY ChargeNearShown
<1> HIDE DEF Within
<1>2. Fares \subseteq Nat /\ Pax \subseteq Nat
  BY DEF Fares, Pax
<1>3. ASSUME SalesInv, NEW r \in Requests, ReadOverride(r)
      PROVE  Matches(price[r].markup)
  <2>1. price[r].markup \in Nat
    BY <1>3 DEF ReadOverride, Pricing, SalesInv, PriceInv, Fits
  <2> QED BY <1>1, <1>2, <2>1
<1> HIDE DEF Matches
<1>4. SalesInv => [\A r \in Requests : ReadOverride(r) => Matches(price[r].markup)]_vars
  BY <1>3
<1> QED BY <1>4, SalesInductive, PTL DEF ChargedIsShown, Matches, Within

\* The ranges that are displayed contain the price, and agree, at any exchange rate.
THEOREM EstimatesMatch == Spec => EstimatesAgree
<1> DEFINE Ranged(k, usd) ==
             LET mmk   == TotalMmk(usd, k)
                 slack == k \div 20000 + 2
             IN  /\ usd \in EstimateMin(usd)..EstimateMax(usd)
                 /\ mmk \in OneWayMinMmk(usd, k)..OneWayMaxMmk(usd, k)
                 /\ mmk \in RoundTripMinMmk(usd, k)..RoundTripMaxMmk(usd, k)
                 /\ OneWayMinMmk(usd, k) - RoundTripMinMmk(usd, k) \in (-slack)..slack
                 /\ OneWayMaxMmk(usd, k) - RoundTripMaxMmk(usd, k) \in (-slack)..slack
           Match(k) == \A usd \in Usd : Ranged(k, usd)
<1>1. \A k, usd \in Nat : Ranged(k, usd)
  BY EstimatesNearTotal
<1> HIDE DEF Ranged
<1>2. \A k \in Nat : Match(k)
  BY <1>1, Usd \subseteq Nat DEF Usd
<1>3. ASSUME SalesInv, NEW r \in Requests, ReadOverride(r)
      PROVE  Match(price[r].first.rate)
  <2>1. price[r].first.rate \in Nat
    BY <1>3 DEF ReadOverride, Pricing, SalesInv, PriceInv, Fits, Prices, Snapshots
  <2> QED BY <1>2, <2>1
<1> HIDE DEF Match
<1>4. SalesInv => [\A r \in Requests : ReadOverride(r) => Match(price[r].first.rate)]_vars
  BY <1>3
<1> QED BY <1>4, SalesInductive, PTL DEF EstimatesAgree, Match, Ranged
=============================================================================
