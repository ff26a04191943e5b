---------------------------- MODULE FlightSearch ----------------------------
(***************************************************************************)
(* The flight search up to the list of unpriced fares: a Redis cache in    *)
(* front of an external provider that may fail.                            *)
(*                                                                         *)
(* One set of search parameters is modelled for each kind of search; other *)
(* parameters have other cache keys.  A list of fares is represented by    *)
(* its age, the ticks since the provider answered.                         *)
(***************************************************************************)
EXTENDS Integers

CONSTANTS Requests,   \* searches
          Kinds,      \* of "ONE_WAY" and "ROUND_TRIP"
          Ttl,        \* FLIGHT_CACHE_TTL, in ticks
          MaxHold     \* the longest a search keeps a list before it passes it
                      \* on, to the cache or to pricing (a bound on Tick)

SearchAssumption ==
  /\ Kinds \subseteq {"ONE_WAY", "ROUND_TRIP"}
  /\ Ttl \in Nat \ {0} /\ MaxHold \in Nat

VARIABLES
  cache,    \* cache[k]: the entry of kind k
  search    \* search[r]: the state of search r

searching == <<cache, search>>

MaxAge   == Ttl + 2 * MaxHold
Attempts == 3

NoEntry == [ttl |-> 0, age |-> 0, readable |-> TRUE]
NoSearch(k) == [pc |-> "idle", kind |-> k, tries |-> 0, age |-> 0, held |-> 0]
Idle(r) == search[r].pc = "idle"

Init ==
  /\ cache = [k \in Kinds |-> NoEntry]
  /\ search \in [Requests -> {NoSearch(k) : k \in Kinds}]

Goto(r, pc) == search' = [search EXCEPT ![r].pc = pc]

\* A search that ended, or failed, leaves nothing behind.
End(r) == search' = [search EXCEPT ![r] = NoSearch(@.kind)]

Entry(r) == cache[search[r].kind]

-----------------------------------------------------------------------------
(* The cache.                                                              *)

\* The limits and dates of the request are checked: an early return otherwise.
Begin(r, k) ==
  /\ Idle(r)
  /\ search' = [search EXCEPT ![r] = [NoSearch(k) EXCEPT !.pc = "look"]]
  /\ UNCHANGED cache

Hit(r) ==
  /\ search[r].pc = "look"
  /\ Entry(r).ttl > 0 /\ Entry(r).readable
  /\ search' = [search EXCEPT ![r].pc = "fares", ![r].age = Entry(r).age]
  /\ UNCHANGED cache

\* No entry, or Redis cannot be asked: the same to the search.
Miss(r) ==
  /\ search[r].pc = "look"
  /\ Goto(r, "fetch")
  /\ UNCHANGED cache

\* An entry that is not JSON is deleted; a failure of this call is not caught.
Unreadable(r) ==
  /\ search[r].pc = "look"
  /\ Entry(r).ttl > 0 /\ ~Entry(r).readable
  /\ \/ /\ Goto(r, "fetch")
        /\ cache' = [cache EXCEPT ![search[r].kind] = NoEntry]
     \/ /\ End(r)
        /\ UNCHANGED cache

\* Mutant: SET without ex.
FillForGood(r) ==
  /\ search[r].pc = "fill"
  /\ cache' = [cache EXCEPT ![search[r].kind] =
                 [ttl |-> MaxAge + 1, age |-> search[r].age, readable |-> TRUE]]
  /\ search' = [search EXCEPT ![r].pc = "fares", ![r].held = 0]

Fill(r) ==
  /\ search[r].pc = "fill"
  /\ cache' = [cache EXCEPT ![search[r].kind] =
                 [ttl |-> Ttl, age |-> search[r].age, readable |-> TRUE]]
  /\ search' = [search EXCEPT ![r].pc = "fares", ![r].held = 0]

FillFails(r) ==
  /\ search[r].pc = "fill"
  /\ search' = [search EXCEPT ![r].pc = "fares", ![r].held = 0]
  /\ UNCHANGED cache

-----------------------------------------------------------------------------
(* The provider.                                                           *)

Answered(r) ==
  /\ search[r].pc = "fetch"
  /\ search' = [search EXCEPT ![r].pc = "fill", ![r].age = 0, ![r].held = 0]
  /\ UNCHANGED cache

\* Mutant: the attempts are not counted down.
TriesForever(r) ==
  /\ search[r].pc = "fetch"
  /\ search' = [search EXCEPT ![r].tries = (@ + 1) % Attempts]
  /\ UNCHANGED cache

\* Mutant: the last attempt is not counted as the last.
AttemptsMiscounted(r) ==
  /\ search[r].pc = "fetch"
  /\ IF search[r].tries < Attempts
       THEN search' = [search EXCEPT ![r].tries = @ + 1]
       ELSE End(r)
  /\ UNCHANGED cache

\* A timeout, an error of the connection or of the status: another attempt
\* after a pause, and 503 after the third.
AttemptFails(r) ==
  /\ search[r].pc = "fetch"
  /\ IF search[r].tries + 1 < Attempts
       THEN search' = [search EXCEPT ![r].tries = @ + 1]
       ELSE End(r)
  /\ UNCHANGED cache

\* An answer that is not JSON, or not of the expected shape, is not caught.
AnswerGarbled(r) ==
  /\ search[r].pc = "fetch"
  /\ End(r)
  /\ UNCHANGED cache

\* Something else wrote under the key.
Garble(k) ==
  /\ cache[k].ttl > 0
  /\ cache[k].readable
  /\ cache' = [cache EXCEPT ![k].readable = FALSE]
  /\ UNCHANGED search

Holding(r) == search[r].pc \in {"fill", "fares"}

\* Redis counts down, lists grow old.
Tick ==
  /\ \A r \in Requests : Holding(r) => search[r].held < MaxHold
  /\ cache' = [k \in Kinds |->
                 IF cache[k].ttl <= 1 THEN NoEntry
                 ELSE [cache[k] EXCEPT !.ttl = @ - 1, !.age = @ + 1]]
  /\ search' = [r \in Requests |->
                  IF Holding(r)
                  THEN [search[r] EXCEPT !.age = @ + 1, !.held = @ + 1]
                  ELSE search[r]]

Step(r) ==
  \/ Hit(r)
  \/ Miss(r)
  \/ Unreadable(r)
  \/ Answered(r)
  \/ AttemptFails(r)
  \/ AnswerGarbled(r)
  \/ Fill(r)
  \/ FillFails(r)

-----------------------------------------------------------------------------
(* Properties.                                                             *)

Ages == 0..MaxAge

TypeOK ==
  /\ cache \in [Kinds -> [ttl : 0..Ttl, age : Ages, readable : BOOLEAN]]
  /\ search \in [Requests ->
                   [pc : {"idle", "look", "fetch", "fill", "fares"}, kind : Kinds,
                    tries : 0..(Attempts - 1), age : Ages, held : 0..MaxHold]]

\* Every list that is priced is younger than the lifetime of a cache entry plus
\* the time two searches sat on it: the one that filled the cache, and the one
\* that read it.
FaresAreFresh ==
  \A r \in Requests : search[r].pc = "fares" => search[r].age < MaxAge

\* Every search comes to an end, however often the provider times out or fails, as
\* long as each call to Redis returns or raises.
SearchEnds == \A r \in Requests : ~Idle(r) ~> Idle(r)
=============================================================================
