------------------------------- MODULE Sales -------------------------------
(***************************************************************************)
(* Searches and bookings are priced while administrators change what       *)
(* prices depend on: FlightSearch, PriceSettings and Pricing composed.     *)
(*                                                                         *)
(* Pricing reads the exchange rate, the markup (whose row it creates when  *)
(* there is none) and, one way, the override of the flight, in a statement *)
(* each, and at READ COMMITTED each statement sees what was committed      *)
(* before it.  A booking is priced from its snapshot, without a search.    *)
(***************************************************************************)
EXTENDS Pricing

CONSTANTS Rates, Markups, Default, Unset, MaxOverrides, Life, Forever, Writers,
          Requests, Kinds, Ttl, MaxHold

VARIABLES rate, markup, stage, life, cleared, blind, writer, cache, search,
          price     \* price[r]: what request r has read of the settings

Settings == INSTANCE PriceSettings
Search   == INSTANCE FlightSearch

\* The assumptions of the two parts.
ASSUME SalesAssumption == Settings!SettingsAssumption /\ Search!SearchAssumption

settings  == <<rate, markup, stage, life, cleared, blind, writer>>
searching == <<cache, search>>
vars      == <<settings, searching, price>>

\* The settings as a request that reads them all now would find them.
Current == [rate |-> rate, markup |-> Settings!DefaultMarkup,
            override |-> Settings!InForce]

\* Nothing is read yet, or nothing has to be priced.
Blank == [rate |-> Unset, markup |-> Default, override |-> {}]

\* A request that prices nothing.  first and changes are history variables: the
\* settings at its first read, and how many changes were committed since.
NoPrice == [pc |-> "none", kind |-> "ROUND_TRIP", markup |-> Unset,
            first |-> Blank, changes |-> 0]

Init ==
  /\ Settings!Init
  /\ Search!Init
  /\ price = [r \in Requests |-> NoPrice]

-----------------------------------------------------------------------------
(* Pricing, statement by statement.                                        *)

Pricing(r, pc) == price[r].pc = pc

Read(r, state) ==
  /\ price' = [price EXCEPT ![r] = state]
  /\ UNCHANGED settings

Begin(r, kind) == Read(r, [NoPrice EXCEPT !.pc = "rate", !.kind = kind])

\* A search passes its list on.
PriceFares(r) ==
  /\ search[r].pc = "fares"
  /\ Begin(r, search[r].kind)
  /\ Search!End(r)
  /\ UNCHANGED cache

\* create_booking prices the snapshot of its payload.
PriceBooking(r, kind) ==
  /\ Search!Idle(r)
  /\ Pricing(r, "none")
  /\ Begin(r, kind)
  /\ UNCHANGED searching

\* Without an exchange rate the request fails.  The rate that is read is that of
\* first.
ReadRate(r) ==
  /\ Pricing(r, "rate")
  /\ Read(r, IF rate = Unset THEN NoPrice
             ELSE [price[r] EXCEPT !.pc = "markup", !.first = Current])
  /\ UNCHANGED searching

\* Mutant: the markup that is used is the constant.
GotDefault(r, m) ==
  IF price[r].kind = "ROUND_TRIP" THEN NoPrice
  ELSE [price[r] EXCEPT !.pc = "override", !.markup = Default]

\* The markup is the last that a round trip reads, and then it has its price.
GotMarkup(r, m) ==
  IF price[r].kind = "ROUND_TRIP" THEN NoPrice
  ELSE [price[r] EXCEPT !.pc = "override", !.markup = m]

ReadMarkup(r) ==
  /\ Pricing(r, "markup")
  /\ Read(r, IF markup = Unset THEN [price[r] EXCEPT !.pc = "create"]
             ELSE GotMarkup(r, markup))
  /\ UNCHANGED searching

\* The default is inserted and committed, or found to be there already.
CreateConfig(r) ==
  /\ Pricing(r, "create")
  /\ markup' = Settings!DefaultMarkup
  /\ price' = [price EXCEPT ![r] = GotMarkup(r, Settings!DefaultMarkup)]
  /\ UNCHANGED <<rate, stage, life, cleared, blind, writer>>
  /\ UNCHANGED searching

\* The override is looked up, and the one-way price is complete.
ReadOverride(r) ==
  /\ Pricing(r, "override")
  /\ Read(r, NoPrice)
  /\ UNCHANGED searching

PriceStep(r) ==
  \/ PriceFares(r)
  \/ ReadRate(r)
  \/ ReadMarkup(r)
  \/ CreateConfig(r)
  \/ ReadOverride(r)

-----------------------------------------------------------------------------
(* The other parts take their steps while requests are being priced.       *)

\* Requests under way count the changes, up to the two that are told apart; after
\* two, of their first settings only the rate they use is remembered.
Watch ==
  price' = [r \in Requests |->
              IF price[r].first = Blank \/ Current' = Current \/ price[r].changes = 2
                THEN price[r]
              ELSE IF price[r].changes = 0 THEN [price[r] EXCEPT !.changes = 1]
              ELSE [price[r] EXCEPT !.changes = 2,
                                    !.first = [Blank EXCEPT !.rate = price[r].first.rate]]]

SettingsStep == Settings!Next /\ Watch /\ UNCHANGED searching

SearchStep(r) ==
  /\ Search!Step(r)
  /\ UNCHANGED <<settings, price>>

BeginSearch(r) ==
  /\ Pricing(r, "none")
  /\ \E k \in Kinds : Search!Begin(r, k)
  /\ UNCHANGED <<settings, price>>

Garble ==
  /\ \E k \in Kinds : Search!Garble(k)
  /\ UNCHANGED <<settings, price>>

Tick == Settings!Tick /\ Search!Tick /\ Watch

Next ==
  \/ SettingsStep
  \/ \E r \in Requests : \/ BeginSearch(r)
                         \/ SearchStep(r)
                         \/ PriceStep(r)
                         \/ \E k \in {"ONE_WAY", "ROUND_TRIP"} : PriceBooking(r, k)
  \/ Garble
  \/ Tick

\* A thread that serves a request goes on until it is done.
Fairness == \A r \in Requests : WF_vars(SearchStep(r) \/ PriceStep(r))

Spec == Init /\ [][Next]_vars /\ Fairness

-----------------------------------------------------------------------------
(* Properties.                                                             *)

TypeOK ==
  /\ Settings!TypeOK
  /\ Search!TypeOK
  /\ price \in [Requests ->
       [pc : {"none", "rate", "markup", "create", "override"}, kind : {"ONE_WAY", "ROUND_TRIP"},
        markup : Markups \cup {Unset},
        first : [rate : Rates \cup {Unset}, markup : Markups,
                 override : SUBSET Settings!Overrides],
        changes : 0..2]]

ActiveTogetherOverlapped == Settings!ActiveTogetherOverlapped
OnlyAdminsChangeMarkup   == Settings!OnlyAdminsChangeMarkup
FaresAreFresh            == Search!FaresAreFresh
SearchEnds               == Search!SearchEnds

\* Three statements, three snapshots: still, a one-way price is that of the
\* settings at one instant of the request, unless two changes were committed
\* while it was being computed.
MixedNeedsTwoChanges ==
  [][\A r \in Requests : ReadOverride(r) =>
       LET used == [rate |-> price[r].first.rate, markup |-> price[r].markup,
                    override |-> Settings!InForce]
       IN  used \in {price[r].first, Current} \/ price[r].changes = 2]_vars

\* The inputs the arithmetic is checked on, around whole and half cents.
Fares == 1000..1110   \* mills
Usd   == 1..40        \* cents
Pax   == {1, 2, 9}

\* What a booking charges is what the search showed, to a cent per passenger,
\* as long as the markup is the same and at most 100 %, though the booking marks
\* up the fare that the search rounded; a higher markup, which nothing forbids,
\* adds a cent for each 200 % that it begins.
ChargedIsShown ==
  [][\A r \in Requests : ReadOverride(r) =>
       \A fare \in Fares, adults \in Pax :
         LET off == adults * ((price[r].markup + 2999) \div 2000)
         IN  Shown(fare, price[r].markup, adults) - Charged(fare, price[r].markup, adults)
               \in (-off)..off]_vars

\* Every displayed range contains its price, and the ranges of a one-way and a
\* round trip of one price differ by what half a cent is worth, and rounding.
EstimatesAgree ==
  [][\A r \in Requests : ReadOverride(r) =>
       \A usd \in Usd :
         LET k     == price[r].first.rate
             mmk   == TotalMmk(usd, k)
             slack == k \div 20000 + 2
         IN  /\ usd \in EstimateMin(usd)..EstimateMax(usd)
             /\ mmk \in OneWayMinMmk(usd, k)..OneWayMaxMmk(usd, k)
             /\ mmk \in RoundTripMinMmk(usd, k)..RoundTripMaxMmk(usd, k)
             /\ OneWayMinMmk(usd, k) - RoundTripMinMmk(usd, k) \in (-slack)..slack
             /\ OneWayMaxMmk(usd, k) - RoundTripMaxMmk(usd, k) \in (-slack)..slack]_vars
=============================================================================
