---------------------------- MODULE PriceSettings ----------------------------
(***************************************************************************)
(* What a price depends on besides the fare: the exchange rate, the global *)
(* markup, and the price overrides of one flight (airline, number, date;   *)
(* overrides of other flights never meet these).                           *)
(*                                                                         *)
(* Every operation is a READ COMMITTED transaction of several statements.  *)
(* created_at of an override is now() of its transaction, which begins     *)
(* with the authentication; overrides are numbered in that order, which    *)
(* need not be the order in which they commit.  The UPDATE that a creation *)
(* deactivates its predecessors with sees what was committed when it       *)
(* started, and waits for row locks only, so that it finds the same rows.  *)
(***************************************************************************)
EXTENDS Integers

CONSTANTS Rates,         \* exchange rates an administrator may set
          Markups,       \* global markups an administrator may set
          Default,       \* DEFAULT_GLOBAL_MARKUP_PERCENTAGE
          Unset,         \* the row does not exist
          MaxOverrides,  \* how many overrides are created (a bound)
          Life,          \* the longest duration_hours, in ticks
          Forever,       \* an override without expires_at
          Writers        \* requests that set the rate or the markup

Overrides == 1..MaxOverrides

\* Neither a rate nor a markup is negative.
SettingsAssumption ==
  /\ Rates \cup Markups \subseteq Nat
  /\ Default \in Markups
  /\ Unset \notin Rates \cup Markups
  /\ MaxOverrides \in Nat /\ Life \in Nat
  /\ Forever \notin Nat

VARIABLES
  rate,     \* usd_to_mmk of exchange_rates, row 1
  markup,   \* global_markup_percentage of pricing_config, row 1
  stage,    \* stage[o]: how far the creation of override o, or its row, is
  life,     \* life[o]: ticks until expires_at
  cleared,  \* cleared[o]: the overrides that the creation of o deactivates
  blind,    \* blind[o]: those not committed when it looked (history, kept as
            \* long as o is active)
  writer    \* writer[w]: a request that sets the rate or the markup

settings == <<rate, markup, stage, life, cleared, blind, writer>>

\* "begun" and "updated" are transactions, "active" and "inactive" rows.
Stages == {"absent", "begun", "updated", "active", "inactive", "failed"}

Idle == [op |-> "none", pc |-> "begun", copy |-> Unset]

Init ==
  /\ rate = Unset
  /\ markup = Unset
  /\ stage   = [o \in Overrides |-> "absent"]
  /\ life    = [o \in Overrides |-> Forever]
  /\ cleared = [o \in Overrides |-> {}]
  /\ blind   = [o \in Overrides |-> {}]
  /\ writer  = [w \in Writers |-> Idle]

-----------------------------------------------------------------------------
(* The two singleton rows.                                                 *)

ConfigUnchanged == UNCHANGED <<rate, markup, writer>>
TableUnchanged  == UNCHANGED <<stage, life, cleared, blind>>

\* Mutant: INSERT ... ON CONFLICT DO UPDATE.
DefaultUpserted == Default

\* The INSERT of the default row by somebody who found none.  When another was
\* quicker, the primary key refuses it, and the row is there to be read.
DefaultMarkup == IF markup = Unset THEN Default ELSE markup

\* update_global_markup and update_exchange_rate look for their row.
WriterReads(w, op) ==
  /\ writer[w] = Idle
  /\ LET copy == IF op = "update_global_markup" THEN markup ELSE rate
     IN  writer' = [writer EXCEPT ![w] =
                      [op |-> op, copy |-> copy,
                       pc |-> IF copy = Unset THEN "missing" ELSE "found"]]
  /\ UNCHANGED <<rate, markup>>
  /\ TableUnchanged

WriterCreatesConfig(w) ==
  /\ writer[w].op = "update_global_markup"
  /\ writer[w].pc = "missing"
  /\ markup' = DefaultMarkup
  /\ writer' = [writer EXCEPT ![w].pc = "found", ![w].copy = DefaultMarkup]
  /\ UNCHANGED rate
  /\ TableUnchanged

\* The UPDATE is skipped when the new value is the one that was loaded.
WriterSetsMarkup(w, m) ==
  /\ writer[w].op = "update_global_markup"
  /\ writer[w].pc = "found"
  /\ markup' = IF m # writer[w].copy THEN m ELSE markup
  /\ writer' = [writer EXCEPT ![w] = Idle]
  /\ UNCHANGED rate
  /\ TableUnchanged

\* A first rate that lost the race is refused by the primary key: see Fail.
WriterSetsRate(w, k) ==
  /\ writer[w].op = "update_exchange_rate"
  /\ writer[w].pc = "missing" => rate = Unset
  /\ rate' = IF k # writer[w].copy THEN k ELSE rate
  /\ writer' = [writer EXCEPT ![w] = Idle]
  /\ UNCHANGED markup
  /\ TableUnchanged

WriterFails(w) ==
  /\ writer[w] # Idle
  /\ writer' = [writer EXCEPT ![w] = Idle]
  /\ UNCHANGED <<rate, markup>>
  /\ TableUnchanged

-----------------------------------------------------------------------------
(* The overrides of the flight.                                            *)

Active == {o \in Overrides : stage[o] = "active"}

\* Their transaction is open, or not even begun.
Uncommitted == {o \in Overrides : stage[o] \in {"absent", "begun", "updated"}}

\* get_active_price_override, as the set of the one override in force, if any:
\* of those that have not expired the newest by created_at.
InForce ==
  LET live == {o \in Active : life[o] # 0}
  IN  {o \in live : \A p \in live : p <= o}

\* The transaction of the o-th creation begins (the administrator is loaded).
BeginOverride(o) ==
  /\ stage[o] = "absent"
  /\ \A p \in 1..(o - 1) : stage[p] # "absent"
  /\ stage' = [stage EXCEPT ![o] = "begun"]
  /\ UNCHANGED <<life, cleared, blind>>
  /\ ConfigUnchanged

\* Mutant: only overrides that have not expired are deactivated.
ClearLive(o, ticks) ==
  /\ stage[o] = "begun"
  /\ stage'   = [stage EXCEPT ![o] = "updated"]
  /\ life'    = [life EXCEPT ![o] = ticks]
  /\ cleared' = [cleared EXCEPT ![o] = {p \in Active : life[p] # 0}]
  /\ blind'   = [blind EXCEPT ![o] = Uncommitted \ {o}]
  /\ ConfigUnchanged

\* The expiry is computed, and the active overrides of the flight updated.
ClearOverrides(o, ticks) ==
  /\ stage[o] = "begun"
  /\ stage'   = [stage EXCEPT ![o] = "updated"]
  /\ life'    = [life EXCEPT ![o] = ticks]
  /\ cleared' = [cleared EXCEPT ![o] = Active]
  /\ blind'   = [blind EXCEPT ![o] = Uncommitted \ {o}]
  /\ ConfigUnchanged

\* The INSERT, and the commit of both.
CommitOverride(o) ==
  /\ stage[o] = "updated"
  /\ stage' = [p \in Overrides |-> IF p = o THEN "active"
                                   ELSE IF p \in cleared[o] THEN "inactive"
                                   ELSE stage[p]]
  /\ blind' = [p \in Overrides |-> IF p \in cleared[o] THEN {} ELSE blind[p]]
  /\ cleared' = [cleared EXCEPT ![o] = {}]
  /\ UNCHANGED life
  /\ ConfigUnchanged

OverrideFails(o) ==
  /\ stage[o] \in {"begun", "updated"}
  /\ stage'   = [stage EXCEPT ![o] = "failed"]
  /\ life'    = [life EXCEPT ![o] = Forever]
  /\ cleared' = [cleared EXCEPT ![o] = {}]
  /\ blind'   = [blind EXCEPT ![o] = {}]
  /\ ConfigUnchanged

Deactivate(S) ==
  /\ S # {}
  /\ stage' = [o \in Overrides |-> IF o \in S THEN "inactive" ELSE stage[o]]
  /\ blind' = [o \in Overrides |-> IF o \in S THEN {} ELSE blind[o]]
  /\ UNCHANGED <<life, cleared>>
  /\ ConfigUnchanged

\* Between its load and its commit an override can only become inactive, so
\* that one step shows all there is.
DeactivateOverride(o) == o \in Active /\ Deactivate({o})

\* The lifecycle job's phase.
DeactivateExpired == Deactivate({o \in Active : life[o] = 0})

\* Time passes for what has an expiry.
Tick ==
  /\ life' = [o \in Overrides |->
                IF life[o] \in 1..Life
                THEN life[o] - 1 ELSE life[o]]
  /\ UNCHANGED <<stage, cleared, blind>>
  /\ ConfigUnchanged

WriterStep(w) ==
  \/ \E op \in {"update_global_markup", "update_exchange_rate"} : WriterReads(w, op)
  \/ WriterCreatesConfig(w)
  \/ \E m \in Markups : WriterSetsMarkup(w, m)
  \/ \E k \in Rates : WriterSetsRate(w, k)
  \/ WriterFails(w)

OverrideStep(o) ==
  \/ BeginOverride(o)
  \/ \E ticks \in (1..Life) \cup {Forever} : ClearOverrides(o, ticks)
  \/ CommitOverride(o)
  \/ OverrideFails(o)
  \/ DeactivateOverride(o)

Next ==
  \/ \E w \in Writers : WriterStep(w)
  \/ \E o \in Overrides : OverrideStep(o)
  \/ DeactivateExpired

-----------------------------------------------------------------------------
(* Properties.                                                             *)

\* The settings keep their types.
TypeOK ==
  /\ rate \in Rates \cup {Unset}
  /\ markup \in Markups \cup {Unset}
  /\ stage   \in [Overrides -> Stages]
  /\ life    \in [Overrides -> (0..Life) \cup {Forever}]
  /\ cleared \in [Overrides -> SUBSET Overrides]
  /\ blind   \in [Overrides -> SUBSET Overrides]
  /\ writer  \in [Writers -> [op : {"none", "update_global_markup", "update_exchange_rate"},
                              pc : {"begun", "found", "missing"},
                              copy : Rates \cup Markups \cup {Unset}]]

\* Creations p and q each looked for predecessors before the other committed.
Overlapped(p, q) == p \in blind[q] /\ q \in blind[p]

\* "One active override per flight" is what create_price_override is for.  No
\* constraint says so, and two creations that overlap both stay active, but
\* nothing else brings that about, however often overrides are created,
\* disabled and expired.
ActiveTogetherOverlapped ==
  \A p, q \in Active : p # q => Overlapped(p, q)

\* A configuration that exists is only changed by update_global_markup: no
\* request that found none puts the default over a markup set meanwhile.
OnlyAdminsChangeMarkup ==
  [][markup # Unset /\ markup' # markup =>
       \E w \in Writers : /\ writer[w].op = "update_global_markup"
                          /\ writer[w].pc = "found"
                          /\ writer'[w] = Idle]_settings
=============================================================================
