------------------------------- MODULE Pricing -------------------------------
(***************************************************************************)
(* @bb/pricing: the pure functions that price an offer, decide whether it  *)
(* may be sold and pick its cancellation policy, and the minor-unit        *)
(* arithmetic they rest on.                                                *)
(*                                                                         *)
(* Ids are integers, compared as the ULIDs are.  A decimal string is a     *)
(* number of thousandths, a percentage one of hundred-thousandths; a stay  *)
(* date is a day, and a timestamp an hour.                                 *)
(***************************************************************************)
EXTENDS Integers

CONSTANTS
  None,        \* SQL NULL, undefined
  ZeroDecimal  \* the currencies without minor units

ASSUME NoneAssumption == None \notin Int

Abs(n) == IF n < 0 THEN -n ELSE n

Sign(n) == IF n < 0 THEN -1 ELSE 1

(* Rounds num/den, halves away from zero.                                  *)
RoundHalfAwayFromZero(num, den) == Sign(num) * ((2 * Abs(num) + den) \div (2 * den))

(* How many thousandths one minor unit of currency c is.                   *)
MinorUnit(c) == IF c \in ZeroDecimal THEN 1000 ELSE 10

(* Digits beyond the minor unit are cut off.                               *)
ToMinorUnits(amount, c) == Sign(amount) * (Abs(amount) \div MinorUnit(c))

FromMinorUnits(minor, c) == minor * MinorUnit(c)

ApplyPercentMarkup(net, percent) == RoundHalfAwayFromZero(net * percent, 10000000)
-----------------------------------------------------------------------------
(* Markup: account before hotel before channel, then the highest priority, *)
(* then the lowest id.                                                     *)
ScopePrecedence == [ACCOUNT |-> 3, HOTEL |-> 2, CHANNEL |-> 1]

Matches(rule, ctx, hotel) ==
  /\ rule.tenant = ctx.tenant
  /\ rule.target = [ACCOUNT |-> ctx.account, HOTEL |-> hotel, CHANNEL |-> ctx.type][rule.scope]

Outranks(r, s) ==
  \/ ScopePrecedence[r.scope] > ScopePrecedence[s.scope]
  \/ /\ r.scope = s.scope
     /\ r.priority > s.priority \/ (r.priority = s.priority /\ r.id < s.id)

(* Mutant of PickRule: the scopes are not ranked.                          *)
PickRuleByPriority(rules, ctx, hotel) ==
  LET matching == {r \in rules : Matches(r, ctx, hotel)} IN
  {r \in matching : \A s \in matching \ {r} :
     r.priority > s.priority \/ (r.priority = s.priority /\ r.id < s.id)}

(* The best rule that matches, alone in a set, or none.                    *)
PickRule(rules, ctx, hotel) ==
  LET matching == {r \in rules : Matches(r, ctx, hotel)} IN
  {r \in matching : \A s \in matching \ {r} : Outranks(r, s)}

(* A price quote, in minor units of one currency.                          *)
Quote(net, c, winning) ==
  [net |-> net, currency |-> c, rule |-> winning,
   sell |-> net + IF winning = {} THEN 0
                  ELSE ApplyPercentMarkup(net, (CHOOSE r \in winning : TRUE).percent)]

EvaluateSourcedOffer(net, c, hotel, rules, ctx) == Quote(net, c, PickRule(rules, ctx, hotel))

(* Every night costs the same; a supplement or base below zero throws, and *)
(* the columns' checks keep them out of the tables.                        *)
EvaluateAuthoredOffer(nights, base, occupancy, c, hotel, rules, ctx) ==
  Quote(nights * (base + occupancy), c, PickRule(rules, ctx, hotel))
-----------------------------------------------------------------------------
(* Effective at hour now, both ends included; to None is open.             *)
Effective(row, now) == row.from <= now /\ (row.to = None \/ now <= row.to)

(* The rows of a restriction's scope; a column that is NULL fits any       *)
(* offer.  Supplier and hotel are not looked at.                           *)
IsCandidate(r, offer, now) ==
  /\ Effective(r, now)
  /\ r.contract \in {None, offer.contract}
  /\ r.season \in {None, offer.season}
  /\ r.plan \in {None, offer.plan}
  /\ r.room \in {None, offer.room}

Tier(r) == IF r.contract = None THEN 3 ELSE IF r.season = None THEN 2 ELSE 1

(* Of the rows of one kind on one day: the most specific, then the lowest  *)
(* id; alone in a set, or none.                                            *)
PickWinner(rows, kind, day) ==
  LET matched == {r \in rows : r.kind = kind /\ r.day = day} IN
  {r \in matched : \A s \in matched \ {r} :
                     Tier(r) < Tier(s) \/ (Tier(r) = Tier(s) /\ r.id < s.id)}

(* May the offer be sold for the nights stay.from .. stay.to - 1?          *)
EvaluateRestrictions(stay, now, offer, rows) ==
  LET candidates == {r \in rows : IsCandidate(r, offer, now)}
      OnArrival(kind) == PickWinner(candidates, kind, stay.from)
      nights == stay.to - stay.from
      hours == 24 * stay.from - now
  IN
  /\ \A day \in stay.from..(stay.to - 1) : PickWinner(candidates, "STOP_SELL", day) = {}
  /\ OnArrival("CTA") = {}
  /\ PickWinner(candidates, "CTD", stay.to) = {}
  /\ \A r \in OnArrival("MIN_LOS") : nights >= r.param
  /\ \A r \in OnArrival("MAX_LOS") : nights <= r.param
  /\ \A r \in OnArrival("ADVANCE_PURCHASE_MIN") : hours \div 24 >= r.param
  /\ \A r \in OnArrival("ADVANCE_PURCHASE_MAX") : hours \div 24 <= r.param
  /\ \A r \in OnArrival("RELEASE_HOURS") \cup OnArrival("CUTOFF_HOURS") : hours >= r.param
-----------------------------------------------------------------------------
(* The cancellation policy of an offer: contract and rate plan, contract,  *)
(* rate plan, supplier default; then the highest version, then the lowest  *)
(* id.                                                                     *)
PolicyTier(p) ==
  IF p.contract # None THEN (IF p.plan # None THEN 1 ELSE 2)
                       ELSE (IF p.plan # None THEN 3 ELSE 4)

PolicyOutranks(p, q) ==
  \/ PolicyTier(p) < PolicyTier(q)
  \/ /\ PolicyTier(p) = PolicyTier(q)
     /\ p.version > q.version \/ (p.version = q.version /\ p.id < q.id)

ResolveCancellationPolicy(now, offer, rows) ==
  LET active == {p \in rows : /\ Effective(p, now)
                              /\ p.contract \in {None, offer.contract}
                              /\ p.plan \in {None, offer.plan}} IN
  IF active = {} THEN None
  ELSE CHOOSE p \in active : \A q \in active \ {p} : PolicyOutranks(p, q)
=============================================================================
