------------------------------- MODULE FxRates -------------------------------
(***************************************************************************)
(* @bb/fx, FxRateService and the arithmetic of the booking FX lock: which  *)
(* stored rate converts an amount, and what it comes to.                   *)
(*                                                                         *)
(* A rate has two decimals here where the columns have eight: it is an     *)
(* integer, RateScale standing for 1.  A snapshot is the row of            *)
(* fx_rate_snapshot; its unique key (provider, pair, observed_at) stands   *)
(* for its id.                                                             *)
(***************************************************************************)
EXTENDS Pricing

CONSTANTS
  Ttl,    \* minutes a snapshot of each provider is fresh for
  Pivot   \* the currency each provider's rates are quoted against

RateScale == 100

(* toFixed, Math.round.                                                    *)
RoundHalfUp(num, den) == (2 * num + den) \div (2 * den)

SnapshotKey(s) == [provider |-> s.provider, base |-> s.base, quote |-> s.quote, at |-> s.at]

(* The freshest fresh snapshot, alone in a set, or none.  A snapshot from  *)
(* the future is fresh.                                                    *)
FindFreshest(snaps, p, base, quote, asOf) ==
  LET fresh == {s \in snaps : /\ s.provider = p /\ s.base = base /\ s.quote = quote
                              /\ s.at >= asOf - Ttl[p]} IN
  {s \in fresh : \A t \in fresh : t.at <= s.at}

InverseRate(rate) == RoundHalfUp(RateScale * RateScale, rate)

(* Of 1 pivot = from.rate and 1 pivot = to.rate.                           *)
DeriveCrossRate(from, to) == RoundHalfUp(to.rate * RateScale, from.rate)

Conversion(method, rate, legs) == [method |-> method, rate |-> rate, legs |-> legs]

(* What the snapshots of one provider make of the pair c, to: alone in a   *)
(* set, or none.                                                           *)
ApplyFx(c, to, snaps, asOf, p) ==
  LET direct == FindFreshest(snaps, p, c, to, asOf)
      inverse == FindFreshest(snaps, p, to, c, asOf)
      fromLeg == FindFreshest(snaps, p, Pivot[p], c, asOf)
      toLeg == FindFreshest(snaps, p, Pivot[p], to, asOf)
  IN
  IF direct # {} THEN {Conversion("DIRECT", s.rate, {s}) : s \in direct}
  ELSE IF inverse # {} THEN {Conversion("INVERSE", InverseRate(s.rate), {s}) : s \in inverse}
  ELSE {Conversion("CROSS_RATE", DeriveCrossRate(pair[1], pair[2]), {pair[1], pair[2]}) :
          pair \in fromLeg \X toLeg}

(* BatchConverter: OXR, and only when it has no rate, ECB.                 *)
Convert(c, to, oxr, ecb, asOf) ==
  IF c = to THEN {}
  ELSE LET first == ApplyFx(c, to, oxr, asOf, "OXR") IN
       IF first # {} THEN first ELSE ApplyFx(c, to, ecb, asOf, "ECB")

(* A decimal amount at a rate, to whole minor units of currency c.         *)
ConvertAmount(amount, rate, c) ==
  FromMinorUnits(RoundHalfUp(amount * rate, RateScale * MinorUnit(c)), c)
-----------------------------------------------------------------------------
(* Minor units at a rate: the exponents of the two currencies do not enter *)
(* into it.                                                                *)
ApplyRateToMinor(minor, rate) == RoundHalfAwayFromZero(minor * rate, RateScale)

NoLock(reason) == [kind |-> reason, rate |-> 0, legs |-> {}, quote |-> None]

(* Mutant of StripeDecision: the rate is taken the wrong way round.        *)
StripeUninverted(quote) ==
  [kind |-> "STRIPE_FX_QUOTE", rate |-> quote.rate, legs |-> {}, quote |-> quote]

(* A Stripe quote says what one unit of the charge currency is in the      *)
(* source currency; one that is not positive is unusable.                  *)
StripeDecision(quote) ==
  [kind |-> "STRIPE_FX_QUOTE", rate |-> InverseRate(quote.rate), legs |-> {}, quote |-> quote]

(* The reference rate, of OXR alone; two legs do not make one row.         *)
SnapshotDecision(source, charge, oxr, asOf) ==
  LET conv == {c \in Convert(source, charge, oxr, {}, asOf) : c.method # "CROSS_RATE"} IN
  IF conv = {} THEN NoLock("NO_LOCK_AVAILABLE")
  ELSE LET c == CHOOSE x \in conv : TRUE IN
       [kind |-> "SNAPSHOT_REFERENCE", rate |-> c.rate, legs |-> c.legs, quote |-> None]
=============================================================================
