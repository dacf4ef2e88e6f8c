-------------------------- MODULE TokenCaches_proofs --------------------------
(***************************************************************************)
(* Whatever the TTLs, the throttle and the latency are, no answer is older *)
(* than the caches promise.  A key set is as old as the request that asked *)
(* for it; that request is at most Latency old when its answer is stored,  *)
(* and is then used for SoftTtl, or for MinRefresh when a key is missing.  *)
(***************************************************************************)
EXTENDS TokenCaches, TLAPS

Steps == {"none", "sent", "answered"}

Outcomes == {"NONE", "UNKNOWN_KEY", "ACCEPTED", "INVALID", "FAILED", "TOKEN"}

Flight(gots, callers) ==
  [step : Steps, began : Nat, got : SUBSET gots, waiting : SUBSET callers]

KidClaims == {b.kid : b \in Bearers} \cup {NoClaim}

TypeOK ==
  /\ second \in Nat /\ second > 0
  /\ keys \in SUBSET Kids /\ born \in [Kids -> Nat] /\ gone \in [Kids -> Nat]
  /\ jwks \in [keys : SUBSET Kids, fetchedAt : Nat, flight : Flight(Kids, Callers \X Bearers)]
  /\ mgmt \in [expires : Nat, trueExpires : Nat, flight : Flight(Nat, Callers)]
  /\ verdict \in [Callers -> [outcome : Outcomes, kid : KidClaims, expires : Nat, at : Nat]]

Published(k) == born[k] > 0 /\ gone[k] = 0

(* What is known of a set of keys that was asked for at the time asked.    *)
AsOf(known, asked) == \A k \in Kids :
  /\ k \in known /\ gone[k] > 0 => asked <= gone[k]
  /\ k \notin known /\ Published(k) => asked <= born[k]

KeysPublished == \A k \in Kids :
  /\ k \in keys <=> Published(k)
  /\ gone[k] > 0 => born[k] > 0

FlightsShort == \A f \in {jwks.flight, mgmt.flight} :
  f.step # "none" => f.began <= second /\ second <= f.began + Latency

KeySetsDated ==
  /\ jwks.flight.step = "answered" => AsOf(jwks.flight.got, jwks.flight.began)
  /\ jwks.fetchedAt = 0 => jwks.keys = {}
  /\ jwks.fetchedAt <= second
  /\ jwks.fetchedAt > 0 => AsOf(jwks.keys, jwks.fetchedAt - Latency)

TokensDated ==
  /\ mgmt.expires <= mgmt.trueExpires
  /\ mgmt.flight.step = "answered" =>
       /\ mgmt.flight.got # {}
       /\ \A e \in mgmt.flight.got : mgmt.flight.began + Lifetime <= e

Told == \A c \in Callers : verdict[c].at <= second

Inductive ==
  /\ TypeOK /\ KeysPublished /\ FlightsShort /\ KeySetsDated /\ TokensDated
  /\ Told /\ CachesAreCurrent
-----------------------------------------------------------------------------
(* Nothing is asked for and nobody told anything at first.                 *)
LEMMA InitInductive == Init => Inductive
<1> SUFFICES ASSUME Init PROVE Inductive
  OBVIOUS
<1> DEFINE first == CHOOSE k \in Kids : TRUE
<1>1. first \in Kids
  BY TokenAssumption DEF TokenAssumption
<1>2. TypeOK
  BY <1>1 DEF Init, TypeOK, Flight, NotInFlight, NoVerdict, Steps, Outcomes, KidClaims
<1>3. KeysPublished
  BY <1>1 DEF Init, KeysPublished, Published
<1>4. FlightsShort /\ KeySetsDated /\ TokensDated
  BY DEF Init, FlightsShort, KeySetsDated, TokensDated, NotInFlight
<1>5. Told /\ CachesAreCurrent
  BY DEF Init, Told, CachesAreCurrent, KeysAreCurrent, RotationNoticed, TokensLive, NoVerdict
<1> QED
  BY <1>2, <1>3, <1>4, <1>5 DEF Inductive

(* What the validator answers from a set of keys that is not too old.      *)
LEMMA ValidatedInTime ==
  ASSUME Inductive, NEW b, b.kid \in KidClaims, NEW known \in SUBSET Kids,
         NEW asked \in Int, AsOf(known, asked), second <= asked + SoftTtl + Latency,
         b.kid \notin known => second < asked + MinRefresh + Latency
  PROVE  LET v == Validated(b, known) IN
         /\ v \in [outcome : Outcomes, kid : KidClaims, expires : Nat, at : Nat]
         /\ v.at = second /\ v.outcome # "TOKEN"
         /\ v.outcome = "ACCEPTED" /\ gone[v.kid] > 0 => v.at <= gone[v.kid] + SoftTtl + Latency
         /\ v.outcome = "UNKNOWN_KEY" /\ v.kid \in Kids =>
              ~Published(v.kid) \/ v.at < born[v.kid] + MinRefresh + Latency
<1> DEFINE v == Validated(b, known)
<1>1. /\ v.kid = b.kid /\ v.at = second /\ v.expires = 0
      /\ v.outcome = IF b.kid \notin known THEN "UNKNOWN_KEY"
                     ELSE IF b.signed /\ ClaimsOk(b, second) THEN "ACCEPTED" ELSE "INVALID"
      /\ v = [outcome |-> v.outcome, kid |-> v.kid, expires |-> v.expires, at |-> v.at]
  BY DEF Validated, Verdict
<1>2. second \in Nat /\ born \in [Kids -> Nat] /\ gone \in [Kids -> Nat]
  BY DEF Inductive, TypeOK
<1>3. v \in [outcome : Outcomes, kid : KidClaims, expires : Nat, at : Nat]
  BY <1>1, <1>2 DEF Outcomes
<1>4. ASSUME v.outcome = "ACCEPTED", gone[v.kid] > 0
      PROVE  v.at <= gone[v.kid] + SoftTtl + Latency
  <2>1. b.kid \in known /\ b.kid \in Kids
    BY <1>1, <1>4
  <2>2. asked <= gone[b.kid]
    BY <2>1, <1>1, <1>4 DEF AsOf
  <2> QED
    BY <2>1, <2>2, <1>1, <1>2, TokenAssumption DEF TokenAssumption
<1>5. ASSUME v.outcome = "UNKNOWN_KEY", v.kid \in Kids, Published(v.kid)
      PROVE  v.at < born[v.kid] + MinRefresh + Latency
  <2>1. b.kid \notin known /\ b.kid \in Kids
    BY <1>1, <1>5
  <2>2. asked <= born[b.kid]
    BY <2>1, <1>1, <1>5 DEF AsOf
  <2> QED
    BY <2>1, <2>2, <1>1, <1>2, TokenAssumption DEF TokenAssumption
<1>6. v.outcome # "TOKEN"
  BY <1>1
<1> QED
  BY <1>1, <1>3, <1>4, <1>5, <1>6

(* A step that leaves the keys and the clock alone, and tells each caller  *)
(* nothing or something in time.                                           *)
LEMMA ToldInTime ==
  ASSUME Inductive, UNCHANGED <<second, keys, born, gone>>,
         verdict' \in [Callers -> [outcome : Outcomes, kid : KidClaims, expires : Nat, at : Nat]],
         \A c \in Callers : verdict'[c] # verdict[c] =>
           LET v == verdict'[c] IN
           /\ v.at <= second
           /\ v.outcome = "ACCEPTED" /\ gone[v.kid] > 0 => v.at <= gone[v.kid] + SoftTtl + Latency
           /\ v.outcome = "UNKNOWN_KEY" /\ v.kid \in Kids =>
                ~Published(v.kid) \/ v.at < born[v.kid] + MinRefresh + Latency
           /\ v.outcome = "TOKEN" => v.expires > v.at + MinRemaining
  PROVE  Told' /\ CachesAreCurrent' /\ KeysPublished'
<1>1. Told /\ KeysAreCurrent /\ RotationNoticed /\ TokensLive /\ KeysPublished
  BY DEF Inductive, CachesAreCurrent
<1>2. /\ second \in Nat /\ born \in [Kids -> Nat] /\ gone \in [Kids -> Nat]
      /\ verdict \in [Callers -> [outcome : Outcomes, kid : KidClaims, expires : Nat, at : Nat]]
  BY DEF Inductive, TypeOK
<1>3. Told' /\ KeysPublished'
  BY <1>1 DEF Told, KeysPublished, Published
<1>4. KeysAreCurrent'
  BY <1>1 DEF KeysAreCurrent
<1>5. RotationNoticed'
  BY <1>1, <1>2 DEF RotationNoticed, Published
<1>6. TokensLive'
  BY <1>1 DEF TokensLive
<1> QED
  BY <1>3, <1>4, <1>5, <1>6 DEF CachesAreCurrent

(* A request served by what is cached, or that waits for an answer.        *)
LEMMA ValidateInductive ==
  ASSUME Inductive, NEW c \in Callers, NEW b \in Bearers, Validate(c, b)
  PROVE  Inductive'
<1>1. /\ second \in Nat /\ second > 0 /\ keys \in SUBSET Kids
      /\ born \in [Kids -> Nat] /\ gone \in [Kids -> Nat]
      /\ jwks \in [keys : SUBSET Kids, fetchedAt : Nat, flight : Flight(Kids, Callers \X Bearers)]
      /\ mgmt \in [expires : Nat, trueExpires : Nat, flight : Flight(Nat, Callers)]
      /\ verdict \in [Callers -> [outcome : Outcomes, kid : KidClaims, expires : Nat, at : Nat]]
  BY DEF Inductive, TypeOK
<1>2. UNCHANGED <<second, keys, born, gone, mgmt>>
  BY DEF Validate
<1>3. b.kid \in KidClaims
  BY DEF KidClaims
<1>4. CASE ~b.wellFormed
  <2>1. jwks' = jwks
    BY <1>4 DEF Validate
  <2>2. verdict' = [verdict EXCEPT ![c] = Verdict("INVALID", NoClaim)]
    BY <1>4 DEF Validate
  <2>3. verdict' \in [Callers -> [outcome : Outcomes, kid : KidClaims, expires : Nat, at : Nat]]
    BY <2>2, <1>1 DEF Verdict, Outcomes, KidClaims
  <2>4. Told' /\ CachesAreCurrent' /\ KeysPublished'
    BY <2>2, <2>3, <1>1, <1>2, ToldInTime DEF Verdict
  <2>5. TypeOK'
    BY <2>1, <2>3, <1>1, <1>2 DEF TypeOK
  <2>6. FlightsShort' /\ KeySetsDated' /\ TokensDated'
    BY <2>1, <1>2 DEF Inductive, FlightsShort, KeySetsDated, TokensDated, AsOf, Published
  <2> QED
    BY <2>4, <2>5, <2>6 DEF Inductive
<1>5. CASE b.wellFormed /\ (Fresh(b.kid) \/ (jwks.flight.step = "none" /\ Throttled))
  <2> DEFINE v == Validated(b, jwks.keys)
  <2>1. jwks' = jwks /\ verdict' = [verdict EXCEPT ![c] = v]
    BY <1>5 DEF Validate
  <2>2. AsOf(jwks.keys, jwks.fetchedAt - Latency)
    <3>1. jwks.fetchedAt > 0
      BY <1>5, <1>1 DEF Fresh, Throttled, Inductive, KeySetsDated
    <3> QED
      BY <3>1 DEF Inductive, KeySetsDated
  <2>3. /\ jwks.fetchedAt - Latency \in Int
        /\ second <= (jwks.fetchedAt - Latency) + SoftTtl + Latency
        /\ b.kid \notin jwks.keys => second < (jwks.fetchedAt - Latency) + MinRefresh + Latency
    BY <1>5, <1>1, TokenAssumption DEF Fresh, Throttled, TokenAssumption
  <2>4. /\ v \in [outcome : Outcomes, kid : KidClaims, expires : Nat, at : Nat]
        /\ v.at = second /\ v.outcome # "TOKEN"
        /\ v.outcome = "ACCEPTED" /\ gone[v.kid] > 0 => v.at <= gone[v.kid] + SoftTtl + Latency
        /\ v.outcome = "UNKNOWN_KEY" /\ v.kid \in Kids =>
             ~Published(v.kid) \/ v.at < born[v.kid] + MinRefresh + Latency
    BY <2>2, <2>3, <1>1, <1>3, ValidatedInTime
  <2> HIDE DEF v
  <2>5. verdict' \in [Callers -> [outcome : Outcomes, kid : KidClaims, expires : Nat, at : Nat]]
    BY <2>1, <2>4, <1>1
  <2>6. Told' /\ CachesAreCurrent' /\ KeysPublished'
    BY <2>1, <2>4, <2>5, <1>1, <1>2, ToldInTime
  <2>7. TypeOK'
    BY <2>1, <2>5, <1>1, <1>2 DEF TypeOK
  <2>8. FlightsShort' /\ KeySetsDated' /\ TokensDated'
    BY <2>1, <1>2 DEF Inductive, FlightsShort, KeySetsDated, TokensDated, AsOf, Published
  <2> QED
    BY <2>6, <2>7, <2>8 DEF Inductive
<1>6. CASE b.wellFormed /\ ~(Fresh(b.kid) \/ (jwks.flight.step = "none" /\ Throttled))
  <2>1. /\ jwks'.keys = jwks.keys /\ jwks'.fetchedAt = jwks.fetchedAt
        /\ jwks' \in [keys : SUBSET Kids, fetchedAt : Nat, flight : Flight(Kids, Callers \X Bearers)]
        /\ jwks'.flight.step # "answered" \/
             /\ jwks'.flight.step = jwks.flight.step /\ jwks'.flight.got = jwks.flight.got
             /\ jwks'.flight.began = jwks.flight.began
        /\ jwks'.flight.began \in {second, jwks.flight.began}
        /\ jwks'.flight.began # second => /\ jwks'.flight.began = jwks.flight.began
                                          /\ jwks'.flight.step = jwks.flight.step
    <3>1. CASE jwks.flight.step = "none"
      BY <3>1, <1>6, <1>1 DEF Validate, Flight, Join, Steps
    <3>2. CASE jwks.flight.step # "none"
      BY <3>2, <1>6, <1>1 DEF Validate, Flight, Join, Steps
    <3> QED
      BY <3>1, <3>2
  <2>2. verdict' = [verdict EXCEPT ![c] = NoVerdict]
    BY <1>6 DEF Validate
  <2>3. verdict' \in [Callers -> [outcome : Outcomes, kid : KidClaims, expires : Nat, at : Nat]]
    BY <2>2, <1>1 DEF NoVerdict, Outcomes, KidClaims
  <2>4. Told' /\ CachesAreCurrent' /\ KeysPublished'
    BY <2>2, <2>3, <1>1, <1>2, ToldInTime DEF NoVerdict
  <2>5. TypeOK'
    BY <2>1, <2>3, <1>1, <1>2 DEF TypeOK
  <2>6. FlightsShort'
    BY <2>1, <1>1, <1>2, TokenAssumption DEF Inductive, FlightsShort, TokenAssumption
  <2>7. KeySetsDated' /\ TokensDated'
    BY <2>1, <1>2 DEF Inductive, KeySetsDated, TokensDated, AsOf, Published
  <2> QED
    BY <2>4, <2>5, <2>6, <2>7 DEF Inductive
<1> QED
  BY <1>4, <1>5, <1>6

(* Auth0 answers with the keys it publishes at that moment.                *)
LEMMA AnswerJwksInductive ==
  ASSUME Inductive, AnswerJwks
  PROVE  Inductive'
<1>1. /\ second \in Nat /\ second > 0 /\ keys \in SUBSET Kids
      /\ born \in [Kids -> Nat] /\ gone \in [Kids -> Nat]
      /\ jwks \in [keys : SUBSET Kids, fetchedAt : Nat, flight : Flight(Kids, Callers \X Bearers)]
      /\ mgmt \in [expires : Nat, trueExpires : Nat, flight : Flight(Nat, Callers)]
      /\ verdict \in [Callers -> [outcome : Outcomes, kid : KidClaims, expires : Nat, at : Nat]]
  BY DEF Inductive, TypeOK
<1>2. UNCHANGED <<second, keys, born, gone, mgmt, verdict>>
  BY DEF AnswerJwks
<1>3. /\ jwks'.keys = jwks.keys /\ jwks'.fetchedAt = jwks.fetchedAt
      /\ jwks'.flight.step = "answered" /\ jwks'.flight.got = keys
      /\ jwks'.flight.began = jwks.flight.began /\ jwks.flight.step # "none"
      /\ jwks' \in [keys : SUBSET Kids, fetchedAt : Nat, flight : Flight(Kids, Callers \X Bearers)]
  BY <1>1 DEF AnswerJwks, Flight, Steps
<1>4. TypeOK'
  BY <1>1, <1>2, <1>3 DEF TypeOK
<1>5. FlightsShort'
  BY <1>2, <1>3 DEF Inductive, FlightsShort
<1>6. AsOf(keys, jwks.flight.began)
  BY <1>1, <1>3 DEF Inductive, FlightsShort, KeysPublished, AsOf, Published, Flight
<1>7. KeySetsDated'
  BY <1>2, <1>3, <1>6 DEF Inductive, KeySetsDated, AsOf, Published
<1>8. Told' /\ CachesAreCurrent' /\ KeysPublished' /\ TokensDated'
  BY <1>2 DEF Inductive, Told, CachesAreCurrent, KeysAreCurrent, RotationNoticed, TokensLive,
              KeysPublished, Published, TokensDated
<1> QED
  BY <1>4, <1>5, <1>7, <1>8 DEF Inductive

(* The answer is stored, and all who wait are served from it.              *)
LEMMA RefreshInductive ==
  ASSUME Inductive, Refresh
  PROVE  Inductive'
<1>1. /\ second \in Nat /\ second > 0 /\ keys \in SUBSET Kids
      /\ born \in [Kids -> Nat] /\ gone \in [Kids -> Nat]
      /\ jwks \in [keys : SUBSET Kids, fetchedAt : Nat, flight : Flight(Kids, Callers \X Bearers)]
      /\ mgmt \in [expires : Nat, trueExpires : Nat, flight : Flight(Nat, Callers)]
      /\ verdict \in [Callers -> [outcome : Outcomes, kid : KidClaims, expires : Nat, at : Nat]]
  BY DEF Inductive, TypeOK
<1> DEFINE f == jwks.flight
<1>2. UNCHANGED <<second, keys, born, gone, mgmt>> /\ f.step = "answered"
  BY DEF Refresh
<1>3. /\ f.got \in SUBSET Kids /\ f.began \in Nat /\ AsOf(f.got, f.began)
      /\ f.began <= second /\ second <= f.began + Latency
  BY <1>1, <1>2 DEF Inductive, FlightsShort, KeySetsDated, Flight
<1>4. jwks' = [keys |-> f.got, fetchedAt |-> second, flight |-> NotInFlight]
  BY DEF Refresh
<1>5. jwks' \in [keys : SUBSET Kids, fetchedAt : Nat, flight : Flight(Kids, Callers \X Bearers)]
  BY <1>1, <1>3, <1>4 DEF Flight, NotInFlight, Steps
<1>6. AsOf(f.got, second - Latency)
  BY <1>1, <1>3, TokenAssumption DEF AsOf, TokenAssumption, Published
<1>7. ASSUME NEW c \in Callers
      PROVE  \/ verdict'[c] = verdict[c]
             \/ \E b \in Bearers : verdict'[c] = Validated(b, f.got)
  <2>1. CASE \E b \in Bearers : <<c, b>> \in f.waiting
    <3> DEFINE q == CHOOSE r \in f.waiting : r[1] = c
    <3>1. q \in f.waiting
      BY <2>1
    <3>2. q[2] \in Bearers
      BY <3>1, <1>1 DEF Flight
    <3>3. verdict'[c] = Validated(q[2], f.got)
      BY <2>1 DEF Refresh
    <3> QED
      BY <3>2, <3>3
  <2>2. CASE ~\E b \in Bearers : <<c, b>> \in f.waiting
    BY <2>2 DEF Refresh
  <2> QED
    BY <2>1, <2>2
<1>8. ASSUME NEW b \in Bearers
      PROVE  LET v == Validated(b, f.got) IN
             /\ v \in [outcome : Outcomes, kid : KidClaims, expires : Nat, at : Nat]
             /\ v.at = second /\ v.outcome # "TOKEN"
             /\ v.outcome = "ACCEPTED" /\ gone[v.kid] > 0 =>
                  v.at <= gone[v.kid] + SoftTtl + Latency
             /\ v.outcome = "UNKNOWN_KEY" /\ v.kid \in Kids =>
                  ~Published(v.kid) \/ v.at < born[v.kid] + MinRefresh + Latency
  <2>1. b.kid \in KidClaims
    BY DEF KidClaims
  <2>2. /\ second <= f.began + SoftTtl + Latency
        /\ second < f.began + MinRefresh + Latency
    BY <1>1, <1>3, TokenAssumption DEF TokenAssumption
  <2> QED
    BY <2>1, <2>2, <1>3, ValidatedInTime
<1>9. verdict' \in [Callers -> [outcome : Outcomes, kid : KidClaims, expires : Nat, at : Nat]]
  <2>1. \A c \in Callers :
          verdict'[c] \in [outcome : Outcomes, kid : KidClaims, expires : Nat, at : Nat]
    BY <1>1, <1>7, <1>8
  <2>2. verdict' = [c \in Callers |-> verdict'[c]]
    BY DEF Refresh
  <2> QED
    BY <2>1, <2>2
<1>10. Told' /\ CachesAreCurrent' /\ KeysPublished'
  <2>1. \A c \in Callers : verdict'[c] # verdict[c] =>
           LET v == verdict'[c] IN
           /\ v.at <= second
           /\ v.outcome = "ACCEPTED" /\ gone[v.kid] > 0 => v.at <= gone[v.kid] + SoftTtl + Latency
           /\ v.outcome = "UNKNOWN_KEY" /\ v.kid \in Kids =>
                ~Published(v.kid) \/ v.at < born[v.kid] + MinRefresh + Latency
           /\ v.outcome = "TOKEN" => v.expires > v.at + MinRemaining
    BY <1>1, <1>7, <1>8
  <2> QED
    BY <2>1, <1>2, <1>9, ToldInTime
<1>11. TypeOK'
  BY <1>1, <1>2, <1>5, <1>9 DEF TypeOK
<1>12. FlightsShort' /\ TokensDated'
  BY <1>2, <1>4 DEF Inductive, FlightsShort, TokensDated, NotInFlight
<1>13. KeySetsDated'
  BY <1>1, <1>2, <1>4, <1>6 DEF KeySetsDated, AsOf, Published, NotInFlight
<1> QED
  BY <1>10, <1>11, <1>12, <1>13 DEF Inductive

(* A fetch that fails leaves the keys as they were, and refuses all.       *)
LEMMA RefreshFailsInductive ==
  ASSUME Inductive, RefreshFails
  PROVE  Inductive'
<1>1. /\ second \in Nat /\ second > 0 /\ keys \in SUBSET Kids
      /\ born \in [Kids -> Nat] /\ gone \in [Kids -> Nat]
      /\ jwks \in [keys : SUBSET Kids, fetchedAt : Nat, flight : Flight(Kids, Callers \X Bearers)]
      /\ mgmt \in [expires : Nat, trueExpires : Nat, flight : Flight(Nat, Callers)]
      /\ verdict \in [Callers -> [outcome : Outcomes, kid : KidClaims, expires : Nat, at : Nat]]
  BY DEF Inductive, TypeOK
<1>2. UNCHANGED <<second, keys, born, gone, mgmt>>
  BY DEF RefreshFails
<1>3. /\ jwks'.keys = jwks.keys /\ jwks'.fetchedAt = jwks.fetchedAt /\ jwks'.flight = NotInFlight
      /\ jwks' \in [keys : SUBSET Kids, fetchedAt : Nat, flight : Flight(Kids, Callers \X Bearers)]
  BY <1>1 DEF RefreshFails, Flight, NotInFlight, Steps
<1>4. \A c \in Callers : verdict'[c] \in {verdict[c], Verdict("FAILED", NoClaim)}
  BY DEF RefreshFails
<1>5. verdict' \in [Callers -> [outcome : Outcomes, kid : KidClaims, expires : Nat, at : Nat]]
  <2>1. Verdict("FAILED", NoClaim) \in
          [outcome : Outcomes, kid : KidClaims, expires : Nat, at : Nat]
    BY <1>1 DEF Verdict, Outcomes, KidClaims
  <2>2. verdict' = [c \in Callers |-> verdict'[c]]
    BY DEF RefreshFails
  <2> QED
    BY <2>1, <2>2, <1>1, <1>4
<1>6. Told' /\ CachesAreCurrent' /\ KeysPublished'
  BY <1>1, <1>2, <1>4, <1>5, ToldInTime DEF Verdict
<1>7. TypeOK'
  BY <1>1, <1>2, <1>3, <1>5 DEF TypeOK
<1>8. FlightsShort' /\ KeySetsDated' /\ TokensDated'
  BY <1>2, <1>3 DEF Inductive, FlightsShort, KeySetsDated, TokensDated, AsOf, Published, NotInFlight
<1> QED
  BY <1>6, <1>7, <1>8 DEF Inductive

(* The Management token: handed out while it lives long enough.            *)
LEMMA GetAccessTokenInductive ==
  ASSUME Inductive, NEW c \in Callers, GetAccessToken(c)
  PROVE  Inductive'
<1>1. /\ second \in Nat /\ second > 0 /\ keys \in SUBSET Kids
      /\ born \in [Kids -> Nat] /\ gone \in [Kids -> Nat]
      /\ jwks \in [keys : SUBSET Kids, fetchedAt : Nat, flight : Flight(Kids, Callers \X Bearers)]
      /\ mgmt \in [expires : Nat, trueExpires : Nat, flight : Flight(Nat, Callers)]
      /\ verdict \in [Callers -> [outcome : Outcomes, kid : KidClaims, expires : Nat, at : Nat]]
  BY DEF Inductive, TypeOK
<1>2. UNCHANGED <<second, keys, born, gone, jwks>>
  BY DEF GetAccessToken
<1>3. /\ mgmt'.expires = mgmt.expires /\ mgmt'.trueExpires = mgmt.trueExpires
      /\ mgmt' \in [expires : Nat, trueExpires : Nat, flight : Flight(Nat, Callers)]
      /\ mgmt'.flight.step = "answered" =>
           mgmt'.flight.got = mgmt.flight.got /\ mgmt.flight.step = "answered"
      /\ \/ mgmt'.flight.began = second
         \/ mgmt'.flight.began = mgmt.flight.began /\ mgmt'.flight.step = mgmt.flight.step
      /\ mgmt'.flight.step = "answered" => mgmt'.flight.began = mgmt.flight.began
  <2>1. CASE StillUsable
    BY <2>1, <1>1 DEF GetAccessToken
  <2>2. CASE ~StillUsable /\ mgmt.flight.step = "none"
    BY <2>2, <1>1 DEF GetAccessToken, Join, Flight, Steps
  <2>3. CASE ~StillUsable /\ mgmt.flight.step # "none"
    BY <2>3, <1>1 DEF GetAccessToken, Join, Flight, Steps
  <2> QED
    BY <2>1, <2>2, <2>3
<1> DEFINE v == IF StillUsable THEN Handed(mgmt.trueExpires) ELSE NoVerdict
<1>4. verdict' = [verdict EXCEPT ![c] = v]
  BY DEF GetAccessToken
<1>5. /\ v \in [outcome : Outcomes, kid : KidClaims, expires : Nat, at : Nat]
      /\ v.at <= second /\ v.outcome \in {"NONE", "TOKEN"}
      /\ v.outcome = "TOKEN" => v.expires > v.at + MinRemaining
  <2>1. CASE StillUsable
    BY <2>1, <1>1, TokenAssumption
    DEF StillUsable, Handed, Inductive, TokensDated, Outcomes, KidClaims, TokenAssumption
  <2>2. CASE ~StillUsable
    BY <2>2, <1>1 DEF NoVerdict, Outcomes, KidClaims
  <2> QED
    BY <2>1, <2>2
<1> HIDE DEF v
<1>6. verdict' \in [Callers -> [outcome : Outcomes, kid : KidClaims, expires : Nat, at : Nat]]
  BY <1>1, <1>4, <1>5
<1>7. Told' /\ CachesAreCurrent' /\ KeysPublished'
  BY <1>1, <1>2, <1>4, <1>5, <1>6, ToldInTime
<1>8. TypeOK'
  BY <1>1, <1>2, <1>3, <1>6 DEF TypeOK
<1>9. FlightsShort'
  BY <1>1, <1>2, <1>3, TokenAssumption DEF Inductive, FlightsShort, TokenAssumption
<1>10. KeySetsDated' /\ TokensDated'
  BY <1>2, <1>3 DEF Inductive, KeySetsDated, TokensDated, AsOf, Published
<1> QED
  BY <1>7, <1>8, <1>9, <1>10 DEF Inductive

(* The lifetime of a token begins after the request for it.                *)
LEMMA AnswerMintInductive ==
  ASSUME Inductive, AnswerMint
  PROVE  Inductive'
<1>1. /\ second \in Nat /\ second > 0 /\ keys \in SUBSET Kids
      /\ born \in [Kids -> Nat] /\ gone \in [Kids -> Nat]
      /\ jwks \in [keys : SUBSET Kids, fetchedAt : Nat, flight : Flight(Kids, Callers \X Bearers)]
      /\ mgmt \in [expires : Nat, trueExpires : Nat, flight : Flight(Nat, Callers)]
      /\ verdict \in [Callers -> [outcome : Outcomes, kid : KidClaims, expires : Nat, at : Nat]]
  BY DEF Inductive, TypeOK
<1>2. UNCHANGED <<second, keys, born, gone, jwks, verdict>>
  BY DEF AnswerMint
<1>3. /\ mgmt'.expires = mgmt.expires /\ mgmt'.trueExpires = mgmt.trueExpires
      /\ mgmt'.flight.step = "answered" /\ mgmt'.flight.got = {second + Lifetime}
      /\ mgmt'.flight.began = mgmt.flight.began /\ mgmt.flight.step # "none"
      /\ mgmt' \in [expires : Nat, trueExpires : Nat, flight : Flight(Nat, Callers)]
  <2>1. {second + Lifetime} \in SUBSET Nat
    BY <1>1, TokenAssumption DEF TokenAssumption
  <2> DEFINE got == {second + Lifetime}
  <2>2. mgmt' = [mgmt EXCEPT !.flight.step = "answered", !.flight.got = got]
    BY DEF AnswerMint
  <2>3. got \in SUBSET Nat /\ got = {second + Lifetime} /\ mgmt.flight.step # "none"
    BY <2>1 DEF AnswerMint
  <2> HIDE DEF got
  <2> QED
    BY <1>1, <2>2, <2>3 DEF Flight, Steps
<1>4. TypeOK'
  BY <1>1, <1>2, <1>3 DEF TypeOK
<1>5. FlightsShort'
  BY <1>2, <1>3 DEF Inductive, FlightsShort
<1>6. TokensDated'
  <2>1. mgmt.flight.began <= second /\ mgmt.flight.began \in Nat
    BY <1>1, <1>3 DEF Inductive, FlightsShort, Flight
  <2> QED
    BY <2>1, <1>1, <1>3, TokenAssumption DEF Inductive, TokensDated, TokenAssumption
<1>7. Told' /\ CachesAreCurrent' /\ KeysPublished' /\ KeySetsDated'
  BY <1>2 DEF Inductive, Told, CachesAreCurrent, KeysAreCurrent, RotationNoticed, TokensLive,
              KeysPublished, Published, KeySetsDated, AsOf
<1> QED
  BY <1>4, <1>5, <1>6, <1>7 DEF Inductive

(* The token is stored with an expiry that is never too late.              *)
LEMMA MintTokenInductive ==
  ASSUME Inductive, MintToken
  PROVE  Inductive'
<1>1. /\ second \in Nat /\ second > 0 /\ keys \in SUBSET Kids
      /\ born \in [Kids -> Nat] /\ gone \in [Kids -> Nat]
      /\ jwks \in [keys : SUBSET Kids, fetchedAt : Nat, flight : Flight(Kids, Callers \X Bearers)]
      /\ mgmt \in [expires : Nat, trueExpires : Nat, flight : Flight(Nat, Callers)]
      /\ verdict \in [Callers -> [outcome : Outcomes, kid : KidClaims, expires : Nat, at : Nat]]
  BY DEF Inductive, TypeOK
<1> DEFINE f == mgmt.flight
           expires == CHOOSE e \in f.got : TRUE
<1>2. UNCHANGED <<second, keys, born, gone, jwks>> /\ f.step = "answered"
  BY DEF MintToken
<1>3. expires \in f.got
  BY <1>2 DEF Inductive, TokensDated
<1>4. /\ expires \in Nat /\ f.began \in Nat /\ f.began + Lifetime <= expires
      /\ second <= f.began + Latency
  BY <1>1, <1>2, <1>3 DEF Inductive, TokensDated, FlightsShort, Flight
<1>5. mgmt' = [expires |-> f.began + Lifetime, trueExpires |-> expires, flight |-> NotInFlight]
  BY DEF MintToken
<1>6. \A c \in Callers : verdict'[c] \in {verdict[c], Handed(expires)}
  BY DEF MintToken
<1>7. /\ Handed(expires) \in [outcome : Outcomes, kid : KidClaims, expires : Nat, at : Nat]
      /\ Handed(expires).at = second /\ Handed(expires).outcome = "TOKEN"
      /\ Handed(expires).expires > second + MinRemaining
  BY <1>1, <1>4, TokenAssumption DEF Handed, Outcomes, KidClaims, TokenAssumption
<1>8. verdict' \in [Callers -> [outcome : Outcomes, kid : KidClaims, expires : Nat, at : Nat]]
  <2>1. verdict' = [c \in Callers |-> verdict'[c]]
    BY DEF MintToken
  <2> HIDE DEF expires
  <2> QED
    BY <2>1, <1>1, <1>6, <1>7
<1>9. Told' /\ CachesAreCurrent' /\ KeysPublished'
  <2> HIDE DEF expires
  <2> QED
    BY <1>1, <1>2, <1>6, <1>7, <1>8, ToldInTime
<1>10. TypeOK'
  <2>1. mgmt' \in [expires : Nat, trueExpires : Nat, flight : Flight(Nat, Callers)]
    BY <1>4, <1>5, TokenAssumption DEF Flight, NotInFlight, Steps, TokenAssumption
  <2> QED
    BY <2>1, <1>1, <1>2, <1>8 DEF TypeOK
<1>11. FlightsShort' /\ KeySetsDated'
  BY <1>2, <1>5 DEF Inductive, FlightsShort, KeySetsDated, AsOf, Published, NotInFlight
<1>12. TokensDated'
  BY <1>4, <1>5 DEF TokensDated, NotInFlight
<1> QED
  BY <1>9, <1>10, <1>11, <1>12 DEF Inductive

(* A mint that fails leaves the token as it was.                           *)
LEMMA MintFailsInductive ==
  ASSUME Inductive, MintFails
  PROVE  Inductive'
<1>1. /\ second \in Nat /\ second > 0 /\ keys \in SUBSET Kids
      /\ born \in [Kids -> Nat] /\ gone \in [Kids -> Nat]
      /\ jwks \in [keys : SUBSET Kids, fetchedAt : Nat, flight : Flight(Kids, Callers \X Bearers)]
      /\ mgmt \in [expires : Nat, trueExpires : Nat, flight : Flight(Nat, Callers)]
      /\ verdict \in [Callers -> [outcome : Outcomes, kid : KidClaims, expires : Nat, at : Nat]]
  BY DEF Inductive, TypeOK
<1>2. UNCHANGED <<second, keys, born, gone, jwks>>
  BY DEF MintFails
<1>3. /\ mgmt'.expires = mgmt.expires /\ mgmt'.trueExpires = mgmt.trueExpires
      /\ mgmt'.flight = NotInFlight
      /\ mgmt' \in [expires : Nat, trueExpires : Nat, flight : Flight(Nat, Callers)]
  BY <1>1 DEF MintFails, Flight, NotInFlight, Steps
<1>4. \A c \in Callers : verdict'[c] \in {verdict[c], Verdict("FAILED", NoClaim)}
  BY DEF MintFails
<1>5. verdict' \in [Callers -> [outcome : Outcomes, kid : KidClaims, expires : Nat, at : Nat]]
  <2>1. Verdict("FAILED", NoClaim) \in
          [outcome : Outcomes, kid : KidClaims, expires : Nat, at : Nat]
    BY <1>1 DEF Verdict, Outcomes, KidClaims
  <2>2. verdict' = [c \in Callers |-> verdict'[c]]
    BY DEF MintFails
  <2> QED
    BY <2>1, <2>2, <1>1, <1>4
<1>6. Told' /\ CachesAreCurrent' /\ KeysPublished'
  BY <1>1, <1>2, <1>4, <1>5, ToldInTime DEF Verdict
<1>7. TypeOK'
  BY <1>1, <1>2, <1>3, <1>5 DEF TypeOK
<1>8. FlightsShort' /\ KeySetsDated' /\ TokensDated'
  BY <1>2, <1>3 DEF Inductive, FlightsShort, KeySetsDated, TokensDated, AsOf, Published, NotInFlight
<1> QED
  BY <1>6, <1>7, <1>8 DEF Inductive

(* A key that is published now was missing from no set asked for later.    *)
LEMMA RotateInductive ==
  ASSUME Inductive, NEW k \in Kids, Rotate(k)
  PROVE  Inductive'
<1>1. /\ second \in Nat /\ second > 0 /\ keys \in SUBSET Kids
      /\ born \in [Kids -> Nat] /\ gone \in [Kids -> Nat]
      /\ jwks \in [keys : SUBSET Kids, fetchedAt : Nat, flight : Flight(Kids, Callers \X Bearers)]
      /\ mgmt \in [expires : Nat, trueExpires : Nat, flight : Flight(Nat, Callers)]
      /\ verdict \in [Callers -> [outcome : Outcomes, kid : KidClaims, expires : Nat, at : Nat]]
  BY DEF Inductive, TypeOK
<1>2. /\ UNCHANGED <<second, gone, jwks, mgmt, verdict>> /\ born[k] = 0
      /\ keys' = keys \cup {k} /\ born' = [born EXCEPT ![k] = second]
  BY DEF Rotate
<1>3. TypeOK'
  BY <1>1, <1>2 DEF TypeOK
<1>4. Told' /\ FlightsShort' /\ TokensDated'
  BY <1>2 DEF Inductive, Told, FlightsShort, TokensDated
<1>5. KeysPublished'
  BY <1>1, <1>2 DEF Inductive, KeysPublished, Published
<1>6. KeySetsDated'
  <2>1. ASSUME jwks.flight.step = "answered" PROVE AsOf(jwks.flight.got, jwks.flight.began)'
    <3>1. /\ jwks.flight.got \in SUBSET Kids /\ jwks.flight.began \in Int
          /\ jwks.flight.began <= second /\ AsOf(jwks.flight.got, jwks.flight.began)
      BY <2>1, <1>1 DEF Inductive, FlightsShort, KeySetsDated, Flight
    <3> QED
      BY <3>1, <1>2 DEF AsOf, Published
  <2>2. ASSUME jwks.fetchedAt > 0 PROVE AsOf(jwks.keys, jwks.fetchedAt - Latency)'
    <3>1. jwks.fetchedAt - Latency <= second /\ AsOf(jwks.keys, jwks.fetchedAt - Latency)
      BY <2>2, <1>1, TokenAssumption DEF Inductive, KeySetsDated, TokenAssumption
    <3> QED
      BY <3>1, <1>1, <1>2 DEF AsOf, Published
  <2> QED
    BY <2>1, <2>2, <1>2 DEF Inductive, KeySetsDated
<1>7. CachesAreCurrent'
  BY <1>1, <1>2, TokenAssumption
  DEF Inductive, CachesAreCurrent, KeysAreCurrent, RotationNoticed, TokensLive, Told, TokenAssumption
<1> QED
  BY <1>3, <1>4, <1>5, <1>6, <1>7 DEF Inductive

(* A key that is retired now was in no set asked for later.                *)
LEMMA RetireInductive ==
  ASSUME Inductive, NEW k \in Kids, Retire(k)
  PROVE  Inductive'
<1>1. /\ second \in Nat /\ second > 0 /\ keys \in SUBSET Kids
      /\ born \in [Kids -> Nat] /\ gone \in [Kids -> Nat]
      /\ jwks \in [keys : SUBSET Kids, fetchedAt : Nat, flight : Flight(Kids, Callers \X Bearers)]
      /\ mgmt \in [expires : Nat, trueExpires : Nat, flight : Flight(Nat, Callers)]
      /\ verdict \in [Callers -> [outcome : Outcomes, kid : KidClaims, expires : Nat, at : Nat]]
  BY DEF Inductive, TypeOK
<1>2. /\ UNCHANGED <<second, born, jwks, mgmt, verdict>> /\ k \in keys
      /\ keys' = keys \ {k} /\ gone' = [gone EXCEPT ![k] = second]
  BY DEF Retire
<1>3. TypeOK'
  BY <1>1, <1>2 DEF TypeOK
<1>4. Told' /\ FlightsShort' /\ TokensDated'
  BY <1>2 DEF Inductive, Told, FlightsShort, TokensDated
<1>5. KeysPublished'
  BY <1>1, <1>2 DEF Inductive, KeysPublished, Published
<1>6. KeySetsDated'
  <2>1. ASSUME jwks.flight.step = "answered" PROVE AsOf(jwks.flight.got, jwks.flight.began)'
    <3>1. jwks.flight.began <= second /\ AsOf(jwks.flight.got, jwks.flight.began)
      BY <2>1, <1>1 DEF Inductive, FlightsShort, KeySetsDated
    <3> QED
      BY <3>1, <1>1, <1>2 DEF AsOf, Published
  <2>2. ASSUME jwks.fetchedAt > 0 PROVE AsOf(jwks.keys, jwks.fetchedAt - Latency)'
    <3>1. jwks.fetchedAt - Latency <= second /\ AsOf(jwks.keys, jwks.fetchedAt - Latency)
      BY <2>2, <1>1, TokenAssumption DEF Inductive, KeySetsDated, TokenAssumption
    <3> QED
      BY <3>1, <1>1, <1>2 DEF AsOf, Published
  <2> QED
    BY <2>1, <2>2, <1>2 DEF Inductive, KeySetsDated
<1>7. CachesAreCurrent'
  BY <1>1, <1>2, TokenAssumption
  DEF Inductive, CachesAreCurrent, KeysAreCurrent, RotationNoticed, TokensLive, Told, TokenAssumption
<1> QED
  BY <1>3, <1>4, <1>5, <1>6, <1>7 DEF Inductive

(* Time passes, but no request is waited for longer than Latency.          *)
LEMMA TickInductive ==
  ASSUME Inductive, Tick
  PROVE  Inductive'
<1>1. /\ second \in Nat /\ second > 0 /\ keys \in SUBSET Kids
      /\ born \in [Kids -> Nat] /\ gone \in [Kids -> Nat]
      /\ jwks \in [keys : SUBSET Kids, fetchedAt : Nat, flight : Flight(Kids, Callers \X Bearers)]
      /\ mgmt \in [expires : Nat, trueExpires : Nat, flight : Flight(Nat, Callers)]
      /\ verdict \in [Callers -> [outcome : Outcomes, kid : KidClaims, expires : Nat, at : Nat]]
  BY DEF Inductive, TypeOK
<1>2. /\ UNCHANGED <<keys, born, gone, jwks, mgmt, verdict>> /\ second' = second + 1
      /\ \A f \in {jwks.flight, mgmt.flight} : f.step # "none" => second - f.began < Latency
  BY DEF Tick
<1>3. TypeOK'
  BY <1>1, <1>2 DEF TypeOK
<1>4. FlightsShort'
  BY <1>1, <1>2, TokenAssumption DEF Inductive, FlightsShort, Flight, TokenAssumption
<1>5. Told'
  BY <1>1, <1>2 DEF Inductive, Told
<1>6. KeySetsDated'
  BY <1>1, <1>2 DEF Inductive, KeySetsDated, AsOf, Published
<1>7. CachesAreCurrent' /\ KeysPublished' /\ TokensDated'
  BY <1>2 DEF Inductive, CachesAreCurrent, KeysAreCurrent, RotationNoticed, TokensLive,
              KeysPublished, Published, TokensDated
<1> QED
  BY <1>3, <1>4, <1>5, <1>6, <1>7 DEF Inductive
-----------------------------------------------------------------------------
(* A step of the callers, of Auth0 or of the clock keeps the invariant.    *)
LEMMA NextInductive == Inductive /\ [Next]_vars => Inductive'
<1> SUFFICES ASSUME Inductive, [Next]_vars PROVE Inductive'
  OBVIOUS
<1>1. CASE UNCHANGED vars
  BY <1>1 DEF vars, Inductive, TypeOK, KeysPublished, Published, FlightsShort, KeySetsDated, AsOf,
              TokensDated, Told, CachesAreCurrent, KeysAreCurrent, RotationNoticed, TokensLive
<1>2. ASSUME NEW c \in Callers, NEW b \in Bearers, Validate(c, b) PROVE Inductive'
  BY <1>2, ValidateInductive
<1>3. ASSUME NEW c \in Callers, GetAccessToken(c) PROVE Inductive'
  BY <1>3, GetAccessTokenInductive
<1>4. CASE AnswerJwks \/ Refresh \/ RefreshFails
  BY <1>4, AnswerJwksInductive, RefreshInductive, RefreshFailsInductive
<1>5. CASE AnswerMint \/ MintToken \/ MintFails
  BY <1>5, AnswerMintInductive, MintTokenInductive, MintFailsInductive
<1>6. ASSUME NEW k \in Kids, Rotate(k) \/ Retire(k) PROVE Inductive'
  BY <1>6, RotateInductive, RetireInductive
<1>7. CASE Tick
  BY <1>7, TickInductive
<1> QED
  BY <1>1, <1>2, <1>3, <1>4, <1>5, <1>6, <1>7 DEF Next

(* For every TTL, throttle, margin and latency, and however many requests  *)
(* share a fetch: no answer of the two caches is older than they promise   *)
(* (JwksCacheService, Auth0ManagementTokenService).                        *)
THEOREM AnswersAreCurrent == Spec => []CachesAreCurrent
<1>1. Inductive => CachesAreCurrent
  BY DEF Inductive
<1> QED
  BY <1>1, InitInductive, NextInductive, PTL DEF Spec
=============================================================================
