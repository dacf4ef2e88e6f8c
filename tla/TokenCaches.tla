----------------------------- MODULE TokenCaches -----------------------------
(***************************************************************************)
(* The two caches an API instance keeps of what it has from Auth0: the     *)
(* keys JwtValidatorService checks signatures with (JwksCacheService), and *)
(* the token of the Management API (Auth0ManagementTokenService).  Callers *)
(* share one request that is under way; when its answer arrives, all who   *)
(* wait for it go on before anything else happens.                         *)
(*                                                                         *)
(* A bearer token is [kid, wellFormed, signed, issued, exp, nbf, tenant,   *)
(* class, account]: its header is one the validator takes, the signature   *)
(* is kid's, and issuer and audience are ours.                             *)
(***************************************************************************)
EXTENDS Integers

CONSTANTS
  Callers,      \* the requests that may be served at once
  Kids,         \* key ids
  Bearers,      \* the bearer tokens there may come
  NoClaim,      \* a claim that is missing
  MinRefresh,   \* MIN_REFRESH_INTERVAL_MS
  SoftTtl,      \* SOFT_TTL_MS
  MinRemaining, \* MIN_REMAINING_LIFETIME_MS
  Lifetime,     \* of a management token
  Skew,         \* CLOCK_SKEW_SECONDS
  Latency,      \* how long fetch waits for an answer before it throws
  LastSecond    \* bound: when the clock stops

VARIABLES
  second,   \* Date.now()
  keys,     \* the keys in Auth0's JWKS
  born,     \* when a key was put there
  gone,     \* when it was taken away, if it was
  jwks,     \* cache and lastFetchAt, and the request in flight with who waits
  mgmt,     \* the same of the management token
  verdict   \* what each caller has last been told, and when

vars == <<second, keys, born, gone, jwks, mgmt, verdict>>

ASSUME TokenAssumption ==
  /\ {MinRefresh, SoftTtl, MinRemaining, Skew, Latency} \subseteq Nat /\ MinRefresh > 0
  /\ MinRefresh <= SoftTtl /\ Kids # {}
  /\ Lifetime \in Nat /\ Lifetime > Latency + MinRemaining

NotInFlight == [step |-> "none", began |-> 0, got |-> {}, waiting |-> {}]

NoVerdict == [outcome |-> "NONE", kid |-> NoClaim, expires |-> 0, at |-> 0]

(* A verdict about a bearer token of key kid, or about a fetch that failed. *)
Verdict(outcome, kid) == [outcome |-> outcome, kid |-> kid, expires |-> 0, at |-> second]

(* inFlight: the request that is shared by all who ask before it ends.     *)
Join(flight, who) ==
  IF flight.step = "none" THEN [step |-> "sent", began |-> second, got |-> {}, waiting |-> {who}]
  ELSE [flight EXCEPT !.waiting = flight.waiting \cup {who}]

Waiting(c) == c \in {q[1] : q \in jwks.flight.waiting} \cup mgmt.flight.waiting
-----------------------------------------------------------------------------
(* What the payload must say, when the key is there to check it with.      *)
ClaimsOk(b, at) ==
  /\ b.issued
  /\ at <= b.exp + Skew
  /\ b.nbf # NoClaim => b.nbf <= at + Skew
  /\ b.tenant # NoClaim
  /\ b.class \in {"OPERATOR", "AGENCY"} /\ (b.class = "AGENCY") = (b.account # NoClaim)

(* The validator's answer once it has the keys, or has not.                *)
Validated(b, known) ==
  Verdict(IF b.kid \notin known THEN "UNKNOWN_KEY"
          ELSE IF b.signed /\ ClaimsOk(b, second) THEN "ACCEPTED" ELSE "INVALID", b.kid)

(* Mutant of Fresh: a key once cached is kept.                             *)
NeverStale(kid) == kid \in jwks.keys

Fresh(kid) == kid \in jwks.keys /\ second - jwks.fetchedAt <= SoftTtl

(* Mutant of Throttled: for as long as the keys are fresh.                 *)
ThrottledWhileFresh == jwks.fetchedAt > 0 /\ second - jwks.fetchedAt <= SoftTtl

Throttled == jwks.fetchedAt > 0 /\ second - jwks.fetchedAt < MinRefresh

(* validate, getKey and refresh up to the first await.                     *)
Validate(c, b) ==
  /\ ~Waiting(c)
  /\ IF ~b.wellFormed
     THEN verdict' = [verdict EXCEPT ![c] = Verdict("INVALID", NoClaim)] /\ UNCHANGED jwks
     ELSE IF Fresh(b.kid) \/ (jwks.flight.step = "none" /\ Throttled)
     THEN verdict' = [verdict EXCEPT ![c] = Validated(b, jwks.keys)] /\ UNCHANGED jwks
     ELSE /\ jwks' = [jwks EXCEPT !.flight = Join(jwks.flight, <<c, b>>)]
          /\ verdict' = [verdict EXCEPT ![c] = NoVerdict]
  /\ UNCHANGED <<second, keys, born, gone, mgmt>>

AnswerJwks ==
  /\ jwks.flight.step = "sent"
  /\ jwks' = [jwks EXCEPT !.flight.step = "answered", !.flight.got = keys]
  /\ UNCHANGED <<second, keys, born, gone, mgmt, verdict>>

(* fetchJwks returns: the cache is replaced, and all who wait go on.  A    *)
(* JWKS without a usable key is a failure.                                 *)
Refresh ==
  LET f == jwks.flight IN
  /\ f.step = "answered" /\ f.got # {}
  /\ jwks' = [keys |-> f.got, fetchedAt |-> second, flight |-> NotInFlight]
  /\ verdict' = [c \in Callers |->
       IF \E b \in Bearers : <<c, b>> \in f.waiting
       THEN Validated((CHOOSE q \in f.waiting : q[1] = c)[2], f.got) ELSE verdict[c]]
  /\ UNCHANGED <<second, keys, born, gone, mgmt>>

(* It throws, and all who wait are refused, also with a key in the cache.  *)
RefreshFails ==
  LET f == jwks.flight IN
  /\ f.step # "none"
  /\ jwks' = [jwks EXCEPT !.flight = NotInFlight]
  /\ verdict' = [c \in Callers |-> IF c \in {q[1] : q \in f.waiting}
                                   THEN Verdict("FAILED", NoClaim) ELSE verdict[c]]
  /\ UNCHANGED <<second, keys, born, gone, mgmt>>
-----------------------------------------------------------------------------
Handed(expires) == [outcome |-> "TOKEN", kid |-> NoClaim, expires |-> expires, at |-> second]

(* Mutant of StillUsable: the token is used to its end.                    *)
UsableToTheEnd == mgmt.expires > second

StillUsable == mgmt.expires - second > MinRemaining

GetAccessToken(c) ==
  /\ ~Waiting(c)
  /\ IF StillUsable
     THEN verdict' = [verdict EXCEPT ![c] = Handed(mgmt.trueExpires)] /\ UNCHANGED mgmt
     ELSE /\ mgmt' = [mgmt EXCEPT !.flight = Join(mgmt.flight, c)]
          /\ verdict' = [verdict EXCEPT ![c] = NoVerdict]
  /\ UNCHANGED <<second, keys, born, gone, jwks>>

(* Auth0 mints a token that lives from now on.                             *)
AnswerMint ==
  /\ mgmt.flight.step = "sent"
  /\ mgmt' = [mgmt EXCEPT !.flight.step = "answered", !.flight.got = {second + Lifetime}]
  /\ UNCHANGED <<second, keys, born, gone, jwks, verdict>>

(* The lifetime is counted from before the request.                        *)
MintToken ==
  LET f == mgmt.flight
      expires == CHOOSE e \in f.got : TRUE IN
  /\ f.step = "answered"
  /\ mgmt' = [expires |-> f.began + Lifetime, trueExpires |-> expires, flight |-> NotInFlight]
  /\ verdict' = [c \in Callers |-> IF c \in f.waiting THEN Handed(expires) ELSE verdict[c]]
  /\ UNCHANGED <<second, keys, born, gone, jwks>>

MintFails ==
  /\ mgmt.flight.step # "none"
  /\ mgmt' = [mgmt EXCEPT !.flight = NotInFlight]
  /\ verdict' = [c \in Callers |-> IF c \in mgmt.flight.waiting
                                   THEN Verdict("FAILED", NoClaim) ELSE verdict[c]]
  /\ UNCHANGED <<second, keys, born, gone, jwks>>
-----------------------------------------------------------------------------
(* A new signing key; the old ones stay for a while.                       *)
Rotate(k) ==
  /\ born[k] = 0
  /\ keys' = keys \cup {k} /\ born' = [born EXCEPT ![k] = second]
  /\ UNCHANGED <<second, gone, jwks, mgmt, verdict>>

Retire(k) ==
  /\ k \in keys /\ keys # {k}
  /\ keys' = keys \ {k} /\ gone' = [gone EXCEPT ![k] = second]
  /\ UNCHANGED <<second, born, jwks, mgmt, verdict>>

(* No request to Auth0 is waited for longer than Latency.                  *)
Tick ==
  /\ second < LastSecond
  /\ \A f \in {jwks.flight, mgmt.flight} : f.step # "none" => second - f.began < Latency
  /\ second' = second + 1
  /\ UNCHANGED <<keys, born, gone, jwks, mgmt, verdict>>

Init ==
  LET first == CHOOSE k \in Kids : TRUE IN
  /\ second = 1 /\ keys = {first}
  /\ born = [k \in Kids |-> IF k = first THEN 1 ELSE 0]
  /\ gone = [k \in Kids |-> 0]
  /\ jwks = [keys |-> {}, fetchedAt |-> 0, flight |-> NotInFlight]
  /\ mgmt = [expires |-> 0, trueExpires |-> 0, flight |-> NotInFlight]
  /\ verdict = [c \in Callers |-> NoVerdict]

Next ==
  \/ \E c \in Callers : (\E b \in Bearers : Validate(c, b)) \/ GetAccessToken(c)
  \/ AnswerJwks \/ Refresh \/ RefreshFails
  \/ AnswerMint \/ MintToken \/ MintFails
  \/ \E k \in Kids : Rotate(k) \/ Retire(k)
  \/ Tick

Spec == Init /\ [][Next]_vars
-----------------------------------------------------------------------------
(* A token is accepted at most one soft TTL and one request after its key  *)
(* was taken out of the JWKS.                                              *)
KeysAreCurrent == \A c \in Callers :
  verdict[c].outcome = "ACCEPTED" /\ gone[verdict[c].kid] > 0 =>
    verdict[c].at <= gone[verdict[c].kid] + SoftTtl + Latency

(* A token is refused for want of its key less than one throttle interval  *)
(* and one request after the key was published.                            *)
RotationNoticed == \A c \in Callers : LET k == verdict[c].kid IN
  verdict[c].outcome = "UNKNOWN_KEY" /\ k \in Kids =>
    born[k] = 0 \/ gone[k] > 0 \/ verdict[c].at < born[k] + MinRefresh + Latency

(* Whoever is handed a management token can use it for MinRemaining.       *)
TokensLive == \A c \in Callers :
  verdict[c].outcome = "TOKEN" => verdict[c].expires > verdict[c].at + MinRemaining

(* The caches, with their shared requests, throttle and margins, give      *)
(* nobody an answer that is older than they promise (JwksCacheService,     *)
(* Auth0ManagementTokenService).                                           *)
CachesAreCurrent == KeysAreCurrent /\ RotationNoticed /\ TokensLive
=============================================================================
