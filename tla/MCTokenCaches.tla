---------------------------- MODULE MCTokenCaches ----------------------------
(***************************************************************************)
(* Two requests at a time, a key and the one it is rotated to, for four    *)
(* seconds: longer than the throttle, the soft TTL and a token's life.     *)
(***************************************************************************)
EXTENDS TokenCaches, FiniteSets

CONSTANTS k1, k2, c1, c2

(* Good tokens of either key, and ones that lack this or that.             *)
MCBearer(kid) ==
  [kid |-> kid, wellFormed |-> TRUE, signed |-> TRUE, issued |-> TRUE, exp |-> 9, nbf |-> NoClaim,
   tenant |-> "t1", class |-> "OPERATOR", account |-> NoClaim]

MCBearers ==
  {MCBearer(k1), MCBearer(k2),
   [MCBearer(k1) EXCEPT !.wellFormed = FALSE], [MCBearer(k2) EXCEPT !.exp = 1]}

(* The keys or the management token are asked for: they share no state.    *)
OneCache ==
  \/ mgmt.flight.step = "none" /\ mgmt.expires = 0
  \/ /\ jwks.flight.step = "none" /\ jwks.fetchedAt = 0 /\ Cardinality(keys) = 1
     /\ \A c \in Callers : verdict[c].outcome # "INVALID"
=============================================================================
