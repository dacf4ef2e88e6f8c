-------------------------- MODULE MCDirectContracts --------------------------
(* An instance of DirectContracts for TLC.                                 *)
EXTENDS ContractInvariant, FiniteSets, TLC

CONSTANTS u1, h1

MCOwnerOf == [c \in Contracts |-> <<u1, h1>>]

(* The seasons, the policies, and what is priced or restricted by season   *)
(* are followed one at a time, beside the contract row; the last of them   *)
(* with one season that comes and goes.                                    *)
PolicyPart ==
  \/ \E p \in Policies : policies[p] # NoPolicy
  \/ \E w \in Writers : step[w] \in PolicySteps

RatePart ==
  \/ \E b \in Bands : bands[b] # NoBand
  \/ \E r \in Rates : rates[r] # NoRate
  \/ \E w \in Writers : step[w] \in ChildSteps \ SeasonSteps

RestrictionPart ==
  \/ \E r \in Restrictions : restrictions[r] # NoRestriction
  \/ \E w \in Writers : step[w] \in RestrictionSteps

SeasonPart ==
  \/ \E s \in Seasons : seasons[s] # NoSeason
  \/ \E w \in Writers : step[w] \in SeasonSteps

OneDaySeason ==
  /\ Cardinality({s \in Seasons : seasons[s] # NoSeason}) <= 1
  /\ \A s \in Seasons : seasons[s].presence = "THERE" => seasons[s].span = [from |-> 1, to |-> 1]
  /\ \A w \in Writers :
       step[w] \in SeasonSteps => step[w] \in {"check_overlap", "insert_season", "delete_season"}

OnePart ==
  /\ PolicyPart => ~RatePart /\ ~RestrictionPart /\ ~SeasonPart
  /\ RatePart => ~RestrictionPart
  /\ RatePart \/ RestrictionPart => OneDaySeason

Symmetry == Permutations(Writers) \cup Permutations(Seasons)
=============================================================================
