----------------------- MODULE DirectContracts_proofs -----------------------
(***************************************************************************)
(* Type correctness of DirectContracts with three lemmas that say which    *)
(* actions write a table, take a lock, or bring a request to a step (the   *)
(* proofs about single tables look at those actions only); the inductive   *)
(* invariant; and from it every property of the seasons, rates, policies   *)
(* and restrictions, for any number of contracts, rows and requests.       *)
(***************************************************************************)
EXTENDS ContractInvariant, TLAPS

(* One statement of the request of w.                                      *)
Move(w) == \/ ContractRequests(w)
           \/ SeasonRequests(w)
           \/ RateRequests(w)
           \/ PolicyRequests(w)
           \/ RestrictionRequests(w)

(* A request of w is let through by its first reads.                       *)
Starts(w) ==
  \/ \E c \in Contracts : \/ StartSoftDeleteContract(w, c)
                          \/ \E want \in {"ACTIVE", "INACTIVE"} :
                               StartPatchContract(w, c, want)
  \/ \E c \in Contracts, s \in Seasons :
       \/ StartDeleteSeason(w, c, s)
       \/ \E d \in Span : LockForSeason(w, c, s, d) \/ StartPatchSeason(w, c, s, d)
  \/ \E c \in Contracts, b \in Bands : StartBand(w, c, b) \/ StartDeleteBand(w, c, b)
  \/ \E c \in Contracts, r \in Rates :
       \/ StartDeleteRate(w, c, r)
       \/ \E s \in Seasons, b \in Bands \cup {None} : StartRate(w, c, r, s, b)
  \/ \E c \in Contracts \cup {None}, o \in Owners, plan \in Plans \cup {None}, p \in Policies :
       \/ StartPolicy(w, c, o, plan, p)
       \/ \E old \in Policies : StartSupersedePolicy(w, c, o, plan, old, p)
  \/ \E c \in Contracts \cup {None}, o \in Owners, s \in Seasons \cup {None},
        r \in Restrictions :
       \/ StartRestriction(w, c, o, s, r)
       \/ \E old \in Restrictions : StartSupersedeRestriction(w, c, o, s, old, r)

(* Each table is written by the few statements that say so.                *)
LEMMA TableWriters ==
  ASSUME NEW w \in Writers, Move(w)
  PROVE  /\ contracts' = contracts \/ (\E c \in Contracts : CreateContract(w, c))
                                   \/ UpdateContract(w)
         /\ seasons' = seasons \/ InsertSeason(w) \/ UpdateSeason(w) \/ DeleteSeason(w)
         /\ bands' = bands \/ InsertBand(w) \/ DeleteBand(w)
         /\ rates' = rates \/ InsertRate(w) \/ DeleteRate(w)
         /\ policies' = policies \/ InsertPolicy(w)
         /\ restrictions' = restrictions \/ InsertRestriction(w) \/ ReplaceRestriction(w)
<1>1. CASE ContractRequests(w)
  BY <1>1 DEF ContractRequests, CreateContract, StartSoftDeleteContract, StartPatchContract,
              CountSeasons, UpdateContract, Abandon, Begin, Proceed, tables
<1>2. CASE SeasonRequests(w)
  BY <1>2 DEF SeasonRequests, StartDeleteSeason, LockForSeason, StartPatchSeason,
              CheckOverlap, InsertSeason, FindSeason, AssertNoOverlap, UpdateSeason,
              DeleteSeason, Begin, Proceed, tables
<1>3. CASE RateRequests(w)
  BY <1>3 DEF RateRequests, StartBand, StartDeleteBand, StartDeleteRate, StartRate,
              InsertBand, DeleteBand, InsertRate, DeleteRate, Begin, Proceed, tables
<1>4. CASE PolicyRequests(w)
  BY <1>4 DEF PolicyRequests, StartPolicy, StartSupersedePolicy, LockOldPolicy, LockParent,
              ComputeVersion, InsertPolicy, Begin, Proceed, tables
<1>5. CASE RestrictionRequests(w)
  BY <1>5 DEF RestrictionRequests, StartRestriction, StartSupersedeRestriction,
              InsertRestriction, LockOldRestriction, ReplaceRestriction, Begin, Proceed, tables
<1>. QED  BY <1>1, <1>2, <1>3, <1>4, <1>5 DEF Move

(* A statement takes one lock, or none, or ends its request.               *)
LEMMA LockTakers ==
  ASSUME NEW w \in Writers, Move(w)
  PROVE  \/ lock' = lock
         \/ Finish(w)
         \/ \E c \in Contracts, s \in Seasons, d \in Span : LockForSeason(w, c, s, d)
         \/ LockOldPolicy(w) \/ LockParent(w) \/ LockOldRestriction(w)
<1>1. CASE ContractRequests(w)
  BY <1>1 DEF ContractRequests, CreateContract, StartSoftDeleteContract, StartPatchContract,
              CountSeasons, UpdateContract, Abandon, Begin
<1>2. CASE SeasonRequests(w)
  BY <1>2 DEF SeasonRequests, StartDeleteSeason, StartPatchSeason,
              CheckOverlap, InsertSeason, FindSeason, AssertNoOverlap, UpdateSeason,
              DeleteSeason, Begin
<1>3. CASE RateRequests(w)
  BY <1>3 DEF RateRequests, StartBand, StartDeleteBand, StartDeleteRate, StartRate,
              InsertBand, DeleteBand, InsertRate, DeleteRate, Begin
<1>4. CASE PolicyRequests(w)
  BY <1>4 DEF PolicyRequests, StartPolicy, StartSupersedePolicy,
              ComputeVersion, InsertPolicy, Begin
<1>5. CASE RestrictionRequests(w)
  BY <1>5 DEF RestrictionRequests, StartRestriction, StartSupersedeRestriction,
              InsertRestriction, ReplaceRestriction, Begin
<1>. QED  BY <1>1, <1>2, <1>3, <1>4, <1>5 DEF Move

(* The other requests stay as they are.  This one ends, stays idle, begins *)
(* with new variables, or goes on with nearly the same.                    *)
LEMMA Arrivals ==
  ASSUME TypeOK, NEW w \in Writers, Move(w)
  PROVE  /\ step' = [step EXCEPT ![w] = step'[w]] /\ req' = [req EXCEPT ![w] = req'[w]]
         /\ \A v \in Writers : v # w => step'[v] = step[v] /\ req'[v] = req[v]
         /\ \/ Finish(w)
            \/ step[w] = "idle" /\ step' = step /\ req' = req /\ lock' = lock
            \/ CountSeasons(w) \/ CheckOverlap(w) \/ FindSeason(w) \/ AssertNoOverlap(w)
            \/ LockOldPolicy(w) \/ LockParent(w) \/ ComputeVersion(w) \/ LockOldRestriction(w)
            \/ Starts(w)
<1>. USE DEF TypeOK
<1>1. CASE ContractRequests(w)
  BY <1>1 DEF Starts, ContractRequests, CreateContract, StartSoftDeleteContract, StartPatchContract,
              CountSeasons, UpdateContract, Abandon, Begin, Proceed, Finish
<1>2. CASE SeasonRequests(w)
  BY <1>2 DEF Starts, SeasonRequests, StartDeleteSeason, LockForSeason, StartPatchSeason,
              CheckOverlap, InsertSeason, FindSeason, AssertNoOverlap, UpdateSeason,
              DeleteSeason, Begin, Proceed, Finish
<1>3. CASE RateRequests(w)
  BY <1>3 DEF Starts, RateRequests, StartBand, StartDeleteBand, StartDeleteRate, StartRate,
              InsertBand, DeleteBand, InsertRate, DeleteRate, Begin, Proceed, Finish
<1>4. CASE PolicyRequests(w)
  <2>1. Finish(w) \/ LockOldPolicy(w) \/ LockParent(w) \/ ComputeVersion(w) \/ Starts(w)
    BY <1>4 DEF Starts, PolicyRequests, InsertPolicy
  <2>2. \E t, r : step' = [step EXCEPT ![w] = t] /\ req' = [req EXCEPT ![w] = r]
    BY <1>4 DEF PolicyRequests, StartPolicy, StartSupersedePolicy, LockOldPolicy, LockParent,
                ComputeVersion, InsertPolicy, Begin, Proceed, Finish
  <2>. QED  BY <2>1, <2>2
<1>5. CASE RestrictionRequests(w)
  <2>1. Finish(w) \/ LockOldRestriction(w) \/ Starts(w)
    BY <1>5 DEF Starts, RestrictionRequests, InsertRestriction, ReplaceRestriction
  <2>2. \E t, r : step' = [step EXCEPT ![w] = t] /\ req' = [req EXCEPT ![w] = r]
    BY <1>5 DEF RestrictionRequests, StartRestriction, StartSupersedeRestriction,
                InsertRestriction, LockOldRestriction, ReplaceRestriction, Begin, Proceed, Finish
  <2>. QED  BY <2>1, <2>2
<1>. QED  BY <1>1, <1>2, <1>3, <1>4, <1>5 DEF Move
-----------------------------------------------------------------------------
(* A request with one variable assigned is a request.                      *)
LEMMA RequestFields ==
  \A q \in Request :
         /\ \A c \in Contracts \cup {None} : [q EXCEPT !.contract = c] \in Request
         /\ \A o \in Owners \cup {None} : [q EXCEPT !.owner = o] \in Request
         /\ \A x \in Ids : [q EXCEPT !.id = x] \in Request
         /\ \A want \in Statuses : [q EXCEPT !.want = want] \in Request
         /\ \A d \in Span : [q EXCEPT !.span = d] \in Request
         /\ \A d \in Span : [q EXCEPT !.patch = d] \in Request
         /\ \A s \in Seasons \cup {None} : [q EXCEPT !.season = s] \in Request
         /\ \A b \in Bands \cup {None} : [q EXCEPT !.band = b] \in Request
         /\ \A l \in Plans \cup {None} : [q EXCEPT !.plan = l] \in Request
         /\ \A x \in Policies \cup Restrictions \cup {None} : [q EXCEPT !.old = x] \in Request
         /\ \A n \in Nat : [q EXCEPT !.version = n] \in Request
BY DEF Request

(* Where a statement takes its own request, the variables are of the right *)
(* type and address rows of the right tables.                              *)
LEMMA RequestTyped ==
  ASSUME TypeOK, NEW w \in Writers, Addressed(w), Move(w)
  PROVE  step'[w] \in Steps /\ req'[w] \in Request /\ Addressed(w)'
<1>. USE DEF Steps, ContractSteps, ChildSteps, RuleSteps, SeasonSteps, PolicySteps,
             RestrictionSteps
<1>a. NoSpan \in Span
  BY DaysAssumption DEF NoSpan, Span
<1>b. /\ Seasons \subseteq Ids /\ Bands \subseteq Ids /\ Rates \subseteq Ids
      /\ Policies \subseteq Ids /\ Restrictions \subseteq Ids /\ None \in Ids
  BY DEF Ids
<1>c. NoRequest \in Request
  BY <1>a, <1>b DEF NoRequest, Request, Statuses
<1>1. CASE Finish(w) \/ (step[w] = "idle" /\ step' = step /\ req' = req /\ lock' = lock)
  <2>1. step'[w] = "idle" /\ req'[w] \in {req[w], NoRequest}
    BY <1>1 DEF Finish, TypeOK
  <2>2. req'[w] \in Request
    BY <2>1, <1>c DEF TypeOK
  <2>3. Addressed(w)'
    BY <2>1 DEF Addressed
  <2>. QED  BY <2>1, <2>2, <2>3
<1>2. CASE CountSeasons(w) \/ CheckOverlap(w)
  <2>1. /\ \/ step[w] = "count_seasons" /\ step'[w] = "update_contract"
           \/ step[w] = "check_overlap" /\ step'[w] = "insert_season"
        /\ req'[w] = req[w]
    BY <1>2 DEF CountSeasons, CheckOverlap, Proceed, TypeOK
  <2>2. req'[w] \in Request
    BY <2>1 DEF TypeOK, Request
  <2>3. Addressed(w)'
    BY <2>1 DEF Addressed
  <2>. QED  BY <2>1, <2>2, <2>3
<1>3. CASE FindSeason(w)
  <2>1. /\ step[w] = "find_season" /\ step'[w] = "assert_no_overlap"
        /\ req'[w] = [req[w] EXCEPT !.span = Patched(req[w].patch, seasons[req[w].id].span)]
    BY <1>3 DEF FindSeason, Proceed, TypeOK
  <2>a. req[w] \in Request /\ req[w].patch \in Span /\ req[w].id \in Seasons
    BY <2>1 DEF TypeOK, Request, Addressed
  <2>b. seasons[req[w].id].span \in Span
    BY <2>a DEF TypeOK, SeasonRow
  <2>c. Patched(req[w].patch, seasons[req[w].id].span) \in Span
    BY <2>a, <2>b DEF Patched, Span
  <2>2. req'[w] \in Request
    BY <2>1, <2>a, <2>c, RequestFields
  <2>3. Addressed(w)'
    BY <2>1 DEF Addressed
  <2>. QED  BY <2>1, <2>2, <2>3
<1>4. CASE AssertNoOverlap(w)
  <2>1. /\ step[w] = "assert_no_overlap" /\ step'[w] = "update_season"
        /\ req'[w] = [req[w] EXCEPT !.span = NoSpan]
    BY <1>4 DEF AssertNoOverlap, Proceed, TypeOK
  <2>2. req'[w] \in Request
    BY <2>1, <1>a DEF TypeOK, Request
  <2>3. Addressed(w)'
    BY <2>1 DEF Addressed, TypeOK, Request
  <2>. QED  BY <2>1, <2>2, <2>3
<1>5. CASE LockOldPolicy(w) \/ LockParent(w) \/ LockOldRestriction(w)
  <2>1. /\ \/ step[w] \in PolicySteps /\ step'[w] \in PolicySteps \ {"lock_old_policy"}
           \/ step[w] = "lock_old_restriction" /\ step'[w] = "replace_restriction"
        /\ req'[w] = req[w]
    BY <1>5 DEF LockOldPolicy, LockParent, LockOldRestriction, Proceed, TypeOK
  <2>2. req'[w] \in Request
    BY <2>1 DEF TypeOK, Request
  <2>3. Addressed(w)'
    BY <2>1 DEF Addressed
  <2>. QED  BY <2>1, <2>2, <2>3
<1>6. CASE ComputeVersion(w)
  <2>a. Versions(req[w]) \subseteq Nat
    BY DEF Versions, Scope, TypeOK, PolicyRow
  <2>1. /\ step[w] = "compute_version" /\ step'[w] = "insert_policy"
        /\ \E max \in Nat : req'[w] = [req[w] EXCEPT !.version = max + 1]
    BY <1>6, <2>a DEF ComputeVersion, Proceed, TypeOK
  <2>2. req'[w] \in Request
    BY <2>1 DEF TypeOK, Request
  <2>3. Addressed(w)'
    BY <2>1 DEF Addressed, TypeOK, Request
  <2>. QED  BY <2>1, <2>2, <2>3
<1>7. ASSUME NEW c \in Contracts, NEW want \in {"ACTIVE", "INACTIVE"},
             StartSoftDeleteContract(w, c) \/ StartPatchContract(w, c, want)
      PROVE  step'[w] \in Steps /\ req'[w] \in Request /\ Addressed(w)'
  <2>1. /\ step'[w] \in ContractSteps
        /\ \E x \in {want, "INACTIVE"} :
             req'[w] = [NoRequest EXCEPT !.contract = c, !.want = x]
    BY <1>7 DEF StartSoftDeleteContract, StartPatchContract, Begin, NoRequest, TypeOK
  <2>2. \A x \in {want, "INACTIVE"} : [NoRequest EXCEPT !.contract = c, !.want = x] \in Request
    BY <1>c, RequestFields DEF Statuses
  <2>3. Addressed(w)'
    BY <2>1 DEF NoRequest, Addressed
  <2>. QED  BY <2>1, <2>2, <2>3
<1>8. ASSUME NEW c \in Contracts, NEW s \in Seasons, NEW d \in Span,
             LockForSeason(w, c, s, d)
      PROVE  step'[w] \in Steps /\ req'[w] \in Request /\ Addressed(w)'
  <2>1. /\ step'[w] = "check_overlap"
        /\ req'[w] = [NoRequest EXCEPT !.contract = c, !.id = s, !.span = d]
    BY <1>8 DEF LockForSeason, Proceed, NoRequest, TypeOK
  <2>2. [NoRequest EXCEPT !.contract = c, !.id = s, !.span = d] \in Request
    BY <1>b, <1>c, RequestFields
  <2>3. Addressed(w)'
    BY <2>1 DEF NoRequest, Addressed
  <2>. QED  BY <2>1, <2>2, <2>3
<1>9. ASSUME NEW c \in Contracts, NEW s \in Seasons, NEW d \in Span,
             StartPatchSeason(w, c, s, d)
      PROVE  step'[w] \in Steps /\ req'[w] \in Request /\ Addressed(w)'
  <2>1. /\ step'[w] = "find_season"
        /\ req'[w] = [NoRequest EXCEPT !.contract = c, !.id = s, !.patch = d]
    BY <1>9 DEF StartPatchSeason, Begin, NoRequest, TypeOK
  <2>2. [NoRequest EXCEPT !.contract = c, !.id = s, !.patch = d] \in Request
    BY <1>b, <1>c, RequestFields
  <2>3. Addressed(w)'
    BY <2>1 DEF NoRequest, Addressed
  <2>. QED  BY <2>1, <2>2, <2>3
<1>10. ASSUME NEW c \in Contracts, NEW s \in Seasons, StartDeleteSeason(w, c, s)
      PROVE  step'[w] \in Steps /\ req'[w] \in Request /\ Addressed(w)'
  <2>1. /\ step'[w] = "delete_season"
        /\ req'[w] = [NoRequest EXCEPT !.contract = c, !.id = s]
    BY <1>10 DEF StartDeleteSeason, Begin, NoRequest, TypeOK
  <2>2. [NoRequest EXCEPT !.contract = c, !.id = s] \in Request
    BY <1>b, <1>c, RequestFields
  <2>3. Addressed(w)'
    BY <2>1 DEF NoRequest, Addressed
  <2>. QED  BY <2>1, <2>2, <2>3
<1>11. ASSUME NEW c \in Contracts, NEW b \in Bands,
             StartBand(w, c, b) \/ StartDeleteBand(w, c, b)
      PROVE  step'[w] \in Steps /\ req'[w] \in Request /\ Addressed(w)'
  <2>1. /\ step'[w] \in {"insert_band", "delete_band"}
        /\ req'[w] = [NoRequest EXCEPT !.contract = c, !.id = b]
    BY <1>11 DEF StartBand, StartDeleteBand, Begin, NoRequest, TypeOK
  <2>2. [NoRequest EXCEPT !.contract = c, !.id = b] \in Request
    BY <1>b, <1>c, RequestFields
  <2>3. Addressed(w)'
    BY <2>1 DEF NoRequest, Addressed
  <2>. QED  BY <2>1, <2>2, <2>3
<1>12. ASSUME NEW c \in Contracts, NEW r \in Rates, NEW s \in Seasons,
             NEW b \in Bands \cup {None}, StartRate(w, c, r, s, b)
      PROVE  step'[w] \in Steps /\ req'[w] \in Request /\ Addressed(w)'
  <2>1. /\ step'[w] = "insert_rate"
        /\ req'[w] = [NoRequest EXCEPT !.contract = c, !.id = r, !.season = s, !.band = b]
    BY <1>12 DEF StartRate, Begin, NoRequest, TypeOK
  <2>2. [NoRequest EXCEPT !.contract = c, !.id = r, !.season = s, !.band = b] \in Request
    BY <1>b, <1>c, RequestFields
  <2>3. Addressed(w)'
    BY <2>1 DEF NoRequest, Addressed
  <2>. QED  BY <2>1, <2>2, <2>3
<1>13. ASSUME NEW c \in Contracts, NEW r \in Rates, StartDeleteRate(w, c, r)
      PROVE  step'[w] \in Steps /\ req'[w] \in Request /\ Addressed(w)'
  <2>1. /\ step'[w] = "delete_rate"
        /\ req'[w] = [NoRequest EXCEPT !.contract = c, !.id = r]
    BY <1>13 DEF StartDeleteRate, Begin, NoRequest, TypeOK
  <2>2. [NoRequest EXCEPT !.contract = c, !.id = r] \in Request
    BY <1>b, <1>c, RequestFields
  <2>3. Addressed(w)'
    BY <2>1 DEF NoRequest, Addressed
  <2>. QED  BY <2>1, <2>2, <2>3
<1>14. ASSUME NEW c \in Contracts \cup {None}, NEW o \in Owners, NEW plan \in Plans \cup {None},
             NEW p \in Policies, StartPolicy(w, c, o, plan, p)
      PROVE  step'[w] \in Steps /\ req'[w] \in Request /\ Addressed(w)'
  <2>1. /\ step'[w] = "lock_parent"
        /\ req'[w] = [NoRequest EXCEPT !.contract = c, !.owner = o, !.plan = plan, !.id = p]
        /\ c # None => o = OwnerOf[c]
    BY <1>14 DEF StartPolicy, Admits, Begin, NoRequest, TypeOK
  <2>2. [NoRequest EXCEPT !.contract = c, !.owner = o, !.plan = plan, !.id = p] \in Request
    BY <1>b, <1>c, RequestFields
  <2>3. Addressed(w)'
    BY <2>1 DEF NoRequest, Addressed
  <2>. QED  BY <2>1, <2>2, <2>3
<1>15. ASSUME NEW c \in Contracts \cup {None}, NEW o \in Owners, NEW plan \in Plans \cup {None},
             NEW p \in Policies, NEW x \in Policies, StartSupersedePolicy(w, c, o, plan, x, p)
      PROVE  step'[w] \in Steps /\ req'[w] \in Request /\ Addressed(w)'
  <2>. DEFINE superseding == [NoRequest EXCEPT !.contract = c, !.owner = o, !.plan = plan,
                                               !.old = x, !.id = p]
  <2>1. /\ step'[w] = "lock_old_policy"
        /\ req'[w] = superseding
        /\ c # None => o = OwnerOf[c]
    BY <1>15 DEF StartSupersedePolicy, Admits, Begin, NoRequest, TypeOK
  <2>2. superseding \in Request
    BY <1>b, <1>c, RequestFields
  <2>3. Addressed(w)'
    BY <2>1, NoneAssumption DEF NoRequest, Addressed
  <2>. QED  BY <2>1, <2>2, <2>3
<1>16. ASSUME NEW c \in Contracts \cup {None}, NEW o \in Owners, NEW s \in Seasons \cup {None},
             NEW r \in Restrictions, StartRestriction(w, c, o, s, r)
      PROVE  step'[w] \in Steps /\ req'[w] \in Request /\ Addressed(w)'
  <2>1. /\ step'[w] = "insert_restriction"
        /\ req'[w] = [NoRequest EXCEPT !.contract = c, !.owner = o, !.season = s, !.id = r]
        /\ c # None => o = OwnerOf[c]
    BY <1>16 DEF StartRestriction, Admits, Begin, NoRequest, TypeOK
  <2>2. [NoRequest EXCEPT !.contract = c, !.owner = o, !.season = s, !.id = r] \in Request
    BY <1>b, <1>c, RequestFields
  <2>3. Addressed(w)'
    BY <2>1 DEF NoRequest, Addressed
  <2>. QED  BY <2>1, <2>2, <2>3
<1>17. ASSUME NEW c \in Contracts \cup {None}, NEW o \in Owners, NEW s \in Seasons \cup {None},
             NEW r \in Restrictions, NEW x \in Restrictions,
             StartSupersedeRestriction(w, c, o, s, x, r)
      PROVE  step'[w] \in Steps /\ req'[w] \in Request /\ Addressed(w)'
  <2>. DEFINE superseding == [NoRequest EXCEPT !.contract = c, !.owner = o, !.season = s,
                                               !.old = x, !.id = r]
  <2>1. /\ step'[w] = "lock_old_restriction"
        /\ req'[w] = superseding
        /\ c # None => o = OwnerOf[c]
    BY <1>17 DEF StartSupersedeRestriction, Admits, Begin, NoRequest, TypeOK
  <2>2. superseding \in Request
    BY <1>b, <1>c, RequestFields
  <2>3. Addressed(w)'
    BY <2>1, NoneAssumption DEF NoRequest, Addressed
  <2>. QED  BY <2>1, <2>2, <2>3
<1>. HIDE DEF Steps, ContractSteps, ChildSteps, RuleSteps, SeasonSteps, PolicySteps,
              RestrictionSteps
<1>18. CASE Starts(w)
  BY <1>18, <1>7, <1>8, <1>9, <1>10, <1>11, <1>12, <1>13, <1>14, <1>15, <1>16, <1>17 DEF Starts
<1>. QED  BY <1>1, <1>2, <1>3, <1>4, <1>5, <1>6, <1>18, Arrivals
-----------------------------------------------------------------------------
Typed == TypeOK /\ \A w \in Writers : Addressed(w)

LEMMA TypedInit == Init => Typed
<1>. SUFFICES ASSUME Init  PROVE Typed
  OBVIOUS
<1>1. NoSpan \in Span
  BY DaysAssumption DEF NoSpan, Span
<1>2. NoRequest \in Request
  BY <1>1 DEF NoRequest, Request, Ids, Statuses
<1>3. NoSeason \in SeasonRow /\ NoBand \in BandRow /\ NoRate \in RateRow
      /\ NoPolicy \in PolicyRow /\ NoRestriction \in RestrictionRow
  BY <1>1 DEF NoSeason, SeasonRow, NoBand, BandRow, NoRate, RateRow, NoPolicy, PolicyRow,
              NoRestriction, RestrictionRow, Presence
<1>4. TypeOK
  BY <1>2, <1>3 DEF Init, TypeOK, Steps, Statuses
<1>5. \A w \in Writers : Addressed(w)
  BY DEF Init, Addressed, ContractSteps, ChildSteps, SeasonSteps, PolicySteps,
         RestrictionSteps
<1>. QED  BY <1>4, <1>5 DEF Typed

(* Each table keeps its type, for the rows written are addressed rightly.  *)
LEMMA TypedStep ==
  ASSUME Typed, [Next]_vars
  PROVE  Typed'
<1>1. CASE UNCHANGED vars
  BY <1>1 DEF vars, Typed, TypeOK, Addressed
<1>2. ASSUME NEW w \in Writers, Move(w)  PROVE Typed'
  <2>. TypeOK /\ Addressed(w)
    BY DEF Typed
  <2>. step[w] \in Steps /\ req[w] \in Request
    BY DEF TypeOK
  <2>1. contracts' \in [Contracts -> Statuses]
    BY <1>2, TableWriters DEF CreateContract, UpdateContract, TypeOK, Addressed, ContractSteps,
                              Request, Statuses
  <2>2. seasons' \in [Seasons -> SeasonRow]
    <3>1. CASE InsertSeason(w)
      BY <3>1 DEF InsertSeason, TypeOK, SeasonRow, Presence, Addressed, Request, ChildSteps
    <3>2. CASE UpdateSeason(w)
      <4>1. req[w].id \in Seasons /\ req[w].patch \in Span
        BY <3>2 DEF UpdateSeason, SeasonsOf, Request
      <4>2. Patched(req[w].patch, seasons[req[w].id].span) \in Span
        BY <4>1 DEF Patched, Span, TypeOK, SeasonRow
      <4>. QED  BY <3>2, <4>1, <4>2 DEF UpdateSeason, TypeOK, SeasonRow
    <3>3. CASE DeleteSeason(w)
      <4>1. req[w].id \in Seasons /\ req[w].contract \in Contracts \cup {None}
        BY <3>3 DEF DeleteSeason, SeasonsOf, Request
      <4>2. NoSpan \in Span
        BY DaysAssumption DEF NoSpan, Span
      <4>3. [NoSeason EXCEPT !.presence = "DELETED", !.contract = req[w].contract] \in SeasonRow
        BY <4>1, <4>2 DEF NoSeason, SeasonRow, Presence
      <4>. QED  BY <3>3, <4>1, <4>3 DEF DeleteSeason, TypeOK
    <3>. QED  BY <1>2, <3>1, <3>2, <3>3, TableWriters DEF TypeOK
  <2>3. bands' \in [Bands -> BandRow]
    <3>1. CASE InsertBand(w)
      BY <3>1 DEF InsertBand, TypeOK, BandRow, Presence, Addressed, ChildSteps
    <3>2. CASE DeleteBand(w)
      BY <3>2 DEF DeleteBand, TypeOK, BandRow, Presence
    <3>. QED  BY <1>2, <3>1, <3>2, TableWriters DEF TypeOK
  <2>4. rates' \in [Rates -> RateRow]
    <3>1. CASE InsertRate(w)
      BY <3>1 DEF InsertRate, SeasonsOf, BandsOf, TypeOK, RateRow, Presence, Addressed, ChildSteps
    <3>2. CASE DeleteRate(w)
      <4>1. [NoRate EXCEPT !.presence = "DELETED"] \in RateRow
        BY DEF NoRate, RateRow, Presence
      <4>. QED  BY <3>2, <4>1 DEF DeleteRate, TypeOK
    <3>. QED  BY <1>2, <3>1, <3>2, TableWriters DEF TypeOK
  <2>5. policies' \in [Policies -> PolicyRow]
    <3>1. CASE InsertPolicy(w)
      <4>1. req[w].id \in Policies /\ req[w].contract \in Contracts \cup {None}
            /\ req[w].owner \in Owners \cup {None} /\ req[w].plan \in Plans \cup {None}
            /\ req[w].version \in Nat
        BY <3>1 DEF InsertPolicy, Addressed, PolicySteps, Request
      <4>2. \A p \in Policies : policies'[p] \in PolicyRow
        BY <3>1, <4>1 DEF InsertPolicy, TypeOK, PolicyRow
      <4>. QED  BY <3>1, <4>2 DEF InsertPolicy
    <3>. QED  BY <1>2, <3>1, TableWriters DEF TypeOK
  <2>6. restrictions' \in [Restrictions -> RestrictionRow]
    <3>1. ASSUME req[w].contract \in Contracts \cup {None}, req[w].season \in Seasons \cup {None},
                 req[w].owner \in Owners \cup {None}
          PROVE  RestrictionOf(req[w]) \in RestrictionRow
      BY <3>1 DEF RestrictionOf, RestrictionRow, Presence
    <3>2. CASE InsertRestriction(w)
      BY <3>1, <3>2 DEF InsertRestriction, TypeOK, Request
    <3>3. CASE ReplaceRestriction(w)
      <4>1. req[w].id \in Restrictions /\ RestrictionOf(req[w]) \in RestrictionRow
        BY <3>1, <3>3 DEF ReplaceRestriction, Addressed, RestrictionSteps, Request
      <4>. DEFINE added == [restrictions EXCEPT ![req[w].id] = RestrictionOf(req[w])]
      <4>2. added \in [Restrictions -> RestrictionRow]
        BY <4>1 DEF TypeOK
      <4>3. restrictions' = [added EXCEPT ![req[w].old].by = req[w].id]
        BY <3>3 DEF ReplaceRestriction
      <4>4. \A r \in Restrictions : [added[r] EXCEPT !.by = req[w].id] \in RestrictionRow
        BY <4>1, <4>2 DEF RestrictionRow
      <4>. HIDE DEF added
      <4>. QED  BY <4>2, <4>3, <4>4
    <3>. QED  BY <1>2, <3>2, <3>3, TableWriters DEF TypeOK
  <2>7. lock' \in [Lockable -> Writers \cup {None}]
    <3>1. CASE Finish(w)
      BY <3>1 DEF Finish, TypeOK
    <3>. QED  BY <1>2, <3>1, LockTakers DEF LockForSeason, LockOldPolicy, LockParent,
                                            LockOldRestriction, TypeOK
  <2>8. step'[w] \in Steps /\ req'[w] \in Request /\ Addressed(w)'
    BY <1>2, RequestTyped
  <2>9. step' \in [Writers -> Steps] /\ req' \in [Writers -> Request]
    BY <1>2, <2>8, Arrivals DEF TypeOK
  <2>10. ASSUME NEW v \in Writers  PROVE Addressed(v)'
    <3>1. CASE v = w
      BY <3>1, <2>8
    <3>2. CASE v # w
      BY <3>2, <1>2, Arrivals DEF Typed, Addressed
    <3>. QED  BY <3>1, <3>2
  <2>. QED  BY <2>1, <2>2, <2>3, <2>4, <2>5, <2>6, <2>7, <2>9, <2>10 DEF Typed, TypeOK
<1>. QED  BY <1>1, <1>2 DEF Next, Move

(* Every variable has its type in every reachable state, and every request *)
(* addresses rows of the tables its statements are about.                  *)
THEOREM ContractsTyped == Spec => []Typed
<1>. QED  BY TypedInit, TypedStep, PTL DEF Spec
-----------------------------------------------------------------------------
(* Requests at these steps hold no row.                                    *)
Lockless == {"idle", "count_seasons", "update_contract", "find_season", "assert_no_overlap",
             "update_season", "delete_season", "insert_band", "delete_band", "insert_rate",
             "delete_rate", "lock_old_policy", "insert_restriction", "lock_old_restriction"}

LEMMA HeldNothing ==
  ASSUME NEW w \in Writers, step[w] \in Lockless
  PROVE  Held(w) = {}
BY DEF Held, Lockless

(* lock says exactly which rows each transaction has taken.                *)
LEMMA LocksHeldStep ==
  ASSUME Inductive, NEW w \in Writers, Move(w)
  PROVE  LocksHeld'
<1>. TypeOK /\ Addressed(w) /\ LocksHeld
  BY DEF Inductive
<1>. None \notin Writers \cup Lockable
  BY NoneAssumption DEF Lockable
<1>1. ASSUME NEW v \in Writers, v # w, NEW x \in Lockable
      PROVE  lock'[x] = v <=> x \in Held(v)'
  <2>1. Held(v)' = Held(v)
    BY <1>1, Arrivals DEF Held
  <2>2. lock'[x] = v <=> lock[x] = v
    <3>1. CASE Finish(w)
      BY <1>1, <3>1 DEF Finish
    <3>2. CASE \E y : lock[y] = None /\ lock' = [lock EXCEPT ![y] = w]
      BY <1>1, <3>2 DEF TypeOK
    <3>. QED  BY <3>1, <3>2, LockTakers DEF LockForSeason, LockOldPolicy, LockParent,
                                            LockOldRestriction
  <2>. QED  BY <2>1, <2>2, <1>1 DEF LocksHeld
<1>2. ASSUME NEW x \in Lockable  PROVE lock'[x] = w <=> x \in Held(w)'
  <2>. lock[x] = w <=> x \in Held(w)
    BY DEF LocksHeld
  <2>1. CASE Finish(w)
    BY <2>1 DEF Finish, Held, TypeOK
  <2>2. CASE lock' = lock /\ step[w] \in Lockless /\ step'[w] \in Lockless
    BY <2>2, HeldNothing DEF Held, Lockless
  <2>3. ASSUME NEW c \in Contracts, NEW s \in Seasons, NEW d \in Span, LockForSeason(w, c, s, d)
        PROVE  lock'[x] = w <=> x \in Held(w)'
    <3>1. step[w] \in Lockless /\ step'[w] = "check_overlap" /\ req'[w].contract = c
      BY <2>3 DEF LockForSeason, Proceed, NoRequest, TypeOK, Lockless
    <3>. QED  BY <2>3, <3>1, HeldNothing DEF LockForSeason, TypeOK, Held, Lockable
  <2>4. CASE CheckOverlap(w) \/ ComputeVersion(w)
    <3>1. lock' = lock /\ req'[w].contract = req[w].contract /\ req'[w].old = req[w].old
          /\ req'[w].owner = req[w].owner
          /\ \/ step[w] = "check_overlap" /\ step'[w] = "insert_season"
             \/ step[w] = "compute_version" /\ step'[w] = "insert_policy"
      BY <2>4 DEF CheckOverlap, ComputeVersion, Proceed, TypeOK, Request
    <3>. QED  BY <3>1 DEF Held, Parent, SupplierOf
  <2>5. CASE LockOldPolicy(w)
    <3>1. step[w] \in Lockless /\ step'[w] = "lock_parent" /\ req'[w] = req[w]
          /\ lock' = [lock EXCEPT ![req[w].old] = w]
      BY <2>5 DEF LockOldPolicy, Proceed, TypeOK, Lockless
    <3>. QED  BY <3>1, HeldNothing DEF TypeOK, Held
  <2>6. CASE LockOldRestriction(w)
    <3>1. step[w] \in Lockless /\ step'[w] = "replace_restriction" /\ req'[w] = req[w]
          /\ lock' = [lock EXCEPT ![req[w].old] = w]
      BY <2>6 DEF LockOldRestriction, Proceed, TypeOK, Lockless
    <3>. QED  BY <3>1, HeldNothing DEF TypeOK, Held
  <2>7. CASE LockParent(w)
    <3>1. step[w] = "lock_parent" /\ step'[w] = "compute_version" /\ req'[w] = req[w]
          /\ lock' = [lock EXCEPT ![Parent(req[w])] = w]
      BY <2>7 DEF LockParent, Proceed, TypeOK
    <3>. QED  BY <3>1 DEF TypeOK, Held
  <2>8. ASSUME NEW c \in Contracts \cup {None}, NEW o \in Owners, NEW plan \in Plans \cup {None},
               NEW p \in Policies, StartPolicy(w, c, o, plan, p)
        PROVE  lock'[x] = w <=> x \in Held(w)'
    <3>1. step[w] \in Lockless /\ step'[w] = "lock_parent" /\ req'[w].old = None /\ lock' = lock
      BY <2>8 DEF StartPolicy, Begin, NoRequest, TypeOK, Lockless
    <3>. QED  BY <3>1, HeldNothing DEF Held
  <2>9. CASE CountSeasons(w) \/ FindSeason(w) \/ AssertNoOverlap(w)
    BY <2>2, <2>9 DEF CountSeasons, FindSeason, AssertNoOverlap, Proceed, Lockless, TypeOK
  <2>10. CASE \E t \in Lockless : \E r : Begin(w, t, r)
    BY <2>2, <2>10 DEF Begin, Lockless, TypeOK
  <2>. QED
    BY <2>1, <2>2, <2>3, <2>4, <2>5, <2>6, <2>7, <2>8, <2>9, <2>10, Arrivals
    DEF Starts, StartSoftDeleteContract, StartPatchContract, StartDeleteSeason, StartPatchSeason,
        StartBand, StartDeleteBand, StartDeleteRate, StartRate, StartSupersedePolicy,
        StartRestriction, StartSupersedeRestriction, Lockless
<1>. QED  BY <1>1, <1>2 DEF LocksHeld

(* A request that comes to, or goes on towards, an insert has an id that   *)
(* is free and its own.                                                    *)
LEMMA NewIds ==
  ASSUME Inductive, NEW w \in Writers, Move(w), step'[w] \in Making
  PROVE  /\ UNCHANGED tables
         /\ Fresh(w)'
         /\ \A v \in Writers : v # w /\ step[v] \in Making => req[v].id # req'[w].id
<1>. TypeOK /\ Addressed(w) /\ IdsApart /\ Fresh(w)
  BY DEF Inductive
<1>. USE DEF Making, PolicySteps, RestrictionSteps, TypeOK
<1>1. CASE Finish(w)
  BY <1>1 DEF Finish
<1>2. CASE CheckOverlap(w) \/ LockOldPolicy(w) \/ LockParent(w) \/ LockOldRestriction(w)
           \/ ComputeVersion(w)
  <2>1. /\ UNCHANGED tables /\ req'[w].id = req[w].id
        /\ \/ step[w] = "check_overlap" /\ step'[w] = "insert_season"
           \/ step[w] \in PolicySteps /\ step'[w] \in PolicySteps
           \/ step[w] \in RestrictionSteps /\ step'[w] \in RestrictionSteps
    BY <1>2 DEF CheckOverlap, LockOldPolicy, LockParent, LockOldRestriction, ComputeVersion,
                Proceed, Request
  <2>. QED  BY <2>1 DEF tables, Fresh, IdsApart
<1>3. CASE CountSeasons(w) \/ FindSeason(w) \/ AssertNoOverlap(w)
  BY <1>3 DEF CountSeasons, FindSeason, AssertNoOverlap, Proceed
<1>4. ASSUME NEW c \in Contracts, NEW s \in Seasons, NEW d \in Span, LockForSeason(w, c, s, d)
      PROVE  /\ UNCHANGED tables /\ Fresh(w)' /\ Unused(req'[w].id)
  <2>1. /\ step'[w] = "check_overlap" /\ req'[w].id = s /\ UNCHANGED tables
        /\ seasons[s] = NoSeason /\ Unused(s)
    BY <1>4 DEF LockForSeason, Proceed, NoRequest
  <2>. QED  BY <2>1 DEF tables, Fresh
<1>5. ASSUME NEW c \in Contracts, NEW b \in Bands, StartBand(w, c, b)
      PROVE  /\ UNCHANGED tables /\ Fresh(w)' /\ Unused(req'[w].id)
  <2>1. /\ step'[w] = "insert_band" /\ req'[w].id = b /\ UNCHANGED tables
        /\ bands[b] = NoBand /\ Unused(b)
    BY <1>5 DEF StartBand, Begin, NoRequest, tables
  <2>. QED  BY <2>1 DEF tables, Fresh
<1>6. ASSUME NEW c \in Contracts, NEW r \in Rates, NEW s \in Seasons, NEW b \in Bands \cup {None},
             StartRate(w, c, r, s, b)
      PROVE  /\ UNCHANGED tables /\ Fresh(w)' /\ Unused(req'[w].id)
  <2>1. /\ step'[w] = "insert_rate" /\ req'[w].id = r /\ UNCHANGED tables
        /\ rates[r] = NoRate /\ Unused(r)
    BY <1>6 DEF StartRate, Begin, NoRequest, tables
  <2>. QED  BY <2>1 DEF tables, Fresh
<1>7. ASSUME NEW c \in Contracts \cup {None}, NEW o \in Owners,
             NEW plan \in Plans \cup {None}, NEW p \in Policies, NEW x \in Policies,
             StartPolicy(w, c, o, plan, p) \/ StartSupersedePolicy(w, c, o, plan, x, p)
      PROVE  /\ UNCHANGED tables /\ Fresh(w)' /\ Unused(req'[w].id)
  <2>1. /\ step'[w] \in {"lock_parent", "lock_old_policy"} /\ req'[w].id = p /\ UNCHANGED tables
        /\ policies[p] = NoPolicy /\ Unused(p)
    <3>1. CASE StartPolicy(w, c, o, plan, p)
      BY <3>1 DEF StartPolicy, Begin, NoRequest, tables
    <3>2. CASE StartSupersedePolicy(w, c, o, plan, x, p)
      BY <3>2 DEF StartSupersedePolicy, Begin, NoRequest, tables
    <3>. QED  BY <1>7, <3>1, <3>2
  <2>. QED  BY <2>1 DEF tables, Fresh
<1>8. ASSUME NEW c \in Contracts \cup {None}, NEW o \in Owners, NEW s \in Seasons \cup {None},
             NEW r \in Restrictions, NEW x \in Restrictions,
             StartRestriction(w, c, o, s, r) \/ StartSupersedeRestriction(w, c, o, s, x, r)
      PROVE  /\ UNCHANGED tables /\ Fresh(w)' /\ Unused(req'[w].id)
  <2>1. /\ step'[w] \in {"insert_restriction", "lock_old_restriction"} /\ req'[w].id = r
        /\ UNCHANGED tables /\ restrictions[r] = NoRestriction /\ Unused(r)
    BY <1>8 DEF StartRestriction, StartSupersedeRestriction, Begin, NoRequest, tables
  <2>. QED  BY <2>1 DEF tables, Fresh
<1>9. CASE Starts(w)
  <2>1. ASSUME NEW t \in Steps \ Making, NEW r, Begin(w, t, r)  PROVE FALSE
    BY <2>1 DEF Begin
  <2>2. {"count_seasons", "update_contract", "find_season", "delete_season", "delete_band",
         "delete_rate"} \subseteq Steps \ Making
    BY DEF Steps, ContractSteps, ChildSteps
  <2>. HIDE DEF Making, PolicySteps, RestrictionSteps, TypeOK
  <2>3. UNCHANGED tables /\ Fresh(w)' /\ Unused(req'[w].id)
    BY <1>4, <1>5, <1>6, <1>7, <1>8, <1>9, <2>1, <2>2
    DEF Starts, StartSoftDeleteContract, StartPatchContract, StartDeleteSeason,
        StartPatchSeason, StartDeleteBand, StartDeleteRate
  <2>. QED  BY <2>3 DEF Unused
<1>. QED  BY <1>1, <1>2, <1>3, <1>9, Arrivals

(* No statement writes the row another request is about to insert.         *)
LEMMA FreshStep ==
  ASSUME Inductive, NEW w \in Writers, Move(w), NEW v \in Writers
  PROVE  Fresh(v)'
<1>. TypeOK /\ Addressed(w) /\ RuleSeen(w) /\ Addressed(v) /\ Fresh(v) /\ IdsApart
  BY DEF Inductive
<1>1. CASE v = w
  BY <1>1, NewIds DEF Fresh, Making
<1>2. CASE v # w
  <2>1. step'[v] = step[v] /\ req'[v] = req[v]
    BY <1>2, Arrivals
  <2>2. step[v] \in Making /\ step[w] \in Making => req[v].id # req[w].id
    BY <1>2 DEF IdsApart
  <2>3. step[v] \in {"check_overlap", "insert_season"} => seasons'[req[v].id] = NoSeason
    <3>. SUFFICES ASSUME step[v] \in {"check_overlap", "insert_season"}
                  PROVE  seasons'[req[v].id] = NoSeason
      OBVIOUS
    <3>1. req[v].id \in Seasons /\ seasons[req[v].id] = NoSeason
      BY DEF Fresh, Addressed, SeasonSteps
    <3>2. CASE InsertSeason(w)
      BY <2>2, <3>1, <3>2 DEF InsertSeason, Making, TypeOK
    <3>3. CASE UpdateSeason(w)
      BY <3>1, <3>3 DEF UpdateSeason, SeasonsOf, NoSeason, TypeOK
    <3>4. CASE DeleteSeason(w)
      BY <3>1, <3>4 DEF DeleteSeason, SeasonsOf, NoSeason, TypeOK
    <3>. QED  BY <3>1, <3>2, <3>3, <3>4, TableWriters
  <2>4. step[v] = "insert_band" => bands'[req[v].id] = NoBand
    <3>. SUFFICES ASSUME step[v] = "insert_band"  PROVE bands'[req[v].id] = NoBand
      OBVIOUS
    <3>1. req[v].id \in Bands /\ bands[req[v].id] = NoBand
      BY DEF Fresh, Addressed
    <3>2. CASE InsertBand(w)
      BY <2>2, <3>1, <3>2 DEF InsertBand, Making, TypeOK
    <3>3. CASE DeleteBand(w)
      BY <3>1, <3>3 DEF DeleteBand, BandsOf, NoBand, TypeOK
    <3>. QED  BY <3>1, <3>2, <3>3, TableWriters
  <2>5. step[v] = "insert_rate" => rates'[req[v].id] = NoRate
    <3>. SUFFICES ASSUME step[v] = "insert_rate"  PROVE rates'[req[v].id] = NoRate
      OBVIOUS
    <3>1. req[v].id \in Rates /\ rates[req[v].id] = NoRate
      BY DEF Fresh, Addressed
    <3>2. CASE InsertRate(w)
      BY <2>2, <3>1, <3>2 DEF InsertRate, Making, TypeOK
    <3>3. CASE DeleteRate(w)
      BY <3>1, <3>3 DEF DeleteRate, NoRate, TypeOK
    <3>. QED  BY <3>1, <3>2, <3>3, TableWriters
  <2>6. step[v] \in PolicySteps => policies'[req[v].id] = NoPolicy
    <3>. SUFFICES ASSUME step[v] \in PolicySteps  PROVE policies'[req[v].id] = NoPolicy
      OBVIOUS
    <3>1. req[v].id \in Policies /\ policies[req[v].id] = NoPolicy
      BY DEF Fresh, Addressed
    <3>2. CASE InsertPolicy(w)
      <4>1. req[v].id # req[w].id
        BY <2>2, <3>2 DEF InsertPolicy, Making, PolicySteps
      <4>2. req[v].id # req[w].old
        BY <3>1, <3>2, NoneAssumption DEF InsertPolicy, RuleSeen, NoPolicy
      <4>. QED  BY <3>1, <3>2, <4>1, <4>2 DEF InsertPolicy
    <3>. QED  BY <3>1, <3>2, TableWriters
  <2>7. step[v] \in RestrictionSteps => restrictions'[req[v].id] = NoRestriction
    <3>. SUFFICES ASSUME step[v] \in RestrictionSteps
                  PROVE  restrictions'[req[v].id] = NoRestriction
      OBVIOUS
    <3>1. req[v].id \in Restrictions /\ restrictions[req[v].id] = NoRestriction
      BY DEF Fresh, Addressed
    <3>2. CASE InsertRestriction(w)
      BY <2>2, <3>1, <3>2 DEF InsertRestriction, Making, RestrictionSteps, TypeOK
    <3>3. CASE ReplaceRestriction(w)
      <4>1. req[v].id # req[w].id
        BY <2>2, <3>3 DEF ReplaceRestriction, Making, RestrictionSteps
      <4>2. req[v].id # req[w].old
        BY <3>1, <3>3 DEF ReplaceRestriction, RuleSeen, NoRestriction
      <4>. QED  BY <3>1, <3>3, <4>1, <4>2 DEF ReplaceRestriction, TypeOK
    <3>. QED  BY <3>1, <3>2, <3>3, TableWriters
  <2>. QED  BY <2>1, <2>3, <2>4, <2>5, <2>6, <2>7 DEF Fresh
<1>. QED  BY <1>1, <1>2

LEMMA IdsApartStep ==
  ASSUME Inductive, NEW w \in Writers, Move(w)
  PROVE  IdsApart'
<1>1. IdsApart /\ TypeOK
  BY DEF Inductive
<1>. QED  BY <1>1, NewIds, Arrivals DEF IdsApart

(* A contract that was ever live had a season, and an activation that has  *)
(* counted one is as good: seasons rows are deleted but never forgotten.   *)
LEMMA ActivationStep ==
  ASSUME Inductive, NEW w \in Writers, Move(w)
  PROVE  LiveHadSeason' /\ \A v \in Writers : ActivationSeen(v)'
<1>. TypeOK /\ Addressed(w) /\ Fresh(w) /\ LiveHadSeason
  BY DEF Inductive
<1>. HadSeason(req[w].contract) \/ ~(step[w] = "update_contract" /\ req[w].want = "ACTIVE")
  BY DEF Inductive, ActivationSeen
<1>1. ASSUME NEW c, HadSeason(c)  PROVE HadSeason(c)'
  <2>1. PICK s \in Seasons : seasons[s].presence # "NEVER" /\ seasons[s].contract = c
    BY <1>1 DEF HadSeason
  <2>2. seasons'[s].presence # "NEVER" /\ seasons'[s].contract = c
    <3>1. CASE InsertSeason(w)
      BY <2>1, <3>1 DEF InsertSeason, Fresh, NoSeason, TypeOK
    <3>2. CASE UpdateSeason(w)
      BY <2>1, <3>2 DEF UpdateSeason, TypeOK, SeasonRow
    <3>3. CASE DeleteSeason(w)
      BY <2>1, <3>3 DEF DeleteSeason, SeasonsOf, NoSeason, TypeOK
    <3>. QED  BY <2>1, <3>1, <3>2, <3>3, TableWriters
  <2>. QED  BY <2>2 DEF HadSeason
<1>2. ASSUME NEW c \in Contracts, contracts'[c] = "ACTIVE"  PROVE HadSeason(c)'
  <2>1. HadSeason(c)
    BY <1>2, TableWriters DEF CreateContract, UpdateContract, LiveHadSeason, HadSeason, TypeOK
  <2>. QED  BY <2>1, <1>1
<1>3. ASSUME NEW v \in Writers, v # w  PROVE ActivationSeen(v)'
  BY <1>1, <1>3, Arrivals DEF Inductive, ActivationSeen
<1>4. ActivationSeen(w)'
  <2>. SUFFICES ASSUME step'[w] = "update_contract", req'[w].want = "ACTIVE"
                PROVE  HadSeason(req'[w].contract)
    BY <1>1 DEF ActivationSeen
  <2>1. CASE CountSeasons(w)
    BY <2>1 DEF CountSeasons, Proceed, SeasonsOf, HadSeason, TypeOK
  <2>2. ASSUME NEW c \in Contracts, NEW want \in {"ACTIVE", "INACTIVE"},
               StartPatchContract(w, c, want)
        PROVE  HadSeason(req'[w].contract)
    <3>1. req'[w].contract = c /\ req'[w].want = want /\ contracts[c] = "ACTIVE"
      BY <2>2 DEF StartPatchContract, Begin, NoRequest, TypeOK
    <3>. QED  BY <3>1 DEF LiveHadSeason, HadSeason
  <2>3. ASSUME NEW c \in Contracts, StartSoftDeleteContract(w, c)  PROVE FALSE
    BY <2>3 DEF StartSoftDeleteContract, Begin, NoRequest, TypeOK
  <2>4. ASSUME NEW t, NEW r, t # "update_contract", Begin(w, t, r)  PROVE FALSE
    BY <2>4 DEF Begin, TypeOK
  <2>5. CASE Starts(w)
    BY <2>2, <2>3, <2>4, <2>5
    DEF Starts, StartDeleteSeason, LockForSeason, StartPatchSeason, StartBand, StartDeleteBand,
        StartDeleteRate, StartRate, StartPolicy, StartSupersedePolicy, StartRestriction,
        StartSupersedeRestriction, Proceed, TypeOK
  <2>. QED
    BY <2>1, <2>5, Arrivals
    DEF Finish, CheckOverlap, FindSeason, AssertNoOverlap, LockOldPolicy, LockParent,
        ComputeVersion, LockOldRestriction, Proceed, TypeOK
<1>. QED  BY <1>2, <1>3, <1>4 DEF LiveHadSeason, HadSeason

LEMMA Exclusive ==
  ASSUME LocksHeld, NEW v \in Writers, NEW w \in Writers, NEW x \in Held(v), x \in Held(w)
  PROVE  v = w
<1>1. x \in Lockable
  BY DEF Held
<1>. QED  BY <1>1 DEF LocksHeld

(* What createSeason has seen under the lock of its contract stays so.     *)
LEMMA SeasonSeenStep ==
  ASSUME Inductive, NEW w \in Writers, Move(w), NEW v \in Writers
  PROVE  SeasonSeen(v)'
<1>. /\ TypeOK /\ Addressed(w) /\ Addressed(v) /\ Fresh(w) /\ LocksHeld
     /\ SeasonSeen(v) /\ SeasonSeen(w)
  BY DEF Inductive
<1>1. CASE v # w
  <2>. SUFFICES ASSUME step[v] \in {"check_overlap", "insert_season"}  PROVE SeasonSeen(v)'
    BY <1>1, Arrivals DEF SeasonSeen
  <2>1. step'[v] = step[v] /\ req'[v] = req[v]
    BY <1>1, Arrivals
  <2>2. req[v].contract \in Contracts /\ req[v].contract \in Held(v)
    BY DEF Addressed, Held, Lockable, ChildSteps
  <2>3. contracts'[req[v].contract] = contracts[req[v].contract]
    <3>1. CASE UpdateContract(w)
      <4>1. lock[req[v].contract] = v
        BY <2>2 DEF LocksHeld, Lockable
      <4>. QED  BY <1>1, <2>2, <3>1, <4>1, NoneAssumption DEF UpdateContract, Free, TypeOK
    <3>2. ASSUME NEW c \in Contracts, CreateContract(w, c)
          PROVE  contracts'[req[v].contract] = contracts[req[v].contract]
      BY <2>2, <3>2 DEF CreateContract, SeasonSeen, TypeOK
    <3>. QED  BY <3>1, <3>2, TableWriters
  <2>4. ASSUME step[v] = "insert_season", NEW s \in Seasons,
               seasons'[s].presence = "THERE", seasons'[s].contract = req[v].contract
        PROVE  seasons'[s].moved \/ ~Overlaps(seasons'[s].span, req[v].span)
    <3>1. ASSUME seasons'[s] = seasons[s]
          PROVE  seasons'[s].moved \/ ~Overlaps(seasons'[s].span, req[v].span)
      BY <2>4, <3>1 DEF SeasonSeen, SeasonsOf
    <3>2. CASE InsertSeason(w)
      <4>1. req[w].contract \in Held(w)
        BY <3>2 DEF InsertSeason, Addressed, Held, Lockable, ChildSteps
      <4>2. req[w].contract # req[v].contract
        BY <1>1, <2>2, <4>1, Exclusive
      <4>. QED  BY <2>4, <3>1, <3>2, <4>2 DEF InsertSeason, TypeOK
    <3>3. CASE UpdateSeason(w)
      BY <3>1, <3>3 DEF UpdateSeason, TypeOK, SeasonRow
    <3>4. CASE DeleteSeason(w)
      BY <2>4, <3>1, <3>4 DEF DeleteSeason, TypeOK, SeasonRow
    <3>. QED  BY <3>1, <3>2, <3>3, <3>4, TableWriters
  <2>. QED  BY <2>1, <2>3, <2>4 DEF SeasonSeen, SeasonsOf
<1>2. CASE v = w
  <2>. SUFFICES ASSUME step'[w] \in {"check_overlap", "insert_season"}  PROVE SeasonSeen(w)'
    BY <1>2 DEF SeasonSeen
  <2>1. CASE CheckOverlap(w)
    <3>1. step[w] = "check_overlap" /\ step'[w] = "insert_season" /\ req'[w] = req[w]
          /\ contracts' = contracts /\ seasons' = seasons
      BY <2>1 DEF CheckOverlap, Proceed, tables, TypeOK
    <3>. QED  BY <2>1, <3>1 DEF CheckOverlap, SeasonSeen, SeasonsOf
  <2>2. ASSUME NEW c \in Contracts, NEW s \in Seasons, NEW d \in Span, LockForSeason(w, c, s, d)
        PROVE  SeasonSeen(w)'
    <3>1. /\ step'[w] = "check_overlap" /\ contracts' = contracts
          /\ req'[w].contract = c /\ req'[w].span = d
      BY <2>2 DEF LockForSeason, Proceed, NoRequest, tables, TypeOK
    <3>. QED  BY <2>2, <3>1 DEF LockForSeason, Writable, SeasonSeen, TypeOK, Statuses
  <2>3. ASSUME NEW t, NEW r, t # "check_overlap", t # "insert_season", Begin(w, t, r)
        PROVE  FALSE
    BY <2>3 DEF Begin, TypeOK
  <2>4. CASE Starts(w)
    BY <2>2, <2>3, <2>4
    DEF Starts, StartSoftDeleteContract, StartPatchContract, StartDeleteSeason,
        StartPatchSeason, StartBand, StartDeleteBand, StartDeleteRate, StartRate, StartPolicy,
        StartSupersedePolicy, StartRestriction, StartSupersedeRestriction
  <2>. QED
    BY <2>1, <2>4, Arrivals
    DEF Finish, CountSeasons, FindSeason, AssertNoOverlap, LockOldPolicy, LockParent,
        ComputeVersion, LockOldRestriction, Proceed, TypeOK
<1>. QED  BY <1>1, <1>2

(* Restrictions are inserted and linked, never deleted.                    *)
LEMMA RestrictionsThereStep ==
  ASSUME Inductive, NEW w \in Writers, Move(w)
  PROVE  RestrictionsThere'
<1>. TypeOK /\ RuleSeen(w) /\ RestrictionsThere
  BY DEF Inductive
<1>1. CASE InsertRestriction(w)
  BY <1>1 DEF InsertRestriction, RestrictionOf, RestrictionsThere, TypeOK
<1>2. CASE ReplaceRestriction(w)
  <2>1. ASSUME NEW r \in Restrictions
        PROVE  restrictions'[r].presence = "THERE" \/ restrictions'[r] = restrictions[r]
    BY <1>2 DEF ReplaceRestriction, RestrictionOf, RuleSeen, TypeOK, RestrictionRow
  <2>. QED  BY <2>1 DEF RestrictionsThere
<1>. QED  BY <1>1, <1>2, TableWriters DEF RestrictionsThere

(* The parent row of a rule is a contract or a supplier.                   *)
LEMMA ParentLockable ==
  ASSUME TypeOK, NEW w \in Writers, Addressed(w), step[w] \in PolicySteps \cup RestrictionSteps
  PROVE  /\ Parent(req[w]) \in Contracts \cup Suppliers /\ SupplierOf(req[w]) \in Suppliers
         /\ Parent(req[w]) \in Lockable
<1>1. req[w].contract \in Contracts \cup {None}
  BY DEF TypeOK, Request
<1>2. SupplierOf(req[w]) \in Suppliers
  BY DEF Addressed, Owners, SupplierOf
<1>. QED  BY <1>1, <1>2 DEF Parent, Lockable

(* Only requests of one parent number the policies of its scopes, and they *)
(* hold its row from reading the highest version to the insert.            *)
LEMMA VersionsKept ==
  ASSUME Inductive, NEW w \in Writers, Move(w), NEW v \in Writers, v # w,
         step[v] = "insert_policy"
  PROVE  Versions(req[v])' = Versions(req[v])
<1>. TypeOK /\ Addressed(w) /\ Addressed(v) /\ Fresh(w) /\ LocksHeld /\ RuleSeen(w)
  BY DEF Inductive
<1>0. step'[v] = step[v] /\ req'[v] = req[v]
  BY Arrivals
<1>1. CASE InsertPolicy(w)
  <2>1. Parent(req[v]) \in Lockable /\ Parent(req[w]) \in Lockable
    BY <1>1, ParentLockable DEF InsertPolicy, PolicySteps
  <2>2. Parent(req[v]) \in Held(v) /\ Parent(req[w]) \in Held(w)
    BY <1>1, <2>1 DEF InsertPolicy, Held
  <2>3. req[w].contract # req[v].contract \/ req[w].owner # req[v].owner
    BY <2>2, Exclusive DEF Parent, SupplierOf
  <2>4. policies[req[w].id].version = 0
    BY <1>1 DEF InsertPolicy, Fresh, PolicySteps, NoPolicy
  <2>5. ASSUME NEW p \in Policies, p # req[w].id
        PROVE  /\ policies'[p].version = policies[p].version
               /\ policies'[p].contract = policies[p].contract
               /\ policies'[p].owner = policies[p].owner
               /\ policies'[p].plan = policies[p].plan
    BY <1>1, <2>5 DEF InsertPolicy, TypeOK, PolicyRow
  <2>6. Scope(req[v])' = Scope(req[v])
    <3>1. ASSUME NEW p \in Policies
          PROVE  p \in Scope(req[v])' <=> p \in Scope(req[v])
      <4>1. CASE p = req[w].id
        BY <1>0, <1>1, <2>3, <2>4, <4>1 DEF InsertPolicy, Scope
      <4>2. CASE p # req[w].id
        BY <1>0, <2>5, <4>2 DEF Scope
      <4>. QED  BY <4>1, <4>2
    <3>. QED  BY <3>1 DEF Scope
  <2>7. \A p \in Scope(req[v]) :
          p \in Policies /\ policies'[p].version = policies[p].version
    BY <2>4, <2>5 DEF Scope
  <2>. QED  BY <1>0, <2>6, <2>7 DEF Versions
<1>2. CASE policies' = policies
  BY <1>0, <1>2 DEF Versions, Scope
<1>. QED  BY <1>1, <1>2, TableWriters

(* What a request has seen of the rules it will supersede, and the version *)
(* it has computed, stay so under its locks.                               *)
LEMMA RuleSeenStep ==
  ASSUME Inductive, NEW w \in Writers, Move(w), NEW v \in Writers
  PROVE  RuleSeen(v)'
<1>. /\ TypeOK /\ Addressed(w) /\ Addressed(v) /\ Fresh(w) /\ LocksHeld
     /\ RuleSeen(v) /\ RuleSeen(w)
  BY DEF Inductive
<1>1. CASE v # w
  <2>1. step'[v] = step[v] /\ req'[v] = req[v]
    BY <1>1, Arrivals
  <2>2. ASSUME step[v] \in {"lock_parent", "compute_version", "insert_policy"}, req[v].old # None
        PROVE  policies'[req[v].old] = policies[req[v].old]
    <3>1. req[v].old \in Policies /\ req[v].old \in Held(v) /\ policies[req[v].old].version # 0
      BY <2>2 DEF Addressed, PolicySteps, Held, Lockable, RuleSeen
    <3>2. CASE InsertPolicy(w)
      <4>1. req[v].old # req[w].id
        BY <3>1, <3>2 DEF InsertPolicy, Fresh, PolicySteps, NoPolicy
      <4>2. req[v].old # req[w].old
        <5>. SUFFICES ASSUME req[v].old = req[w].old  PROVE FALSE
          OBVIOUS
        <5>1. req[v].old \in Held(w)
          BY <3>1, <3>2 DEF InsertPolicy, Held, Lockable
        <5>. QED  BY <1>1, <3>1, <5>1, Exclusive
      <4>. QED  BY <3>1, <3>2, <4>1, <4>2 DEF InsertPolicy
    <3>. QED  BY <3>2, TableWriters
  <2>3. ASSUME step[v] = "replace_restriction"
        PROVE  restrictions'[req[v].old] = restrictions[req[v].old]
    <3>1. req[v].old \in Restrictions /\ req[v].old \in Held(v)
          /\ restrictions[req[v].old].presence = "THERE"
      BY <2>3 DEF Addressed, RestrictionSteps, Held, Lockable, RuleSeen
    <3>2. CASE InsertRestriction(w)
      BY <3>1, <3>2 DEF InsertRestriction, Fresh, RestrictionSteps, NoRestriction, TypeOK
    <3>3. CASE ReplaceRestriction(w)
      <4>1. req[v].old # req[w].id
        BY <3>1, <3>3 DEF ReplaceRestriction, Fresh, RestrictionSteps, NoRestriction
      <4>2. req[v].old # req[w].old
        <5>. SUFFICES ASSUME req[v].old = req[w].old  PROVE FALSE
          OBVIOUS
        <5>1. req[v].old \in Held(w)
          BY <3>1, <3>3 DEF ReplaceRestriction, Held, Lockable
        <5>. QED  BY <1>1, <3>1, <5>1, Exclusive
      <4>. QED  BY <3>1, <3>3, <4>1, <4>2 DEF ReplaceRestriction, TypeOK
    <3>. QED  BY <3>2, <3>3, TableWriters
  <2>4. step[v] = "insert_policy" =>
          Versions(req[v])' = Versions(req[v])
    BY <1>1, VersionsKept
  <2>. QED  BY <2>1, <2>2, <2>3, <2>4 DEF RuleSeen
<1>2. CASE v = w
  <2>. DEFINE After == {"lock_parent", "compute_version", "insert_policy", "replace_restriction"}
  <2>. SUFFICES ASSUME step'[w] \in After  PROVE RuleSeen(w)'
    BY <1>2 DEF RuleSeen
  <2>1. CASE LockOldPolicy(w)
    <3>1. step'[w] = "lock_parent" /\ req'[w] = req[w] /\ policies' = policies
      BY <2>1 DEF LockOldPolicy, Proceed, tables, TypeOK
    <3>. QED  BY <2>1, <3>1 DEF LockOldPolicy, RuleSeen
  <2>2. CASE LockParent(w)
    <3>1. step[w] = "lock_parent" /\ step'[w] = "compute_version" /\ req'[w] = req[w]
          /\ policies' = policies
      BY <2>2 DEF LockParent, Proceed, tables, TypeOK
    <3>. QED  BY <3>1 DEF RuleSeen
  <2>3. CASE ComputeVersion(w)
    <3>1. PICK max \in Versions(req[w]) :
            /\ \A n \in Versions(req[w]) : n <= max
            /\ Proceed(w, "insert_policy", [req[w] EXCEPT !.version = max + 1])
      BY <2>3 DEF ComputeVersion
    <3>2. Versions(req[w]) \subseteq Nat
      BY DEF Versions, Scope, TypeOK, PolicyRow
    <3>3. /\ step[w] = "compute_version" /\ step'[w] = "insert_policy" /\ policies' = policies
          /\ req'[w].old = req[w].old /\ req'[w].contract = req[w].contract
          /\ req'[w].owner = req[w].owner /\ req'[w].plan = req[w].plan
          /\ req'[w].version = max + 1
      BY <2>3, <3>1 DEF ComputeVersion, Proceed, tables, TypeOK, Request
    <3>4. Versions(req[w])' = Versions(req[w])
      BY <3>3 DEF Versions, Scope
    <3>. QED  BY <3>1, <3>2, <3>3, <3>4 DEF RuleSeen
  <2>4. CASE LockOldRestriction(w)
    <3>1. step'[w] = "replace_restriction" /\ req'[w] = req[w] /\ restrictions' = restrictions
      BY <2>4 DEF LockOldRestriction, Proceed, tables, TypeOK
    <3>. QED  BY <2>4, <3>1 DEF LockOldRestriction, RuleSeen
  <2>5. ASSUME NEW c \in Contracts \cup {None}, NEW o \in Owners, NEW plan \in Plans \cup {None},
               NEW p \in Policies, StartPolicy(w, c, o, plan, p)
        PROVE  RuleSeen(w)'
    <3>1. step'[w] = "lock_parent" /\ req'[w].old = None
      BY <2>5 DEF StartPolicy, Begin, NoRequest, TypeOK
    <3>. QED  BY <3>1 DEF RuleSeen
  <2>6. ASSUME NEW t, NEW r, Begin(w, t, r), t # "lock_parent", t # "compute_version",
               t # "insert_policy", t # "replace_restriction"
        PROVE  FALSE
    BY <2>6 DEF Begin, TypeOK
  <2>7. CASE Starts(w)
    BY <2>5, <2>6, <2>7
    DEF Starts, StartSoftDeleteContract, StartPatchContract, StartDeleteSeason,
        LockForSeason, Proceed, StartPatchSeason, StartBand, StartDeleteBand, StartDeleteRate,
        StartRate, StartSupersedePolicy, StartRestriction, StartSupersedeRestriction, TypeOK
  <2>. QED
    BY <2>1, <2>2, <2>3, <2>4, <2>7, Arrivals
    DEF Finish, CountSeasons, CheckOverlap, FindSeason, AssertNoOverlap, Proceed, TypeOK
<1>. QED  BY <1>1, <1>2
-----------------------------------------------------------------------------
(* Request q adds a policy, and marks the one it supersedes, if any.       *)
AddsPolicy(q) ==
  /\ q.id \in Policies /\ policies[q.id].version = 0 /\ policies[q.id] = NoPolicy
  /\ policies'[q.id].version # 0 /\ policies'[q.id].by = None
  /\ policies'[q.id].contract = q.contract /\ policies'[q.id].owner = q.owner
  /\ q.contract # None => q.owner = OwnerOf[q.contract]
  /\ q.old = None \/ /\ q.old \in Policies /\ q.old # q.id
                     /\ policies[q.old].version # 0 /\ policies[q.old].by = None
                     /\ policies[q.old].contract = q.contract
  /\ \A p \in Policies : p = q.old => policies'[p] = [policies[p] EXCEPT !.by = q.id]
  /\ \A p \in Policies : p # q.id /\ p # q.old => policies'[p] = policies[p]
  /\ \A p \in Policies : p # q.id => /\ policies'[p].version = policies[p].version
                                    /\ policies'[p].contract = policies[p].contract
                                    /\ policies'[p].owner = policies[p].owner

LEMMA PolicyAdded ==
  ASSUME Inductive, NEW w \in Writers, InsertPolicy(w)
  PROVE  AddsPolicy(req[w])
<1>. TypeOK /\ Addressed(w) /\ RuleSeen(w) /\ Fresh(w)
  BY DEF Inductive
<1>1. step[w] = "insert_policy" /\ req[w].id \in Policies /\ req[w].old \in Policies \cup {None}
      /\ req[w].version \in Nat \ {0}
      /\ (req[w].contract # None => req[w].owner = OwnerOf[req[w].contract])
  BY DEF InsertPolicy, Addressed, PolicySteps, RuleSeen
<1>2. policies[req[w].id] = NoPolicy /\ policies[req[w].id].version = 0
  BY <1>1 DEF Fresh, PolicySteps, NoPolicy
<1>3. req[w].old # None => /\ policies[req[w].old].version # 0 /\ policies[req[w].old].by = None
                          /\ policies[req[w].old].contract = req[w].contract
  BY <1>1 DEF RuleSeen
<1>4. req[w].old # req[w].id
  BY <1>1, <1>2, <1>3, NoneAssumption
<1>5. /\ policies'[req[w].id].version # 0 /\ policies'[req[w].id].by = None
      /\ policies'[req[w].id].contract = req[w].contract
      /\ policies'[req[w].id].owner = req[w].owner
  BY <1>1, <1>4 DEF InsertPolicy
<1>6. ASSUME NEW p \in Policies
      PROVE  /\ p = req[w].old => policies'[p] = [policies[p] EXCEPT !.by = req[w].id]
             /\ p # req[w].id /\ p # req[w].old => policies'[p] = policies[p]
             /\ p # req[w].id => /\ policies'[p].version = policies[p].version
                                /\ policies'[p].contract = policies[p].contract
                                /\ policies'[p].owner = policies[p].owner
  BY <1>4, <1>6 DEF InsertPolicy, TypeOK, PolicyRow
<1>. QED  BY <1>1, <1>2, <1>3, <1>4, <1>5, <1>6 DEF AddsPolicy

(* The same for a request that supersedes a restriction.                   *)
ReplacesRestriction(q) ==
  /\ q.id \in Restrictions /\ restrictions[q.id] = NoRestriction
  /\ restrictions[q.id].presence = "NEVER"
  /\ restrictions'[q.id].presence = "THERE" /\ restrictions'[q.id].by = None
  /\ restrictions'[q.id].contract = q.contract /\ restrictions'[q.id].season = q.season
  /\ restrictions'[q.id].owner = q.owner
  /\ q.contract # None => q.owner = OwnerOf[q.contract]
  /\ q.old \in Restrictions /\ q.old # q.id
  /\ restrictions[q.old].presence = "THERE" /\ restrictions[q.old].by = None
  /\ restrictions[q.old].contract = q.contract
  /\ restrictions'[q.old] = [restrictions[q.old] EXCEPT !.by = q.id]
  /\ \A r \in Restrictions : r # q.id /\ r # q.old => restrictions'[r] = restrictions[r]
  /\ \A r \in Restrictions :
       r # q.id => /\ restrictions'[r].presence = restrictions[r].presence
                  /\ restrictions'[r].contract = restrictions[r].contract
                  /\ restrictions'[r].owner = restrictions[r].owner
                  /\ restrictions'[r].season = restrictions[r].season

LEMMA RestrictionReplaced ==
  ASSUME Inductive, NEW w \in Writers, ReplaceRestriction(w)
  PROVE  ReplacesRestriction(req[w])
<1>. TypeOK /\ Addressed(w) /\ RuleSeen(w) /\ Fresh(w)
  BY DEF Inductive
<1>1. step[w] = "replace_restriction" /\ req[w].id \in Restrictions
      /\ req[w].old \in Restrictions
      /\ (req[w].contract # None => req[w].owner = OwnerOf[req[w].contract])
  BY DEF ReplaceRestriction, Addressed, RestrictionSteps
<1>2. restrictions[req[w].id] = NoRestriction /\ restrictions[req[w].id].presence = "NEVER"
  BY <1>1 DEF Fresh, RestrictionSteps, NoRestriction
<1>3. /\ restrictions[req[w].old].presence = "THERE" /\ restrictions[req[w].old].by = None
      /\ restrictions[req[w].old].contract = req[w].contract
  BY <1>1 DEF RuleSeen
<1>4. req[w].old # req[w].id
  BY <1>2, <1>3
<1>. DEFINE added == [restrictions EXCEPT ![req[w].id] = RestrictionOf(req[w])]
<1>5. restrictions' = [added EXCEPT ![req[w].old].by = req[w].id]
  BY DEF ReplaceRestriction
<1>6. added = [r \in Restrictions |-> added[r]]
  BY DEF TypeOK
<1>7. /\ added[req[w].id] = RestrictionOf(req[w])
      /\ \A r \in Restrictions : r # req[w].id => added[r] = restrictions[r]
  BY <1>1 DEF TypeOK
<1>. HIDE DEF added
<1>8. /\ restrictions'[req[w].id] = RestrictionOf(req[w])
      /\ restrictions'[req[w].old] = [restrictions[req[w].old] EXCEPT !.by = req[w].id]
      /\ \A r \in Restrictions :
           r # req[w].id /\ r # req[w].old => restrictions'[r] = restrictions[r]
  BY <1>1, <1>4, <1>5, <1>6, <1>7
<1>9. /\ restrictions'[req[w].id].presence = "THERE" /\ restrictions'[req[w].id].by = None
      /\ restrictions'[req[w].id].contract = req[w].contract
      /\ restrictions'[req[w].id].season = req[w].season
      /\ restrictions'[req[w].id].owner = req[w].owner
  BY <1>8 DEF RestrictionOf
<1>10. ASSUME NEW r \in Restrictions, r # req[w].id
       PROVE  /\ restrictions'[r].presence = restrictions[r].presence
              /\ restrictions'[r].contract = restrictions[r].contract
              /\ restrictions'[r].owner = restrictions[r].owner
              /\ restrictions'[r].season = restrictions[r].season
  BY <1>8, <1>10 DEF TypeOK, RestrictionRow
<1>. QED  BY <1>1, <1>2, <1>3, <1>4, <1>8, <1>9, <1>10 DEF ReplacesRestriction

(* Request q adds a restriction and marks none.                            *)
RestrictionAdded(q) ==
  /\ q.id \in Restrictions /\ restrictions[q.id] = NoRestriction
  /\ restrictions'[q.id] = RestrictionOf(q)
  /\ restrictions'[q.id].presence = "THERE" /\ restrictions'[q.id].by = None
  /\ restrictions'[q.id].contract = q.contract /\ restrictions'[q.id].owner = q.owner
  /\ q.contract # None => q.owner = OwnerOf[q.contract]
  /\ \A r \in Restrictions : r # q.id => restrictions'[r] = restrictions[r]

LEMMA RestrictionInserted ==
  ASSUME Inductive, NEW w \in Writers, InsertRestriction(w)
  PROVE  RestrictionAdded(req[w])
<1>. TypeOK /\ Addressed(w) /\ Fresh(w)
  BY DEF Inductive
<1>1. /\ req[w].id \in Restrictions /\ restrictions[req[w].id] = NoRestriction
      /\ (req[w].contract # None => req[w].owner = OwnerOf[req[w].contract])
  BY DEF InsertRestriction, Addressed, Fresh, RestrictionSteps
<1>2. /\ restrictions'[req[w].id] = RestrictionOf(req[w])
      /\ \A r \in Restrictions : r # req[w].id => restrictions'[r] = restrictions[r]
  BY <1>1 DEF InsertRestriction, TypeOK
<1>. QED  BY <1>1, <1>2 DEF RestrictionAdded, RestrictionOf

(* What a request inserts is its contract's supplier's and hotel's, what   *)
(* it links is linked to that, and nothing else is written.                *)
LEMMA RulesOwnedStep ==
  ASSUME Inductive, NEW w \in Writers, Move(w)
  PROVE  RulesOwned' /\ LinksHold'
<1>. TypeOK /\ RulesOwned /\ LinksHold
  BY DEF Inductive
<1>1. ASSUME NEW p \in Policies
      PROVE  /\ policies'[p].contract # None =>
                  policies'[p].owner = OwnerOf[policies'[p].contract]
             /\ policies'[p].by # None => policies'[policies'[p].by].version # 0
  <2>1. CASE policies' = policies
    BY <2>1 DEF RulesOwned, LinksHold
  <2>2. CASE InsertPolicy(w)
    <3>. DEFINE q == req[w]
    <3>1. AddsPolicy(q)
      BY <2>2, PolicyAdded
    <3>. HIDE DEF q
    <3>2. policies[p].by \in Policies \cup {None}
      BY DEF TypeOK, PolicyRow
    <3>3. CASE p = q.id
      BY <3>1, <3>3 DEF AddsPolicy
    <3>4. CASE p # q.id
      <4>1. policies'[p].by \in {policies[p].by, q.id}
        BY <3>1, <3>4 DEF AddsPolicy, TypeOK, PolicyRow
      <4>2. policies[p].by # None => policies[p].by # q.id
        BY <3>1 DEF AddsPolicy, LinksHold
      <4>. QED  BY <3>1, <3>2, <3>4, <4>1, <4>2 DEF AddsPolicy, RulesOwned, LinksHold
    <3>. QED  BY <3>3, <3>4
  <2>. QED  BY <2>1, <2>2, TableWriters
<1>2. ASSUME NEW r \in Restrictions
      PROVE  /\ restrictions'[r].contract # None =>
                  restrictions'[r].owner = OwnerOf[restrictions'[r].contract]
             /\ restrictions'[r].by # None =>
                  restrictions'[restrictions'[r].by].presence = "THERE"
  <2>0. restrictions[r].by \in Restrictions \cup {None}
    BY DEF TypeOK, RestrictionRow
  <2>1. CASE restrictions' = restrictions
    BY <2>1 DEF RulesOwned, LinksHold
  <2>2. CASE InsertRestriction(w)
    <3>1. RestrictionAdded(req[w])
      BY <2>2, RestrictionInserted
    <3>2. CASE r = req[w].id
      BY <3>1, <3>2 DEF RestrictionAdded
    <3>3. CASE r # req[w].id
      BY <2>0, <3>1, <3>3 DEF RestrictionAdded, RulesOwned, LinksHold, NoRestriction
    <3>. QED  BY <3>2, <3>3
  <2>3. CASE ReplaceRestriction(w)
    <3>. DEFINE q == req[w]
    <3>1. ReplacesRestriction(q)
      BY <2>3, RestrictionReplaced
    <3>. HIDE DEF q
    <3>3. CASE r = q.id
      BY <3>1, <3>3 DEF ReplacesRestriction
    <3>4. CASE r # q.id
      <4>1. restrictions'[r].by \in {restrictions[r].by, q.id}
        BY <3>1, <3>4 DEF ReplacesRestriction, TypeOK, RestrictionRow
      <4>2. restrictions[r].by # None => restrictions[r].by # q.id
        BY <3>1 DEF ReplacesRestriction, LinksHold
      <4>. QED  BY <2>0, <3>1, <3>4, <4>1, <4>2 DEF ReplacesRestriction, RulesOwned, LinksHold
    <3>. QED  BY <3>3, <3>4
  <2>. QED  BY <2>1, <2>2, <2>3, TableWriters
<1>. QED  BY <1>1, <1>2 DEF RulesOwned, LinksHold
-----------------------------------------------------------------------------
LEMMA InductiveInit == Init => Inductive
<1>. SUFFICES ASSUME Init  PROVE Inductive
  OBVIOUS
<1>1. TypeOK /\ \A w \in Writers : Addressed(w)
  BY TypedInit DEF Typed
<1>2. LocksHeld
  BY NoneAssumption DEF Init, LocksHeld, Held
<1>3. IdsApart /\ \A w \in Writers : Fresh(w)
  BY DEF Init, IdsApart, Fresh, Making, PolicySteps, RestrictionSteps
<1>4. \A w \in Writers : SeasonSeen(w) /\ ActivationSeen(w) /\ RuleSeen(w)
  BY DEF Init, SeasonSeen, ActivationSeen, RuleSeen
<1>5. RulesOwned /\ LinksHold /\ RestrictionsThere /\ LiveHadSeason
  BY DEF Init, RulesOwned, LinksHold, RestrictionsThere, LiveHadSeason, NoPolicy, NoRestriction
<1>. QED  BY <1>1, <1>2, <1>3, <1>4, <1>5 DEF Inductive

LEMMA InductiveStep ==
  ASSUME Inductive, [Next]_vars
  PROVE  Inductive'
<1>1. TypeOK' /\ \A w \in Writers : Addressed(w)'
  BY TypedStep DEF Inductive, Typed
<1>2. CASE UNCHANGED vars
  BY <1>1, <1>2
  DEF vars, Inductive, LocksHeld, Held, IdsApart, Fresh, SeasonSeen, SeasonsOf, ActivationSeen,
      HadSeason, RuleSeen, Versions, Scope, RulesOwned, LinksHold, RestrictionsThere,
      LiveHadSeason
<1>3. ASSUME NEW w \in Writers, Move(w)  PROVE Inductive'
  BY <1>1, <1>3, LocksHeldStep, IdsApartStep, FreshStep, SeasonSeenStep, ActivationStep,
     RuleSeenStep, RulesOwnedStep, RestrictionsThereStep DEF Inductive
<1>. QED  BY <1>2, <1>3 DEF Next, Move

(* In every reachable state: the rows a request was let through by, or     *)
(* holds, are still as it has seen them.                                   *)
THEOREM ContractsInductive == Spec => []Inductive
<1>. QED  BY InductiveInit, InductiveStep, PTL DEF Spec

(* Every variable keeps its type.                                          *)
THEOREM ContractsTypeCorrect == Spec => []TypeOK
<1>1. Inductive => TypeOK
  BY DEF Inductive
<1>. QED  BY <1>1, ContractsInductive, PTL

(* No transaction ends, by COMMIT, ROLLBACK or crash, and keeps a row.     *)
THEOREM LocksAreReleased == Spec => []NoLockLeft
<1>1. Inductive => NoLockLeft
  <2>. SUFFICES ASSUME Inductive, NEW x \in Lockable, lock[x] # None
                PROVE  step[lock[x]] # "idle"
    BY DEF NoLockLeft
  <2>1. lock[x] \in Writers /\ x \in Held(lock[x])
    BY DEF Inductive, TypeOK, LocksHeld
  <2>. QED  BY <2>1 DEF Held
<1>. QED  BY <1>1, ContractsInductive, PTL

(* Requests lock rule rows before a contract before the supplier: they     *)
(* never wait for each other in a circle.                                  *)
THEOREM LocksAreOrdered == Spec => []LockOrder
<1>1. Inductive => LockOrder
  <2>. SUFFICES ASSUME Inductive, NEW w \in Writers, NEW x \in Wants(w), NEW y \in Lockable,
                       lock[y] = w, lock[x] # w
                PROVE  Rank(y) < Rank(x)
    BY DEF LockOrder
  <2>. TypeOK /\ Addressed(w) /\ LocksHeld
    BY DEF Inductive
  <2>1. y \in Held(w) /\ (x \in Lockable => x \notin Held(w))
    BY DEF LocksHeld
  <2>2. step[w] \in PolicySteps \cup RestrictionSteps =>
          Parent(req[w]) \in Contracts \cup Suppliers /\ SupplierOf(req[w]) \in Suppliers
    BY ParentLockable
  <2>3. /\ \A z \in Suppliers : z \notin Policies /\ z \notin Restrictions /\ z \notin Contracts
        /\ \A z \in Contracts : z \notin Policies /\ z \notin Restrictions
        /\ None \notin Lockable
    BY IdsAssumption, NoneAssumption DEF Lockable
  <2>4. CASE step[w] = "lock_parent"
    <3>1. y \in Policies /\ x \in Contracts \cup Suppliers
      BY <2>1, <2>2, <2>3, <2>4 DEF Held, Wants, Addressed, PolicySteps
    <3>. QED  BY <2>3, <3>1 DEF Rank
  <2>5. CASE step[w] = "insert_policy"
    <3>1. Parent(req[w]) \in Held(w)
      BY <2>2, <2>5 DEF Held, PolicySteps, Lockable
    <3>2. x = SupplierOf(req[w]) /\ x # Parent(req[w])
      BY <2>1, <2>5, <3>1 DEF Wants, Held
    <3>a. Parent(req[w]) \in Contracts
      BY <3>2 DEF Parent, TypeOK, Request
    <3>b. y \in Policies \cup {Parent(req[w])}
      BY <2>1, <2>3, <2>5 DEF Held, Addressed, PolicySteps
    <3>3. y \in Policies \cup {Parent(req[w])} /\ x \in Suppliers /\ Parent(req[w]) \in Contracts
      BY <2>2, <2>5, <3>2, <3>a, <3>b DEF PolicySteps
    <3>4. Rank(x) = 3
      BY <2>3, <3>3 DEF Rank
    <3>5. Rank(y) \in {1, 2}
      BY <3>3 DEF Rank
    <3>. QED  BY <3>4, <3>5
  <2>6. CASE step[w] = "replace_restriction"
    <3>1. y \in Restrictions /\ x \in Contracts \cup Suppliers
      BY <2>1, <2>2, <2>3, <2>6 DEF Held, Wants, Addressed, RestrictionSteps
    <3>. QED  BY <2>3, <3>1 DEF Rank
  <2>7. CASE step[w] \in Lockless
    BY <2>1, <2>7, HeldNothing
  <2>8. CASE step[w] \in {"check_overlap", "insert_season", "compute_version"}
    BY <2>8 DEF Wants
  <2>. QED
    BY <2>4, <2>5, <2>6, <2>7, <2>8
    DEF TypeOK, Steps, ContractSteps, ChildSteps, RuleSteps, Lockless
<1>. QED  BY <1>1, ContractsInductive, PTL
-----------------------------------------------------------------------------
(* createSeason never creates an overlap: the request that inserts has     *)
(* seen, under the contract lock, every season not patched since.          *)
THEOREM SeasonsCreatedApart == Spec => []CreatedApart
<1>1. Init => CreatedApart
  BY DEF Init, CreatedApart, SeasonsOf, NoSeason
<1>2. ASSUME Inductive, CreatedApart, [Next]_vars  PROVE CreatedApart'
  <2>1. CASE UNCHANGED vars
    BY <1>2, <2>1 DEF vars, CreatedApart, SeasonsOf
  <2>2. ASSUME NEW w \in Writers, Move(w)  PROVE CreatedApart'
    <3>. TypeOK /\ Addressed(w) /\ SeasonSeen(w)
      BY <1>2 DEF Inductive
    <3>1. CASE InsertSeason(w)
      <4>. SUFFICES ASSUME NEW c \in Contracts, NEW s \in SeasonsOf(c)', NEW t \in SeasonsOf(c)',
                           s # t, Overlaps(seasons'[s].span, seasons'[t].span)
                    PROVE  seasons'[s].moved \/ seasons'[t].moved
        BY DEF CreatedApart
      <4>1. \A x \in Seasons : x # req[w].id => seasons'[x] = seasons[x]
        BY <3>1 DEF InsertSeason, TypeOK
      <4>2. /\ req[w].id \in Seasons /\ seasons'[req[w].id].contract = req[w].contract
            /\ seasons'[req[w].id].span = req[w].span
        BY <3>1 DEF InsertSeason, Addressed, SeasonSteps, TypeOK
      <4>3. CASE s # req[w].id /\ t # req[w].id
        BY <1>2, <4>1, <4>3 DEF CreatedApart, SeasonsOf
      <4>4. ASSUME NEW x \in Seasons, x # req[w].id, seasons'[x].presence = "THERE",
                   seasons'[x].contract = req[w].contract
            PROVE  /\ seasons'[x].moved \/ ~Overlaps(seasons'[x].span, req[w].span)
                   /\ Overlaps(req[w].span, seasons'[x].span)
                        <=> Overlaps(seasons'[x].span, req[w].span)
        <5>1. seasons'[x] = seasons[x] /\ x \in SeasonsOf(req[w].contract)
          BY <4>1, <4>4 DEF SeasonsOf
        <5>2. seasons[x].span \in Span /\ req[w].span \in Span
          BY DEF TypeOK, SeasonRow, Request
        <5>3. Overlaps(req[w].span, seasons[x].span) <=> Overlaps(seasons[x].span, req[w].span)
          BY <5>2, DaysAssumption DEF Overlaps, Span
        <5>. QED  BY <3>1, <5>1, <5>3 DEF InsertSeason, SeasonSeen
      <4>5. CASE s = req[w].id
        BY <4>2, <4>4, <4>5 DEF SeasonsOf
      <4>6. CASE t = req[w].id
        BY <4>2, <4>4, <4>6 DEF SeasonsOf
      <4>. QED  BY <4>3, <4>5, <4>6
    <3>2. CASE UpdateSeason(w)
      <4>1. ASSUME NEW s \in Seasons
            PROVE  /\ seasons'[s] = seasons[s] \/ seasons'[s].moved
                   /\ seasons'[s].contract = seasons[s].contract
                   /\ seasons'[s].presence = seasons[s].presence
        BY <3>2 DEF UpdateSeason, TypeOK, SeasonRow
      <4>. QED  BY <1>2, <4>1 DEF CreatedApart, SeasonsOf
    <3>3. CASE DeleteSeason(w)
      <4>1. ASSUME NEW s \in Seasons
            PROVE  seasons'[s] = seasons[s] \/ seasons'[s].presence = "DELETED"
        BY <3>3 DEF DeleteSeason, TypeOK, SeasonRow
      <4>. QED  BY <1>2, <4>1 DEF CreatedApart, SeasonsOf
    <3>4. CASE seasons' = seasons
      BY <1>2, <3>4 DEF CreatedApart, SeasonsOf
    <3>. QED  BY <2>2, <3>1, <3>2, <3>3, <3>4, TableWriters
  <2>. QED  BY <1>2, <2>1, <2>2 DEF Next, Move
<1>. QED  BY <1>1, <1>2, ContractsInductive, PTL DEF Spec

(* No two patches, each of one end, make a season end before it begins.    *)
THEOREM SeasonDatesInOrder == Spec => []SeasonsInOrder
<1>1. Init => SeasonsInOrder
  BY DEF Init, SeasonsInOrder, NoSeason
<1>2. ASSUME Inductive, SeasonsInOrder, [Next]_vars  PROVE SeasonsInOrder'
  <2>1. CASE UNCHANGED vars
    BY <1>2, <2>1 DEF vars, SeasonsInOrder
  <2>2. ASSUME NEW w \in Writers, Move(w)  PROVE SeasonsInOrder'
    <3>. TypeOK /\ Addressed(w) /\ SeasonSeen(w)
      BY <1>2 DEF Inductive
    <3>1. CASE InsertSeason(w)
      <4>1. req[w].span.from \in Nat \ {0} /\ Ordered(req[w].span)
        BY <3>1, DaysAssumption DEF InsertSeason, SeasonSeen, TypeOK, Request, Span
      <4>. QED  BY <1>2, <3>1, <4>1 DEF InsertSeason, SeasonsInOrder, TypeOK
    <3>2. CASE UpdateSeason(w)
      <4>. DEFINE s == req[w].id
      <4>1. s \in Seasons /\ seasons[s].span \in Span /\ req[w].patch \in Span
            /\ seasons[s].presence = "THERE"
        BY <3>2 DEF UpdateSeason, SeasonsOf, TypeOK, SeasonRow, Request
      <4>2. seasons'[s].span = Patched(req[w].patch, seasons[s].span)
        BY <3>2, <4>1 DEF UpdateSeason, TypeOK, SeasonRow
      <4>3. 0 < Patched(req[w].patch, seasons[s].span).from
        BY <1>2, <4>1, DaysAssumption DEF Patched, Span, SeasonsInOrder
      <4>4. Ordered(Patched(req[w].patch, seasons[s].span))
        BY <3>2 DEF UpdateSeason
      <4>5. \A t \in Seasons : t # s => seasons'[t] = seasons[t]
        BY <3>2 DEF UpdateSeason, TypeOK
      <4>. QED  BY <1>2, <4>2, <4>3, <4>4, <4>5 DEF SeasonsInOrder
    <3>3. CASE DeleteSeason(w)
      <4>1. ASSUME NEW t \in Seasons
            PROVE  seasons'[t] = seasons[t] \/ seasons'[t].presence = "DELETED"
        BY <3>3 DEF DeleteSeason, NoSeason, TypeOK
      <4>. QED  BY <1>2, <4>1 DEF SeasonsInOrder
    <3>4. CASE seasons' = seasons
      BY <1>2, <3>4 DEF SeasonsInOrder
    <3>. QED  BY <2>2, <3>1, <3>2, <3>3, <3>4, TableWriters
  <2>. QED  BY <1>2, <2>1, <2>2 DEF Next, Move
<1>. QED  BY <1>1, <1>2, ContractsInductive, PTL DEF Spec

(* A contract that becomes INACTIVE during a createSeason waits for it.    *)
THEOREM NoSeasonIsAddedLate == Spec => NoSeasonAddedLate
<1>. DEFINE Timely ==
       \A s \in Seasons : seasons[s] = NoSeason /\ seasons'[s] # NoSeason
                            => contracts[seasons'[s].contract] \in {"DRAFT", "ACTIVE"}
<1>1. ASSUME Inductive, [Next]_vars  PROVE [Timely]_vars
  <2>1. CASE UNCHANGED vars
    BY <2>1
  <2>2. ASSUME NEW w \in Writers, Move(w)  PROVE Timely
    <3>. TypeOK /\ Addressed(w) /\ SeasonSeen(w)
      BY <1>1 DEF Inductive
    <3>1. CASE InsertSeason(w)
      BY <3>1 DEF InsertSeason, SeasonSeen, TypeOK
    <3>2. CASE UpdateSeason(w)
      <4>1. ASSUME NEW s \in Seasons, seasons[s] = NoSeason  PROVE seasons'[s] = NoSeason
        <5>1. s # req[w].id
          BY <3>2, <4>1 DEF UpdateSeason, SeasonsOf, NoSeason
        <5>. QED  BY <3>2, <4>1, <5>1 DEF UpdateSeason, TypeOK
      <4>. QED  BY <4>1
    <3>3. CASE DeleteSeason(w)
      <4>1. ASSUME NEW s \in Seasons, seasons[s] = NoSeason  PROVE seasons'[s] = NoSeason
        <5>1. s # req[w].id
          BY <3>3, <4>1 DEF DeleteSeason, SeasonsOf, NoSeason
        <5>. QED  BY <3>3, <4>1, <5>1 DEF DeleteSeason, TypeOK
      <4>. QED  BY <4>1
    <3>. QED  BY <2>2, <3>1, <3>2, <3>3, TableWriters
  <2>. QED  BY <1>1, <2>1, <2>2 DEF Next, Move
<1>. QED  BY <1>1, ContractsInductive, PTL DEF Spec, NoSeasonAddedLate

(* A live contract has, or had, a season.                                  *)
THEOREM LiveContractsHadSeasons == Spec => []LiveHadSeason
<1>1. Inductive => LiveHadSeason
  BY DEF Inductive
<1>. QED  BY <1>1, ContractsInductive, PTL
-----------------------------------------------------------------------------
(* The versions of a scope are 1, 2, 3, ... each given once: the insert    *)
(* takes the next one under the lock of the parent row.                    *)
THEOREM PolicyVersionsRunOn == Spec => []VersionsRunOn
<1>1. Init => VersionsRunOn
  BY DEF Init, VersionsRunOn, NoPolicy
<1>2. ASSUME Inductive, VersionsRunOn, [Next]_vars  PROVE VersionsRunOn'
  <2>1. CASE policies' = policies
    BY <1>2, <2>1 DEF VersionsRunOn, Scope
  <2>2. ASSUME NEW w \in Writers, InsertPolicy(w)  PROVE VersionsRunOn'
    <3>. DEFINE id == req[w].id
                V == req[w].version
                S == Scope(req[w])
    <3>. TypeOK /\ Addressed(w) /\ RuleSeen(w) /\ Fresh(w)
      BY <1>2 DEF Inductive
    <3>1. /\ id \in Policies /\ policies[id].version = 0
          /\ policies'[id] = [contract |-> req[w].contract, owner |-> req[w].owner,
                              plan |-> req[w].plan, version |-> V, by |-> None]
      <4>1. step[w] \in PolicySteps /\ id \in Policies
        BY <2>2 DEF InsertPolicy, Addressed, PolicySteps
      <4>2. policies[id].version = 0
        BY <4>1 DEF Fresh, NoPolicy
      <4>3. req[w].old # id
        BY <2>2, <4>1, <4>2, NoneAssumption DEF InsertPolicy, RuleSeen
      <4>. QED  BY <2>2, <4>1, <4>2, <4>3 DEF InsertPolicy
    <3>2. ASSUME NEW p \in Policies, p # id
          PROVE  /\ policies'[p].version = policies[p].version
                 /\ policies'[p].contract = policies[p].contract
                 /\ policies'[p].owner = policies[p].owner
                 /\ policies'[p].plan = policies[p].plan
      BY <2>2, <3>2 DEF InsertPolicy, TypeOK, PolicyRow
    <3>3. /\ V \in Nat \ {0}
          /\ V = 1 \/ \E q \in S : policies[q].version = V - 1
          /\ \A q \in S : policies[q].version < V
      <4>1. /\ V \in Nat \ {0} /\ V - 1 \in Versions(req[w])
            /\ \A n \in Versions(req[w]) : n < V
        BY <2>2 DEF InsertPolicy, RuleSeen
      <4>2. \A q \in S : policies[q].version < V
        BY <4>1 DEF Versions
      <4>3. V - 1 = 0 \/ \E q \in S : policies[q].version = V - 1
        BY <4>1 DEF Versions
      <4>. QED  BY <4>1, <4>2, <4>3
    <3>4. ASSUME NEW p \in Policies, policies'[p].version # 0
          PROVE  /\ \A q \in Scope(policies[p])' :
                      q # p => policies'[q].version # policies'[p].version
                 /\ \A n \in 1..policies'[p].version :
                      \E q \in Scope(policies[p])' :
                        policies'[q].version = n
      <4>1. CASE p = id
        <5>1. Scope(policies[p])' = S \cup {id}
          BY <3>1, <3>2, <3>3, <4>1 DEF Scope
        <5>2. \A q \in S : q # id /\ q \in Policies /\ policies'[q].version = policies[q].version
          BY <3>1, <3>2 DEF Scope
        <5>3. \A q \in S \cup {id} : q # p => policies'[q].version # policies'[p].version
          BY <3>1, <3>3, <4>1, <5>2 DEF TypeOK, PolicyRow
        <5>4. ASSUME NEW n \in 1..V  PROVE \E q \in S \cup {id} : policies'[q].version = n
          <6>1. CASE n = V
            BY <3>1, <6>1
          <6>2. CASE n < V
            <7>1. PICK q \in S : policies[q].version = V - 1
              BY <3>3, <6>2
            <7>2. q \in Policies /\ policies[q].version # 0 /\ n \in 1..policies[q].version
                  /\ Scope(policies[q]) = S
              BY <3>3, <6>2, <7>1 DEF Scope
            <7>3. PICK r \in S : policies[r].version = n
              BY <1>2, <7>2 DEF VersionsRunOn
            <7>. QED  BY <5>2, <7>3
          <6>. QED  BY <3>3, <6>1, <6>2
        <5>. QED  BY <3>1, <4>1, <5>1, <5>3, <5>4
      <4>2. CASE p # id
        <5>1. policies[p].version # 0 /\ policies'[p].version = policies[p].version
          BY <3>2, <3>4, <4>2
        <5>2. ASSUME NEW q \in Scope(policies[p])', q # p
              PROVE  policies'[q].version # policies'[p].version
          <6>1. CASE q = id
            <7>1. p \in S /\ policies'[q].version = V
              BY <3>1, <3>2, <4>2, <5>1, <5>2, <6>1 DEF Scope
            <7>. QED  BY <3>3, <5>1, <7>1 DEF TypeOK, PolicyRow
          <6>2. CASE q # id
            <7>1. q \in Scope(policies[p]) /\ q \in Policies
                  /\ policies'[q].version = policies[q].version
              BY <3>2, <4>2, <5>2, <6>2 DEF Scope
            <7>. QED  BY <1>2, <5>1, <5>2, <7>1 DEF VersionsRunOn
          <6>. QED  BY <6>1, <6>2
        <5>3. ASSUME NEW n \in 1..policies'[p].version
              PROVE  \E q \in Scope(policies[p])' :
                       policies'[q].version = n
          <6>1. PICK q \in Scope(policies[p]) : policies[q].version = n
            BY <1>2, <5>1, <5>3 DEF VersionsRunOn
          <6>2. q \in Scope(policies[p])' /\ policies'[q].version = n
            BY <3>1, <3>2, <4>2, <6>1 DEF Scope
          <6>. QED  BY <6>2
        <5>. QED  BY <5>2, <5>3
      <4>. QED  BY <4>1, <4>2
    <3>. QED  BY <3>4 DEF VersionsRunOn
  <2>. QED  BY <1>2, <2>1, <2>2, TableWriters DEF Next, Move, vars
<1>. QED  BY <1>1, <1>2, ContractsInductive, PTL DEF Spec

(* Policy p is in force, or is a default superseded by another supplier's  *)
(* or another hotel's; and the same of restriction r.                      *)
PolicyEnds(p) ==
  /\ policies[p].version # 0
  /\ \/ policies[p].by = None
     \/ policies[p].contract = None /\ policies[policies[p].by].owner # policies[p].owner

RestrictionEnds(r) ==
  /\ restrictions[r].presence = "THERE"
  /\ \/ restrictions[r].by = None
     \/ /\ restrictions[r].contract = None
        /\ restrictions[restrictions[r].by].owner # restrictions[r].owner

(* The end of a chain stays one, or the row that supersedes it is one.     *)
LEMMA PolicyEndsStay ==
  ASSUME Inductive, NEW q, AddsPolicy(q), NEW x \in Policies, PolicyEnds(x)
  PROVE  \E y \in Policies : /\ PolicyEnds(y)'
                             /\ policies'[y].contract = policies[x].contract
                             /\ policies'[y].owner = policies[x].owner
<1>. TypeOK /\ RulesOwned /\ LinksHold
  BY DEF Inductive
<1>1. CASE x = q.old
  <2>1. /\ x # None /\ x # q.id /\ policies[x].contract = q.contract
        /\ policies'[x] = [policies[x] EXCEPT !.by = q.id]
    BY <1>1, NoneAssumption DEF AddsPolicy
  <2>2. policies'[x].by = q.id /\ policies'[x].contract = policies[x].contract
        /\ policies'[x].owner = policies[x].owner /\ policies'[x].version # 0
    BY <2>1 DEF TypeOK, PolicyRow, PolicyEnds
  <2>3. CASE q.owner = policies[x].owner
    BY <2>1, <2>3 DEF AddsPolicy, PolicyEnds
  <2>4. CASE q.owner # policies[x].owner
    <3>1. policies[x].contract = None
      BY <2>1, <2>4 DEF AddsPolicy, RulesOwned
    <3>2. policies'[policies'[x].by].owner # policies'[x].owner
      BY <2>2, <2>4 DEF AddsPolicy
    <3>. QED  BY <2>2, <3>1, <3>2 DEF PolicyEnds
  <2>. QED  BY <2>3, <2>4
<1>2. CASE x # q.old
  <2>1. policies'[x] = policies[x]
    BY <1>2 DEF AddsPolicy, PolicyEnds
  <2>2. policies[x].by # None => policies'[policies[x].by].owner = policies[policies[x].by].owner
    <3>1. policies[x].by \in Policies \cup {None}
      BY DEF TypeOK, PolicyRow
    <3>. QED  BY <3>1 DEF AddsPolicy, LinksHold
  <2>. QED  BY <2>1, <2>2 DEF PolicyEnds
<1>. QED  BY <1>1, <1>2

LEMMA RestrictionEndsStay ==
  ASSUME Inductive, NEW q, ReplacesRestriction(q) \/ RestrictionAdded(q),
         NEW x \in Restrictions, RestrictionEnds(x)
  PROVE  \E y \in Restrictions : /\ RestrictionEnds(y)'
                                 /\ restrictions'[y].contract = restrictions[x].contract
                                 /\ restrictions'[y].owner = restrictions[x].owner
<1>. TypeOK /\ RulesOwned /\ LinksHold
  BY DEF Inductive
<1>1. CASE ReplacesRestriction(q) /\ x = q.old
  <2>1. /\ x # q.id /\ restrictions[x].contract = q.contract
        /\ restrictions'[x] = [restrictions[x] EXCEPT !.by = q.id]
    BY <1>1 DEF ReplacesRestriction
  <2>2. restrictions'[x].by = q.id /\ restrictions'[x].contract = restrictions[x].contract
        /\ restrictions'[x].owner = restrictions[x].owner /\ restrictions'[x].presence = "THERE"
    BY <2>1 DEF TypeOK, RestrictionRow, RestrictionEnds
  <2>3. CASE q.owner = restrictions[x].owner
    BY <1>1, <2>1, <2>3 DEF ReplacesRestriction, RestrictionEnds
  <2>4. CASE q.owner # restrictions[x].owner
    <3>1. restrictions[x].contract = None
      BY <1>1, <2>1, <2>4 DEF ReplacesRestriction, RulesOwned
    <3>2. restrictions'[restrictions'[x].by].owner # restrictions'[x].owner
      BY <1>1, <2>2, <2>4 DEF ReplacesRestriction
    <3>. QED  BY <2>2, <3>1, <3>2 DEF RestrictionEnds
  <2>. QED  BY <2>3, <2>4
<1>2. CASE RestrictionAdded(q) \/ x # q.old
  <2>1. restrictions'[x] = restrictions[x]
    BY <1>2 DEF ReplacesRestriction, RestrictionAdded, RestrictionEnds, NoRestriction
  <2>2. restrictions[x].by # None =>
          restrictions'[restrictions[x].by].owner = restrictions[restrictions[x].by].owner
    <3>1. restrictions[x].by \in Restrictions \cup {None}
      BY DEF TypeOK, RestrictionRow
    <3>. QED  BY <3>1 DEF ReplacesRestriction, RestrictionAdded, LinksHold, NoRestriction
  <2>. QED  BY <2>1, <2>2 DEF RestrictionEnds
<1>. QED  BY <1>1, <1>2

(* Where a contract, or a supplier for a hotel, had a rule in force, there *)
(* is one, or the default was given to another supplier or hotel.          *)
THEOREM RulesStayInForce == Spec => []ChainsEndInForce
<1>0. ChainsEndInForce <=>
        /\ \A p \in Policies : policies[p].version # 0 =>
             \E x \in Policies : /\ PolicyEnds(x)
                                 /\ policies[x].contract = policies[p].contract
                                 /\ policies[x].owner = policies[p].owner
        /\ \A r \in Restrictions : restrictions[r].presence = "THERE" =>
             \E x \in Restrictions : /\ RestrictionEnds(x)
                                     /\ restrictions[x].contract = restrictions[r].contract
                                     /\ restrictions[x].owner = restrictions[r].owner
  BY DEF ChainsEndInForce, PolicyEnds, RestrictionEnds
<1>1. Init => ChainsEndInForce
  BY DEF Init, ChainsEndInForce, NoPolicy, NoRestriction
<1>2. ASSUME Inductive, ChainsEndInForce, [Next]_vars  PROVE ChainsEndInForce'
  <2>1. ASSUME NEW p \in Policies, policies'[p].version # 0
        PROVE  \E x \in Policies : /\ PolicyEnds(x)'
                                   /\ policies'[x].contract = policies'[p].contract
                                   /\ policies'[x].owner = policies'[p].owner
    <3>1. CASE policies' = policies
      BY <1>0, <1>2, <2>1, <3>1 DEF PolicyEnds
    <3>2. ASSUME NEW w \in Writers, InsertPolicy(w)
          PROVE  \E x \in Policies : /\ PolicyEnds(x)'
                                     /\ policies'[x].contract = policies'[p].contract
                                     /\ policies'[x].owner = policies'[p].owner
      <4>1. AddsPolicy(req[w])
        BY <1>2, <3>2, PolicyAdded
      <4>2. CASE p = req[w].id
        BY <2>1, <4>1, <4>2 DEF AddsPolicy, PolicyEnds
      <4>3. CASE p # req[w].id
        <5>1. policies[p].version # 0 /\ policies'[p].contract = policies[p].contract
              /\ policies'[p].owner = policies[p].owner
          BY <2>1, <4>1, <4>3 DEF AddsPolicy
        <5>2. PICK x \in Policies : /\ PolicyEnds(x)
                                    /\ policies[x].contract = policies[p].contract
                                    /\ policies[x].owner = policies[p].owner
          BY <1>0, <1>2, <5>1
        <5>. QED  BY <1>2, <4>1, <5>1, <5>2, PolicyEndsStay
      <4>. QED  BY <4>2, <4>3
    <3>. QED  BY <1>2, <3>1, <3>2, TableWriters DEF Next, Move, vars
  <2>2. ASSUME NEW r \in Restrictions, restrictions'[r].presence = "THERE"
        PROVE  \E x \in Restrictions : /\ RestrictionEnds(x)'
                                       /\ restrictions'[x].contract = restrictions'[r].contract
                                       /\ restrictions'[x].owner = restrictions'[r].owner
    <3>1. CASE restrictions' = restrictions
      BY <1>0, <1>2, <2>2, <3>1 DEF RestrictionEnds
    <3>2. ASSUME NEW q, ReplacesRestriction(q) \/ RestrictionAdded(q)
          PROVE  \E x \in Restrictions :
                   /\ RestrictionEnds(x)'
                   /\ restrictions'[x].contract = restrictions'[r].contract
                   /\ restrictions'[x].owner = restrictions'[r].owner
      <4>1. CASE r = q.id
        BY <2>2, <3>2, <4>1 DEF ReplacesRestriction, RestrictionAdded, RestrictionEnds
      <4>2. CASE r # q.id
        <5>1. restrictions[r].presence = "THERE"
              /\ restrictions'[r].contract = restrictions[r].contract
              /\ restrictions'[r].owner = restrictions[r].owner
          BY <2>2, <3>2, <4>2 DEF ReplacesRestriction, RestrictionAdded
        <5>2. PICK x \in Restrictions :
                /\ RestrictionEnds(x)
                /\ restrictions[x].contract = restrictions[r].contract
                /\ restrictions[x].owner = restrictions[r].owner
          BY <1>0, <1>2, <5>1
        <5>. QED  BY <1>2, <3>2, <5>1, <5>2, RestrictionEndsStay
      <4>. QED  BY <4>1, <4>2
    <3>. QED  BY <1>2, <3>1, <3>2, TableWriters, RestrictionInserted, RestrictionReplaced
              DEF Next, Move, vars
  <2>3. ChainsEndInForce' <=>
          /\ \A p \in Policies : policies'[p].version # 0 =>
               \E x \in Policies : /\ PolicyEnds(x)'
                                   /\ policies'[x].contract = policies'[p].contract
                                   /\ policies'[x].owner = policies'[p].owner
          /\ \A r \in Restrictions : restrictions'[r].presence = "THERE" =>
               \E x \in Restrictions : /\ RestrictionEnds(x)'
                                       /\ restrictions'[x].contract = restrictions'[r].contract
                                       /\ restrictions'[x].owner = restrictions'[r].owner
    BY DEF ChainsEndInForce, PolicyEnds, RestrictionEnds
  <2>. QED  BY <2>1, <2>2, <2>3
<1>. QED  BY <1>1, <1>2, ContractsInductive, PTL DEF Spec

(* A rule that exists changes only by being superseded, once, by a new row *)
(* of the same contract.                                                   *)
THEOREM RulesSupersededOnce == Spec => SupersededOnce
<1>1. ASSUME Inductive, [Next]_vars, NEW p \in Policies,
             policies[p].version # 0, policies'[p] # policies[p]
      PROVE  LET q == policies'[p].by IN
             /\ policies[p].by = None /\ policies[q] = NoPolicy
             /\ policies'[p] = [policies[p] EXCEPT !.by = q]
             /\ policies'[q].contract = policies[p].contract
  <2>1. PICK w \in Writers : InsertPolicy(w)
    BY <1>1, TableWriters DEF Next, Move, vars
  <2>2. AddsPolicy(req[w])
    BY <1>1, <2>1, PolicyAdded
  <2>. DEFINE q == req[w]
  <2>3. AddsPolicy(q)
    BY <2>2
  <2>. HIDE DEF q
  <2>4. p # q.id /\ p = q.old
    BY <1>1, <2>3 DEF AddsPolicy
  <2>5. q.old # None
    BY <2>4, NoneAssumption
  <2>6. policies'[p] = [policies[p] EXCEPT !.by = q.id]
    BY <2>3, <2>4 DEF AddsPolicy
  <2>7. policies'[p].by = q.id
    BY <1>1, <2>6 DEF Inductive, TypeOK, PolicyRow
  <2>8. /\ policies[p].by = None /\ policies[q.id] = NoPolicy
        /\ policies'[q.id].contract = policies[p].contract
    BY <2>3, <2>4, <2>5 DEF AddsPolicy
  <2>. QED  BY <2>6, <2>7, <2>8
<1>2. ASSUME Inductive, [Next]_vars, NEW r \in Restrictions,
             restrictions[r].presence = "THERE", restrictions'[r] # restrictions[r]
      PROVE  LET q == restrictions'[r].by IN
             /\ restrictions[r].by = None /\ restrictions[q] = NoRestriction
             /\ restrictions'[r] = [restrictions[r] EXCEPT !.by = q]
             /\ restrictions'[q].contract = restrictions[r].contract
  <2>1. ASSUME NEW w \in Writers, InsertRestriction(w)  PROVE FALSE
    <3>1. restrictions[req[w].id] = NoRestriction
      BY <1>2, <2>1 DEF InsertRestriction, Inductive, Fresh, RestrictionSteps
    <3>2. r # req[w].id
      BY <1>2, <3>1 DEF NoRestriction
    <3>. QED  BY <1>2, <2>1, <3>2 DEF InsertRestriction, Inductive, TypeOK
  <2>2. PICK w \in Writers : ReplaceRestriction(w)
    BY <1>2, <2>1, TableWriters DEF Next, Move, vars
  <2>3. ReplacesRestriction(req[w])
    BY <1>2, <2>2, RestrictionReplaced
  <2>. DEFINE q == req[w]
  <2>4. ReplacesRestriction(q)
    BY <2>3
  <2>. HIDE DEF q
  <2>5. r # q.id /\ r = q.old
    BY <1>2, <2>4 DEF ReplacesRestriction
  <2>6. restrictions'[r] = [restrictions[r] EXCEPT !.by = q.id]
    BY <2>4, <2>5 DEF ReplacesRestriction
  <2>7. restrictions'[r].by = q.id
    BY <1>2, <2>6 DEF Inductive, TypeOK, RestrictionRow
  <2>8. /\ restrictions[r].by = None /\ restrictions[q.id] = NoRestriction
        /\ restrictions'[q.id].contract = restrictions[r].contract
    BY <2>4, <2>5 DEF ReplacesRestriction
  <2>. QED  BY <2>6, <2>7, <2>8
<1>3. Inductive /\ [Next]_vars =>
        [/\ \A p \in Policies : policies[p].version # 0 /\ policies'[p] # policies[p] =>
              LET q == policies'[p].by IN
              /\ policies[p].by = None /\ policies[q] = NoPolicy
              /\ policies'[p] = [policies[p] EXCEPT !.by = q]
              /\ policies'[q].contract = policies[p].contract
         /\ \A r \in Restrictions :
              restrictions[r].presence = "THERE" /\ restrictions'[r] # restrictions[r] =>
                LET q == restrictions'[r].by IN
                /\ restrictions[r].by = None /\ restrictions[q] = NoRestriction
                /\ restrictions'[r] = [restrictions[r] EXCEPT !.by = q]
                /\ restrictions'[q].contract = restrictions[r].contract]_vars
  BY <1>1, <1>2
<1>. QED  BY <1>3, ContractsInductive, PTL DEF Spec, SupersededOnce

(* No statement takes away a season, or a band, that something refers to.  *)
LEMMA ReferencedSeasonStays ==
  ASSUME Inductive, NEW w \in Writers, Move(w), NEW s \in Seasons,
         seasons[s].presence = "THERE", SeasonReferenced(s)
  PROVE  seasons'[s].presence = "THERE" /\ seasons'[s].contract = seasons[s].contract
<1>. TypeOK /\ Addressed(w) /\ Fresh(w)
  BY DEF Inductive
<1>1. CASE InsertSeason(w)
  <2>1. seasons[req[w].id] = NoSeason
    BY <1>1 DEF InsertSeason, Fresh
  <2>2. s # req[w].id
    BY <2>1 DEF NoSeason
  <2>. QED  BY <1>1, <2>2 DEF InsertSeason, TypeOK
<1>2. CASE UpdateSeason(w)
  BY <1>2 DEF UpdateSeason, TypeOK, SeasonRow
<1>3. CASE DeleteSeason(w)
  <2>1. s # req[w].id
    BY <1>3 DEF DeleteSeason
  <2>. QED  BY <1>3, <2>1 DEF DeleteSeason, TypeOK
<1>. QED  BY <1>1, <1>2, <1>3, TableWriters

LEMMA ReferencedBandStays ==
  ASSUME Inductive, NEW w \in Writers, Move(w), NEW b \in Bands, bands[b].presence = "THERE",
         NEW r \in Rates, rates[r].presence = "THERE", rates[r].band = b
  PROVE  bands'[b].presence = "THERE" /\ bands'[b].contract = bands[b].contract
<1>. TypeOK /\ Addressed(w) /\ Fresh(w)
  BY DEF Inductive
<1>1. CASE InsertBand(w)
  <2>1. bands[req[w].id] = NoBand
    BY <1>1 DEF InsertBand, Fresh
  <2>2. b # req[w].id
    BY <2>1 DEF NoBand
  <2>. QED  BY <1>1, <2>2 DEF InsertBand, TypeOK
<1>2. CASE DeleteBand(w)
  <2>1. b # req[w].id
    BY <1>2 DEF DeleteBand
  <2>. QED  BY <1>2, <2>1 DEF DeleteBand, TypeOK
<1>. QED  BY <1>1, <1>2, TableWriters

(* Deletes that race with inserts leave nothing that refers to a row gone. *)
THEOREM ReferencesHold == Spec => []NothingDangles
<1>1. Init => NothingDangles
  BY DEF Init, NothingDangles, NoRate, NoRestriction
<1>2. ASSUME Inductive, NothingDangles, NEW w \in Writers, Move(w)  PROVE NothingDangles'
  <2>. TypeOK /\ Addressed(w) /\ Fresh(w) /\ RestrictionsThere
    BY <1>2 DEF Inductive
  <2>. DEFINE RateFits(r) == /\ rates[r].season \in SeasonsOf(rates[r].contract)
                             /\ rates[r].band \in BandsOf(rates[r].contract) \cup {None}
              SeasonFits(r) == restrictions[r].season \in SeasonsOf(restrictions[r].contract)
  <2>1. ASSUME NEW r \in Rates, rates'[r].presence = "THERE"
        PROVE  RateFits(r)'
    <3>1. ASSUME rates'[r] = rates[r]
          PROVE  RateFits(r)'
      <4>1. rates[r].presence = "THERE" /\ RateFits(r)
        BY <1>2, <2>1, <3>1 DEF NothingDangles
      <4>2. SeasonReferenced(rates[r].season)
        BY <4>1 DEF SeasonReferenced
      <4>3. rates[r].season \in Seasons /\ seasons'[rates[r].season].presence = "THERE"
            /\ seasons'[rates[r].season].contract = rates[r].contract
        BY <1>2, <4>1, <4>2, ReferencedSeasonStays DEF SeasonsOf
      <4>4. rates[r].band # None =>
              rates[r].band \in Bands /\ bands'[rates[r].band].presence = "THERE"
                /\ bands'[rates[r].band].contract = rates[r].contract
        BY <1>2, <4>1, ReferencedBandStays DEF BandsOf
      <4>. QED  BY <3>1, <4>3, <4>4 DEF SeasonsOf, BandsOf
    <3>2. CASE InsertRate(w)
      <4>1. CASE r = req[w].id
        <5>1. /\ rates'[r].season = req[w].season /\ rates'[r].band = req[w].band
              /\ rates'[r].contract = req[w].contract
          BY <3>2, <4>1 DEF InsertRate, TypeOK
        <5>. QED  BY <3>2, <5>1 DEF InsertRate, SeasonsOf, BandsOf
      <4>2. CASE r # req[w].id
        BY <3>1, <3>2, <4>2 DEF InsertRate, TypeOK
      <4>. QED  BY <4>1, <4>2
    <3>3. CASE DeleteRate(w)
      <4>1. r # req[w].id
        BY <2>1, <3>3 DEF DeleteRate, TypeOK, RateRow
      <4>. QED  BY <3>1, <3>3, <4>1 DEF DeleteRate, TypeOK
    <3>. QED  BY <1>2, <3>1, <3>2, <3>3, TableWriters
  <2>2. ASSUME NEW r \in Restrictions, restrictions'[r].season # None
        PROVE  SeasonFits(r)'
    <3>1. ASSUME restrictions'[r].season = restrictions[r].season,
                 restrictions'[r].contract = restrictions[r].contract
          PROVE  SeasonFits(r)'
      <4>1. restrictions[r].presence = "THERE" /\ SeasonFits(r)
        BY <1>2, <2>2, <3>1 DEF NothingDangles, RestrictionsThere, NoRestriction
      <4>2. SeasonReferenced(restrictions[r].season)
        BY <4>1 DEF SeasonReferenced
      <4>3. restrictions[r].season \in Seasons
            /\ seasons'[restrictions[r].season].presence = "THERE"
            /\ seasons'[restrictions[r].season].contract = restrictions[r].contract
        BY <1>2, <4>1, <4>2, ReferencedSeasonStays DEF SeasonsOf
      <4>. QED  BY <3>1, <4>3 DEF SeasonsOf
    <3>2. CASE InsertRestriction(w)
      <4>1. CASE r = req[w].id
        <5>1. restrictions'[r] = RestrictionOf(req[w])
          BY <3>2, <4>1 DEF InsertRestriction, TypeOK
        <5>2. restrictions'[r].season = req[w].season /\ restrictions'[r].contract = req[w].contract
          BY <5>1 DEF RestrictionOf
        <5>. QED  BY <2>2, <3>2, <5>2 DEF InsertRestriction, RestrictionFits, SeasonsOf
      <4>2. CASE r # req[w].id
        BY <3>1, <3>2, <4>2 DEF InsertRestriction, TypeOK
      <4>. QED  BY <4>1, <4>2
    <3>3. CASE ReplaceRestriction(w)
      <4>1. ReplacesRestriction(req[w])
        BY <1>2, <3>3, RestrictionReplaced
      <4>2. /\ r = req[w].id => /\ restrictions'[r].season = req[w].season
                               /\ restrictions'[r].contract = req[w].contract
            /\ r # req[w].id => /\ restrictions'[r].season = restrictions[r].season
                               /\ restrictions'[r].contract = restrictions[r].contract
        BY <4>1 DEF ReplacesRestriction
      <4>. QED  BY <2>2, <3>1, <3>3, <4>2 DEF ReplaceRestriction, RestrictionFits, SeasonsOf
    <3>. QED  BY <1>2, <3>1, <3>2, <3>3, TableWriters
  <2>. QED  BY <2>1, <2>2 DEF NothingDangles
<1>3. ASSUME NothingDangles, vars' = vars  PROVE NothingDangles'
  BY <1>3 DEF NothingDangles, SeasonsOf, BandsOf, vars
<1>4. Inductive /\ NothingDangles /\ [Next]_vars => NothingDangles'
  BY <1>2, <1>3 DEF Next, Move
<1>. QED  BY <1>1, <1>4, ContractsInductive, PTL DEF Spec
=============================================================================
