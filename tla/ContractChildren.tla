-------------------------- MODULE ContractChildren --------------------------
(***************************************************************************)
(* What hangs from a direct contract: seasons, child age bands, and the    *)
(* base rates and supplements priced per season.  createSeason alone runs  *)
(* a transaction, under the lock of the contract row; every other handler  *)
(* reads the contract, perhaps more, and then writes with one statement    *)
(* whose foreign keys are the only check left.                             *)
(***************************************************************************)
EXTENDS ContractStore

(* Mutant of LockForSeason: it reads the status and does not lock the row. *)
ReadForSeason(w, c, s, d) ==
  /\ seasons[s] = NoSeason /\ Unused(s)
  /\ Ordered(d) /\ d.from # 0
  /\ lock[c] = None
  /\ Writable(c)
  /\ Begin(w, "check_overlap", [NoRequest EXCEPT !.contract = c, !.id = s, !.span = d])

(* createSeason: the date check, BEGIN, and the contract row FOR UPDATE.   *)
LockForSeason(w, c, s, d) ==
  /\ step[w] = "idle"
  /\ seasons[s] = NoSeason /\ Unused(s)
  /\ Ordered(d) /\ d.from # 0
  /\ lock[c] = None
  /\ Writable(c)
  /\ lock' = [lock EXCEPT ![c] = w]
  /\ Proceed(w, "check_overlap", [NoRequest EXCEPT !.contract = c, !.id = s, !.span = d])

CheckOverlap(w) ==
  /\ step[w] = "check_overlap"
  /\ \A s \in SeasonsOf(req[w].contract) : ~Overlaps(seasons[s].span, req[w].span)
  /\ Proceed(w, "insert_season", req[w])
  /\ UNCHANGED lock

(* INSERT and COMMIT.                                                      *)
InsertSeason(w) ==
  /\ step[w] = "insert_season"
  /\ seasons' = [seasons EXCEPT ![req[w].id] =
                   [presence |-> "THERE", contract |-> req[w].contract,
                    span |-> req[w].span, moved |-> FALSE]]
  /\ Finish(w)
  /\ UNCHANGED <<contracts, bands, rates, policies, restrictions>>

(* patchSeason with either date or both.                                   *)
StartPatchSeason(w, c, s, p) ==
  /\ Writable(c)
  /\ seasons[s].presence = "THERE"
  /\ p # NoSpan
  /\ Begin(w, "find_season", [NoRequest EXCEPT !.contract = c, !.id = s, !.patch = p])

(* patch.dateFrom ?? existing.dateFrom, and the same for dateTo.           *)
Patched(p, d) == [from |-> IF p.from = 0 THEN d.from ELSE p.from,
                  to |-> IF p.to = 0 THEN d.to ELSE p.to]

FindSeason(w) ==
  LET next == Patched(req[w].patch, seasons[req[w].id].span) IN
  /\ step[w] = "find_season"
  /\ req[w].id \in SeasonsOf(req[w].contract)
  /\ Ordered(next)
  /\ Proceed(w, "assert_no_overlap", [req[w] EXCEPT !.span = next])
  /\ UNCHANGED lock

(* seasonRepo.assertNoOverlap, the season itself excluded.                 *)
AssertNoOverlap(w) ==
  /\ step[w] = "assert_no_overlap"
  /\ \A s \in SeasonsOf(req[w].contract) \ {req[w].id} :
       ~Overlaps(seasons[s].span, req[w].span)
  /\ Proceed(w, "update_season", [req[w] EXCEPT !.span = NoSpan])
  /\ UNCHANGED lock

(* Mutant of UpdateSeason: the table has no check that the dates are in    *)
(* order.                                                                  *)
UpdateSeasonUnchecked(w) ==
  LET s == req[w].id IN
  /\ step[w] = "update_season"
  /\ s \in SeasonsOf(req[w].contract)
  /\ seasons' = [seasons EXCEPT ![s].span = Patched(req[w].patch, @),
                                ![s].moved = TRUE]
  /\ Finish(w)
  /\ UNCHANGED <<contracts, bands, rates, policies, restrictions>>

(* COALESCE keeps an end that was not given as it is now, not as it was    *)
(* read; rate_auth_season_dates_chk refuses a row whose dates then cross.  *)
UpdateSeason(w) ==
  LET s == req[w].id IN
  /\ step[w] = "update_season"
  /\ s \in SeasonsOf(req[w].contract)
  /\ Ordered(Patched(req[w].patch, seasons[s].span))
  /\ seasons' = [seasons EXCEPT ![s].span = Patched(req[w].patch, @),
                                ![s].moved = TRUE]
  /\ Finish(w)
  /\ UNCHANGED <<contracts, bands, rates, policies, restrictions>>

(* A rate, a supplement or a restriction of season s.                      *)
SeasonReferenced(s) ==
  \/ \E r \in Rates : rates[r].presence = "THERE" /\ rates[r].season = s
  \/ \E r \in Restrictions : restrictions[r].presence = "THERE" /\ restrictions[r].season = s

(* The three deletes ask only that the contract exists.                    *)
StartDeleteSeason(w, c, s) ==
  /\ Exists(c)
  /\ seasons[s].presence = "THERE"
  /\ Begin(w, "delete_season", [NoRequest EXCEPT !.contract = c, !.id = s])

(* Mutant of DeleteSeason: no foreign key refers to the season.            *)
DeleteSeasonUnchecked(w) ==
  /\ step[w] = "delete_season"
  /\ req[w].id \in SeasonsOf(req[w].contract)
  /\ seasons' = [seasons EXCEPT ![req[w].id] =
                   [NoSeason EXCEPT !.presence = "DELETED", !.contract = req[w].contract]]
  /\ Finish(w)
  /\ UNCHANGED <<contracts, bands, rates, policies, restrictions>>

(* Of a deleted season only its contract is remembered.                    *)
DeleteSeason(w) ==
  /\ step[w] = "delete_season"
  /\ req[w].id \in SeasonsOf(req[w].contract)
  /\ ~SeasonReferenced(req[w].id)
  /\ seasons' = [seasons EXCEPT ![req[w].id] =
                   [NoSeason EXCEPT !.presence = "DELETED", !.contract = req[w].contract]]
  /\ Finish(w)
  /\ UNCHANGED <<contracts, bands, rates, policies, restrictions>>
-----------------------------------------------------------------------------
StartBand(w, c, b) ==
  /\ Writable(c)
  /\ bands[b] = NoBand /\ Unused(b)
  /\ Begin(w, "insert_band", [NoRequest EXCEPT !.contract = c, !.id = b])

InsertBand(w) ==
  /\ step[w] = "insert_band"
  /\ Free(req[w].contract, w)
  /\ bands' = [bands EXCEPT ![req[w].id] =
                 [presence |-> "THERE", contract |-> req[w].contract]]
  /\ Finish(w)
  /\ UNCHANGED <<contracts, seasons, rates, policies, restrictions>>

BandsOf(c) == {b \in Bands : bands[b].presence = "THERE" /\ bands[b].contract = c}

StartDeleteBand(w, c, b) ==
  /\ Exists(c)
  /\ bands[b].presence = "THERE"
  /\ Begin(w, "delete_band", [NoRequest EXCEPT !.contract = c, !.id = b])

(* A band a supplement refers to is not deleted (foreign key).             *)
DeleteBand(w) ==
  /\ step[w] = "delete_band"
  /\ req[w].id \in BandsOf(req[w].contract)
  /\ ~\E r \in Rates : rates[r].presence = "THERE" /\ rates[r].band = req[w].id
  /\ bands' = [bands EXCEPT ![req[w].id].presence = "DELETED"]
  /\ Finish(w)
  /\ UNCHANGED <<contracts, seasons, rates, policies, restrictions>>

(* createBaseRate (no band), createOccupancySupplement and                 *)
(* createMealSupplement.                                                   *)
StartRate(w, c, r, s, b) ==
  /\ Writable(c)
  /\ rates[r] = NoRate /\ Unused(r)
  /\ Begin(w, "insert_rate",
           [NoRequest EXCEPT !.contract = c, !.id = r, !.season = s, !.band = b])

(* The composite foreign keys: season and band are rows of this contract.  *)
InsertRate(w) ==
  LET q == req[w] IN
  /\ step[w] = "insert_rate"
  /\ Free(q.contract, w)
  /\ q.season \in SeasonsOf(q.contract)
  /\ q.band \in BandsOf(q.contract) \cup {None}
  /\ rates' = [rates EXCEPT ![q.id] = [presence |-> "THERE", contract |-> q.contract,
                                       season |-> q.season, band |-> q.band]]
  /\ Finish(w)
  /\ UNCHANGED <<contracts, seasons, bands, policies, restrictions>>

StartDeleteRate(w, c, r) ==
  /\ Exists(c)
  /\ rates[r].presence = "THERE"
  /\ Begin(w, "delete_rate", [NoRequest EXCEPT !.contract = c, !.id = r])

DeleteRate(w) ==
  /\ step[w] = "delete_rate"
  /\ rates[req[w].id].presence = "THERE" /\ rates[req[w].id].contract = req[w].contract
  /\ rates' = [rates EXCEPT ![req[w].id] = [NoRate EXCEPT !.presence = "DELETED"]]
  /\ Finish(w)
  /\ UNCHANGED <<contracts, seasons, bands, policies, restrictions>>
=============================================================================
