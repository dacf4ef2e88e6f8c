----------------------------- MODULE Permissions -----------------------------
(***************************************************************************)
(* apps/api/src/auth/permissions: which roles there are, what each role    *)
(* may do, and what RolesGuard lets a caller do.  Pure: roles and          *)
(* memberships are read by the caller and passed in.                       *)
(***************************************************************************)
OperatorRoles ==
  {"platform_admin", "ops_support", "finance_ops", "integrations_ops", "read_only_auditor"}

AgencyRoles == {"account_admin", "booker", "finance"}

Roles == OperatorRoles \cup AgencyRoles

(* Permissions that only look: PERMISSION_KIND is READ.                    *)
ReadPermissions ==
  {"booking.read", "booking.read.full_pricing_trace", "booking.read.fx_provenance",
   "booking.read.own", "booking.read.account", "documents.view_tax",
   "documents.download.own", "documents.download.account", "ledger.read",
   "ledger.read.account", "statements.download", "pricing.rule.read",
   "supplier.config.read", "mapping.queue.read", "account.read", "reseller.profile.read",
   "search.execute", "audit.read", "audit.read.sensitive"}

WritePermissions ==
  {"booking.confirm.manual", "booking.cancel.manual", "booking.refund.manual",
   "booking.eligibility.override", "booking.create", "booking.cancel.own_within_policy",
   "booking.cancel.account_within_policy", "booking.refund.own_within_policy",
   "booking.refund.account_within_policy", "documents.reissue", "ledger.adjust",
   "pricing.rule.edit", "supplier.config.edit", "mapping.decision.write", "account.edit",
   "account.settings.edit", "reseller.profile.edit", "users.manage", "api_keys.manage",
   "user.role.grant", "impersonate.agency_account"}

AllPermissions == ReadPermissions \cup WritePermissions

BookingReads == {"booking.read", "booking.read.full_pricing_trace", "booking.read.fx_provenance"}

OperatorPermissions(role) ==
  CASE role = "platform_admin" -> AllPermissions
    [] role = "ops_support" ->
         BookingReads \cup
         {"booking.confirm.manual", "booking.cancel.manual", "booking.refund.manual",
          "booking.eligibility.override", "documents.view_tax", "documents.reissue",
          "ledger.read", "pricing.rule.read", "supplier.config.read", "mapping.queue.read",
          "account.read", "account.edit", "reseller.profile.read", "audit.read",
          "impersonate.agency_account"}
    [] role = "finance_ops" ->
         BookingReads \cup
         {"documents.view_tax", "ledger.read", "ledger.adjust", "pricing.rule.read",
          "pricing.rule.edit", "account.read", "reseller.profile.read", "audit.read"}
    [] role = "integrations_ops" ->
         BookingReads \cup
         {"supplier.config.read", "supplier.config.edit", "mapping.queue.read",
          "mapping.decision.write", "audit.read"}
    [] role = "read_only_auditor" ->
         BookingReads \cup
         {"documents.view_tax", "ledger.read", "pricing.rule.read", "supplier.config.read",
          "mapping.queue.read", "account.read", "reseller.profile.read", "audit.read"}

AgencyPermissions(role) ==
  CASE role = "account_admin" ->
         {"search.execute", "booking.create", "booking.read.own", "booking.read.account",
          "booking.cancel.own_within_policy", "booking.cancel.account_within_policy",
          "booking.refund.own_within_policy", "booking.refund.account_within_policy",
          "documents.download.own", "documents.download.account", "ledger.read.account",
          "statements.download", "users.manage", "api_keys.manage", "reseller.profile.read",
          "account.settings.edit"}
    [] role = "booker" ->
         {"search.execute", "booking.create", "booking.read.own",
          "booking.cancel.own_within_policy", "booking.refund.own_within_policy",
          "documents.download.own"}
    [] role = "finance" ->
         {"search.execute", "booking.read.account", "documents.download.account",
          "ledger.read.account", "statements.download"}

(* Roles of the other class are ignored.                                   *)
ExpandRoles(class, held) ==
  IF class = "OPERATOR"
  THEN UNION {OperatorPermissions(r) : r \in held \cap OperatorRoles}
  ELSE UNION {AgencyPermissions(r) : r \in held \cap AgencyRoles}

ImpersonationDeny == {"ledger.read.account", "statements.download", "reseller.profile.read"}

(* What an operator may do under an impersonation grant, whatever roles    *)
(* the operator holds.                                                     *)
ImpersonatedPermissions ==
  ((ExpandRoles("AGENCY", {"account_admin"}) \cap ReadPermissions) \ ImpersonationDeny)
    \cup {"impersonate.agency_account"}

(* Mutant of ResolvePermissions: the permissions of the impersonated admin *)
(* are added to the operator's own.                                        *)
ResolveBothPermissions(auth, held, member, none) ==
  IF auth.impersonating
  THEN ImpersonatedPermissions \cup ExpandRoles("OPERATOR", held)
  ELSE IF auth.class = "AGENCY" /\ (auth.account = none \/ auth.account # member) THEN {}
  ELSE ExpandRoles(auth.class, held)

(* auth: the AuthContext the JWT guard attached, with the account it       *)
(* claims.  held: the caller's active roles.  member: the account of the   *)
(* caller's active membership, or none.                                    *)
ResolvePermissions(auth, held, member, none) ==
  IF auth.impersonating THEN ImpersonatedPermissions
  ELSE IF auth.class = "AGENCY" /\ (auth.account = none \/ auth.account # member) THEN {}
  ELSE ExpandRoles(auth.class, held)

(* RolesGuard: a handler that requires nothing is refused too.             *)
Granted(auth, held, member, none, required) ==
  required # {} /\ required \subseteq ResolvePermissions(auth, held, member, none)
=============================================================================
