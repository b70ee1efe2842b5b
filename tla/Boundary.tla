------------------------------ MODULE Boundary ------------------------------
(***************************************************************************)
(* What decides whether a process starts and what it lets in: the boot     *)
(* checks of src/src/runtime/plane.rs and src/src/runtime_config.rs, the   *)
(* token checks of src/src/runtime/authz.rs and the routing of surface.rs. *)
(*                                                                         *)
(* An environment is a record of variables.  "" stands for an unset or a   *)
(* blank one, which every reader of the code treats alike; an issuer is a  *)
(* pair of what it names and its trailing slashes; an allow-list is the    *)
(* sequence of its entries.  A value the source types as Option is a set   *)
(* of at most one element.                                                 *)
(***************************************************************************)
EXTENDS Integers, SequencesExt

CONSTANTS
  MAX_FRAME_BYTES,
  MAX_BEARER,      \* longest bearer token
  Decimal          \* what the numeric values of the environment read as

ASSUME BoundaryAssumption == MAX_FRAME_BYTES \in Nat \ {0} /\ MAX_BEARER \in Nat \ {0}

(* A chain of early returns: the error of the first check that fails.     *)
Check(fails, error) == [fails |-> fails, error |-> error]
First(checks) ==
  LET failed == {i \in DOMAIN checks : checks[i].fails}
  IN  IF failed = {} THEN "" ELSE checks[Min(failed)].error

---------------------------------------------------------------------------
(* runtime_config.rs *)
parse(name) ==
  CASE name \in {"", "staging", "stage"} -> "Staging"
    [] name \in {"dev", "development"} -> "Dev"
    [] name \in {"prod", "production"} -> "Prod"
    [] OTHER -> "Invalid"

flag_bool(raw) == raw \in {"1", "true", "yes", "on"}

Unreadable(raw, range) == raw # "" /\ (raw \in DOMAIN Decimal => Decimal[raw] \notin range)

check_environment_policy(env) ==
  IF parse(env.environment) # "Prod" THEN <<>>
  ELSE <<Check(env.shared_auth_base = "", "AuthBaseMissing"),
         Check(env.shared_auth_audience = "", "AuthAudienceMissing"),
         Check(env.shared_auth_introspect_secret = "", "AuthSecretMissing")>>

from_lookup(env) ==
  First(<<Check(parse(env.environment) = "Invalid", "Environment"),
          Check(env.database_url = "", "DatabaseMissing"),
          Check(env.database_url \notin {"postgres://", "postgresql://"}, "DatabaseScheme"),
          Check(Unreadable(env.database_max_connections, Nat), "Connections"),
          Check(Unreadable(env.request_timeout, Nat), "Timeout"),
          Check(Unreadable(env.trusted_proxy_hops, 0 .. 255), "Hops"),
          Check(env.ws_path \notin {"", "/"}, "Path"),
          Check(Unreadable(env.ws_max_frame_bytes, 1 .. MAX_FRAME_BYTES), "FrameBytes"),
          Check(/\ flag_bool(env.locks_fiducia_enabled)
                /\ env.fiducia_base = "" \/ env.fiducia_api_key = "", "Fiducia")>>
        \o check_environment_policy(env))

lock_policy(env) ==
  [fiducia_enabled |-> flag_bool(env.locks_fiducia_enabled),
   pg_advisory_enabled |-> flag_bool(env.locks_pg_advisory_enabled),
   require_fencing |-> flag_bool(env.locks_require_fencing)]

---------------------------------------------------------------------------
(* plane.rs *)
Unset == <<"", "">>
normalize_issuer(issuer) == issuer[1]

parse_allowlist(entries) == ToSet(entries) \ {""}

check_admin_bind(env) ==
  ~flag_bool(env.allow_public_bind) /\ env.bind \notin {"localhost", "::1", "127."}

IssuersIdentical(env) ==
  /\ env.issuer # Unset /\ env.admin_issuer # Unset
  /\ normalize_issuer(env.issuer) = normalize_issuer(env.admin_issuer)

validate(plane, env) ==
  First(<<Check(env.plane \notin {"", plane}, "PlaneMismatch"),
          Check(IssuersIdentical(env), "IssuersIdentical")>>
        \o IF plane = "admin"
           THEN <<Check(env.product_db # "" /\ env.admin_db = "", "AdminMissingAdminDatabase"),
                  Check(env.admin_issuer = Unset, "AdminIssuerMissing"),
                  Check(parse_allowlist(env.allowlist) = {}, "AdminAllowlistEmpty")>>
           ELSE <<Check(env.admin_db # "" \/ env.admin_rds # "", "ProductSawAdminDatabase")>>)

PlaneConfig(plane, env) ==
  [issuer |-> IF plane = "admin" THEN env.admin_issuer ELSE env.issuer,
   database |-> CASE plane = "product" -> env.product_db
                  [] plane = "admin" -> IF env.admin_db # "" THEN env.admin_db ELSE env.admin_rds,
   allowlist |-> IF plane = "admin" THEN parse_allowlist(env.allowlist) ELSE {},
   locks |-> lock_policy(env)]

---------------------------------------------------------------------------
(* authz.rs *)
realm(audience) == IF audience \in {"web", "api"} THEN "customer" ELSE "admin"

bearer(token) == Check(token.size \notin 1 .. MAX_BEARER, "MissingBearer")

LeewayAgainst(expires_at, now, leeway) == now + leeway >= expires_at  \* mutant: the skew added
Expired(expires_at, now, leeway) == now - leeway >= expires_at

AnyRealm(token, wanted) == FALSE      \* mutant: the realm is not looked at
WrongRealm(token, wanted) == token.realm # realm(wanted.audience)

Assurance(token) == IF token.assurance_level = {} THEN 1 ELSE Max(token.assurance_level)

valid_subject(subject) == subject \notin {"", "not valid"}

project(token, wanted, now) ==
  First(<<Check(~token.active, "Inactive"),
          Check(\/ normalize_issuer(wanted.issuer) = ""
                \/ normalize_issuer(token.issuer) # normalize_issuer(wanted.issuer), "Issuer"),
          Check(wanted.audience \notin token.audiences, "Audience"),
          Check(WrongRealm(token, wanted), "Realm"),
          Check(\E t \in token.expires_at : Expired(t, now, wanted.leeway), "Expired"),
          Check(\E t \in token.not_before : now + wanted.leeway < t, "NotYetValid"),
          Check(Assurance(token) < wanted.min_assurance_level, "InsufficientAssurance"),
          Check(token.subject = {}, "MissingSubject"),
          Check(~ \A s \in token.subject : valid_subject(s), "InvalidSubject"),
          Check(~(wanted.required_scopes \subseteq token.scopes), "MissingScope")>>)

is_allowlisted(token, allowlist) == token.realm = "admin" /\ token.subject \subseteq allowlist

---------------------------------------------------------------------------
(* surface.rs.  A host is a sequence of labels in front of the apex.      *)
Labels == [app |-> "App", user |-> "User", org |-> "Org", m |-> "Mobile", mobile |-> "Mobile",
           api |-> "Api", auth |-> "Auth", admin |-> "Admin", admin_api |-> "AdminApi",
           api_admin |-> "AdminApi", www |-> "Marketing"]

label(surface) == CHOOSE name \in {"app", "user", "org", "m", "www"} : Labels[name] = surface

resolve(host) ==
  CASE host = <<>> -> "Marketing"
    [] Len(host) = 1 /\ host[1] \in DOMAIN Labels -> Labels[host[1]]
    [] OTHER -> "None"

is_admin(surface) == surface \in {"Admin", "AdminApi"}
allows_anonymous_landing(surface) == surface \in {"User", "Org", "Marketing", "Mobile"}

BackToShell(surface) == IF surface = "Org" THEN "Org" ELSE "App"  \* mutant: `_ => Surface::App`
login_surface(surface) == IF surface \in {"Org", "Mobile"} THEN surface ELSE "User"

NotFound == [kind |-> "NotFound"]
dispose(host, authenticated) ==
  LET surface == resolve(host)
  IN  CASE surface \in {"None", "Api", "Auth"} \/ is_admin(surface) -> NotFound
        [] OTHER -> IF authenticated \/ allows_anonymous_landing(surface)
                    THEN [kind |-> "Serve", surface |-> surface]
                    ELSE [kind |-> "RedirectToLogin", surface |-> login_surface(surface)]
===========================================================================
