----------------------------- MODULE AdminPlane -----------------------------
(***************************************************************************)
(* The admin ORM as its services use it: a process connects a read or a    *)
(* write context (src/admin-orm/src/lib.rs:26-86, 140-161, 221-238,        *)
(* 376-450), asks has_permission for each command and records it with      *)
(* record_action, the actions of AdminActions.  The services, which ask    *)
(* before they record, the operators and the database are external.        *)
(***************************************************************************)
EXTENDS AdminActions, SequencesExt

CONSTANTS
  Configs,       \* AdminDatabaseConfig values an operator may deploy
  Identifiers,   \* names of 1 to 63 letters, digits and underscores
  Sessions,      \* what a session of the database says of its role and mode
  Principals,    \* admin_principals: subject -> permissions
  Actor,         \* payload -> its actor_subject
  Nobody,
  MaxSuspended   \* bound on suspensions

VARIABLES
  context,       \* the kind of context the process holds, or Nobody
  suspended,     \* principals whose status is not 'active'
  cleared,       \* per caller: the subject has_permission said yes to
  early          \* history: callers cleared before the last suspension of their subject

planeVars == <<vars, context, suspended, cleared, early>>

PlaneInit ==
  /\ Init
  /\ context = Nobody /\ suspended = {} /\ early = {}
  /\ cleared = [c \in Callers |-> Nobody]

---------------------------------------------------------------------------
(* The query of a URL is a sequence of <<name, value>>.  What a driver     *)
(* makes of the other parameters, validate does not look at.               *)
Verified(url) == SelectSeq(url.query, LAMBDA pair : pair[1] = "sslmode") = <<<<"sslmode", "verify-full">>>>

valid_identifier(name) == name \in Identifiers

validate(config) ==
  LET url == config.database_url IN
  /\ url.scheme \in {"postgres", "postgresql"}
  /\ url.host = config.expected_host /\ url.username = config.expected_role
  /\ ~url.fragment
  /\ valid_identifier(config.expected_database) /\ valid_identifier(config.expected_role)
  /\ url.path = <<config.expected_database>>
  /\ Verified(url)

UnsafeRole == {"rolsuper", "rolcreaterole", "rolcreatedb", "rolreplication", "rolbypassrls",
               "can_create_schemas", "can_create_schema_objects"}

ASSUME PlaneAssumption ==
  /\ Nobody \notin DOMAIN Principals
  /\ \A session \in Sessions : session.attributes \subseteq UnsafeRole

validate_runtime_role(session, config) ==
  /\ session.role = config.expected_role /\ session.database = config.expected_database
  /\ session.attributes \cap UnsafeRole = {}

(* Any other answer than the one the context is for is an error.           *)
transaction_read_only(session, mode) == session.transaction_read_only = mode

(* Role and mode are asked once, each of whichever session the pool gives. *)
(* The context keeps neither, and other sessions of it may differ.         *)
Connect(kind, config, session) ==
  /\ context = Nobody
  /\ validate(config) /\ validate_runtime_role(session, config)
  /\ context' = kind
  /\ UNCHANGED <<vars, suspended, cleared, early>>

(* AdminReadContext::connect and AdminWriteContext::connect. *)
ConnectRead(config, session, other) == transaction_read_only(other, "on") /\ Connect("read", config, session)
ConnectWrite(config, session, other) == transaction_read_only(other, "off") /\ Connect("write", config, session)

Unparenthesized(subject, permission) ==   \* mutant: AND binds before OR
  (subject \notin suspended /\ permission \in Principals[subject]) \/ "super_admin" \in Principals[subject]
has_permission(subject, permission) ==
  /\ subject \in DOMAIN Principals /\ subject \notin suspended
  /\ permission \in Principals[subject] \/ "super_admin" \in Principals[subject]

Ask(c, subject) ==
  /\ context # Nobody
  /\ step[c] = "idle" /\ cleared[c] = Nobody
  /\ has_permission(subject, "admin:write")
  /\ cleared' = [cleared EXCEPT ![c] = subject]
  /\ early' = early \ {c}
  /\ UNCHANGED <<vars, context, suspended>>

Suspend(subject) ==
  /\ subject \notin suspended /\ Cardinality(suspended) < MaxSuspended
  /\ suspended' = suspended \cup {subject}
  /\ early' = early \cup {c \in Callers : cleared[c] = subject}
  /\ UNCHANGED <<vars, context, cleared>>

(* A cleared command is recorded, and its caller asks again for the next. *)
Record(c, k, p) ==
  /\ context = "write"
  /\ cleared[c] = Actor[p]
  /\ Begin(c, k, p)
  /\ UNCHANGED <<context, suspended, cleared, early>>

Proceeds(c) ==
  /\ Executes(c) \/ Fail(c)
  /\ cleared' = IF step'[c] = "idle" THEN [cleared EXCEPT ![c] = Nobody] ELSE cleared
  /\ UNCHANGED <<context, suspended, early>>

PlaneNext ==
  \/ \E config \in Configs, session, other \in Sessions :
       ConnectRead(config, session, other) \/ ConnectWrite(config, session, other)
  \/ \E subject \in DOMAIN Principals : Suspend(subject) \/ \E c \in Callers : Ask(c, subject)
  \/ \E c \in Callers : Proceeds(c) \/ \E k \in Keys, p \in Payloads : Record(c, k, p)

Plane == PlaneInit /\ [][PlaneNext]_planeVars

(* A call whose caller keeps its connection is executed to the end. *)
FairPlane == Plane /\ \A c \in Callers : WF_planeVars(Proceeds(c) /\ Executes(c))

---------------------------------------------------------------------------
(* A suspended principal, super_admin or not, records nothing more than    *)
(* what its callers had been cleared for before (lines 464-466).           *)
SuspensionHolds ==
  [][\A k \in Keys : requests'[k] # requests[k] /\ Actor[requests'[k].payload] \in suspended =>
       \E c \in early : step[c] = "commit" /\ key[c] = k]_planeVars
===========================================================================
