------------------------------ MODULE Service ------------------------------
(***************************************************************************)
(* A product and an admin process between their environments, the tokens   *)
(* presented to them and the organization of Tenancy, whose members act    *)
(* through the product process.  Servers, operators, browsers and clocks   *)
(* are external; the processes call the functions of Boundary as their     *)
(* documentation has it.                                                   *)
(*                                                                         *)
(* To keep instances small, environments are edited before anybody acts or *)
(* browses and the clock starts.  The clock starts once the environments   *)
(* are as deployed again, while processes keep what they booted with; the  *)
(* members and browsers move when no process runs on an edited environment.*)
(***************************************************************************)
EXTENDS Tenancy, Boundary

CONSTANTS
  Deployed,      \* plane -> the environment it was deployed with
  Slips,         \* variable -> what an operator may set it to
  Tokens,        \* introspection answers, by token
  Hosts,
  Leeway,        \* Requirements.leeway_seconds
  MaxTime        \* bound on the clock

ASSUME ServiceAssumption ==
  /\ Leeway \in Nat /\ MaxTime \in Nat
  /\ \A t \in Tokens : t.expires_at \cup t.not_before \subseteq Nat

Planes == {"product", "admin"}

VARIABLES
  env,           \* plane -> the environment of its next boot
  process,       \* plane -> its configuration, or Down
  now,
  screen         \* the last answer to an anonymous browser, and the redirects it followed

serviceVars == <<role, invited, purchased, sponsor, env, process, now, screen>>

Down == [issuer |-> Unset]
Blank == [answer |-> NotFound, followed |-> 0]

ServiceInit ==
  /\ Init
  /\ env = Deployed /\ process = [p \in Planes |-> Down]
  /\ now = 0 /\ screen = Blank

Idle == Init /\ screen = Blank /\ now = 0

(* An operator sets one variable of a plane, or puts it back. *)
Edit(plane, name, value) ==
  /\ Idle
  /\ env[plane][name] # Deployed[plane][name] \/ env[plane] = Deployed[plane]
  /\ env' = [env EXCEPT ![plane][name] = value]
  /\ UNCHANGED <<vars, process, now, screen>>

(* A process starts with the environment it finds, or exits.  *)
Boot(plane) ==
  LET refused == \/ from_lookup(env[plane]) # "" \/ validate(plane, env[plane]) # ""
                 \/ plane = "admin" /\ check_admin_bind(env[plane])
  IN  process' = [process EXCEPT ![plane] = IF refused THEN Down ELSE PlaneConfig(plane, env[plane])]
  /\ UNCHANGED <<vars, env, now, screen>>

Tick ==
  /\ now < MaxTime /\ env = Deployed
  /\ now' = now + 1
  /\ UNCHANGED <<vars, env, process, screen>>

Calm == env = Deployed /\ \A p \in Planes : process[p] \in {Down, PlaneConfig(p, Deployed[p])}

Requirements(plane) ==
  [issuer |-> process[plane].issuer, audience |-> IF plane = "admin" THEN "admin-api" ELSE "api",
   required_scopes |-> {}, min_assurance_level |-> IF plane = "admin" THEN 2 ELSE 1, leeway |-> Leeway]

Entitled(plane, token) ==
  /\ ~bearer(token).fails
  /\ project(token, Requirements(plane), now) = ""
  /\ plane = "admin" => is_allowlisted(token, process[plane].allowlist)

(* A member whose token the product process accepts asks for something.   *)
Act(person) ==
  /\ Calm /\ screen = Blank
  /\ \E t \in Tokens : t.subject = {person} /\ Entitled("product", t)
  /\ Asks(person)
  /\ UNCHANGED <<env, process, now, screen>>

Happen ==
  /\ Calm /\ screen = Blank
  /\ Befalls
  /\ UNCHANGED <<env, process, now, screen>>

(* Nobody is signed in: a person opens a host, or a redirect is followed.  *)
Open(host) ==
  /\ Calm /\ process["product"] # Down /\ Idle
  /\ screen' = [answer |-> dispose(host, FALSE), followed |-> 0]
  /\ UNCHANGED <<vars, env, process, now>>

Follow ==
  /\ screen.answer.kind = "RedirectToLogin"
  /\ screen' = [answer |-> dispose(<<label(screen.answer.surface)>>, FALSE),
                followed |-> screen.followed + 1]
  /\ UNCHANGED <<vars, env, process, now>>

ServiceNext ==
  \/ \E plane \in Planes :
       \/ \E name \in DOMAIN Slips : \E value \in Slips[name] \cup {Deployed[plane][name]} :
            Edit(plane, name, value)
       \/ Boot(plane)
  \/ Tick \/ Happen \/ Follow
  \/ \E person \in People : Act(person)
  \/ \E host \in Hosts : Open(host)

Serves == ServiceInit /\ [][ServiceNext]_serviceVars

---------------------------------------------------------------------------
(* "A perfectly valid customer token ... accepted by the admin API ... is  *)
(* the single failure that would matter most" (authz.rs lines 189-190):    *)
(* whatever single variable was set wrongly on each side, issuers of the   *)
(* two planes that coincide included, no token is good on both planes.     *)
PlanesApart ==
  \A t \in Tokens : ~(Entitled("product", t) /\ Entitled("admin", t))

(* "Tolerated clock skew when checking exp/nbf" (line 100): a token whose  *)
(* time it is is not refused for its age by a process whose clock is off   *)
(* by the leeway, and nobody accepts it once its time is over by twice it. *)
SkewTolerated ==
  \A t \in Tokens, plane \in Planes, skew \in -Leeway .. Leeway :
    LET verdict == project(t, Requirements(plane), now + skew)
        Timely == (\A e \in t.expires_at : now < e) /\ (\A b \in t.not_before : b <= now)
    IN  /\ Timely => verdict \notin {"Expired", "NotYetValid"}
        /\ (\E e \in t.expires_at : now >= e + 2 * Leeway) => verdict # ""

(* An anonymous request is "redirected to a login surface rather than      *)
(* rendered" (surface.rs lines 67-69): the redirect leads to a page that   *)
(* is served, never to another redirect.                                   *)
RedirectsLand == screen.followed > 0 => screen.answer.kind = "Serve"
===========================================================================
