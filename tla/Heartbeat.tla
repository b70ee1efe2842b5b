----------------------------- MODULE Heartbeat -----------------------------
(***************************************************************************)
(* The liveness machine of src/src/runtime/session.rs:581-655, one end     *)
(* watching its peer.  The clock, the timer that calls poll and the peer   *)
(* are external: the timer fires at least every PollEvery seconds, a peer  *)
(* that answers does so within RoundTrip seconds and may fall silent for   *)
(* ever at any moment (a half-open connection), and the network may        *)
(* deliver a pong again at any later time.                                 *)
(***************************************************************************)
EXTENDS Naturals

CONSTANTS
  Interval,   \* interval_seconds
  MaxMissed,  \* max_missed
  PollEvery,
  RoundTrip,
  MaxNow      \* bound on time

ASSUME HeartbeatAssumption ==
  /\ Interval \in Nat /\ MaxMissed \in Nat /\ MaxNow \in Nat
  /\ PollEvery \in Nat \ {0}
  /\ RoundTrip \in Nat /\ RoundTrip < Interval

VARIABLES
  now, last_poll,
  last_seen, outstanding, missed, next_nonce,  \* the fields of Heartbeat; 0: no nonce
  dead,      \* poll answered Dead, the caller closed the session
  alive,     \* the peer still answers
  asked,     \* pings the peer has not answered: [nonce, sent]
  answered,  \* nonces of pongs that arrived, which may arrive again
  heard      \* history: when the peer was last really heard

watching == <<now, last_poll, last_seen, outstanding, missed, next_nonce, dead, alive, asked,
              answered, heard>>

Tolerated == IF MaxMissed = 0 THEN 1 ELSE MaxMissed   \* pings that may stay unanswered

Pings == [nonce : 1 .. MaxNow + 1, sent : 0 .. MaxNow]

HeartbeatTypeOK ==
  /\ now \in 0 .. MaxNow /\ last_poll \in 0 .. now
  /\ last_seen \in 0 .. now /\ heard \in 0 .. now
  /\ outstanding \in 0 .. next_nonce - 1
  /\ missed \in 0 .. Tolerated
  /\ next_nonce \in 1 .. now + 1     \* pings are at least a second apart
  /\ dead \in BOOLEAN /\ alive \in BOOLEAN
  /\ asked \subseteq Pings /\ answered \subseteq 1 .. next_nonce - 1

HeartbeatInit ==   \* Heartbeat::new(interval, max_missed, now)
  /\ now = 0 /\ last_poll = 0
  /\ last_seen = 0 /\ outstanding = 0 /\ missed = 0 /\ next_nonce = 1
  /\ dead = FALSE /\ alive = TRUE
  /\ asked = {} /\ answered = {} /\ heard = 0

---------------------------------------------------------------------------
Cleared == 0

SawTraffic ==
  /\ last_seen' = now
  /\ missed' = 0
  /\ outstanding' = Cleared

AnyNonce(nonce) == TRUE       \* mutant: a pong refreshes whatever its nonce
IsOutstanding(nonce) == outstanding = nonce

SawPong(nonce) ==
  IF IsOutstanding(nonce) THEN SawTraffic ELSE UNCHANGED <<last_seen, missed, outstanding>>

PingsEarly == now - last_seen >= Interval - 1    \* mutant: `<=` for `<`, the other way round
IntervalPassed == now - last_seen >= Interval

Poll ==
  LET misses == IF outstanding # 0 THEN missed + 1 ELSE missed
  IN /\ ~dead
     /\ last_poll' = now
     /\ \/ /\ ~IntervalPassed
           /\ UNCHANGED <<last_seen, outstanding, missed, next_nonce, dead, asked>>
        \/ /\ IntervalPassed /\ outstanding # 0 /\ misses >= MaxMissed
           /\ dead' = TRUE
           /\ missed' = misses
           /\ UNCHANGED <<last_seen, outstanding, next_nonce, asked>>
        \/ /\ IntervalPassed /\ ~(outstanding # 0 /\ misses >= MaxMissed)
           /\ missed' = misses
           /\ outstanding' = next_nonce
           /\ next_nonce' = next_nonce + 1
           /\ last_seen' = now
           /\ asked' = asked \cup {[nonce |-> next_nonce, sent |-> now]}
           /\ UNCHANGED dead
     /\ UNCHANGED <<now, alive, answered, heard>>

---------------------------------------------------------------------------
(* Any other frame of the peer. *)
Traffic ==
  /\ alive /\ ~dead
  /\ SawTraffic
  /\ heard' = now
  /\ UNCHANGED <<now, last_poll, next_nonce, dead, alive, asked, answered>>

Pong(ping) ==
  /\ ~dead
  /\ SawPong(ping.nonce)
  /\ asked' = asked \ {ping}
  /\ answered' = answered \cup {ping.nonce}
  /\ heard' = now
  /\ UNCHANGED <<now, last_poll, next_nonce, dead, alive>>

ReplayedPong(nonce) ==
  /\ ~dead
  /\ SawPong(nonce)
  /\ UNCHANGED <<now, last_poll, next_nonce, dead, alive, asked, answered, heard>>

(* The peer falls silent; nothing it has not sent yet arrives. *)
FallSilent ==
  /\ alive
  /\ alive' = FALSE
  /\ asked' = {}
  /\ UNCHANGED <<now, last_poll, last_seen, outstanding, missed, next_nonce, dead, answered, heard>>

Tick ==
  /\ now < MaxNow /\ ~dead
  /\ now < last_poll + PollEvery
  /\ alive => \A ping \in asked : now < ping.sent + RoundTrip
  /\ now' = now + 1
  /\ UNCHANGED <<last_poll, last_seen, outstanding, missed, next_nonce, dead, alive, asked,
                 answered, heard>>

Over == (dead \/ now = MaxNow) /\ UNCHANGED watching

HeartbeatNext ==
  \/ Poll \/ Traffic \/ FallSilent \/ Tick \/ Over
  \/ \E ping \in asked : alive /\ Pong(ping)
  \/ \E nonce \in answered : ReplayedPong(nonce)

HeartbeatSpec == HeartbeatInit /\ [][HeartbeatNext]_watching

---------------------------------------------------------------------------
(* A peer that answers within the interval is never given up on. *)
NoFalseDeath == alive => ~dead

(* "Detected rather than waited on" (line 24): however often old pongs are *)
(* replayed, a silent peer is given up on after max_missed intervals and   *)
(* one, each of them at most a polling period late.                        *)
Patience == (Tolerated + 1) * (Interval + PollEvery - 1)

DeadInTime == ~dead => now - heard <= Patience
===========================================================================
