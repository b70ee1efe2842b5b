------------------------------ MODULE LogPath ------------------------------
(***************************************************************************)
(* The way of a build log from the worker to whoever follows it: BuildLog  *)
(* ingests the records into the table, LogReplay serves a client from it.  *)
(* The two run in different processes and meet in the rows only: the n-th  *)
(* row ingested is chunk n - 1 of the replay.                              *)
(***************************************************************************)
EXTENDS BuildLog

CONSTANTS Limit, Kept, None, MaxBreaks   \* see LogReplay

ASSUME ReplayAssumption ==
  /\ Limit \in Nat \ {0} /\ {Kept, MaxBreaks} \subseteq Nat
  /\ None \notin Nat

VARIABLES earliest, connected, breaks, answer, streamed, toClient, last_seen, got, lost

Viewer == INSTANCE LogReplay WITH produced <- Len(stored)

viewer == <<earliest, connected, breaks, answer, streamed, toClient, last_seen, got, lost>>

PathInit == Init /\ Viewer!Init

PathNext ==
  \/ Next /\ UNCHANGED viewer
  \/ UNCHANGED vars /\ Viewer!Next

Path == PathInit /\ [][PathNext]_<<vars, viewer>>

FairPath == Path /\ Fairness /\ Viewer!Fairness

---------------------------------------------------------------------------
(* What the client shows is the log the job wrote, through duplicates,     *)
(* reordering, an ingester's crash, a broken connection and rows that are  *)
(* deleted while they are read: each chunk up to the last one seen was     *)
(* taken once and in order, at its place in the job's output, or the       *)
(* client was told that it is gone.                                        *)
ReplayIsExact ==
  /\ Viewer!ReplayIsExact
  /\ \A i \in 1 .. Len(got) : stored[got[i] + 1] = Record(got[i])

(* A chunk is given up only when it is deleted. *)
LostIsDeleted == Viewer!LostIsDeleted

(* Every record of the job, up to the first one that is oversized or would *)
(* make a counter overflow, reaches the client or is announced as gone.    *)
ReachesTheViewer == <>(\A n \in Storable : n <= Viewer!Expected)
===========================================================================
