----------------------------- MODULE MCLogPath -----------------------------
(* Three jobs: the sequence counter ends before the log does, the offset   *)
(* counter does, and the last record is too large for the buffer.          *)
EXTENDS LogPath

MCJobs ==
  {[ends |-> <<2, 5, 5>>, max_sequence |-> 2, max_offset |-> 9],
   [ends |-> <<2, 2, 5>>, max_sequence |-> 9, max_offset |-> 4],
   [ends |-> <<3, 5, 6, 11>>, max_sequence |-> 9, max_offset |-> 99]}
===========================================================================
