---------------------------- MODULE MCConnection ----------------------------
(***************************************************************************)
(* What one end of a connection keeps: the decoder of the byte stream and  *)
(* the machine that watches over the peer.  They share no state, so one    *)
(* moves while the other is at its beginning.                              *)
(***************************************************************************)
EXTENDS FrameCodec, Heartbeat

ConnectionInit == Init /\ HeartbeatInit

ConnectionNext ==
  \/ HeartbeatInit /\ Next /\ UNCHANGED watching
  \/ Init /\ HeartbeatNext /\ UNCHANGED vars

ConnectionSpec == ConnectionInit /\ [][ConnectionNext]_<<vars, watching>>

(* The empty payload, one that looks like the header of a payload, an      *)
(* unreadable one, and one that is a byte too long, whose length takes two *)
(* digits.                                                                 *)
MCPayloads == {<<>>, <<3>>, <<0, 1>>, <<Bad>>, <<1, 0, 3, 1, 1>>}
=============================================================================
