---------------------------- MODULE MCConnections ---------------------------
(* Instances of Connections for TLC: a host and a player with one socket or  *)
(* with two.                                                                 *)
EXTENDS Connections, TLC

CONSTANTS s1, s2, s3, p1

MCShared == s1 :> p1 @@ s2 :> p1 @@ s3 :> Host
MCSingle == s1 :> p1 @@ s3 :> Host
\* Who was told of the end, and what a ROOM_STATE showed, are read by no guard and, their
\* types aside, by no property of the safety run.
Relevant == <<socket, manager, connected, version, unsent, heard, lost, failed>>

MCAll    == {"database", "redis", "crash"}

=============================================================================
