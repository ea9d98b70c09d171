------------------------------ MODULE MCLobby ------------------------------
(* Instance of Lobby for TLC: two requests at once, with two tags that may  *)
(* come in either order.                                                    *)
EXTENDS Lobby, TLC

CONSTANTS t1, t2

MCTagLists == {<<>>, <<t1, t2>>, <<t2, t1>>}
Symmetry   == Permutations(Requests) \cup Permutations(Nicknames) \cup Permutations(Tags)

=============================================================================
