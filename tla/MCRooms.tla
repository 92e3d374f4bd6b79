-------------------------------- MODULE MCRooms --------------------------------
(* Instances of Rooms for TLC.                                             *)
EXTENDS Rooms, TLC

Symmetry == Permutations(Conns) \cup Permutations(Guests) \cup Permutations(Invites)
=============================================================================
