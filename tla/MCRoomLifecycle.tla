-------------------------- MODULE MCRoomLifecycle --------------------------
EXTENDS RoomLifecycle, TLC

Symmetry == Permutations(Rooms \ {Default})
=============================================================================
