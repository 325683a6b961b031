------------------------------ MODULE MCDuelRoom ------------------------------
(* A small instance of DuelRoom for TLC: a game in which the guest moves     *)
(* twice in a row; either device may open a second room.                     *)
EXTENDS DuelRoom, TLC

CONSTANTS host_device, friend

TwoRooms == host_device :> 2 @@ friend :> 2
HostThenGuestTwice == <<0, 1, 1>>
=============================================================================
