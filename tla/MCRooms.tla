------------------------------- MODULE MCRooms -------------------------------
(* Two devices that play in broadcasts, or share a session.                *)
EXTENDS Rooms

CONSTANTS d1, d2, c1

MCDevices == {d1, d2}
MCContexts == {c1}
MCPlayers == {d1}
MCGroups == {{d1, d2}}
MCSyncs == {<<0, 0>>, <<1, 0>>}
=============================================================================
