--------------------------- MODULE MCServerReload ---------------------------
(* Values for TLC: a radar and a nowcast derived from it. *)
EXTENDS ServerReload

TheSource == [c \in Collections |-> IF c = "nowcast" THEN "radar" ELSE None]

Both      == [c \in Collections |-> 1]
Changed   == [c \in Collections |-> IF c = "radar" THEN 2 ELSE 1]
RadarOnly == [c \in Collections |-> IF c = "radar" THEN 1 ELSE 0]
TheConfigs == {RadarOnly, Both, Changed}
=============================================================================
