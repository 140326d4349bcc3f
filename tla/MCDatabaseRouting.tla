------------------------- MODULE MCDatabaseRouting -------------------------
(* A configuration with two databases: the first has one master and two    *)
(* slaves, the second two masters and no slave.  dao2 is listed under the  *)
(* second database, dao1 nowhere.                                          *)
EXTENDS DatabaseRouting, TLC

CONSTANTS first, second, dao1, dao2

TwoDatabases == <<first, second>>
TheDaos    == first :> {} @@ second :> {dao2}
TheMasters == first :> 1 @@ second :> 2
TheSlaves  == first :> 2 @@ second :> 0
=============================================================================
