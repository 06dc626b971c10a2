------------------------- MODULE MCRulesController -------------------------
(* A small instance of RulesController for TLC.                            *)
EXTENDS RulesController

MCNames == {"r1", "r2"}
MCOrder == <<"r1", "r2">>
MCPriorities == {0, 5}
=============================================================================
