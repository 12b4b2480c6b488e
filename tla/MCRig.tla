------------------------------- MODULE MCRig -------------------------------
(* The instance of Rig for TLC: the connections of all scripts, and the    *)
(* names on_hello admits among those they give.                            *)
EXTENDS Rig

Connections ==
  {"ALICE", "BOB", "CAROL", "DAVE", "OLDGUY", "EVE", "FRANK", "GRACE", "HEIDI", "BADLEN",
   "BADLEN2", "IP0", "IP1", "IP2", "IP3", "IP4", "IP5", "probe", "GUESTA", "GUESTC",
   "P1AA", "P2BB", "PZZZ", "IDLE00", "IDLE01", "MATCHA", "MATCHB"}
Names == Connections \cup {"CAROL2"}
=============================================================================
