----------------------------- MODULE MCSession -----------------------------
(* The instance of Session for TLC.                                        *)
EXTENDS Session

TwoNames == [k \in Console |-> IF k = "A" THEN "ANNE" ELSE "BOB"]
=============================================================================
