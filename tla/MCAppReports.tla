---------------------------- MODULE MCAppReports ----------------------------
(* Small instances of AppReports. *)
EXTENDS AppReports, TLC

CONSTANTS a1, a2

MCDistinct == (a1 :> "l1") @@ (a2 :> "l2")
=============================================================================
