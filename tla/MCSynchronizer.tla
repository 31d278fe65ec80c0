--------------------------- MODULE MCSynchronizer ---------------------------
(* Small instances of Synchronizer for TLC.                                  *)
EXTENDS Synchronizer

\* s1 is an ordinary subscription, s2 one that may take over objects.
MCSubs == {"s1", "s2"}
MCOne == {"s1"}
MCResources == {"r1", "r2"}
MCOption == [s \in Subs |-> IF s = "s1" THEN "backoff" ELSE "own"]
\* The deny list of s1 has r2.
MCDenied == {<<"s1", "r2">>}
=============================================================================
