-------------------------- MODULE MCHubPropagation --------------------------
(* Small instances of HubPropagation. *)
EXTENDS HubPropagation, TLC

CONSTANTS s1, s2, c1, c2

Ask(p, src) == [place |-> p, source |-> src]
MCAsks == {Ask("remote", "some"), Ask("remote", "skip"), Ask("remote", "empty"),
           Ask("local", "some"), Ask("both", "some")}
MCTwo == {Ask("remote", "some"), Ask("local", "some")}

MCDistinct == (s1 :> "l1") @@ (s2 :> "l2")
MCCut == (s1 :> "l1") @@ (s2 :> "l1")
=============================================================================
