--------------------------- MODULE MCGitSubscriber ---------------------------
(* Small instances of GitSubscriber for TLC.                                 *)
EXTENDS GitSubscriber

\* r1 is a plain manifest, r2 comes from a kustomization, r3 from a chart.
MCResources == {"r1", "r2", "r3"}
MCKind == [r \in MCResources |-> CASE r = "r1" -> "file"
                                   [] r = "r2" -> "kustomize"
                                   [] OTHER -> "chart"]
MCCommits == 1..2

\* The second commit drops a manifest.
MCContent == [c \in MCCommits |-> IF c = 1 THEN MCResources ELSE {"r2", "r3"}]
MCNoChart == [c \in MCCommits |-> IF c = 1 THEN {"r1", "r2"} ELSE {"r2"}]

CR(rate, webhook, paused, target, sync) ==
    [rate |-> rate, webhook |-> webhook, paused |-> paused,
     target |-> target, sync |-> sync]

\* Polling at a rate, switched off, paused, pinned, and manually synced.
MCPolling == {CR("medium", FALSE, FALSE, 0, 0), CR("off", FALSE, FALSE, 0, 0),
              CR("high", FALSE, FALSE, 1, 0), CR("medium", FALSE, TRUE, 0, 0),
              CR("medium", FALSE, FALSE, 0, 1)}
MCMedium  == {CR("medium", FALSE, FALSE, 0, 0), CR("high", FALSE, FALSE, 0, 0)}
\* The same, with a webhook that is enabled on the channel and disabled again.
MCWebhook == MCPolling \cup {CR("medium", TRUE, FALSE, 0, 0)}
=============================================================================
