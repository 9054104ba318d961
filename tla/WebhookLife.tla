---------------------------- MODULE WebhookLife ----------------------------
(***************************************************************************)
(* What the dashboard's API promises about a customer's webhooks.          *)
(*                                                                         *)
(* A webhook is shown as active only while blocks are delivered to it, and *)
(* delivery ends only after it was removed, but then it does end.  How a   *)
(* request is carried out, which of its steps fail and who else is at work *)
(* is left out: WebhookApi implements this.                                *)
(***************************************************************************)
CONSTANT Hook

VARIABLES
    row,        \* "absent", "inactive", "active" or "removed", by webhook
    delivered   \* webhooks that have a job, which sends them blocks

life == <<row, delivered>>

Present(h) == row[h] \in {"inactive", "active"}

Init ==
    /\ row \in [Hook -> {"absent", "inactive", "active"}]
    /\ delivered \subseteq { h \in Hook : Present(h) }
    /\ \A h \in Hook : row[h] = "active" => h \in delivered

Create(h) ==
    /\ row[h] = "absent"
    /\ row' = [row EXCEPT ![h] = "inactive"]
    /\ UNCHANGED delivered

\* Delivery begins before the webhook is shown as active.  A request that is
\* under way may still begin it for a webhook that was removed.
Deliver(H) ==
    /\ \A h \in H : row[h] # "absent"
    /\ delivered' = delivered \cup H
    /\ UNCHANGED row

Show(H) ==
    /\ H \subseteq delivered
    /\ row' = [h \in Hook |-> IF h \in H /\ Present(h) THEN "active" ELSE row[h]]
    /\ UNCHANGED delivered

Remove(H) ==
    /\ row' = [h \in Hook |-> IF h \in H /\ Present(h) THEN "removed" ELSE row[h]]
    /\ UNCHANGED delivered

Release(h) ==
    /\ row[h] = "removed" /\ h \in delivered
    /\ delivered' = delivered \ {h}
    /\ UNCHANGED row

Next == \/ \E h \in Hook : Create(h) \/ Release(h)
        \/ \E H \in SUBSET Hook : Deliver(H) \/ Show(H) \/ Remove(H)

Spec     == Init /\ [][Next]_life
FairSpec == Spec /\ \A h \in Hook : WF_life(Release(h))
=============================================================================
