--------------------------- MODULE AlertLifecycle ---------------------------
(***************************************************************************)
(* What members are promised of one circle alert: it waits, then it is shown *)
(* in their inbox, once, or is suppressed because they no longer want it.    *)
(***************************************************************************)
VARIABLE alert

States == {"NONE", "WAITING", "SHOWN", "SUPPRESSED"}

Init == alert = "NONE"
Announce == alert = "NONE" /\ alert' = "WAITING"
Settle == alert = "WAITING" /\ alert' \in {"SHOWN", "SUPPRESSED"}
Next == Announce \/ Settle
Spec == Init /\ [][Next]_alert
=============================================================================
