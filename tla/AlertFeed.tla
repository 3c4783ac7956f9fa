----------------------------- MODULE AlertFeed -----------------------------
(***************************************************************************)
(* What one subscriber of the alert channel is promised: some of the       *)
(* published alerts, in the order of publication, none of them twice.      *)
(***************************************************************************)
EXTENDS Naturals, Sequences

CONSTANT Alerts        \* what can be published

VARIABLES
    published,         \* the alerts in the order Redis accepted them
    received           \* positions in published, in the order of arrival

feedVars == <<published, received>>

Newest == IF received = <<>> THEN 0 ELSE received[Len(received)]

Init == published = <<>> /\ received = <<>>

Publish ==
    /\ \E a \in Alerts : published' = Append(published, a)
    /\ UNCHANGED received

Deliver ==
    /\ \E k \in Newest + 1 .. Len(published) : received' = Append(received, k)
    /\ UNCHANGED published

Next == Publish \/ Deliver

Spec == Init /\ [][Next]_feedVars
=============================================================================
