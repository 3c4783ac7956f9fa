----------------------------- MODULE AnomalyLog -----------------------------
(***************************************************************************)
(* What the ingest path promises about anomalies, whatever fails: an       *)
(* anomaly is recorded once, announced at most once and only after it was  *)
(* recorded, and neither is ever taken back.                               *)
(***************************************************************************)
EXTENDS Naturals, Sequences

CONSTANT Anomalies

VARIABLES
    recorded,    \* the anomalies in the database
    announced    \* the anomalies sent to subscribers, in order

logVars == <<recorded, announced>>

Announced(a) == \E k \in 1 .. Len(announced) : announced[k] = a

Init == recorded = {} /\ announced = <<>>

Record(a) ==
    /\ a \notin recorded
    /\ recorded' = recorded \cup {a}
    /\ UNCHANGED announced

Announce(a) ==
    /\ a \in recorded
    /\ ~Announced(a)
    /\ announced' = Append(announced, a)
    /\ UNCHANGED recorded

Next == \E a \in Anomalies : Record(a) \/ Announce(a)

Spec == Init /\ [][Next]_logVars

-----------------------------------------------------------------------------
\* What follows for whoever reads the database and the announcements: each
\* announcement is about a recorded anomaly, and no two are about the same.
Promise ==
    /\ \A k \in 1 .. Len(announced) : announced[k] \in recorded
    /\ \A j, k \in 1 .. Len(announced) : announced[j] = announced[k] => j = k

\* Nothing is taken back: a record stays, an announcement keeps its place.
Kept ==
    /\ recorded \subseteq recorded'
    /\ Len(announced) <= Len(announced')
    /\ \A k \in 1 .. Len(announced) : announced'[k] = announced[k]
=============================================================================
