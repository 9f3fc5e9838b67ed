----------------------------- MODULE SoleLeader -----------------------------
(* What a background loop asks of its election, whatever runs it: one      *)
(* bidder at a time leads, only while it bids, and nobody takes over from  *)
(* a leader that has not gone.                                             *)
CONSTANTS
    Bidder,
    NoLeader   \* no member of Bidder

VARIABLES bidding, leader

vars == <<bidding, leader>>

Init == bidding = {} /\ leader = NoLeader

Enter(b) ==
    /\ b \notin bidding
    /\ bidding' = bidding \cup {b}
    /\ UNCHANGED leader

Elect(b) ==
    /\ b \in bidding
    /\ leader = NoLeader
    /\ leader' = b
    /\ UNCHANGED bidding

(* The loop ended; its bidder may bid again.                               *)
Depart(b) ==
    /\ leader = b
    /\ leader' = NoLeader
    /\ UNCHANGED bidding

(* A bidder that leaves takes its loop with it, and no one else's.         *)
Leave(b) ==
    /\ b \in bidding
    /\ bidding' = bidding \ {b}
    /\ leader' = IF leader = b THEN NoLeader ELSE leader

Next == \E b \in Bidder : Enter(b) \/ Elect(b) \/ Depart(b) \/ Leave(b)

Spec == Init /\ [][Next]_vars
=============================================================================
