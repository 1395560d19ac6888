---------------------------- MODULE DayDecision ----------------------------
(***************************************************************************)
(* What the approval mode promises about a trading day: candidates are     *)
(* offered, the user approves one that was offered or rejects the day, and *)
(* the decision is final.  Offers may go on after it and change nothing.   *)
(* The promise holds for as long as the mode stays on ("gated").           *)
(***************************************************************************)
CONSTANT Symbols
VARIABLES decision,   \* "open" until the user has decided
          choice,     \* the approved symbol, or "none"
          offered,    \* symbols offered so far
          gated       \* approval mode has been on since the day began

vars == <<decision, choice, offered, gated>>
Decisions == {"open", "approved", "rejected"}

Init == decision = "open" /\ choice = "none" /\ offered = {} /\ gated \in BOOLEAN

Offer ==
    /\ \E c \in SUBSET Symbols : offered' = offered \cup c
    /\ UNCHANGED <<decision, choice, gated>>

Approve ==
    /\ decision = "open" /\ decision' = "approved"
    /\ choice' \in offered
    /\ UNCHANGED <<offered, gated>>

Reject ==
    /\ decision = "open" /\ decision' = "rejected"
    /\ UNCHANGED <<choice, offered, gated>>

LeaveApproval == gated' = FALSE /\ UNCHANGED <<decision, choice, offered>>

Ungated ==
    /\ ~gated /\ ~gated'
    /\ decision' \in Decisions /\ choice' \in Symbols \cup {"none"}
    /\ offered' \subseteq Symbols

Next == Offer \/ Approve \/ Reject \/ LeaveApproval \/ Ungated
Spec == Init /\ [][Next]_vars
=============================================================================
