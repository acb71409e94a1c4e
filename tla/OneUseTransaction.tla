------------------------- MODULE OneUseTransaction -------------------------
(***************************************************************************)
(* What a plan promises, without documents, locks, processes or crashes:    *)
(* an authority that is open until it is withdrawn or spent, one request    *)
(* that only a spent authority may send, and a verdict that is given once   *)
(* and is positive only if the request took effect.                         *)
(***************************************************************************)
EXTENDS Naturals

VARIABLES authority,  \* "open", "withdrawn" or "spent"
          sent,       \* requests sent on this authority
          effect,     \* the request took effect
          verdict     \* "none", "verified" or "failed"

tvars == <<authority, sent, effect, verdict>>

Init == authority = "open" /\ sent = 0 /\ effect = FALSE /\ verdict = "none"

Withdraw ==
    /\ authority = "open" /\ authority' = "withdrawn"
    /\ UNCHANGED <<sent, effect, verdict>>

Spend ==
    /\ authority = "open" /\ authority' = "spent"
    /\ UNCHANGED <<sent, effect, verdict>>

Send ==
    /\ authority = "spent" /\ sent = 0 /\ verdict = "none"
    /\ sent' = 1 /\ effect' \in BOOLEAN
    /\ UNCHANGED <<authority, verdict>>

Judge ==
    /\ authority = "spent" /\ sent = 1 /\ verdict = "none"
    /\ verdict' \in {"verified", "failed"}
    /\ verdict' = "verified" => effect
    /\ UNCHANGED <<authority, sent, effect>>

Next == Withdraw \/ Spend \/ Send \/ Judge

Spec == Init /\ [][Next]_tvars
=============================================================================
