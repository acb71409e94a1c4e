---------------------------- MODULE AtomicSecret ----------------------------
(***************************************************************************)
(* What the platform keyring promises for one key: a put replaces the       *)
(* secret in one step, a delete makes it unreadable and then absent, and an *)
(* operation that reports success has had its effect.  A failed operation   *)
(* may or may not have had it.                                              *)
(***************************************************************************)
CONSTANTS Values, Absent, Deleting, Idle

VARIABLES secret,  \* what a read returns
          req,     \* Idle, the value being put, or Deleting for a delete
          res      \* "ok" or "error", of the last operation

svars == <<secret, req, res>>

Init == secret \in Values \cup {Absent} /\ req = Idle /\ res = "ok"

Request ==
    /\ req = Idle
    /\ req' \in Values \cup {Deleting}
    /\ UNCHANGED <<secret, res>>

\* Whatever operation comes next completes an interrupted delete first.
FinishDelete ==
    /\ req # Idle /\ secret = Deleting /\ secret' = Absent
    /\ UNCHANGED <<req, res>>

Replace ==
    /\ req \in Values /\ secret # Deleting /\ secret' = req
    /\ UNCHANGED <<req, res>>

Delete ==
    /\ req = Deleting /\ secret # Deleting
    /\ secret' \in {Deleting, Absent}
    /\ UNCHANGED <<req, res>>

\* The effect of the step an operation failed at may still have crossed.
Fail ==
    /\ req # Idle /\ req' = Idle /\ res' = "error"
    /\ \/ UNCHANGED secret
       \/ secret = Deleting /\ secret' = Absent
       \/ req \in Values /\ secret # Deleting /\ secret' = req
       \/ req = Deleting /\ secret' \in {Deleting, Absent}

Succeed ==
    /\ req # Idle /\ req' = Idle /\ res' = "ok"
    /\ secret = IF req = Deleting THEN Absent ELSE req
    /\ UNCHANGED secret

Next == Request \/ FinishDelete \/ Replace \/ Delete \/ Fail \/ Succeed

Spec == Init /\ [][Next]_svars
=============================================================================
