-------------------------- MODULE DownloadRequest --------------------------
(***************************************************************************)
(* What the handoff of a candidate's downloads promises about the requests *)
(* of its runs: a run's request is sent at most once, and only after the   *)
(* run has crossed the point from which it may have been sent; a run that  *)
(* refused has sent nothing and may prepare again; while one request is in *)
(* doubt no other run crosses; and a receipt is what the provider did.     *)
(***************************************************************************)
CONSTANT Runs

VARIABLES epoch,    \* [Runs -> {"none", "preparing", "refused", "may_have_dispatched"}]
          wire,     \* [Runs -> {"none", "sent", "lost", "accepted", "refused"}]
          receipt   \* [Runs -> {"unknown", "confirmed", "rejected"}]

Init ==
    /\ epoch = [r \in Runs |-> "none"]
    /\ wire = [r \in Runs |-> "none"]
    /\ receipt = [r \in Runs |-> "unknown"]

Crossed(r) == epoch[r] = "may_have_dispatched"

\* the provider has decided the request
Answered(r) == wire[r] \in {"accepted", "refused"}

Prepare(r) ==
    /\ epoch[r] \in {"none", "refused"}
    /\ epoch' = [epoch EXCEPT ![r] = "preparing"]
    /\ UNCHANGED <<wire, receipt>>

Refuse(r) ==
    /\ epoch[r] = "preparing"
    /\ epoch' = [epoch EXCEPT ![r] = "refused"]
    /\ UNCHANGED <<wire, receipt>>

Cross(r) ==
    /\ epoch[r] = "preparing"
    /\ \A q \in Runs \ {r} : Crossed(q) => Answered(q)
    /\ epoch' = [epoch EXCEPT ![r] = "may_have_dispatched"]
    /\ UNCHANGED <<wire, receipt>>

Send(r) ==
    /\ Crossed(r)
    /\ wire[r] = "none"
    /\ wire' = [wire EXCEPT ![r] = "sent"]
    /\ UNCHANGED <<epoch, receipt>>

\* the request arrives and is decided, or it is lost
Arrive(r) ==
    /\ wire[r] = "sent"
    /\ \E w \in {"lost", "accepted", "refused"} : wire' = [wire EXCEPT ![r] = w]
    /\ UNCHANGED <<epoch, receipt>>

\* the provider's answer, or that it is not known
Truth(r) ==
    {"unknown"} \cup (IF wire[r] = "accepted" THEN {"confirmed"} ELSE {})
                \cup (IF wire[r] = "refused" THEN {"rejected"} ELSE {})

Record(r) ==
    /\ Crossed(r)
    /\ \E c \in Truth(r) : receipt' = [receipt EXCEPT ![r] = c]
    /\ UNCHANGED <<epoch, wire>>

Next == \E r \in Runs :
    Prepare(r) \/ Refuse(r) \/ Cross(r) \/ Send(r) \/ Arrive(r) \/ Record(r)

Spec == Init /\ [][Next]_<<epoch, wire, receipt>>
=============================================================================
