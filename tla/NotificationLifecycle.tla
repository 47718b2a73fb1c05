----------------------- MODULE NotificationLifecycle -----------------------
(***************************************************************************)
(* What the push queue promises about a queued notification: it waits, is  *)
(* held by a claim, waits again while an attempt is left, and ends once.   *)
(* Its payload is replaced only before its first claim, it is called sent  *)
(* only after the push service accepted it, and it is not offered to the   *)
(* service before its first claim.                                         *)
(***************************************************************************)
EXTENDS Naturals

CONSTANTS Events, MaxAttempts

VARIABLES phase,     \* [Events -> {"absent", "waiting", "held"} \cup Ended \cup {"deleted"}]
          claims,    \* [Events -> Nat]: the claims so far
          payload,   \* [Events -> Events]: the event that a notification carries
          accepted   \* the notifications that the push service accepted, once or more

Ended == {"sent", "failed", "expired"}

Init ==
    /\ phase = [i \in Events |-> "absent"]
    /\ claims = [i \in Events |-> 0]
    /\ payload = [i \in Events |-> i]
    /\ accepted = {}

Enqueue(i) ==
    /\ phase[i] = "absent"
    /\ phase' = [phase EXCEPT ![i] = "waiting"]
    /\ UNCHANGED <<claims, payload, accepted>>

\* an event takes the place of others that nobody has claimed yet
Coalesce(S, e) ==
    /\ \A i \in S : phase[i] = "waiting" /\ claims[i] = 0
    /\ payload' = [i \in Events |-> IF i \in S THEN e ELSE payload[i]]
    /\ UNCHANGED <<phase, claims, accepted>>

\* a claim, also of a notification whose claim has lapsed
Claim(i) ==
    /\ phase[i] \in {"waiting", "held"}
    /\ phase' = [phase EXCEPT ![i] = "held"]
    /\ claims' = [claims EXCEPT ![i] = @ + 1]
    /\ UNCHANGED <<payload, accepted>>

\* the service accepts what a worker sent, however late it was sent
Accept(i) ==
    /\ claims[i] > 0 \/ phase[i] = "deleted"
    /\ accepted' = accepted \cup {i}
    /\ UNCHANGED <<phase, claims, payload>>

GiveBack(i) ==
    /\ phase[i] = "held"
    /\ claims[i] < MaxAttempts
    /\ phase' = [phase EXCEPT ![i] = "waiting"]
    /\ UNCHANGED <<claims, payload, accepted>>

End(i, s) ==
    /\ phase[i] = "held"
    /\ s = "sent" => i \in accepted
    /\ phase' = [phase EXCEPT ![i] = s]
    /\ UNCHANGED <<claims, payload, accepted>>

\* an ended notification is forgotten
Forget(i) ==
    /\ phase[i] \in Ended
    /\ phase' = [phase EXCEPT ![i] = "deleted"]
    /\ claims' = [claims EXCEPT ![i] = 0]
    /\ UNCHANGED <<payload, accepted>>

\* the user leaves, and every notification with them
ForgetAll ==
    /\ phase' = [i \in Events |-> IF phase[i] = "absent" THEN "absent" ELSE "deleted"]
    /\ claims' = [i \in Events |-> 0]
    /\ UNCHANGED <<payload, accepted>>

Next ==
    \/ \E i \in Events : Enqueue(i) \/ Claim(i) \/ Accept(i) \/ GiveBack(i) \/ Forget(i)
    \/ \E i \in Events, s \in Ended : End(i, s)
    \/ \E S \in SUBSET Events, e \in Events : Coalesce(S, e)
    \/ ForgetAll

Spec == Init /\ [][Next]_<<phase, claims, payload, accepted>>
=============================================================================
