----------------------------- MODULE JobLeases -----------------------------
(***************************************************************************)
(* The job lease store (src/src/server/job-lease-store.js and its policy). *)
(* One row of job_leases per lease key.  A lease key is                    *)
(* `<operation type>:<run id>`, so leases are indexed by run.              *)
(*                                                                         *)
(* A row carries the acquisition_id of its last successful acquisition.    *)
(* The code draws a random UUID each time; here the acquisitions of one    *)
(* key are numbered 1, 2, ... in the order in which they succeed, and 0    *)
(* means that the row does not exist.  The owner instance id that the code *)
(* compares next to the acquisition id is left out: an acquisition id      *)
(* already names one acquisition by one owner.                             *)
(*                                                                         *)
(* Timestamps are abstracted to the state normalizeJobLease derives from   *)
(* them: released_at set, expires_at passed, or neither.                   *)
(***************************************************************************)
EXTENDS Naturals

CONSTANT Runs           \* ids of operation runs; each has one lease key

VARIABLE lease          \* [Runs -> Lease], the table job_leases

LeaseState == {"absent", "active", "expired", "released"}

Lease == [acq : Nat, state : LeaseState]

NoLease == [acq |-> 0, state |-> "absent"]

LeaseTypeOK == lease \in [Runs -> Lease]

LeaseInit == lease = [r \in Runs |-> NoLease]

(***************************************************************************)
(* isCurrentJobLeaseAcquisition: acquisition a is the row's acquisition,   *)
(* not released and not expired.                                           *)
(***************************************************************************)
\* Mutated form: any unexpired lease of the key will do
OwnsByKey(r, a) == lease[r].state = "active"

Owns(r, a) == lease[r].state = "active" /\ lease[r].acq = a

(***************************************************************************)
(* acquireLease: insert the row, or take over a released or expired one.   *)
(* Every success draws a fresh acquisition id, for the same owner too.     *)
(***************************************************************************)
LeaseAvailable(r) == lease[r].state # "active"

\* Mutated form: a takeover keeps the acquisition id
NextAcquisitionReused(r) == IF lease[r].acq = 0 THEN 1 ELSE lease[r].acq

NextAcquisition(r) == lease[r].acq + 1

AcquireLease(r) ==
    /\ LeaseAvailable(r)
    /\ lease' = [lease EXCEPT ![r] = [acq |-> NextAcquisition(r), state |-> "active"]]

(***************************************************************************)
(* releaseLease: only the exact acquisition, and only while unreleased;    *)
(* an expired row may still be released by its own acquisition.  Anything  *)
(* else updates no row.                                                    *)
(***************************************************************************)
CanRelease(r, a) == lease[r].acq = a /\ lease[r].state \in {"active", "expired"}

ReleaseLease(r, a) ==
    lease' = IF CanRelease(r, a) THEN [lease EXCEPT ![r].state = "released"] ELSE lease

\* expires_at passes without a renewal
ExpireLease(r) ==
    /\ lease[r].state = "active"
    /\ lease' = [lease EXCEPT ![r].state = "expired"]
=============================================================================
