----------------------------- MODULE ClaimLedger -----------------------------
(***************************************************************************)
(* What ClaimRail promises the owner of a claim: a batch is entered once,  *)
(* gets one verdict that the chain bears out, and is announced with it in  *)
(* the same moment; the claim as a whole says what its entries say, or     *)
(* said a while ago.  Workers, leases, the several reads of the chain and  *)
(* the statements of a transaction are not its concern.                    *)
(***************************************************************************)

CONSTANT Batches

VARIABLES
    fate,           \* what became of the transaction of each batch
    entry,          \* what the ledger says of it
    claim,          \* what the ledger says of the claim
    announced       \* the verdicts that were announced

vars == <<fate, entry, claim, announced>>

(* The fates that use up the nonce of a transaction: it is mined and did   *)
(* what was planned, or did not; or another one is mined in its place.     *)
Decided == {"redeemed", "rejected", "replaced"}

Entries == {"none", "pending", "confirmed", "failed", "superseded"}

Init ==
    /\ fate = [b \in Batches |-> "unsent"]
    /\ entry = [b \in Batches |-> "none"]
    /\ claim = "ready"
    /\ announced = {}

Send(b) ==
    /\ fate[b] = "unsent"
    /\ fate' = [fate EXCEPT ![b] = "sent"]
    /\ UNCHANGED <<entry, claim, announced>>

Decide(b) ==
    /\ fate[b] = "sent"
    /\ \E f \in Decided : fate' = [fate EXCEPT ![b] = f]
    /\ UNCHANGED <<entry, claim, announced>>

Record(b) ==
    /\ fate[b] \notin {"unsent", "replaced"}
    /\ entry[b] = "none"
    /\ entry' = [entry EXCEPT ![b] = "pending"]
    /\ claim' = "submitted"
    /\ UNCHANGED <<fate, announced>>

(* Which fate bears a verdict out.  A nonce that is used up is enough for  *)
(* superseded: whose transaction used it is not promised.                  *)
BearsOut(f, verdict) ==
    \/ verdict = "confirmed" /\ f = "redeemed"
    \/ verdict = "failed" /\ f = "rejected"
    \/ verdict = "superseded" /\ f \in Decided

(* An entry that says e said s before, or says it still. *)
Was(s, e) == s = e \/ s = "none" \/ (s = "pending" /\ e # "none")

(* What a claim with these entries says: the worst of them. *)
SaysOf(said, entries) ==
    LET Some(e) == \E b \in Batches : entries[b] = e
    IN  /\ said \in {"failed", "superseded", "submitted", "confirmed"}
        /\ said = "failed" <=> Some("failed")
        /\ said = "superseded" <=> ~Some("failed") /\ Some("superseded")
        /\ said = "submitted" <=> ~Some("failed") /\ ~Some("superseded") /\ Some("pending")

(* A batch gets its verdict.  The claim is set to what the entries say of  *)
(* which this one is new and the others may have gone on since they were   *)
(* looked at.                                                              *)
Settle(b, verdict) ==
    /\ entry[b] = "pending"
    /\ BearsOut(fate[b], verdict)
    /\ entry' = [entry EXCEPT ![b] = verdict]
    /\ announced' = announced \union {<<b, verdict>>}
    /\ \E seen \in [Batches -> Entries] :
          /\ seen[b] = verdict
          /\ \A c \in Batches : Was(seen[c], entry'[c])
          /\ SaysOf(claim', seen)
    /\ UNCHANGED fate

Next ==
    \E b \in Batches :
        \/ Send(b) \/ Decide(b) \/ Record(b)
        \/ \E verdict \in {"confirmed", "failed", "superseded"} : Settle(b, verdict)

Spec == Init /\ [][Next]_vars
=============================================================================
