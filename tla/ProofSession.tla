---------------------------- MODULE ProofSession ------------------------------
(***************************************************************************)
(* What the proof system promises to a caller who keeps a transcript, a    *)
(* proof and a verdict: one proof per session, and a proof that was made   *)
(* without a failed write and arrives unchanged, with the same instances,  *)
(* is accepted; any other is not.                                          *)
(***************************************************************************)
VARIABLES session, clean, verdict

vars == <<session, clean, verdict>>

Init == session = "open" /\ clean = TRUE /\ verdict = "none"

(* A write of commit_phase fails; the session stays open. *)
Tear == session = "open" /\ clean' = FALSE /\ UNCHANGED <<session, verdict>>

(* new or create_proof returns an error or panics. *)
GiveUp == session = "open" /\ session' = "failed" /\ UNCHANGED <<clean, verdict>>

Prove == session = "open" /\ session' = "proved" /\ UNCHANGED <<clean, verdict>>

Deliver(intact) ==
  /\ session = "proved" /\ session' = "delivered"
  /\ clean' = (clean /\ intact)
  /\ UNCHANGED verdict

Judge ==
  /\ session = "delivered" /\ session' = "judged"
  /\ verdict' = IF clean THEN "accept" ELSE "reject"
  /\ UNCHANGED clean

Next == Tear \/ GiveUp \/ Prove \/ (\E intact \in BOOLEAN : Deliver(intact)) \/ Judge
=============================================================================
