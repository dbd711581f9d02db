----------------------------- MODULE RunContract -----------------------------
(***************************************************************************)
(* What a run promises its user, from the completion contract of           *)
(* packages/verification/src/completion.ts: work reaches the user's branch *)
(* only if the deterministic gate was green on it, its diff raised no      *)
(* flag, and the user consented, by approving it or by asking for yes mode *)
(* beforehand.  Never on the model's word.                                 *)
(*                                                                         *)
(* AgentLoop implements this contract.                                     *)
(***************************************************************************)
CONSTANTS
  Trees,   \* contents of a worktree
  Clean,   \* those of them whose diff raises no flag
  None     \* none of them

VARIABLES
  phase,     \* open, then offered, landing and closed
  accepted,  \* what the gate last found green, or None
  consent,   \* approval by a human, or yes mode
  landed     \* what reached the user's branch, or None

contractVars == <<phase, accepted, consent, landed>>

Init ==
  /\ phase = "open"
  /\ accepted = None
  /\ consent \in BOOLEAN
  /\ landed = None

\* The gate runs, or the user changes their mind about yes mode.
Judge ==
  /\ phase = "open"
  /\ accepted' \in Trees \cup {None}
  /\ consent' \in BOOLEAN
  /\ UNCHANGED <<phase, landed>>

\* Green and clean: the run offers what the gate accepted.
Offer ==
  /\ phase = "open"
  /\ accepted \in Clean
  /\ phase' = "offered"
  /\ UNCHANGED <<accepted, consent, landed>>

\* A human approves.
Approve ==
  /\ phase = "offered"
  /\ consent' = TRUE
  /\ UNCHANGED <<phase, accepted, landed>>

StartLanding ==
  /\ phase = "offered"
  /\ consent
  /\ phase' = "landing"
  /\ UNCHANGED <<accepted, consent, landed>>

Land ==
  /\ phase = "landing"
  /\ landed' = accepted
  /\ phase' = "closed"
  /\ UNCHANGED <<accepted, consent>>

\* Escalation, failure, rejection, cancellation, a report without changes.
Close ==
  /\ phase \in {"open", "offered"}
  /\ phase' = "closed"
  /\ UNCHANGED <<accepted, consent, landed>>

Next == Judge \/ Offer \/ Approve \/ StartLanding \/ Land \/ Close

Spec == Init /\ [][Next]_contractVars
=============================================================================
