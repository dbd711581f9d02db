------------------------------ MODULE UserShelf ------------------------------
(***************************************************************************)
(* What dirty-tree.ts promises a user about the changes they have made and *)
(* not committed: a run may put them aside and bring them back, never lose *)
(* them.  StashStack implements this with git's stash and with temporary   *)
(* commits.                                                                *)
(***************************************************************************)
CONSTANT Works          \* the changes the user may make

VARIABLES
  atHand,               \* changes in the working tree
  aside                 \* changes that were put aside

shelfVars == <<atHand, aside>>

ShelfInit == atHand = {} /\ aside = {}

\* The user changes something.
Make(w) ==
  /\ w \notin atHand \cup aside
  /\ atHand' = atHand \cup {w}
  /\ UNCHANGED aside

\* Changes move between the two places; some may be in both for a while.
Move ==
  /\ atHand' \cup aside' = atHand \cup aside
  /\ atHand' \subseteq Works
  /\ aside' \subseteq Works

ShelfNext == Move \/ \E w \in Works : Make(w)

ShelfSpec == ShelfInit /\ [][ShelfNext]_shelfVars
=============================================================================
