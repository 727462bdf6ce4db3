--------------------------- MODULE SnapshotChannel ---------------------------
(***************************************************************************)
(* What the path from ipam_export.py to ipam_import.py promises, whatever  *)
(* happens to the files on the way: a register.  The exporting side        *)
(* publishes snapshots, one after the other.  The importing side takes up  *)
(* published snapshots, each as a whole, and never goes back to one that   *)
(* was published before the one it has.  It need not take up each of them: *)
(* the importer compares states and replays no history.                    *)
(***************************************************************************)
EXTENDS Naturals, Sequences

VARIABLES
  history,   \* the snapshots published so far
  accepted,  \* the place in history of the snapshot last taken up, 0 at first
  content    \* that snapshot

vars == << history, accepted, content >>

Nothing == [x \in {} |-> 0]

Init == history = << >> /\ accepted = 0 /\ content = Nothing

\* A push publishes every commit that was not pushed before.
Publish ==
  /\ Len(history') > Len(history)
  /\ SubSeq(history', 1, Len(history)) = history
  /\ UNCHANGED << accepted, content >>

TakeUp ==
  /\ accepted' \in accepted .. Len(history)
  /\ accepted' > 0
  /\ content' = history[accepted']
  /\ UNCHANGED history

Next == Publish \/ TakeUp

Spec == Init /\ [][Next]_vars
=============================================================================
