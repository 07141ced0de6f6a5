----------------------------- MODULE MCRatchet -----------------------------
(* The default guards' two kinds: a cost relative to its baseline, and a rate. *)
EXTENDS Ratchet

TokensAndEdits ==
  {[metric |-> "tokens", higher |-> FALSE, relative |-> TRUE, tolerance |-> 5],
   [metric |-> "edits", higher |-> TRUE, relative |-> FALSE, tolerance |-> 2]}

\* Two steps of four per cent are within the tolerance each, and together are not.
SomeScores ==
  {[m \in {"primary", "tokens", "edits"} |->
      CASE m = "primary" -> p [] m = "tokens" -> t [] m = "edits" -> e] :
    p \in 0 .. 2, t \in {Unknown, 100, 104, 108}, e \in {97, 100}}
=============================================================================
