--------------------------- MODULE MCTemplateGate ---------------------------
(***************************************************************************)
(* Instances of TemplateGate: which block each template of the feed builds *)
(* on.  The template-manager stays up in them; MCTemplateFeed restarts it. *)
(***************************************************************************)
EXTENDS TemplateGate, TLC

\* Two templates of one block, then one of the next.
TwoBlocks == 1 :> 1 @@ 2 :> 1 @@ 3 :> 2

\* One template of the current block, two of the next.
BlockArrives == 1 :> 1 @@ 2 :> 2 @@ 3 :> 2

\* A template, and one of the next block.
OneEach == 1 :> 1 @@ 2 :> 2

\* One template-manager serves all along.
OneSourceNext == Next /\ UNCHANGED source

OneSourceSpec == Init /\ [][OneSourceNext]_vars

OneSourceFairSpec == OneSourceSpec /\ Fairness
=============================================================================
