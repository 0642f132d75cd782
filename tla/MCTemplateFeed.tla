--------------------------- MODULE MCTemplateFeed ---------------------------
(***************************************************************************)
(* Two instances of TemplateGate in one state graph, told apart by profile, *)
(* which no step changes.  "ordered": nothing is lost between the gateway   *)
(* and the verifier, which answers every proposal.  "garbled": one template *)
(* of the feed does not decode, the verifier may skip proposals, the feed   *)
(* may return to an earlier template and the template-manager may restart.  *)
(***************************************************************************)
EXTENDS TemplateGate, TLC

VARIABLE profile

\* A template, and one of the next block.
OneEach == 1 :> 1 @@ 2 :> 2

\* Two templates of one block, between which the mempool may swing.
OneBlock == 1 :> 1 @@ 2 :> 1

Garbled == INSTANCE TemplateGate WITH
  Prev <- OneBlock, Malformed <- {2}, VerifierMaySkip <- TRUE,
  FeedMayReturn <- TRUE, StopMayCome <- FALSE, FailClosed <- FALSE, MaxTemplateAge <- 1,
  OutboundMax <- 1, WireMax <- 1, VerdictMax <- 1, MaxSource <- 2

FeedInit ==
  \/ profile = "ordered" /\ Init
  \/ profile = "garbled" /\ Garbled!Init

FeedNext ==
  /\ \/ profile = "ordered" /\ Next
     \/ profile = "garbled" /\ Garbled!Next
  /\ UNCHANGED profile

FeedSpec == FeedInit /\ [][FeedNext]_<<vars, profile>>

\* Where nothing is lost between gateway and verifier, miners are never sent
\* back to an earlier block, although the flush of a degrading gateway and the
\* verdicts still under way race each other (run_enforcement_loop).
OrderedNeverBackwards == profile = "ordered" => NeverBackwards

\* With fail_closed, a loop that serves its timers stops within one check of
\* the upstream going stale, whatever else keeps it busy (the PB-16 fix).
FailClosedStops == profile = "ordered" => UpstreamStaleSeen

\* run_enforcement_loop on a feed that loses nothing: miners only move forward,
\* and a fail_closed gateway stops when it no longer hears its upstream.
OrderedFeedHolds == OrderedNeverBackwards /\ FailClosedStops
=============================================================================
