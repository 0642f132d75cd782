------------------------------- MODULE MCEdges -------------------------------
(* Share accounting and the components at the edges of the system, which      *)
(* share no state, in one state graph: focus, which no step changes, says     *)
(* which of them moves in a behaviour; the others stay in one of their        *)
(* initial states.                                                            *)
EXTENDS ShareAccounting, VerifierLink, Sv2Codec, RateLimits, RequestAuth, FeedRelay,
        Licences, MinerClient, TLC

CONSTANTS k1, k2, h1, h2

\* Two connections with a share each: two shares between queue and report.
TwoConnections == h1 :> {k1} @@ h2 :> {k2}

\* Two clients of one /64, one of another network, and two proxies.
Networks == "a" :> "a" @@ "b" :> "b" @@ "c" :> "b" @@ "p" :> "p" @@ "q" :> "q"

\* A build that embeds one public key, and an entry that is none.
OneEmbedded == <<"k1", Malformed>>

VARIABLE focus

edgesVars == <<focus, vars, linkVars, codecVars, limitVars, authVars, feedVars, licenceVars,
               clientVars>>

EdgesInit ==
  /\ focus \in {"accounting", "link", "codec", "limits", "auth", "feed", "licences",
               "client"}
  /\ Init /\ LinkInit
  /\ focus # "codec" => message = 1 /\ value = CHOOSE v \in Samples(1) : TRUE
  /\ CodecInit
  /\ focus # "limits" => ceiling = 0
  /\ LimitInit
  /\ focus # "auth" => watched = [nonce |-> "n", ts |-> 0]
  /\ AuthInit /\ RelayInit
  /\ focus # "licences" =>
       explicit = FALSE /\ env_key = NoKey /\ files = [place \in ConfigPlaces |-> Absent]
  /\ LicenceInit /\ ClientInit

EdgesNext ==
  \/ /\ focus = "accounting" /\ Next
     /\ UNCHANGED <<focus, linkVars, codecVars, limitVars, authVars, feedVars, licenceVars,
                    clientVars>>
  \/ /\ focus = "link" /\ LinkNext
     /\ UNCHANGED <<focus, vars, codecVars, limitVars, authVars, feedVars, licenceVars, clientVars>>
  \/ /\ focus = "codec" /\ CodecNext
     /\ UNCHANGED <<focus, vars, linkVars, limitVars, authVars, feedVars, licenceVars, clientVars>>
  \/ /\ focus = "limits" /\ LimitNext
     /\ UNCHANGED <<focus, vars, linkVars, codecVars, authVars, feedVars, licenceVars, clientVars>>
  \/ /\ focus = "auth" /\ AuthNext
     /\ UNCHANGED <<focus, vars, linkVars, codecVars, limitVars, feedVars, licenceVars, clientVars>>
  \/ /\ focus = "feed" /\ RelayNext
     /\ UNCHANGED <<focus, vars, linkVars, codecVars, limitVars, authVars, licenceVars, clientVars>>
  \/ /\ focus = "licences" /\ LicenceNext
     /\ UNCHANGED <<focus, vars, linkVars, codecVars, limitVars, authVars, feedVars, clientVars>>
  \/ /\ focus = "client" /\ ClientNext
     /\ UNCHANGED <<focus, vars, linkVars, codecVars, limitVars, authVars, feedVars, licenceVars>>

EdgesSpec == EdgesInit /\ [][EdgesNext]_edgesVars
=============================================================================
