------------------------- MODULE MCShareAccounting -------------------------
(* Small instances of ShareAccounting.                                     *)
EXTENDS ShareAccounting, TLC

CONSTANTS k1, k2, h1, h2

\* One connection that produces both shares: its dedup window forgets.
OneConnection == h1 :> {k1, k2}

\* Two connections with a share each: two shares between queue and report.
TwoConnections == h1 :> {k1} @@ h2 :> {k2}

\* The WAL can be opened at every start: a gateway that has to go on without it
\* forgets what it owes, and promises nothing.
WithWalNext == Next /\ wal' # "off"

WithWalFairSpec == Init /\ [][WithWalNext]_vars /\ Fairness
=============================================================================
