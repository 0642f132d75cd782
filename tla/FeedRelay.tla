----------------------------- MODULE FeedRelay ------------------------------
(* The observe-mode feed: rg-feed-server polls bitcoind and broadcasts the    *)
(* answers over a bounded tokio channel, one task per websocket relays them,  *)
(* and rg-feed-adapter keeps the latest of each and answers JSON-RPC in       *)
(* bitcoind's stead.  A template is the number of the node's mempool state it *)
(* was built from. The broadcast channel keeps its last Capacity frames; a    *)
(* receiver is the number of frames it has yet to read, Capacity + 1 standing *)
(* for more than the channel keeps.  Sockets are dialled by one adapter: an   *)
(* old connection's task may still run when the next one is accepted, and     *)
(* only its slot is followed from then on.                                    *)
EXTENDS Integers, Sequences, FiniteSets

CONSTANTS
  Socket,             \* connections that can exist at the same time
  Capacity,           \* feed.channel_capacity
  WireRoom,           \* frames a socket takes before a send waits
  MaxConns,           \* feed.max_connections, 0: no ceiling
  MaxConnsPerIp,      \* feed.max_connections_per_ip, 0: no ceiling
  MaxTip              \* bound: states of the node's mempool

NoSocket == "none"

ASSUME FeedConstants ==
  /\ IsFiniteSet(Socket) /\ NoSocket \notin Socket
  /\ Capacity \in Nat \ {0} /\ WireRoom \in Nat /\ MaxTip \in Nat
  /\ MaxConns \in Nat /\ MaxConnsPerIp \in Nat

VARIABLES
  tip,          \* the node's mempool state
  poller,       \* "gbt" or "info": the call run_poller makes next
  rpc_ok,       \* FeedState: the last template poll succeeded
  ring,         \* the frames the broadcast channel keeps
  server,       \* server[s]: the task of handle_connection
  behind,       \* behind[s]: frames its receiver has yet to read
  heard,        \* heard[s]: a template was broadcast since it subscribed
  onWire,         \* onWire[s]: frames sent and not yet read by the adapter
  active,       \* active_conns
  per_ip,       \* the adapter's count in the per-address tracker
  link,         \* the adapter's socket, NoSocket when it has none
  feed_connected,
  block_template,     \* FeedBuffer, -1: None
  mempool_info

feedVars == <<tip, poller, rpc_ok, ring, server, behind, heard, onWire, active,
               per_ip, link, feed_connected, block_template, mempool_info>>
pollVars == <<tip, poller, rpc_ok, ring>>
taskVars == <<server, behind, heard, onWire, active, per_ip>>
adapterVars == <<link, feed_connected, block_template, mempool_info>>

Methods == {"getblocktemplate", "getmempoolinfo", "getrawmempool"}

RelayInit ==
  /\ tip = 0 /\ poller = "gbt" /\ rpc_ok = FALSE /\ ring = <<>>
  /\ server = [s \in Socket |-> "none"]
  /\ behind = [s \in Socket |-> 0]
  /\ heard = [s \in Socket |-> FALSE]
  /\ onWire = [s \in Socket |-> <<>>]
  /\ active = 0 /\ per_ip = 0
  /\ link = NoSocket /\ feed_connected = FALSE
  /\ block_template = -1 /\ mempool_info = -1

\* The node's mempool or tip changes.
NodeMoves ==
  /\ tip < MaxTip
  /\ tip' = tip + 1
  /\ UNCHANGED <<poller, rpc_ok, ring, taskVars, adapterVars>>

----------------------------------------------------------------------------
(* The poller and the heartbeat *)

Live(s) == server[s] # "none"

\* broadcast::Sender::send: the oldest frame goes when the channel is full.
send(type, n) ==
  LET all == Append(ring, [type |-> type, n |-> n])
  IN /\ ring' = IF Len(all) > Capacity THEN Tail(all) ELSE all
     /\ behind' = [s \in Socket |->
                     IF link = s /\ behind[s] <= Capacity THEN behind[s] + 1 ELSE behind[s]]
     /\ heard' = [s \in Socket |-> heard[s] \/ (link = s /\ type = "blocktemplate")]

\* run_poller, first call: the answer is the node's current template.
PollTemplate(ok) ==
  /\ poller = "gbt"
  /\ poller' = "info"
  /\ rpc_ok' = ok
  /\ IF ok THEN send("blocktemplate", tip) ELSE UNCHANGED <<ring, behind, heard>>
  /\ UNCHANGED <<tip, server, onWire, active, per_ip, adapterVars>>

\* Its second call; rpc_ok is about the template alone.
PollMempool(ok) ==
  /\ poller = "info"
  /\ poller' = "gbt"
  /\ IF ok THEN send("mempoolinfo", tip) ELSE UNCHANGED <<ring, behind, heard>>
  /\ UNCHANGED <<tip, rpc_ok, server, onWire, active, per_ip, adapterVars>>

run_heartbeat ==
  /\ send("heartbeat", 0)
  /\ UNCHANGED <<tip, poller, rpc_ok, server, onWire, active, per_ip, adapterVars>>

----------------------------------------------------------------------------
(* The server's connections *)

try_accept_ip == MaxConnsPerIp = 0 \/ per_ip < MaxConnsPerIp
ip_held == IF MaxConnsPerIp = 0 THEN per_ip ELSE per_ip + 1
ip_released == IF per_ip = 0 THEN per_ip ELSE per_ip - 1

(* run_accept_loop: the two ceilings, then the slot, and the subscription,    *)
(* which is taken before the handshake has run.                               *)
AcceptFeed(s) ==
  /\ link = NoSocket /\ ~Live(s)
  /\ MaxConns = 0 \/ active < MaxConns
  /\ try_accept_ip
  /\ active' = active + 1
  /\ per_ip' = ip_held
  /\ server' = [server EXCEPT ![s] = "shake"]
  /\ behind' = [behind EXCEPT ![s] = 0]
  /\ heard' = [heard EXCEPT ![s] = FALSE]
  /\ onWire' = [onWire EXCEPT ![s] = <<>>]
  /\ link' = s
  /\ UNCHANGED <<pollVars, feed_connected, block_template, mempool_info>>

\* The end of the spawned task, whichever way handle_connection returned.
EndRelay(s) ==
  /\ server' = [server EXCEPT ![s] = "none"]
  /\ active' = active - 1
  /\ per_ip' = ip_released
  /\ behind' = [behind EXCEPT ![s] = 0]
  /\ heard' = [heard EXCEPT ![s] = FALSE]
  /\ onWire' = [onWire EXCEPT ![s] = <<>>]

(* The key is refused at the upgrade, or the handshake fails: the adapter's   *)
(* connect_async returns an error.                                            *)
HandshakeRefused(s) ==
  /\ server[s] = "shake"
  /\ EndRelay(s)
  /\ link' = IF link = s THEN NoSocket ELSE link
  /\ UNCHANGED <<pollVars, feed_connected, block_template, mempool_info>>

\* The upgrade succeeds; a client is told the height if the last poll did.
Upgraded(s) ==
  /\ server[s] = "shake" /\ link = s
  /\ server' = [server EXCEPT ![s] = "open"]
  /\ onWire' = [onWire EXCEPT ![s] =
                IF rpc_ok THEN Append(@, [type |-> "status", n |-> 0]) ELSE @]
  /\ feed_connected' = TRUE
  /\ UNCHANGED <<pollVars, behind, heard, active, per_ip, link, block_template,
                 mempool_info>>

\* Variant: a receiver that lagged goes on with the next template published.
RelayFrameSkips(s) ==
  /\ server[s] = "open" /\ link = s
  /\ behind[s] > 0 /\ Len(onWire[s]) < WireRoom
  /\ IF behind[s] > Capacity
       THEN behind' = [behind EXCEPT ![s] = 0] /\ UNCHANGED onWire
       ELSE /\ behind' = [behind EXCEPT ![s] = @ - 1]
            /\ onWire' = [onWire EXCEPT ![s] = Append(@, ring[Len(ring) - behind[s] + 1])]
  /\ UNCHANGED <<pollVars, server, heard, active, per_ip, adapterVars>>

(* One turn of the relay: the oldest unread frame is sent, or, when the       *)
(* channel no longer keeps it, the receiver learns that it lagged and goes on *)
(* with the oldest one that is kept.                                          *)
RelayFrame(s) ==
  /\ server[s] = "open" /\ link = s
  /\ behind[s] > 0 /\ Len(onWire[s]) < WireRoom
  /\ IF behind[s] > Capacity
       THEN behind' = [behind EXCEPT ![s] = Capacity] /\ UNCHANGED onWire
       ELSE /\ behind' = [behind EXCEPT ![s] = @ - 1]
            /\ onWire' = [onWire EXCEPT ![s] = Append(@, ring[Len(ring) - behind[s] + 1])]
  /\ UNCHANGED <<pollVars, server, heard, active, per_ip, adapterVars>>

\* A read or a write of a connection the adapter has left fails or ends.
Disconnected(s) ==
  /\ Live(s) /\ link # s
  /\ EndRelay(s)
  /\ UNCHANGED <<pollVars, adapterVars>>

----------------------------------------------------------------------------
(* The adapter *)

\* process_frame; a frame of another type changes nothing.
process_frame ==
  /\ link # NoSocket /\ feed_connected
  /\ onWire[link] # <<>>
  /\ LET frame == Head(onWire[link])
     IN /\ block_template' =
             IF frame.type = "blocktemplate" THEN frame.n ELSE block_template
        /\ mempool_info' = IF frame.type = "mempoolinfo" THEN frame.n ELSE mempool_info
  /\ onWire' = [onWire EXCEPT ![link] = Tail(@)]
  /\ UNCHANGED <<pollVars, server, behind, heard, active, per_ip, link,
                 feed_connected>>

(* connect_and_read returns (a close frame, the end of the stream, an error); *)
(* run_feed_loop marks the buffer disconnected, keeps what it holds, sleeps   *)
(* its backoff and dials again.  What was on the socket is lost.              *)
FeedLost ==
  /\ link # NoSocket /\ feed_connected
  /\ feed_connected' = FALSE
  /\ onWire' = [onWire EXCEPT ![link] = <<>>]
  /\ behind' = [behind EXCEPT ![link] = 0]
  /\ heard' = [heard EXCEPT ![link] = FALSE]
  /\ link' = NoSocket
  /\ UNCHANGED <<pollVars, server, active, per_ip, block_template, mempool_info>>

(* handle_jsonrpc.  The synthetic getrawmempool is the transaction list of   *)
(* the buffered template, so it answers with that template's number.         *)
handle_jsonrpc(m) == IF m = "getmempoolinfo" THEN mempool_info ELSE block_template

RelayNext ==
  \/ NodeMoves \/ run_heartbeat
  \/ \E ok \in BOOLEAN : PollTemplate(ok) \/ PollMempool(ok)
  \/ \E s \in Socket :
       \/ AcceptFeed(s) \/ HandshakeRefused(s) \/ Upgraded(s)
       \/ RelayFrame(s) \/ Disconnected(s)
  \/ process_frame \/ FeedLost

RelaySpec == RelayInit /\ [][RelayNext]_feedVars

----------------------------------------------------------------------------
(* What the adapter answers never goes back to an earlier template, mempool   *)
(* or error, over lag, lost connections and reconnections.                    *)
AnswersGoForward ==
  [][\A m \in Methods : handle_jsonrpc(m)' >= handle_jsonrpc(m)]_feedVars

\* The last template in a sequence of frames is at i.
LastTemplate(frames, i) ==
  /\ i \in DOMAIN frames /\ frames[i].type = "blocktemplate"
  /\ \A j \in DOMAIN frames : j > i => frames[j].type # "blocktemplate"

\* The last template the channel still keeps, -1 when it keeps none.
KeptTemplate ==
  IF \E i \in DOMAIN ring : LastTemplate(ring, i)
    THEN ring[CHOOSE i \in DOMAIN ring : LastTemplate(ring, i)].n
    ELSE -1

(* Lag costs a client old frames and never the newest: once a connection has  *)
(* nothing left to relay or to read, the adapter serves the last template     *)
(* broadcast since it subscribed, if the channel still keeps it.              *)
DrainedIsLatest ==
  (/\ link # NoSocket /\ feed_connected /\ heard[link]
   /\ behind[link] = 0 /\ onWire[link] = <<>> /\ KeptTemplate # -1)
  => block_template = KeptTemplate

(* active_conns and the address count are the tasks that still run, however   *)
(* each one ended, and neither ceiling is passed while old connections of a   *)
(* client that reconnects have not been noticed.                              *)
FeedSlotsHeld ==
  /\ active = Cardinality({s \in Socket : Live(s)})
  /\ MaxConns # 0 => active <= MaxConns
  /\ MaxConnsPerIp # 0 => per_ip = active /\ per_ip <= MaxConnsPerIp

(* rg-feed-server main.rs:190-380, rg-feed-adapter.  The feed as its reader   *)
(* meets it: what it serves only moves forward, is the newest once everything *)
(* is read, and connections cost no more slots than they hold.                *)
FeedHolds == [](DrainedIsLatest /\ FeedSlotsHeld) /\ AnswersGoForward
=============================================================================
