---------------------------- MODULE MinerSessions ----------------------------
(* The SV2 sessions of the gateway (services/sv2-gateway/src): the accept     *)
(* loop of main.rs, the connection handler of handler.rs with the channels of *)
(* channels.rs, and the jobs the main loop publishes to them.                 *)
(*                                                                            *)
(* A job is its position in the order of publication.  A connection reads the *)
(* broadcast channel from its own position on.  Which block a job builds on   *)
(* is ShareClock's subject and shares are SharePipeline's; here a submission  *)
(* matters only when it does not decode.                                      *)
EXTENDS Integers, FiniteSets

CONSTANTS
  Conn,               \* sockets that can be open at the same time
  Addr,               \* source addresses
  MaxSessions,        \* max_connections
  MaxPerAddr,         \* max_connections_per_ip, 0: no ceiling
  MaxChannelsPerConn, \* max_channels_per_conn
  BroadcastSlots,     \* capacity of the job broadcast channel
  MaxJobs,            \* bound: jobs published
  MaxChannelId        \* bound: channel ids handed out

Nobody == "nobody"

ASSUME SessionConstants ==
  /\ IsFiniteSet(Conn) /\ Nobody \notin Conn
  /\ Addr # {}
  /\ {MaxSessions, MaxPerAddr, MaxChannelsPerConn, MaxJobs, MaxChannelId} \subseteq Nat
  /\ BroadcastSlots \in Nat \ {0}

VARIABLES
  jobs,       \* jobs published so far; the last of them is latest_job
  sent,       \* jobs handed to the broadcast channel
  stage,      \* stage[c]: where the task of connection c stands
  addrOf,     \* addrOf[c]: its address
  cursor,     \* cursor[c]: the next job its receiver will see
  owner,      \* owner[i]: the connection that holds channel i, in its map
  open,       \* channels that are not marked closed
  current,    \* current[i]: current_job_id, 0 for none
  opened,     \* opened[c]: opened_ids, what the exit has to unregister
  registry,   \* ids in the registry behind GET /channels
  nextId,     \* the channel id allocator
  slots,      \* permits left in the ConnectionLimiter
  perAddr,    \* the counts of the PerIpConnectionTracker
  lost        \* history: channels of sessions that unwound

chanVars == <<owner, open, current, nextId>>
jobVars == <<jobs, sent>>
slotsVars == <<addrOf, slots, perAddr>>
sessionVars == <<jobVars, stage, cursor, chanVars, opened, registry, slotsVars,
                 lost>>

AnyAddr == CHOOSE a \in Addr : TRUE     \* the address of a socket that is not open
ChannelId == 1 .. MaxChannelId
Mine(c) == {i \in ChannelId : owner[i] = c}
Live == {c \in Conn : stage[c] # "none"}

SessionInit ==
  /\ jobs = 0 /\ sent = 0
  /\ stage = [c \in Conn |-> "none"]
  /\ addrOf = [c \in Conn |-> AnyAddr]
  /\ cursor = [c \in Conn |-> 1]
  /\ owner = [i \in ChannelId |-> Nobody]
  /\ open = {} /\ registry = {}
  /\ current = [i \in ChannelId |-> 0]
  /\ opened = [c \in Conn |-> {}]
  /\ nextId = 1
  /\ slots = MaxSessions
  /\ perAddr = [a \in Addr |-> 0]
  /\ lost = {}

----------------------------------------------------------------------------
(* broadcast_job_from_template: the job table and latest_job are written, and *)
(* then the job is sent to the receivers that exist.                          *)

StoreJob ==
  /\ sent = jobs /\ jobs < MaxJobs
  /\ jobs' = jobs + 1
  /\ UNCHANGED <<sent, stage, cursor, chanVars, opened, registry, slotsVars, lost>>

SendJob ==
  /\ sent < jobs
  /\ sent' = jobs
  /\ UNCHANGED <<jobs, stage, cursor, chanVars, opened, registry, slotsVars, lost>>

(* accept_loop: the per-address permit, then the global one; the receiver is  *)
(* subscribed before the handshake.                                           *)
AcceptMiner(c, a) ==
  /\ stage[c] = "none"
  /\ MaxPerAddr = 0 \/ perAddr[a] < MaxPerAddr
  /\ slots > 0
  /\ slots' = slots - 1
  /\ perAddr' = IF MaxPerAddr = 0 THEN perAddr ELSE [perAddr EXCEPT ![a] = @ + 1]
  /\ addrOf' = [addrOf EXCEPT ![c] = a]
  /\ stage' = [stage EXCEPT ![c] = "handshake"]
  /\ cursor' = [cursor EXCEPT ![c] = sent + 1]
  /\ UNCHANGED <<jobVars, chanVars, opened, registry, lost>>

\* The task ends, and with it go its permits, its channels and its receiver.
EndTask(c) ==
  /\ stage' = [stage EXCEPT ![c] = "none"]
  /\ slots' = slots + 1
  /\ perAddr' = IF perAddr[addrOf[c]] = 0 THEN perAddr
                ELSE [perAddr EXCEPT ![addrOf[c]] = @ - 1]
  /\ cursor' = [cursor EXCEPT ![c] = 1]
  /\ owner' = [i \in ChannelId |-> IF owner[i] = c THEN Nobody ELSE owner[i]]
  /\ open' = open \ Mine(c)
  /\ current' = [i \in ChannelId |-> IF owner[i] = c THEN 0 ELSE current[i]]
  /\ opened' = [opened EXCEPT ![c] = {}]
  /\ addrOf' = [addrOf EXCEPT ![c] = AnyAddr]
  /\ UNCHANGED <<jobVars, nextId>>

\* Variant: a task that never had a session keeps its permits.
HandshakeRefusedKeeps(c) ==
  /\ stage[c] = "handshake"
  /\ stage' = [stage EXCEPT ![c] = "none"]
  /\ UNCHANGED <<jobVars, cursor, chanVars, opened, registry, slotsVars, lost>>

\* perform_handshake fails or times out: the task returns.
HandshakeRefused(c) ==
  /\ stage[c] = "handshake"
  /\ EndTask(c)
  /\ UNCHANGED <<registry, lost>>

ToStage(c, next) ==
  /\ stage' = [stage EXCEPT ![c] = next]
  /\ UNCHANGED <<jobVars, cursor, slotsVars>>

HandshakeComplete(c) ==
  /\ stage[c] = "handshake"
  /\ ToStage(c, "setup")
  /\ UNCHANGED <<chanVars, opened, registry, lost>>

\* handle_setup_connection answers Success; its read has no deadline.
SetupAccepted(c) ==
  /\ stage[c] = "setup"
  /\ ToStage(c, "await")
  /\ UNCHANGED <<chanVars, opened, registry, lost>>

(* The part of the two open handlers up to the registration: an id is spent,  *)
(* the map's limit is tested on all its entries, closed ones included, and    *)
(* the id enters opened_ids together with the registry.                       *)
RegisterChannel(c) ==
  /\ nextId <= MaxChannelId
  /\ nextId' = nextId + 1
  /\ UNCHANGED <<current, lost>>
  /\ IF Cardinality(Mine(c)) >= MaxChannelsPerConn
       THEN /\ ToStage(c, "cleanup")
            /\ UNCHANGED <<owner, open, opened, registry>>
       ELSE /\ owner' = [owner EXCEPT ![nextId] = c]
            /\ open' = open \union {nextId}
            /\ registry' = registry \union {nextId}
            /\ opened' = [opened EXCEPT ![c] = @ \union {nextId}]
            /\ ToStage(c, IF stage[c] = "await" THEN "first" ELSE "more")

handle_open_standard_channel(c) ==
  /\ stage[c] \in {"await", "steady"}
  /\ RegisterChannel(c)

\* An extended channel also says how much of the extranonce the miner wants.
handle_open_extended_channel(c, min_extranonce_size) ==
  /\ stage[c] \in {"await", "steady"}
  /\ IF min_extranonce_size \in 2 .. 8
       THEN RegisterChannel(c)
       ELSE ToStage(c, "cleanup") /\ UNCHANGED <<chanVars, opened, registry, lost>>

\* The channel whose first messages are being written.
Newest(c) == CHOOSE i \in Mine(c) : \A k \in Mine(c) : k <= i

\* record_active_job_sent, on every channel of S.
GiveJob(S, j) == current' = [i \in ChannelId |-> IF i \in S THEN j ELSE current[i]]

(* ... and from there on: Success, SetTarget and the initial job, which is    *)
(* latest_job as it is read after those writes.                               *)
SendInitialJob(c) ==
  /\ stage[c] \in {"first", "more"}
  /\ GiveJob({Newest(c)}, jobs)
  /\ ToStage(c, "steady")
  /\ UNCHANGED <<owner, open, nextId, opened, registry, lost>>

\* Variant: only the writes are under the timeout.
OpenTimeoutOfWrites(c) ==
  /\ stage[c] = "first"
  /\ ToStage(c, "cleanup")
  /\ UNCHANGED <<chanVars, opened, registry, lost>>

\* The first open must be complete, writes included, within channel_open_timeout.
OpenTimeout(c) ==
  /\ stage[c] \in {"await", "first"}
  /\ ToStage(c, "cleanup")
  /\ UNCHANGED <<chanVars, opened, registry, lost>>

\* handle_close_channel, for whichever id the frame names.
CloseOne(c, i) ==
  /\ stage[c] = "steady"
  /\ open' = IF owner[i] = c THEN open \ {i} ELSE open
  /\ registry' = registry \ {i}
  /\ ToStage(c, IF open' \intersect Mine(c) = {} THEN "cleanup" ELSE "steady")
  /\ UNCHANGED <<owner, current, nextId, opened, lost>>

\* The oldest job the broadcast channel still holds.
Oldest == IF sent > BroadcastSlots THEN sent - BroadcastSlots + 1 ELSE 1

(* job_rx.recv(): a receiver that fell behind is told so and goes on with the *)
(* oldest job there is; otherwise distribute_job writes to every open channel.*)
ReceiveJob(c) ==
  /\ stage[c] = "steady"
  /\ cursor[c] <= sent
  /\ IF cursor[c] < Oldest
       THEN /\ cursor' = [cursor EXCEPT ![c] = Oldest]
            /\ UNCHANGED current
       ELSE /\ cursor' = [cursor EXCEPT ![c] = @ + 1]
            /\ GiveJob(open \intersect Mine(c), cursor[c])
  /\ UNCHANGED <<jobVars, stage, owner, open, nextId, opened, registry, slotsVars, lost>>

(* Every other way out of run_connection_inner: a read or write that fails, a *)
(* rejected or undecodable message, the shutdown watch.                       *)
LeaveSession(c) ==
  /\ stage[c] \in {"setup", "await", "first", "more", "steady"}
  /\ ToStage(c, "cleanup")
  /\ UNCHANGED <<chanVars, opened, registry, lost>>

(* handle_submit_shares on a payload that does not decode: the error code of  *)
(* FrameDecodeError is asked for, for which to_sv2_error_code has no arm      *)
(* ("unreachable"), so the task unwinds here.                                 *)
SubmitGarbled(c) ==
  /\ stage[c] = "steady"
  /\ EndTask(c)
  /\ lost' = lost \union opened[c]
  /\ UNCHANGED registry

\* The end of run_connection: unregister what was opened, one id at a time ...
Unregister(c) ==
  /\ stage[c] = "cleanup"
  /\ opened[c] # {}
  /\ \E i \in opened[c] :
       /\ registry' = registry \ {i}
       /\ opened' = [opened EXCEPT ![c] = @ \ {i}]
  /\ UNCHANGED <<jobVars, stage, cursor, chanVars, slotsVars, lost>>

\* ... then report the disconnect.
ReportDisconnect(c) ==
  /\ stage[c] = "cleanup"
  /\ opened[c] = {}
  /\ EndTask(c)
  /\ UNCHANGED <<registry, lost>>

SessionStep(c) ==
  \/ \E a \in Addr : AcceptMiner(c, a)
  \/ HandshakeRefused(c) \/ HandshakeComplete(c) \/ SetupAccepted(c)
  \/ handle_open_standard_channel(c)
  \/ \E size \in {1, 2, 8, 9} : handle_open_extended_channel(c, size)
  \/ SendInitialJob(c) \/ OpenTimeout(c)
  \/ \E i \in 1 .. nextId - 1 : CloseOne(c, i)
  \/ ReceiveJob(c) \/ LeaveSession(c) \/ SubmitGarbled(c)
  \/ Unregister(c) \/ ReportDisconnect(c)

SessionNext ==
  \/ StoreJob \/ SendJob
  \/ \E c \in Conn : SessionStep(c)

SessionSpec == SessionInit /\ [][SessionNext]_sessionVars

(* Fairness: the main loop completes the publication it began; a session task *)
(* that can run runs (select! picks its ready arms at random); the timers     *)
(* fire and the cleanup comes to its end.  Nothing is asked of a miner.       *)
SessionFairness ==
  /\ WF_sessionVars(SendJob)
  /\ \A c \in Conn :
       WF_sessionVars(\/ ReceiveJob(c) \/ OpenTimeout(c) \/ SendInitialJob(c)
                      \/ Unregister(c) \/ ReportDisconnect(c))

----------------------------------------------------------------------------
(* Properties *)

\* One type invariant for the module.
SessionTypeOK ==
  /\ jobs \in 0 .. MaxJobs /\ sent \in {jobs, jobs - 1} \intersect Nat
  /\ stage \in [Conn -> {"none", "handshake", "setup", "await", "first", "more", "steady",
                         "cleanup"}]
  /\ addrOf \in [Conn -> Addr]
  /\ cursor \in [Conn -> 1 .. MaxJobs + 1]
  /\ owner \in [ChannelId -> Conn \union {Nobody}]
  /\ open \subseteq ChannelId /\ registry \subseteq ChannelId
  /\ current \in [ChannelId -> 0 .. MaxJobs]
  /\ opened \in [Conn -> SUBSET ChannelId]
  /\ nextId \in 1 .. MaxChannelId + 1
  /\ slots \in 0 .. MaxSessions
  /\ perAddr \in [Addr -> Nat]
  /\ lost \subseteq ChannelId

(* A task gives back exactly the permits it took, on every way out of it, the *)
(* unwinding one included (main.rs:2456-2459): the limits count live tasks.   *)
PermitsMatchTasks ==
  /\ slots = MaxSessions - Cardinality(Live)
  /\ MaxPerAddr # 0 =>
       \A a \in Addr : /\ perAddr[a] = Cardinality({c \in Live : addrOf[c] = a})
                       /\ perAddr[a] <= MaxPerAddr

(* handler.rs:251-254.  What GET /channels lists are channels of sessions     *)
(* that still run: no exit, not even one that overtakes the first messages of *)
(* a channel, leaves an entry behind, unless the session unwound.             *)
RegistryIsLive ==
  \A i \in registry \ lost : owner[i] # Nobody /\ i \in opened[owner[i]]

(* handler.rs:338-340.  A session "catches up": every open channel comes to   *)
(* work on the last job published, however far its receiver fell behind and   *)
(* whichever older jobs were still queued when the channel was opened.        *)
CatchesUp ==
  \A i \in ChannelId :
    i \in open ~> (i \notin open \/ stage[owner[i]] = "cleanup"
                   \/ current[i] = jobs)

(* handler.rs:300-317.  A session that was set up opens a channel or is let   *)
(* go: the timeout also covers the writes that follow the registration.       *)
OpenOrLeave == \A c \in Conn : stage[c] \in {"await", "first"} ~> stage[c] \in {"steady", "none"}

(* What a session holds it gives back: its permits, its place at the address  *)
(* and its rows in the registry.                                              *)
SessionsAccounted == PermitsMatchTasks /\ RegistryIsLive

(* handler.rs:296-360.  A session does not hang: it opens a channel or        *)
(* leaves, and an open channel comes to the last job.                         *)
SessionsProgress == CatchesUp /\ OpenOrLeave
=============================================================================
