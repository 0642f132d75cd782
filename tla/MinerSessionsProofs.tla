------------------------ MODULE MinerSessionsProofs ------------------------
(* The session slots and the channel registry proved for any number of        *)
(* sockets, addresses, channels and jobs; the identifiers that are handed out,*)
(* and the accounts.                                                          *)
EXTENDS MinerSessions, Allocators, Accounts, FiniteSetTheorems, TLAPS

LiveFrom(a) == {c \in Live : addrOf[c] = a}
Stage == {"none", "handshake", "setup", "await", "first", "more", "steady", "cleanup"}

(* The inductive invariant adds to the two properties that a session owns no  *)
(* channel before it opens one, so the ways out of the earlier stages, which  *)
(* skip the unregistering, have nothing to unregister.                        *)
SessionInv ==
  /\ SessionTypeOK
  /\ PermitsMatchTasks
  /\ RegistryIsLive
  /\ \A c \in Conn : stage[c] \in {"none", "handshake", "setup", "await"} => opened[c] = {}

----------------------------------------------------------------------------
\* What the assumption on the constants says, limit by limit.
LEMMA Limits ==
  /\ MaxSessions \in Nat /\ MaxPerAddr \in Nat /\ MaxJobs \in Nat /\ MaxChannelId \in Nat
  /\ BroadcastSlots \in Nat \ {0}
  /\ AnyAddr \in Addr /\ Nobody \notin Conn
<1>1. AnyAddr \in Addr
  BY SessionConstants, Zenon DEF AnyAddr
<1> QED  BY <1>1, SessionConstants

\* The connection tasks can be counted, in all and per address.
LEMMA LiveFinite ==
  /\ IsFiniteSet(Live) /\ Cardinality(Live) \in Nat
  /\ \A a : IsFiniteSet(LiveFrom(a)) /\ Cardinality(LiveFrom(a)) \in Nat
<1>1. Live \subseteq Conn /\ \A a : LiveFrom(a) \subseteq Conn
  BY DEF Live, LiveFrom
<1>2. IsFiniteSet(Live) /\ \A a : IsFiniteSet(LiveFrom(a))
  BY <1>1, SessionConstants, FS_Subset
<1> QED  BY <1>2, FS_CardinalityType

\* The gateway starts with every permit free and an empty registry.
LEMMA InitSessionInv == SessionInit => SessionInv
<1> SUFFICES ASSUME SessionInit  PROVE SessionInv
  OBVIOUS
<1>1. SessionTypeOK
  BY Limits DEF SessionInit, SessionTypeOK, ChannelId
<1>2. Live = {} /\ \A a : {c \in Live : addrOf[c] = a} = {}
  BY DEF SessionInit, Live
<1>3. PermitsMatchTasks
  BY <1>2, FS_EmptySet, Limits DEF SessionInit, PermitsMatchTasks
<1> QED  BY <1>1, <1>3 DEF SessionInv, SessionInit, RegistryIsLive

----------------------------------------------------------------------------
(* The permits *)

\* A step that neither opens nor ends a task leaves the limits as they are.
LEMMA SameTasks ==
  ASSUME SessionInv, UNCHANGED slotsVars,
         \A c \in Conn : stage'[c] = "none" <=> stage[c] = "none"
  PROVE  PermitsMatchTasks'
<1>1. Live' = Live
  BY DEF Live
<1>2. \A a : {c \in Live : addrOf[c] = a}' = {c \in Live : addrOf[c] = a}
  BY <1>1 DEF slotsVars
<1> QED  BY <1>1, <1>2 DEF SessionInv, PermitsMatchTasks, slotsVars

\* An accepted connection takes one permit and one count of its address.
LEMMA AcceptPermits ==
  ASSUME SessionInv, NEW c \in Conn, NEW a \in Addr, AcceptMiner(c, a)
  PROVE  PermitsMatchTasks' /\ slots' \in 0 .. MaxSessions /\ perAddr' \in [Addr -> Nat]
<1>1. /\ stage \in [Conn -> Stage] /\ addrOf \in [Conn -> Addr]
      /\ slots \in 0 .. MaxSessions /\ perAddr \in [Addr -> Nat]
  BY DEF SessionInv, SessionTypeOK, Stage
<1>2. c \notin Live /\ \A b : c \notin LiveFrom(b)
  BY DEF AcceptMiner, Live, LiveFrom
<1>3. Live' = Live \union {c}
  BY <1>1 DEF AcceptMiner, Live
<1>4. /\ LiveFrom(a)' = LiveFrom(a) \union {c}
      /\ \A b \in Addr : b # a => LiveFrom(b)' = LiveFrom(b)
  BY <1>1, <1>2, <1>3 DEF AcceptMiner, Live, LiveFrom
<1>5. /\ Cardinality(Live') = Cardinality(Live) + 1
      /\ Cardinality(LiveFrom(a)') = Cardinality(LiveFrom(a)) + 1
  BY <1>2, <1>3, <1>4, LiveFinite, FS_AddElement, Zenon
<1>6. slots' = MaxSessions - Cardinality(Live') /\ slots' \in 0 .. MaxSessions
  BY <1>1, <1>5, LiveFinite, Limits DEF SessionInv, PermitsMatchTasks, AcceptMiner
<1>7. perAddr' \in [Addr -> Nat]
  BY <1>1 DEF AcceptMiner
<1>8. ASSUME MaxPerAddr # 0, NEW b \in Addr
      PROVE  perAddr'[b] = Cardinality(LiveFrom(b)') /\ perAddr'[b] <= MaxPerAddr
  <2>1. /\ perAddr' = [perAddr EXCEPT ![a] = @ + 1] /\ perAddr[a] < MaxPerAddr
        /\ perAddr[b] = Cardinality(LiveFrom(b)) /\ perAddr[b] <= MaxPerAddr
        /\ perAddr[a] = Cardinality(LiveFrom(a))
    BY <1>8 DEF SessionInv, PermitsMatchTasks, AcceptMiner, LiveFrom
  <2>2. CASE b = a
    BY <1>1, <1>5, <2>1, <2>2, Limits
  <2>3. CASE b # a
    BY <1>1, <1>4, <2>1, <2>3
  <2> QED  BY <2>2, <2>3
<1> QED  BY <1>6, <1>7, <1>8 DEF PermitsMatchTasks, LiveFrom

\* The end of a connection task gives both back, from whichever stage it ends.
LEMMA EndPermits ==
  ASSUME SessionInv, NEW c \in Conn, stage[c] # "none", EndTask(c)
  PROVE  PermitsMatchTasks' /\ slots' \in 0 .. MaxSessions /\ perAddr' \in [Addr -> Nat]
<1>1. /\ stage \in [Conn -> Stage] /\ addrOf \in [Conn -> Addr]
      /\ slots \in 0 .. MaxSessions /\ perAddr \in [Addr -> Nat]
  BY DEF SessionInv, SessionTypeOK, Stage
<1>2. PICK a \in Addr : a = addrOf[c]
  BY <1>1
<1>3. c \in Live /\ c \in LiveFrom(a)
  BY <1>2 DEF Live, LiveFrom
<1>4. Live' = Live \ {c}
  BY <1>1 DEF EndTask, Live
<1>5. /\ LiveFrom(a)' = LiveFrom(a) \ {c}
      /\ \A b \in Addr : b # a => LiveFrom(b)' = LiveFrom(b)
  BY <1>1, <1>2, <1>4 DEF EndTask, Live, LiveFrom
<1>6. /\ Cardinality(Live') = Cardinality(Live) - 1
      /\ Cardinality(LiveFrom(a)') = Cardinality(LiveFrom(a)) - 1
      /\ Cardinality(Live') \in Nat /\ Cardinality(LiveFrom(a)') \in Nat
  BY <1>3, <1>4, <1>5, LiveFinite, FS_RemoveElement, FS_CardinalityType
<1>7. slots' = MaxSessions - Cardinality(Live') /\ slots' \in 0 .. MaxSessions
  BY <1>1, <1>6, LiveFinite, Limits DEF SessionInv, PermitsMatchTasks, EndTask
<1>8. perAddr' \in [Addr -> Nat]
  BY <1>1, <1>2 DEF EndTask
<1>9. ASSUME MaxPerAddr # 0, NEW b \in Addr
      PROVE  perAddr'[b] = Cardinality(LiveFrom(b)') /\ perAddr'[b] <= MaxPerAddr
  <2>1. /\ perAddr[b] = Cardinality(LiveFrom(b)) /\ perAddr[b] <= MaxPerAddr
        /\ perAddr[a] = Cardinality(LiveFrom(a))
    BY <1>9 DEF SessionInv, PermitsMatchTasks, LiveFrom
  <2>2. perAddr' = [perAddr EXCEPT ![a] = @ - 1]
    BY <1>2, <1>6, <2>1, LiveFinite DEF EndTask
  <2>3. CASE b = a
    BY <1>1, <1>6, <2>1, <2>2, <2>3, LiveFinite, Limits
  <2>4. CASE b # a
    BY <1>1, <1>5, <2>1, <2>2, <2>4
  <2> QED  BY <2>3, <2>4
<1> QED  BY <1>7, <1>8, <1>9 DEF PermitsMatchTasks, LiveFrom

----------------------------------------------------------------------------
(* The steps *)

\* What of the type concerns the channels.
ChannelsTypeOK ==
  /\ owner \in [ChannelId -> Conn \union {Nobody}]
  /\ open \subseteq ChannelId /\ registry \subseteq ChannelId
  /\ current \in [ChannelId -> 0 .. MaxJobs]
  /\ opened \in [Conn -> SUBSET ChannelId]
  /\ nextId \in 1 .. MaxChannelId + 1
  /\ lost \subseteq ChannelId

NoneYet == \A c \in Conn : stage[c] \in {"none", "handshake", "setup", "await"} => opened[c] = {}

\* The end of a task, when what it had registered is gone or written off.
LEMMA EndInv ==
  ASSUME SessionInv, NEW c \in Conn, stage[c] # "none", EndTask(c),
         registry' = registry, lost \subseteq lost', lost' \subseteq ChannelId,
         opened[c] \subseteq lost'
  PROVE  SessionInv'
<1>1. PermitsMatchTasks' /\ slots' \in 0 .. MaxSessions /\ perAddr' \in [Addr -> Nat]
  BY EndPermits
<1>2. SessionTypeOK'
  <2>1. ChannelsTypeOK'
    BY Limits DEF SessionInv, SessionTypeOK, ChannelsTypeOK, EndTask
  <2>2. /\ jobs' \in 0 .. MaxJobs /\ sent' \in {jobs', jobs' - 1} \intersect Nat
        /\ stage' \in [Conn -> Stage] /\ addrOf' \in [Conn -> Addr]
        /\ cursor' \in [Conn -> 1 .. MaxJobs + 1]
    BY Limits DEF SessionInv, SessionTypeOK, EndTask, Stage, jobVars
  <2> QED  BY <1>1, <2>1, <2>2, Zenon DEF SessionTypeOK, ChannelsTypeOK, Stage
<1>3. RegistryIsLive'
  <2> SUFFICES ASSUME NEW i \in registry' \ lost'
               PROVE  owner'[i] # Nobody /\ i \in opened'[owner'[i]]
    BY DEF RegistryIsLive
  <2>1. i \in ChannelId /\ owner[i] # Nobody /\ i \in opened[owner[i]] /\ owner[i] \in Conn
    BY DEF SessionInv, SessionTypeOK, RegistryIsLive
  <2>2. owner[i] # c
    BY <2>1
  <2>3. owner'[i] = owner[i] /\ opened'[owner[i]] = opened[owner[i]]
    BY <2>1, <2>2 DEF SessionInv, SessionTypeOK, EndTask
  <2> QED  BY <2>1, <2>3
<1>4. NoneYet'
  BY DEF SessionInv, SessionTypeOK, EndTask, NoneYet
<1> QED  BY <1>1, <1>2, <1>3, <1>4 DEF SessionInv, NoneYet

\* A task that goes on.
LEMMA GoesOnInv ==
  ASSUME SessionInv, NEW c \in Conn, stage[c] # "none", NEW step \in Stage \ {"none"},
         ToStage(c, step), ChannelsTypeOK', RegistryIsLive', NoneYet'
  PROVE  SessionInv'
<1>1. SessionTypeOK'
  BY Zenon DEF SessionInv, SessionTypeOK, ChannelsTypeOK, ToStage, Stage, jobVars, slotsVars
<1>2. PermitsMatchTasks'
  <2>1. \A d \in Conn : stage'[d] = "none" <=> stage[d] = "none"
    BY DEF SessionInv, SessionTypeOK, ToStage
  <2> QED  BY <2>1, SameTasks DEF ToStage
<1> QED  BY <1>1, <1>2 DEF SessionInv, NoneYet

\* The same without a change of the channels, for a stage that is not an early one
\* unless the task was in an early one.
LEMMA MovesInv ==
  ASSUME SessionInv, NEW c \in Conn, stage[c] # "none", NEW step \in Stage \ {"none"},
         step \in {"setup", "await"} => stage[c] \in {"handshake", "setup"},
         step # "handshake",
         ToStage(c, step), UNCHANGED <<owner, open, nextId, opened, registry, lost>>,
         current' \in [ChannelId -> 0 .. MaxJobs]
  PROVE  SessionInv'
<1>1. ChannelsTypeOK'
  BY DEF SessionInv, SessionTypeOK, ChannelsTypeOK
<1>2. RegistryIsLive'
  BY DEF SessionInv, RegistryIsLive
<1>3. NoneYet'
  BY DEF SessionInv, SessionTypeOK, NoneYet, ToStage, Stage
<1> QED  BY <1>1, <1>2, <1>3, GoesOnInv

\* open_channel: the new id gets its registry row while its session lives.
LEMMA RegisterInv ==
  ASSUME SessionInv, NEW c \in Conn, stage[c] \in {"await", "steady"}, RegisterChannel(c)
  PROVE  SessionInv'
<1>1. nextId \in ChannelId /\ nextId' = nextId + 1 /\ current' = current /\ lost' = lost
  BY Limits DEF SessionInv, SessionTypeOK, RegisterChannel, ChannelId
<1>2. CASE Cardinality(Mine(c)) >= MaxChannelsPerConn
  <2>1. ToStage(c, "cleanup") /\ UNCHANGED <<owner, open, opened, registry>>
    BY <1>2 DEF RegisterChannel
  <2>2. ChannelsTypeOK'
    BY <1>1, <2>1, Limits DEF SessionInv, SessionTypeOK, ChannelsTypeOK, ChannelId
  <2>3. RegistryIsLive'
    BY <1>1, <2>1 DEF SessionInv, RegistryIsLive
  <2>4. NoneYet'
    BY <2>1 DEF SessionInv, SessionTypeOK, NoneYet, ToStage
  <2> QED  BY <2>1, <2>2, <2>3, <2>4, GoesOnInv DEF Stage
<1>3. CASE ~(Cardinality(Mine(c)) >= MaxChannelsPerConn)
  <2>1. /\ owner' = [owner EXCEPT ![nextId] = c]
        /\ open' = open \union {nextId}
        /\ registry' = registry \union {nextId}
        /\ opened' = [opened EXCEPT ![c] = @ \union {nextId}]
    BY <1>3 DEF RegisterChannel
  <2>2. PICK step \in {"first", "more"} : ToStage(c, step)
    <3>1. ToStage(c, IF stage[c] = "await" THEN "first" ELSE "more")
      BY <1>3 DEF RegisterChannel
    <3>2. CASE stage[c] = "await"
      BY <3>1, <3>2
    <3>3. CASE stage[c] # "await"
      BY <3>1, <3>3
    <3> QED  BY <3>2, <3>3
  <2>3. ChannelsTypeOK'
    <3>1. ChannelsTypeOK
      BY DEF SessionInv, SessionTypeOK, ChannelsTypeOK
    <3>2. nextId' \in 1 .. MaxChannelId + 1
      BY <1>1, Limits DEF ChannelId
    <3>3. owner' \in [ChannelId -> Conn \union {Nobody}]
      BY <1>1, <2>1, <3>1 DEF ChannelsTypeOK
    <3>4. opened' \in [Conn -> SUBSET ChannelId]
      BY <1>1, <2>1, <3>1 DEF ChannelsTypeOK
    <3> QED  BY <1>1, <2>1, <3>1, <3>2, <3>3, <3>4 DEF ChannelsTypeOK
  <2>4. RegistryIsLive'
    <3> SUFFICES ASSUME NEW i \in registry' \ lost'
                 PROVE  owner'[i] # Nobody /\ i \in opened'[owner'[i]]
      BY DEF RegistryIsLive
    <3>1. CASE i = nextId
      <4>1. owner'[i] = c /\ i \in opened'[c]
        BY <1>1, <2>1, <3>1 DEF SessionInv, SessionTypeOK
      <4> QED  BY <4>1, Limits
    <3>2. CASE i # nextId
      <4>1. i \in ChannelId /\ owner[i] # Nobody /\ i \in opened[owner[i]] /\ owner[i] \in Conn
        BY <1>1, <2>1, <3>2 DEF SessionInv, SessionTypeOK, RegistryIsLive
      <4>2. owner'[i] = owner[i] /\ opened[owner[i]] \subseteq opened'[owner[i]]
        BY <2>1, <3>2, <4>1 DEF SessionInv, SessionTypeOK
      <4> QED  BY <4>1, <4>2
    <3> QED  BY <3>1, <3>2
  <2>5. NoneYet'
    BY <2>1, <2>2 DEF SessionInv, SessionTypeOK, NoneYet, ToStage
  <2> QED  BY <2>2, <2>3, <2>4, <2>5, GoesOnInv DEF Stage
<1> QED  BY <1>2, <1>3

\* CloseChannel removes the row of the id it names, whoever owns the channel.
LEMMA CloseInv ==
  ASSUME SessionInv, NEW c \in Conn, NEW i, CloseOne(c, i)
  PROVE  SessionInv'
<1>1. /\ stage[c] = "steady" /\ UNCHANGED <<owner, current, nextId, opened, lost>>
      /\ open' \subseteq open /\ registry' \subseteq registry
  BY DEF CloseOne
<1>2. PICK step \in {"cleanup", "steady"} : ToStage(c, step)
  <2>1. ToStage(c, IF open' \intersect Mine(c) = {} THEN "cleanup" ELSE "steady")
    BY DEF CloseOne
  <2>2. CASE open' \intersect Mine(c) = {}
    BY <2>1, <2>2
  <2>3. CASE open' \intersect Mine(c) # {}
    BY <2>1, <2>3
  <2> QED  BY <2>2, <2>3
<1>3. ChannelsTypeOK'
  BY <1>1 DEF SessionInv, SessionTypeOK, ChannelsTypeOK
<1>4. RegistryIsLive'
  BY <1>1 DEF SessionInv, RegistryIsLive
<1>5. NoneYet'
  BY <1>1, <1>2 DEF SessionInv, SessionTypeOK, NoneYet, ToStage
<1> QED  BY <1>1, <1>2, <1>3, <1>4, <1>5, GoesOnInv DEF Stage

\* The cleanup of a session removes its rows one at a time before the task ends.
LEMMA UnregisterInv ==
  ASSUME SessionInv, NEW c \in Conn, Unregister(c)
  PROVE  SessionInv'
<1>1. PICK i \in opened[c] : /\ registry' = registry \ {i}
                             /\ opened' = [opened EXCEPT ![c] = @ \ {i}]
  BY Zenon DEF Unregister
<1>2. UNCHANGED <<jobs, sent, stage, cursor, owner, open, current, nextId, slotsVars, lost>>
  BY DEF Unregister, jobVars, chanVars
<1>3. SessionTypeOK'
  BY <1>1, <1>2 DEF SessionInv, SessionTypeOK, slotsVars
<1>4. PermitsMatchTasks'
  BY <1>2, SameTasks
<1>5. RegistryIsLive'
  <2> SUFFICES ASSUME NEW k \in registry' \ lost'
               PROVE  owner'[k] # Nobody /\ k \in opened'[owner'[k]]
    BY DEF RegistryIsLive
  <2>1. k \in registry \ lost /\ k # i
    BY <1>1, <1>2
  <2>2. /\ k \in ChannelId /\ owner[k] # Nobody /\ k \in opened[owner[k]]
        /\ owner[k] \in Conn
    BY <2>1 DEF SessionInv, SessionTypeOK, RegistryIsLive
  <2>3. k \in opened'[owner[k]]
    BY <1>1, <2>1, <2>2 DEF SessionInv, SessionTypeOK
  <2> QED  BY <1>2, <2>2, <2>3
<1>6. NoneYet'
  BY <1>1, <1>2 DEF SessionInv, SessionTypeOK, NoneYet
<1> QED  BY <1>3, <1>4, <1>5, <1>6 DEF SessionInv, NoneYet

\* An accepted connection owns no channel yet, so the registry is untouched.
LEMMA AcceptInv ==
  ASSUME SessionInv, NEW c \in Conn, NEW a \in Addr, AcceptMiner(c, a)
  PROVE  SessionInv'
<1>1. PermitsMatchTasks' /\ slots' \in 0 .. MaxSessions /\ perAddr' \in [Addr -> Nat]
  BY AcceptPermits
<1>2. /\ UNCHANGED <<jobs, sent, owner, open, current, nextId, opened, registry, lost>>
      /\ stage[c] = "none" /\ stage' = [stage EXCEPT ![c] = "handshake"]
      /\ addrOf' = [addrOf EXCEPT ![c] = a] /\ cursor' = [cursor EXCEPT ![c] = sent + 1]
  BY DEF AcceptMiner, jobVars, chanVars
<1>3. SessionTypeOK'
  <2>1. sent + 1 \in 1 .. MaxJobs + 1
    BY Limits DEF SessionInv, SessionTypeOK
  <2> QED  BY <1>1, <1>2, <2>1 DEF SessionInv, SessionTypeOK
<1>4. RegistryIsLive'
  BY <1>2 DEF SessionInv, RegistryIsLive
<1>5. NoneYet'
  BY <1>2 DEF SessionInv, SessionTypeOK, NoneYet
<1> QED  BY <1>1, <1>3, <1>4, <1>5 DEF SessionInv, NoneYet

\* Steps of the main loop, and a job that reaches its receiver.
LEMMA JobInv ==
  ASSUME SessionInv, UNCHANGED <<stage, owner, open, nextId, opened, registry, slotsVars, lost>>,
         jobs' \in 0 .. MaxJobs, sent' \in {jobs', jobs' - 1} \intersect Nat,
         cursor' \in [Conn -> 1 .. MaxJobs + 1], current' \in [ChannelId -> 0 .. MaxJobs]
  PROVE  SessionInv'
<1>1. SessionTypeOK'
  BY Zenon DEF SessionInv, SessionTypeOK, slotsVars
<1>2. PermitsMatchTasks'
  BY SameTasks
<1>3. RegistryIsLive' /\ NoneYet'
  BY DEF SessionInv, RegistryIsLive, NoneYet
<1> QED  BY <1>1, <1>2, <1>3 DEF SessionInv, NoneYet

\* Every step of the accept loop, of a session and of the job feed keeps both.
LEMMA StepSessionInv == SessionInv /\ [SessionNext]_sessionVars => SessionInv'
<1> SUFFICES ASSUME SessionInv, [SessionNext]_sessionVars  PROVE SessionInv'
  OBVIOUS
<1>0. /\ jobs \in 0 .. MaxJobs /\ sent \in {jobs, jobs - 1} \intersect Nat
      /\ cursor \in [Conn -> 1 .. MaxJobs + 1] /\ current \in [ChannelId -> 0 .. MaxJobs]
      /\ lost \subseteq ChannelId
      /\ \A c \in Conn : opened[c] \subseteq ChannelId
      /\ \A c \in Conn : stage[c] \in {"none", "handshake", "setup", "await"} => opened[c] = {}
  BY DEF SessionInv, SessionTypeOK
<1>1. CASE UNCHANGED sessionVars
  BY <1>0, <1>1, JobInv DEF sessionVars, jobVars, chanVars
<1>2. CASE StoreJob \/ SendJob
  <2>1. jobs' \in 0 .. MaxJobs /\ sent' \in {jobs', jobs' - 1} \intersect Nat
    BY <1>0, <1>2, Limits DEF StoreJob, SendJob
  <2>2. UNCHANGED <<stage, cursor, owner, open, current, nextId, opened, registry, slotsVars, lost>>
    BY <1>2 DEF StoreJob, SendJob, chanVars
  <2> QED  BY <1>0, <2>1, <2>2, JobInv, Zenon
<1>3. ASSUME NEW c \in Conn, SessionStep(c)  PROVE SessionInv'
  <2>1. ASSUME NEW a \in Addr, AcceptMiner(c, a)  PROVE SessionInv'
    BY <2>1, AcceptInv
  <2>2. CASE HandshakeRefused(c) \/ ReportDisconnect(c) \/ SubmitGarbled(c)
    BY <1>0, <2>2, EndInv DEF HandshakeRefused, ReportDisconnect, SubmitGarbled
  <2>3. CASE HandshakeComplete(c) \/ SetupAccepted(c)
    BY <1>0, <2>3, MovesInv DEF HandshakeComplete, SetupAccepted, chanVars, Stage
  <2>4. CASE handle_open_standard_channel(c)
    BY <2>4, RegisterInv DEF handle_open_standard_channel
  <2>5. ASSUME NEW size, handle_open_extended_channel(c, size)  PROVE SessionInv'
    <3>1. CASE size \in 2 .. 8
      BY <2>5, <3>1, RegisterInv DEF handle_open_extended_channel
    <3>2. CASE size \notin 2 .. 8
      BY <1>0, <2>5, <3>2, MovesInv DEF handle_open_extended_channel, chanVars, Stage
    <3> QED  BY <3>1, <3>2
  <2>6. CASE SendInitialJob(c)
    <3>1. current' \in [ChannelId -> 0 .. MaxJobs]
      BY <1>0, <2>6 DEF SendInitialJob, GiveJob
    <3> QED  BY <2>6, <3>1, MovesInv DEF SendInitialJob, Stage
  <2>7. CASE OpenTimeout(c) \/ LeaveSession(c)
    BY <1>0, <2>7, MovesInv DEF OpenTimeout, LeaveSession, chanVars, Stage
  <2>8. ASSUME NEW i, CloseOne(c, i)  PROVE SessionInv'
    BY <2>8, CloseInv
  <2>9. CASE ReceiveJob(c)
    <3>1. /\ UNCHANGED <<jobs, sent, stage, owner, open, nextId, opened, registry, slotsVars, lost>>
          /\ cursor[c] <= sent
      BY <2>9 DEF ReceiveJob, jobVars
    <3>2. cursor[c] \in 1 .. MaxJobs /\ Oldest \in 1 .. MaxJobs + 1
      BY <1>0, <3>1, Limits DEF Oldest
    <3>3. cursor' \in [Conn -> 1 .. MaxJobs + 1]
      BY <1>0, <2>9, <3>2, Limits DEF ReceiveJob
    <3>4. current' \in [ChannelId -> 0 .. MaxJobs]
      BY <1>0, <2>9, <3>2, Limits DEF ReceiveJob, GiveJob
    <3> QED  BY <1>0, <3>1, <3>3, <3>4, JobInv
  <2>10. CASE Unregister(c)
    BY <2>10, UnregisterInv
  <2> QED
    BY <1>3, <2>1, <2>2, <2>3, <2>4, <2>5, <2>6, <2>7, <2>8, <2>9, <2>10 DEF SessionStep
<1> QED  BY <1>1, <1>2, <1>3 DEF SessionNext

\* The inductive invariant of the miner sessions holds in every reachable state.
THEOREM SessionInvHolds == SessionSpec => []SessionInv
BY InitSessionInv, StepSessionInv, PTL DEF SessionSpec

----------------------------------------------------------------------------
(* main.rs:2448-2453.  On every way out of a session task, the unwinding one  *)
(* included, the two limits count exactly the tasks that run.                 *)
THEOREM PermitsMatchHolds == SessionSpec => []PermitsMatchTasks
<1>1. SessionInv => PermitsMatchTasks
  BY DEF SessionInv
<1> QED  BY <1>1, SessionInvHolds, PTL

(* handler.rs:251-254.  Only a session that unwound leaves rows behind in the *)
(* channel registry.                                                          *)
THEOREM RegistryIsLiveHolds == SessionSpec => []RegistryIsLive
<1>1. SessionInv => RegistryIsLive
  BY DEF SessionInv
<1> QED  BY <1>1, SessionInvHolds, PTL

(* What a session holds it gives back, for any number of connections,         *)
(* addresses, channels and jobs: the permits on every way out of its task,    *)
(* its registry rows on every way but the unwinding one.                      *)
THEOREM SessionsAccountedHolds == SessionSpec => []SessionsAccounted
BY PermitsMatchHolds, RegistryIsLiveHolds, PTL DEF SessionsAccounted

----------------------------------------------------------------------------
(* THE ALLOCATORS                                                             *)
(* Numbers proved unrepeated for every width and any number of tasks.  Until  *)
(* the counter wraps, the numbers below it are exactly the ones handed out or *)
(* on their way, each once; once it wrapped, every number is accounted for,   *)
(* and stays so.                                                              *)

Taken(n) == handed[n] > 0 \/ \E o \in Opener : drawn[o] = n

Unwrapped ==
  /\ next >= 1
  /\ \A n \in Numbers : handed[n] > 0 => handed[n] = 1 /\ n >= 1 /\ n < next
  /\ \A o \in Opener : drawn[o] >= 0 =>
       drawn[o] >= 1 /\ drawn[o] < next /\ handed[drawn[o]] = 0
  /\ \A o, p \in Opener : drawn[o] >= 0 /\ drawn[o] = drawn[p] => o = p
  /\ \A n \in 1 .. next - 1 : Taken(n)

AllTaken == \A n \in 1 .. MaxNumber - 1 : Taken(n)

AllocInv == AllocTypeOK /\ (Unwrapped \/ AllTaken)

\* fetch_add wraps at the width of the counter, and only there.
LEMMA Wraps ==
  ASSUME NEW n \in Numbers
  PROVE  (n + 1) % (MaxNumber + 1) = IF n = MaxNumber THEN 0 ELSE n + 1
  BY AllocConstants, SMT DEF Numbers

LEMMA InitAllocInv == AllocInit => AllocInv
<1> SUFFICES ASSUME AllocInit PROVE AllocTypeOK /\ Unwrapped
  BY DEF AllocInv
<1> USE AllocConstants DEF AllocInit, Numbers, NoNumber, Passed
<1>1. AllocTypeOK
  <2>1. next \in Numbers /\ handed \in [Numbers -> 0 .. 2]
    OBVIOUS
  <2>2. drawn \in [Opener -> Numbers \union {NoNumber, Passed}] /\ exhausted \in BOOLEAN
    BY Zenon
  <2> QED  BY <2>1, <2>2, Zenon DEF AllocTypeOK
<1>2. Unwrapped
  BY DEF Unwrapped, Taken
<1> QED  BY <1>1, <1>2

LEMMA StepAllocType == AllocTypeOK /\ [AllocNext]_allocVars => AllocTypeOK'
<1> SUFFICES ASSUME AllocTypeOK, [AllocNext]_allocVars PROVE AllocTypeOK'
  OBVIOUS
<1> USE DEF AllocTypeOK
<1>1. CASE UNCHANGED allocVars
  BY <1>1 DEF allocVars
<1>2. ASSUME NEW o \in Opener, LoadExhausted(o) PROVE AllocTypeOK'
  BY <1>2 DEF LoadExhausted
<1>3. ASSUME NEW o \in Opener, FetchAdd(o) PROVE AllocTypeOK'
  <2>1. next' \in Numbers
    BY <1>3, AllocConstants, Wraps DEF FetchAdd, Numbers
  <2> QED  BY <1>3, <2>1 DEF FetchAdd
<1>4. ASSUME NEW o \in Opener, StoreExhausted(o) PROVE AllocTypeOK'
  BY <1>4 DEF StoreExhausted
<1>5. ASSUME NEW o \in Opener, HandOut(o) PROVE AllocTypeOK'
  <2>1. drawn[o] \in Numbers
    BY <1>5 DEF HandOut
  <2>2. handed' \in [Numbers -> 0 .. 2]
    BY <1>5, <2>1 DEF HandOut
  <2> QED  BY <1>5, <2>2 DEF HandOut
<1> QED  BY <1>1, <1>2, <1>3, <1>4, <1>5 DEF AllocNext

\* A number once taken stays taken: its task hands it out before it forgets it.
LEMMA StaysTaken ==
  ASSUME AllocTypeOK, [AllocNext]_allocVars, NEW n \in 1 .. MaxNumber - 1, Taken(n)
  PROVE  Taken(n)'
  BY AllocConstants DEF AllocTypeOK, AllocNext, allocVars, LoadExhausted, FetchAdd,
     StoreExhausted, HandOut, Numbers, NoNumber, Passed, Taken

LEMMA StepAllocInv == AllocInv /\ [AllocNext]_allocVars => AllocInv'
<1> SUFFICES ASSUME AllocInv, [AllocNext]_allocVars PROVE AllocInv'
  OBVIOUS
<1> USE AllocConstants DEF AllocInv
<1>1. AllocTypeOK'
  BY StepAllocType
<1>2. CASE AllTaken
  <2>1. AllTaken'
    BY <1>2, StaysTaken DEF AllTaken
  <2> QED  BY <1>1, <2>1
<1>3. CASE Unwrapped /\ UNCHANGED allocVars
  BY <1>1, <1>3 DEF Unwrapped, Taken, allocVars
<1>4. ASSUME Unwrapped, NEW o \in Opener, LoadExhausted(o) PROVE Unwrapped'
  BY <1>1, <1>4 DEF AllocTypeOK, Unwrapped, Taken, LoadExhausted, Numbers, NoNumber, Passed
<1>5. ASSUME Unwrapped, NEW o \in Opener, FetchAdd(o) PROVE Unwrapped' \/ AllTaken'
  <2>1. CASE next = MaxNumber
    BY <1>1, <1>5, <2>1 DEF AllocTypeOK, Unwrapped, AllTaken, Taken, FetchAdd, Numbers, Passed
  <2>2. CASE next # MaxNumber
    <3>1. next' = next + 1
      BY <1>5, <2>2, Wraps DEF FetchAdd, AllocTypeOK
    <3>2. handed[next] = 0
      BY <1>5 DEF AllocTypeOK, Unwrapped, Numbers
    <3> QED  BY <1>1, <1>5, <2>2, <3>1, <3>2
             DEF AllocTypeOK, Unwrapped, Taken, FetchAdd, Numbers, NoNumber, Passed
  <2> QED  BY <2>1, <2>2
<1>6. ASSUME Unwrapped, NEW o \in Opener, StoreExhausted(o) PROVE Unwrapped'
  BY <1>1, <1>6 DEF AllocTypeOK, Unwrapped, Taken, StoreExhausted, Numbers, NoNumber, Passed
<1>7. ASSUME Unwrapped, NEW o \in Opener, HandOut(o) PROVE Unwrapped'
  BY <1>1, <1>7 DEF AllocTypeOK, Unwrapped, Taken, HandOut, Numbers, NoNumber, Passed
<1> QED  BY <1>1, <1>2, <1>3, <1>4, <1>5, <1>6, <1>7 DEF AllocNext

(* channels.rs:41-54, 113-131, jobs.rs:35-48.  No two channels and no two      *)
(* jobs get one number before every number was taken, however the loads and    *)
(* fetch_adds of any number of tasks interleave.                               *)
THEOREM RepeatsNeedExhaustionHolds == AllocSpec => []RepeatsNeedExhaustion
<1>1. AllocInv => RepeatsNeedExhaustion
  BY DEF AllocInv, AllocTypeOK, Unwrapped, AllTaken, Taken, RepeatsNeedExhaustion
<1> QED  BY <1>1, InitAllocInv, StepAllocInv, PTL DEF AllocSpec

----------------------------------------------------------------------------
(* ACCOUNTS                                                                   *)
(* Proved for any addresses and passwords, any lifetimes of links and         *)
(* sessions, and any number of failed writes.                                 *)

Kinds == {"verify", "approve", "deny", "password_reset"}

(* A session belongs to a registered address and holds the password it was    *)
(* opened with, which is the address's own unless a deletion failed; a        *)
(* licence key's text, its time of issue, is the text of one row.             *)
AccountInv ==
  /\ users \in [Email -> [status : Statuses, password : Password]]
  /\ links \subseteq [user : Email, kind : Kinds, n : Nat, born : Nat, used : BOOLEAN]
  /\ now \in Nat
  /\ \A s \in logins : s.user \in Email /\ users[s.user].status # "absent"
  /\ OldSessionsGone
  /\ licences \subseteq [user : Email, issued : Nat, status : {"active", "revoked"}]
  /\ \A j, k \in licences : j.issued = k.issued => j = k

\* Nobody is registered at the start.
LEMMA InitAccountInv == AccountInit => AccountInv
<1> SUFFICES ASSUME AccountInit  PROVE AccountInv
  OBVIOUS
<1>1. (CHOOSE p \in Password : TRUE) \in Password
  BY AccountConstants, Zenon
<1>2. users \in [Email -> [status : Statuses, password : Password]]
  BY <1>1 DEF AccountInit, Statuses
<1> QED  BY <1>2 DEF AccountInit, AccountInv, OldSessionsGone

\* A step that leaves users and logins alone, or only takes sessions away.
LEMMA SessionsKept ==
  ASSUME AccountInv, UNCHANGED <<users, undeleted>>, logins' \subseteq logins
  PROVE  /\ \A s \in logins' : s.user \in Email /\ users'[s.user].status # "absent"
         /\ OldSessionsGone'
BY DEF AccountInv, OldSessionsGone

\* A link as it is mailed, and as it is once it is spent.
LEMMA LinkRows ==
  ASSUME AccountInv
  PROVE  /\ \A e \in Email, kind \in Kinds, n \in Nat :
              Link(e, kind, n) \in [user : Email, kind : Kinds, n : Nat, born : Nat, used : BOOLEAN]
         /\ \A l \in links : [l EXCEPT !.used = TRUE] \in
              [user : Email, kind : Kinds, n : Nat, born : Nat, used : BOOLEAN]
BY Zenon DEF AccountInv, Link

\* Registering: the address had no row, so it has no session either.
LEMMA RegisterKeeps ==
  ASSUME AccountInv, NEW e \in Email, NEW p \in Password, NEW fails \in BOOLEAN,
         register(e, p, fails)
  PROVE  AccountInv'
<1>1. /\ users[e].status = "absent" /\ UNCHANGED <<now, logins, licences, undeleted>>
      /\ users' = [users EXCEPT ![e] = [status |-> "pending_verification", password |-> p]]
      /\ links' \subseteq links \cup {Link(e, "verify", 0)}
  BY DEF register
<1>2. users' \in [Email -> [status : Statuses, password : Password]]
  BY <1>1 DEF AccountInv, Statuses
<1>3. \A s \in logins : s.user # e /\ users'[s.user] = users[s.user]
  BY <1>1 DEF AccountInv
<1>4. links' \subseteq [user : Email, kind : Kinds, n : Nat, born : Nat, used : BOOLEAN]
  BY <1>1, LinkRows DEF Kinds, AccountInv
<1> QED  BY <1>1, <1>2, <1>3, <1>4 DEF AccountInv, OldSessionsGone

\* A posted link changes a status, never to "absent", and no password.
LEMMA PostKeeps ==
  ASSUME AccountInv, NEW endpoint \in DOMAIN Endpoints, NEW l \in links, NEW fails \in BOOLEAN,
         PostLink(endpoint, l, fails)
  PROVE  AccountInv'
<1>0. l.user \in Email /\ Endpoints[endpoint] \in Statuses \ {"absent"}
  BY DEF Endpoints, Statuses, AccountInv
<1>1. /\ UNCHANGED <<now, logins, licences, undeleted>>
      /\ users' \in {users, [users EXCEPT ![l.user].status = Endpoints[endpoint]]}
      /\ links' \subseteq links \cup {[l EXCEPT !.used = TRUE], Link(l.user, "approve", 0),
                                     Link(l.user, "deny", 0)}
  BY DEF PostLink, Spent
<1>2. users' \in [Email -> [status : Statuses, password : Password]]
  BY <1>0, <1>1 DEF AccountInv
<1>3. \A f \in Email : /\ users'[f].password = users[f].password
                       /\ users[f].status # "absent" => users'[f].status # "absent"
  BY <1>0, <1>1 DEF AccountInv
<1>4. links' \subseteq [user : Email, kind : Kinds, n : Nat, born : Nat, used : BOOLEAN]
  BY <1>0, <1>1, LinkRows DEF Kinds, AccountInv
<1> QED  BY <1>1, <1>2, <1>3, <1>4 DEF AccountInv, OldSessionsGone

\* A reset replaces the password and deletes the sessions, or says it could not.
LEMMA ResetKeeps ==
  ASSUME AccountInv, NEW l \in links, NEW p \in Password,
         NEW failing \in {"nothing", "update", "delete"}, reset_password(l, p, failing)
  PROVE  AccountInv'
<1>0. l.user \in Email
  BY DEF AccountInv
<1>1. /\ UNCHANGED <<now, licences>>
      /\ users' = IF failing = "update" THEN users ELSE [users EXCEPT ![l.user].password = p]
      /\ logins' = IF failing = "nothing" THEN {s \in logins : s.user # l.user} ELSE logins
      /\ undeleted' = IF failing = "delete" THEN undeleted \cup {l.user} ELSE undeleted
      /\ links' = Spent(l)
  BY DEF reset_password
<1>2. users' \in [Email -> [status : Statuses, password : Password]]
  BY <1>0, <1>1 DEF AccountInv
<1>3. \A f \in Email : /\ users'[f].status = users[f].status
                       /\ f # l.user => users'[f] = users[f]
  BY <1>0, <1>1 DEF AccountInv
<1>4. links' \subseteq [user : Email, kind : Kinds, n : Nat, born : Nat, used : BOOLEAN]
  BY <1>1, LinkRows DEF Spent, AccountInv
<1>5. OldSessionsGone'
  <2>1. CASE failing = "nothing"
    BY <1>1, <1>3, <2>1 DEF AccountInv, OldSessionsGone
  <2>2. CASE failing = "update"
    BY <1>1, <2>2 DEF AccountInv, OldSessionsGone
  <2>3. CASE failing = "delete"
    BY <1>1, <1>3, <2>3 DEF AccountInv, OldSessionsGone
  <2> QED  BY <2>1, <2>2, <2>3
<1> QED  BY <1>1, <1>2, <1>3, <1>4, <1>5 DEF AccountInv

\* A key is generated at a time no key was issued at, and revoking keeps its time.
LEMMA KeysKeep ==
  ASSUME AccountInv, UNCHANGED <<now, users, links, logins, undeleted>>,
         \E s \in logins : generate_key(s) \/ \E k \in licences : revoke_key(s, k)
  PROVE  AccountInv'
<1>1. SUFFICES /\ licences' \subseteq [user : Email, issued : Nat, status : {"active", "revoked"}]
               /\ \A j, k \in licences' : j.issued = k.issued => j = k
  BY DEF AccountInv, OldSessionsGone
<1>2. ASSUME NEW s \in logins, generate_key(s)
      PROVE  /\ licences' \subseteq [user : Email, issued : Nat, status : {"active", "revoked"}]
             /\ \A j, k \in licences' : j.issued = k.issued => j = k
  <2>1. /\ \A k \in licences : k.issued # now
        /\ licences' = licences \cup {[user |-> s.user, issued |-> now, status |-> "active"]}
    BY <1>2 DEF generate_key
  <2> QED  BY <2>1 DEF AccountInv
<1>3. ASSUME NEW s \in logins, NEW r \in licences, revoke_key(s, r)
      PROVE  /\ licences' \subseteq [user : Email, issued : Nat, status : {"active", "revoked"}]
             /\ \A j, k \in licences' : j.issued = k.issued => j = k
  <2>1. licences' = (licences \ {r}) \cup {[r EXCEPT !.status = "revoked"]}
    BY <1>3 DEF revoke_key
  <2>2. /\ [r EXCEPT !.status = "revoked"] \in
             [user : Email, issued : Nat, status : {"active", "revoked"}]
        /\ [r EXCEPT !.status = "revoked"].issued = r.issued
    BY DEF AccountInv
  <2> QED  BY <2>1, <2>2 DEF AccountInv
<1> QED  BY <1>2, <1>3

\* Every handler, the cleanup and the clock keep the invariant.
LEMMA StepAccountInv == AccountInv /\ [AccountNext]_accountVars => AccountInv'
<1> SUFFICES ASSUME AccountInv, [AccountNext]_accountVars  PROVE AccountInv'
  OBVIOUS
<1>1. ASSUME NEW e \in Email, NEW p \in Password, NEW fails \in BOOLEAN, register(e, p, fails)
      PROVE  AccountInv'
  BY <1>1, RegisterKeeps
<1>2. ASSUME NEW endpoint \in DOMAIN Endpoints, NEW l \in links, NEW fails \in BOOLEAN,
             PostLink(endpoint, l, fails)
      PROVE  AccountInv'
  BY <1>2, PostKeeps
<1>3. ASSUME NEW e \in Email, NEW p \in Password, NEW n \in 1 .. MaxLinks, login(e, p, n)
      PROVE  AccountInv'
  BY <1>3 DEF login, AccountInv, OldSessionsGone
<1>4. ASSUME NEW s \in logins, logout(s)  PROVE AccountInv'
  BY <1>4, SessionsKept DEF logout, AccountInv
<1>5. ASSUME NEW e \in Email, NEW n \in 1 .. MaxLinks, forgot_password(e, n)  PROVE AccountInv'
  <2>1. Link(e, "password_reset", n) \in
          [user : Email, kind : Kinds, n : Nat, born : Nat, used : BOOLEAN]
    BY LinkRows, AccountConstants DEF Kinds
  <2> QED  BY <1>5, <2>1, SessionsKept DEF forgot_password, AccountInv
<1>6. ASSUME NEW l \in links, NEW p \in Password, NEW failing \in {"nothing", "update", "delete"},
             reset_password(l, p, failing)
      PROVE  AccountInv'
  BY <1>6, ResetKeeps
<1>7. ASSUME NEW s \in logins, generate_key(s) \/ \E k \in licences : revoke_key(s, k)
      PROVE  AccountInv'
  <2>1. UNCHANGED <<now, users, links, logins, undeleted>>
    BY <1>7 DEF generate_key, revoke_key
  <2> QED  BY <1>7, <2>1, KeysKeep
<1>8. CASE cleanup_task
  BY <1>8, SessionsKept DEF cleanup_task, AccountInv
<1>9. CASE PassTime
  BY <1>9, SessionsKept DEF PassTime, AccountInv
<1>10. CASE UNCHANGED accountVars
  BY <1>10, SessionsKept DEF accountVars, AccountInv
<1> QED
  BY <1>1, <1>2, <1>3, <1>4, <1>5, <1>6, <1>7, <1>8, <1>9, <1>10 DEF AccountNext

\* Only a posted link changes the status of a registered address.
LEMMA StepEarned ==
  ASSUME AccountInv, AccountNext, NEW e \in Email,
         users[e].status # "absent", users'[e].status # users[e].status
  PROVE  \E l \in links :
           /\ l.user = e /\ ~l.used /\ now < l.born + TokenTtl
           /\ Endpoints[l.kind] = users'[e].status
           /\ [l EXCEPT !.used = TRUE] \in links'
<1>1. ASSUME NEW f \in Email, NEW p \in Password, NEW fails \in BOOLEAN, register(f, p, fails)
      PROVE  FALSE
  BY <1>1 DEF register, AccountInv
<1>2. ASSUME NEW l \in links, NEW p \in Password, NEW failing \in {"nothing", "update", "delete"},
             reset_password(l, p, failing)
      PROVE  FALSE
  BY <1>2 DEF reset_password, AccountInv
<1>3. ~ UNCHANGED users
  OBVIOUS
<1>4. PICK endpoint \in DOMAIN Endpoints, l \in links, fails \in BOOLEAN :
        PostLink(endpoint, l, fails)
  BY <1>1, <1>2, <1>3, Zenon DEF AccountNext, login, logout, forgot_password, generate_key,
       revoke_key, cleanup_task, PassTime
<1>5. l.user \in Email /\ l.kind = endpoint /\ ~l.used /\ l.born + TokenTtl > now
  BY <1>4 DEF PostLink, consume_email_token, AccountInv
<1>6. users' = [users EXCEPT ![l.user].status = Endpoints[endpoint]]
  BY <1>3, <1>4 DEF PostLink
<1>7. l.user = e /\ users'[e].status = Endpoints[endpoint]
  BY <1>5, <1>6 DEF AccountInv
<1>8. [l EXCEPT !.used = TRUE] \in links'
  BY <1>4 DEF PostLink, Spent
<1>9. now < l.born + TokenTtl
  BY <1>5, AccountConstants DEF AccountInv
<1> QED  BY <1>5, <1>7, <1>8, <1>9, Zenon

\* A key that was revoked is not valid after any step.
LEMMA StepRevoked ==
  ASSUME AccountInv, [AccountNext]_accountVars, NEW k \in licences, k.status = "revoked"
  PROVE  ~validate_license_key(k.issued)'
<1>1. AccountInv'
  BY StepAccountInv
<1>2. k \in licences'
  <2>1. ASSUME NEW s \in logins, NEW r \in licences, revoke_key(s, r)  PROVE k \in licences'
    BY <2>1 DEF revoke_key
  <2>2. ASSUME NEW s \in logins, generate_key(s)  PROVE k \in licences'
    BY <2>2 DEF generate_key
  <2>3. CASE UNCHANGED licences
    BY <2>3
  <2> QED
    BY <2>1, <2>2, <2>3, Zenon DEF AccountNext, accountVars, register, PostLink, login, logout,
         forgot_password, reset_password, cleanup_task, PassTime
<1>3. \A j \in licences' : j.issued = k.issued => j.status # "active"
  BY <1>1, <1>2 DEF AccountInv
<1> QED  BY <1>3 DEF validate_license_key

(* rg-auth handlers.rs, db.rs.  For every lifetime and failure of a write: a  *)
(* status is earned by the link mailed for it, a revoked key stays revoked,   *)
(* and an old session does not outlive its password.                          *)
THEOREM AccountsHoldAlways == AccountSpec => AccountsHold
<1>1. AccountInv /\ [AccountNext]_accountVars =>
        [\A e \in Email :
           (users[e].status # "absent" /\ users'[e].status # users[e].status) =>
             \E l \in links :
               /\ l.user = e /\ ~l.used /\ now < l.born + TokenTtl
               /\ Endpoints[l.kind] = users'[e].status
               /\ [l EXCEPT !.used = TRUE] \in links']_accountVars
  BY StepEarned
<1>2. AccountInv /\ [AccountNext]_accountVars =>
        [\A k \in licences : k.status = "revoked" => ~validate_license_key(k.issued)']_accountVars
  BY StepRevoked
<1>3. AccountInv => OldSessionsGone
  BY DEF AccountInv
<1> QED
  BY <1>1, <1>2, <1>3, InitAccountInv, StepAccountInv, PTL
     DEF AccountSpec, AccountsHold, StatusIsEarned, RevokedForGood

=============================================================================
