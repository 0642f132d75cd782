---------------------------- MODULE ShareIngest ----------------------------
(* The template manager's POST /shares (services/template-manager/src/main.rs,*)
(* ingest_share) together with the gateway code that signs what is posted     *)
(* (services/sv2-gateway/src/shares.rs, sign_submission).                     *)
(*                                                                            *)
(* A submission is its body, the event id in it and a signature.  Hashes and  *)
(* the MAC are modelled as injective: a MAC is the record of what went into   *)
(* it.  The share log file is the sequence of what was appended to it, a      *)
(* share or a newline.                                                        *)
EXTENDS Integers, Sequences

CONSTANTS
  Post,            \* requests that can be in progress at the same time
  Secret,          \* configured secrets; NoSecret is the empty one
  LogCap,          \* the in-memory log is drained when it reaches this length
  LogKeep,         \* ... down to this many entries
  MaxPosts         \* bound: requests in a behaviour

ASSUME IngestConstants == LogCap \in Nat /\ LogKeep \in Nat /\ LogKeep < LogCap

NoSecret == "none"

VARIABLES
  gatewaySecret,   \* VELDRA_SHARE_UPSTREAM_SECRET at the gateway
  managerSecret,   \* the same variable at the manager
  posts,           \* how many requests have come in; also numbers their bodies
  post,            \* post[p]: where request p stands
  shareFile,       \* the NDJSON file
  newlines,        \* newlines handed to the file's writer and not written yet
  share_log,       \* the in-memory log
  pushed,          \* history: every share pushed to it, in order
  answered         \* history: what each numbered request was answered

ingestVars == <<gatewaySecret, managerSecret, posts, post, shareFile, newlines,
                share_log, pushed, answered>>

NoMac == [key |-> NoSecret, event |-> 0, body |-> 0]
Newline == 0
AtRest == [at |-> "idle", share |-> 0]

\* compute_event_id hashes share id, worker and level, all part of the body.
EventOf(body) == body

\* sign_submission: no signature without a secret.
sign_submission(secret, body) ==
  IF secret = NoSecret THEN NoMac
  ELSE [key |-> secret, event |-> EventOf(body), body |-> body]

\* What arrives: the body as signed, or with its signature taken from another
\* share's submission (a body and a signature that do not belong together).
Submission(body, signedAs) ==
  [body |-> body, event |-> EventOf(body),
   sig |-> sign_submission(gatewaySecret, signedAs)]

verify_gateway_signature(s) ==
  s.sig = [key |-> managerSecret, event |-> s.event, body |-> s.body]

Judged(s) ==
  CASE managerSecret = NoSecret -> "accepted"
    [] managerSecret # NoSecret /\ s.sig = NoMac -> "missing"
    [] managerSecret # NoSecret /\ s.sig # NoMac ->
         IF verify_gateway_signature(s) THEN "accepted" ELSE "invalid"

IngestInit ==
  /\ gatewaySecret \in Secret \cup {NoSecret}
  /\ managerSecret \in Secret \cup {NoSecret}
  /\ posts = 0
  /\ post = [p \in Post |-> AtRest]
  /\ shareFile = <<>> /\ newlines = 0
  /\ share_log = <<>> /\ pushed = <<>>
  /\ answered = <<>>

\* A request is checked, and refused at once or taken on.
Arrive(p, signedAs) ==
  /\ post[p] = AtRest /\ posts < MaxPosts
  /\ posts' = posts + 1
  /\ LET s == Submission(posts', signedAs)
     IN  /\ post' = IF Judged(s) = "accepted"
                         THEN [post EXCEPT ![p] = [at |-> "line", share |-> s.body]]
                         ELSE post
         /\ answered' = Append(answered, [verdict |-> Judged(s), signedAs |-> signedAs])
  /\ UNCHANGED <<gatewaySecret, managerSecret, shareFile, newlines, share_log, pushed>>

\* The line is on disk before the newline is handed over; the newline's own
\* write is left to the file's background writer.
WriteLine(p) ==
  /\ post[p].at = "line"
  /\ shareFile' = Append(shareFile, post[p].share)
  /\ newlines' = newlines + 1
  /\ post' = [post EXCEPT ![p].at = "push"]
  /\ UNCHANGED <<gatewaySecret, managerSecret, posts, share_log, pushed, answered>>

WriteNewline ==
  /\ newlines > 0
  /\ newlines' = newlines - 1
  /\ shareFile' = Append(shareFile, Newline)
  /\ UNCHANGED <<gatewaySecret, managerSecret, posts, post, share_log, pushed, answered>>

\* No path is configured, or the file cannot be opened: best effort.
SkipFile(p) ==
  /\ post[p].at = "line"
  /\ post' = [post EXCEPT ![p].at = "push"]
  /\ UNCHANGED <<gatewaySecret, managerSecret, posts, shareFile, newlines, share_log, pushed,
                 answered>>

\* Variant: the drain removes the newest entries.
PushShareKeepsOldest(p) ==
  /\ post[p].at = "push"
  /\ share_log' =
       Append(IF Len(share_log) >= LogCap THEN SubSeq(share_log, 1, LogKeep) ELSE share_log,
              post[p].share)
  /\ pushed' = Append(pushed, post[p].share)
  /\ post' = [post EXCEPT ![p] = AtRest]
  /\ UNCHANGED <<gatewaySecret, managerSecret, posts, shareFile, newlines, answered>>

\* The write lock: drain when full, then push; the answer follows.
PushShare(p) ==
  /\ post[p].at = "push"
  /\ share_log' =
       Append(IF Len(share_log) >= LogCap
                THEN SubSeq(share_log, Len(share_log) - LogKeep + 1, Len(share_log))
                ELSE share_log,
              post[p].share)
  /\ pushed' = Append(pushed, post[p].share)
  /\ post' = [post EXCEPT ![p] = AtRest]
  /\ UNCHANGED <<gatewaySecret, managerSecret, posts, shareFile, newlines, answered>>

IngestNext ==
  \/ WriteNewline
  \/ \E p \in Post :
       \/ \E signedAs \in {posts + 1, posts} \ {0} : Arrive(p, signedAs)
       \/ WriteLine(p) \/ SkipFile(p) \/ PushShare(p)

IngestSpec == IngestInit /\ [][IngestNext]_ingestVars

----------------------------------------------------------------------------
Pending == {post[p].share : p \in {q \in Post : post[q] # AtRest}}
TakenOn == {n \in 1 .. posts : answered[n].verdict = "accepted"}

(* The gateway's signing and the manager's checking agree: with one secret    *)
(* on both sides a submission is taken exactly when body and signature belong *)
(* together, and no configuration refuses what the gateway signed with the    *)
(* manager's own secret.                                                      *)
SignedIsAccepted ==
  gatewaySecret = managerSecret =>
    \A n \in 1 .. posts :
      answered[n].verdict = "accepted" <=>
        (managerSecret = NoSecret \/ answered[n].signedAs = n)

(* The in-memory log is the end of what was pushed, loses no share before it  *)
(* has LogKeep later ones and stays within its cap; what is pushed is what    *)
(* was taken on, each share once, whichever requests overlapped.              *)
RecentKept ==
  /\ Len(share_log) <= Len(pushed)
  /\ \A i \in 1 .. Len(share_log) :
       share_log[i] = pushed[Len(pushed) - Len(share_log) + i]
  /\ Len(share_log) <= LogCap
  /\ Len(share_log) > LogKeep \/ share_log = pushed
  /\ \A i, j \in DOMAIN pushed : pushed[i] = pushed[j] => i = j
  /\ {pushed[i] : i \in DOMAIN pushed} = TakenOn \ Pending

(* main.rs:1940-2090.  A submission is taken exactly when it was signed with the *)
(* shared secret, and what was taken is in the log until newer ones displace it. *)
IngestHolds == SignedIsAccepted /\ RecentKept
============================================================================
