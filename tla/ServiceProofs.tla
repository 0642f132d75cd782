---------------------------- MODULE ServiceProofs ----------------------------
(* What is proved of the services around the gateway and the verifier: share   *)
(* ingest, the request guards, the saving of settings and licence keys.       *)
EXTENDS ShareIngest, RequestAuth, ConfigStore, Licences, TLAPS

----------------------------------------------------------------------------
(* SHARE INGEST                                                               *)
(* Proved for any number of requests at a time, any secrets and any sizes of  *)
(* the log.                                                                   *)

IngestTypeOK ==
  /\ posts \in Nat /\ pushed \in Seq(Nat) /\ share_log \in Seq(Nat)
  /\ post \in [Post -> [at : {"idle", "line", "push"}, share : Nat]]
  /\ answered \in Seq([verdict : {"accepted", "missing", "invalid"}, signedAs : Nat])
  /\ Len(answered) = posts

\* The log is the end of what was pushed.
LogInv ==
  /\ Len(share_log) <= Len(pushed)
  /\ \A i \in 1 .. Len(share_log) :
       share_log[i] = pushed[Len(pushed) - Len(share_log) + i]
  /\ Len(share_log) <= LogCap
  /\ Len(share_log) > LogKeep \/ Len(share_log) = Len(pushed)

(* A share that was taken on is in the hands of one request or was pushed     *)
(* once, never both.                                                          *)
Holding == {p \in Post : post[p].at # "idle"}

HandsInv ==
  /\ \A p \in Post \ Holding : post[p] = AtRest
  /\ \A p \in Holding : post[p].share \in TakenOn
  /\ \A p, q \in Holding : post[p].share = post[q].share => p = q
  /\ \A i \in DOMAIN pushed :
       pushed[i] \in TakenOn /\ \A p \in Holding : post[p].share # pushed[i]
  /\ \A i, j \in DOMAIN pushed : pushed[i] = pushed[j] => i = j
  /\ \A n \in TakenOn :
       \/ \E p \in Holding : post[p].share = n
       \/ \E i \in DOMAIN pushed : pushed[i] = n

IngestInv == IngestTypeOK /\ LogInv /\ HandsInv /\ SignedIsAccepted

\* Before the first request.
LEMMA InitIngest == IngestInit => IngestInv
<1> SUFFICES ASSUME IngestInit  PROVE IngestInv
  OBVIOUS
<1>1. AtRest.at = "idle" /\ AtRest.share = 0
  BY DEF AtRest
<1>2. AtRest \in [at : {"idle", "line", "push"}, share : Nat]
  BY DEF AtRest
<1>3. \A p \in Post : post[p] = AtRest
  BY Zenon DEF IngestInit
<1>4. /\ posts = 0 /\ pushed = <<>> /\ share_log = <<>> /\ answered = <<>>
      /\ post = [p \in Post |-> AtRest]
  BY DEF IngestInit
<1>5. IngestTypeOK
  BY <1>2, <1>4 DEF IngestTypeOK
<1>6. LogInv
  BY <1>4, IngestConstants DEF LogInv
<1>7. HandsInv
  BY <1>1, <1>3, <1>4 DEF HandsInv, Holding, TakenOn
<1>8. SignedIsAccepted
  BY <1>4 DEF SignedIsAccepted
<1> QED  BY <1>5, <1>6, <1>7, <1>8 DEF IngestInv

\* With one secret on both sides, what is taken is what was signed as itself.
LEMMA SameSecret ==
  ASSUME NEW n, NEW signedAs, gatewaySecret = managerSecret
  PROVE  Judged(Submission(n, signedAs)) = "accepted"
           <=> (managerSecret = NoSecret \/ signedAs = n)
<1> DEFINE s == Submission(n, signedAs)
<1>1. s.body = n /\ s.event = n
  BY DEF Submission, EventOf
<1>2. CASE managerSecret = NoSecret
  BY <1>2 DEF Judged
<1>3. CASE managerSecret # NoSecret
  <2>1. s.sig = [key |-> managerSecret, event |-> signedAs, body |-> signedAs]
    BY <1>3 DEF Submission, sign_submission, EventOf
  <2>2. s.sig # NoMac
    <3>1. s.sig.key = managerSecret /\ NoMac.key = NoSecret
      BY <2>1 DEF NoMac
    <3> QED  BY <1>3, <3>1
  <2>3. verify_gateway_signature(s) <=> signedAs = n
    <3>1. s.sig.event = signedAs
      BY <2>1
    <3> QED  BY <1>1, <2>1, <3>1 DEF verify_gateway_signature
  <2> HIDE DEF s
  <2> QED  BY <1>3, <2>2, <2>3 DEF Judged, s
<1> QED  BY <1>2, <1>3

LEMMA JudgedIs ==
  ASSUME NEW s
  PROVE  Judged(s) \in {"accepted", "missing", "invalid"}
BY DEF Judged

\* A request comes in with a number of its own.
LEMMA ArriveIngest ==
  ASSUME IngestInv, NEW p \in Post, NEW signedAs \in Nat, Arrive(p, signedAs)
  PROVE  IngestInv'
<1> DEFINE s == Submission(posts + 1, signedAs)
           r == [verdict |-> Judged(s), signedAs |-> signedAs]
<1>1. /\ post[p] = AtRest /\ posts' = posts + 1 /\ answered' = Append(answered, r)
      /\ UNCHANGED <<gatewaySecret, managerSecret, share_log, pushed>>
      /\ post' = IF Judged(s) = "accepted"
                 THEN [post EXCEPT ![p] = [at |-> "line", share |-> s.body]] ELSE post
  BY DEF Arrive
<1>2. s.body = posts + 1
  BY DEF Submission
<1>3. r.verdict = Judged(s) /\ r.signedAs = signedAs
  OBVIOUS
<1>4. r \in [verdict : {"accepted", "missing", "invalid"}, signedAs : Nat]
  BY JudgedIs
<1> HIDE DEF r, s
<1>5. posts \in Nat /\ Len(answered) = posts
  BY DEF IngestInv, IngestTypeOK
<1>6. /\ \A n \in 1 .. posts : answered'[n] = answered[n]
      /\ answered'[posts + 1] = r /\ Len(answered') = posts + 1
      /\ answered' \in Seq([verdict : {"accepted", "missing", "invalid"}, signedAs : Nat])
  <2>1. answered \in Seq([verdict : {"accepted", "missing", "invalid"}, signedAs : Nat])
    BY DEF IngestInv, IngestTypeOK
  <2> QED  BY <1>1, <1>4, <1>5, <2>1
<1>7. TakenOn' = TakenOn \union (IF Judged(s) = "accepted" THEN {posts + 1} ELSE {})
  BY <1>1, <1>3, <1>5, <1>6 DEF TakenOn
<1>8. post' \in [Post -> [at : {"idle", "line", "push"}, share : Nat]]
  BY <1>1, <1>2, <1>5 DEF IngestInv, IngestTypeOK
<1>9. IngestTypeOK'
  BY <1>1, <1>5, <1>6, <1>8 DEF IngestInv, IngestTypeOK
<1>10. LogInv'
  BY <1>1 DEF IngestInv, LogInv
<1>11. SignedIsAccepted'
  <2> SUFFICES ASSUME gatewaySecret = managerSecret, NEW n \in 1 .. posts + 1
               PROVE  answered'[n].verdict = "accepted" <=>
                        (managerSecret = NoSecret \/ answered'[n].signedAs = n)
    BY <1>1, Zenon DEF SignedIsAccepted
  <2>1. CASE n = posts + 1
    BY <1>3, <1>6, <2>1, SameSecret DEF s
  <2>2. CASE n # posts + 1
    BY <1>5, <1>6, <2>2 DEF IngestInv, SignedIsAccepted
  <2> QED  BY <2>1, <2>2
<1>12. HandsInv'
  <2>1. \A n \in TakenOn : n # posts + 1
    BY <1>5 DEF TakenOn
  <2>2. p \notin Holding /\ Holding \subseteq Post
    BY <1>1 DEF Holding, AtRest
  <2>3. HandsInv
    BY Zenon DEF IngestInv
  <2>4. CASE Judged(s) = "accepted"
    <3>1. /\ post'[p] = [at |-> "line", share |-> posts + 1]
          /\ \A q \in Post \ {p} : post'[q] = post[q]
      <4>1. post \in [Post -> [at : {"idle", "line", "push"}, share : Nat]]
        BY DEF IngestInv, IngestTypeOK
      <4> QED  BY <1>1, <1>2, <2>4, <4>1
    <3>2. post'[p].share = posts + 1 /\ post'[p].at = "line"
      BY <3>1
    <3>3. Holding' = Holding \union {p}
      BY <2>2, <3>1, <3>2 DEF Holding
    <3>4. TakenOn' = TakenOn \union {posts + 1}
      BY <1>7, <2>4
    <3>5. \A q \in Holding : post'[q] = post[q]
      BY <2>2, <3>1
    <3> DEFINE m == posts + 1
    <3> HIDE DEF m
    <3>6. /\ \A n \in TakenOn : n # m
          /\ post'[p].share = m /\ TakenOn' = TakenOn \union {m}
      BY <2>1, <3>2, <3>4 DEF m
    <3>7. \A q \in Post \ Holding' : post'[q] = AtRest
      BY <2>3, <3>1, <3>3 DEF HandsInv
    <3>8. /\ \A q \in Holding' : post'[q].share \in TakenOn'
          /\ \A q, q2 \in Holding' : post'[q].share = post'[q2].share => q = q2
      BY <2>3, <3>3, <3>5, <3>6 DEF HandsInv
    <3>9. \A i \in DOMAIN pushed :
            pushed[i] \in TakenOn' /\ \A q \in Holding' : post'[q].share # pushed[i]
      BY <2>3, <3>3, <3>5, <3>6 DEF HandsInv
    <3>10. \A n \in TakenOn' :
             \/ \E q \in Holding' : post'[q].share = n
             \/ \E i \in DOMAIN pushed : pushed[i] = n
      <4>1. ASSUME NEW n \in TakenOn
            PROVE  \/ \E q \in Holding' : post'[q].share = n
                   \/ \E i \in DOMAIN pushed : pushed[i] = n
        BY <2>3, <3>3, <3>5 DEF HandsInv
      <4> QED  BY <3>3, <3>6, <4>1, Zenon
    <3> QED  BY <1>1, <2>3, <3>7, <3>8, <3>9, <3>10 DEF HandsInv
  <2>5. CASE Judged(s) # "accepted"
    <3>1. post' = post /\ TakenOn' = TakenOn
      BY <1>1, <1>7, <2>5
    <3>2. Holding' = Holding
      BY <3>1 DEF Holding
    <3> QED  BY <1>1, <2>3, <3>1, <3>2 DEF HandsInv
  <2> QED  BY <2>4, <2>5
<1> QED  BY <1>9, <1>10, <1>11, <1>12 DEF IngestInv

\* The file: the requests' places move on and nothing else that is promised.
LEMMA FileIngest ==
  ASSUME IngestInv, NEW p \in Post, WriteLine(p) \/ SkipFile(p)
  PROVE  IngestInv'
<1>1. /\ post[p].at = "line" /\ post' = [post EXCEPT ![p].at = "push"]
      /\ UNCHANGED <<gatewaySecret, managerSecret, posts, share_log, pushed, answered>>
  BY DEF WriteLine, SkipFile
<1>2. \A q \in Post : post'[q].share = post[q].share /\ (q # p => post'[q] = post[q])
  BY <1>1 DEF IngestInv, IngestTypeOK
<1>3. Holding' = Holding
  BY <1>1, <1>2 DEF Holding, IngestInv, IngestTypeOK
<1>4. TakenOn' = TakenOn
  BY <1>1 DEF TakenOn
<1>5. IngestTypeOK'
  BY <1>1, Zenon DEF IngestInv, IngestTypeOK
<1>6. HandsInv'
  <2>1. p \in Holding
    BY <1>1 DEF Holding
  <2> QED  BY <1>1, <1>2, <1>3, <1>4, <2>1 DEF IngestInv, HandsInv, Holding
<1>7. LogInv' /\ SignedIsAccepted'
  BY <1>1 DEF IngestInv, LogInv, SignedIsAccepted
<1> QED  BY <1>5, <1>6, <1>7 DEF IngestInv

\* The log after a push is again the end of what was pushed.
LEMMA PushLog ==
  ASSUME IngestInv, NEW p \in Post, PushShare(p)
  PROVE  share_log' \in Seq(Nat) /\ LogInv'
<1> DEFINE kept == IF Len(share_log) >= LogCap
                   THEN SubSeq(share_log, Len(share_log) - LogKeep + 1, Len(share_log))
                   ELSE share_log
           x == post[p].share
<1>1. share_log' = Append(kept, x) /\ pushed' = Append(pushed, x)
  BY DEF PushShare
<1>2. /\ share_log \in Seq(Nat) /\ pushed \in Seq(Nat) /\ x \in Nat /\ LogInv
      /\ LogCap \in Nat /\ LogKeep \in Nat /\ LogKeep < LogCap
  BY IngestConstants DEF IngestInv, IngestTypeOK
<1>3. /\ kept \in Seq(Nat) /\ Len(kept) <= Len(pushed) /\ Len(kept) < LogCap
      /\ \A i \in 1 .. Len(kept) : kept[i] = pushed[Len(pushed) - Len(kept) + i]
      /\ Len(kept) >= LogKeep \/ Len(kept) = Len(pushed)
  <2>1. CASE Len(share_log) >= LogCap
    <3>1. /\ kept \in Seq(Nat) /\ Len(kept) = LogKeep
          /\ \A i \in 1 .. LogKeep : kept[i] = share_log[Len(share_log) - LogKeep + i]
      BY <1>2, <2>1
    <3>2. \A i \in 1 .. LogKeep :
            share_log[Len(share_log) - LogKeep + i]
              = pushed[Len(pushed) - Len(share_log) + (Len(share_log) - LogKeep + i)]
      <4>1. \A i \in 1 .. LogKeep : Len(share_log) - LogKeep + i \in 1 .. Len(share_log)
        BY <1>2, <2>1
      <4> QED  BY <1>2, <4>1, Zenon DEF LogInv
    <3>3. \A i \in 1 .. LogKeep :
            Len(pushed) - Len(share_log) + (Len(share_log) - LogKeep + i)
              = Len(pushed) - LogKeep + i
      BY <1>2
    <3> HIDE DEF kept
    <3>4. LogKeep <= Len(pushed)
      BY <1>2, <2>1 DEF LogInv
    <3>5. \A i \in 1 .. LogKeep : kept[i] = pushed[Len(pushed) - LogKeep + i]
      BY <3>1, <3>2, <3>3
    <3> QED  BY <1>2, <3>1, <3>4, <3>5
  <2>2. CASE ~(Len(share_log) >= LogCap)
    <3>1. kept = share_log
      BY <2>2
    <3> HIDE DEF kept
    <3> QED  BY <1>2, <2>2, <3>1 DEF LogInv
  <2> QED  BY <2>1, <2>2
<1> HIDE DEF kept, x
<1>4. /\ Len(share_log') = Len(kept) + 1 /\ Len(pushed') = Len(pushed) + 1
      /\ share_log' \in Seq(Nat)
  BY <1>1, <1>2, <1>3
<1>5. ASSUME NEW i \in 1 .. Len(kept) + 1
      PROVE  share_log'[i] = pushed'[Len(pushed) - Len(kept) + i]
  <2>1. CASE i = Len(kept) + 1
    BY <1>1, <1>2, <1>3, <2>1
  <2>2. CASE i # Len(kept) + 1
    <3>0. Len(kept) \in Nat /\ Len(pushed) \in Nat /\ Len(kept) <= Len(pushed)
      BY <1>2, <1>3
    <3>1. i \in 1 .. Len(kept) /\ Len(pushed) - Len(kept) + i \in 1 .. Len(pushed)
      BY <2>2, <3>0
    <3>2. share_log'[i] = kept[i]
      BY <1>1, <1>2, <1>3, <3>1
    <3>3. pushed'[Len(pushed) - Len(kept) + i] = pushed[Len(pushed) - Len(kept) + i]
      BY <1>1, <1>2, <3>1
    <3> QED  BY <1>3, <3>1, <3>2, <3>3
  <2> QED  BY <2>1, <2>2
<1>6. Len(pushed') - Len(share_log') = Len(pushed) - Len(kept)
  BY <1>2, <1>3, <1>4
<1>7. \A i \in 1 .. Len(share_log') :
        share_log'[i] = pushed'[Len(pushed') - Len(share_log') + i]
  BY <1>4, <1>5, <1>6
<1>8. Len(share_log') <= Len(pushed') /\ Len(share_log') <= LogCap
  BY <1>2, <1>3, <1>4
<1>9. Len(share_log') > LogKeep \/ Len(share_log') = Len(pushed')
  BY <1>2, <1>3, <1>4
<1> QED  BY <1>4, <1>7, <1>8, <1>9, Zenon DEF LogInv

\* A request lets go of its share in the step that pushes it.
LEMMA PushIngest ==
  ASSUME IngestInv, NEW p \in Post, PushShare(p)
  PROVE  IngestInv'
<1> DEFINE x == post[p].share
<1>1. /\ post[p].at = "push" /\ post' = [post EXCEPT ![p] = AtRest]
      /\ pushed' = Append(pushed, x)
      /\ UNCHANGED <<gatewaySecret, managerSecret, posts, answered>>
  BY DEF PushShare
<1>2. pushed \in Seq(Nat) /\ x \in Nat
  BY DEF IngestInv, IngestTypeOK
<1>3. /\ post'[p] = AtRest /\ \A q \in Post \ {p} : post'[q] = post[q]
  BY <1>1 DEF IngestInv, IngestTypeOK
<1>4. p \in Holding /\ Holding' = Holding \ {p}
  BY <1>1, <1>3 DEF Holding, AtRest
<1>5. TakenOn' = TakenOn
  BY <1>1 DEF TakenOn
<1>6. /\ DOMAIN pushed' = 1 .. Len(pushed) + 1 /\ DOMAIN pushed = 1 .. Len(pushed)
      /\ pushed'[Len(pushed) + 1] = x /\ pushed' \in Seq(Nat)
      /\ \A i \in DOMAIN pushed : pushed'[i] = pushed[i]
  BY <1>1, <1>2
<1>7. \A i \in DOMAIN pushed' : i = Len(pushed) + 1 \/ i \in DOMAIN pushed
  BY <1>2, <1>6
<1>8. HandsInv /\ IngestTypeOK /\ Len(pushed) + 1 \in DOMAIN pushed'
      /\ DOMAIN pushed \subseteq DOMAIN pushed'
  BY <1>2, <1>6 DEF IngestInv
<1>9. IngestTypeOK'
  <2>1. AtRest \in [at : {"idle", "line", "push"}, share : Nat]
    BY DEF AtRest
  <2> QED  BY <1>1, <1>6, <1>8, <2>1, PushLog DEF IngestTypeOK
<1> HIDE DEF x
<1>10. x \in TakenOn /\ \A q \in Holding' : post[q].share # x
  BY <1>4, <1>8 DEF HandsInv, x
<1>11. \A i \in DOMAIN pushed : pushed[i] # x
  BY <1>4, <1>8 DEF HandsInv, x
<1>12. \A q \in Holding' : post'[q] = post[q] /\ q \in Holding
  BY <1>3, <1>4 DEF Holding
<1>13. \A q \in Post \ Holding' : post'[q] = AtRest
  BY <1>3, <1>4, <1>8 DEF HandsInv
<1>14. /\ \A q \in Holding' : post'[q].share \in TakenOn'
       /\ \A q, r \in Holding' : post'[q].share = post'[r].share => q = r
  BY <1>5, <1>8, <1>12 DEF HandsInv
<1>15. \A i \in DOMAIN pushed' :
         pushed'[i] \in TakenOn' /\ \A q \in Holding' : post'[q].share # pushed'[i]
  <2>1. ASSUME NEW i \in DOMAIN pushed
        PROVE  pushed[i] \in TakenOn /\ \A q \in Holding' : post'[q].share # pushed[i]
    BY <1>8, <1>12 DEF HandsInv
  <2> QED  BY <1>5, <1>6, <1>7, <1>10, <1>12, <2>1
<1>16. ASSUME NEW n \in TakenOn
       PROVE  \/ \E q \in Holding' : post'[q].share = n
              \/ \E i \in DOMAIN pushed' : pushed'[i] = n
  <2>1. CASE n = x
    BY <1>6, <1>8, <2>1
  <2>2. CASE n # x /\ \E q \in Holding : post[q].share = n
    BY <1>4, <1>12, <2>2 DEF x
  <2>3. CASE \E i \in DOMAIN pushed : pushed[i] = n
    BY <1>6, <1>8, <2>3, Zenon
  <2> QED  BY <1>8, <2>1, <2>2, <2>3 DEF HandsInv
<1>19. \A i, j \in DOMAIN pushed' : pushed'[i] = pushed'[j] => i = j
  BY <1>6, <1>7, <1>8, <1>11 DEF HandsInv
<1>17. HandsInv'
  BY <1>5, <1>13, <1>14, <1>15, <1>16, <1>19, Zenon DEF HandsInv
<1>18. SignedIsAccepted'
  BY <1>1 DEF IngestInv, SignedIsAccepted
<1> QED  BY <1>9, <1>17, <1>18, PushLog DEF IngestInv

\* Every step keeps the count of the shares.
LEMMA StepIngest == IngestInv /\ [IngestNext]_ingestVars => IngestInv'
<1> SUFFICES ASSUME IngestInv, [IngestNext]_ingestVars  PROVE IngestInv'
  OBVIOUS
<1>1. CASE WriteNewline \/ UNCHANGED ingestVars
  <2>1. UNCHANGED <<gatewaySecret, managerSecret, posts, post, share_log, pushed, answered>>
    BY <1>1 DEF WriteNewline, ingestVars
  <2> QED
    BY <2>1, Zenon DEF IngestInv, IngestTypeOK, LogInv, HandsInv, Holding, TakenOn, SignedIsAccepted
<1>2. ASSUME NEW p \in Post, NEW signedAs \in {posts + 1, posts} \ {0}, Arrive(p, signedAs)
      PROVE  IngestInv'
  <2>1. signedAs \in Nat
    BY DEF IngestInv, IngestTypeOK
  <2> QED  BY <1>2, <2>1, ArriveIngest
<1> QED  BY <1>1, <1>2, FileIngest, PushIngest DEF IngestNext

(* template-manager main.rs, ingest_share; sv2-gateway shares.rs.  With one   *)
(* secret on both sides exactly the submissions signed as themselves are      *)
(* taken; what was taken is in the hands of its request or was logged once;   *)
(* and the log loses a share only to LogKeep newer ones, whichever requests   *)
(* overlap.                                                                   *)
THEOREM IngestHoldsAlways == IngestSpec => []IngestHolds
<1>1. IngestInv => IngestHolds
  <2> SUFFICES ASSUME IngestInv  PROVE RecentKept
    BY DEF IngestInv, IngestHolds
  <2>1. /\ pushed \in Seq(Nat) /\ share_log \in Seq(Nat) /\ LogInv /\ HandsInv
    BY DEF IngestInv, IngestTypeOK
  <2>2. Len(share_log) = Len(pushed) => share_log = pushed
    <3>1. ASSUME Len(share_log) = Len(pushed), NEW i \in 1 .. Len(pushed)
          PROVE  share_log[i] = pushed[i]
      BY <2>1, <3>1 DEF LogInv
    <3> QED  BY <2>1, <3>1
  <2>3. \A p \in Post : post[p] # AtRest <=> p \in Holding
    <3>1. AtRest.at = "idle"
      BY DEF AtRest
    <3> QED  BY <2>1, <3>1, Zenon DEF HandsInv, Holding
  <2>4. Pending = {post[p].share : p \in Holding}
    BY <2>3 DEF Pending, Holding
  <2>7. {pushed[i] : i \in DOMAIN pushed} = TakenOn \ Pending
    <3>1. ASSUME NEW i \in DOMAIN pushed  PROVE pushed[i] \in TakenOn \ Pending
      BY <2>1, <2>4 DEF HandsInv
    <3>2. ASSUME NEW n \in TakenOn \ Pending  PROVE \E i \in DOMAIN pushed : pushed[i] = n
      BY <2>1, <2>4 DEF HandsInv
    <3> QED  BY <3>1, <3>2
  <2> QED  BY <2>1, <2>2, <2>7 DEF LogInv, HandsInv, RecentKept
<1> QED  BY <1>1, InitIngest, StepIngest, PTL DEF IngestSpec
----------------------------------------------------------------------------
(* REQUEST GUARDS                                                             *)
(* Proved for any cache size, window, clock skew, burst and rate.             *)

AuthTypeOK ==
  /\ clock \in Nat /\ tokens \in Nat /\ level \in Nat /\ times \in 0 .. 2
  /\ watched \in Requests
  /\ \A n \in DOMAIN entries : entries[n] \in Nat

\* What a client has used and what it has left are together at most the burst.
TokensAccounted == tokens + level <= Burst

(* Once the watched request was let in, its entry is in the cache with its    *)
(* own timestamp, or it is too old to be let in again, or the entry was       *)
(* crowded out.                                                               *)
StillRemembered ==
  times > 0 /\ ~crowded =>
    \/ watched.nonce \in DOMAIN entries /\ entries[watched.nonce] = watched.ts
    \/ clock > watched.ts + WindowSecs

AuthInv == AuthTypeOK /\ TokensAccounted /\ StillRemembered /\ (times = 2 => crowded)

\* A request's timestamp is a number.
LEMMA RequestParts == \A r \in Requests : r.nonce \in Nonce /\ r.ts \in Nat
BY AuthConstants DEF Requests

\* The guards start with an empty cache and a full bucket.
LEMMA InitAuthInv == AuthInit => AuthInv
BY AuthConstants DEF AuthInit, AuthInv, AuthTypeOK, TokensAccounted, StillRemembered

\* The cache holds numbers, and an entry in its window survives the clean-up.
LEMMA EvictKeeps ==
  ASSUME AuthTypeOK
  PROVE  /\ DOMAIN evict_expired(entries) \subseteq DOMAIN entries
         /\ \A n \in DOMAIN evict_expired(entries) : evict_expired(entries)[n] = entries[n]
         /\ \A n \in DOMAIN entries :
              clock <= entries[n] + WindowSecs => n \in DOMAIN evict_expired(entries)
BY AuthConstants DEF AuthTypeOK, evict_expired, Minus

\* The request watched is let in only while its entry would be kept.
LEMMA RequestKeeps ==
  ASSUME AuthInv, NEW r \in Requests, HmacRequest(r)
  PROVE  AuthInv'
<1> DEFINE kept == evict_expired(entries)
<1>1. /\ validate(r) /\ abs_diff(clock, r.ts) <= WindowSecs /\ r.nonce \notin DOMAIN kept
      /\ times' = IF r = watched /\ times < 2 THEN times + 1 ELSE times
      /\ UNCHANGED <<clock, watched, tokens, level>>
  BY Zenon DEF HmacRequest, verify_hmac, validate
<1>2. PICK base :
        /\ entries' = Recorded(base, r)
        /\ DOMAIN base \subseteq DOMAIN kept /\ \A n \in DOMAIN base : base[n] = kept[n]
        /\ crowded => crowded'
        /\ \A n \in DOMAIN kept \ DOMAIN base : n = watched.nonce => crowded'
  <2>1. CASE Cardinality(DOMAIN kept) < MaxNonces
    BY <1>1, <2>1 DEF validate
  <2>2. CASE ~(Cardinality(DOMAIN kept) < MaxNonces)
    <3>1. PICK n \in OldestNonces(kept) :
            /\ entries' = Recorded([m \in DOMAIN kept \ {n} |-> kept[m]], r)
            /\ crowded' = (crowded \/ n = watched.nonce)
      BY <1>1, <2>2, Zenon DEF validate
    <3> DEFINE base == [m \in DOMAIN kept \ {n} |-> kept[m]]
    <3>2. DOMAIN base = DOMAIN kept \ {n} /\ \A m \in DOMAIN base : base[m] = kept[m]
      OBVIOUS
    <3>3. entries' = Recorded(base, r) /\ crowded' = (crowded \/ n = watched.nonce)
      BY <3>1
    <3> HIDE DEF base
    <3> QED  BY <3>2, <3>3, Zenon
  <2> QED  BY <2>1, <2>2
<1>3. /\ DOMAIN entries' = DOMAIN base \union {r.nonce} /\ entries'[r.nonce] = r.ts
      /\ \A n \in DOMAIN base : n # r.nonce /\ entries'[n] = entries[n] /\ n \in DOMAIN entries
  BY <1>1, <1>2, EvictKeeps DEF Recorded, AuthInv
<1>4. AuthTypeOK' /\ TokensAccounted'
  BY <1>1, <1>3, RequestParts DEF AuthInv, AuthTypeOK, TokensAccounted
<1>5. abs_diff(clock, r.ts) <= WindowSecs => clock <= r.ts + WindowSecs
  BY RequestParts, AuthConstants DEF abs_diff, AuthInv, AuthTypeOK
<1>6. CASE crowded'
  BY <1>4, <1>6 DEF AuthInv, StillRemembered
<1>7. CASE ~crowded' /\ times = 0
  <2>1. times' \in {0, 1} /\ (times' = 1 => r = watched)
    BY <1>1, <1>7
  <2>2. times' = 1 => watched'.nonce \in DOMAIN entries' /\ entries'[watched'.nonce] = watched'.ts
    BY <1>1, <1>3, <2>1
  <2> QED  BY <1>4, <2>1, <2>2 DEF AuthInv, StillRemembered
<1>8. CASE ~crowded' /\ times # 0
  <2>1. ~crowded /\ times = 1
    BY <1>2, <1>8 DEF AuthInv, AuthTypeOK
  <2>2. CASE clock > watched.ts + WindowSecs
    BY <1>1, <1>4, <1>5, <2>1, <2>2, <1>8, RequestParts, AuthConstants
    DEF AuthInv, StillRemembered, AuthTypeOK
  <2>3. CASE ~(clock > watched.ts + WindowSecs)
    <3>1. watched.nonce \in DOMAIN entries /\ entries[watched.nonce] = watched.ts
      BY <2>1, <2>3 DEF AuthInv, StillRemembered
    <3>2. watched.nonce \in DOMAIN kept
      <4>1. AuthTypeOK /\ clock <= watched.ts + WindowSecs
        BY <2>3, RequestParts, AuthConstants DEF AuthInv, AuthTypeOK
      <4> HIDE DEF kept
      <4>2. \A n \in DOMAIN entries : clock <= entries[n] + WindowSecs => n \in DOMAIN kept
        BY <4>1, EvictKeeps DEF kept
      <4> QED  BY <3>1, <4>1, <4>2
    <3>3. watched.nonce \in DOMAIN base /\ r # watched
      <4>1. r # watched
        BY <1>1, <3>2
      <4>2. watched.nonce \in DOMAIN base
        BY <1>2, <1>8, <3>2
      <4> QED  BY <4>1, <4>2
    <3> QED  BY <1>1, <1>3, <1>4, <2>1, <3>1, <3>3 DEF AuthInv, StillRemembered
  <2> QED  BY <2>2, <2>3
<1> QED  BY <1>6, <1>7, <1>8 DEF AuthInv, AuthTypeOK

\* Every step of the guards keeps the invariant.
LEMMA StepAuthInv == AuthInv /\ [AuthNext]_authVars => AuthInv'
<1> SUFFICES ASSUME AuthInv, [AuthNext]_authVars  PROVE AuthInv'
  OBVIOUS
<1> USE AuthConstants DEF AuthInv, AuthTypeOK, TokensAccounted, StillRemembered
<1>1. ASSUME NEW r \in Requests, HmacRequest(r)  PROVE AuthInv'
  BY <1>1, RequestKeeps
<1>2. CASE try_consume
  BY <1>2 DEF try_consume
<1>3. CASE BucketEvicted
  BY <1>3 DEF BucketEvicted
<1>4. CASE SecondPasses
  BY <1>4, RequestParts DEF SecondPasses, Refilled, Minus
<1>5. CASE UNCHANGED authVars
  BY <1>5 DEF authVars
<1> QED  BY <1>1, <1>2, <1>3, <1>4, <1>5 DEF AuthNext

(* protocol/nonce.rs, middleware/rate_limit.rs.  For every size of the cache  *)
(* and every window: a signed request is let in once unless the cache was     *)
(* full, and a client stays within its burst.                                 *)
THEOREM GuardsHoldAlways == AuthSpec => []GuardsHold
<1>1. AuthInv => GuardsHold
  BY AuthConstants
     DEF AuthInv, AuthTypeOK, TokensAccounted, GuardsHold, AcceptedOnce, WithinBurst
<1> QED  BY <1>1, InitAuthInv, StepAuthInv, PTL DEF AuthSpec

----------------------------------------------------------------------------
(* SAVING SETTINGS                                                            *)
(* Proved for any settings, and any number of crashes at any point, while no  *)
(* two saves overlap; the run ConfigStore_overlap shows that this is needed.  *)

NoOverlap == \A r, s \in Saver : r = s

Settings == [{"a", "b"} -> Value]

\* The file a lone save has open at each of its steps.
OpenAt(at) == IF at = "fill_probe" THEN "probe" ELSE IF at = "fill" THEN "tmp" ELSE "none"

(* What a save has made sure of by each of its steps: what it writes was      *)
(* found valid, it writes to the temporary file only, and what it renames is  *)
(* complete.                                                                  *)
SaveInv ==
  /\ step \in [Saver -> {"idle", "validate", "fill_probe", "load", "truncate", "fill", "rename"}]
  /\ doc \in [Saver -> Settings]
  /\ fd = [s \in Saver |-> OpenAt(step[s])]
  /\ config \in [kind : {"whole"}, is : Settings]
  /\ Valid(config.is)
  /\ \A s \in Saver :
       /\ step[s] = "load" => probe = Whole(doc[s])
       /\ step[s] \in {"truncate", "fill", "rename"} => Valid(doc[s])
       /\ step[s] = "rename" => tmp = Whole(doc[s])

\* The settings a service starts from are valid.
LEMMA DefaultValid == Default \in Settings /\ Valid(Default)
BY ConfigConstants DEF Default, Settings, Valid

\* The service starts from a whole configuration, with no save under way.
LEMMA InitSaveInv == ConfigInit => SaveInv
BY DefaultValid DEF ConfigInit, SaveInv, OpenAt, Whole, File

\* A save that runs alone keeps what it has made sure of.
LEMMA SaveKeeps ==
  ASSUME NoOverlap, SaveInv, NEW s \in Saver, SaveStep(s)
  PROVE  SaveInv'
<1> USE DEF SaveInv, OpenAt, Then, Answer, NoOverlap
<1>0. \A r \in Saver : r = s
  OBVIOUS
<1>1. ASSUME NEW key \in {"a", "b"}, NEW v \in Value, ReadAndPatch(s, key, v)
      PROVE  SaveInv'
  <2>1. [config.is EXCEPT ![key] = v] \in Settings
    BY <1>1 DEF Settings
  <2> QED  BY <1>0, <1>1, <2>1 DEF ReadAndPatch
<1>2. CASE ValidateInMemory(s)
  BY <1>0, <1>2, DefaultValid DEF ValidateInMemory
<1>3. CASE TruncateProbe(s)
  BY <1>0, <1>3, Zenon DEF TruncateProbe
<1>4. CASE FillProbe(s)
  BY <1>0, <1>4, Zenon DEF FillProbe
<1>5. CASE LoadProbe(s)
  <2>1. probe.is = doc[s] /\ fd' = fd /\ fd[s] = "none"
    BY <1>0, <1>5 DEF LoadProbe, Whole, File
  <2> QED  BY <1>0, <1>5, <2>1, DefaultValid DEF LoadProbe
<1>6. CASE TruncateTmp(s)
  BY <1>0, <1>6, Zenon DEF TruncateTmp
<1>7. CASE FillOpenFile(s)
  BY <1>0, <1>7, Zenon DEF FillOpenFile
<1>8. CASE RenameTmp(s)
  BY <1>0, <1>8, DefaultValid DEF RenameTmp, Whole, File
<1> QED
  BY <1>1, <1>2, <1>3, <1>4, <1>5, <1>6, <1>7, <1>8 DEF SaveStep

\* Every step, and a crash at any point, keeps it.
LEMMA StepSaveInv == NoOverlap /\ SaveInv /\ [ConfigNext]_configVars => SaveInv'
<1> SUFFICES ASSUME NoOverlap, SaveInv, [ConfigNext]_configVars  PROVE SaveInv'
  OBVIOUS
<1>1. ASSUME NEW s \in Saver, SaveStep(s)  PROVE SaveInv'
  BY <1>1, SaveKeeps
<1>2. CASE CrashRestart
  BY <1>2, DefaultValid DEF CrashRestart, SaveInv, OpenAt
<1>3. CASE UNCHANGED configVars
  BY <1>3 DEF configVars, SaveInv
<1> QED  BY <1>1, <1>2, <1>3 DEF ConfigNext

(* config_io.rs, atomic_write_toml.  Wherever the process dies, the           *)
(* configuration file is whole and valid, as long as saves do not overlap.    *)
THEOREM ConfigStaysWholeAlone ==
  ASSUME NoOverlap
  PROVE  ConfigSpec => []ConfigStaysWhole
<1>1. SaveInv => ConfigStaysWhole
  BY DEF SaveInv, ConfigStaysWhole
<1>2. SaveInv /\ [ConfigNext]_configVars => SaveInv'
  BY NoOverlap, StepSaveInv
<1> QED  BY <1>1, <1>2, InitSaveInv, PTL DEF ConfigSpec

----------------------------------------------------------------------------
(* LICENCE KEYS                                                               *)
(* Proved for any signing keys, any list of embedded ones and any validity.   *)

\* Keys that the desktop client would load at the right time.
Genuine(key) == parse_key(key) /\ verify_signature_with_pubkeys(key, Embedded)

MaybeKey == {NoKey} \union Entered
ConfigStates == {Absent, TornConfig, Unset} \union {Keyed(k) : k \in Entered}

\* What is stored or was chosen is a genuine key.
KeysOK ==
  /\ time \in Nat /\ env_key \in MaybeKey
  /\ files \in [ConfigPlaces -> ConfigStates]
  /\ stored # NoKey => stored \in Entered /\ Genuine(stored)
  /\ choice # NoKey => choice \in Entered /\ Genuine(choice)

(* The chosen key is in the file that is read first, and a client that was    *)
(* started since then has it, or has none because it had run out.             *)
ChoiceInv ==
  /\ choice # NoKey => files[writable_config_path] = Keyed(choice)
  /\ relaunched /\ app = "up" /\ choice # NoKey /\ env_key = NoKey =>
       stored = choice \/ (stored = NoKey /\ choice.expires_at < time)

\* An issued key has a time of expiry, decodes and is not the absent one.
LEMMA EnteredKeys ==
  ASSUME NEW key \in Entered
  PROVE  key.expires_at \in Nat /\ key.flaw = "none" /\ key # NoKey
<1>1. PICK k \in Signer, tier \in {"shadow", "observe_paid"} :
        key = [signer |-> k, tier |-> tier, expires_at |-> 0 + Duration, flaw |-> "none"]
  BY DEF Entered, sign_license_key
<1>2. NoKey.flaw = "prefix"
  BY DEF NoKey
<1> QED  BY <1>1, <1>2, LicenceConstants

LEMMA KeyedParts ==
  ASSUME NEW key
  PROVE  Keyed(key).state = "set" /\ Keyed(key).key = key
BY DEF Keyed

\* Whatever a config place holds has a key or the absent one.
LEMMA StateKey ==
  ASSUME NEW c \in ConfigStates
  PROVE  c.key \in MaybeKey
BY KeyedParts DEF ConfigStates, MaybeKey, Absent, TornConfig, Unset

\* The places that are searched, and the first of them.
LEMMA SearchedPlaces ==
  /\ Searched \in Seq(ConfigPlaces) /\ Len(Searched) \in 1 .. 3
  /\ Searched[1] = writable_config_path /\ writable_config_path \in ConfigPlaces
BY DEF Searched, writable_config_path, ConfigPlaces

LEMMA FoundFirst ==
  ASSUME Found # {}
  PROVE  \E i \in Found : find_config_path = Searched[i] /\ \A j \in Found : i <= j
<1>1. \A i \in Found : i = 1 \/ i = 2 \/ i = 3
  BY SearchedPlaces DEF Found
<1>2. \E i \in Found : \A j \in Found : i <= j
  <2>1. CASE 1 \in Found
    BY <1>1, <2>1
  <2>2. CASE 1 \notin Found /\ 2 \in Found
    BY <1>1, <2>2
  <2>3. CASE 1 \notin Found /\ 2 \notin Found
    BY <1>1, <2>3
  <2> QED  BY <2>1, <2>2, <2>3
<1> QED  BY <1>2, Zenon DEF find_config_path

\* The file that is written is the one found first, once it is there.
LEMMA WrittenIsFound ==
  ASSUME files[writable_config_path].state # "absent"
  PROVE  find_config_path = writable_config_path
<1>1. 1 \in Found /\ Found \subseteq Nat \ {0}
  BY SearchedPlaces DEF Found
<1>2. PICK i \in Found : find_config_path = Searched[i] /\ \A j \in Found : i <= j
  BY <1>1, FoundFirst
<1>3. i = 1
  BY <1>1, <1>2
<1> QED  BY <1>2, <1>3, SearchedPlaces

\* What the client loads is a key or none.
LEMMA LoadedIs ==
  ASSUME KeysOK
  PROVE  Loaded \in MaybeKey
<1>1. CASE Found = {}
  BY <1>1 DEF KeysOK, Loaded, find_config_path, MaybeKey
<1>2. CASE Found # {}
  <2>1. find_config_path \in ConfigPlaces
    BY <1>2, FoundFirst, SearchedPlaces DEF Found
  <2>2. files[find_config_path] \in ConfigStates
    BY <2>1 DEF KeysOK
  <2> QED  BY <2>2, StateKey DEF KeysOK, Loaded, MaybeKey
<1> QED  BY <1>1, <1>2

\* What is accepted is genuine, and a genuine key that is not has run out.
LEMMA LoadedKey ==
  ASSUME NEW key
  PROVE  /\ DesktopAccepts(key, Embedded, time) => Genuine(key)
         /\ Genuine(key) /\ ~DesktopAccepts(key, Embedded, time) => key.expires_at < time
BY DEF DesktopAccepts, Genuine, check_expiry

\* The client has neither read nor been given a key.
LEMMA InitLicence == LicenceInit => KeysOK /\ ChoiceInv
BY DEF LicenceInit, KeysOK, ChoiceInv, MaybeKey, ConfigStates

\* Starting the client: it has what the first file says, if that is accepted.
LEMMA LaunchLicence ==
  ASSUME KeysOK, ChoiceInv, Launch
  PROVE  KeysOK' /\ ChoiceInv'
<1>1. /\ stored' = load_from_config /\ app' = "up"
      /\ UNCHANGED <<time, explicit, env_key, files, choice>>
  BY DEF Launch
<1>2. stored' # NoKey => stored' \in Entered /\ Genuine(stored')
  BY <1>1, LoadedIs, LoadedKey DEF load_from_config, MaybeKey
<1>3. ASSUME choice # NoKey, env_key = NoKey
      PROVE  stored' = choice \/ (stored' = NoKey /\ choice.expires_at < time)
  <2>1. files[writable_config_path] = Keyed(choice) /\ Genuine(choice)
    BY <1>3 DEF KeysOK, ChoiceInv
  <2>2. find_config_path = writable_config_path /\ find_config_path # "nowhere"
    BY <2>1, KeyedParts, WrittenIsFound DEF writable_config_path
  <2>3. Loaded = choice
    BY <1>3, <2>1, <2>2, KeyedParts DEF Loaded
  <2> QED  BY <1>1, <2>1, <2>3, LoadedKey DEF load_from_config
<1>4. writable_config_path' = writable_config_path
  BY <1>1 DEF writable_config_path
<1>5. KeysOK'
  BY <1>1, <1>2 DEF KeysOK, Genuine
<1> QED  BY <1>1, <1>3, <1>4, <1>5 DEF ChoiceInv

\* Entering a key: it was accepted, and it goes to the file that is read first.
LEMMA SetKeyLicence ==
  ASSUME KeysOK, ChoiceInv, NEW key \in Entered, NEW saved \in BOOLEAN, SetKey(key, saved)
  PROVE  KeysOK' /\ ChoiceInv'
<1>1. /\ stored' = key /\ relaunched' = FALSE /\ Genuine(key)
      /\ UNCHANGED <<time, explicit, env_key, app>>
  BY LoadedKey DEF SetKey
<1>2. writable_config_path' = writable_config_path /\ writable_config_path \in ConfigPlaces
  BY <1>1, SearchedPlaces DEF writable_config_path
<1>3. CASE saved
  <2>1. files' = [files EXCEPT ![writable_config_path] = Keyed(key)] /\ choice' = key
    BY <1>3 DEF SetKey, save_license_key
  <2>2. Keyed(key) \in ConfigStates
    BY DEF ConfigStates
  <2>3. files' \in [ConfigPlaces -> ConfigStates] /\ files'[writable_config_path] = Keyed(key)
    BY <1>2, <2>1, <2>2 DEF KeysOK
  <2>4. KeysOK'
    BY <1>1, <2>1, <2>3 DEF KeysOK, Genuine
  <2> QED  BY <1>1, <1>2, <2>1, <2>3, <2>4 DEF ChoiceInv
<1>4. CASE ~saved
  <2>1. files' = files /\ choice' = NoKey
    BY <1>4 DEF SetKey
  <2> QED  BY <1>1, <2>1 DEF KeysOK, ChoiceInv, Genuine
<1> QED  BY <1>3, <1>4

\* Signing out and the end of the process forget the choice or leave it be.
LEMMA LeaveLicence ==
  ASSUME KeysOK, ChoiceInv, NEW flag \in BOOLEAN, SignOut(flag) \/ Quit(flag)
  PROVE  KeysOK' /\ ChoiceInv'
<1>1. /\ stored' = NoKey /\ UNCHANGED <<time, explicit, env_key>>
      /\ choice' = NoKey \/ (choice' = choice /\ files' = files /\ app' = "down")
  BY Zenon DEF SignOut, Quit
<1>2. \/ files' = files
      \/ \E c \in {Unset, TornConfig} : files' = [files EXCEPT ![writable_config_path] = c]
  BY Zenon DEF SignOut, Quit, clear_license_key
<1>3. files' \in [ConfigPlaces -> ConfigStates]
  BY <1>2, SearchedPlaces DEF KeysOK, ConfigStates
<1>4. writable_config_path' = writable_config_path
  BY <1>1 DEF writable_config_path
<1>5. KeysOK'
  BY <1>1, <1>3 DEF KeysOK, Genuine
<1> QED  BY <1>1, <1>4, <1>5 DEF ChoiceInv

\* A key that had run out stays so.
LEMMA TimeLicence ==
  ASSUME KeysOK, ChoiceInv, TimePasses
  PROVE  KeysOK' /\ ChoiceInv'
<1>1. /\ time' = time + 1
      /\ UNCHANGED <<explicit, env_key, files, app, stored, choice, relaunched>>
  BY DEF TimePasses
<1>2. KeysOK'
  BY <1>1 DEF KeysOK, Genuine
<1>3. choice # NoKey /\ choice.expires_at < time => choice.expires_at < time'
  BY <1>1, EnteredKeys DEF KeysOK
<1>4. writable_config_path' = writable_config_path
  BY <1>1 DEF writable_config_path
<1> QED  BY <1>1, <1>2, <1>3, <1>4 DEF ChoiceInv

\* Every step keeps the chosen key where it is read first.
LEMMA StepLicence ==
  ASSUME KeysOK, ChoiceInv, [LicenceNext]_licenceVars
  PROVE  KeysOK' /\ ChoiceInv'
<1>1. CASE UNCHANGED licenceVars
  BY <1>1 DEF licenceVars, KeysOK, ChoiceInv, Genuine, writable_config_path
<1> QED
  BY <1>1, LaunchLicence, SetKeyLicence, LeaveLicence, TimeLicence DEF LicenceNext

\* Each of the verifiers' checks is one of the others', in another order.
LEMMA SameChecks ==
  ASSUME NEW key \in LicenceKeys, NEW vk \in Signer, NEW t \in Nat
  PROVE  /\ validate_signed(key, vk, t) <=>
              DesktopAccepts(key, <<Malformed, vk>>, t) /\ key.tier # "shadow"
         /\ validate_signed(key, vk, t) => verify_license_key(key, vk)
<1>1. (\E i \in DOMAIN <<Malformed, vk>> :
         <<Malformed, vk>>[i] # Malformed /\ key.signer = <<Malformed, vk>>[i])
      <=> key.signer = vk
  BY LicenceConstants
<1>2. key.flaw \in LicenceFlaws /\ key.tier \in Tiers
  BY DEF LicenceKeys
<1> QED
  BY <1>1, <1>2 DEF validate_signed, DesktopAccepts, parse_key, check_expiry, Tiers,
                    verify_signature_with_pubkeys, verify_license_key, LicenceFlaws

\* An issued key is accepted until the second it expires.
LEMMA IssuedIsAccepted ==
  ASSUME NEW k \in Signer, NEW tier \in Tiers, NEW t \in Nat, NEW at \in Nat
  PROVE  DesktopAccepts(sign_license_key(k, tier, t), <<k>>, at) <=> at <= t + Duration
<1> DEFINE key == sign_license_key(k, tier, t)
<1>1. key.signer = k /\ key.flaw = "none" /\ key.expires_at = t + Duration
  BY DEF sign_license_key
<1>2. \E i \in DOMAIN <<k>> : <<k>>[i] # Malformed /\ k = <<k>>[i]
  BY LicenceConstants
<1>3. ~(t + Duration < at) <=> at <= t + Duration
  BY LicenceConstants
<1> QED
  BY <1>1, <1>2, <1>3 DEF DesktopAccepts, parse_key, check_expiry,
                          verify_signature_with_pubkeys

(* session.rs, auth.rs, license.rs, config.rs.  Issuer and verifiers agree on *)
(* every key although they check in different orders; a key entered at the    *)
(* desktop client comes back after every restart until it expires or is       *)
(* replaced, through failed and interrupted writes; and what is shown as      *)
(* valid was signed by an embedded key and has not run out.                   *)
THEOREM LicencesHoldAlways == LicenceSpec => []LicencesHold
<1>1. KeysOK => VerifiersAgree
  BY SameChecks, IssuedIsAccepted DEF KeysOK, VerifiersAgree
<1>2. KeysOK => ShownIsLicensed
  BY EnteredKeys DEF KeysOK, ShownIsLicensed, is_valid, DesktopAccepts, Genuine, check_expiry
<1>3. KeysOK /\ ChoiceInv => EnteredIsKept
  BY EnteredKeys DEF KeysOK, ChoiceInv, EnteredIsKept, is_valid
<1> QED
  BY <1>1, <1>2, <1>3, InitLicence, StepLicence, PTL DEF LicenceSpec, LicencesHold
=============================================================================
