------------------------------ MODULE Accounts ------------------------------
(* rg-auth: accounts, emailed tokens, login sessions and licence keys         *)
(* (services/rg-auth/src/handlers.rs over db.rs and session.rs).  A handler   *)
(* holds the database mutex from its first query to its last write, so each   *)
(* is one action.  A write inside one can fail; most failures are only        *)
(* logged.                                                                    *)
(*                                                                            *)
(* Times are in a unit of the model.  A licence key is determined by what is  *)
(* signed (organisation, tier, issue time): the signature adds nothing random.*)
EXTENDS Integers, FiniteSets

CONSTANTS
  Email,             \* registered addresses; all of one organisation and tier
  Password,
  TokenTtl,          \* 7 days: verify, approve and deny links
  ResetTtl,          \* 1 hour: password reset links
  Retention,         \* 30 days: after which a link's row is deleted
  SessionTtl,        \* VELDRA_AUTH_SESSION_TTL_HOURS
  MAX_ACTIVE_KEYS_PER_USER,
  MaxLinks,          \* bound: reset links and sessions of a user
  MaxKeys,           \* bound: licence keys of a user
  MaxNow,            \* bound: the clock
  MaxFaults          \* bound: failed database writes

ASSUME AccountConstants ==
  /\ Password # {}
  /\ {TokenTtl, ResetTtl, Retention, SessionTtl, MAX_ACTIVE_KEYS_PER_USER, MaxLinks, MaxKeys,
      MaxNow, MaxFaults} \subseteq Nat

VARIABLES
  now,
  users,             \* users[e]: the row of address e
  links,             \* email_tokens
  logins,            \* sessions
  licences,          \* license_keys
  failedWrites,            \* failed writes so far
  undeleted          \* users whose sessions could not be deleted on a reset

accountVars == <<now, users, links, logins, licences, failedWrites, undeleted>>

Statuses == {"absent", "pending_verification", "pending_approval", "approved", "denied"}
Link(e, kind, n) == [user |-> e, kind |-> kind, n |-> n, born |-> now, used |-> FALSE]

AccountTypeOK ==
  /\ now \in 0 .. MaxNow /\ failedWrites \in 0 .. MaxFaults
  /\ \A e \in Email : users[e].status \in Statuses /\ users[e].password \in Password
  /\ \A l \in links : l.user \in Email /\ l.used \in BOOLEAN
  /\ \A s \in logins : s.user \in Email /\ s.password \in Password
  /\ \A k \in licences : k.user \in Email /\ k.status \in {"active", "revoked"}
  /\ undeleted \subseteq Email

AccountInit ==
  /\ now = 0
  /\ users = [e \in Email |-> [status |-> "absent", password |-> CHOOSE p \in Password : TRUE]]
  /\ links = {} /\ logins = {} /\ licences = {}
  /\ failedWrites = 0 /\ undeleted = {}

\* Whether a write of this handler fails.
Fault(fails) ==
  /\ fails => failedWrites < MaxFaults
  /\ failedWrites' = IF fails THEN failedWrites + 1 ELSE failedWrites

\* A registered address is only told by email that someone tried again.
register(e, p, fails) ==
  /\ users[e].status = "absent"
  /\ users' = [users EXCEPT ![e] = [status |-> "pending_verification", password |-> p]]
  /\ Fault(fails)
  /\ links' = IF fails THEN links ELSE links \cup {Link(e, "verify", 0)}
  /\ UNCHANGED <<now, logins, licences, undeleted>>

\* Variant: a link of any kind will do.
ConsumeAnyKind(l, kind, ttl) == ~l.used /\ l.born + ttl > now

\* The UPDATE ... WHERE that spends a link: of the right kind, unused, in time.
consume_email_token(l, kind, ttl) ==
  /\ l.kind = kind /\ ~l.used /\ l.born + ttl > now

Spent(l) == (links \ {l}) \cup {[l EXCEPT !.used = TRUE]}

\* A link posted to /auth/verify, /auth/approve or /auth/deny.  The link is
\* spent even when the status cannot be written after it.
Endpoints == [verify |-> "pending_approval", approve |-> "approved", deny |-> "denied"]

PostLink(endpoint, l, fails) ==
  /\ consume_email_token(l, endpoint, TokenTtl)
  /\ Fault(fails)
  /\ users' = IF fails THEN users
              ELSE [users EXCEPT ![l.user].status = Endpoints[endpoint]]
  /\ links' = Spent(l) \cup
       IF endpoint = "verify" /\ ~fails
         THEN {Link(l.user, "approve", 0), Link(l.user, "deny", 0)} ELSE {}
  /\ UNCHANGED <<now, logins, licences, undeleted>>

login(e, p, n) ==
  /\ users[e].status = "approved" /\ users[e].password = p
  /\ ~\E s \in logins : s.user = e /\ s.n = n
  /\ logins' = logins \cup
       {[user |-> e, n |-> n, expires |-> now + SessionTtl, password |-> p]}
  /\ UNCHANGED <<now, users, links, licences, failedWrites, undeleted>>

logout(s) ==
  /\ logins' = logins \ {s}
  /\ UNCHANGED <<now, users, links, licences, failedWrites, undeleted>>

validate_session(s) == s \in logins /\ s.expires > now

forgot_password(e, n) ==
  /\ users[e].status # "absent"
  /\ ~\E l \in links : l.user = e /\ l.kind = "password_reset" /\ l.n = n
  /\ links' = links \cup {Link(e, "password_reset", n)}
  /\ UNCHANGED <<now, users, logins, licences, failedWrites, undeleted>>

\* update_password failing ends the handler; delete_sessions_for_user failing
\* is logged, and the reset is reported as done.
reset_password(l, p, failing) ==
  /\ consume_email_token(l, "password_reset", ResetTtl)
  /\ Fault(failing # "nothing")
  /\ links' = Spent(l)
  /\ users' = IF failing = "update" THEN users
              ELSE [users EXCEPT ![l.user].password = p]
  /\ logins' = IF failing = "nothing" THEN {s \in logins : s.user # l.user} ELSE logins
  /\ undeleted' = IF failing = "delete" THEN undeleted \cup {l.user} ELSE undeleted
  /\ UNCHANGED <<now, licences>>

\* sign_license_key with insert_license_key: a full set of active keys or a
\* key value that exists already (key_value is UNIQUE) is an error.
generate_key(s) ==
  /\ validate_session(s)
  /\ users[s.user].status = "approved"
  /\ Cardinality({k \in licences : k.user = s.user /\ k.status = "active"})
       < MAX_ACTIVE_KEYS_PER_USER
  /\ \A k \in licences : k.issued # now
  /\ Cardinality({k \in licences : k.user = s.user}) < MaxKeys
  /\ licences' = licences \cup {[user |-> s.user, issued |-> now, status |-> "active"]}
  /\ UNCHANGED <<now, users, links, logins, failedWrites, undeleted>>

revoke_key(s, k) ==
  /\ validate_session(s)
  /\ k.user = s.user /\ k.status = "active"
  /\ licences' = (licences \ {k}) \cup {[k EXCEPT !.status = "revoked"]}
  /\ UNCHANGED <<now, users, links, logins, failedWrites, undeleted>>

\* POST /api/keys/validate for the key issued at a time: an active row of an
\* approved owner (the signature and the year of validity aside).
validate_license_key(issued) ==
  \E k \in licences :
    k.issued = issued /\ k.status = "active" /\ users[k.user].status = "approved"

cleanup_task ==
  /\ logins' = {s \in logins : s.expires > now}
  /\ links' = {l \in links : l.born + Retention > now}
  /\ UNCHANGED <<now, users, licences, failedWrites, undeleted>>

PassTime ==
  /\ now < MaxNow
  /\ now' = now + 1
  /\ UNCHANGED <<users, links, logins, licences, failedWrites, undeleted>>

AccountNext ==
  \/ \E e \in Email, p \in Password, fails \in BOOLEAN : register(e, p, fails)
  \/ \E endpoint \in DOMAIN Endpoints, l \in links, fails \in BOOLEAN :
       PostLink(endpoint, l, fails)
  \/ \E e \in Email, p \in Password, n \in 1 .. MaxLinks : login(e, p, n)
  \/ \E s \in logins : logout(s)
  \/ \E e \in Email, n \in 1 .. MaxLinks : forgot_password(e, n)
  \/ \E l \in links, p \in Password, failing \in {"nothing", "update", "delete"} :
       reset_password(l, p, failing)
  \/ \E s \in logins : generate_key(s)
  \/ \E s \in logins, k \in licences : revoke_key(s, k)
  \/ cleanup_task \/ PassTime

AccountSpec == AccountInit /\ [][AccountNext]_accountVars

----------------------------------------------------------------------------
(* An account changes status only by spending, once and in time, the link    *)
(* that was emailed for exactly that change: the mailbox's own link verifies  *)
(* it, and only a link of the administrator's approves or denies it.          *)
StatusIsEarned ==
  [][\A e \in Email :
       (users[e].status # "absent" /\ users'[e].status # users[e].status) =>
         \E l \in links :
           /\ l.user = e /\ ~l.used /\ now < l.born + TokenTtl
           /\ Endpoints[l.kind] = users'[e].status
           /\ [l EXCEPT !.used = TRUE] \in links']_accountVars

(* A session obtained with an old password does not survive the password     *)
(* reset, unless the deletion itself failed.                                  *)
OldSessionsGone ==
  \A s \in logins : s.user \in undeleted \/ s.password = users[s.user].password

(* A revoked licence key is never valid again, although a key generated in   *)
(* the same second for the same organisation is the very same text.           *)
RevokedForGood ==
  [][\A k \in licences :
       k.status = "revoked" => ~validate_license_key(k.issued)']_accountVars

(* The rules of an account: a status changes by an emailed link, a revoked    *)
(* key stays revoked, and an old session does not outlive the password.       *)
AccountsHold == []OldSessionsGone /\ StatusIsEarned /\ RevokedForGood
============================================================================
