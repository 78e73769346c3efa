------------------------------ MODULE Session ------------------------------
(***************************************************************************)
(* SessionManager (src/auth/session.cpp): the cache of session tokens, the *)
(* sessions table behind it, the expiry of tokens, and what a restart of   *)
(* the process keeps.                                                      *)
(*                                                                         *)
(* create and revoke update the cache under mu_ and then, in a step of     *)
(* their own, the table.  Time is counted in ticks, Second of them to a    *)
(* second: util::now_unix_ms counts milliseconds, the MySQL column whole   *)
(* seconds.  touch has no caller.  This is the MySQL build: queries may    *)
(* fail, and the table survives a restart; the in-memory store never fails *)
(* and goes with the process.                                              *)
(***************************************************************************)
EXTENDS Integers

CONSTANTS
  Tokens, Users, Workers, NoToken, NoUser,
  Ttl,      \* ttl_seconds_ * 1000, in ticks
  Second,   \* ticks in a second
  MaxTime   \* bound: the last instant

ASSUME SessionAssumption ==
  /\ NoToken \notin Tokens
  /\ NoUser \notin Users
  /\ Ttl \in Nat \ {0}
  /\ Second \in Nat \ {0}
  /\ MaxTime \in Nat

VARIABLES
  now,      \* util::now_unix_ms
  cached,   \* the tokens in SessionManager::cache_,
  userOf,   \*   SessionInfo::user_id of each, NoUser when it is not cached
  expires,  \*   and its expires_at_ms, 0 when it is not cached
  rows,     \* the tokens in the sessions table,
  rowUser,  \*   with user_id
  active,   \*   and last_active_at
  pc, tok,  \* what each worker is at, and its token
  up,       \* the process runs
  owner,    \* history: who a token was made for, NoUser before
  born,     \* history: when it was made
  issued,   \* history: tokens that a login's ack has carried to a client
  revoked,  \* history: tokens whose revoke has begun
  ended,    \* history: tokens whose logout was acked
  unsaved,  \* history: tokens whose INSERT failed, or that a warm that failed
            \*   has left out
  undeleted \* history: tokens with a DELETE that failed

procVars == <<cached, userOf, expires>>
tableVars == <<rows, rowUser, active>>
workVars == <<pc, tok>>
histVars == <<owner, born, issued, revoked, ended, unsaved, undeleted>>
vars == <<now, cached, userOf, expires, rows, rowUser, active, pc, tok, up,
          owner, born, issued, revoked, ended, unsaved, undeleted>>

Time == 0..MaxTime

TypeOK ==
  /\ now \in Time
  /\ cached \subseteq Tokens
  /\ userOf \in [Tokens -> Users \cup {NoUser}]
  /\ expires \in [Tokens -> 0..(MaxTime + Ttl)]
  /\ rows \subseteq Tokens
  /\ rowUser \in [Tokens -> Users \cup {NoUser}]
  /\ active \in [Tokens -> Time]
  /\ pc \in [Workers -> {"idle", "insert", "delete"}]
  /\ tok \in [Workers -> Tokens \cup {NoToken}]
  /\ up \in BOOLEAN
  /\ owner \in [Tokens -> Users \cup {NoUser}]
  /\ born \in [Tokens -> Time]
  /\ \A s \in {issued, revoked, ended, unsaved, undeleted} : s \subseteq Tokens

Init ==
  /\ now = 0
  /\ cached = {}
  /\ userOf = [t \in Tokens |-> NoUser]
  /\ expires = [t \in Tokens |-> 0]
  /\ rows = {}
  /\ rowUser = [t \in Tokens |-> NoUser]
  /\ active = [t \in Tokens |-> 0]
  /\ pc = [w \in Workers |-> "idle"]
  /\ tok = [w \in Workers |-> NoToken]
  /\ up = TRUE
  /\ owner = [t \in Tokens |-> NoUser]
  /\ born = [t \in Tokens |-> 0]
  /\ issued = {}
  /\ revoked = {}
  /\ ended = {}
  /\ unsaved = {} /\ undeleted = {}

Tick ==
  /\ now < MaxTime
  /\ now' = now + 1
  /\ UNCHANGED <<procVars, tableVars, workVars, up, histVars>>

\* cache_.erase for the tokens ts.
Erase(ts) ==
  /\ cached' = cached \ ts
  /\ userOf' = [t \in Tokens |-> IF t \in ts THEN NoUser ELSE userOf[t]]
  /\ expires' = [t \in Tokens |-> IF t \in ts THEN 0 ELSE expires[t]]

\* create: make_session_token draws a token never drawn before; it is cached.
Create(w, u, t) ==
  /\ up
  /\ pc[w] = "idle"
  /\ owner[t] = NoUser
  /\ cached' = cached \cup {t}
  /\ userOf' = [userOf EXCEPT ![t] = u]
  /\ expires' = [expires EXCEPT ![t] = now + Ttl]
  /\ pc' = [pc EXCEPT ![w] = "insert"]
  /\ tok' = [tok EXCEPT ![w] = t]
  /\ owner' = [owner EXCEPT ![t] = u]
  /\ born' = [born EXCEPT ![t] = now]
  /\ UNCHANGED <<now, tableVars, up, issued, revoked, ended, unsaved, undeleted>>

Done(w) ==
  /\ pc' = [pc EXCEPT ![w] = "idle"]
  /\ tok' = [tok EXCEPT ![w] = NoToken]

\* FROM_UNIXTIME(ts / 1000) in a column of whole seconds.
Truncated(ts) == (ts \div Second) * Second

\* insert_session, whose result create does not see; login then acks the token.
Insert(w) ==
  LET t == tok[w] IN
  /\ up
  /\ pc[w] = "insert"
  /\ \/ /\ rows' = rows \cup {t}
        /\ rowUser' = [rowUser EXCEPT ![t] = owner[t]]
        /\ active' = [active EXCEPT ![t] = Truncated(born[t])]
        /\ UNCHANGED unsaved
     \/ unsaved' = unsaved \cup {t} /\ UNCHANGED tableVars
  /\ issued' = issued \cup {t}
  /\ Done(w)
  /\ UNCHANGED <<now, procVars, up, owner, born, revoked, ended, undeleted>>

\* validate: what it answers, and the expired entry it drops.
Accepts(t) == up /\ t \in cached /\ now < expires[t]

Validate(t) ==
  /\ up
  /\ t \in cached
  /\ now >= expires[t]
  /\ Erase({t})
  /\ UNCHANGED <<now, tableVars, workVars, up, histVars>>

\* handle_logout, revoke: the cache first.  Any connection that was bound with
\* the token may be the one that logs out.
Revoke(w, t) ==
  /\ up
  /\ pc[w] = "idle"
  /\ t \in issued
  /\ Erase({t})
  /\ pc' = [pc EXCEPT ![w] = "delete"]
  /\ tok' = [tok EXCEPT ![w] = t]
  /\ revoked' = revoked \cup {t}
  /\ UNCHANGED <<now, tableVars, up, owner, born, issued, ended, unsaved, undeleted>>

\* delete_session, whose result revoke does not see; logout then acks.
DeleteAs(w, gone) ==
  LET t == tok[w] IN
  /\ up
  /\ pc[w] = "delete"
  /\ \/ /\ rows' = rows \ gone
        /\ rowUser' = [s \in Tokens |-> IF s \in gone THEN NoUser ELSE rowUser[s]]
        /\ active' = [s \in Tokens |-> IF s \in gone THEN 0 ELSE active[s]]
        /\ UNCHANGED undeleted
     \/ undeleted' = undeleted \cup {t} /\ UNCHANGED tableVars
  /\ ended' = ended \cup {t}
  /\ Done(w)
  /\ UNCHANGED <<now, procVars, up, owner, born, issued, revoked, unsaved>>

\* Mutants: the row is kept; all of the user's rows go.
DeleteNothing(w) == DeleteAs(w, {})
DeleteUser(w) == DeleteAs(w, {t \in Tokens : rowUser[t] = owner[tok[w]]})

Delete(w) == DeleteAs(w, {tok[w]})

\* The process stops, whatever its workers are doing.
Crash ==
  /\ up
  /\ up' = FALSE
  /\ Erase(Tokens)
  /\ pc' = [w \in Workers |-> "idle"]
  /\ tok' = [w \in Workers |-> NoToken]
  /\ UNCHANGED <<now, tableVars, histVars>>

Load(ts) ==
  /\ cached' = ts
  /\ userOf' = [t \in Tokens |-> IF t \in ts THEN rowUser[t] ELSE NoUser]
  /\ expires' = [t \in Tokens |-> IF t \in ts THEN active[t] + Ttl ELSE 0]

\* Mutant: warm restarts every session's clock.
WarmAfresh ==
  /\ ~up
  /\ up' = TRUE
  /\ cached' = rows
  /\ userOf' = rowUser
  /\ expires' = [t \in Tokens |-> IF t \in rows THEN now + Ttl ELSE 0]
  /\ UNCHANGED <<now, tableVars, workVars, histVars>>

\* ChatServer::init: warm, before any request is read.
Warm ==
  /\ ~up
  /\ up' = TRUE
  /\ \/ Load({t \in rows : active[t] + Ttl > now}) /\ UNCHANGED unsaved
     \/ Load({}) /\ unsaved' = unsaved \cup rows
  /\ UNCHANGED <<now, tableVars, workVars, owner, born, issued, revoked, ended, undeleted>>

Next ==
  \/ Tick \/ Crash \/ Warm
  \/ \E t \in Tokens : Validate(t)
  \/ \E w \in Workers :
       \/ \E t \in Tokens : Revoke(w, t) \/ (\E u \in Users : Create(w, u, t))
       \/ Insert(w) \/ Delete(w)

Spec == Init /\ [][Next]_vars
-----------------------------------------------------------------------------
(* A token is accepted for the user it was made for, and never later than    *)
(* ttl_s after the login, however often the process restarted in between     *)
(* (create, warm).                                                           *)
NeverOutlivesTtl ==
  \A t \in Tokens : Accepts(t) => userOf[t] = owner[t] /\ now < born[t] + Ttl

(* Once a logout has been acked its token is not accepted again, also after  *)
(* a restart, unless a DELETE of it failed; an INSERT or a warm that failed  *)
(* is no excuse (revoke, delete_session, warm).                              *)
RevokedStaysDead ==
  \A t \in ended \ undeleted : ~Accepts(t)

(* A token a client was given is accepted until its ttl has run out, less    *)
(* the fraction of a second that the table does not store, also after a      *)
(* restart, unless it was revoked or a query about it failed.                *)
SessionsSurvive ==
  up => \A t \in issued \ (revoked \cup unsaved) : now < Truncated(born[t]) + Ttl => Accepts(t)
-----------------------------------------------------------------------------
(* What the documentation says and the code does not do.                     *)

(* logout "Revokes the current session token": after its ack the token is    *)
(* refused.                                                                  *)
LogoutRevokes == \A t \in ended : ~Accepts(t)

(* "sessions persist in MySQL; on restart, SessionManager::warm re-loads     *)
(* them": a token that a client was given and that was not revoked is        *)
(* accepted until its ttl, to the second, is over.                           *)
LoginPersists ==
  up => \A t \in issued \ revoked : now < Truncated(born[t]) + Ttl => Accepts(t)
=============================================================================
