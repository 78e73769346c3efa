----------------------------- MODULE MCIdentity -----------------------------
(***************************************************************************)
(* Small instances of Session and Accounts, checked in one run.  The two   *)
(* share no state, so an interleaving of both shows nothing that each does *)
(* not show alone: one of them moves while the other is as it started.     *)
(***************************************************************************)
EXTENDS Session, TLC

CONSTANTS Names, Passwords, Conns, IO, None, LastTick

\* None is no password, and the accounts' time, as that of the sessions, starts at 0.
ASSUME IdentityAssumption == None \notin Passwords /\ LastTick \in Nat

VARIABLES
  moving,  \* which of the two moves: chosen at the start
  mysql, clock, hash, seen, bound, user, live, inited, at, job, acked, left, lapsed

accountVars == <<mysql, clock, hash, seen, bound, user, live, inited, at, job, acked, left, lapsed>>

A == INSTANCE Accounts WITH MaxTime <- LastTick

IdentityInit ==
  /\ Init
  /\ A!Init
  /\ moving \in {"sessions", "accounts"}
  /\ moving = "sessions" => mysql

IdentityNext ==
  \/ moving = "sessions" /\ Next /\ UNCHANGED <<accountVars, moving>>
  \/ moving = "accounts" /\ A!Next /\ UNCHANGED <<vars, moving>>

IdentitySpec == IdentityInit /\ [][IdentityNext]_<<vars, accountVars, moving>>

\* These are interchangeable; so are users, at more cost than gain.
Symmetry ==
  Permutations(Tokens) \cup Permutations(Workers)
    \cup Permutations(Passwords) \cup Permutations(Conns)

(* Logins are judged by the password that was registered (handle_login and   *)
(* verify_password_hash; see Accounts).                                      *)
LoginsAreJudged == A!LoginsAreJudged

(* The last_seen of a user who is offline is that of the last departure      *)
(* (handle_presence and update_last_seen; see Accounts).                     *)
LastSeenIsFresh == A!LastSeenIsFresh
-----------------------------------------------------------------------------
(* What the documentation says and the code does not do (see Accounts).      *)

(* A departure never sets a user's last_seen_at back (deliver_close).        *)
LastSeenNeverGoesBack == A!LastSeenNeverGoesBack

(* The right password is let in when the store does not fail (handle_login). *)
RightPasswordIsAccepted == A!RightPasswordIsAccepted
=============================================================================
