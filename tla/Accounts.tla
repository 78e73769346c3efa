------------------------------ MODULE Accounts ------------------------------
(***************************************************************************)
(* Who the users are: registration, the password check of a login, and the *)
(* presence of a user with the time it was last seen (handle_register,     *)
(* handle_login, handle_logout and handle_presence of handlers.cpp, the    *)
(* users part of repositories.cpp, Presence, and the transition handler of *)
(* chat_server.cpp).                                                       *)
(*                                                                         *)
(* A user id stands for a name and back, as in the table.  A stored hash   *)
(* is the password it was made from: PBKDF2 is taken to tell passwords     *)
(* apart.  What a login does with tokens is in Session, what it replays in *)
(* Delivery.  A client waits for its answer and may hang up at any time.   *)
(* Time is counted in ticks, Second of them to a second.                   *)
(***************************************************************************)
EXTENDS Integers

CONSTANTS
  Names, Passwords, Conns,
  Workers, IO,  \* the threads of the pool, and the one that runs on_close
  None,
  Second,       \* ticks in a second
  MaxTime       \* bound: the last instant

Actors == Workers \cup {IO}

VARIABLES
  mysql,   \* the store: MySQL, or the maps in memory; chosen when the server starts
  clock,   \* util::now_unix_ms
  hash,    \* users.password_hash by name, None without a row
  seen,    \* users.last_seen_at
  bound,   \* Presence::map_: the connections of each user
  user,    \* user_id() of each connection
  live,    \* the connections that are open
  inited,  \* `inited` of base64_decode: its table T has been filled
  at,      \* where each thread is
  job,     \* what it works on
  acked,   \* history: the names and passwords whose registration was acked
  left,    \* history: when each user last went offline
  lapsed   \* history: users whose last_seen_at may be behind

rowVars == <<hash, seen>>
connVars == <<bound, user, live>>
workVars == <<at, job>>
vars == <<mysql, clock, hash, seen, bound, user, live, inited, at, job, acked, left, lapsed>>

Places == {"idle", "create", "find", "init", "decode", "welcome", "bind", "stamp", "update",
           "clear", "row", "online", "answer"}

\* conn: the connection of the request, None where it plays no part; time: the
\* instant in hand; due: the client can expect what it asks for; fault:
\* something went wrong on the way; ok: the answer.
Jobs == [name : Names \cup {None}, pass : Passwords \cup {None}, conn : Conns \cup {None},
         time : 0..MaxTime, left : 0..MaxTime, due : BOOLEAN, fault : BOOLEAN, ok : BOOLEAN]

NoJob == [name |-> None, pass |-> None, conn |-> None, time |-> 0, left |-> 0,
          due |-> FALSE, fault |-> FALSE, ok |-> FALSE]

TypeOK ==
  /\ mysql \in BOOLEAN
  /\ clock \in 0..MaxTime
  /\ hash \in [Names -> Passwords \cup {None}]
  /\ seen \in [Names -> 0..MaxTime]
  /\ bound \in [Names -> SUBSET Conns]
  /\ user \in [Conns -> Names \cup {None}]
  /\ live \subseteq Conns
  /\ inited \in BOOLEAN
  /\ at \in [Actors -> Places]
  /\ job \in [Actors -> Jobs]
  /\ acked \subseteq Names \X Passwords
  /\ left \in [Names -> 0..MaxTime]
  /\ lapsed \subseteq Names

Init ==
  /\ mysql \in BOOLEAN
  /\ clock = 0
  /\ hash = [n \in Names |-> None]
  /\ seen = [n \in Names |-> 0]
  /\ bound = [n \in Names |-> {}]
  /\ user = [c \in Conns |-> None]
  /\ live = Conns
  /\ inited = FALSE
  /\ at = [a \in Actors |-> "idle"]
  /\ job = [a \in Actors |-> NoJob]
  /\ acked = {}
  /\ left = [n \in Names |-> 0]
  /\ lapsed = {}

Tick ==
  /\ clock < MaxTime
  /\ clock' = clock + 1
  /\ UNCHANGED <<mysql, rowVars, connVars, inited, workVars, acked, left, lapsed>>

\* Thread a goes from one place to the next, with the job j in hand.
Step(a, from, to, j) ==
  /\ at[a] = from
  /\ at' = [at EXCEPT ![a] = to]
  /\ job' = [job EXCEPT ![a] = j]

\* The answer to a login or a presence request, and its being sent.
Answer(w, from, ok, fault) ==
  Step(w, from, "answer", [job[w] EXCEPT !.ok = ok, !.fault = @ \/ fault])

Done(w, from) == Step(w, from, "idle", NoJob)

Reply(w) ==
  /\ Done(w, "answer")
  /\ UNCHANGED <<mysql, clock, rowVars, connVars, inited, acked, left, lapsed>>
-----------------------------------------------------------------------------
(* handle_register *)

\* The checks have been passed and the password has been hashed.
Register(w, n, p) ==
  /\ Step(w, "idle", "create", [NoJob EXCEPT !.name = n, !.pass = p])
  /\ UNCHANGED <<mysql, clock, rowVars, connVars, inited, acked, left, lapsed>>

\* create_user: the INSERT, which the unique key refuses when the name is
\* taken.  A query that fails is answered like a name that is taken, and may
\* have been carried out.
CreateAs(w, free) ==
  LET n == job[w].name
      p == job[w].pass
  IN /\ \/ /\ free
           /\ Done(w, "create")
           /\ hash' = [hash EXCEPT ![n] = p]
           /\ acked' = acked \cup {<<n, p>>}
        \/ /\ ~free
           /\ Done(w, "create")
           /\ UNCHANGED <<hash, acked>>
        \/ /\ mysql
           /\ Done(w, "create")
           /\ \/ free /\ hash' = [hash EXCEPT ![n] = p]
              \/ UNCHANGED hash
           /\ UNCHANGED acked
     /\ UNCHANGED <<mysql, clock, seen, connVars, inited, left, lapsed>>

\* Mutant: the row of a name that is taken is replaced.
CreateOrReplace(w) == at[w] = "create" /\ CreateAs(w, TRUE)

Create(w) == at[w] = "create" /\ CreateAs(w, hash[job[w].name] = None)
-----------------------------------------------------------------------------
(* handle_login *)

\* No other request of the connection is being handled.
Quiet(c) == c \in live /\ \A w \in Workers : job[w].conn # c

Login(w, c, n, p) ==
  /\ Quiet(c)
  /\ Step(w, "idle", "find", [NoJob EXCEPT !.name = n, !.pass = p, !.conn = c,
                                           !.due = <<n, p>> \in acked])
  /\ UNCHANGED <<mysql, clock, rowVars, connVars, inited, acked, left, lapsed>>

\* find_user_by_username: no row and a query that fails are refused alike.
\* With a row verify_password_hash comes to base64_decode, which looks at inited.
Find(w) ==
  /\ at[w] = "find"
  /\ \/ hash[job[w].name] # None /\ Step(w, "find", IF inited THEN "decode" ELSE "init", job[w])
     \/ hash[job[w].name] = None /\ Answer(w, "find", FALSE, FALSE)
     \/ mysql /\ Answer(w, "find", FALSE, TRUE)
  /\ UNCHANGED <<mysql, clock, rowVars, connVars, inited, acked, left, lapsed>>

\* T is cleared and filled, with no lock: whoever decodes meanwhile may read
\* anything.
InitTable(w) ==
  /\ at[w] = "init"
  /\ at' = [at EXCEPT ![w] = "decode"]
  /\ job' = [a \in Actors |-> IF at[a] = "decode" THEN [job[a] EXCEPT !.fault = TRUE] ELSE job[a]]
  /\ inited' = TRUE
  /\ UNCHANGED <<mysql, clock, rowVars, connVars, acked, left, lapsed>>

\* The salt and the hash are decoded, the password is hashed with the salt and
\* compared.  What was decoded while T was rewritten may be empty or wrong.
Decode(w) ==
  LET torn == job[w].fault \/ \E v \in Workers \ {w} : at[v] = "init"
      same == job[w].pass = hash[job[w].name]
  IN /\ at[w] = "decode"
     /\ \/ same /\ Step(w, "decode", "welcome", job[w])
        \/ ~same /\ Answer(w, "decode", FALSE, FALSE)
        \/ torn /\ Answer(w, "decode", FALSE, TRUE)
     /\ UNCHANGED <<mysql, clock, rowVars, connVars, inited, acked, left, lapsed>>

\* set_user_id
SetUser(w) ==
  /\ Step(w, "welcome", "bind", job[w])
  /\ user' = [user EXCEPT ![job[w].conn] = job[w].name]
  /\ UNCHANGED <<mysql, clock, rowVars, bound, live, inited, acked, left, lapsed>>

\* Presence::bind, also of a connection that has closed by now
Bind(w) ==
  /\ Answer(w, "bind", TRUE, FALSE)
  /\ bound' = [bound EXCEPT ![job[w].name] = @ \cup {job[w].conn}]
  /\ UNCHANGED <<mysql, clock, rowVars, user, live, inited, acked, left, lapsed>>
-----------------------------------------------------------------------------
(* Going offline: handle_logout and ChatServer::on_close *)

\* An actor is on its way to stamp last_seen_at of n.
Leaving(n) == {a \in Actors : at[a] \in {"stamp", "update"} /\ job[a].name = n}

UnbindAs(a, c, next, gone) ==
  LET n == user[c]
      j == [NoJob EXCEPT !.name = n, !.conn = c]
      last == n # None /\ bound[n] = {c}
      to == IF last THEN gone ELSE next
  IN /\ bound' = IF n = None THEN bound ELSE [bound EXCEPT ![n] = @ \ {c}]
     /\ left' = IF last THEN [left EXCEPT ![n] = clock] ELSE left
     /\ lapsed' = IF ~last THEN lapsed ELSE IF Leaving(n) = {} THEN lapsed \ {n} ELSE lapsed \cup {n}
     /\ Step(a, "idle", to, IF to = "idle" THEN NoJob ELSE j)

\* Mutant: the handler is not told.
UnbindUntold(a, c, next) == UnbindAs(a, c, next, next)

\* Presence::unbind of connection c, after which thread a goes on: with the
\* transition handler if this was the user's last connection, else to `next`.
Unbind(a, c, next) == UnbindAs(a, c, next, "stamp")

Logout(w, c) ==
  /\ Quiet(c)
  /\ Unbind(w, c, "clear")
  /\ UNCHANGED <<mysql, clock, rowVars, user, live, inited, acked>>

\* set_user_id(0)
Clear(w) ==
  /\ Done(w, "clear")
  /\ user' = [user EXCEPT ![job[w].conn] = None]
  /\ UNCHANGED <<mysql, clock, rowVars, bound, live, inited, acked, left, lapsed>>

\* The client hangs up; the I/O thread runs on_close.
Close(c) ==
  /\ c \in live
  /\ live' = live \ {c}
  /\ Unbind(IO, c, "idle")
  /\ UNCHANGED <<mysql, clock, rowVars, user, inited, acked>>

\* The transition handler reads the clock ...
Stamp(a) ==
  /\ Step(a, "stamp", "update", [job[a] EXCEPT !.time = clock])
  /\ UNCHANGED <<mysql, clock, rowVars, connVars, inited, acked, left, lapsed>>

\* FROM_UNIXTIME(ts_ms / 1000); the in-memory store keeps milliseconds.
Stored(ts) == IF mysql THEN (ts \div Second) * Second ELSE ts

\* ... and update_last_seen writes it; nobody sees whether the query failed.
Update(a) ==
  LET n == job[a].name IN
  /\ at[a] = "update"
  /\ IF a = IO THEN Done(a, "update")
               ELSE Step(a, "update", "clear", [job[a] EXCEPT !.time = 0])
  /\ \/ seen' = [seen EXCEPT ![n] = Stored(job[a].time)] /\ UNCHANGED lapsed
     \/ mysql /\ lapsed' = lapsed \cup {n} /\ UNCHANGED seen
  /\ UNCHANGED <<mysql, clock, hash, connVars, inited, acked, left>>
-----------------------------------------------------------------------------
(* handle_presence *)

\* Somebody asks about n, on a connection that is authenticated and not one of
\* Conns; what require_auth does on one that is not is in Delivery.
AskPresence(w, n) ==
  /\ Step(w, "idle", "row", [NoJob EXCEPT !.name = n])
  /\ UNCHANGED <<mysql, clock, rowVars, connVars, inited, acked, left, lapsed>>

\* find_user_by_id: the row first ...
ReadRow(w) ==
  LET n == job[w].name IN
  /\ at[w] = "row"
  /\ \/ /\ hash[n] # None
        /\ Step(w, "row", "online", [job[w] EXCEPT !.time = seen[n], !.left = left[n],
                                                   !.fault = n \in lapsed \/ Leaving(n) # {}])
     \/ (hash[n] = None \/ mysql) /\ Done(w, "row")
  /\ UNCHANGED <<mysql, clock, rowVars, connVars, inited, acked, left, lapsed>>

\* ... and is_online then; due: the answer says offline.
IsOnline(w) ==
  LET n == job[w].name IN
  /\ at[w] = "online"
  /\ Step(w, "online", "answer", [job[w] EXCEPT !.due = bound[n] = {}, !.ok = TRUE,
                                                !.fault = @ \/ left[n] # job[w].left])
  /\ UNCHANGED <<mysql, clock, rowVars, connVars, inited, acked, left, lapsed>>

\* The process stops, whatever its threads are doing, and is started again: the
\* table is what MySQL keeps of it.
Crash ==
  /\ mysql
  /\ at' = [a \in Actors |-> "idle"]
  /\ job' = [a \in Actors |-> NoJob]
  /\ bound' = [n \in Names |-> {}]
  /\ user' = [c \in Conns |-> None]
  /\ live' = {}
  /\ inited' = FALSE
  /\ left' = [n \in Names |-> IF bound[n] # {} THEN clock ELSE left[n]]
  /\ lapsed' = lapsed \cup {n \in Names : bound[n] # {} \/ Leaving(n) # {}}
  /\ UNCHANGED <<mysql, clock, rowVars, acked>>

\* A client connects (again).
Connect(c) ==
  /\ c \notin live
  /\ \A a \in Actors : job[a].conn # c
  /\ \A n \in Names : c \notin bound[n]
  /\ live' = live \cup {c}
  /\ user' = [user EXCEPT ![c] = None]
  /\ UNCHANGED <<mysql, clock, rowVars, bound, inited, workVars, acked, left, lapsed>>
-----------------------------------------------------------------------------
Request(w) ==
  \/ \E n \in Names : AskPresence(w, n)
  \/ \E n \in Names, p \in Passwords : Register(w, n, p) \/ (\E c \in Conns : Login(w, c, n, p))
  \/ \E c \in Conns : Logout(w, c)

Work(w) ==
  \/ Create(w)
  \/ Find(w) \/ InitTable(w) \/ Decode(w) \/ SetUser(w) \/ Bind(w)
  \/ Clear(w) \/ ReadRow(w) \/ IsOnline(w) \/ Reply(w)

Next ==
  \/ Tick \/ Crash
  \/ \E c \in Conns : Close(c) \/ Connect(c)
  \/ \E w \in Workers : Request(w) \/ Work(w)
  \/ \E a \in Actors : Stamp(a) \/ Update(a)

Spec == Init /\ [][Next]_vars
-----------------------------------------------------------------------------
\* A login is judged by the password that was registered: nobody is let in with
\* another one, and a client that logs in with the password whose registration
\* was acked to it is let in, unless a query failed or its hash was decoded
\* while another login was filling base64_decode's table (handle_register,
\* create_user, handle_login, verify_password_hash).
LoginsAreJudged ==
  \A w \in Workers :
    /\ at[w] \in {"welcome", "bind"} => job[w].pass = hash[job[w].name]
    /\ at[w] = "answer" /\ job[w].due /\ ~job[w].ok => job[w].fault

\* Who is told that a user is offline is told a last_seen no older than the time
\* the user went offline, to the second, unless the user went offline between
\* the two reads of handle_presence, or the UPDATE of last_seen_at was still
\* to come, had failed, was lost in a crash, or was in flight together with
\* that of an earlier departure, which may overtake it (Presence::unbind,
\* update_last_seen, handle_presence).
LastSeenIsFresh ==
  \A w \in Workers :
    at[w] = "answer" /\ job[w].pass = None /\ job[w].due /\ ~job[w].fault =>
      Stored(job[w].left) <= job[w].time
-----------------------------------------------------------------------------
(* What the documentation says and the code does not do.                     *)

\* deliver_close "removes presence binding and updates `last_seen_at` in the
\* DB": in the order of the departures, so that last_seen never goes back.
LastSeenNeverGoesBack == [][\A n \in Names : seen'[n] >= seen[n]]_vars

\* login fails with `unauthorized` only: the right password is let in by a
\* store that does not fail.
RightPasswordIsAccepted ==
  \A w \in Workers : ~mysql /\ at[w] = "answer" /\ job[w].due => job[w].ok
=============================================================================
