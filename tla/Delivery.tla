------------------------------ MODULE Delivery ------------------------------
(***************************************************************************)
(* How a message reaches its recipients: the handlers that log a user in   *)
(* or out (src/handlers/handlers.cpp), Presence, MessageRouter, the        *)
(* messages and undelivered tables, and the closing of connections by the  *)
(* I/O thread (ChatServer::on_close).                                      *)
(*                                                                         *)
(* Workers run handlers step by step: one step per lock of Presence, per   *)
(* query and per Connection::send_frame.  What a handler does before it    *)
(* changes any of this state and then gives up (bad credentials, malformed *)
(* or oversized requests, an unknown receiver) is not a step.  The order   *)
(* in which drained messages are sent is left open: the MySQL store sends  *)
(* them by id, the in-memory store as they were queued.                    *)
(***************************************************************************)
EXTENDS Integers, Sequences, FiniteSets

CONSTANTS
  Users, Conns, Workers,
  Members,      \* the members of the one room there is
  Requests,     \* the frames the clients send, each one once
  NoUser,       \* user_id_ == 0
  NoConn, NoJob,
  MaxMessages,  \* bound: rows of the messages table
  SplitDrain,   \* drain_undelivered: SELECT then DELETE (MySQL), or one locked step
  DbMayFail,    \* a query may fail (MySQL), or never does (in-memory store)
  Pipelined     \* clients send the next frame before the last one is answered

Ops == {"login", "logout", "dm", "room", "query"}

\* `user` is who logs in, or whose token the request carries; `to` is the
\* receiver of a dm; "query" is any other handler that calls require_auth.
Request == [op : Ops, conn : Conns, user : Users \cup {NoUser}, to : Users \cup {NoUser}, n : Nat]

\* A row of the messages table; `to` is NoUser for a message to the room.
Message == [from : Users, to : Users \cup {NoUser}]

ASSUME DeliveryAssumption ==
  /\ NoUser \notin Users
  /\ NoConn \notin Conns
  /\ Members \subseteq Users
  /\ NoJob \notin Requests
  /\ Requests \subseteq Request
  /\ \A r \in Requests : (r.op = "login" => r.user \in Users) /\ (r.op = "dm" <=> r.to \in Users)
  /\ MaxMessages \in Nat
  /\ SplitDrain \in BOOLEAN
  /\ DbMayFail \in BOOLEAN
  /\ Pipelined \in BOOLEAN

VARIABLES
  phase,        \* of each connection: closing_ and closed_
  userOf,       \* user_id_ of each connection
  bound,        \* Presence::map_
  out,          \* what send_frame appended to wbuf_: message and whose copy it is
  jobs,         \* the frames waiting in the worker pool
  sent,         \* the requests already sent
  ioUser,       \* on_close: the user it unbinds,
  ioConn,       \*   and the connection; NoConn when the I/O thread is not in on_close
  log,          \* the messages table; the id is the index
  delivered,    \* ids with status 1
  undelivered,  \* the undelivered table
  pc,           \* where each worker is in its handler
  job,          \* the request it handles
  who,          \* the user it acts for
  msg,          \* the id of the message it routes, 0 for none
  todo,         \* recipients whose connections were not looked up yet
  addr,         \* the recipient being served
  held,         \* messages drained and not yet looked up connections for
  sends,        \* <<message, connection>>: send_frame calls still to make
  gone,         \* history: workers whose user lost a connection since they bound it
  dropped,      \* history: <<id, user>> that send_frame or replay_offline threw away
  raced,        \* history: <<id, user>> queued while that user's drain was between
                \*   its SELECT and its DELETE
  late,         \* history: <<id, user>> queued while that user was online
  failed,       \* history: <<id, user>> whose INSERT into undelivered failed
  acked,        \* history: ids whose sender was sent an ack
  ident,        \* history: users each connection was authenticated as
  busyAtClose   \* history: connections closed while a request of theirs was in flight

ioVars == <<phase, jobs, sent, ioUser, ioConn, busyAtClose>>
dbVars == <<log, delivered, undelivered, raced, late, failed>>
localVars == <<job, who, msg, todo, addr, held, sends>>
vars == <<phase, userOf, bound, out, jobs, sent, ioUser, ioConn, log, delivered, undelivered,
          pc, job, who, msg, todo, addr, held, sends, gone, dropped, raced, late, failed,
          acked, ident, busyAtClose>>

Ids == 1..MaxMessages
Pc == {"idle", "login", "auth", "token", "bind", "drain", "delete", "replay", "resend", "body", "lookup",
       "deliver", "enqueue", "status", "echo", "echoing", "ack", "logout", "unbind", "clear"}

ConnTypes ==
  /\ phase \in [Conns -> {"none", "open", "closing", "closed"}]
  /\ userOf \in [Conns -> Users \cup {NoUser}]
  /\ bound \in [Users -> SUBSET Conns]
  /\ out \in [Conns -> Seq(Ids \X Users)]
  /\ dropped \subseteq Ids \X Users
  /\ ident \in [Conns -> SUBSET Users]

IoTypes ==
  /\ jobs \in Seq(Requests)
  /\ sent \subseteq Requests
  /\ ioUser \in Users \cup {NoUser}
  /\ ioConn \in Conns \cup {NoConn}
  /\ busyAtClose \subseteq Conns

TableTypes ==
  /\ log \in Seq(Message)
  /\ Len(log) <= MaxMessages
  /\ delivered \subseteq Ids
  /\ undelivered \in [Users -> SUBSET Ids]
  /\ raced \subseteq Ids \X Users
  /\ late \subseteq Ids \X Users
  /\ failed \subseteq Ids \X Users
  /\ acked \subseteq Ids

WorkerTypes ==
  /\ pc \in [Workers -> Pc]
  /\ job \in [Workers -> Requests \cup {NoJob}]
  /\ who \in [Workers -> Users \cup {NoUser}]
  /\ msg \in [Workers -> Ids \cup {0}]
  /\ todo \in [Workers -> SUBSET Users]
  /\ addr \in [Workers -> Users \cup {NoUser}]
  /\ held \in [Workers -> SUBSET Ids]
  /\ sends \in [Workers -> SUBSET (Ids \X Conns)]
  /\ gone \subseteq Workers

TypeOK == ConnTypes /\ IoTypes /\ TableTypes /\ WorkerTypes

Init ==
  /\ phase = [c \in Conns |-> "none"]
  /\ userOf = [c \in Conns |-> NoUser]
  /\ bound = [u \in Users |-> {}]
  /\ out = [c \in Conns |-> << >>]
  /\ jobs = << >>
  /\ sent = {}
  /\ ioUser = NoUser
  /\ ioConn = NoConn
  /\ log = << >>
  /\ delivered = {}
  /\ undelivered = [u \in Users |-> {}]
  /\ pc = [w \in Workers |-> "idle"]
  /\ job = [w \in Workers |-> NoJob]
  /\ who = [w \in Workers |-> NoUser]
  /\ msg = [w \in Workers |-> 0]
  /\ todo = [w \in Workers |-> {}]
  /\ addr = [w \in Workers |-> NoUser]
  /\ held = [w \in Workers |-> {}]
  /\ sends = [w \in Workers |-> {}]
  /\ gone = {}
  /\ dropped = {}
  /\ raced = {}
  /\ late = {}
  /\ failed = {}
  /\ acked = {}
  /\ ident = [c \in Conns |-> {}]
  /\ busyAtClose = {}
-----------------------------------------------------------------------------
\* Some request of c waits in the pool or is being handled.
InFlight(c) ==
  \/ \E i \in 1..Len(jobs) : jobs[i].conn = c
  \/ \E w \in Workers : pc[w] # "idle" /\ job[w].conn = c

(* The I/O thread *)

\* Server::on_listen_event accepts a connection.
Accept(c) ==
  /\ ioConn = NoConn
  /\ phase[c] = "none"
  /\ phase' = [phase EXCEPT ![c] = "open"]
  /\ UNCHANGED <<userOf, bound, out, dropped, jobs, sent, ioUser, ioConn, pc, gone, acked, ident,
                 busyAtClose, dbVars, localVars>>

\* on_readable completes a frame and ChatServer::on_frame submits it.
Receive(r) ==
  /\ ioConn = NoConn
  /\ r \notin sent
  /\ phase[r.conn] \in {"open", "closing"}
  /\ Pipelined \/ ~InFlight(r.conn)
  /\ sent' = sent \cup {r}
  /\ jobs' = Append(jobs, r)
  /\ UNCHANGED <<phase, userOf, bound, out, dropped, ioUser, ioConn, pc, gone, acked, ident,
                 busyAtClose, dbVars, localVars>>

\* The peer is gone or misbehaves: Connection::schedule_close.
ScheduleClose(c) ==
  /\ ioConn = NoConn
  /\ phase[c] = "open"
  /\ phase' = [phase EXCEPT ![c] = "closing"]
  /\ UNCHANGED <<userOf, bound, out, dropped, jobs, sent, ioUser, ioConn, pc, gone, acked, ident,
                 busyAtClose, dbVars, localVars>>

\* c is closed, and user u is left to be unbound from it.
CloseFor(c, u) ==
  /\ ioConn = NoConn
  /\ phase[c] = "closing"
  /\ phase' = [phase EXCEPT ![c] = "closed"]
  /\ busyAtClose' = IF InFlight(c) THEN busyAtClose \cup {c} ELSE busyAtClose
  /\ ioUser' = u
  /\ ioConn' = IF u = NoUser THEN NoConn ELSE c
  /\ UNCHANGED <<userOf, bound, out, dropped, jobs, sent, pc, gone, acked, ident, dbVars,
                 localVars>>

\* Mutant: on_close does not look at the user.
DeliverCloseOnly(c) == CloseFor(c, NoUser)

\* Connection::deliver_close, up to where on_close has read user_id().
DeliverClose(c) == CloseFor(c, userOf[c])

\* Presence::unbind.  When the user goes offline the transition handler only
\* writes last_seen_at, which nothing here reads.
UnbindFrom(u, c) ==
  /\ bound' = [bound EXCEPT ![u] = @ \ {c}]
  /\ gone' = IF c \in bound[u]
               THEN gone \cup {v \in Workers : who[v] = u /\ pc[v] \in {"drain", "delete", "replay"}}
               ELSE gone

\* The rest of on_close.
OnClose ==
  /\ ioConn # NoConn
  /\ UnbindFrom(ioUser, ioConn)
  /\ ioUser' = NoUser
  /\ ioConn' = NoConn
  /\ UNCHANGED <<phase, userOf, out, dropped, jobs, sent, pc, acked, ident, busyAtClose, dbVars, localVars>>

-----------------------------------------------------------------------------
(* Dispatch and authentication *)

\* A worker takes the oldest frame; dispatch picks the handler.
Take(w) ==
  /\ pc[w] = "idle"
  /\ jobs # << >>
  /\ jobs' = Tail(jobs)
  /\ job' = [job EXCEPT ![w] = Head(jobs)]
  /\ pc' = [pc EXCEPT ![w] = CASE Head(jobs).op = "login" -> "login"
                               [] Head(jobs).op = "logout" -> "logout"
                               [] OTHER -> "auth"]
  /\ UNCHANGED <<phase, userOf, bound, out, dropped, sent, ioUser, ioConn, gone, acked, ident,
                 busyAtClose, dbVars, who, msg, todo, addr, held, sends>>

\* The handler returns without having routed a message.
GiveUp(w) ==
  /\ pc' = [pc EXCEPT ![w] = "idle"]
  /\ job' = [job EXCEPT ![w] = NoJob]
  /\ who' = [who EXCEPT ![w] = NoUser]

\* c->set_user_id(u), after which the handler binds c to u.
Authenticate(w, u) ==
  LET c == job[w].conn IN
  /\ userOf' = [userOf EXCEPT ![c] = u]
  /\ ident' = [ident EXCEPT ![c] = @ \cup {u}]
  /\ who' = [who EXCEPT ![w] = u]
  /\ pc' = [pc EXCEPT ![w] = "bind"]
  /\ job' = job

\* handle_login with good credentials.
Login(w) ==
  /\ pc[w] = "login"
  /\ Authenticate(w, job[w].user)
  /\ UNCHANGED <<bound, out, dropped, gone, acked, ioVars, dbVars, msg, todo, addr, held, sends>>

\* Where a handler goes on once it knows its user.
AfterAuth(w) == IF job[w].op \in {"login", "query"} THEN "ack" ELSE "body"

\* require_auth: the connection's user, if it has one.
RequireAuth(w) ==
  /\ pc[w] = "auth"
  /\ who' = [who EXCEPT ![w] = userOf[job[w].conn]]
  /\ pc' = [pc EXCEPT ![w] = IF userOf[job[w].conn] = NoUser THEN "token" ELSE AfterAuth(w)]
  /\ UNCHANGED <<userOf, ident, bound, out, dropped, gone, acked, ioVars, dbVars, job, msg, todo,
                 addr, held, sends>>

\* Otherwise the user of the request's token, which is valid.
ValidateToken(w) ==
  /\ pc[w] = "token"
  /\ job[w].user # NoUser
  /\ Authenticate(w, job[w].user)
  /\ UNCHANGED <<bound, out, dropped, gone, acked, ioVars, dbVars, msg, todo, addr, held, sends>>

\* The handler ends with an error: the token is missing or not valid, the user
\* is not a member of the room, or the INSERT of the message failed.
Refuse(w) ==
  /\ \/ pc[w] = "token"
     \/ pc[w] = "body" /\ (DbMayFail \/ (job[w].op = "room" /\ who[w] \notin Members))
  /\ GiveUp(w)
  /\ UNCHANGED <<userOf, ident, bound, out, dropped, gone, acked, ioVars, dbVars, msg, todo, addr,
                 held, sends>>

\* Presence::bind; going online makes the transition handler replay.
Bind(w) ==
  /\ pc[w] = "bind"
  /\ bound' = [bound EXCEPT ![who[w]] = @ \cup {job[w].conn}]
  /\ pc' = [pc EXCEPT ![w] = IF bound[who[w]] = {} THEN "drain" ELSE AfterAuth(w)]
  /\ gone' = gone \ {w}
  /\ UNCHANGED <<userOf, out, dropped, acked, ident, ioVars, dbVars, localVars>>

LogoutRead(w) ==
  /\ pc[w] = "logout"
  /\ who' = [who EXCEPT ![w] = userOf[job[w].conn]]
  /\ pc' = [pc EXCEPT ![w] = IF userOf[job[w].conn] = NoUser THEN "clear" ELSE "unbind"]
  /\ UNCHANGED <<userOf, bound, out, dropped, gone, acked, ident, ioVars, dbVars, job, msg, todo, addr,
                 held, sends>>

LogoutUnbind(w) ==
  /\ pc[w] = "unbind"
  /\ UnbindFrom(who[w], job[w].conn)
  /\ pc' = [pc EXCEPT ![w] = "clear"]
  /\ UNCHANGED <<userOf, out, dropped, acked, ident, ioVars, dbVars, localVars>>

\* handle_logout ends, with u as the connection's user.
LogoutAs(w, u) ==
  /\ pc[w] = "clear"
  /\ userOf' = [userOf EXCEPT ![job[w].conn] = u]
  /\ GiveUp(w)
  /\ UNCHANGED <<bound, out, dropped, gone, acked, ident, ioVars, dbVars, msg, todo, addr, held,
                 sends>>

\* Mutant: the user is not reset.
LogoutKeepsUser(w) == LogoutAs(w, userOf[job[w].conn])

LogoutClear(w) == LogoutAs(w, NoUser)

-----------------------------------------------------------------------------
(* MessageRouter *)

\* The drain gets these messages and leaves these rows.
DrainAs(w, got, left) ==
  /\ pc[w] = "drain"
  /\ held' = [held EXCEPT ![w] = got]
  /\ undelivered' = [undelivered EXCEPT ![who[w]] = left]
  /\ pc' = [pc EXCEPT ![w] = IF SplitDrain THEN "delete" ELSE "replay"]
  /\ UNCHANGED <<userOf, bound, out, dropped, gone, acked, ident, ioVars, log, delivered, raced,
                 late, failed, job, who, msg, todo, addr, sends>>

\* Mutant: the queue is copied and stays.
DrainKeeps(w) == DrainAs(w, undelivered[who[w]], undelivered[who[w]])

\* Mutant: the rows are deleted first and selected then.
DrainSwapped(w) == DrainAs(w, {}, {})

\* drain_undelivered of the in-memory store, or the SELECT of the MySQL one.
Drain(w) == DrainAs(w, undelivered[who[w]], IF SplitDrain THEN undelivered[who[w]] ELSE {})

\* The DELETE of every row the user has by now.
DrainDelete(w) ==
  /\ pc[w] = "delete"
  /\ undelivered' = [undelivered EXCEPT ![who[w]] = {}]
  /\ pc' = [pc EXCEPT ![w] = "replay"]
  /\ UNCHANGED <<userOf, bound, out, dropped, gone, acked, ident, ioVars, log, delivered, raced,
                 late, failed, localVars>>

\* The rest of replay_offline: without a connection the messages are dropped.
ReplayLookup(w) ==
  LET pairs == held[w] \X bound[who[w]] IN
  /\ pc[w] = "replay"
  /\ sends' = [sends EXCEPT ![w] = pairs]
  /\ addr' = [addr EXCEPT ![w] = who[w]]
  /\ held' = [held EXCEPT ![w] = {}]
  /\ pc' = [pc EXCEPT ![w] = IF pairs = {} THEN AfterAuth(w) ELSE "resend"]
  /\ dropped' = IF bound[who[w]] = {} /\ w \in gone
                  THEN dropped \cup (held[w] \X {who[w]}) ELSE dropped
  /\ UNCHANGED <<userOf, bound, out, gone, acked, ident, ioVars, dbVars, job, who, msg, todo>>

\* insert_dm, or is_member and insert_room_msg.
Insert(w) ==
  /\ pc[w] = "body"
  /\ Len(log) < MaxMessages
  /\ job[w].op = "room" => who[w] \in Members
  /\ log' = Append(log, [from |-> who[w], to |-> job[w].to])
  /\ msg' = [msg EXCEPT ![w] = Len(log) + 1]
  /\ todo' = [todo EXCEPT ![w] = IF job[w].op = "dm" THEN {job[w].to} ELSE Members]
  /\ pc' = [pc EXCEPT ![w] = "lookup"]
  /\ UNCHANGED <<userOf, bound, out, dropped, gone, acked, ident, ioVars, delivered, undelivered,
                 raced, late, failed, job, who, addr, held, sends>>

\* Where the router goes on once `left` are the recipients to come.
NextCopy(w, left) ==
  CASE left # {} -> "lookup"
    [] left = {} /\ job[w].op = "dm" -> "echo"
    [] OTHER -> "ack"

\* connections_of(u) for the next recipient u.
Lookup(w) ==
  /\ pc[w] = "lookup"
  /\ \E u \in todo[w] :
       /\ todo' = [todo EXCEPT ![w] = @ \ {u}]
       /\ addr' = [addr EXCEPT ![w] = u]
       /\ sends' = [sends EXCEPT ![w] = {msg[w]} \X bound[u]]
       /\ pc' = [pc EXCEPT ![w] = CASE bound[u] # {} -> "deliver"
                                    [] bound[u] = {} /\ job[w].op = "room" /\ u = who[w]
                                         -> NextCopy(w, todo[w] \ {u})
                                    [] OTHER -> "enqueue"]
  /\ UNCHANGED <<userOf, bound, out, dropped, gone, acked, ident, ioVars, dbVars, job, who, msg, held>>

\* Connection::send_frame: nothing is appended once the connection closes.  It
\* also drops a frame longer than max_frame_; the messages here fit.
SendFrame(w, m, c) ==
  /\ sends' = [sends EXCEPT ![w] = @ \ {<<m, c>>}]
  /\ IF phase[c] = "open"
       THEN out' = [out EXCEPT ![c] = Append(@, <<m, addr[w]>>)] /\ dropped' = dropped
       ELSE dropped' = dropped \cup {<<m, addr[w]>>} /\ out' = out

\* The next call of the loop over the connections.
SendOne(w) ==
  /\ pc[w] \in {"resend", "deliver", "echoing"}
  /\ \E s \in sends[w] :
       /\ SendFrame(w, s[1], s[2])
       /\ pc' = [pc EXCEPT ![w] =
            CASE sends[w] # {s} -> @
              [] sends[w] = {s} /\ @ = "resend" -> AfterAuth(w)
              [] sends[w] = {s} /\ @ = "deliver" /\ job[w].op = "dm" -> "status"
              [] sends[w] = {s} /\ @ = "deliver" /\ job[w].op # "dm" -> NextCopy(w, todo[w])
              [] OTHER -> "ack"]
  /\ UNCHANGED <<userOf, bound, gone, acked, ident, ioVars, dbVars, job, who, msg, todo, addr,
                 held>>

\* The message is queued for u.
QueueFor(w, u, next) ==
  /\ pc[w] = "enqueue"
  /\ undelivered' = [undelivered EXCEPT ![u] = @ \cup {msg[w]}]
  /\ raced' = IF \E v \in Workers : pc[v] = "delete" /\ who[v] = u
                THEN raced \cup {<<msg[w], u>>} ELSE raced
  /\ late' = IF bound[u] # {} THEN late \cup {<<msg[w], u>>} ELSE late
  /\ pc' = [pc EXCEPT ![w] = next]
  /\ UNCHANGED <<userOf, bound, out, dropped, gone, acked, ident, ioVars, log, delivered, failed,
                 localVars>>

\* Mutant: queued for the sender.
EnqueueForSender(w) == QueueFor(w, who[w], NextCopy(w, todo[w]))

\* Mutant: queued and marked delivered.
EnqueueThenStatus(w) == QueueFor(w, addr[w], "status")

\* enqueue_undelivered.
Enqueue(w) == QueueFor(w, addr[w], NextCopy(w, todo[w]))

\* Its INSERT fails, and nobody is told.
EnqueueFails(w) ==
  /\ pc[w] = "enqueue"
  /\ DbMayFail
  /\ failed' = failed \cup {<<msg[w], addr[w]>>}
  /\ pc' = [pc EXCEPT ![w] = NextCopy(w, todo[w])]
  /\ UNCHANGED <<userOf, bound, out, dropped, gone, acked, ident, ioVars, log, delivered,
                 undelivered, raced, late, localVars>>

\* Mutant: send_dm queues what it has sent.
MarkThenEnqueue(w) ==
  /\ pc[w] = "status"
  /\ delivered' = delivered \cup {msg[w]}
  /\ pc' = [pc EXCEPT ![w] = "enqueue"]
  /\ UNCHANGED <<userOf, bound, out, dropped, gone, acked, ident, ioVars, log, undelivered, raced,
                 late, failed, localVars>>

\* update_message_status(id, 1).
MarkDelivered(w) ==
  /\ pc[w] = "status"
  /\ delivered' = delivered \cup {msg[w]}
  /\ pc' = [pc EXCEPT ![w] = "echo"]
  /\ UNCHANGED <<userOf, bound, out, dropped, gone, acked, ident, ioVars, log, undelivered, raced,
                 late, failed, localVars>>

\* The SELECT, the DELETE or the UPDATE fails, and the caller goes on.
QueryFails(w) ==
  /\ DbMayFail
  /\ \/ pc[w] = "drain" /\ pc' = [pc EXCEPT ![w] = AfterAuth(w)]
     \/ pc[w] = "delete" /\ pc' = [pc EXCEPT ![w] = "replay"]
     \/ pc[w] = "status" /\ pc' = [pc EXCEPT ![w] = "echo"]
  /\ UNCHANGED <<userOf, bound, out, dropped, gone, acked, ident, ioVars, dbVars, localVars>>

\* send_dm's second connections_of: the sender's own connections.
EchoLookup(w) ==
  /\ pc[w] = "echo"
  /\ addr' = [addr EXCEPT ![w] = who[w]]
  /\ sends' = [sends EXCEPT ![w] = {msg[w]} \X bound[who[w]]]
  /\ pc' = [pc EXCEPT ![w] = IF bound[who[w]] = {} THEN "ack" ELSE "echoing"]
  /\ UNCHANGED <<userOf, bound, out, dropped, gone, acked, ident, ioVars, dbVars, job, who, msg, todo, held>>

\* The handler's last send_frame, its ack.
Ack(w) ==
  /\ pc[w] = "ack"
  /\ acked' = IF msg[w] # 0 /\ phase[job[w].conn] = "open" THEN acked \cup {msg[w]} ELSE acked
  /\ GiveUp(w)
  /\ msg' = [msg EXCEPT ![w] = 0]
  /\ addr' = [addr EXCEPT ![w] = NoUser]
  /\ UNCHANGED <<userOf, bound, out, dropped, gone, ident, ioVars, dbVars, todo, held, sends>>

IoStep ==
  \/ \E c \in Conns : Accept(c) \/ ScheduleClose(c) \/ DeliverClose(c)
  \/ \E r \in Requests : Receive(r)
  \/ OnClose

WorkerStep(w) ==
  \/ Take(w) \/ Login(w) \/ RequireAuth(w) \/ ValidateToken(w) \/ Refuse(w) \/ Bind(w)
  \/ LogoutRead(w) \/ LogoutUnbind(w) \/ LogoutClear(w)
  \/ Drain(w) \/ DrainDelete(w) \/ ReplayLookup(w)
  \/ Insert(w) \/ Lookup(w) \/ SendOne(w) \/ Enqueue(w) \/ EnqueueFails(w)
  \/ MarkDelivered(w) \/ QueryFails(w) \/ EchoLookup(w) \/ Ack(w)

Next == IoStep \/ \E w \in Workers : WorkerStep(w)

Spec == Init /\ [][Next]_vars
-----------------------------------------------------------------------------
(* Properties *)

\* Who message id is owed to: the receiver, or the room's members but the sender.
Recipients(id) == IF log[id].to = NoUser THEN Members \ {log[id].from} ELSE {log[id].to}

\* A worker has yet to deal with u's copy: to look u up or to queue it,
Routing(id, u) ==
  \E w \in Workers : msg[w] = id /\ (u \in todo[w] \/ (pc[w] = "enqueue" /\ addr[w] = u))

\* to look up where it goes after a drain, or to write it to a connection.
Sending(id, u) ==
  \E w \in Workers : \/ id \in held[w] /\ who[w] = u
                     \/ addr[w] = u /\ \E c \in Conns : <<id, c>> \in sends[w]

Written(id, u) == \E c \in Conns : \E i \in 1..Len(out[c]) : out[c][i] = <<id, u>>

Kept(id, u) ==
  \/ id \in undelivered[u]
  \/ Routing(id, u)
  \/ Sending(id, u)
  \/ Written(id, u)
  \/ <<id, u>> \in dropped

\* A persisted message is never lost on its way to a recipient: each copy is
\* queued, in a worker's hands or written to a connection of the recipient.
\* The only copies thrown away are those sent to a closing connection and
\* those a replay holds when its user's last connection was unbound under it.
NoMessageLost == \A id \in 1..Len(log) : \A u \in Recipients(id) : Kept(id, u)

\* With the MySQL store two more ways to lose a copy exist and no others: the
\* row was inserted between a drain's SELECT and its DELETE, or the INSERT failed.
LossesHaveACause ==
  \A id \in 1..Len(log) : \A u \in Recipients(id) :
    Kept(id, u) \/ <<id, u>> \in raced \/ <<id, u>> \in failed

\* A message whose status is delivered was written to a connection of its
\* receiver, unless that connection was closing: send_dm sets the status after
\* the loop over a snapshot of connections that was not empty.
DeliveredIsWritten ==
  \A id \in delivered : Written(id, log[id].to) \/ <<id, log[id].to>> \in dropped

\* No connection is written the same copy twice, whatever logins, replays and
\* sends interleave.  (A user writing to itself is: send_dm's echo.)
WrittenOnce ==
  \A c \in Conns : \A i, j \in 1..Len(out[c]) :
    out[c][i] = out[c][j] /\ log[out[c][i][1]].from # log[out[c][i][1]].to => i = j

\* A connection whose client waits for its answers, and only ever was one
\* user, is bound exactly when it is authenticated, and as that user.
PresenceMatchesIdentity ==
  \A c \in Conns : \A u \in Users :
    phase[c] \in {"open", "closing"} /\ ~InFlight(c) /\ ident[c] \subseteq {u} =>
      (c \in bound[u] <=> userOf[c] = u)

\* A closed connection stays bound only if a request of its own was in flight
\* when on_close ran, or if it had been authenticated as several users.
GhostsHaveCause ==
  \A c \in Conns : \A u \in Users :
    phase[c] = "closed" /\ ioConn # c /\ c \in bound[u] =>
      c \in busyAtClose \/ ident[c] # {u}

\* Nothing is in flight and the I/O thread is not in on_close.
Quiet == jobs = << >> /\ ioConn = NoConn /\ \A w \in Workers : pc[w] = "idle"

\* What stays queued for a user who is online was queued after the user had
\* come online, by a sender who had looked the user up before: everything
\* older was replayed (bind, replay_offline, send_dm).
QueuedWasLate ==
  Quiet => \A u \in Users : bound[u] # {} => \A id \in undelivered[u] : <<id, u>> \in late
-----------------------------------------------------------------------------
(* What the documentation says and the code does not do *)

\* A disconnect removes the presence binding: once on_close is over and no
\* request is in flight, a closed connection is bound to nobody.
ClosedMeansUnbound ==
  Quiet => \A c \in Conns : phase[c] = "closed" => \A u \in Users : c \notin bound[u]

\* Presence says which user is online on which connection: an open connection
\* at rest is bound to the user it is authenticated as and to nobody else.
BoundAsIdentity ==
  \A c \in Conns : \A u \in Users :
    phase[c] = "open" /\ ~InFlight(c) /\ c \in bound[u] => userOf[c] = u

\* Queued messages are those of users who are offline: logging in replays them.
QueuedOnlyOffline == Quiet => \A u \in Users : bound[u] # {} => undelivered[u] = {}

\* A message that reached its receiver has its status flipped to delivered.
WrittenGetsStatus ==
  Quiet => \A id \in 1..Len(log) :
    log[id].to # NoUser /\ Written(id, log[id].to) => id \in delivered

\* A failed write is surfaced to the client: no ack for a message that could
\* not be queued.
FailedWriteIsReported == \A id \in acked : \A u \in Users : <<id, u>> \notin failed

\* A room message is fanned out to the members except its sender.
RoomSkipsSender ==
  \A id \in 1..Len(log) : log[id].to = NoUser => ~Written(id, log[id].from)
=============================================================================
