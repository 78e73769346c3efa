--------------------------- MODULE DeliveryProofs ---------------------------
(***************************************************************************)
(* No persisted message is lost: the inductive invariant of Delivery, the  *)
(* proof that every step keeps it, and the theorems, for any set of users, *)
(* connections, workers and requests, for both stores.  Upon it stand that *)
(* Presence follows identity, that replay leaves only what came late, and  *)
(* that nothing is written twice.                                          *)
(***************************************************************************)
EXTENDS Delivery, TLAPS

\* Most leaves are first-order: Zenon is the default, SMT is cited by name.
USE Zenon

-----------------------------------------------------------------------------
(* The inductive invariant *)

\* A worker that is busy has a request, and acts for a user from `bind` on.
Busy ==
  /\ ioConn # NoConn => ioUser \in Users
  /\ \A w \in Workers :
       /\ pc[w] # "idle" => job[w] \in Requests
       /\ pc[w] = "login" => job[w].op = "login"
       /\ pc[w] \notin {"idle", "login", "auth", "token", "logout", "clear"} => who[w] \in Users

\* What a worker holds it holds only in the steps that deal with it.
InHand ==
  \A w \in Workers :
    /\ todo[w] # {} => pc[w] \in {"lookup", "deliver", "enqueue"}
    /\ held[w] # {} => pc[w] \in {"delete", "replay"}
    /\ sends[w] # {} => pc[w] \in {"resend", "deliver", "echoing"}

\* A router works for the message it inserted,
Routed ==
  \A w \in Workers :
    pc[w] \in {"lookup", "deliver", "enqueue", "status", "echo", "echoing"} =>
      msg[w] \in 1..Len(log) /\ log[msg[w]].from = who[w] /\ log[msg[w]].to = job[w].to

\* and a direct message goes to its one receiver.
Addressed ==
  \A w \in Workers :
    /\ pc[w] \in {"resend", "deliver", "enqueue", "status", "echoing"} => addr[w] \in Users
    /\ pc[w] = "lookup" /\ job[w].op = "dm" => todo[w] \subseteq {job[w].to}
    /\ pc[w] \in {"deliver", "enqueue", "status"} /\ job[w].op = "dm" =>
         addr[w] = job[w].to /\ todo[w] = {}
    /\ pc[w] = "status" => job[w].op = "dm"
    /\ pc[w] = "deliver" => \A s \in sends[w] : s[1] = msg[w]

\* A replay that finds its user without connections had one unbound under it.
Attached ==
  \A w \in Workers :
    pc[w] \in {"drain", "delete", "replay"} /\ w \notin gone => job[w].conn \in bound[who[w]]

\* What a DELETE is about to remove was selected, or inserted since.
Selected ==
  /\ \A w \in Workers : pc[w] = "delete" =>
       SplitDrain /\ \A id \in undelivered[who[w]] : id \in held[w] \/ <<id, who[w]>> \in raced
  /\ raced # {} => SplitDrain
  /\ failed # {} => DbMayFail

\* The status is set only after a copy was written or dropped.
StatusEarned ==
  /\ \A w \in Workers : pc[w] = "status" =>
       Written(msg[w], addr[w]) \/ <<msg[w], addr[w]>> \in dropped
  /\ delivered \subseteq 1..Len(log)
  /\ DeliveredIsWritten

IInv ==
  /\ TypeOK
  /\ Busy
  /\ InHand
  /\ Routed
  /\ Addressed
  /\ Attached
  /\ Selected
  /\ StatusEarned
  /\ LossesHaveACause

-----------------------------------------------------------------------------
\* A copy that is not lost, or whose loss has one of the two causes of the
\* MySQL store.
Safe(id, u) == Kept(id, u) \/ <<id, u>> \in raced \/ <<id, u>> \in failed

\* A copy written stays written: send_frame only appends to a write buffer.
LEMMA WrittenStays ==
  ASSUME TypeOK, NEW id, NEW u, Written(id, u),
         \/ out' = out
         \/ \E c \in Conns : \E x \in Ids \X Users : out' = [out EXCEPT ![c] = Append(@, x)]
  PROVE  Written(id, u)'
<1>1. CASE out' = out
  BY <1>1 DEF Written
<1>2. ASSUME NEW c \in Conns, NEW x \in Ids \X Users, out' = [out EXCEPT ![c] = Append(@, x)]
      PROVE  Written(id, u)'
  <2>1. PICK d \in Conns : \E i \in 1..Len(out[d]) : out[d][i] = <<id, u>>
    BY DEF Written
  <2>2. PICK i \in 1..Len(out[d]) : out[d][i] = <<id, u>>
    BY <2>1
  <2>3. out[d] \in Seq(Ids \X Users)
    BY DEF TypeOK, ConnTypes
  <2>4. i \in 1..Len(out'[d]) /\ out'[d][i] = <<id, u>>
    BY <1>2, <2>2, <2>3, SMT DEF TypeOK, ConnTypes
  <2> QED  BY <2>4 DEF Written
<1> QED  BY <1>1, <1>2

\* The copy appended is written.
LEMMA WrittenNow ==
  ASSUME TypeOK, NEW c \in Conns, NEW id \in Ids, NEW u \in Users,
         out' = [out EXCEPT ![c] = Append(@, <<id, u>>)]
  PROVE  Written(id, u)'
<1>1. out[c] \in Seq(Ids \X Users)
  BY DEF TypeOK, ConnTypes
<1>2. out'[c] = Append(out[c], <<id, u>>)
  BY DEF TypeOK, ConnTypes
<1>3. Len(out'[c]) \in 1..Len(out'[c]) /\ out'[c][Len(out'[c])] = <<id, u>>
  BY <1>1, <1>2, SMT
<1> QED  BY <1>3 DEF Written

\* Messages are owed to users.
LEMMA RecipientsAreUsers ==
  ASSUME TypeOK, NEW id \in 1..Len(log), NEW u \in Recipients(id)
  PROVE  id \in Ids /\ u \in Users
<1>1. log[id] \in Message
  <2>1. log \in Seq(Message)
    BY DEF TypeOK, TableTypes
  <2> QED  BY <2>1, SMT
<1>2. u \in Users
  BY <1>1, DeliveryAssumption DEF Recipients, Message
<1>3. id \in Ids
  <2>1. Len(log) \in Nat /\ Len(log) <= MaxMessages
    BY SMT DEF TypeOK, TableTypes
  <2> QED  BY <2>1, DeliveryAssumption, SMT DEF Ids
<1> QED  BY <1>2, <1>3

\* A step that writes, drops, queues and records at least as much, and whose
\* worker keeps what it has in hand, loses nothing.
LEMMA NothingLost ==
  ASSUME TypeOK, LossesHaveACause, log' = log,
         \/ out' = out
         \/ \E c \in Conns : \E x \in Ids \X Users : out' = [out EXCEPT ![c] = Append(@, x)],
         dropped \subseteq dropped', raced \subseteq raced', failed \subseteq failed',
         \A id \in Ids, u \in Users :
           id \in undelivered[u] \/ Routing(id, u) \/ Sending(id, u) => Safe(id, u)'
  PROVE  LossesHaveACause'
<1> SUFFICES ASSUME NEW id \in 1..Len(log), NEW u \in Recipients(id)
             PROVE  Safe(id, u)'
  BY DEF LossesHaveACause, Safe, Recipients
<1>1. id \in Ids /\ u \in Users
  BY RecipientsAreUsers
<1>2. Safe(id, u)
  BY DEF LossesHaveACause, Safe
<1>3. CASE Written(id, u)
  BY <1>3, WrittenStays DEF Safe, Kept
<1>4. CASE <<id, u>> \in dropped \/ <<id, u>> \in raced \/ <<id, u>> \in failed
  BY <1>4 DEF Safe, Kept
<1>5. CASE id \in undelivered[u] \/ Routing(id, u) \/ Sending(id, u)
  BY <1>1, <1>5
<1> QED  BY <1>2, <1>3, <1>4, <1>5 DEF Safe, Kept

\* A status once earned stays earned, and a step that brings no worker to
\* `status` earns none.
LEMMA StatusStays ==
  ASSUME TypeOK, StatusEarned, log' = log, delivered' = delivered,
         \/ out' = out
         \/ \E c \in Conns : \E x \in Ids \X Users : out' = [out EXCEPT ![c] = Append(@, x)],
         dropped \subseteq dropped',
         \A v \in Workers : pc'[v] = "status" =>
           pc[v] = "status" /\ msg'[v] = msg[v] /\ addr'[v] = addr[v]
  PROVE  StatusEarned'
<1>1. \A id, u : Written(id, u) \/ <<id, u>> \in dropped => Written(id, u)' \/ <<id, u>> \in dropped'
  BY WrittenStays
<1>2. DeliveredIsWritten'
  BY <1>1 DEF StatusEarned, DeliveredIsWritten
<1>3. \A w \in Workers : pc'[w] = "status" =>
        Written(msg[w], addr[w])' \/ <<msg'[w], addr'[w]>> \in dropped'
  <2> TAKE w \in Workers
  <2> HAVE pc'[w] = "status"
  <2>1. Written(msg[w], addr[w]) \/ <<msg[w], addr[w]>> \in dropped
    BY DEF StatusEarned
  <2>2. msg'[w] = msg[w] /\ addr'[w] = addr[w]
    OBVIOUS
  <2>3. CASE <<msg[w], addr[w]>> \in dropped
    BY <2>2, <2>3
  <2>4. CASE Written(msg[w], addr[w])
    <3>1. PICK m, a : m = msg[w] /\ a = addr[w]
      OBVIOUS
    <3>2. Written(m, a)'
      BY <2>4, <3>1, WrittenStays
    <3> QED  BY <2>2, <3>1, <3>2 DEF Written
  <2> QED  BY <2>1, <2>3, <2>4
<1> QED  BY <1>2, <1>3 DEF StatusEarned

\* What the assumption says of one request.
LEMMA RequestTypes ==
  ASSUME NEW r \in Requests
  PROVE  /\ r.conn \in Conns
         /\ r.user \in Users \cup {NoUser}
         /\ r.to \in Users \cup {NoUser}
         /\ r.op = "login" => r.user \in Users
         /\ r.op = "dm" <=> r.to \in Users
BY DeliveryAssumption DEF Request

\* The message a worker routes has an id, and its recipient is a user.
LEMMA RoutedTypes ==
  ASSUME TypeOK, Routed, NEW w \in Workers,
         pc[w] \in {"lookup", "deliver", "enqueue", "status", "echo", "echoing"}
  PROVE  msg[w] \in Ids
<1>1. Len(log) \in Nat /\ Len(log) <= MaxMessages
  BY SMT DEF TypeOK, TableTypes
<1>2. msg[w] \in 1..Len(log)
  BY DEF Routed
<1> QED  BY <1>1, <1>2, DeliveryAssumption, SMT DEF Ids

\* The steps of a worker that deal with a message.
MessagePc == {"lookup", "deliver", "enqueue", "status", "echo", "echoing", "resend", "delete", "replay"}

\* A step that leaves the tables and write buffers alone, of the I/O thread or
\* of a worker w with no message in hand, keeps what is said of messages.
LEMMA Aside ==
  ASSUME IInv, NEW w,
         UNCHANGED <<log, out, dropped, delivered, undelivered, raced, failed, todo, held, sends>>,
         w \in Workers => pc[w] \notin MessagePc /\ pc'[w] \notin MessagePc,
         \A v \in Workers \ {w} : /\ pc'[v] = pc[v] /\ job'[v] = job[v] /\ who'[v] = who[v]
                                  /\ msg'[v] = msg[v] /\ addr'[v] = addr[v]
  PROVE  InHand' /\ Routed' /\ Addressed' /\ Selected' /\ StatusEarned' /\ LossesHaveACause'
<1> USE DEF IInv, MessagePc
<1>1. InHand'
  BY DEF InHand
<1>2. Routed'
  BY DEF Routed
<1>3. Addressed'
  BY SMT DEF Addressed
<1>4. Selected'
  BY DEF Selected
<1>5. StatusEarned'
  BY StatusStays
<1>6. LossesHaveACause'
  <2>1. ASSUME NEW id \in Ids, NEW u \in Users, Routing(id, u)
        PROVE  Safe(id, u)'
    BY <2>1 DEF InHand, Safe, Kept, Routing
  <2>2. ASSUME NEW id \in Ids, NEW u \in Users, Sending(id, u)
        PROVE  Safe(id, u)'
    BY <2>2 DEF InHand, Safe, Kept, Sending
  <2>3. ASSUME NEW id \in Ids, NEW u \in Users, id \in undelivered[u]
        PROVE  Safe(id, u)'
    BY <2>3 DEF Safe, Kept
  <2> QED  BY <2>1, <2>2, <2>3, NothingLost
<1> QED  BY <1>1, <1>2, <1>3, <1>4, <1>5, <1>6

\* Accepting a connection keeps the invariant: no message is touched.
LEMMA AcceptStep ==
  ASSUME IInv, NEW c \in Conns, Accept(c)
  PROVE  IInv'
<1> USE DEF IInv, ioVars, dbVars, localVars
<1>1. UNCHANGED <<bound, out, dropped, gone, acked, dbVars, localVars, pc>>
  BY DEF Accept
<1>2. TypeOK'
  BY DEF TypeOK, ConnTypes, IoTypes, TableTypes, WorkerTypes, Accept
<1>3. Busy'
  BY <1>1 DEF Busy, TypeOK, ConnTypes, Accept
<1>4. Attached'
  BY <1>1 DEF Attached
<1>5. InHand' /\ Routed' /\ Addressed' /\ Selected' /\ StatusEarned' /\ LossesHaveACause'
  BY <1>1, NoSetContainsEverything, Aside
<1> QED  BY <1>2, <1>3, <1>4, <1>5

\* Submitting a frame to the pool keeps the invariant.
LEMMA ReceiveStep ==
  ASSUME IInv, NEW r \in Requests, Receive(r)
  PROVE  IInv'
<1> USE DEF IInv, ioVars, dbVars, localVars
<1>1. UNCHANGED <<bound, out, dropped, gone, acked, dbVars, localVars, pc>>
  BY DEF Receive
<1>2. TypeOK'
  BY SMT DEF TypeOK, ConnTypes, IoTypes, TableTypes, WorkerTypes, Receive
<1>3. Busy'
  BY <1>1 DEF Busy, TypeOK, ConnTypes, Receive
<1>4. Attached'
  BY <1>1 DEF Attached
<1>5. InHand' /\ Routed' /\ Addressed' /\ Selected' /\ StatusEarned' /\ LossesHaveACause'
  BY <1>1, NoSetContainsEverything, Aside
<1> QED  BY <1>2, <1>3, <1>4, <1>5

\* Starting to close a connection keeps the invariant: later sends are drops.
LEMMA ScheduleCloseStep ==
  ASSUME IInv, NEW c \in Conns, ScheduleClose(c)
  PROVE  IInv'
<1> USE DEF IInv, ioVars, dbVars, localVars
<1>1. UNCHANGED <<bound, out, dropped, gone, acked, dbVars, localVars, pc>>
  BY DEF ScheduleClose
<1>2. TypeOK'
  BY DEF TypeOK, ConnTypes, IoTypes, TableTypes, WorkerTypes, ScheduleClose
<1>3. Busy'
  BY <1>1 DEF Busy, TypeOK, ConnTypes, ScheduleClose
<1>4. Attached'
  BY <1>1 DEF Attached
<1>5. InHand' /\ Routed' /\ Addressed' /\ Selected' /\ StatusEarned' /\ LossesHaveACause'
  BY <1>1, NoSetContainsEverything, Aside
<1> QED  BY <1>2, <1>3, <1>4, <1>5

\* Closing a connection keeps the invariant: it is still bound to its user.
LEMMA DeliverCloseStep ==
  ASSUME IInv, NEW c \in Conns, DeliverClose(c)
  PROVE  IInv'
<1> USE DEF IInv, ioVars, dbVars, localVars
<1>1. UNCHANGED <<bound, out, dropped, gone, acked, dbVars, localVars, pc>>
  BY DEF DeliverClose, CloseFor
<1>2. TypeOK'
  BY DEF TypeOK, ConnTypes, IoTypes, TableTypes, WorkerTypes, DeliverClose, CloseFor
<1>3. Busy'
  BY <1>1 DEF Busy, TypeOK, ConnTypes, DeliverClose, CloseFor
<1>4. Attached'
  BY <1>1 DEF Attached
<1>5. InHand' /\ Routed' /\ Addressed' /\ Selected' /\ StatusEarned' /\ LossesHaveACause'
  BY <1>1, NoSetContainsEverything, Aside
<1> QED  BY <1>2, <1>3, <1>4, <1>5

\* on_close's unbind keeps the invariant: replays under way are noted in `gone`.
LEMMA OnCloseStep ==
  ASSUME IInv, OnClose
  PROVE  IInv'
<1> USE DEF IInv, ioVars, dbVars, localVars
<1>1. UNCHANGED <<out, dropped, acked, dbVars, localVars, pc>>
  BY DEF OnClose, UnbindFrom
<1>2. TypeOK'
  BY DEF TypeOK, ConnTypes, IoTypes, TableTypes, WorkerTypes, OnClose, UnbindFrom, Busy
<1>3. Busy'
  BY <1>1 DEF Busy, TypeOK, ConnTypes, OnClose, UnbindFrom
<1>4. Attached'
  BY <1>1, SMT DEF Attached, Busy, TypeOK, ConnTypes, WorkerTypes, OnClose, UnbindFrom
<1>5. InHand' /\ Routed' /\ Addressed' /\ Selected' /\ StatusEarned' /\ LossesHaveACause'
  BY <1>1, NoSetContainsEverything, Aside
<1> QED  BY <1>2, <1>3, <1>4, <1>5

\* Taking a frame from the pool keeps the invariant.
LEMMA TakeStep ==
  ASSUME IInv, NEW w \in Workers, Take(w)
  PROVE  IInv'
<1> USE DEF IInv, ioVars, dbVars, localVars
<1>2. UNCHANGED <<log, out, dropped, delivered, undelivered, raced, failed, todo, held, sends,
                  who, msg, addr, bound, gone>>
  BY DEF Take
<1>3. /\ pc[w] = "idle" /\ pc'[w] \in {"login", "logout", "auth"}
      /\ \A v \in Workers \ {w} : pc'[v] = pc[v] /\ job'[v] = job[v]
  BY DEF TypeOK, WorkerTypes, Take
<1>4. TypeOK'
  <2>1. WorkerTypes'
    BY <1>2, SMT DEF TypeOK, WorkerTypes, IoTypes, Pc, Take
  <2>2. IoTypes'
    BY <1>2, SMT DEF TypeOK, IoTypes, Take
  <2> QED  BY <1>2, <2>1, <2>2 DEF TypeOK, ConnTypes, TableTypes, Take
<1>5. Busy'
  BY <1>2, <1>3, SMT DEF Busy, TypeOK, IoTypes, WorkerTypes, Take
<1>6. Attached'
  BY <1>2, <1>3 DEF Attached
<1>7. InHand' /\ Routed' /\ Addressed' /\ Selected' /\ StatusEarned' /\ LossesHaveACause'
  BY <1>2, <1>3, Aside DEF MessagePc
<1> QED  BY <1>4, <1>5, <1>6, <1>7

\* handle_login's set_user_id keeps the invariant.
LEMMA LoginStep ==
  ASSUME IInv, NEW w \in Workers, Login(w)
  PROVE  IInv'
<1> USE DEF IInv, ioVars, dbVars, localVars
<1>1. job[w] \in Requests /\ job[w].conn \in Conns /\ job[w].user \in Users
  BY RequestTypes DEF Busy, Login, Authenticate
<1>2. UNCHANGED <<log, out, dropped, delivered, undelivered, raced, failed, todo, held, sends, job, msg, addr, bound, gone>>
  BY DEF Login, Authenticate
<1>3. /\ pc[w] = "login" /\ pc'[w] = "bind"
      /\ \A v \in Workers \ {w} : pc'[v] = pc[v] /\ who'[v] = who[v]
  BY DEF TypeOK, WorkerTypes, Login, Authenticate
<1>4. TypeOK'
  <2>1. WorkerTypes'
    BY <1>1, <1>2 DEF TypeOK, WorkerTypes, Pc, Login, Authenticate
  <2>2. ConnTypes'
    BY <1>1, <1>2 DEF TypeOK, ConnTypes, Login, Authenticate
  <2> QED  BY <1>2, <2>1, <2>2 DEF TypeOK, IoTypes, TableTypes, Login, Authenticate
<1>5. Busy'
  BY <1>1, <1>2, <1>3 DEF Busy, TypeOK, WorkerTypes, ConnTypes, Login, Authenticate
<1>6. Attached'
  BY <1>2, <1>3 DEF Attached
<1>7. InHand' /\ Routed' /\ Addressed' /\ Selected' /\ StatusEarned' /\ LossesHaveACause'
  BY <1>2, <1>3, Aside DEF MessagePc
<1> QED  BY <1>4, <1>5, <1>6, <1>7

\* require_auth on an authenticated connection keeps the invariant.
LEMMA RequireAuthStep ==
  ASSUME IInv, NEW w \in Workers, RequireAuth(w)
  PROVE  IInv'
<1> USE DEF IInv, ioVars, dbVars, localVars
<1>1. job[w] \in Requests /\ job[w].conn \in Conns
  BY RequestTypes DEF Busy, RequireAuth, AfterAuth
<1>2. UNCHANGED <<log, out, dropped, delivered, undelivered, raced, failed, todo, held, sends, job, msg, addr, bound, gone>>
  BY DEF RequireAuth, AfterAuth
<1>3. /\ pc[w] = "auth" /\ pc'[w] \in {"token", "ack", "body"}
      /\ \A v \in Workers \ {w} : pc'[v] = pc[v] /\ who'[v] = who[v]
  BY DEF TypeOK, WorkerTypes, RequireAuth, AfterAuth
<1>4. TypeOK'
  <2>1. WorkerTypes'
    BY <1>1, <1>2 DEF TypeOK, WorkerTypes, ConnTypes, Pc, RequireAuth, AfterAuth
  <2> QED  BY <1>2, <2>1 DEF TypeOK, ConnTypes, IoTypes, TableTypes, RequireAuth, AfterAuth
<1>5. Busy'
  BY <1>1, <1>2, <1>3, SMT DEF Busy, TypeOK, WorkerTypes, ConnTypes, RequireAuth, AfterAuth
<1>6. Attached'
  BY <1>2, <1>3 DEF Attached
<1>7. InHand' /\ Routed' /\ Addressed' /\ Selected' /\ StatusEarned' /\ LossesHaveACause'
  BY <1>2, <1>3, Aside DEF MessagePc
<1> QED  BY <1>4, <1>5, <1>6, <1>7

\* require_auth by token keeps the invariant.
LEMMA ValidateTokenStep ==
  ASSUME IInv, NEW w \in Workers, ValidateToken(w)
  PROVE  IInv'
<1> USE DEF IInv, ioVars, dbVars, localVars
<1>1. job[w] \in Requests /\ job[w].conn \in Conns /\ job[w].user \in Users
  BY RequestTypes DEF Busy, ValidateToken, Authenticate
<1>2. UNCHANGED <<log, out, dropped, delivered, undelivered, raced, failed, todo, held, sends, job, msg, addr, bound, gone>>
  BY DEF ValidateToken, Authenticate
<1>3. /\ pc[w] = "token" /\ pc'[w] = "bind"
      /\ \A v \in Workers \ {w} : pc'[v] = pc[v] /\ who'[v] = who[v]
  BY DEF TypeOK, WorkerTypes, ValidateToken, Authenticate
<1>4. TypeOK'
  <2>1. WorkerTypes'
    BY <1>1, <1>2 DEF TypeOK, WorkerTypes, Pc, ValidateToken, Authenticate
  <2>2. ConnTypes'
    BY <1>1, <1>2 DEF TypeOK, ConnTypes, ValidateToken, Authenticate
  <2> QED  BY <1>2, <2>1, <2>2 DEF TypeOK, IoTypes, TableTypes, ValidateToken, Authenticate
<1>5. Busy'
  BY <1>1, <1>2, <1>3, SMT DEF Busy, TypeOK, WorkerTypes, ConnTypes, ValidateToken, Authenticate
<1>6. Attached'
  BY <1>2, <1>3 DEF Attached
<1>7. InHand' /\ Routed' /\ Addressed' /\ Selected' /\ StatusEarned' /\ LossesHaveACause'
  BY <1>2, <1>3, Aside DEF MessagePc
<1> QED  BY <1>4, <1>5, <1>6, <1>7

\* A handler that gives up keeps the invariant: it has no message in hand.
LEMMA RefuseStep ==
  ASSUME IInv, NEW w \in Workers, Refuse(w)
  PROVE  IInv'
<1> USE DEF IInv, ioVars, dbVars, localVars
<1>1. job[w] \in Requests /\ job[w].conn \in Conns
  BY RequestTypes DEF Busy, Refuse, GiveUp
<1>2. UNCHANGED <<log, out, dropped, delivered, undelivered, raced, failed, todo, held, sends,
                  msg, addr, bound, gone>>
  BY DEF Refuse, GiveUp
<1>3. /\ pc[w] \in {"token", "body"} /\ pc'[w] = "idle"
      /\ \A v \in Workers \ {w} : pc'[v] = pc[v] /\ job'[v] = job[v] /\ who'[v] = who[v]
  BY DEF TypeOK, WorkerTypes, Refuse, GiveUp
<1>4. TypeOK'
  <2>1. WorkerTypes'
    BY <1>1, <1>2 DEF TypeOK, WorkerTypes, Pc, Refuse, GiveUp
  <2> QED  BY <1>2, <2>1 DEF TypeOK, ConnTypes, IoTypes, TableTypes, Refuse, GiveUp
<1>5. Busy'
  BY <1>1, <1>2, <1>3 DEF Busy, TypeOK, WorkerTypes, ConnTypes, Refuse, GiveUp
<1>6. Attached'
  BY <1>2, <1>3 DEF Attached
<1>7. InHand' /\ Routed' /\ Addressed' /\ Selected' /\ StatusEarned' /\ LossesHaveACause'
  BY <1>2, <1>3, Aside DEF MessagePc
<1> QED  BY <1>4, <1>5, <1>6, <1>7

\* Presence::bind keeps the invariant: a replay starts with a connection bound.
LEMMA BindStep ==
  ASSUME IInv, NEW w \in Workers, Bind(w)
  PROVE  IInv'
<1> USE DEF IInv, ioVars, dbVars, localVars
<1>1. job[w] \in Requests /\ job[w].conn \in Conns /\ who[w] \in Users
  BY RequestTypes DEF Busy, Bind, AfterAuth
<1>2. UNCHANGED <<log, out, dropped, delivered, undelivered, raced, failed, todo, held, sends, job, who, msg, addr>>
  BY DEF Bind, AfterAuth
<1>3. /\ pc[w] = "bind" /\ pc'[w] \in {"drain", "ack", "body"}
      /\ \A v \in Workers \ {w} : pc'[v] = pc[v]
  BY DEF TypeOK, WorkerTypes, Bind, AfterAuth
<1>4. TypeOK'
  <2>1. WorkerTypes'
    BY <1>1, <1>2 DEF TypeOK, WorkerTypes, Pc, Bind, AfterAuth
  <2>2. ConnTypes'
    BY <1>1, <1>2 DEF TypeOK, ConnTypes, Bind
  <2> QED  BY <1>2, <2>1, <2>2 DEF TypeOK, IoTypes, TableTypes, Bind, AfterAuth
<1>5. Busy'
  BY <1>1, <1>2, <1>3 DEF Busy, TypeOK, WorkerTypes, ConnTypes, Bind, AfterAuth
<1>6. Attached'
  BY <1>1, <1>2, <1>3, SMT DEF Attached, TypeOK, ConnTypes, Bind
<1>7. InHand' /\ Routed' /\ Addressed' /\ Selected' /\ StatusEarned' /\ LossesHaveACause'
  BY <1>2, <1>3, Aside DEF MessagePc
<1> QED  BY <1>4, <1>5, <1>6, <1>7

\* handle_logout's user_id() keeps the invariant.
LEMMA LogoutReadStep ==
  ASSUME IInv, NEW w \in Workers, LogoutRead(w)
  PROVE  IInv'
<1> USE DEF IInv, ioVars, dbVars, localVars
<1>1. job[w] \in Requests /\ job[w].conn \in Conns
  BY RequestTypes DEF Busy, LogoutRead
<1>2. UNCHANGED <<log, out, dropped, delivered, undelivered, raced, failed, todo, held, sends, job, msg, addr, bound, gone>>
  BY DEF LogoutRead
<1>3. /\ pc[w] = "logout" /\ pc'[w] \in {"clear", "unbind"}
      /\ \A v \in Workers \ {w} : pc'[v] = pc[v] /\ who'[v] = who[v]
  BY DEF TypeOK, WorkerTypes, LogoutRead
<1>4. TypeOK'
  <2>1. WorkerTypes'
    BY <1>1, <1>2 DEF TypeOK, WorkerTypes, ConnTypes, Pc, LogoutRead
  <2> QED  BY <1>2, <2>1 DEF TypeOK, ConnTypes, IoTypes, TableTypes, LogoutRead
<1>5. Busy'
  BY <1>1, <1>2, <1>3, SMT DEF Busy, TypeOK, WorkerTypes, ConnTypes, LogoutRead
<1>6. Attached'
  BY <1>2, <1>3 DEF Attached
<1>7. InHand' /\ Routed' /\ Addressed' /\ Selected' /\ StatusEarned' /\ LossesHaveACause'
  BY <1>2, <1>3, Aside DEF MessagePc
<1> QED  BY <1>4, <1>5, <1>6, <1>7

\* handle_logout's unbind keeps the invariant, as on_close's does.
LEMMA LogoutUnbindStep ==
  ASSUME IInv, NEW w \in Workers, LogoutUnbind(w)
  PROVE  IInv'
<1> USE DEF IInv, ioVars, dbVars, localVars
<1>1. job[w] \in Requests /\ job[w].conn \in Conns /\ who[w] \in Users
  BY RequestTypes DEF Busy, LogoutUnbind, UnbindFrom
<1>2. UNCHANGED <<log, out, dropped, delivered, undelivered, raced, failed, todo, held, sends, job, who, msg, addr>>
  BY DEF LogoutUnbind, UnbindFrom
<1>3. /\ pc[w] = "unbind" /\ pc'[w] = "clear"
      /\ \A v \in Workers \ {w} : pc'[v] = pc[v]
  BY DEF TypeOK, WorkerTypes, LogoutUnbind, UnbindFrom
<1>4. TypeOK'
  <2>1. WorkerTypes'
    BY <1>1, <1>2 DEF TypeOK, WorkerTypes, Pc, LogoutUnbind, UnbindFrom
  <2>2. ConnTypes'
    BY <1>1, <1>2 DEF TypeOK, ConnTypes, LogoutUnbind, UnbindFrom
  <2> QED  BY <1>2, <2>1, <2>2 DEF TypeOK, IoTypes, TableTypes, LogoutUnbind, UnbindFrom
<1>5. Busy'
  BY <1>1, <1>2, <1>3 DEF Busy, TypeOK, WorkerTypes, ConnTypes, LogoutUnbind, UnbindFrom
<1>6. Attached'
  BY <1>1, <1>2, <1>3 DEF Attached, Busy, TypeOK, ConnTypes, LogoutUnbind, UnbindFrom
<1>7. InHand' /\ Routed' /\ Addressed' /\ Selected' /\ StatusEarned' /\ LossesHaveACause'
  BY <1>2, <1>3, Aside DEF MessagePc
<1> QED  BY <1>4, <1>5, <1>6, <1>7

\* handle_logout's set_user_id(0) keeps the invariant.
LEMMA LogoutClearStep ==
  ASSUME IInv, NEW w \in Workers, LogoutClear(w)
  PROVE  IInv'
<1> USE DEF IInv, ioVars, dbVars, localVars
<1>1. job[w] \in Requests /\ job[w].conn \in Conns
  BY RequestTypes DEF Busy, LogoutClear, LogoutAs, GiveUp
<1>2. UNCHANGED <<log, out, dropped, delivered, undelivered, raced, failed, todo, held, sends,
                  msg, addr, bound, gone>>
  BY DEF LogoutClear, LogoutAs, GiveUp
<1>3. /\ pc[w] = "clear" /\ pc'[w] = "idle"
      /\ \A v \in Workers \ {w} : pc'[v] = pc[v] /\ job'[v] = job[v] /\ who'[v] = who[v]
  BY DEF TypeOK, WorkerTypes, LogoutClear, LogoutAs, GiveUp
<1>4. TypeOK'
  <2>1. WorkerTypes'
    BY <1>1, <1>2 DEF TypeOK, WorkerTypes, Pc, LogoutClear, LogoutAs, GiveUp
  <2>2. ConnTypes'
    BY <1>1, <1>2 DEF TypeOK, ConnTypes, LogoutClear, LogoutAs
  <2> QED  BY <1>2, <2>1, <2>2 DEF TypeOK, IoTypes, TableTypes, LogoutClear, LogoutAs, GiveUp
<1>5. Busy'
  BY <1>1, <1>2, <1>3 DEF Busy, TypeOK, WorkerTypes, ConnTypes, LogoutClear, LogoutAs, GiveUp
<1>6. Attached'
  BY <1>2, <1>3 DEF Attached
<1>7. InHand' /\ Routed' /\ Addressed' /\ Selected' /\ StatusEarned' /\ LossesHaveACause'
  BY <1>2, <1>3, Aside DEF MessagePc
<1> QED  BY <1>4, <1>5, <1>6, <1>7

\* The ack keeps the invariant: nothing is left in the worker's hands.
LEMMA AckStep ==
  ASSUME IInv, NEW w \in Workers, Ack(w)
  PROVE  IInv'
<1> USE DEF IInv, ioVars, dbVars, localVars
<1>1. job[w] \in Requests /\ job[w].conn \in Conns
  BY RequestTypes DEF Busy, Ack, GiveUp
<1>2. UNCHANGED <<log, out, dropped, delivered, undelivered, raced, failed, todo, held, sends, bound, gone>>
  BY DEF Ack, GiveUp
<1>3. /\ pc[w] = "ack" /\ pc'[w] = "idle"
      /\ \A v \in Workers \ {w} : /\ pc'[v] = pc[v] /\ job'[v] = job[v] /\ who'[v] = who[v]
                                   /\ msg'[v] = msg[v] /\ addr'[v] = addr[v]
  BY DEF TypeOK, WorkerTypes, Ack, GiveUp
<1>4. TypeOK'
  <2>1. WorkerTypes'
    BY <1>1, <1>2 DEF TypeOK, WorkerTypes, Pc, Ack, GiveUp
  <2>2. TableTypes'
    BY <1>1, <1>2 DEF TypeOK, TableTypes, WorkerTypes, Ack
  <2> QED  BY <1>2, <2>1, <2>2 DEF TypeOK, ConnTypes, IoTypes, Ack, GiveUp
<1>5. Busy'
  BY <1>1, <1>2, <1>3 DEF Busy, TypeOK, WorkerTypes, ConnTypes, Ack, GiveUp
<1>6. Attached'
  BY <1>2, <1>3 DEF Attached
<1>7. InHand' /\ Routed' /\ Addressed' /\ Selected' /\ StatusEarned' /\ LossesHaveACause'
  BY <1>2, <1>3, Aside DEF MessagePc
<1> QED  BY <1>4, <1>5, <1>6, <1>7

-----------------------------------------------------------------------------
(* The steps that route a message *)

\* The drain's SELECT, or the locked drain, keeps the invariant: what leaves the
\* queue is in the worker's hands.
LEMMA DrainStep ==
  ASSUME IInv, NEW w \in Workers, Drain(w)
  PROVE  IInv'
<1> USE DEF IInv, ioVars, dbVars, localVars
<1>1. job[w] \in Requests /\ job[w].conn \in Conns /\ who[w] \in Users
  BY RequestTypes DEF Busy, Drain, DrainAs
<1>2. UNCHANGED <<bound, out, dropped, gone, ident, ioVars, log, delivered, raced, failed, job, who,
                  msg, todo, addr, sends>>
  BY DEF Drain, DrainAs
<1>3. /\ pc[w] = "drain" /\ held'[w] = undelivered[who[w]]
      /\ IF SplitDrain THEN pc'[w] = "delete" /\ undelivered' = undelivered ELSE pc'[w] = "replay"
      /\ \A v \in Workers \ {w} : pc'[v] = pc[v] /\ held'[v] = held[v]
      /\ \A u \in Users \ {who[w]} : undelivered'[u] = undelivered[u]
      /\ \A u \in Users : undelivered'[u] \subseteq undelivered[u]
  BY <1>1 DEF TypeOK, WorkerTypes, TableTypes, Drain, DrainAs
<1>4. TypeOK'
  <2>1. WorkerTypes'
    BY <1>1, <1>2 DEF TypeOK, WorkerTypes, TableTypes, Pc, Drain, DrainAs
  <2>2. TableTypes'
    BY <1>1, <1>2 DEF TypeOK, TableTypes, Drain, DrainAs
  <2> QED  BY <1>2, <2>1, <2>2 DEF TypeOK, ConnTypes, IoTypes, Drain, DrainAs
<1>5. Busy'
  BY <1>1, <1>2, <1>3 DEF Busy
<1>6. InHand'
  BY <1>1, <1>2, <1>3 DEF InHand
<1>7. Routed'
  BY <1>1, <1>2, <1>3 DEF Routed
<1>8. Addressed'
  BY <1>1, <1>2, <1>3, SMT DEF Addressed
<1>9. Attached'
  BY <1>1, <1>2, <1>3 DEF Attached
<1>10. Selected'
  BY <1>1, <1>2, <1>3, DeliveryAssumption, SMT DEF Selected, Busy
<1>11. StatusEarned'
  BY <1>2, <1>3, StatusStays
<1>12. LossesHaveACause'
  <2>1. ASSUME NEW id \in Ids, NEW u \in Users, id \in undelivered[u]
        PROVE  Safe(id, u)'
    <3>1. CASE u # who[w]
      BY <1>3, <2>1, <3>1 DEF Safe, Kept
    <3>2. CASE u = who[w]
      BY <1>2, <1>3, <2>1, <3>2 DEF Safe, Kept, Sending
    <3> QED  BY <3>1, <3>2
  <2>2. ASSUME NEW id \in Ids, NEW u \in Users, Routing(id, u)
        PROVE  Safe(id, u)'
    BY <1>2, <1>3, <2>2 DEF Safe, Kept, Routing
  <2>3. ASSUME NEW id \in Ids, NEW u \in Users, Sending(id, u)
        PROVE  Safe(id, u)'
    BY <1>2, <1>3, <2>3 DEF InHand, Safe, Kept, Sending
  <2> QED  BY <1>2, <1>3, <2>1, <2>2, <2>3, NothingLost
<1> QED  BY <1>4, <1>5, <1>6, <1>7, <1>8, <1>9, <1>10, <1>11, <1>12

\* The drain's DELETE keeps the invariant: a row is selected or recorded as raced.
LEMMA DrainDeleteStep ==
  ASSUME IInv, NEW w \in Workers, DrainDelete(w)
  PROVE  IInv'
<1> USE DEF IInv, ioVars, dbVars, localVars
<1>1. job[w] \in Requests /\ job[w].conn \in Conns /\ who[w] \in Users
  BY RequestTypes DEF Busy, DrainDelete
<1>2. UNCHANGED <<bound, out, dropped, gone, ident, ioVars, log, delivered, raced, failed, localVars>>
  BY DEF DrainDelete
<1>3. /\ pc[w] = "delete" /\ pc'[w] = "replay" /\ undelivered'[who[w]] = {}
      /\ \A v \in Workers \ {w} : pc'[v] = pc[v]
      /\ \A u \in Users \ {who[w]} : undelivered'[u] = undelivered[u]
  BY <1>1 DEF TypeOK, WorkerTypes, TableTypes, DrainDelete
<1>4. TypeOK'
  <2>1. WorkerTypes'
    BY <1>1, <1>2 DEF TypeOK, WorkerTypes, Pc, DrainDelete
  <2>2. TableTypes'
    BY <1>1, <1>2 DEF TypeOK, TableTypes, DrainDelete
  <2> QED  BY <1>2, <2>1, <2>2 DEF TypeOK, ConnTypes, IoTypes, DrainDelete
<1>5. Busy'
  BY <1>1, <1>2, <1>3 DEF Busy
<1>6. InHand'
  BY <1>1, <1>2, <1>3 DEF InHand
<1>7. Routed'
  BY <1>1, <1>2, <1>3 DEF Routed
<1>8. Addressed'
  BY <1>1, <1>2, <1>3, SMT DEF Addressed
<1>9. Attached'
  BY <1>1, <1>2, <1>3 DEF Attached
<1>10. Selected'
  BY <1>1, <1>2, <1>3 DEF Selected, Busy
<1>11. StatusEarned'
  BY <1>2, <1>3, StatusStays
<1>12. LossesHaveACause'
  <2>1. ASSUME NEW id \in Ids, NEW u \in Users, id \in undelivered[u]
        PROVE  Safe(id, u)'
    <3>1. CASE u # who[w]
      BY <1>3, <2>1, <3>1 DEF Safe, Kept
    <3>2. CASE u = who[w]
      BY <1>2, <1>3, <2>1, <3>2 DEF Selected, Safe, Kept, Sending
    <3> QED  BY <3>1, <3>2
  <2>2. ASSUME NEW id \in Ids, NEW u \in Users, Routing(id, u)
        PROVE  Safe(id, u)'
    BY <1>2, <1>3, <2>2 DEF Safe, Kept, Routing
  <2>3. ASSUME NEW id \in Ids, NEW u \in Users, Sending(id, u)
        PROVE  Safe(id, u)'
    BY <1>2, <1>3, <2>3 DEF Safe, Kept, Sending
  <2> QED  BY <1>2, <1>3, <2>1, <2>2, <2>3, NothingLost
<1> QED  BY <1>4, <1>5, <1>6, <1>7, <1>8, <1>9, <1>10, <1>11, <1>12

\* replay_offline's connections_of keeps the invariant: what it holds is to be
\* sent, or dropped because the user lost its connection.
LEMMA ReplayLookupStep ==
  ASSUME IInv, NEW w \in Workers, ReplayLookup(w)
  PROVE  IInv'
<1> USE DEF IInv, ioVars, dbVars, localVars
<1>1. job[w] \in Requests /\ job[w].conn \in Conns /\ who[w] \in Users
  BY RequestTypes DEF Busy, ReplayLookup, AfterAuth
<1>2. UNCHANGED <<bound, out, gone, ident, ioVars, dbVars, acked, job, who, msg, todo>>
  BY DEF ReplayLookup, AfterAuth
<1>3. /\ pc[w] = "replay" /\ addr'[w] = who[w] /\ held'[w] = {}
      /\ sends'[w] = held[w] \X bound[who[w]]
      /\ \/ pc'[w] = "resend"
         \/ pc'[w] \in {"ack", "body"} /\ sends'[w] = {}
      /\ dropped \subseteq dropped'
      /\ bound[who[w]] = {} /\ w \in gone => held[w] \X {who[w]} \subseteq dropped'
      /\ \A v \in Workers \ {w} : /\ pc'[v] = pc[v] /\ held'[v] = held[v]
                                  /\ addr'[v] = addr[v] /\ sends'[v] = sends[v]
  BY <1>1 DEF TypeOK, WorkerTypes, TableTypes, ReplayLookup, AfterAuth
<1>4. TypeOK'
  <2>1. WorkerTypes'
    BY <1>1, <1>2 DEF TypeOK, WorkerTypes, ConnTypes, Pc, ReplayLookup, AfterAuth
  <2>2. ConnTypes'
    BY <1>1, <1>2 DEF TypeOK, ConnTypes, WorkerTypes, ReplayLookup
  <2> QED  BY <1>2, <2>1, <2>2 DEF TypeOK, IoTypes, TableTypes, ReplayLookup, AfterAuth
<1>5. Busy'
  BY <1>1, <1>2, <1>3 DEF Busy
<1>6. InHand'
  BY <1>1, <1>2, <1>3 DEF InHand
<1>7. Routed'
  BY <1>1, <1>2, <1>3 DEF Routed
<1>8. Addressed'
  BY <1>1, <1>2, <1>3, SMT DEF Addressed
<1>9. Attached'
  BY <1>1, <1>2, <1>3 DEF Attached
<1>10. Selected'
  BY <1>1, <1>2, <1>3 DEF Selected
<1>11. StatusEarned'
  BY <1>2, <1>3, StatusStays
<1>12. LossesHaveACause'
  <2>1. ASSUME NEW id \in Ids, NEW u \in Users, id \in undelivered[u]
        PROVE  Safe(id, u)'
    BY <1>2, <2>1 DEF Safe, Kept
  <2>2. ASSUME NEW id \in Ids, NEW u \in Users, Routing(id, u)
        PROVE  Safe(id, u)'
    BY <1>2, <1>3, <2>2 DEF Safe, Kept, Routing
  <2>3. ASSUME NEW id \in Ids, NEW u \in Users, Sending(id, u)
        PROVE  Safe(id, u)'
    <3>1. PICK v \in Workers : \/ id \in held[v] /\ who[v] = u
                               \/ addr[v] = u /\ \E c \in Conns : <<id, c>> \in sends[v]
      BY <2>3 DEF Sending
    <3>2. CASE v # w
      BY <1>2, <1>3, <3>1, <3>2 DEF Safe, Kept, Sending
    <3>3. CASE v = w
      <4>1. id \in held[w] /\ u = who[w]
        BY <1>3, <3>1, <3>3 DEF InHand
      <4>2. CASE bound[who[w]] = {}
        BY <1>3, <4>1, <4>2 DEF Attached, Safe, Kept
      <4>3. CASE bound[who[w]] # {}
        <5>1. PICK c \in bound[who[w]] : c \in Conns
          BY <1>1, <4>3 DEF TypeOK, ConnTypes
        <5>2. <<id, c>> \in sends'[w]
          BY <1>3, <4>1, <5>1, SMT
        <5> QED  BY <1>3, <4>1, <5>1, <5>2 DEF Safe, Kept, Sending
      <4> QED  BY <4>2, <4>3
    <3> QED  BY <3>2, <3>3
  <2> QED  BY <1>2, <1>3, <2>1, <2>2, <2>3, NothingLost
<1> QED  BY <1>4, <1>5, <1>6, <1>7, <1>8, <1>9, <1>10, <1>11, <1>12

\* insert_dm and insert_room_msg keep the invariant: the new message is owed to
\* exactly the recipients the router has yet to look up.
LEMMA InsertStep ==
  ASSUME IInv, NEW w \in Workers, Insert(w)
  PROVE  IInv'
<1> USE DEF IInv, ioVars, dbVars, localVars
<1>1. /\ job[w] \in Requests /\ who[w] \in Users /\ job[w].to \in Users \cup {NoUser}
      /\ job[w].op = "dm" <=> job[w].to \in Users
  BY RequestTypes DEF Busy, Insert
<1>2. PICK row \in Message : row = [from |-> who[w], to |-> job[w].to]
  BY <1>1 DEF Message
<1>3. /\ log \in Seq(Message) /\ log' = Append(log, row)
      /\ Len(log) \in Nat /\ Len(log) + 1 \in Ids
  <2>1. log \in Seq(Message)
    BY DEF TypeOK, TableTypes
  <2>2. Len(log) < MaxMessages /\ log' = Append(log, row)
    BY <1>2 DEF Insert
  <2> QED  BY <2>1, <2>2, DeliveryAssumption, SMT DEF Ids
<1>4. /\ log' \in Seq(Message) /\ Len(log') = Len(log) + 1
      /\ log'[Len(log) + 1] = row
      /\ \A i \in 1..Len(log) : i \in 1..Len(log') /\ log'[i] = log[i]
  BY <1>3, SMT
<1>5. /\ pc'[w] = "lookup" /\ msg'[w] = Len(log) + 1
      /\ pc[w] = "body" /\ todo'[w] = IF job[w].op = "dm" THEN {job[w].to} ELSE Members
      /\ \A v \in Workers \ {w} : pc'[v] = pc[v] /\ msg'[v] = msg[v] /\ todo'[v] = todo[v]
  BY DEF TypeOK, WorkerTypes, Insert
<1>6. UNCHANGED <<userOf, bound, out, dropped, gone, acked, ident, ioVars, delivered, undelivered, raced,
                  late, failed, job, who, addr, held, sends>>
  BY DEF Insert
<1>7. TypeOK'
  <2>1. pc' \in [Workers -> Pc]
    BY DEF TypeOK, WorkerTypes, Pc, Insert
  <2>2. msg' \in [Workers -> Ids \cup {0}] /\ todo' \in [Workers -> SUBSET Users]
    BY <1>1, <1>3, DeliveryAssumption DEF TypeOK, WorkerTypes, Insert
  <2>3. WorkerTypes'
    BY <1>6, <2>1, <2>2 DEF TypeOK, WorkerTypes
  <2>4. Len(log') <= MaxMessages
    BY <1>3, <1>4, DeliveryAssumption, SMT DEF Ids
  <2>5. TableTypes'
    BY <1>4, <1>6, <2>4 DEF TypeOK, TableTypes
  <2> QED  BY <1>6, <2>3, <2>5 DEF TypeOK, ConnTypes, IoTypes
<1>8. Busy'
  BY <1>1, <1>5, <1>6 DEF Busy
<1>9. InHand'
  BY <1>5, <1>6 DEF InHand
<1>10. Routed' /\ Addressed'
  <2>1. \A v \in Workers \ {w} : msg[v] \in 1..Len(log) =>
          msg'[v] \in 1..Len(log') /\ log'[msg'[v]] = log[msg[v]]
    BY <1>4, <1>5
  <2>2. msg'[w] \in 1..Len(log') /\ log'[msg'[w]].from = who[w] /\ log'[msg'[w]].to = job[w].to
    BY <1>2, <1>3, <1>4, <1>5, SMT
  <2>3. Routed'
    BY <1>5, <1>6, <2>1, <2>2 DEF Routed
  <2>4. Addressed'
    BY <1>5, <1>6, SMT DEF Addressed
  <2> QED  BY <2>3, <2>4
<1>11. Attached'
  BY <1>5, <1>6 DEF Attached
<1>12. Selected'
  BY <1>5, <1>6 DEF Selected
<1>13. StatusEarned'
  <2>1. \A v \in Workers : pc'[v] = "status" => pc[v] = "status" /\ msg'[v] = msg[v]
    BY <1>5
  <2>2. \A v \in Workers : pc'[v] = "status" =>
          Written(msg[v], addr[v])' \/ <<msg'[v], addr'[v]>> \in dropped'
    BY <1>6, <2>1 DEF StatusEarned, Written
  <2>3. \A id \in delivered' : id \in 1..Len(log') /\ log'[id] = log[id]
    BY <1>4, <1>6 DEF StatusEarned
  <2>4. DeliveredIsWritten'
    <3>1. \A id, u : Written(id, u)' <=> Written(id, u)
      BY <1>6 DEF Written
    <3> QED
      BY <1>6, <2>3, <3>1 DEF StatusEarned, DeliveredIsWritten
  <2> QED  BY <2>2, <2>3, <2>4 DEF StatusEarned
<1>14. LossesHaveACause'
  <2> SUFFICES ASSUME NEW id \in 1..Len(log'), NEW u \in Recipients(id)'
               PROVE  Safe(id, u)'
    BY DEF LossesHaveACause, Safe
  <2>1. CASE id = Len(log) + 1
    <3>1. msg'[w] = id /\ u \in todo'[w]
      <4>1. msg'[w] = id /\ log'[id].from = who[w] /\ log'[id].to = job[w].to
        BY <1>2, <1>4, <1>5, <2>1, SMT
      <4>2. u \in IF job[w].to = NoUser THEN Members \ {who[w]} ELSE {job[w].to}
        BY <4>1 DEF Recipients
      <4>3. job[w].op = "dm" <=> job[w].to # NoUser
        BY <1>1, DeliveryAssumption
      <4> QED  BY <1>5, <4>1, <4>2, <4>3
    <3> QED  BY <3>1 DEF Safe, Kept, Routing
  <2>2. CASE id # Len(log) + 1
    <3>1. id \in 1..Len(log) /\ log'[id] = log[id]
      <4>1. Len(log) \in Nat /\ Len(log') = Len(log) + 1
        BY <1>3, <1>4
      <4>2. id \in 1..Len(log)
        BY <2>2, <4>1, SMT
      <4> QED  BY <1>4, <4>2
    <3>2. Safe(id, u)
      BY <3>1 DEF LossesHaveACause, Safe, Recipients
    <3>3. CASE Routing(id, u)
      <4>1. todo[w] = {} /\ pc[w] # "enqueue"
        BY <1>5 DEF InHand
      <4> QED  BY <1>5, <1>6, <3>3, <4>1 DEF Safe, Kept, Routing
    <3>4. CASE Sending(id, u) \/ Written(id, u)
      BY <1>6, <3>4 DEF Safe, Kept, Sending, Written
    <3> QED  BY <1>6, <3>2, <3>3, <3>4 DEF Safe, Kept
  <2> QED  BY <2>1, <2>2
<1> QED  BY <1>7, <1>8, <1>9, <1>10, <1>11, <1>12, <1>13, <1>14

\* connections_of for a recipient keeps the invariant: its copy goes to be sent
\* or queued, and the sender it skips is owed none.
LEMMA LookupStep ==
  ASSUME IInv, NEW w \in Workers, Lookup(w)
  PROVE  IInv'
<1> USE DEF IInv, ioVars, dbVars, localVars
<1>1. PICK r \in todo[w] :
        /\ todo' = [todo EXCEPT ![w] = @ \ {r}]
        /\ addr' = [addr EXCEPT ![w] = r]
        /\ sends' = [sends EXCEPT ![w] = {msg[w]} \X bound[r]]
        /\ pc' = [pc EXCEPT ![w] = CASE bound[r] # {} -> "deliver"
                                     [] bound[r] = {} /\ job[w].op = "room" /\ r = who[w]
                                          -> NextCopy(w, todo[w] \ {r})
                                     [] OTHER -> "enqueue"]
  BY DEF Lookup
<1>2. pc[w] = "lookup" /\ UNCHANGED <<userOf, bound, out, dropped, gone, acked, ident, ioVars, dbVars, job,
                                      who, msg, held>>
  BY DEF Lookup
<1>3. /\ job[w] \in Requests /\ who[w] \in Users /\ msg[w] \in Ids
      /\ r \in Users /\ bound[r] \subseteq Conns
      /\ job[w].to \in Users \cup {NoUser} /\ (job[w].op = "dm" <=> job[w].to \in Users)
  BY <1>2, RequestTypes, RoutedTypes DEF TypeOK, ConnTypes, WorkerTypes, Busy
<1>4. /\ \A v \in Workers \ {w} : /\ pc'[v] = pc[v] /\ sends'[v] = sends[v]
                                  /\ addr'[v] = addr[v] /\ todo'[v] = todo[v]
      /\ addr'[w] = r /\ todo'[w] = todo[w] \ {r} /\ sends'[w] = {msg[w]} \X bound[r]
  BY <1>1 DEF TypeOK, WorkerTypes
<1>5. \/ pc'[w] = "deliver" /\ bound[r] # {}
      \/ pc'[w] = "enqueue" /\ bound[r] = {}
      \/ /\ bound[r] = {} /\ job[w].op = "room" /\ r = who[w]
         /\ \/ pc'[w] = "lookup"
            \/ pc'[w] = "ack" /\ todo'[w] = {}
  <2>1. pc'[w] = CASE bound[r] # {} -> "deliver"
                   [] bound[r] = {} /\ job[w].op = "room" /\ r = who[w] -> NextCopy(w, todo[w] \ {r})
                   [] OTHER -> "enqueue"
    BY <1>1 DEF TypeOK, WorkerTypes
  <2> QED  BY <1>4, <2>1 DEF NextCopy
<1>6. TypeOK'
  <2>1. pc' \in [Workers -> Pc]
    BY <1>1, <1>5 DEF TypeOK, WorkerTypes, Pc
  <2>2. /\ todo' \in [Workers -> SUBSET Users]
        /\ addr' \in [Workers -> Users \cup {NoUser}]
        /\ sends' \in [Workers -> SUBSET (Ids \X Conns)]
    BY <1>1, <1>3 DEF TypeOK, WorkerTypes
  <2>3. WorkerTypes'
    BY <1>2, <2>1, <2>2 DEF TypeOK, WorkerTypes
  <2> QED  BY <1>2, <2>3 DEF TypeOK, ConnTypes, IoTypes, TableTypes
<1>7. Busy'
  BY <1>2, <1>4, <1>5 DEF Busy
<1>8. InHand'
  BY <1>2, <1>4, <1>5 DEF InHand
<1>9. Routed' /\ Addressed'
  <2>1. Routed'
    BY <1>2, <1>4, <1>5, SMT DEF Routed
  <2>2. Addressed'
    <3>1. ASSUME job[w].op = "dm"
          PROVE  r = job[w].to /\ todo[w] \ {r} = {}
      BY <1>2, <3>1 DEF Addressed
    <3>2. ASSUME NEW v \in Workers, v # w
          PROVE  /\ pc'[v] = pc[v] /\ addr'[v] = addr[v] /\ todo'[v] = todo[v]
                 /\ sends'[v] = sends[v] /\ msg'[v] = msg[v] /\ job'[v] = job[v]
      BY <1>2, <1>4, <3>2
    <3>3. \A q \in sends'[w] : q[1] = msg'[w]
      BY <1>2, <1>4
    <3>4. pc'[w] \in {"deliver", "enqueue", "lookup", "ack"} /\ (pc'[w] = "lookup" => job[w].op = "room")
      BY <1>5
    <3> DEFINE At(v) ==
          /\ pc[v] \in {"resend", "deliver", "enqueue", "status", "echoing"} => addr[v] \in Users
          /\ pc[v] = "lookup" /\ job[v].op = "dm" => todo[v] \subseteq {job[v].to}
          /\ pc[v] \in {"deliver", "enqueue", "status"} /\ job[v].op = "dm" =>
               addr[v] = job[v].to /\ todo[v] = {}
          /\ pc[v] = "status" => job[v].op = "dm"
          /\ pc[v] = "deliver" => \A s \in sends[v] : s[1] = msg[v]
    <3>5. At(w)'
      <4>1. addr'[w] \in Users /\ job'[w] = job[w]
        BY <1>2, <1>3, <1>4
      <4>2. job[w].op = "dm" => addr'[w] = job[w].to /\ todo'[w] = {}
        BY <1>4, <3>1
      <4> QED  BY <3>3, <3>4, <4>1, <4>2
    <3>6. ASSUME NEW v \in Workers, v # w
          PROVE  At(v)'
      <4>1. At(v)
        BY DEF Addressed
      <4> QED  BY <3>2, <3>6, <4>1
    <3>7. \A v \in Workers : At(v)'
      BY <3>5, <3>6
    <3> QED  BY <3>7 DEF Addressed
  <2> QED  BY <2>1, <2>2
<1>10. Attached'
  BY <1>2, <1>4, <1>5 DEF Attached
<1>11. Selected'
  BY <1>2, <1>4, <1>5 DEF Selected
<1>12. StatusEarned'
  BY <1>2, <1>4, <1>5, StatusStays
<1>13. LossesHaveACause'
  <2> SUFFICES ASSUME NEW id \in 1..Len(log), NEW u \in Recipients(id)
               PROVE  Safe(id, u)'
    BY <1>2 DEF LossesHaveACause, Safe, Recipients
  <2>1. Safe(id, u) /\ u \in Users
    BY RecipientsAreUsers DEF LossesHaveACause, Safe
  <2>2. CASE Routing(id, u)
    <3>1. PICK v \in Workers : msg[v] = id /\ (u \in todo[v] \/ (pc[v] = "enqueue" /\ addr[v] = u))
      BY <2>2 DEF Routing
    <3>2. CASE v # w \/ u # r
      BY <1>2, <1>4, <3>1, <3>2 DEF Safe, Kept, Routing
    <3>3. CASE v = w /\ u = r
      <4>1. CASE bound[r] # {}
        <5>1. PICK c \in bound[r] : TRUE
          BY <4>1
        <5>2. c \in Conns /\ <<id, c>> \in sends'[w] /\ addr'[w] = u
          BY <1>3, <1>4, <3>1, <3>3, <5>1
        <5> QED  BY <5>2 DEF Safe, Kept, Sending
      <4>2. CASE pc'[w] = "enqueue"
        BY <1>2, <1>4, <3>1, <3>3, <4>2 DEF Safe, Kept, Routing
      <4>3. CASE job[w].op = "room" /\ r = who[w]
        <5>1. log[id].from = who[w] /\ log[id].to = job[w].to
          BY <1>2, <3>1, <3>3 DEF Routed
        <5>2. job[w].to = NoUser
          BY <1>3, <4>3
        <5>3. u # who[w]
          BY <5>1, <5>2 DEF Recipients
        <5> QED  BY <3>3, <4>3, <5>3
      <4> QED  BY <1>5, <4>1, <4>2, <4>3
    <3> QED  BY <3>2, <3>3
  <2>3. CASE Sending(id, u)
    <3>1. PICK v \in Workers : \/ id \in held[v] /\ who[v] = u
                               \/ addr[v] = u /\ \E c \in Conns : <<id, c>> \in sends[v]
      BY <2>3 DEF Sending
    <3>2. v # w \/ id \in held[v]
      BY <1>2, <3>1 DEF InHand
    <3>3. \/ id \in held'[v] /\ who'[v] = u
          \/ addr'[v] = u /\ \E c \in Conns : <<id, c>> \in sends'[v]
      BY <1>2, <1>4, <3>1, <3>2 DEF InHand
    <3> QED  BY <3>3 DEF Safe, Kept, Sending
  <2>4. CASE Written(id, u)
    BY <1>2, <2>4, WrittenStays DEF Safe, Kept
  <2> QED  BY <1>2, <2>1, <2>2, <2>3, <2>4 DEF Safe, Kept
<1> QED  BY <1>6, <1>7, <1>8, <1>9, <1>10, <1>11, <1>12, <1>13

\* send_frame keeps the invariant: the copy is written or dropped.
LEMMA SendOneStep ==
  ASSUME IInv, NEW w \in Workers, SendOne(w)
  PROVE  IInv'
<1> USE DEF IInv, ioVars, dbVars, localVars
<1>1. PICK s \in sends[w] :
        /\ SendFrame(w, s[1], s[2])
        /\ pc' = [pc EXCEPT ![w] =
             CASE sends[w] # {s} -> @
               [] sends[w] = {s} /\ @ = "resend" -> AfterAuth(w)
               [] sends[w] = {s} /\ @ = "deliver" /\ job[w].op = "dm" -> "status"
               [] sends[w] = {s} /\ @ = "deliver" /\ job[w].op # "dm" -> NextCopy(w, todo[w])
               [] OTHER -> "ack"]
  BY DEF SendOne
<1>2. /\ pc[w] \in {"resend", "deliver", "echoing"}
      /\ UNCHANGED <<userOf, bound, gone, acked, ident, ioVars, dbVars, job, who, msg, todo, addr, held>>
  BY DEF SendOne
<1>3. PICK m \in Ids, d \in Conns, a \in Users : s = <<m, d>> /\ a = addr[w]
  BY <1>2, SMT DEF TypeOK, WorkerTypes, Addressed
<1>4. /\ sends' = [sends EXCEPT ![w] = @ \ {s}]
      /\ \/ out' = [out EXCEPT ![d] = Append(@, <<m, a>>)] /\ dropped' = dropped
         \/ dropped' = dropped \cup {<<m, a>>} /\ out' = out
  BY <1>1, <1>3 DEF SendFrame
<1>5. /\ \A v \in Workers \ {w} : pc'[v] = pc[v] /\ sends'[v] = sends[v]
      /\ sends'[w] = sends[w] \ {s}
      /\ \/ pc'[w] = pc[w] /\ sends[w] # {s}
         \/ /\ sends'[w] = {}
            /\ \/ pc[w] = "resend" /\ pc'[w] \in {"ack", "body"}
               \/ pc[w] = "deliver" /\ job[w].op = "dm" /\ pc'[w] = "status"
               \/ pc[w] = "deliver" /\ job[w].op # "dm" /\ todo[w] = {} /\ pc'[w] = "ack"
               \/ pc[w] = "deliver" /\ job[w].op # "dm" /\ pc'[w] = "lookup"
               \/ pc[w] = "echoing" /\ pc'[w] = "ack"
  <2>1. /\ \A v \in Workers \ {w} : pc'[v] = pc[v] /\ sends'[v] = sends[v]
        /\ sends'[w] = sends[w] \ {s}
    BY <1>1, <1>4 DEF TypeOK, WorkerTypes
  <2>2. pc'[w] = CASE sends[w] # {s} -> pc[w]
                   [] sends[w] = {s} /\ pc[w] = "resend" -> AfterAuth(w)
                   [] sends[w] = {s} /\ pc[w] = "deliver" /\ job[w].op = "dm" -> "status"
                   [] sends[w] = {s} /\ pc[w] = "deliver" /\ job[w].op # "dm" -> NextCopy(w, todo[w])
                   [] OTHER -> "ack"
    BY <1>1 DEF TypeOK, WorkerTypes
  <2>3. CASE sends[w] # {s}
    BY <2>1, <2>2, <2>3
  <2>4. CASE sends[w] = {s}
    BY <1>2, <2>1, <2>2, <2>4 DEF AfterAuth, NextCopy
  <2> QED  BY <2>1, <2>3, <2>4
<1>6. Written(m, a)' \/ <<m, a>> \in dropped'
  BY <1>3, <1>4, WrittenNow
<1>7. dropped \subseteq dropped'
  BY <1>4
<1>8. TypeOK'
  <2>1. out' \in [Conns -> Seq(Ids \X Users)] /\ dropped' \subseteq Ids \X Users
    <3>1. PICK x \in Ids \X Users : x = <<m, a>>
      BY <1>3
    <3>2. out[d] \in Seq(Ids \X Users)
      BY <1>3 DEF TypeOK, ConnTypes
    <3>3. Append(out[d], x) \in Seq(Ids \X Users)
      BY <3>2, SMT
    <3>4. CASE out' = [out EXCEPT ![d] = Append(@, <<m, a>>)] /\ dropped' = dropped
      BY <3>1, <3>3, <3>4 DEF TypeOK, ConnTypes
    <3>5. CASE dropped' = dropped \cup {<<m, a>>} /\ out' = out
      BY <3>1, <3>5 DEF TypeOK, ConnTypes
    <3> QED  BY <1>4, <3>4, <3>5
  <2>2. ConnTypes'
    BY <1>2, <2>1 DEF TypeOK, ConnTypes
  <2>3. pc' \in [Workers -> Pc] /\ sends' \in [Workers -> SUBSET (Ids \X Conns)]
    BY <1>1, <1>4, <1>5, SMT DEF TypeOK, WorkerTypes, Pc
  <2>4. WorkerTypes'
    BY <1>2, <2>3 DEF TypeOK, WorkerTypes
  <2> QED  BY <1>2, <2>2, <2>4 DEF TypeOK, IoTypes, TableTypes
<1>9. Busy'
  BY <1>2, <1>5 DEF Busy
<1>10. InHand'
  BY <1>2, <1>5 DEF InHand, Addressed
<1>11. Routed' /\ Addressed'
  <2>1. Routed'
    BY <1>2, <1>5 DEF Routed
  <2>2. Addressed'
    BY <1>2, <1>5, SMT DEF Addressed
  <2> QED  BY <2>1, <2>2
<1>12. Attached'
  BY <1>2, <1>5 DEF Attached
<1>13. Selected'
  BY <1>2, <1>5 DEF Selected
<1>14. StatusEarned'
  <2>1. CASE pc'[w] # "status" \/ pc[w] = "status"
    BY <1>2, <1>3, <1>4, <1>5, <1>7, <2>1, StatusStays
  <2>2. CASE pc'[w] = "status" /\ pc[w] # "status"
    <3>1. m = msg[w]
      BY <1>3, <1>5, <2>2 DEF Addressed
    <3>2. \A id, u : Written(id, u) \/ <<id, u>> \in dropped
                       => Written(id, u)' \/ <<id, u>> \in dropped'
      BY <1>3, <1>4, <1>7, WrittenStays
    <3>3. DeliveredIsWritten' /\ delivered' \subseteq 1..Len(log')
      BY <1>2, <3>2 DEF StatusEarned, DeliveredIsWritten
    <3>4. \A v \in Workers : pc'[v] = "status" =>
            Written(msg[v], addr[v])' \/ <<msg'[v], addr'[v]>> \in dropped'
      <4> TAKE v \in Workers
      <4> HAVE pc'[v] = "status"
      <4>1. PICK n, x : n = msg[v] /\ x = addr[v]
        OBVIOUS
      <4>2. Written(n, x)' \/ <<n, x>> \in dropped'
        <5>1. CASE v = w
          BY <1>3, <1>6, <3>1, <4>1, <5>1
        <5>2. CASE v # w
          BY <1>5, <3>2, <4>1, <5>2 DEF StatusEarned
        <5> QED  BY <5>1, <5>2
      <4> QED  BY <1>2, <4>1, <4>2 DEF Written
    <3> QED  BY <3>3, <3>4 DEF StatusEarned
  <2> QED  BY <2>1, <2>2
<1>15. LossesHaveACause'
  <2>1. ASSUME NEW id \in Ids, NEW u \in Users, id \in undelivered[u] \/ Routing(id, u)
        PROVE  Safe(id, u)'
    BY <1>2, <1>5, <2>1 DEF Safe, Kept, Routing
  <2>2. ASSUME NEW id \in Ids, NEW u \in Users, Sending(id, u)
        PROVE  Safe(id, u)'
    <3>1. PICK v \in Workers : \/ id \in held[v] /\ who[v] = u
                               \/ addr[v] = u /\ \E c \in Conns : <<id, c>> \in sends[v]
      BY <2>2 DEF Sending
    <3>2. CASE id \in held[v] /\ who[v] = u
      BY <1>2, <3>2 DEF Safe, Kept, Sending
    <3>3. ASSUME NEW c \in Conns, addr[v] = u, <<id, c>> \in sends[v]
          PROVE  Safe(id, u)'
      <4>1. CASE <<id, c>> \in sends'[v]
        BY <1>2, <3>3, <4>1 DEF Safe, Kept, Sending
      <4>2. CASE <<id, c>> \notin sends'[v]
        <5>1. v = w /\ m = id /\ a = u
          <6>1. v = w /\ s = <<id, c>>
            BY <1>5, <3>3, <4>2
          <6> QED  BY <1>3, <3>3, <6>1, SMT
        <5> QED  BY <1>6, <5>1 DEF Safe, Kept
      <4> QED  BY <4>1, <4>2
    <3> QED  BY <3>1, <3>2, <3>3
  <2> QED  BY <1>2, <1>3, <1>4, <1>7, <2>1, <2>2, NothingLost
<1> QED  BY <1>8, <1>9, <1>10, <1>11, <1>12, <1>13, <1>14, <1>15

\* enqueue_undelivered keeps the invariant: the copy is queued.
LEMMA EnqueueStep ==
  ASSUME IInv, NEW w \in Workers, Enqueue(w)
  PROVE  IInv'
<1> USE DEF IInv, ioVars, dbVars, localVars
<1>1. /\ job[w] \in Requests /\ job[w].conn \in Conns /\ who[w] \in Users
      /\ msg[w] \in Ids /\ addr[w] \in Users
  BY RequestTypes, RoutedTypes DEF Busy, Addressed, Enqueue, QueueFor, NextCopy
<1>2. UNCHANGED <<bound, out, dropped, gone, ident, ioVars, log, delivered, failed, acked, localVars>>
  BY DEF Enqueue, QueueFor, NextCopy
<1>3. /\ pc[w] = "enqueue" /\ undelivered'[addr[w]] = undelivered[addr[w]] \cup {msg[w]}
      /\ \A u \in Users \ {addr[w]} : undelivered'[u] = undelivered[u]
      /\ \A v \in Workers : pc[v] = "delete" /\ who[v] = addr[w] => <<msg[w], addr[w]>> \in raced'
      /\ raced \subseteq raced' /\ (raced' # raced => \E v \in Workers : pc[v] = "delete")
      /\ \/ pc'[w] = "lookup"
         \/ todo[w] = {} /\ pc'[w] = "echo"
         \/ todo[w] = {} /\ pc'[w] = "ack"
      /\ \A v \in Workers \ {w} : pc'[v] = pc[v]
  BY <1>1 DEF TypeOK, WorkerTypes, TableTypes, Enqueue, QueueFor, NextCopy
<1>4. TypeOK'
  <2>1. WorkerTypes'
    BY <1>1, <1>2 DEF TypeOK, WorkerTypes, Pc, Enqueue, QueueFor, NextCopy
  <2>2. TableTypes'
    BY <1>1, <1>2, SMT DEF TypeOK, TableTypes, Enqueue, QueueFor
  <2> QED  BY <1>2, <2>1, <2>2 DEF TypeOK, ConnTypes, IoTypes, Enqueue, QueueFor, NextCopy
<1>5. Busy'
  BY <1>1, <1>2, <1>3 DEF Busy
<1>6. InHand'
  BY <1>1, <1>2, <1>3 DEF InHand
<1>7. Routed'
  BY <1>1, <1>2, <1>3 DEF Routed
<1>8. Addressed'
  BY <1>1, <1>2, <1>3, SMT DEF Addressed
<1>9. Attached'
  BY <1>1, <1>2, <1>3 DEF Attached
<1>10. Selected'
  BY <1>1, <1>2, <1>3 DEF Selected, Busy
<1>11. StatusEarned'
  BY <1>2, <1>3, StatusStays
<1>12. LossesHaveACause'
  <2>1. ASSUME NEW id \in Ids, NEW u \in Users, id \in undelivered[u]
        PROVE  Safe(id, u)'
    BY <1>3, <2>1 DEF Safe, Kept
  <2>2. ASSUME NEW id \in Ids, NEW u \in Users, Routing(id, u)
        PROVE  Safe(id, u)'
    BY <1>2, <1>3, <2>2 DEF Safe, Kept, Routing
  <2>3. ASSUME NEW id \in Ids, NEW u \in Users, Sending(id, u)
        PROVE  Safe(id, u)'
    BY <1>2, <1>3, <2>3 DEF Safe, Kept, Sending
  <2> QED  BY <1>2, <1>3, <2>1, <2>2, <2>3, NothingLost
<1> QED  BY <1>4, <1>5, <1>6, <1>7, <1>8, <1>9, <1>10, <1>11, <1>12

\* A failed enqueue_undelivered keeps the invariant: the loss is recorded.
LEMMA EnqueueFailsStep ==
  ASSUME IInv, NEW w \in Workers, EnqueueFails(w)
  PROVE  IInv'
<1> USE DEF IInv, ioVars, dbVars, localVars
<1>1. /\ job[w] \in Requests /\ job[w].conn \in Conns /\ who[w] \in Users
      /\ msg[w] \in Ids /\ addr[w] \in Users
  BY RequestTypes, RoutedTypes DEF Busy, Addressed, EnqueueFails, NextCopy
<1>2. UNCHANGED <<bound, out, dropped, gone, ident, ioVars, log, delivered, undelivered, raced, acked, localVars>>
  BY DEF EnqueueFails, NextCopy
<1>3. /\ pc[w] = "enqueue" /\ failed' = failed \cup {<<msg[w], addr[w]>>} /\ DbMayFail
      /\ \/ pc'[w] = "lookup"
         \/ todo[w] = {} /\ pc'[w] = "echo"
         \/ todo[w] = {} /\ pc'[w] = "ack"
      /\ \A v \in Workers \ {w} : pc'[v] = pc[v]
  BY <1>1 DEF TypeOK, WorkerTypes, TableTypes, EnqueueFails, NextCopy
<1>4. TypeOK'
  <2>1. WorkerTypes'
    BY <1>1, <1>2 DEF TypeOK, WorkerTypes, Pc, EnqueueFails, NextCopy
  <2>2. TableTypes'
    BY <1>1, <1>2, SMT DEF TypeOK, TableTypes, EnqueueFails
  <2> QED  BY <1>2, <2>1, <2>2 DEF TypeOK, ConnTypes, IoTypes, EnqueueFails, NextCopy
<1>5. Busy'
  BY <1>1, <1>2, <1>3 DEF Busy
<1>6. InHand'
  BY <1>1, <1>2, <1>3 DEF InHand
<1>7. Routed'
  BY <1>1, <1>2, <1>3 DEF Routed
<1>8. Addressed'
  BY <1>1, <1>2, <1>3 DEF Addressed
<1>9. Attached'
  BY <1>1, <1>2, <1>3 DEF Attached
<1>10. Selected'
  BY <1>1, <1>2, <1>3 DEF Selected
<1>11. StatusEarned'
  BY <1>2, <1>3, StatusStays
<1>12. LossesHaveACause'
  <2>1. ASSUME NEW id \in Ids, NEW u \in Users, id \in undelivered[u]
        PROVE  Safe(id, u)'
    BY <1>2, <2>1 DEF Safe, Kept
  <2>2. ASSUME NEW id \in Ids, NEW u \in Users, Routing(id, u)
        PROVE  Safe(id, u)'
    BY <1>2, <1>3, <2>2 DEF Safe, Kept, Routing
  <2>3. ASSUME NEW id \in Ids, NEW u \in Users, Sending(id, u)
        PROVE  Safe(id, u)'
    BY <1>2, <1>3, <2>3 DEF Safe, Kept, Sending
  <2> QED  BY <1>2, <1>3, <2>1, <2>2, <2>3, NothingLost
<1> QED  BY <1>4, <1>5, <1>6, <1>7, <1>8, <1>9, <1>10, <1>11, <1>12

\* update_message_status keeps the invariant: the status was earned.
LEMMA MarkDeliveredStep ==
  ASSUME IInv, NEW w \in Workers, MarkDelivered(w)
  PROVE  IInv'
<1> USE DEF IInv, ioVars, dbVars, localVars
<1>1. /\ job[w] \in Requests /\ job[w].conn \in Conns /\ who[w] \in Users
      /\ msg[w] \in Ids
  BY RequestTypes, RoutedTypes DEF Busy, MarkDelivered
<1>2. UNCHANGED <<bound, out, dropped, gone, ident, ioVars, log, undelivered, raced, failed, acked, localVars>>
  BY DEF MarkDelivered
<1>3. /\ pc[w] = "status" /\ pc'[w] = "echo" /\ delivered' = delivered \cup {msg[w]}
      /\ \A v \in Workers \ {w} : pc'[v] = pc[v]
  BY <1>1 DEF TypeOK, WorkerTypes, TableTypes, MarkDelivered
<1>4. TypeOK'
  <2>1. WorkerTypes'
    BY <1>1, <1>2 DEF TypeOK, WorkerTypes, Pc, MarkDelivered
  <2>2. TableTypes'
    BY <1>1, <1>2 DEF TypeOK, TableTypes, MarkDelivered
  <2> QED  BY <1>2, <2>1, <2>2 DEF TypeOK, ConnTypes, IoTypes, MarkDelivered
<1>5. Busy'
  BY <1>1, <1>2, <1>3 DEF Busy
<1>6. InHand'
  BY <1>1, <1>2, <1>3 DEF InHand
<1>7. Routed'
  BY <1>1, <1>2, <1>3 DEF Routed
<1>8. Addressed'
  BY <1>1, <1>2, <1>3 DEF Addressed
<1>9. Attached'
  BY <1>1, <1>2, <1>3 DEF Attached
<1>10. Selected'
  BY <1>1, <1>2, <1>3 DEF Selected
<1>11. StatusEarned'
  <2>1. \A v \in Workers : pc'[v] = "status" =>
          Written(msg[v], addr[v])' \/ <<msg'[v], addr'[v]>> \in dropped'
    BY <1>2, <1>3 DEF StatusEarned, Written
  <2>2. msg[w] \in 1..Len(log) /\ addr[w] = log[msg[w]].to
    BY <1>3 DEF Routed, Addressed
  <2>3. Written(msg[w], log[msg[w]].to) \/ <<msg[w], log[msg[w]].to>> \in dropped
    BY <1>3, <2>2 DEF StatusEarned
  <2>4. \A id \in delivered' : Written(id, log[id].to) \/ <<id, log[id].to>> \in dropped
    BY <1>3, <2>3 DEF StatusEarned, DeliveredIsWritten
  <2>5. DeliveredIsWritten' /\ delivered' \subseteq 1..Len(log')
    BY <1>2, <1>3, <2>2, <2>4 DEF StatusEarned, DeliveredIsWritten, Written
  <2> QED  BY <2>1, <2>5 DEF StatusEarned
<1>12. LossesHaveACause'
  <2>1. ASSUME NEW id \in Ids, NEW u \in Users, id \in undelivered[u]
        PROVE  Safe(id, u)'
    BY <1>2, <2>1 DEF Safe, Kept
  <2>2. ASSUME NEW id \in Ids, NEW u \in Users, Routing(id, u)
        PROVE  Safe(id, u)'
    BY <1>2, <1>3, <2>2 DEF Safe, Kept, Routing
  <2>3. ASSUME NEW id \in Ids, NEW u \in Users, Sending(id, u)
        PROVE  Safe(id, u)'
    BY <1>2, <1>3, <2>3 DEF Safe, Kept, Sending
  <2> QED  BY <1>2, <1>3, <2>1, <2>2, <2>3, NothingLost
<1> QED  BY <1>4, <1>5, <1>6, <1>7, <1>8, <1>9, <1>10, <1>11, <1>12

\* A failed SELECT, DELETE or UPDATE keeps the invariant: the rows stay.
LEMMA QueryFailsStep ==
  ASSUME IInv, NEW w \in Workers, QueryFails(w)
  PROVE  IInv'
<1> USE DEF IInv, ioVars, dbVars, localVars
<1>1. job[w] \in Requests /\ job[w].conn \in Conns /\ who[w] \in Users
  BY RequestTypes DEF Busy, QueryFails, AfterAuth
<1>2. UNCHANGED <<bound, out, dropped, gone, acked, ident, ioVars, dbVars, localVars>>
  BY DEF QueryFails, AfterAuth
<1>3. /\ \/ pc[w] = "drain" /\ pc'[w] \in {"ack", "body"}
         \/ pc[w] = "delete" /\ pc'[w] = "replay"
         \/ pc[w] = "status" /\ pc'[w] = "echo"
      /\ \A v \in Workers \ {w} : pc'[v] = pc[v]
  BY <1>1 DEF TypeOK, WorkerTypes, TableTypes, QueryFails, AfterAuth
<1>4. TypeOK'
  <2>1. WorkerTypes'
    BY <1>1, <1>2 DEF TypeOK, WorkerTypes, Pc, QueryFails, AfterAuth
  <2> QED  BY <1>2, <2>1 DEF TypeOK, ConnTypes, IoTypes, TableTypes, QueryFails, AfterAuth
<1>5. Busy'
  BY <1>1, <1>2, <1>3 DEF Busy
<1>6. InHand'
  BY <1>1, <1>2, <1>3 DEF InHand
<1>7. Routed'
  BY <1>1, <1>2, <1>3 DEF Routed
<1>8. Addressed'
  BY <1>1, <1>2, <1>3 DEF Addressed
<1>9. Attached'
  BY <1>1, <1>2, <1>3 DEF Attached
<1>10. Selected'
  BY <1>1, <1>2, <1>3 DEF Selected
<1>11. StatusEarned'
  BY <1>2, <1>3, StatusStays
<1>12. LossesHaveACause'
  <2>1. ASSUME NEW id \in Ids, NEW u \in Users, id \in undelivered[u]
        PROVE  Safe(id, u)'
    BY <1>2, <2>1 DEF Safe, Kept
  <2>2. ASSUME NEW id \in Ids, NEW u \in Users, Routing(id, u)
        PROVE  Safe(id, u)'
    BY <1>2, <1>3, <2>2 DEF Safe, Kept, Routing
  <2>3. ASSUME NEW id \in Ids, NEW u \in Users, Sending(id, u)
        PROVE  Safe(id, u)'
    BY <1>2, <1>3, <2>3 DEF Safe, Kept, Sending
  <2> QED  BY <1>2, <1>3, <2>1, <2>2, <2>3, NothingLost
<1> QED  BY <1>4, <1>5, <1>6, <1>7, <1>8, <1>9, <1>10, <1>11, <1>12

\* send_dm's lookup of the sender's connections keeps the invariant.
LEMMA EchoLookupStep ==
  ASSUME IInv, NEW w \in Workers, EchoLookup(w)
  PROVE  IInv'
<1> USE DEF IInv, ioVars, dbVars, localVars
<1>1. /\ job[w] \in Requests /\ job[w].conn \in Conns /\ who[w] \in Users
      /\ msg[w] \in Ids
  BY RequestTypes, RoutedTypes DEF Busy, EchoLookup
<1>2. UNCHANGED <<bound, out, dropped, gone, ident, ioVars, dbVars, acked, job, who, msg, todo, held>>
  BY DEF EchoLookup
<1>3. /\ pc[w] = "echo" /\ addr'[w] = who[w]
      /\ \/ pc'[w] = "echoing"
         \/ pc'[w] = "ack" /\ sends'[w] = {}
      /\ \A v \in Workers \ {w} : pc'[v] = pc[v] /\ addr'[v] = addr[v] /\ sends'[v] = sends[v]
  BY <1>1 DEF TypeOK, WorkerTypes, TableTypes, EchoLookup
<1>4. TypeOK'
  <2>1. WorkerTypes'
    BY <1>1, <1>2 DEF TypeOK, WorkerTypes, ConnTypes, Pc, EchoLookup
  <2> QED  BY <1>2, <2>1 DEF TypeOK, ConnTypes, IoTypes, TableTypes, EchoLookup
<1>5. Busy'
  BY <1>1, <1>2, <1>3 DEF Busy
<1>6. InHand'
  BY <1>1, <1>2, <1>3 DEF InHand
<1>7. Routed'
  BY <1>1, <1>2, <1>3 DEF Routed
<1>8. Addressed'
  BY <1>1, <1>2, <1>3, SMT DEF Addressed
<1>9. Attached'
  BY <1>1, <1>2, <1>3 DEF Attached
<1>10. Selected'
  BY <1>1, <1>2, <1>3 DEF Selected
<1>11. StatusEarned'
  BY <1>2, <1>3, StatusStays
<1>12. LossesHaveACause'
  <2>1. ASSUME NEW id \in Ids, NEW u \in Users, id \in undelivered[u]
        PROVE  Safe(id, u)'
    BY <1>2, <2>1 DEF Safe, Kept
  <2>2. ASSUME NEW id \in Ids, NEW u \in Users, Routing(id, u)
        PROVE  Safe(id, u)'
    BY <1>2, <1>3, <2>2 DEF Safe, Kept, Routing
  <2>3. ASSUME NEW id \in Ids, NEW u \in Users, Sending(id, u)
        PROVE  Safe(id, u)'
    BY <1>2, <1>3, <2>3 DEF InHand, Safe, Kept, Sending
  <2> QED  BY <1>2, <1>3, <2>1, <2>2, <2>3, NothingLost
<1> QED  BY <1>4, <1>5, <1>6, <1>7, <1>8, <1>9, <1>10, <1>11, <1>12

-----------------------------------------------------------------------------
(* The theorems *)

\* A freshly started server has nothing to lose.
LEMMA InitIInv == Init => IInv
<1> SUFFICES ASSUME Init PROVE IInv
  OBVIOUS
<1>1. TypeOK
  <2>1. ConnTypes
    BY SMT DEF Init, ConnTypes
  <2>2. IoTypes
    BY SMT DEF Init, IoTypes
  <2>3. TableTypes
    <3>1. log \in Seq(Message) /\ Len(log) <= MaxMessages
      <4>1. log = << >>
        BY DEF Init
      <4> QED  BY <4>1, DeliveryAssumption, SMT
    <3>2. undelivered \in [Users -> SUBSET Ids]
      BY DEF Init
    <3> QED  BY <3>1, <3>2 DEF Init, TableTypes
  <2>4. WorkerTypes
    BY DEF Init, WorkerTypes, Pc
  <2> QED  BY <2>1, <2>2, <2>3, <2>4 DEF TypeOK
<1>2. Busy /\ InHand /\ Routed /\ Addressed
  BY DeliveryAssumption DEF Init, Busy, InHand, Routed, Addressed
<1>3. Attached /\ Selected
  BY DEF Init, Attached, Selected
<1>4. Len(log) = 0 /\ delivered = {}
  BY DEF Init
<1>5. StatusEarned /\ LossesHaveACause
  BY <1>4, SMT DEF Init, StatusEarned, DeliveredIsWritten, LossesHaveACause
<1> QED  BY <1>1, <1>2, <1>3, <1>5 DEF IInv

\* Every step of the I/O thread and of the workers keeps the invariant.
LEMMA StepIInv == IInv /\ [Next]_vars => IInv'
<1> SUFFICES ASSUME IInv, [Next]_vars PROVE IInv'
  OBVIOUS
<1>1. CASE IoStep
  BY <1>1, AcceptStep, ReceiveStep, ScheduleCloseStep, DeliverCloseStep, OnCloseStep DEF IoStep
<1>2. ASSUME NEW w \in Workers, WorkerStep(w)
      PROVE  IInv'
  BY <1>2, TakeStep, LoginStep, RequireAuthStep, ValidateTokenStep, RefuseStep, BindStep,
     LogoutReadStep, LogoutUnbindStep, LogoutClearStep, DrainStep, DrainDeleteStep,
     ReplayLookupStep, InsertStep, LookupStep, SendOneStep, EnqueueStep, EnqueueFailsStep,
     MarkDeliveredStep, QueryFailsStep, EchoLookupStep, AckStep DEF WorkerStep
<1>3. CASE UNCHANGED vars
  <2> USE <1>3 DEF vars, IInv
  <2>1. TypeOK'
    BY DEF TypeOK, ConnTypes, IoTypes, TableTypes, WorkerTypes
  <2>2. Busy' /\ Attached'
    BY DEF Busy, Attached
  <2>3. InHand' /\ Routed' /\ Addressed' /\ Selected' /\ StatusEarned' /\ LossesHaveACause'
    BY NoSetContainsEverything, Aside
  <2> QED  BY <2>1, <2>2, <2>3
<1> QED  BY <1>1, <1>2, <1>3 DEF Next

\* The invariant holds in every behaviour of the server.
THEOREM Invariance == Spec => []IInv
BY InitIInv, StepIInv, PTL DEF Spec

\* Every variable of Delivery keeps its type, whatever frames the clients send.
THEOREM TypeCorrect == Spec => []TypeOK
<1>1. IInv => TypeOK
  BY DEF IInv
<1> QED  BY <1>1, Invariance, PTL

\* With either store, a copy of a persisted message is lost only when it was
\* dropped at a closing connection, queued between a drain's SELECT and its
\* DELETE, or when its INSERT failed.
THEOREM LossCauses == Spec => []LossesHaveACause
<1>1. IInv => LossesHaveACause
  BY DEF IInv
<1> QED  BY <1>1, Invariance, PTL

\* The in-memory store, whose drain is one locked step and never fails, loses
\* nothing that was not dropped at a closing connection.
THEOREM MemoryStoreLosesNothing ==
  ASSUME ~SplitDrain, ~DbMayFail
  PROVE  Spec => []NoMessageLost
<1>1. IInv => NoMessageLost
  BY DEF IInv, Selected, LossesHaveACause, NoMessageLost
<1> QED  BY <1>1, Invariance, PTL

\* A message marked delivered was written to a connection of its receiver, or
\* dropped at one that was closing.
THEOREM StatusIsTruthful == Spec => []DeliveredIsWritten
<1>1. IInv => DeliveredIsWritten
  BY DEF IInv, StatusEarned
<1> QED  BY <1>1, Invariance, PTL

-----------------------------------------------------------------------------
(* The inductive invariant of clients that wait for their answers *)

\* A connection has at most one frame in the pool and the handlers together.
OneAtATime ==
  /\ \A i, j \in 1..Len(jobs) : jobs[i].conn = jobs[j].conn => i = j
  /\ \A i \in 1..Len(jobs), w \in Workers : pc[w] # "idle" => jobs[i].conn # job[w].conn
  /\ \A v, w \in Workers :
       pc[v] # "idle" /\ pc[w] # "idle" /\ job[v].conn = job[w].conn => v = w

\* A connection that was closed at rest stays at rest, and on_close unbinds a
\* user the connection was authenticated as.
ClosedAtRest ==
  /\ \A c \in Conns : phase[c] = "closed" /\ c \notin busyAtClose => ~InFlight(c)
  /\ ioConn # NoConn => phase[ioConn] = "closed" /\ ioUser \in ident[ioConn]

\* A connection is bound only to users it was authenticated as; a handler binds
\* or unbinds the user that the connection has.
BoundAsKnown ==
  /\ \A c \in Conns : userOf[c] \in ident[c] \cup {NoUser}
  /\ \A c \in Conns, u \in Users : c \in bound[u] => u \in ident[c]
  /\ \A w \in Workers : pc[w] \in {"bind", "unbind"} => userOf[job[w].conn] = who[w]

\* A handler at one of these places is between set_user_id and Presence.
Unsettled(c, places) == \E w \in Workers : pc[w] \in places /\ job[w].conn = c

\* A connection that only ever was one user is bound when it is authenticated,
\* but for the steps between the two; PresenceMatchesIdentity is the part of
\* this that no handler is in the way of.
Settled ==
  \A c \in Conns, u \in Users :
    phase[c] # "closed" /\ ident[c] \subseteq {u} =>
      /\ ~Unsettled(c, {"bind", "clear"}) => (c \in bound[u] <=> userOf[c] = u)
      /\ Unsettled(c, {"clear"}) => c \notin bound[u]

PInv == OneAtATime /\ ClosedAtRest /\ BoundAsKnown /\ Settled /\ GhostsHaveCause

-----------------------------------------------------------------------------
(* The inductive invariant of the replay *)

\* Whatever is queued for a user who is online was queued late, or somebody is
\* about to drain it.
ReplayPending ==
  \A u \in Users : bound[u] # {} =>
    \A id \in undelivered[u] :
      <<id, u>> \in late \/ \E w \in Workers : who[w] = u /\ pc[w] \in {"drain", "delete"}

-----------------------------------------------------------------------------
(* Lemmas *)

LEMMA BusyConn ==
  ASSUME IInv, NEW w \in Workers, pc[w] # "idle"
  PROVE  job[w] \in Requests /\ job[w].conn \in Conns
BY RequestTypes DEF IInv, Busy

\* What is in flight after a step in which nothing is received or taken.
LEMMA FlightShrinks ==
  ASSUME jobs' = jobs, NEW c,
         \A v \in Workers : pc'[v] # "idle" => pc[v] # "idle" /\ job'[v] = job[v],
         InFlight(c)'
  PROVE  InFlight(c)
BY DEF InFlight

\* Nothing becomes in flight by a step in which nothing is received or taken.
LEMMA OneStays ==
  ASSUME OneAtATime, jobs' = jobs,
         \A v \in Workers : pc'[v] # "idle" => pc[v] # "idle" /\ job'[v] = job[v]
  PROVE  OneAtATime'
BY SMT DEF OneAtATime

\* The steps of a handler that leave Presence and the connections alone.
LEMMA Passing ==
  ASSUME IInv, PInv, NEW w \in Workers,
         UNCHANGED <<phase, userOf, bound, jobs, ioUser, ioConn, ident, busyAtClose>>,
         pc[w] \notin {"idle", "bind", "clear"},
         pc'[w] \notin {"bind", "unbind", "clear"},
         pc'[w] # "idle" => job'[w] = job[w],
         \A v \in Workers \ {w} : pc'[v] = pc[v] /\ job'[v] = job[v] /\ who'[v] = who[v]
  PROVE  PInv'
<1> USE DEF PInv
<1>1. \A v \in Workers : pc'[v] # "idle" => pc[v] # "idle" /\ job'[v] = job[v]
  OBVIOUS
<1>2. OneAtATime'
  BY <1>1, OneStays
<1>3. \A c \in Conns : InFlight(c)' => InFlight(c)
  BY <1>1, FlightShrinks
<1>4. ClosedAtRest'
  BY <1>3 DEF ClosedAtRest
<1>5. BoundAsKnown'
  BY DEF BoundAsKnown
<1>6. \A c \in Conns : /\ Unsettled(c, {"bind", "clear"})' <=> Unsettled(c, {"bind", "clear"})
                       /\ Unsettled(c, {"clear"})' <=> Unsettled(c, {"clear"})
  BY DEF Unsettled
<1>7. Settled'
  BY <1>6, SMT DEF Settled
<1>8. GhostsHaveCause'
  BY DEF GhostsHaveCause
<1> QED
  BY <1>2, <1>4, <1>5, <1>7, <1>8

\* What NextCopy and AfterAuth can be.
LEMMA Onward ==
  ASSUME NEW w
  PROVE  /\ AfterAuth(w) \in {"ack", "body"}
         /\ \A left : NextCopy(w, left) \in {"lookup", "echo", "ack"}
         /\ \A left : NextCopy(w, left) = "echo" => job[w].op = "dm"
BY SMT DEF AfterAuth, NextCopy

\* The steps of a handler that deal with messages.
LEMMA MessageSteps ==
  ASSUME IInv, PInv, NEW w \in Workers,
         \/ Refuse(w) \/ Ack(w) \/ RequireAuth(w)
         \/ Drain(w) \/ DrainDelete(w) \/ ReplayLookup(w) \/ Insert(w) \/ Lookup(w) \/ SendOne(w)
         \/ Enqueue(w) \/ EnqueueFails(w) \/ MarkDelivered(w) \/ QueryFails(w) \/ EchoLookup(w)
  PROVE  PInv'
<1> USE DEF ioVars, dbVars, localVars
<1>0. pc \in [Workers -> Pc] /\ job \in [Workers -> Requests \cup {NoJob}] /\ who \in [Workers -> Users \cup {NoUser}]
  BY DEF IInv, TypeOK, WorkerTypes
<1>1. UNCHANGED <<phase, userOf, bound, jobs, ioUser, ioConn, ident, busyAtClose>>
  BY DEF Refuse, Ack, RequireAuth, Drain, DrainAs, DrainDelete, ReplayLookup, Insert, Lookup, SendOne, Enqueue,
         QueueFor, EnqueueFails, MarkDelivered, QueryFails, EchoLookup
<1>2. CASE Refuse(w) \/ Ack(w) \/ RequireAuth(w)
  <2>1. pc[w] \in {"token", "body", "ack", "auth"}
    BY <1>2 DEF Refuse, Ack, RequireAuth
  <2>2. \E x \in {"idle", "token", "ack", "body"} : pc' = [pc EXCEPT ![w] = x]
    BY <1>2, Onward DEF Refuse, Ack, RequireAuth, GiveUp
  <2>3. \A v \in Workers \ {w} : job'[v] = job[v] /\ who'[v] = who[v]
    BY <1>0, <1>2 DEF Refuse, Ack, RequireAuth, GiveUp
  <2>4. pc'[w] # "idle" => job'[w] = job[w]
    BY <1>0, <1>2 DEF Refuse, Ack, RequireAuth, GiveUp
  <2>5. pc'[w] \in {"idle", "token", "ack", "body"} /\ \A v \in Workers \ {w} : pc'[v] = pc[v]
    BY <1>0, <2>2
  <2> QED
    BY <1>1, <2>1, <2>3, <2>4, <2>5, Passing
<1>3. CASE \/ Drain(w) \/ DrainDelete(w) \/ ReplayLookup(w) \/ Insert(w) \/ Lookup(w) \/ SendOne(w)
           \/ Enqueue(w) \/ EnqueueFails(w) \/ MarkDelivered(w) \/ QueryFails(w) \/ EchoLookup(w)
  <2>1. pc[w] \in {"drain", "delete", "replay", "body", "lookup", "resend", "deliver", "echoing",
                   "enqueue", "status", "echo"}
    BY <1>3 DEF Drain, DrainAs, DrainDelete, ReplayLookup, Insert, Lookup, SendOne, Enqueue,
                QueueFor, EnqueueFails, MarkDelivered, QueryFails, EchoLookup
  <2>2. UNCHANGED <<job, who>>
    BY <1>3 DEF Drain, DrainAs, DrainDelete, ReplayLookup, Insert, Lookup, SendOne, Enqueue,
                QueueFor, EnqueueFails, MarkDelivered, QueryFails, EchoLookup
  <2>3. \E x \in Pc \ {"bind", "unbind", "clear"} : pc' = [pc EXCEPT ![w] = x]
    <3>1. CASE Drain(w) \/ DrainDelete(w) \/ ReplayLookup(w) \/ Insert(w) \/ EchoLookup(w) \/ MarkDelivered(w)
      BY <3>1, Onward DEF Drain, DrainAs, DrainDelete, ReplayLookup, Insert, EchoLookup, MarkDelivered, Pc
    <3>2. CASE Enqueue(w) \/ EnqueueFails(w) \/ QueryFails(w)
      <4>1. PICK x \in {AfterAuth(w), NextCopy(w, todo[w]), "replay", "echo"} : pc' = [pc EXCEPT ![w] = x]
        BY <3>2 DEF Enqueue, QueueFor, EnqueueFails, QueryFails
      <4>2. x \in Pc \ {"bind", "unbind", "clear"}
        BY Onward DEF Pc
      <4> QED
        BY <4>1, <4>2
    <3>3. CASE Lookup(w)
      <4>1. PICK u \in todo[w] : pc' = [pc EXCEPT ![w] = CASE bound[u] # {} -> "deliver"
                                    [] bound[u] = {} /\ job[w].op = "room" /\ u = who[w]
                                         -> NextCopy(w, todo[w] \ {u})
                                    [] OTHER -> "enqueue"]
        BY <3>3 DEF Lookup
      <4> QED
        BY <4>1, Onward DEF Pc
    <3>4. CASE SendOne(w)
      <4>1. PICK s \in sends[w] : pc' = [pc EXCEPT ![w] =
             CASE sends[w] # {s} -> @
              [] sends[w] = {s} /\ @ = "resend" -> AfterAuth(w)
              [] sends[w] = {s} /\ @ = "deliver" /\ job[w].op = "dm" -> "status"
              [] sends[w] = {s} /\ @ = "deliver" /\ job[w].op # "dm" -> NextCopy(w, todo[w])
              [] OTHER -> "ack"]
        BY <3>4 DEF SendOne
      <4> QED
        BY <2>1, <4>1, Onward DEF Pc
    <3> QED
      BY <1>3, <3>1, <3>2, <3>3, <3>4
  <2>4. pc'[w] \notin {"bind", "unbind", "clear"} /\ \A v \in Workers \ {w} : pc'[v] = pc[v]
    BY <1>0, <2>3
  <2> QED
    BY <1>1, <2>1, <2>2, <2>4, Passing
<1> QED
  BY <1>2, <1>3

-----------------------------------------------------------------------------
(* The steps that touch Presence or the user of a connection *)

\* set_user_id by handle_login or require_auth: the connection is not settled
\* until it is bound.
LEMMA AuthenticateStep ==
  ASSUME IInv, PInv, NEW w \in Workers, Login(w) \/ ValidateToken(w)
  PROVE  PInv'
<1> USE DEF PInv, ioVars
<1>1. PICK c \in Conns, n \in Users :
        /\ c = job[w].conn
        /\ userOf' = [userOf EXCEPT ![c] = n]
        /\ ident' = [ident EXCEPT ![c] = @ \cup {n}]
        /\ who' = [who EXCEPT ![w] = n]
  <2>1. pc[w] \in {"login", "token"} /\ Authenticate(w, job[w].user)
    BY DEF Login, ValidateToken
  <2>2. job[w] \in Requests /\ job[w].conn \in Conns
    BY <2>1, BusyConn
  <2>3. job[w].user \in Users
    BY <2>1, <2>2, RequestTypes DEF Login, ValidateToken, IInv, Busy
  <2> QED
    BY <2>1, <2>2, <2>3 DEF Authenticate
<1>2. pc[w] \in {"login", "token"} /\ pc' = [pc EXCEPT ![w] = "bind"] /\ job' = job
  BY DEF Login, ValidateToken, Authenticate
<1>3. UNCHANGED <<phase, bound, jobs, ioUser, ioConn, busyAtClose>>
  BY DEF Login, ValidateToken
<1>4. /\ pc \in [Workers -> Pc] /\ who \in [Workers -> Users \cup {NoUser}]
      /\ userOf \in [Conns -> Users \cup {NoUser}] /\ ident \in [Conns -> SUBSET Users]
  BY DEF IInv, TypeOK, WorkerTypes, ConnTypes
<1>5. /\ pc'[w] = "bind" /\ who'[w] = n
      /\ \A v \in Workers \ {w} : pc'[v] = pc[v] /\ who'[v] = who[v]
  BY <1>1, <1>2, <1>4
<1>6. /\ userOf'[c] = n /\ ident'[c] = ident[c] \cup {n}
      /\ \A d \in Conns \ {c} : userOf'[d] = userOf[d] /\ ident'[d] = ident[d]
  BY <1>1, <1>4
<1>7. \A v \in Workers \ {w} : pc[v] # "idle" => job[v].conn # c
  BY <1>1, <1>2 DEF OneAtATime
<1>8. OneAtATime'
  BY <1>2, <1>3, <1>5, OneStays
<1>9. \A d \in Conns : InFlight(d)' => InFlight(d)
  BY <1>2, <1>3, <1>5, FlightShrinks
<1>10. InFlight(c)
  BY <1>1, <1>2 DEF InFlight
<1>11. ClosedAtRest'
  <2>1. ioConn # NoConn => ioConn \in Conns
    BY DEF IInv, TypeOK, IoTypes
  <2> QED
    BY <1>3, <1>6, <1>9, <2>1 DEF ClosedAtRest
<1>12. BoundAsKnown'
  <2>1. \A v \in Workers : pc'[v] \in {"bind", "unbind"} => userOf'[job'[v].conn] = who'[v]
    <3> TAKE v \in Workers
    <3>1. CASE v = w
      BY <1>1, <1>2, <1>5, <1>6, <3>1
    <3>2. CASE v # w /\ pc[v] \in {"bind", "unbind"}
      <4>1. job[v].conn \in Conns \ {c}
        BY <1>7, <3>2, BusyConn
      <4> QED
        BY <1>2, <1>5, <1>6, <3>2, <4>1 DEF BoundAsKnown
    <3> QED
      BY <1>5, <3>1, <3>2
  <2> QED
    BY <1>3, <1>6, <2>1 DEF BoundAsKnown
<1>13. /\ Unsettled(c, {"bind", "clear"})' /\ ~Unsettled(c, {"clear"})'
       /\ \A d \in Conns \ {c} :
            /\ Unsettled(d, {"bind", "clear"})' <=> Unsettled(d, {"bind", "clear"})
            /\ Unsettled(d, {"clear"})' <=> Unsettled(d, {"clear"})
  BY <1>1, <1>2, <1>5, <1>7 DEF Unsettled
<1>14. Settled'
  BY <1>3, <1>6, <1>13, SMT DEF Settled
<1>15. GhostsHaveCause'
  BY <1>3, <1>6, <1>10 DEF GhostsHaveCause, ClosedAtRest
<1> QED
  BY <1>8, <1>11, <1>12, <1>14, <1>15

\* Presence::bind: the connection is settled, as the user it has.
LEMMA BindsStep ==
  ASSUME IInv, PInv, NEW w \in Workers, Bind(w)
  PROVE  PInv'
<1> USE DEF PInv, ioVars, dbVars, localVars
<1>0. /\ pc \in [Workers -> Pc] /\ who \in [Workers -> Users \cup {NoUser}]
      /\ bound \in [Users -> SUBSET Conns]
  BY DEF IInv, TypeOK, WorkerTypes, ConnTypes
<1>1. PICK c \in Conns, n \in Users : c = job[w].conn /\ n = who[w]
  BY BusyConn DEF Bind, IInv, Busy
<1>2. pc[w] = "bind" /\ UNCHANGED <<phase, userOf, ident, jobs, job, who, ioUser, ioConn, busyAtClose>>
  BY DEF Bind
<1>3. pc'[w] \in {"drain", "ack", "body"} /\ \A v \in Workers \ {w} : pc'[v] = pc[v]
  BY <1>0, Onward DEF Bind
<1>4. bound'[n] = bound[n] \cup {c} /\ \A u \in Users \ {n} : bound'[u] = bound[u]
  BY <1>0, <1>1 DEF Bind
<1>5. userOf[c] = n /\ n \in ident[c]
  BY <1>1, <1>2, DeliveryAssumption, SMT DEF BoundAsKnown
<1>6. \A v \in Workers \ {w} : pc[v] # "idle" => job[v].conn # c
  BY <1>1, <1>2 DEF OneAtATime
<1>7. \A v \in Workers : pc'[v] # "idle" => pc[v] # "idle" /\ job'[v] = job[v]
  BY <1>2, <1>3
<1>8. OneAtATime'
  BY <1>2, <1>7, OneStays
<1>9. \A d \in Conns : InFlight(d)' => InFlight(d)
  BY <1>2, <1>7, FlightShrinks
<1>10. ClosedAtRest'
  BY <1>2, <1>9 DEF ClosedAtRest
<1>11. BoundAsKnown'
  BY <1>2, <1>3, <1>4, <1>5 DEF BoundAsKnown
<1>12. /\ ~Unsettled(c, {"clear"})'
       /\ \A d \in Conns \ {c} :
            /\ Unsettled(d, {"bind", "clear"})' <=> Unsettled(d, {"bind", "clear"})
            /\ Unsettled(d, {"clear"})' <=> Unsettled(d, {"clear"})
  BY <1>1, <1>2, <1>3, <1>6 DEF Unsettled
<1>13. Settled'
  <2>1. ASSUME NEW d \in Conns, NEW u \in Users, phase[d] # "closed", ident[d] \subseteq {u}
        PROVE  /\ ~Unsettled(d, {"bind", "clear"})' => (d \in bound'[u] <=> userOf'[d] = u)
               /\ Unsettled(d, {"clear"})' => d \notin bound'[u]
    <3>1. CASE d = c
      BY <1>2, <1>4, <1>5, <1>12, <2>1, <3>1
    <3>2. CASE d # c
      <4>1. d \in bound'[u] <=> d \in bound[u]
        BY <1>4, <3>2
      <4> QED
        BY <1>2, <1>12, <2>1, <3>2, <4>1 DEF Settled
    <3> QED
      BY <3>1, <3>2
  <2> QED
    BY <1>2, <2>1 DEF Settled
<1>14. GhostsHaveCause'
  <2>1. InFlight(c)
    BY <1>1, <1>2 DEF InFlight
  <2> QED
    BY <1>2, <1>4, <2>1 DEF GhostsHaveCause, ClosedAtRest
<1> QED
  BY <1>8, <1>10, <1>11, <1>13, <1>14

\* handle_logout reads the connection's user, unbinds it, and resets it.
LEMMA LogoutSteps ==
  ASSUME IInv, PInv, NEW w \in Workers, LogoutRead(w) \/ LogoutUnbind(w) \/ LogoutClear(w)
  PROVE  PInv'
<1> USE DEF PInv, ioVars, dbVars, localVars
<1>0. /\ pc \in [Workers -> Pc] /\ who \in [Workers -> Users \cup {NoUser}]
      /\ job \in [Workers -> Requests \cup {NoJob}]
      /\ bound \in [Users -> SUBSET Conns] /\ userOf \in [Conns -> Users \cup {NoUser}]
  BY DEF IInv, TypeOK, WorkerTypes, ConnTypes
<1>1. pc[w] \in {"logout", "unbind", "clear"}
  BY DEF LogoutRead, LogoutUnbind, LogoutClear, LogoutAs
<1>2. PICK c \in Conns : c = job[w].conn
  BY <1>1, BusyConn
<1>3. UNCHANGED <<phase, ident, jobs, ioUser, ioConn, busyAtClose>>
  BY DEF LogoutRead, LogoutUnbind, LogoutClear, LogoutAs
<1>4. /\ pc'[w] \in {"clear", "unbind", "idle"} /\ (pc'[w] # "idle" => job'[w] = job[w])
      /\ \A v \in Workers \ {w} : pc'[v] = pc[v] /\ job'[v] = job[v] /\ who'[v] = who[v]
  BY <1>0 DEF LogoutRead, LogoutUnbind, LogoutClear, LogoutAs, GiveUp
<1>5. \A v \in Workers \ {w} : pc[v] # "idle" => job[v].conn # c
  BY <1>1, <1>2 DEF OneAtATime
<1>6. \A v \in Workers : pc'[v] # "idle" => pc[v] # "idle" /\ job'[v] = job[v]
  BY <1>1, <1>4
<1>7. OneAtATime'
  BY <1>3, <1>6, OneStays
<1>8. \A d \in Conns : InFlight(d)' => InFlight(d)
  BY <1>3, <1>6, FlightShrinks
<1>9. ClosedAtRest'
  BY <1>3, <1>8 DEF ClosedAtRest
<1>10. \A d \in Conns \ {c} :
            /\ Unsettled(d, {"bind", "clear"})' <=> Unsettled(d, {"bind", "clear"})
            /\ Unsettled(d, {"clear"})' <=> Unsettled(d, {"clear"})
  BY <1>2, <1>4, <1>5, <1>6 DEF Unsettled
<1>11. \A u \in Users : /\ bound'[u] \subseteq bound[u]
                        /\ \A d \in Conns \ {c} : d \in bound'[u] <=> d \in bound[u]
  <2>1. CASE UNCHANGED bound
    BY <2>1
  <2>2. CASE LogoutUnbind(w)
    BY <1>0, <1>2, <2>2 DEF LogoutUnbind, UnbindFrom
  <2> QED
    BY <2>1, <2>2 DEF LogoutRead, LogoutClear, LogoutAs
<1>12. \A d \in Conns \ {c} : userOf'[d] = userOf[d]
  BY <1>0, <1>2 DEF LogoutRead, LogoutUnbind, LogoutClear, LogoutAs
<1>13. GhostsHaveCause'
  BY <1>3, <1>11 DEF GhostsHaveCause
<1>14. userOf'[c] \in {userOf[c], NoUser} /\ (pc'[w] = "unbind" => userOf'[c] = who'[w])
  BY <1>0, <1>2 DEF LogoutRead, LogoutUnbind, LogoutClear, LogoutAs, GiveUp
<1>15. BoundAsKnown'
  <2>1. \A v \in Workers : pc'[v] \in {"bind", "unbind"} => userOf'[job'[v].conn] = who'[v]
    <3> TAKE v \in Workers
    <3>1. CASE v = w
      BY <1>2, <1>4, <1>14, <3>1
    <3>2. CASE v # w /\ pc[v] \in {"bind", "unbind"}
      <4>1. job[v].conn \in Conns \ {c}
        BY <1>5, <3>2, BusyConn
      <4> QED
        BY <1>4, <1>12, <3>2, <4>1, SMT DEF BoundAsKnown
    <3> QED
      BY <1>4, <3>1, <3>2
  <2> QED
    BY <1>3, <1>11, <1>12, <1>14, <2>1 DEF BoundAsKnown
<1>16. ASSUME NEW u \in Users, phase[c] # "closed", ident[c] \subseteq {u}
       PROVE  /\ ~Unsettled(c, {"bind", "clear"})' => (c \in bound'[u] <=> userOf'[c] = u)
              /\ Unsettled(c, {"clear"})' => c \notin bound'[u]
  <2>1. CASE LogoutRead(w)
    <3>1. ~Unsettled(c, {"bind", "clear"})
      BY <1>2, <1>5, <2>1 DEF Unsettled, LogoutRead
    <3>2. c \in bound[u] <=> userOf[c] = u
      BY <1>16, <3>1 DEF Settled
    <3>3. bound' = bound /\ userOf' = userOf
      BY <2>1 DEF LogoutRead
    <3>4. Unsettled(c, {"clear"})' => userOf[c] = NoUser
      BY <1>0, <1>2, <1>4, <1>5, <2>1 DEF LogoutRead, Unsettled
    <3> QED
      BY <3>2, <3>3, <3>4, DeliveryAssumption
  <2>2. CASE LogoutUnbind(w)
    <3>1. who[w] = userOf[c] /\ who[w] \in Users
      BY <1>2, <2>2 DEF LogoutUnbind, BoundAsKnown, IInv, Busy
    <3>2. who[w] = u
      BY <1>16, <3>1, DeliveryAssumption, SMT DEF BoundAsKnown
    <3>3. c \notin bound'[u]
      BY <1>0, <1>2, <2>2, <3>2 DEF LogoutUnbind, UnbindFrom
    <3>4. Unsettled(c, {"bind", "clear"})'
      BY <1>0, <1>2, <2>2 DEF LogoutUnbind, Unsettled
    <3> QED
      BY <3>3, <3>4
  <2>3. CASE LogoutClear(w)
    <3>1. Unsettled(c, {"clear"})
      BY <1>2, <2>3 DEF LogoutClear, LogoutAs, Unsettled
    <3>2. c \notin bound'[u] /\ userOf'[c] = NoUser
      BY <1>0, <1>2, <1>16, <2>3, <3>1 DEF LogoutClear, LogoutAs, Settled
    <3> QED
      BY <3>2, DeliveryAssumption
  <2> QED
    BY <2>1, <2>2, <2>3
<1>17. Settled'
  <2>1. \A d \in Conns \ {c}, u \in Users :
          phase[d] # "closed" /\ ident[d] \subseteq {u} =>
            /\ ~Unsettled(d, {"bind", "clear"})' => (d \in bound'[u] <=> userOf'[d] = u)
            /\ Unsettled(d, {"clear"})' => d \notin bound'[u]
    BY <1>10, <1>11, <1>12, SMT DEF Settled
  <2> QED
    BY <1>3, <1>16, <2>1, SMT DEF Settled
<1> QED
  BY <1>7, <1>9, <1>13, <1>15, <1>17

-----------------------------------------------------------------------------
(* The pool and the I/O thread *)

\* A worker takes a frame: what was in the queue is now in its hands.
LEMMA TakesStep ==
  ASSUME IInv, PInv, NEW w \in Workers, Take(w)
  PROVE  PInv'
<1> USE DEF PInv, dbVars
<1>0. pc \in [Workers -> Pc] /\ job \in [Workers -> Requests \cup {NoJob}] /\ jobs \in Seq(Requests)
  BY DEF IInv, TypeOK, WorkerTypes, IoTypes
<1>1. jobs # << >> /\ jobs' = Tail(jobs) /\ pc[w] = "idle"
  BY DEF Take
<1>2. 1 \in 1..Len(jobs) /\ Head(jobs) = jobs[1] /\ Len(jobs') = Len(jobs) - 1
  BY <1>0, <1>1, SMT
<1>3. \A i \in 1..Len(jobs') : i + 1 \in 1..Len(jobs) /\ i + 1 # 1 /\ jobs'[i] = jobs[i + 1]
  BY <1>0, <1>1, <1>2, SMT
<1>4. /\ job'[w] = jobs[1] /\ pc'[w] \in {"login", "logout", "auth"}
      /\ \A v \in Workers \ {w} : pc'[v] = pc[v] /\ job'[v] = job[v]
  BY <1>0, <1>2 DEF Take
<1>5. UNCHANGED <<phase, userOf, bound, ident, ioUser, ioConn, busyAtClose, who>>
  BY DEF Take
<1>6. OneAtATime'
  <2>1. \A i, j \in 1..Len(jobs') : jobs'[i].conn = jobs'[j].conn => i = j
    <3> TAKE i, j \in 1..Len(jobs')
    <3>1. i \in Int /\ j \in Int /\ (i + 1 = j + 1 => i = j)
      BY <1>0, <1>2, SMT
    <3> QED
      BY <1>3, <3>1, SMT DEF OneAtATime
  <2>2. \A i \in 1..Len(jobs'), v \in Workers : pc'[v] # "idle" => jobs'[i].conn # job'[v].conn
    BY <1>2, <1>3, <1>4, SMT DEF OneAtATime
  <2>3. \A u, v \in Workers :
          pc'[u] # "idle" /\ pc'[v] # "idle" /\ job'[u].conn = job'[v].conn => u = v
    BY <1>2, <1>4, SMT DEF OneAtATime
  <2> QED
    BY <2>1, <2>2, <2>3 DEF OneAtATime
<1>7. \A d \in Conns : InFlight(d)' => InFlight(d)
  BY <1>2, <1>3, <1>4, SMT DEF InFlight
<1>8. ClosedAtRest'
  BY <1>5, <1>7 DEF ClosedAtRest
<1>9. BoundAsKnown'
  BY <1>4, <1>5 DEF BoundAsKnown
<1>10. \A d \in Conns : /\ Unsettled(d, {"bind", "clear"})' <=> Unsettled(d, {"bind", "clear"})
                        /\ Unsettled(d, {"clear"})' <=> Unsettled(d, {"clear"})
  BY <1>1, <1>4 DEF Unsettled
<1>11. Settled'
  BY <1>5, <1>10 DEF Settled
<1>12. GhostsHaveCause'
  BY <1>5 DEF GhostsHaveCause
<1> QED
  BY <1>6, <1>8, <1>9, <1>11, <1>12

\* A client sends its next frame only when the last one was answered.
LEMMA ReceivesStep ==
  ASSUME ~Pipelined, IInv, PInv, NEW r \in Requests, Receive(r)
  PROVE  PInv'
<1> USE DEF PInv, dbVars, localVars
<1>0. jobs \in Seq(Requests) /\ r.conn \in Conns
  BY RequestTypes DEF IInv, TypeOK, IoTypes
<1>1. jobs' = Append(jobs, r) /\ ~InFlight(r.conn) /\ phase[r.conn] # "closed"
  BY DEF Receive
<1>2. UNCHANGED <<phase, userOf, bound, ident, ioUser, ioConn, busyAtClose, who, pc, job>>
  BY DEF Receive
<1>3. /\ Len(jobs') = Len(jobs) + 1 /\ Len(jobs) \in Nat
      /\ \A i \in 1..Len(jobs') : (i \in 1..Len(jobs) /\ jobs'[i] = jobs[i]) \/ (i = Len(jobs') /\ jobs'[i] = r)
  BY <1>0, <1>1, SMT
<1>4. OneAtATime'
  BY <1>1, <1>2, <1>3, SMT DEF OneAtATime, InFlight
<1>5. \A d \in Conns : InFlight(d)' => InFlight(d) \/ d = r.conn
  BY <1>2, <1>3 DEF InFlight
<1>6. ClosedAtRest'
  BY <1>1, <1>2, <1>5 DEF ClosedAtRest
<1>7. BoundAsKnown'
  BY <1>2 DEF BoundAsKnown
<1>8. Settled'
  BY <1>2, SMT DEF Settled, Unsettled
<1>9. GhostsHaveCause'
  BY <1>2 DEF GhostsHaveCause
<1> QED
  BY <1>4, <1>6, <1>7, <1>8, <1>9

\* A connection is accepted, or begins to close.
LEMMA OpensStep ==
  ASSUME IInv, PInv, NEW c \in Conns, Accept(c) \/ ScheduleClose(c)
  PROVE  PInv'
<1> USE DEF PInv, dbVars, localVars
<1>1. UNCHANGED <<userOf, bound, ident, jobs, ioUser, ioConn, busyAtClose, who, pc, job>>
  BY DEF Accept, ScheduleClose
<1>2. \A d \in Conns : phase'[d] = "closed" <=> phase[d] = "closed"
  BY DEF Accept, ScheduleClose, IInv, TypeOK, ConnTypes
<1>3. OneAtATime'
  BY <1>1 DEF OneAtATime
<1>4. ClosedAtRest'
  BY <1>1, <1>2 DEF ClosedAtRest, InFlight, Accept, ScheduleClose
<1>5. BoundAsKnown'
  BY <1>1 DEF BoundAsKnown
<1>6. Settled'
  BY <1>1, <1>2, SMT DEF Settled, Unsettled
<1>7. GhostsHaveCause'
  BY <1>1, <1>2 DEF GhostsHaveCause
<1> QED
  BY <1>3, <1>4, <1>5, <1>6, <1>7

\* deliver_close: a connection at rest leaves its one user to on_close.
LEMMA ClosesStep ==
  ASSUME IInv, PInv, NEW c \in Conns, DeliverClose(c)
  PROVE  PInv'
<1> USE DEF PInv, dbVars, localVars
<1>1. UNCHANGED <<userOf, bound, ident, jobs, who, pc, job>> /\ ioConn = NoConn
  BY DEF DeliverClose, CloseFor
<1>2. phase'[c] = "closed" /\ phase[c] # "closed" /\ \A d \in Conns \ {c} : phase'[d] = phase[d]
  BY DEF DeliverClose, CloseFor, IInv, TypeOK, ConnTypes
<1>3. busyAtClose \subseteq busyAtClose' /\ (InFlight(c) => c \in busyAtClose')
  BY DEF DeliverClose, CloseFor
<1>4. ioUser' = userOf[c] /\ ioConn' = IF userOf[c] = NoUser THEN NoConn ELSE c
  BY DEF DeliverClose, CloseFor
<1>5. \A d \in Conns : InFlight(d)' <=> InFlight(d)
  BY <1>1 DEF InFlight
<1>6. OneAtATime'
  BY <1>1 DEF OneAtATime
<1>7. ClosedAtRest'
  <2>1. ioConn' # NoConn => phase'[ioConn'] = "closed" /\ ioUser' \in ident'[ioConn']
    BY <1>1, <1>2, <1>4 DEF BoundAsKnown
  <2> QED
    BY <1>2, <1>3, <1>5, <2>1 DEF ClosedAtRest
<1>8. BoundAsKnown'
  BY <1>1 DEF BoundAsKnown
<1>9. Settled'
  BY <1>1, <1>2, SMT DEF Settled, Unsettled
<1>10. GhostsHaveCause'
  <2>1. ASSUME NEW u \in Users, ident[c] = {u}, c \in bound[u], ~InFlight(c)
        PROVE  ioConn' = c
    <3>1. ~Unsettled(c, {"bind", "clear"})
      BY <2>1 DEF Unsettled, InFlight
    <3>2. userOf[c] = u
      BY <1>2, <2>1, <3>1 DEF Settled
    <3> QED
      BY <1>4, <3>2, DeliveryAssumption
  <2>2. \A d \in Conns : ioConn # d
    BY <1>1, DeliveryAssumption
  <2> QED
    BY <1>1, <1>2, <1>3, <2>1, <2>2 DEF GhostsHaveCause
<1> QED
  BY <1>6, <1>7, <1>8, <1>9, <1>10

\* on_close unbinds the user that it read.
LEMMA UnbindsStep ==
  ASSUME IInv, PInv, OnClose
  PROVE  PInv'
<1> USE DEF PInv, dbVars, localVars
<1>1. UNCHANGED <<phase, userOf, ident, jobs, busyAtClose, who, pc, job>> /\ ioConn' = NoConn
  BY DEF OnClose
<1>2. PICK c \in Conns, n \in Users : c = ioConn /\ n = ioUser
  BY DEF OnClose, IInv, TypeOK, IoTypes, Busy
<1>3. bound'[n] = bound[n] \ {c} /\ \A u \in Users \ {n} : bound'[u] = bound[u]
  BY <1>2 DEF OnClose, UnbindFrom, IInv, TypeOK, ConnTypes
<1>4. phase[c] = "closed" /\ n \in ident[c]
  BY <1>2, DeliveryAssumption DEF ClosedAtRest
<1>5. OneAtATime'
  BY <1>1 DEF OneAtATime
<1>6. ClosedAtRest'
  BY <1>1 DEF ClosedAtRest, InFlight
<1>7. BoundAsKnown'
  BY <1>1, <1>3 DEF BoundAsKnown
<1>8. Settled'
  BY <1>1, <1>3, <1>4, SMT DEF Settled, Unsettled
<1>9. GhostsHaveCause'
  BY <1>1, <1>2, <1>3, <1>4, SMT DEF GhostsHaveCause
<1> QED
  BY <1>5, <1>6, <1>7, <1>8, <1>9

-----------------------------------------------------------------------------
(* The theorems *)

LEMMA InitPInv == Init => PInv
<1> SUFFICES ASSUME Init PROVE PInv
  OBVIOUS
<1>1. Len(jobs) = 0
  BY DEF Init
<1>2. OneAtATime
  BY <1>1, SMT DEF Init, OneAtATime
<1>3. ClosedAtRest /\ GhostsHaveCause /\ BoundAsKnown
  BY DEF Init, ClosedAtRest, GhostsHaveCause, BoundAsKnown
<1>4. Settled
  BY DeliveryAssumption DEF Init, Settled, Unsettled
<1> QED
  BY <1>2, <1>3, <1>4 DEF PInv

LEMMA StepPInv ==
  ASSUME ~Pipelined
  PROVE  IInv /\ PInv /\ [Next]_vars => PInv'
<1> SUFFICES ASSUME IInv, PInv, [Next]_vars PROVE PInv'
  OBVIOUS
<1>1. CASE IoStep
  BY <1>1, OpensStep, ReceivesStep, ClosesStep, UnbindsStep DEF IoStep
<1>2. ASSUME NEW w \in Workers, WorkerStep(w)
      PROVE  PInv'
  BY <1>2, TakesStep, AuthenticateStep, BindsStep, LogoutSteps, MessageSteps DEF WorkerStep
<1>3. CASE UNCHANGED vars
  <2> USE <1>3 DEF vars, PInv, InFlight, Unsettled
  <2>1. OneAtATime' /\ ClosedAtRest'
    BY SMT DEF OneAtATime, ClosedAtRest
  <2>2. BoundAsKnown' /\ Settled'
    BY SMT DEF BoundAsKnown, Settled
  <2>3. GhostsHaveCause'
    BY DEF GhostsHaveCause
  <2> QED
    BY <2>1, <2>2, <2>3
<1> QED
  BY <1>1, <1>2, <1>3 DEF Next

LEMMA PresenceInvariance ==
  ASSUME ~Pipelined
  PROVE  Spec => []PInv
BY Invariance, InitPInv, StepPInv, PTL DEF Spec

\* When clients wait for their answers, a connection that only ever was one user
\* is bound exactly when it is authenticated (handle_login, require_auth,
\* handle_logout and Presence).
THEOREM PresenceIsIdentity ==
  ASSUME ~Pipelined
  PROVE  Spec => []PresenceMatchesIdentity
<1>1. PInv => PresenceMatchesIdentity
  BY SMT DEF PInv, Settled, Unsettled, InFlight, PresenceMatchesIdentity
<1> QED
  BY <1>1, PresenceInvariance, PTL

\* When clients wait for their answers, on_close leaves a binding behind only for
\* a connection that closed with a request in flight, or that was several users.
THEOREM OnlyCausedGhosts ==
  ASSUME ~Pipelined
  PROVE  Spec => []GhostsHaveCause
<1>1. PInv => GhostsHaveCause
  BY DEF PInv
<1> QED
  BY <1>1, PresenceInvariance, PTL

-----------------------------------------------------------------------------
(* The replay *)

\* A step that queues nothing, binds nobody and draws no worker away from a
\* drain keeps what is said of the replay.
LEMMA ReplayKept ==
  ASSUME ReplayPending, late \subseteq late',
         \A u \in Users : undelivered'[u] \subseteq undelivered[u] /\ (bound'[u] # {} => bound[u] # {}),
         \A w \in Workers : pc[w] \in {"drain", "delete"} => pc'[w] = pc[w] /\ who'[w] = who[w]
  PROVE  ReplayPending'
<1> SUFFICES ASSUME NEW u \in Users, bound'[u] # {}, NEW id \in undelivered'[u], <<id, u>> \notin late'
             PROVE  \E w \in Workers : who'[w] = u /\ pc'[w] \in {"drain", "delete"}
  BY DEF ReplayPending
<1>1. PICK w \in Workers : who[w] = u /\ pc[w] \in {"drain", "delete"}
  BY DEF ReplayPending
<1> QED
  BY <1>1

\* Going online starts a drain; a drain, once begun, ends with the rows gone; and
\* what is queued for a user who is online is late.
LEMMA ReplayStep ==
  ASSUME ~DbMayFail, IInv, ReplayPending, [Next]_vars
  PROVE  ReplayPending'
<1> USE DEF ioVars, dbVars, localVars
<1>0. /\ pc \in [Workers -> Pc] /\ who \in [Workers -> Users \cup {NoUser}]
      /\ bound \in [Users -> SUBSET Conns] /\ undelivered \in [Users -> SUBSET Ids]
  BY DEF IInv, TypeOK, WorkerTypes, ConnTypes, TableTypes
<1>1. CASE UNCHANGED <<late, undelivered, bound, pc, who>>
  BY <1>1 DEF ReplayPending
<1>2. CASE OnClose
  <2>1. UNCHANGED <<late, undelivered, pc, who>> /\ ioUser \in Users
    BY <1>2 DEF OnClose, IInv, Busy
  <2>2. \A u \in Users : bound'[u] \subseteq bound[u]
    BY <1>0, <1>2, <2>1 DEF OnClose, UnbindFrom
  <2> QED
    BY <2>1, <2>2, ReplayKept
<1>3. ASSUME NEW w \in Workers, LogoutUnbind(w)
      PROVE  ReplayPending'
  <2>1. UNCHANGED <<late, undelivered, who>> /\ who[w] \in Users
    BY <1>3 DEF LogoutUnbind, IInv, Busy
  <2>2. \A u \in Users : bound'[u] \subseteq bound[u]
    BY <1>0, <1>3, <2>1 DEF LogoutUnbind, UnbindFrom
  <2>3. \A v \in Workers : pc[v] \in {"drain", "delete"} => pc'[v] = pc[v]
    BY <1>0, <1>3 DEF LogoutUnbind
  <2> QED
    BY <2>1, <2>2, <2>3, ReplayKept
<1>4. ASSUME NEW w \in Workers, Bind(w)
      PROVE  ReplayPending'
  <2>1. PICK n \in Users : n = who[w]
    BY <1>4 DEF Bind, IInv, Busy
  <2>2. UNCHANGED <<late, undelivered, who>> /\ \A u \in Users \ {n} : bound'[u] = bound[u]
    BY <1>0, <1>4, <2>1 DEF Bind
  <2>3. \A v \in Workers : pc[v] \in {"drain", "delete"} => pc'[v] = pc[v]
    BY <1>0, <1>4 DEF Bind
  <2>4. CASE bound[n] = {}
    <3>1. pc'[w] = "drain"
      BY <1>0, <1>4, <2>1, <2>4 DEF Bind
    <3> QED
      BY <2>1, <2>2, <2>3, <3>1, SMT DEF ReplayPending
  <2>5. CASE bound[n] # {}
    BY <2>2, <2>3, <2>5, ReplayKept
  <2> QED
    BY <2>4, <2>5
<1>5. ASSUME NEW w \in Workers, Drain(w) \/ DrainDelete(w)
      PROVE  ReplayPending'
  <2>1. PICK n \in Users : n = who[w]
    BY <1>5 DEF Drain, DrainAs, DrainDelete, IInv, Busy
  <2>2. UNCHANGED <<late, bound, who>> /\ \A v \in Workers \ {w} : pc'[v] = pc[v]
    BY <1>0, <1>5 DEF Drain, DrainAs, DrainDelete
  <2>3. \A u \in Users \ {n} : undelivered'[u] = undelivered[u]
    BY <1>0, <1>5, <2>1 DEF Drain, DrainAs, DrainDelete
  <2>4. undelivered'[n] = {} \/ pc'[w] = "delete"
    BY <1>0, <1>5, <2>1 DEF Drain, DrainAs, DrainDelete
  <2> QED
    BY <2>1, <2>2, <2>3, <2>4, SMT DEF ReplayPending
<1>6. ASSUME NEW w \in Workers, Enqueue(w)
      PROVE  ReplayPending'
  <2>1. PICK n \in Users : n = addr[w]
    BY <1>6 DEF Enqueue, QueueFor, IInv, Addressed
  <2>2. UNCHANGED <<bound, who>> /\ late \subseteq late'
    BY <1>6 DEF Enqueue, QueueFor
  <2>3. \A v \in Workers : pc[v] \in {"drain", "delete"} => pc'[v] = pc[v]
    BY <1>0, <1>6 DEF Enqueue, QueueFor
  <2>4. undelivered'[n] = undelivered[n] \cup {msg[w]} /\ \A u \in Users \ {n} : undelivered'[u] = undelivered[u]
    BY <1>0, <1>6, <2>1 DEF Enqueue, QueueFor
  <2>5. bound[n] # {} => <<msg[w], n>> \in late'
    BY <1>6, <2>1 DEF Enqueue, QueueFor
  <2> QED
    BY <2>2, <2>3, <2>4, <2>5, SMT DEF ReplayPending
<1>7. ASSUME NEW w \in Workers, pc[w] \notin {"drain", "delete"},
             UNCHANGED <<late, undelivered, bound>>,
             \A v \in Workers \ {w} : pc'[v] = pc[v] /\ who'[v] = who[v]
      PROVE  ReplayPending'
  BY <1>7, ReplayKept
<1>8. ASSUME NEW w \in Workers,
             \/ Take(w) \/ Login(w) \/ RequireAuth(w) \/ ValidateToken(w) \/ Refuse(w)
             \/ LogoutRead(w) \/ LogoutClear(w) \/ Ack(w)
      PROVE  ReplayPending'
  <2>1. pc[w] \notin {"drain", "delete"} /\ UNCHANGED <<late, undelivered, bound>>
    BY <1>8 DEF Take, Login, RequireAuth, ValidateToken, Refuse, LogoutRead, LogoutClear, LogoutAs, Ack
  <2>2. \A v \in Workers \ {w} : pc'[v] = pc[v] /\ who'[v] = who[v]
    <3>1. \E x : pc' = [pc EXCEPT ![w] = x]
      BY <1>8 DEF Take, Login, RequireAuth, ValidateToken, Refuse, LogoutRead, LogoutClear, LogoutAs,
                  Ack, Authenticate, GiveUp
    <3>2. who' = who \/ \E x : who' = [who EXCEPT ![w] = x]
      BY <1>8 DEF Take, Login, RequireAuth, ValidateToken, Refuse, LogoutRead, LogoutClear, LogoutAs,
                  Ack, Authenticate, GiveUp
    <3> QED
      BY <1>0, <3>1, <3>2
  <2> QED
    BY <1>7, <2>1, <2>2
<1>9. ASSUME NEW w \in Workers,
             \/ ReplayLookup(w) \/ Insert(w) \/ Lookup(w) \/ SendOne(w) \/ EnqueueFails(w)
             \/ MarkDelivered(w) \/ EchoLookup(w)
      PROVE  ReplayPending'
  <2>1. pc[w] \notin {"drain", "delete"} /\ UNCHANGED <<late, undelivered, bound, who>>
    BY <1>9 DEF ReplayLookup, Insert, Lookup, SendOne, EnqueueFails, MarkDelivered, EchoLookup
  <2>2. \E x : pc' = [pc EXCEPT ![w] = x]
    BY <1>9 DEF ReplayLookup, Insert, Lookup, SendOne, EnqueueFails, MarkDelivered, EchoLookup
  <2>3. \A v \in Workers \ {w} : pc'[v] = pc[v]
    BY <1>0, <2>2
  <2> QED
    BY <1>7, <2>1, <2>3
<1> QED
  BY <1>1, <1>2, <1>3, <1>4, <1>5, <1>6, <1>8, <1>9
  DEF Next, IoStep, WorkerStep, Accept, ScheduleClose, DeliverClose, CloseFor, Receive, QueryFails, vars

\* With a store that does not fail, what stays queued for a user who is online
\* was queued by a sender who had looked the user up before the login; this
\* holds also when the drain is a SELECT and a DELETE (replay_offline, send_dm).
THEOREM OnlyLateIsQueued ==
  ASSUME ~DbMayFail
  PROVE  Spec => []QueuedWasLate
<1>1. Init => ReplayPending
  BY DEF Init, ReplayPending
<1>2. IInv /\ ReplayPending /\ [Next]_vars => ReplayPending'
  BY ReplayStep
<1>3. ReplayPending => QueuedWasLate
  BY DEF ReplayPending, QueuedWasLate, Quiet
<1> QED
  BY <1>1, <1>2, <1>3, Invariance, PTL DEF Spec

-----------------------------------------------------------------------------
(* Where the copy of message id for user u can be *)

\* Worker w routes the message and has yet to look u up, to queue the copy, or to
\* echo it to u, its sender.
Pending(w, id, u) ==
  /\ msg[w] = id
  /\ \/ u \in todo[w]
     \/ pc[w] = "enqueue" /\ addr[w] = u
     \/ /\ pc[w] \in {"lookup", "deliver", "enqueue", "status", "echo"}
        /\ job[w].op = "dm"
        /\ who[w] = u

\* It was drained by w.
Drained(w, id, u) == id \in held[w] /\ who[w] = u

\* w is to write it to connection c.
Sent(w, id, u, c) == addr[w] = u /\ <<id, c>> \in sends[w]

\* It was written to c.
OnWire(c, id, u) == \E i \in 1..Len(out[c]) : out[c][i] = <<id, u>>

\* The message is not one of a user to itself.
Ordinary(id) == log[id].from # log[id].to

-----------------------------------------------------------------------------
(* The inductive invariant *)

\* Every id in hand is that of a row, and a row is routed by one worker.
IdsOfRows ==
  /\ \A u \in Users : undelivered[u] \subseteq 1..Len(log)
  /\ \A w \in Workers : /\ msg[w] \in 0..Len(log)
                        /\ held[w] \subseteq 1..Len(log)
                        /\ \A s \in sends[w] : s[1] \in 1..Len(log)
  /\ \A c \in Conns : \A i \in 1..Len(out[c]) : out[c][i][1] \in 1..Len(log)
  /\ \A v, w \in Workers : msg[v] = msg[w] /\ msg[w] # 0 => v = w

\* A recipient that was looked up is not looked up again, and only direct
\* messages are echoed.
LookedUp ==
  \A w \in Workers :
    /\ pc[w] \in {"deliver", "enqueue"} => addr[w] \notin todo[w]
    /\ pc[w] = "echo" => job[w].op = "dm"

\* A copy is in one place at a time, and is written to a connection only where
\* it was not written before.
OnePlace(id, u) ==
  /\ \A w \in Workers : Pending(w, id, u) =>
       /\ id \notin undelivered[u]
       /\ \A v \in Workers : ~Drained(v, id, u)
       /\ \A v \in Workers, c \in Conns : ~Sent(v, id, u, c)
       /\ \A c \in Conns : ~OnWire(c, id, u)
  /\ id \in undelivered[u] =>
       /\ \A v \in Workers : ~Drained(v, id, u)
       /\ \A v \in Workers, c \in Conns : ~Sent(v, id, u, c)
       /\ \A c \in Conns : ~OnWire(c, id, u)
  /\ \A w \in Workers : Drained(w, id, u) =>
       /\ \A v \in Workers : Drained(v, id, u) => v = w
       /\ \A v \in Workers, c \in Conns : ~Sent(v, id, u, c)
       /\ \A c \in Conns : ~OnWire(c, id, u)
  /\ \A w \in Workers, c \in Conns : Sent(w, id, u, c) =>
       /\ \A v \in Workers, d \in Conns : Sent(v, id, u, d) => v = w
       /\ ~OnWire(c, id, u)

CInv ==
  /\ IdsOfRows
  /\ LookedUp
  /\ \A id \in 1..Len(log), u \in Users : Ordinary(id) => OnePlace(id, u)
  /\ WrittenOnce

-----------------------------------------------------------------------------
(* Steps that move no copy forward *)

\* A copy that is where it was, or nowhere, is in one place.
LEMMA StaysInPlace ==
  ASSUME NEW id, NEW u, OnePlace(id, u),
         \A v \in Workers : Pending(v, id, u)' => Pending(v, id, u),
         \A v \in Workers : Drained(v, id, u)' => Drained(v, id, u),
         \A v \in Workers, c \in Conns : Sent(v, id, u, c)' => Sent(v, id, u, c),
         \A c \in Conns : OnWire(c, id, u)' => OnWire(c, id, u),
         id \in undelivered'[u] => id \in undelivered[u]
  PROVE  OnePlace(id, u)'
  BY DEF OnePlace

\* A step that writes nothing and after which every copy is where it was, or is
\* nowhere, keeps the invariant.
LEMMA CopiesKept ==
  ASSUME CInv, log' = log, out' = out, LookedUp',
         \A u \in Users : undelivered'[u] \subseteq undelivered[u],
         \A v \in Workers : /\ held'[v] \subseteq held[v]
                            /\ sends'[v] \subseteq sends[v]
                            /\ msg'[v] \in {msg[v], 0},
         \A v \in Workers, u \in Users, id \in 1..Len(log) :
           /\ Ordinary(id) /\ Pending(v, id, u)' => Pending(v, id, u)
           /\ Drained(v, id, u)' => Drained(v, id, u)
           /\ \A c \in Conns : Sent(v, id, u, c)' => Sent(v, id, u, c)
  PROVE  CInv'
<1>1. IdsOfRows'
  <2>1. \A v, w \in Workers : msg'[v] = msg'[w] /\ msg'[w] # 0 => v = w
    BY DEF CInv, IdsOfRows
  <2>2. \A v \in Workers : msg'[v] \in 0..Len(log)
    <3> TAKE v \in Workers
    <3>1. msg[v] \in 0..Len(log)
      BY DEF CInv, IdsOfRows
    <3> QED
      BY <3>1, SMT
  <2> QED
    BY <2>1, <2>2 DEF CInv, IdsOfRows
<1>2. \A id, c, u : OnWire(c, id, u)' <=> OnWire(c, id, u)
  BY DEF OnWire
<1>3. ASSUME NEW id \in 1..Len(log), NEW u \in Users, Ordinary(id)
      PROVE  OnePlace(id, u)'
  <2>1. OnePlace(id, u)
    BY <1>3 DEF CInv
  <2>2. \A v \in Workers : /\ Pending(v, id, u)' => Pending(v, id, u)
                           /\ Drained(v, id, u)' => Drained(v, id, u)
                           /\ \A c \in Conns : Sent(v, id, u, c)' => Sent(v, id, u, c)
    BY <1>3
  <2>3. id \in undelivered'[u] => id \in undelivered[u]
    OBVIOUS
  <2> QED
    BY <1>2, <2>1, <2>2, <2>3 DEF OnePlace
<1>4. WrittenOnce'
  BY DEF CInv, WrittenOnce
<1> QED
  BY <1>1, <1>3, <1>4 DEF CInv, Ordinary

\* So does a step of the I/O thread, or of a worker with no message in hand.
LEMMA CopiesAside ==
  ASSUME IInv, CInv, NEW w,
         UNCHANGED <<log, out, undelivered, todo, held, sends>>,
         w \in Workers => /\ pc[w] \notin MessagePc /\ pc'[w] \notin MessagePc
                          /\ msg'[w] \in {msg[w], 0},
         \A v \in Workers \ {w} : /\ pc'[v] = pc[v] /\ job'[v] = job[v] /\ who'[v] = who[v]
                                  /\ msg'[v] = msg[v] /\ addr'[v] = addr[v]
  PROVE  CInv'
<1>1. w \in Workers => todo[w] = {} /\ held[w] = {} /\ sends[w] = {}
  BY DEF IInv, InHand, MessagePc
<1>2. LookedUp'
  BY DEF CInv, LookedUp, MessagePc
<1>3. ASSUME NEW v \in Workers, NEW u \in Users, NEW id \in 1..Len(log)
      PROVE  /\ Pending(v, id, u)' => Pending(v, id, u)
             /\ Drained(v, id, u)' => Drained(v, id, u)
             /\ \A c \in Conns : Sent(v, id, u, c)' => Sent(v, id, u, c)
  <2>1. CASE v = w
    BY <1>1, <2>1 DEF Pending, Drained, Sent, MessagePc
  <2>2. CASE v # w
    BY <2>2 DEF Pending, Drained, Sent
  <2> QED
    BY <2>1, <2>2
<1>4. \A v \in Workers : msg'[v] \in {msg[v], 0}
  OBVIOUS
<1> QED
  BY <1>2, <1>3, <1>4, CopiesKept

\* A direct message that is not to its own sender goes to another user.
LEMMA NotToSelf ==
  ASSUME IInv, NEW w \in Workers, Ordinary(msg[w]), job[w].op = "dm",
         pc[w] \in {"lookup", "deliver", "enqueue", "status", "echo"}
  PROVE  /\ job[w].to # who[w]
         /\ pc[w] = "lookup" => \A u \in todo[w] : u # who[w]
         /\ pc[w] \in {"deliver", "enqueue"} => addr[w] # who[w]
BY SMT DEF IInv, Routed, Addressed, Ordinary

\* Requests that touch no message: dispatch, authentication, the end of a handler.
LEMMA OtherSteps ==
  ASSUME IInv, CInv, NEW w \in Workers,
         \/ Take(w) \/ Login(w) \/ RequireAuth(w) \/ ValidateToken(w) \/ Refuse(w) \/ Bind(w)
         \/ LogoutRead(w) \/ LogoutUnbind(w) \/ LogoutClear(w) \/ Ack(w)
  PROVE  CInv'
<1> USE DEF ioVars, dbVars, localVars
<1>0. /\ pc \in [Workers -> Pc] /\ who \in [Workers -> Users \cup {NoUser}]
      /\ job \in [Workers -> Requests \cup {NoJob}]
      /\ msg \in [Workers -> Ids \cup {0}] /\ addr \in [Workers -> Users \cup {NoUser}]
  BY DEF IInv, TypeOK, WorkerTypes
<1>1. UNCHANGED <<log, out, undelivered, todo, held, sends>>
  BY DEF Take, Login, RequireAuth, ValidateToken, Refuse, Bind, LogoutRead, LogoutUnbind,
         LogoutClear, LogoutAs, Ack
<1>2. pc[w] \notin MessagePc
  BY DEF Take, Login, RequireAuth, ValidateToken, Refuse, Bind, LogoutRead, LogoutUnbind,
         LogoutClear, LogoutAs, Ack, MessagePc
<1>3. /\ pc'[w] \notin MessagePc
      /\ \A v \in Workers \ {w} : pc'[v] = pc[v] /\ job'[v] = job[v] /\ who'[v] = who[v]
  <2>1. PICK x : /\ pc' = [pc EXCEPT ![w] = x]
                 /\ x \in {"login", "logout", "auth", "token", "bind", "drain", "unbind", "clear", "idle",
                           AfterAuth(w)}
    BY DEF Take, Login, RequireAuth, ValidateToken, Refuse, Bind, LogoutRead, LogoutUnbind,
           LogoutClear, LogoutAs, Ack, Authenticate, GiveUp
  <2>2. x \notin MessagePc
    BY <2>1, Onward DEF MessagePc
  <2>3. job' = job \/ \E j : job' = [job EXCEPT ![w] = j]
    BY DEF Take, Login, RequireAuth, ValidateToken, Refuse, Bind, LogoutRead, LogoutUnbind,
           LogoutClear, LogoutAs, Ack, Authenticate, GiveUp
  <2>4. who' = who \/ \E u : who' = [who EXCEPT ![w] = u]
    BY DEF Take, Login, RequireAuth, ValidateToken, Refuse, Bind, LogoutRead, LogoutUnbind,
           LogoutClear, LogoutAs, Ack, Authenticate, GiveUp
  <2> QED
    BY <1>0, <2>1, <2>2, <2>3, <2>4
<1>4. /\ msg'[w] \in {msg[w], 0}
      /\ \A v \in Workers \ {w} : msg'[v] = msg[v] /\ addr'[v] = addr[v]
  BY <1>0
  DEF Take, Login, RequireAuth, ValidateToken, Refuse, Bind, LogoutRead, LogoutUnbind,
      LogoutClear, LogoutAs, Ack
<1> QED
  BY <1>1, <1>2, <1>3, <1>4, CopiesAside

\* The I/O thread.
LEMMA IoSteps ==
  ASSUME IInv, CInv, IoStep
  PROVE  CInv'
<1>1. UNCHANGED <<log, out, undelivered, todo, held, sends, pc, job, who, msg, addr>>
  BY DEF IoStep, Accept, ScheduleClose, DeliverClose, CloseFor, Receive, OnClose, dbVars, localVars
<1> QED
  BY <1>1, NoSetContainsEverything, CopiesAside

\* The status of a message is set, or a query fails.
LEMMA StatusSteps ==
  ASSUME ~SplitDrain, IInv, CInv, NEW w \in Workers,
         EnqueueFails(w) \/ MarkDelivered(w) \/ QueryFails(w) \/ DrainDelete(w)
  PROVE  CInv'
<1> USE DEF ioVars, dbVars, localVars
<1>0. pc \in [Workers -> Pc]
  BY DEF IInv, TypeOK, WorkerTypes
<1>1. pc[w] # "delete"
  BY DEF IInv, Selected
<1>2. UNCHANGED <<log, out, undelivered, todo, held, sends, job, who, msg, addr>>
  BY <1>1 DEF EnqueueFails, MarkDelivered, QueryFails, DrainDelete
<1>3. CASE pc[w] = "drain"
  <2>1. pc'[w] \in {"ack", "body"} /\ \A v \in Workers \ {w} : pc'[v] = pc[v]
    BY <1>0, <1>3, Onward DEF EnqueueFails, MarkDelivered, QueryFails, DrainDelete
  <2> QED
    BY <1>2, <1>3, <2>1, CopiesAside DEF MessagePc
<1>4. CASE pc[w] \in {"status", "enqueue"}
  <2>1. /\ pc'[w] \in {"lookup", "echo", "ack"} /\ (pc'[w] = "echo" => job[w].op = "dm")
        /\ \A v \in Workers \ {w} : pc'[v] = pc[v]
    <3>1. pc[w] = "status" => job[w].op = "dm"
      BY DEF IInv, Addressed
    <3>2. \/ pc' = [pc EXCEPT ![w] = "echo"] /\ pc[w] = "status"
          \/ pc' = [pc EXCEPT ![w] = NextCopy(w, todo[w])]
      BY <1>4 DEF EnqueueFails, MarkDelivered, QueryFails, DrainDelete
    <3>3. CASE pc' = [pc EXCEPT ![w] = "echo"] /\ pc[w] = "status"
      BY <1>0, <3>1, <3>3
    <3>4. CASE pc' = [pc EXCEPT ![w] = NextCopy(w, todo[w])]
      BY <1>0, <3>4, Onward
    <3> QED
      BY <3>2, <3>3, <3>4
  <2>2. LookedUp'
    BY <1>2, <2>1 DEF CInv, LookedUp
  <2>3. ASSUME NEW v \in Workers, NEW u \in Users, NEW id \in 1..Len(log)
        PROVE  /\ Pending(v, id, u)' => Pending(v, id, u)
               /\ Drained(v, id, u)' => Drained(v, id, u)
               /\ \A c \in Conns : Sent(v, id, u, c)' => Sent(v, id, u, c)
    BY <1>2, <1>4, <2>1 DEF Pending, Drained, Sent
  <2> QED
    BY <1>2, <2>2, <2>3, CopiesKept
<1> QED
  BY <1>1, <1>3, <1>4 DEF EnqueueFails, MarkDelivered, QueryFails, DrainDelete

-----------------------------------------------------------------------------
(* Steps that move a copy *)

\* A step that writes nothing has to keep the copies in one place only.
LEMMA NothingWritten ==
  ASSUME CInv, log' = log, out' = out, msg' = msg, LookedUp',
         \A u \in Users : undelivered'[u] \subseteq 1..Len(log),
         \A v \in Workers : held'[v] \subseteq 1..Len(log) /\ \A s \in sends'[v] : s[1] \in 1..Len(log),
         \A id \in 1..Len(log), u \in Users : Ordinary(id) => OnePlace(id, u)'
  PROVE  CInv'
<1>1. IdsOfRows'
  BY DEF CInv, IdsOfRows
<1>2. WrittenOnce'
  BY DEF CInv, WrittenOnce
<1> QED
  BY <1>1, <1>2 DEF CInv, Ordinary

\* The drain takes the user's whole queue.
LEMMA DrainMoves ==
  ASSUME ~SplitDrain, IInv, CInv, NEW w \in Workers, Drain(w)
  PROVE  CInv'
<1> USE DEF ioVars
<1>0. /\ pc \in [Workers -> Pc] /\ held \in [Workers -> SUBSET Ids]
      /\ undelivered \in [Users -> SUBSET Ids]
  BY DEF IInv, TypeOK, WorkerTypes, TableTypes
<1>1. PICK n \in Users : n = who[w]
  BY DEF Drain, DrainAs, IInv, Busy
<1>2. UNCHANGED <<log, out, todo, sends, job, who, msg, addr>> /\ pc[w] = "drain"
  BY DEF Drain, DrainAs
<1>3. pc'[w] = "replay" /\ \A v \in Workers \ {w} : pc'[v] = pc[v]
  BY <1>0 DEF Drain, DrainAs
<1>4. held'[w] = undelivered[n] /\ \A v \in Workers \ {w} : held'[v] = held[v]
  BY <1>0, <1>1 DEF Drain, DrainAs
<1>5. undelivered'[n] = {} /\ \A u \in Users \ {n} : undelivered'[u] = undelivered[u]
  BY <1>0, <1>1 DEF Drain, DrainAs
<1>6. LookedUp'
  BY <1>2, <1>3 DEF CInv, LookedUp
<1>7. ASSUME NEW id \in 1..Len(log), NEW u \in Users, Ordinary(id)
      PROVE  OnePlace(id, u)'
  <2>1. OnePlace(id, u)
    BY <1>7 DEF CInv
  <2>2. \A v \in Workers : Pending(v, id, u)' => Pending(v, id, u)
    BY <1>2, <1>3 DEF Pending
  <2>3. \A v \in Workers, c \in Conns : Sent(v, id, u, c)' => Sent(v, id, u, c)
    BY <1>2 DEF Sent
  <2>4. \A c \in Conns : OnWire(c, id, u)' => OnWire(c, id, u)
    BY <1>2 DEF OnWire
  <2>5. \A v \in Workers : Drained(v, id, u)' =>
          \/ v # w /\ Drained(v, id, u)
          \/ v = w /\ u = n /\ id \in undelivered[u]
    BY <1>1, <1>2, <1>4 DEF Drained
  <2>6. id \in undelivered'[u] => id \in undelivered[u] /\ u # n
    BY <1>5
  <2> QED
    BY <2>1, <2>2, <2>3, <2>4, <2>5, <2>6 DEF OnePlace
<1>8. /\ \A u \in Users : undelivered'[u] \subseteq 1..Len(log)
      /\ \A v \in Workers : held'[v] \subseteq 1..Len(log) /\ \A s \in sends'[v] : s[1] \in 1..Len(log)
  BY <1>2, <1>4, <1>5 DEF CInv, IdsOfRows
<1> QED
  BY <1>2, <1>6, <1>7, <1>8, NothingWritten

\* replay_offline looks up the connections for what was drained.
LEMMA ReplayMoves ==
  ASSUME IInv, CInv, NEW w \in Workers, ReplayLookup(w)
  PROVE  CInv'
<1> USE DEF ioVars, dbVars
<1>0. /\ pc \in [Workers -> Pc] /\ held \in [Workers -> SUBSET Ids]
      /\ sends \in [Workers -> SUBSET (Ids \X Conns)] /\ addr \in [Workers -> Users \cup {NoUser}]
  BY DEF IInv, TypeOK, WorkerTypes
<1>1. UNCHANGED <<log, out, undelivered, todo, job, who, msg>> /\ pc[w] = "replay"
  BY DEF ReplayLookup
<1>2. pc'[w] \in {"ack", "body", "resend"} /\ \A v \in Workers \ {w} : pc'[v] = pc[v]
  BY <1>0, Onward DEF ReplayLookup
<1>3. held'[w] = {} /\ \A v \in Workers \ {w} : held'[v] = held[v]
  BY <1>0 DEF ReplayLookup
<1>4. /\ sends'[w] = held[w] \X bound[who[w]] /\ addr'[w] = who[w]
      /\ \A v \in Workers \ {w} : sends'[v] = sends[v] /\ addr'[v] = addr[v]
  BY <1>0 DEF ReplayLookup
<1>5. todo[w] = {}
  BY <1>1 DEF IInv, InHand
<1>6. LookedUp'
  BY <1>1, <1>2, <1>4 DEF CInv, LookedUp
<1>7. ASSUME NEW id \in 1..Len(log), NEW u \in Users, Ordinary(id)
      PROVE  OnePlace(id, u)'
  <2>1. OnePlace(id, u)
    BY <1>7 DEF CInv
  <2>2. \A v \in Workers : Pending(v, id, u)' => Pending(v, id, u)
    BY <1>1, <1>2, <1>4, <1>5 DEF Pending
  <2>3. \A v \in Workers, c \in Conns : Sent(v, id, u, c)' =>
          \/ v # w /\ Sent(v, id, u, c)
          \/ v = w /\ Drained(w, id, u)
    <3>1. \A c : <<id, c>> \in held[w] \X bound[who[w]] => id \in held[w]
      BY SMT
    <3> QED
      BY <1>1, <1>4, <3>1 DEF Sent, Drained
  <2>4. \A c \in Conns : OnWire(c, id, u)' => OnWire(c, id, u)
    BY <1>1 DEF OnWire
  <2>5. \A v \in Workers : Drained(v, id, u)' => v # w /\ Drained(v, id, u)
    BY <1>1, <1>3 DEF Drained
  <2>6. id \in undelivered'[u] => id \in undelivered[u]
    BY <1>1
  <2> QED
    BY <2>1, <2>2, <2>3, <2>4, <2>5, <2>6 DEF OnePlace
<1>8. /\ \A u \in Users : undelivered'[u] \subseteq 1..Len(log)
      /\ \A v \in Workers : held'[v] \subseteq 1..Len(log) /\ \A s \in sends'[v] : s[1] \in 1..Len(log)
  BY <1>1, <1>3, <1>4 DEF CInv, IdsOfRows
<1> QED
  BY <1>1, <1>6, <1>7, <1>8, NothingWritten

\* connections_of the next recipient.
LEMMA LookupMoves ==
  ASSUME IInv, CInv, NEW w \in Workers, Lookup(w)
  PROVE  CInv'
<1> USE DEF ioVars, dbVars
<1>0. /\ pc \in [Workers -> Pc] /\ todo \in [Workers -> SUBSET Users]
      /\ sends \in [Workers -> SUBSET (Ids \X Conns)] /\ addr \in [Workers -> Users \cup {NoUser}]
  BY DEF IInv, TypeOK, WorkerTypes
<1>1. PICK n \in todo[w] :
       /\ todo' = [todo EXCEPT ![w] = @ \ {n}]
       /\ addr' = [addr EXCEPT ![w] = n]
       /\ sends' = [sends EXCEPT ![w] = {msg[w]} \X bound[n]]
       /\ pc' = [pc EXCEPT ![w] = CASE bound[n] # {} -> "deliver"
                                    [] bound[n] = {} /\ job[w].op = "room" /\ n = who[w]
                                         -> NextCopy(w, todo[w] \ {n})
                                    [] OTHER -> "enqueue"]
  BY DEF Lookup
<1>2. UNCHANGED <<log, out, undelivered, held, job, who, msg>> /\ pc[w] = "lookup"
  BY DEF Lookup
<1>3. /\ pc'[w] \in {"deliver", "enqueue", "lookup", "echo", "ack"}
      /\ bound[n] # {} => pc'[w] = "deliver"
      /\ pc'[w] = "echo" => job[w].op = "dm"
  <2>1. CASE bound[n] # {}
    BY <1>0, <1>1, <2>1
  <2>2. CASE bound[n] = {} /\ job[w].op = "room" /\ n = who[w]
    <3>1. pc'[w] = NextCopy(w, todo[w] \ {n})
      BY <1>0, <1>1, <2>2
    <3> QED
      BY <2>2, <3>1, Onward
  <2>3. CASE bound[n] = {} /\ ~(job[w].op = "room" /\ n = who[w])
    BY <1>0, <1>1, <2>3
  <2> QED
    BY <2>1, <2>2, <2>3
<1>4. \A v \in Workers \ {w} : pc'[v] = pc[v] /\ todo'[v] = todo[v] /\ sends'[v] = sends[v] /\ addr'[v] = addr[v]
  BY <1>0, <1>1
<1>5. todo'[w] = todo[w] \ {n} /\ addr'[w] = n /\ sends'[w] = {msg[w]} \X bound[n]
  BY <1>0, <1>1
<1>6. LookedUp'
  BY <1>2, <1>3, <1>4, <1>5 DEF CInv, LookedUp
<1>7. Pending(w, msg[w], n)
  BY DEF Pending
<1>8. ASSUME NEW id \in 1..Len(log), NEW u \in Users, Ordinary(id)
      PROVE  OnePlace(id, u)'
  <2>1. OnePlace(id, u)
    BY <1>8 DEF CInv
  <2>2. \A v \in Workers : Pending(v, id, u)' => Pending(v, id, u)
    <3>1. ASSUME NEW v \in Workers \ {w}
          PROVE  Pending(v, id, u)' => Pending(v, id, u)
      BY <1>2, <1>4 DEF Pending
    <3>2. Pending(w, id, u)' => Pending(w, id, u)
      BY <1>2, <1>5, n \in todo[w] DEF Pending
    <3> QED
      BY <3>1, <3>2
  <2>3. Pending(w, id, u)' /\ u = n => pc'[w] # "deliver"
    BY <1>2, <1>5, <1>8, NotToSelf DEF Pending
  <2>4. \A v \in Workers, c \in Conns : Sent(v, id, u, c)' =>
          \/ v # w /\ Sent(v, id, u, c)
          \/ v = w /\ id = msg[w] /\ u = n /\ pc'[w] = "deliver"
    <3>1. ASSUME NEW v \in Workers \ {w}, NEW c \in Conns
          PROVE  Sent(v, id, u, c)' => Sent(v, id, u, c)
      BY <1>4 DEF Sent
    <3>2. ASSUME NEW c \in Conns, Sent(w, id, u, c)'
          PROVE  id = msg[w] /\ u = n /\ bound[n] # {}
      <4>1. u = n /\ <<id, c>> \in {msg[w]} \X bound[n]
        BY <1>5, <3>2 DEF Sent
      <4> QED
        BY <4>1, SMT
    <3> QED
      BY <1>3, <3>1, <3>2
  <2>5. \A c \in Conns : OnWire(c, id, u)' => OnWire(c, id, u)
    BY <1>2 DEF OnWire
  <2>6. \A v \in Workers : Drained(v, id, u)' => Drained(v, id, u)
    BY <1>2 DEF Drained
  <2>7. id \in undelivered'[u] => id \in undelivered[u]
    BY <1>2
  <2>8. CASE id = msg[w] /\ u = n
    <3>1. Pending(w, id, u)
      BY <1>7, <2>8
    <3>2. \A v \in Workers : Pending(v, id, u)' => v = w
      <4>1. 0 \notin 1..Len(log)
        BY SMT DEF IInv, TypeOK, TableTypes
      <4> QED
        BY <1>2, <2>8, <4>1 DEF Pending, CInv, IdsOfRows
    <3>3. /\ id \notin undelivered[u]
          /\ \A v \in Workers : ~Drained(v, id, u)
          /\ \A v \in Workers, c \in Conns : ~Sent(v, id, u, c)
          /\ \A c \in Conns : ~OnWire(c, id, u)
      BY <2>1, <3>1 DEF OnePlace
    <3>4. /\ id \notin undelivered'[u]
          /\ \A v \in Workers : ~Drained(v, id, u)'
          /\ \A v \in Workers, c \in Conns : Sent(v, id, u, c)' => v = w /\ pc'[w] = "deliver"
          /\ \A c \in Conns : ~OnWire(c, id, u)'
      BY <2>4, <2>5, <2>6, <2>7, <3>3
    <3> QED
      BY <2>3, <2>8, <3>2, <3>4 DEF OnePlace
  <2>9. CASE ~(id = msg[w] /\ u = n)
    <3>1. \A v \in Workers, c \in Conns : Sent(v, id, u, c)' => Sent(v, id, u, c)
      BY <2>4, <2>9
    <3> QED
      BY <2>1, <2>2, <2>5, <2>6, <2>7, <3>1, StaysInPlace
  <2> QED
    BY <2>8, <2>9, SMT
<1>9. msg[w] \in 1..Len(log)
  BY <1>2 DEF IInv, Routed
<1>10. /\ \A u \in Users : undelivered'[u] \subseteq 1..Len(log)
       /\ \A v \in Workers : held'[v] \subseteq 1..Len(log) /\ \A s \in sends'[v] : s[1] \in 1..Len(log)
  <2>1. \A s \in {msg[w]} \X bound[n] : s[1] = msg[w]
    BY SMT
  <2>2. \A s \in sends'[w] : s[1] \in 1..Len(log)
    BY <1>5, <1>9, <2>1
  <2>3. \A v \in Workers \ {w} : \A s \in sends'[v] : s[1] \in 1..Len(log)
    BY <1>4 DEF CInv, IdsOfRows
  <2> QED
    BY <1>2, <2>2, <2>3 DEF CInv, IdsOfRows
<1> QED
  BY <1>2, <1>6, <1>8, <1>10, NothingWritten

\* enqueue_undelivered: the copy is in the queue and in nobody's hands.
LEMMA EnqueueMoves ==
  ASSUME IInv, CInv, NEW w \in Workers, Enqueue(w)
  PROVE  CInv'
<1> USE DEF ioVars, localVars
<1>0. pc \in [Workers -> Pc] /\ undelivered \in [Users -> SUBSET Ids]
  BY DEF IInv, TypeOK, WorkerTypes, TableTypes
<1>1. UNCHANGED <<log, out, todo, held, sends, job, who, msg, addr>> /\ pc[w] = "enqueue"
  BY DEF Enqueue, QueueFor
<1>2. PICK n \in Users : n = addr[w]
  BY <1>1 DEF IInv, Addressed
<1>3. /\ pc'[w] \in {"lookup", "echo", "ack"} /\ (pc'[w] = "echo" => job[w].op = "dm")
      /\ \A v \in Workers \ {w} : pc'[v] = pc[v]
  BY <1>0, Onward DEF Enqueue, QueueFor
<1>4. undelivered'[n] = undelivered[n] \cup {msg[w]} /\ \A u \in Users \ {n} : undelivered'[u] = undelivered[u]
  BY <1>0, <1>2 DEF Enqueue, QueueFor
<1>5. LookedUp'
  BY <1>1, <1>3 DEF CInv, LookedUp
<1>6. Pending(w, msg[w], n)
  BY <1>1, <1>2 DEF Pending
<1>7. n \notin todo[w]
  BY <1>1, <1>2 DEF CInv, LookedUp
<1>8. ASSUME NEW id \in 1..Len(log), NEW u \in Users, Ordinary(id)
      PROVE  OnePlace(id, u)'
  <2>1. OnePlace(id, u)
    BY <1>8 DEF CInv
  <2>2. \A v \in Workers : Pending(v, id, u)' => Pending(v, id, u)
    BY <1>1, <1>3 DEF Pending
  <2>3. \A v \in Workers, c \in Conns : Sent(v, id, u, c)' => Sent(v, id, u, c)
    BY <1>1 DEF Sent
  <2>4. \A c \in Conns : OnWire(c, id, u)' => OnWire(c, id, u)
    BY <1>1 DEF OnWire
  <2>5. \A v \in Workers : Drained(v, id, u)' => Drained(v, id, u)
    BY <1>1 DEF Drained
  <2>6. CASE id = msg[w] /\ u = n
    <3>1. 0 \notin 1..Len(log)
      BY SMT DEF IInv, TypeOK, TableTypes
    <3>2. \A v \in Workers : Pending(v, id, u) => v = w
      BY <1>8, <2>6, <3>1 DEF Pending, CInv, IdsOfRows
    <3>3. ~Pending(w, id, u)'
      BY <1>1, <1>2, <1>3, <1>7, <1>8, <2>6, NotToSelf DEF Pending
    <3> QED
      BY <1>6, <2>1, <2>2, <2>3, <2>4, <2>5, <2>6, <3>2, <3>3 DEF OnePlace
  <2>7. CASE ~(id = msg[w] /\ u = n)
    <3>1. id \in undelivered'[u] => id \in undelivered[u]
      BY <1>4, <2>7
    <3> QED
      BY <2>1, <2>2, <2>3, <2>4, <2>5, <3>1 DEF OnePlace
  <2> QED
    BY <2>6, <2>7
<1>9. msg[w] \in 1..Len(log)
  BY <1>1 DEF IInv, Routed
<1>10. /\ \A u \in Users : undelivered'[u] \subseteq 1..Len(log)
       /\ \A v \in Workers : held'[v] \subseteq 1..Len(log) /\ \A s \in sends'[v] : s[1] \in 1..Len(log)
  BY <1>1, <1>4, <1>9 DEF CInv, IdsOfRows
<1> QED
  BY <1>1, <1>5, <1>8, <1>10, NothingWritten

\* send_dm's second connections_of: the echo is now to be written.
LEMMA EchoMoves ==
  ASSUME IInv, CInv, NEW w \in Workers, EchoLookup(w)
  PROVE  CInv'
<1> USE DEF ioVars, dbVars
<1>0. /\ pc \in [Workers -> Pc]
      /\ sends \in [Workers -> SUBSET (Ids \X Conns)] /\ addr \in [Workers -> Users \cup {NoUser}]
  BY DEF IInv, TypeOK, WorkerTypes
<1>1. UNCHANGED <<log, out, undelivered, todo, held, job, who, msg>> /\ pc[w] = "echo"
  BY DEF EchoLookup
<1>2. PICK n \in Users : n = who[w]
  BY <1>1 DEF IInv, Busy
<1>3. pc'[w] \in {"ack", "echoing"} /\ \A v \in Workers \ {w} : pc'[v] = pc[v]
  BY <1>0 DEF EchoLookup
<1>4. /\ sends'[w] = {msg[w]} \X bound[n] /\ addr'[w] = n
      /\ \A v \in Workers \ {w} : sends'[v] = sends[v] /\ addr'[v] = addr[v]
  BY <1>0, <1>2 DEF EchoLookup
<1>5. todo[w] = {}
  BY <1>1 DEF IInv, InHand
<1>6. LookedUp'
  BY <1>1, <1>3, <1>4 DEF CInv, LookedUp
<1>7. Pending(w, msg[w], n)
  BY <1>1, <1>2 DEF Pending, CInv, LookedUp
<1>8. ASSUME NEW id \in 1..Len(log), NEW u \in Users, Ordinary(id)
      PROVE  OnePlace(id, u)'
  <2>1. OnePlace(id, u)
    BY <1>8 DEF CInv
  <2>2. \A v \in Workers : Pending(v, id, u)' => Pending(v, id, u) /\ v # w
    BY <1>1, <1>3, <1>4, <1>5 DEF Pending
  <2>3. \A v \in Workers, c \in Conns : Sent(v, id, u, c)' =>
          \/ v # w /\ Sent(v, id, u, c)
          \/ v = w /\ id = msg[w] /\ u = n
    BY <1>4, SMT DEF Sent
  <2>4. \A c \in Conns : OnWire(c, id, u)' => OnWire(c, id, u)
    BY <1>1 DEF OnWire
  <2>5. \A v \in Workers : Drained(v, id, u)' => Drained(v, id, u)
    BY <1>1 DEF Drained
  <2>6. id \in undelivered'[u] => id \in undelivered[u]
    BY <1>1
  <2>7. CASE id = msg[w] /\ u = n
    <3>1. 0 \notin 1..Len(log)
      BY SMT DEF IInv, TypeOK, TableTypes
    <3>2. \A v \in Workers : Pending(v, id, u) => v = w
      BY <1>8, <2>7, <3>1 DEF Pending, CInv, IdsOfRows
    <3> QED
      BY <1>7, <2>1, <2>2, <2>3, <2>4, <2>5, <2>6, <2>7, <3>2 DEF OnePlace
  <2>8. CASE ~(id = msg[w] /\ u = n)
    BY <2>1, <2>2, <2>3, <2>4, <2>5, <2>6, <2>8 DEF OnePlace
  <2> QED
    BY <2>7, <2>8
<1>9. msg[w] \in 1..Len(log)
  BY <1>1 DEF IInv, Routed
<1>10. /\ \A u \in Users : undelivered'[u] \subseteq 1..Len(log)
       /\ \A v \in Workers : held'[v] \subseteq 1..Len(log) /\ \A s \in sends'[v] : s[1] \in 1..Len(log)
  BY <1>1, <1>4, <1>9 DEF CInv, IdsOfRows
<1> QED
  BY <1>1, <1>6, <1>8, <1>10, NothingWritten

\* send_frame: the copy is now on the wire of that connection.
LEMMA SendMoves ==
  ASSUME IInv, CInv, NEW w \in Workers, SendOne(w)
  PROVE  CInv'
<1> USE DEF ioVars, dbVars
<1>0. /\ pc \in [Workers -> Pc] /\ sends \in [Workers -> SUBSET (Ids \X Conns)]
      /\ out \in [Conns -> Seq(Ids \X Users)]
  BY DEF IInv, TypeOK, WorkerTypes, ConnTypes
<1>1. PICK s \in sends[w] :
        /\ SendFrame(w, s[1], s[2])
        /\ pc' = [pc EXCEPT ![w] =
             CASE sends[w] # {s} -> @
               [] sends[w] = {s} /\ @ = "resend" -> AfterAuth(w)
               [] sends[w] = {s} /\ @ = "deliver" /\ job[w].op = "dm" -> "status"
               [] sends[w] = {s} /\ @ = "deliver" /\ job[w].op # "dm" -> NextCopy(w, todo[w])
               [] OTHER -> "ack"]
  BY DEF SendOne
<1>2. /\ pc[w] \in {"resend", "deliver", "echoing"}
      /\ UNCHANGED <<log, undelivered, todo, held, job, who, msg, addr>>
  BY DEF SendOne
<1>3. PICK m \in Ids, d \in Conns, a \in Users : s = <<m, d>> /\ a = addr[w]
  BY <1>0, <1>2, SMT DEF IInv, Addressed
<1>4. sends'[w] = sends[w] \ {<<m, d>>} /\ \A v \in Workers \ {w} : sends'[v] = sends[v]
  BY <1>0, <1>1, <1>3 DEF SendFrame
<1>5. out' = out \/ out' = [out EXCEPT ![d] = Append(@, <<m, a>>)]
  BY <1>1, <1>3 DEF SendFrame
<1>6. /\ \/ pc'[w] = pc[w]
         \/ pc'[w] \in {"ack", "body"}
         \/ pc[w] = "deliver" /\ pc'[w] \in {"status", "lookup", "echo"}
      /\ pc'[w] = "echo" => job[w].op = "dm"
      /\ \A v \in Workers \ {w} : pc'[v] = pc[v]
  BY <1>0, <1>1, <1>2, Onward, SMT
<1>7. LookedUp'
  BY <1>2, <1>6 DEF CInv, LookedUp
<1>8. /\ \A c \in Conns \ {d} : out'[c] = out[c]
      /\ out'[d] = out[d] \/ out'[d] = Append(out[d], <<m, a>>)
  BY <1>0, <1>5
<1>9. out[d] \in Seq(Ids \X Users) /\ Len(out[d]) \in Nat
  BY <1>0, SMT
<1>10. \A i \in 1..Len(out'[d]) :
         \/ i \in 1..Len(out[d]) /\ out'[d][i] = out[d][i]
         \/ i = Len(out[d]) + 1 /\ out'[d][i] = <<m, a>>
  <2>1. CASE out'[d] = out[d]
    BY <2>1
  <2>2. CASE out'[d] = Append(out[d], <<m, a>>)
    BY <1>9, <2>2, SMT
  <2> QED
    BY <1>8, <2>1, <2>2
<1>11. \A c \in Conns : \A id, u :
         OnWire(c, id, u)' => OnWire(c, id, u) \/ (c = d /\ id = m /\ u = a)
  BY <1>8, <1>10, SMT DEF OnWire
<1>12. m \in 1..Len(log)
  BY <1>3 DEF CInv, IdsOfRows
<1>13. Sent(w, m, a, d)
  BY <1>3 DEF Sent
<1>14. IdsOfRows'
  <2>1. \A v \in Workers : \A x \in sends'[v] : x[1] \in 1..Len(log)
    BY <1>4 DEF CInv, IdsOfRows
  <2>2. \A c \in Conns : \A i \in 1..Len(out'[c]) : out'[c][i][1] \in 1..Len(log)
    <3>1. \A c \in Conns \ {d} : \A i \in 1..Len(out'[c]) : out'[c][i][1] \in 1..Len(log)
      BY <1>8 DEF CInv, IdsOfRows
    <3>2. \A i \in 1..Len(out'[d]) : out'[d][i][1] \in 1..Len(log)
      BY <1>10, <1>12, SMT DEF CInv, IdsOfRows
    <3> QED
      BY <3>1, <3>2
  <2> QED
    BY <1>2, <2>1, <2>2 DEF CInv, IdsOfRows
<1>15. ASSUME NEW id \in 1..Len(log), NEW u \in Users, Ordinary(id)
       PROVE  OnePlace(id, u)'
  <2>1. OnePlace(id, u)
    BY <1>15 DEF CInv
  <2>2. \A v \in Workers : Pending(v, id, u)' => Pending(v, id, u)
    BY <1>2, <1>6 DEF Pending
  <2>3. \A v \in Workers, c \in Conns : Sent(v, id, u, c)' =>
          Sent(v, id, u, c) /\ ~(v = w /\ id = m /\ c = d)
    BY <1>2, <1>4 DEF Sent
  <2>4. \A v \in Workers : Drained(v, id, u)' => Drained(v, id, u)
    BY <1>2 DEF Drained
  <2>5. id \in undelivered'[u] => id \in undelivered[u]
    BY <1>2
  <2>6. \A c \in Conns : OnWire(c, id, u)' => OnWire(c, id, u) \/ (c = d /\ id = m /\ u = a)
    BY <1>11
  <2>7. CASE id = m /\ u = a
    BY <1>13, <2>1, <2>2, <2>3, <2>4, <2>5, <2>6, <2>7 DEF OnePlace
  <2>8. CASE ~(id = m /\ u = a)
    <3>1. \A c \in Conns : OnWire(c, id, u)' => OnWire(c, id, u)
      BY <2>6, <2>8
    <3> QED
      BY <2>1, <2>2, <2>3, <2>4, <2>5, <3>1, StaysInPlace
  <2> QED
    BY <2>7, <2>8
<1>16. WrittenOnce'
  <2>1. \A c \in Conns \ {d} : \A i, j \in 1..Len(out'[c]) :
          out'[c][i] = out'[c][j] /\ log[out'[c][i][1]].from # log[out'[c][i][1]].to => i = j
    <3> TAKE c \in Conns \ {d}
    <3>1. out'[c] = out[c]
      BY <1>8
    <3>2. \A i, j \in 1..Len(out[c]) :
            out[c][i] = out[c][j] /\ log[out[c][i][1]].from # log[out[c][i][1]].to => i = j
      BY DEF CInv, WrittenOnce
    <3> QED
      BY <3>1, <3>2
  <2>2. ASSUME NEW i \in 1..Len(out'[d]), NEW j \in 1..Len(out'[d]), out'[d][i] = out'[d][j],
               log[out'[d][i][1]].from # log[out'[d][i][1]].to
        PROVE  i = j
    <3>1. Ordinary(m) => ~OnWire(d, m, a)
      BY <1>12, <1>13 DEF CInv, OnePlace
    <3>2. CASE i \in 1..Len(out[d]) /\ out'[d][i] = out[d][i] /\ j \in 1..Len(out[d]) /\ out'[d][j] = out[d][j]
      BY <2>2, <3>2 DEF CInv, WrittenOnce
    <3>3. CASE out'[d][i] = <<m, a>>
      <4>1. ~OnWire(d, m, a)
        BY <2>2, <3>1, <3>3, SMT DEF Ordinary
      <4>2. \A x \in 1..Len(out'[d]) : out'[d][x] = <<m, a>> => x = Len(out[d]) + 1
        BY <1>10, <4>1 DEF OnWire
      <4> QED
        BY <2>2, <3>3, <4>2
    <3> QED
      BY <1>10, <2>2, <3>2, <3>3
  <2> QED
    BY <1>2, <2>1, <2>2, SMT DEF WrittenOnce
<1> QED
  BY <1>2, <1>7, <1>14, <1>15, <1>16 DEF CInv, Ordinary

\* store_dm and store_room_message: the new row's copies are in the router's
\* hands, and nothing else in hand has its id.
LEMMA InsertMoves ==
  ASSUME IInv, CInv, NEW w \in Workers, Insert(w)
  PROVE  CInv'
<1> USE DEF ioVars
<1>0. /\ pc \in [Workers -> Pc] /\ msg \in [Workers -> Ids \cup {0}] /\ todo \in [Workers -> SUBSET Users]
      /\ log \in Seq(Message)
  BY DEF IInv, TypeOK, WorkerTypes, TableTypes
<1>1. /\ UNCHANGED <<out, undelivered, job, who, addr, held, sends>> /\ pc[w] = "body"
      /\ log' = Append(log, [from |-> who[w], to |-> job[w].to])
  BY DEF Insert
<1>2. PICK k \in Nat : k = Len(log)
  BY <1>0, SMT
<1>3. Len(log') = k + 1 /\ \A id \in 1..k : log'[id] = log[id]
  BY <1>0, <1>1, <1>2, SMT
<1>4. /\ msg'[w] = k + 1 /\ pc'[w] = "lookup"
      /\ \A v \in Workers \ {w} : msg'[v] = msg[v] /\ pc'[v] = pc[v] /\ todo'[v] = todo[v]
  BY <1>0, <1>2 DEF Insert
<1>5. /\ \A v \in Workers : msg[v] \in 0..k
      /\ \A u \in Users : undelivered[u] \subseteq 1..k
      /\ \A v \in Workers : held[v] \subseteq 1..k /\ \A s \in sends[v] : s[1] \in 1..k
      /\ \A c \in Conns : \A i \in 1..Len(out[c]) : out[c][i][1] \in 1..k
  BY <1>2 DEF CInv, IdsOfRows
<1>6. IdsOfRows'
  <2>1. \A v \in Workers : msg'[v] \in 0..(k + 1)
    <3> TAKE v \in Workers
    <3>1. CASE v = w
      BY <1>4, <3>1, SMT
    <3>2. CASE v # w
      <4>1. msg'[v] = msg[v] /\ msg[v] \in 0..k
        BY <1>4, <1>5, <3>2
      <4> QED
        BY <4>1, SMT
    <3> QED
      BY <3>1, <3>2
  <2>2. \A v \in Workers \ {w} : msg'[v] # msg'[w]
    <3> TAKE v \in Workers \ {w}
    <3>1. msg'[v] = msg[v] /\ msg[v] \in 0..k
      BY <1>4, <1>5
    <3> QED
      BY <1>4, <3>1, SMT
  <2>3. \A u, v \in Workers : msg'[u] = msg'[v] /\ msg'[v] # 0 => u = v
    <3> SUFFICES ASSUME NEW u \in Workers, NEW v \in Workers, u # v, msg'[u] = msg'[v], msg'[v] # 0
                 PROVE  FALSE
      OBVIOUS
    <3>1. u # w /\ v # w
      BY <2>2
    <3> QED
      BY <1>4, <3>1 DEF CInv, IdsOfRows
  <2>4. 1..k \subseteq 1..(k + 1)
    BY SMT
  <2> QED
    BY <1>1, <1>3, <1>5, <2>1, <2>3, <2>4 DEF IdsOfRows
<1>7. LookedUp'
  BY <1>1, <1>4 DEF CInv, LookedUp
<1>8. \A c, id, u : OnWire(c, id, u)' <=> OnWire(c, id, u)
  BY <1>1 DEF OnWire
<1>9. ASSUME NEW id \in 1..(k + 1), NEW u \in Users, Ordinary(id)'
      PROVE  OnePlace(id, u)'
  <2>1. \A v \in Workers : Drained(v, id, u)' <=> Drained(v, id, u)
    BY <1>1 DEF Drained
  <2>2. \A v \in Workers, c \in Conns : Sent(v, id, u, c)' <=> Sent(v, id, u, c)
    BY <1>1 DEF Sent
  <2>3. CASE id \in 1..k
    <3>1. OnePlace(id, u)
      BY <1>2, <1>3, <1>9, <2>3 DEF CInv, Ordinary
    <3>2. \A v \in Workers : Pending(v, id, u)' => Pending(v, id, u)
      <4> TAKE v \in Workers
      <4>1. CASE v = w
        BY <1>4, <2>3, <4>1, SMT DEF Pending
      <4>2. CASE v # w
        BY <1>1, <1>4, <4>2 DEF Pending
      <4> QED
        BY <4>1, <4>2
    <3> QED
      BY <1>1, <1>8, <2>1, <2>2, <3>1, <3>2 DEF OnePlace
  <2>4. CASE id = k + 1
    <3>1. id \notin 1..k
      BY <2>4, SMT
    <3>2. id \notin undelivered'[u]
      BY <1>1, <1>5, <3>1
    <3>3. \A v \in Workers : ~Drained(v, id, u)
      BY <1>5, <3>1 DEF Drained
    <3>4. \A v \in Workers, c \in Conns : ~Sent(v, id, u, c)
      BY <1>5, <3>1 DEF Sent
    <3>5. \A c \in Conns : ~OnWire(c, id, u)
      BY <1>5, <3>1, SMT DEF OnWire
    <3> QED
      BY <1>8, <2>1, <2>2, <3>2, <3>3, <3>4, <3>5 DEF OnePlace
  <2> QED
    BY <2>3, <2>4, SMT
<1>10. WrittenOnce'
  <2>1. \A c \in Conns : \A i \in 1..Len(out[c]) : log'[out[c][i][1]] = log[out[c][i][1]]
    BY <1>3, <1>5
  <2>2. out' = out
    BY <1>1
  <2>3. WrittenOnce
    BY DEF CInv
  <2> SUFFICES ASSUME NEW c \in Conns, NEW i \in 1..Len(out[c]), NEW j \in 1..Len(out[c]),
                      out[c][i] = out[c][j],
                      log'[out[c][i][1]].from # log'[out[c][i][1]].to
               PROVE  i = j
    BY <2>2 DEF WrittenOnce
  <2>4. log[out[c][i][1]].from # log[out[c][i][1]].to
    BY <2>1
  <2> QED
    BY <2>3, <2>4 DEF WrittenOnce
<1> QED
  BY <1>3, <1>6, <1>7, <1>9, <1>10 DEF CInv

-----------------------------------------------------------------------------
(* The invariant holds *)

LEMMA InitCInv == Init => CInv
<1> SUFFICES ASSUME Init PROVE CInv
  OBVIOUS
<1>1. Len(log) = 0 /\ \A c \in Conns : out[c] = << >>
  BY DEF Init
<1>2. IdsOfRows
  BY <1>1, SMT DEF Init, IdsOfRows
<1>3. LookedUp /\ WrittenOnce
  BY <1>1, SMT DEF Init, LookedUp, WrittenOnce
<1> QED
  BY <1>1, <1>2, <1>3, SMT DEF CInv

LEMMA StepCInv ==
  ASSUME ~SplitDrain
  PROVE  IInv /\ CInv /\ [Next]_vars => CInv'
<1> SUFFICES ASSUME IInv, CInv, [Next]_vars PROVE CInv'
  OBVIOUS
<1>1. CASE IoStep
  BY <1>1, IoSteps
<1>2. ASSUME NEW w \in Workers, WorkerStep(w)
      PROVE  CInv'
  BY <1>2, OtherSteps, StatusSteps, DrainMoves, ReplayMoves, LookupMoves, EnqueueMoves, EchoMoves,
     SendMoves, InsertMoves DEF WorkerStep
<1>3. CASE UNCHANGED vars
  <2>1. UNCHANGED <<log, out, undelivered, todo, held, sends, pc, job, who, msg, addr>>
    BY <1>3 DEF vars
  <2> QED
    BY <2>1, NoSetContainsEverything, CopiesAside
<1> QED
  BY <1>1, <1>2, <1>3 DEF Next

\* With a store whose drain is one locked step (the in-memory store), nothing is
\* written twice to a connection: not by a replay that races the router, by two
\* replays of one user, or by the loop over the connections. A message to oneself,
\* which send_dm also echoes, is the exception.
THEOREM NothingIsWrittenTwice ==
  ASSUME ~SplitDrain
  PROVE  Spec => []WrittenOnce
<1>1. CInv => WrittenOnce
  BY DEF CInv
<1> QED
  BY <1>1, Invariance, InitCInv, StepCInv, PTL DEF Spec
=============================================================================
