----------------------------- MODULE MysqlPool -----------------------------
(***************************************************************************)
(* MysqlPool (src/db/mysql_pool.cpp): a fixed set of connections that      *)
(* every query borrows one of, the condition variable its callers sleep    *)
(* on, and the replacement of broken connections when they are given back. *)
(*                                                                         *)
(* The callers are the workers and the I/O thread: ChatServer::on_close    *)
(* reaches update_last_seen.  RoomManager::ensure_loaded queries with      *)
(* RoomManager::mu_ held, so a request may hold that mutex all along.      *)
(* A connection's MYSQL_OPT_RECONNECT makes mysql_ping succeed whenever    *)
(* the server can be reached.  The destructor, which nothing runs along    *)
(* with, is left out.                                                      *)
(***************************************************************************)
EXTENDS Integers, FiniteSets

CONSTANTS
  Handlers, Io, \* the callers: workers, and the I/O thread
  Conns,        \* cfg_.pool_size connections
  None,
  MaxRequests,  \* bound: queries that each caller makes
  MaxOutages    \* bound: times that the server goes away

Borrowers == Handlers \cup {Io}

ASSUME PoolAssumption ==
  /\ Io \notin Handlers
  /\ None \notin Borrowers \cup Conns
  /\ IsFiniteSet(Conns)
  /\ IsFiniteSet(Handlers)
  /\ MaxRequests \in Nat
  /\ MaxOutages \in Nat

VARIABLES
  idle,         \* idle_; which one is lent is of no consequence
  outstanding,  \* outstanding_
  holder,       \* who holds mu_ across the calls that release makes
  roomHolder,   \* who holds RoomManager::mu_
  pc,           \* where each caller is
  lease,        \* the connection it has
  left,         \* queries it has still to make
  serverUp,     \* the MySQL server can be reached
  outages,      \* how often it could not
  lost          \* history: connections that release closed and did not replace

poolVars == <<idle, outstanding, holder, roomHolder, pc, lease, left, serverUp, outages, lost>>

Pcs == {"idle", "room", "acquire", "asleep", "query", "release", "ping", "connect", "return"}

PoolTypeOK ==
  /\ idle \subseteq Conns
  /\ outstanding \in 0..Cardinality(Conns)
  /\ holder \in Borrowers \cup {None}
  /\ roomHolder \in Borrowers \cup {None}
  /\ pc \in [Borrowers -> Pcs]
  /\ lease \in [Borrowers -> Conns \cup {None}]
  /\ left \in [Borrowers -> 0..MaxRequests]
  /\ serverUp \in BOOLEAN
  /\ outages \in 0..MaxOutages
  /\ lost \subseteq Conns

\* init: it fails unless all the connections can be made.
PoolInit ==
  /\ idle = Conns
  /\ outstanding = 0
  /\ holder = None
  /\ roomHolder = None
  /\ pc = [t \in Borrowers |-> "idle"]
  /\ lease = [t \in Borrowers |-> None]
  /\ left = [t \in Borrowers |-> MaxRequests]
  /\ serverUp = TRUE
  /\ outages = 0
  /\ lost = {}

Goto(t, l) == pc' = [pc EXCEPT ![t] = l]

\* A repository call; the workers make some of theirs under RoomManager::mu_.
Begin(t) ==
  /\ pc[t] = "idle"
  /\ left[t] > 0
  /\ left' = [left EXCEPT ![t] = @ - 1]
  /\ \/ Goto(t, "acquire")
     \/ t \in Handlers /\ Goto(t, "room")
  /\ UNCHANGED <<idle, outstanding, holder, roomHolder, lease, serverUp, outages, lost>>

LockRoom(t) ==
  /\ pc[t] = "room"
  /\ roomHolder = None
  /\ roomHolder' = t
  /\ Goto(t, "acquire")
  /\ UNCHANGED <<idle, outstanding, holder, lease, left, serverUp, outages, lost>>

\* Mutant: the connection is lent and stays in the queue.
AcquireKeeps(t) ==
  /\ pc[t] = "acquire"
  /\ holder = None
  /\ IF idle = {} THEN Goto(t, "asleep") /\ UNCHANGED <<outstanding, lease>>
     ELSE /\ \E c \in idle : lease' = [lease EXCEPT ![t] = c]
          /\ outstanding' = outstanding + 1
          /\ Goto(t, "query")
  /\ UNCHANGED <<idle, holder, roomHolder, left, serverUp, outages, lost>>

\* acquire: cv_.wait tests its predicate before it sleeps, and when it wakes.
Acquire(t) ==
  /\ pc[t] = "acquire"
  /\ holder = None
  /\ \/ /\ idle = {}
        /\ Goto(t, "asleep")
        /\ UNCHANGED <<idle, outstanding, lease>>
     \/ \E c \in idle :
          /\ idle' = idle \ {c}
          /\ lease' = [lease EXCEPT ![t] = c]
          /\ outstanding' = outstanding + 1
          /\ Goto(t, "query")
  /\ UNCHANGED <<holder, roomHolder, left, serverUp, outages, lost>>

\* The query, whatever comes of it; then ~Lease.
Query(t) ==
  /\ pc[t] = "query"
  /\ Goto(t, "release")
  /\ UNCHANGED <<idle, outstanding, holder, roomHolder, lease, left, serverUp, outages, lost>>

\* release takes mu_ and keeps it while it pings and connects.
Release(t) ==
  /\ pc[t] = "release"
  /\ holder = None
  /\ holder' = t
  /\ outstanding' = outstanding - 1
  /\ Goto(t, "ping")
  /\ UNCHANGED <<idle, roomHolder, lease, left, serverUp, outages, lost>>

\* idle_.push, notify_one and the end of the lease.  A sleeper that is notified
\* has to lock mu_ and to test again.
PushAs(t, woken) ==
  /\ idle' = idle \cup {lease[t]}
  /\ lease' = [lease EXCEPT ![t] = None]
  /\ holder' = None
  /\ pc' = [s \in Borrowers |-> IF s = t THEN "return" ELSE IF s \in woken THEN "acquire" ELSE pc[s]]
  /\ UNCHANGED <<outstanding, roomHolder, left, serverUp, outages, lost>>

Sleepers == {s \in Borrowers : pc[s] = "asleep"}

\* Mutant: nobody is notified.
PushSilently(t) == PushAs(t, {})

Push(t) ==
  \/ Sleepers = {} /\ PushAs(t, {})
  \/ \E s \in Sleepers : PushAs(t, {s})

\* The lease is over, with nothing to push.
Drop(t) ==
  /\ lost' = lost \cup {lease[t]}
  /\ lease' = [lease EXCEPT ![t] = None]
  /\ holder' = None
  /\ Goto(t, "return")
  /\ UNCHANGED <<idle, outstanding, roomHolder, left, serverUp, outages>>

Ping(t) ==
  /\ pc[t] = "ping"
  /\ \/ serverUp /\ Push(t)
     \/ /\ ~serverUp
        /\ Goto(t, "connect")
        /\ UNCHANGED <<idle, outstanding, holder, roomHolder, lease, left, serverUp, outages, lost>>

\* The broken connection is closed and make_connection tries once: a connection
\* that cannot be made is not pushed.
Connect(t) ==
  /\ pc[t] = "connect"
  /\ \/ serverUp /\ Push(t)
     \/ ~serverUp /\ Drop(t)

\* ensure_loaded returns: RoomManager::mu_ is unlocked.
ReturnAs(t, h) ==
  /\ pc[t] = "return"
  /\ roomHolder' = h
  /\ Goto(t, "idle")
  /\ UNCHANGED <<idle, outstanding, holder, lease, left, serverUp, outages, lost>>

\* Mutant: the mutex stays locked.
ReturnLocked(t) == ReturnAs(t, roomHolder)

Return(t) == ReturnAs(t, IF roomHolder = t THEN None ELSE roomHolder)

ServerFails ==
  /\ serverUp
  /\ outages < MaxOutages
  /\ serverUp' = FALSE
  /\ outages' = outages + 1
  /\ UNCHANGED <<idle, outstanding, holder, roomHolder, pc, lease, left, lost>>

ServerReturns ==
  /\ ~serverUp
  /\ serverUp' = TRUE
  /\ UNCHANGED <<idle, outstanding, holder, roomHolder, pc, lease, left, outages, lost>>

Step(t) ==
  \/ LockRoom(t) \/ Acquire(t) \/ Query(t) \/ Release(t) \/ Ping(t) \/ Connect(t) \/ Return(t)

PoolNext ==
  \/ \E t \in Borrowers : Begin(t) \/ Step(t)
  \/ ServerFails \/ ServerReturns

PoolSpec == PoolInit /\ [][PoolNext]_poolVars

\* A thread that can go on does: its queries and connection attempts end.
PoolFairness == \A t \in Borrowers : WF_poolVars(Step(t))

LiveSpec == PoolSpec /\ PoolFairness
-----------------------------------------------------------------------------
Leased == {lease[t] : t \in Borrowers} \ {None}

(* No connection serves two callers, or one while it is in the queue, and    *)
(* each is in the queue, lent or given up (acquire, release).                *)
LeasesAreExclusive ==
  /\ \A s, t \in Borrowers : s # t /\ lease[s] # None => lease[s] # lease[t]
  /\ Leased \cap idle = {}
  /\ Conns \ (idle \cup Leased) = lost

(* A caller sleeps beside an idle connection only while another caller is    *)
(* about to look: notify_one for each connection pushed is enough, though a  *)
(* caller that never slept may take it first (cv_.wait, release).            *)
NobodySleepsInVain ==
  Sleepers # {} /\ idle # {} => \E t \in Borrowers : pc[t] = "acquire"

(* Whoever asks for a connection gets one, unless every connection has been  *)
(* given up; so the mutexes of the pool and of RoomManager do not deadlock.  *)
Served ==
  \A t \in Borrowers : pc[t] \in {"room", "acquire"} ~> pc[t] = "query" \/ lost = Conns
-----------------------------------------------------------------------------
(* What the documentation says and the code does not do.                     *)

(* "broken connections are replaced transparently": when the server is back  *)
(* to stay, whoever asks for a connection gets one.                          *)
PoolRecovers ==
  (<>[]serverUp) => \A t \in Borrowers : pc[t] = "acquire" ~> pc[t] = "query"

(* "The I/O thread never blocks on application work": on_close does not wait *)
(* for a connection that the workers have.                                   *)
IoNeverWaits == pc[Io] # "asleep"
=============================================================================
