---------------------------- MODULE RoomManager ----------------------------
(***************************************************************************)
(* Who is in a room: the room_members table and RoomManager, the cache of  *)
(* it that every room message and every room history goes through, with    *)
(* the handlers that change them (create_room, join_room, leave_room) and  *)
(* the ones that read them (send_room, history_room).                      *)
(*                                                                         *)
(* One step per query and per hold of RoomManager::mu_.  ensure_loaded     *)
(* queries the table while it holds mu_; a write to the table that falls   *)
(* between that query and the unlock is followed by a cache update that    *)
(* waits for mu_, so the load is one step, at its query.                   *)
(* A room and its name are one value; list_rooms only reads the table.     *)
(***************************************************************************)
CONSTANTS
  Users, Rooms, NoJob,
  Handlers,  \* the workers
  Requests   \* what the clients ask for

Kinds == {"create", "join", "leave", "send", "history"}
Job == [kind : Kinds, room : Rooms, user : Users]

ASSUME RoomAssumption == NoJob \notin Job /\ Requests \subseteq Job

VARIABLES
  mysql,    \* the store: MySQL, whose queries may fail and whose tables survive a
            \*   restart, or the maps in memory; chosen when the server starts
  rooms,    \* the rooms table
  members,  \* the room_members table: <<room, user>>
  loaded,   \* RoomManager::loaded_
  cache,    \* RoomManager::cache_, empty for a room that is not loaded
  at,       \* where each worker is in its handler
  job,      \* the request it handles
  out,      \* send_room: what members_of returned
  clean,    \* history: the worker's write went through, and nobody undoes it meanwhile
  hidden,   \* history: <<room, user>> that the cache may lack though the table has it:
            \*   a SELECT or a DELETE failed, the answer to an INSERT was lost, or a
            \*   join and a leave ran together
  ghosts,   \* history: <<room, user>> that the cache may have though the table lacks it:
            \*   an INSERT wrote no row, or a join and a leave ran together
  must,     \* history: who has been a settled member since the handler began
  may       \* history: who has been a possible member at some time since then

roomVars == <<mysql, rooms, members, loaded, cache, at, job, out, clean, hidden, ghosts, must, may>>

Stages == {"idle", "create", "find", "write", "cache", "check", "insert", "members", "ack", "refused"}

RoomTypeOK ==
  /\ mysql \in BOOLEAN
  /\ rooms \subseteq Rooms
  /\ members \subseteq rooms \X Users
  /\ loaded \subseteq Rooms
  /\ cache \in [Rooms -> SUBSET Users]
  /\ at \in [Handlers -> Stages]
  /\ job \in [Handlers -> Job \cup {NoJob}]
  /\ out \in [Handlers -> SUBSET Users]
  /\ clean \in [Handlers -> BOOLEAN]
  /\ hidden \subseteq Rooms \X Users /\ ghosts \subseteq Rooms \X Users
  /\ must \in [Handlers -> SUBSET Users]
  /\ may \in [Handlers -> SUBSET Users]

RoomInit ==
  /\ mysql \in BOOLEAN
  /\ rooms = {}
  /\ members = {}
  /\ loaded = {}
  /\ cache = [r \in Rooms |-> {}]
  /\ at = [w \in Handlers |-> "idle"]
  /\ job = [w \in Handlers |-> NoJob]
  /\ out = [w \in Handlers |-> {}]
  /\ clean = [w \in Handlers |-> FALSE]
  /\ hidden = {} /\ ghosts = {}
  /\ must = [w \in Handlers |-> {}]
  /\ may = [w \in Handlers |-> {}]

Pair(j) == <<j.room, j.user>>
Updates(j) == j.kind \in {"create", "join", "leave"}

\* A join, or the join at the end of create_room, and a leave of the same membership.
Conflict(j, k) == Updates(j) /\ Updates(k) /\ Pair(j) = Pair(k) /\ (j.kind = "leave") # (k.kind = "leave")

Changing(p) == \E w \in Handlers : at[w] # "idle" /\ Updates(job[w]) /\ Pair(job[w]) = p
Rows(r) == {u \in Users : <<r, u>> \in members}

\* Settled members have a row that no handler is changing and that the cache does
\* not lack for a recorded cause; possible ones have a row, or one is being
\* changed, or there is a recorded cause for the cache to have them without one.
Settled(r) == {u \in Rows(r) : ~Changing(<<r, u>>) /\ <<r, u>> \notin hidden}
Possible(r) == {u \in Users : <<r, u>> \in members \cup ghosts \/ Changing(<<r, u>>)}

\* Every step maintains the two history sets, and none changes the store.
Watch ==
  /\ UNCHANGED mysql
  /\ must' = [w \in Handlers |->
       IF at'[w] = "idle" THEN {}
       ELSE IF at[w] = "idle" THEN Settled(job[w].room)'
       ELSE IF at[w] \in {"check", "insert", "members"} THEN must[w] \cap Settled(job[w].room)'
       ELSE must[w]]
  /\ may' = [w \in Handlers |->
       IF at'[w] = "idle" THEN {}
       ELSE IF at[w] = "idle" THEN Possible(job[w].room)'
       ELSE IF at[w] \in {"check", "insert", "members"} THEN may[w] \cup Possible(job[w].room)'
       ELSE may[w]]

Proceed(w, l) == at' = [at EXCEPT ![w] = l]

First == [create |-> "create", join |-> "write", leave |-> "write", send |-> "check", history |-> "check"]

\* A worker takes a frame off the pool's queue; require_auth gave it the user.
Start(w, j) ==
  LET rivals == {v \in Handlers : at[v] # "idle" /\ Conflict(j, job[v])} IN
  /\ at[w] = "idle"
  /\ Proceed(w, First[j.kind])
  /\ job' = [job EXCEPT ![w] = j]
  /\ clean' = [v \in Handlers |-> IF v = w THEN rivals = {} ELSE clean[v] /\ v \notin rivals]
  /\ hidden' = IF rivals = {} THEN hidden ELSE hidden \cup {Pair(j)}
  /\ ghosts' = IF rivals = {} THEN ghosts ELSE ghosts \cup {Pair(j)}
  /\ UNCHANGED <<rooms, members, loaded, cache, out>>
  /\ Watch

\* The handler returns: an ack, an error, or the end of the fan-out.
EndHandler(w) ==
  /\ Proceed(w, "idle")
  /\ job' = [job EXCEPT ![w] = NoJob]
  /\ out' = [out EXCEPT ![w] = {}]
  /\ clean' = [clean EXCEPT ![w] = FALSE]

\* Repositories::create_room: NULL when the name is taken, or when the query fails
\* or its answer is lost.
CreateRoom(w) ==
  /\ at[w] = "create"
  /\ \/ /\ job[w].room \notin rooms
        /\ rooms' = rooms \cup {job[w].room}
        /\ Proceed(w, "write")
     \/ /\ job[w].room \in rooms \/ mysql
        /\ rooms' \in {rooms} \cup (IF mysql THEN {rooms \cup {job[w].room}} ELSE {})
        /\ Proceed(w, "find")
  /\ UNCHANGED <<members, loaded, cache, job, out, clean, hidden, ghosts>>
  /\ Watch

\* "Race-safe: if it exists, return it."
FindRoom(w) ==
  /\ at[w] = "find"
  /\ \/ job[w].room \in rooms /\ Proceed(w, "write") /\ UNCHANGED <<job, out, clean>>
     \/ (job[w].room \notin rooms \/ mysql) /\ EndHandler(w)
  /\ UNCHANGED <<rooms, members, loaded, cache, hidden, ghosts>>
  /\ Watch

\* Repositories::join_room succeeds.
WriteJoin(w) ==
  /\ at[w] = "write"
  /\ job[w].kind \in {"create", "join"}
  /\ job[w].room \in rooms
  /\ members' = members \cup {Pair(job[w])}
  /\ Proceed(w, "cache")
  /\ UNCHANGED <<rooms, loaded, cache, job, out, clean, hidden, ghosts>>
  /\ Watch

\* The room does not exist.  The in-memory store refuses; MySQL's INSERT IGNORE
\* skips the row that violates the foreign key and reports success.
JoinNowhere(w) ==
  /\ at[w] = "write"
  /\ job[w].kind = "join"
  /\ job[w].room \notin rooms
  /\ IF mysql
       THEN /\ Proceed(w, "cache")
            /\ clean' = [clean EXCEPT ![w] = FALSE]
            /\ ghosts' = ghosts \cup {Pair(job[w])}
            /\ UNCHANGED <<job, out>>
       ELSE EndHandler(w) /\ UNCHANGED ghosts
  /\ UNCHANGED <<rooms, members, loaded, cache, hidden>>
  /\ Watch

\* The query fails: only join_room looks at the result.
WriteFails(w) ==
  /\ mysql
  /\ at[w] = "write"
  /\ IF job[w].kind = "join"
       THEN EndHandler(w) /\ UNCHANGED <<hidden, ghosts>>
       ELSE /\ Proceed(w, "cache")
            /\ clean' = [clean EXCEPT ![w] = FALSE]
            /\ hidden' = IF job[w].kind = "leave" THEN hidden \cup {Pair(job[w])} ELSE hidden
            /\ ghosts' = IF job[w].kind = "create" THEN ghosts \cup {Pair(job[w])} ELSE ghosts
            /\ UNCHANGED <<job, out>>
  /\ UNCHANGED <<rooms, members, loaded, cache>>
  /\ Watch

\* The INSERT is carried out and its answer is lost: join_room reports an error,
\* and a cache that is loaded does not learn of the row.
JoinUnreported(w) ==
  /\ mysql
  /\ at[w] = "write"
  /\ job[w].kind = "join"
  /\ job[w].room \in rooms
  /\ members' = members \cup {Pair(job[w])}
  /\ hidden' = IF job[w].room \in loaded THEN hidden \cup {Pair(job[w])} ELSE hidden
  /\ EndHandler(w)
  /\ UNCHANGED <<rooms, loaded, cache, ghosts>>
  /\ Watch

\* Repositories::leave_room succeeds.
WriteLeave(w) ==
  /\ at[w] = "write"
  /\ job[w].kind = "leave"
  /\ members' = members \ {Pair(job[w])}
  /\ Proceed(w, "cache")
  /\ UNCHANGED <<rooms, loaded, cache, job, out, clean, hidden, ghosts>>
  /\ Watch

\* What ensure_loaded leaves in cache_[r]; list_room_members returns no rows
\* when its query fails.
EnsureLoaded(r) ==
  IF r \in loaded THEN {cache[r]} ELSE {Rows(r)} \cup (IF mysql THEN {{}} ELSE {})

\* The rows that ensure_loaded leaves out of the cache it has just built.
Unread(r, us) == IF r \in loaded THEN {} ELSE {r} \X (Rows(r) \ us)

\* One handler that ran alone and wrote what it meant to sets its membership right.
Mended(w) == IF clean[w] THEN {Pair(job[w])} ELSE {}

\* Mutant: on_join marks the room as loaded and does not query the table.
JoinUnloaded(w) ==
  LET r == job[w].room IN
  /\ at[w] = "cache"
  /\ job[w].kind # "leave"
  /\ loaded' = loaded \cup {r}
  /\ cache' = [cache EXCEPT ![r] = @ \cup {job[w].user}]
  /\ hidden' = hidden \ Mended(w)
  /\ ghosts' = ghosts \ Mended(w)
  /\ EndHandler(w)
  /\ UNCHANGED <<rooms, members>>
  /\ Watch

OnJoin(w) ==
  LET r == job[w].room IN
  /\ at[w] = "cache"
  /\ job[w].kind # "leave"
  /\ \E us \in EnsureLoaded(r) :
       /\ cache' = [cache EXCEPT ![r] = us \cup {job[w].user}]
       /\ hidden' = (hidden \cup Unread(r, us)) \ Mended(w)
  /\ ghosts' = ghosts \ Mended(w)
  /\ loaded' = loaded \cup {r}
  /\ EndHandler(w)
  /\ UNCHANGED <<rooms, members>>
  /\ Watch

\* No ensure_loaded here: a room that is not cached stays so.
OnLeave(w) ==
  /\ at[w] = "cache"
  /\ job[w].kind = "leave"
  /\ cache' = [cache EXCEPT ![job[w].room] = @ \ {job[w].user}]
  /\ hidden' = hidden \ Mended(w)
  /\ ghosts' = ghosts \ Mended(w)
  /\ EndHandler(w)
  /\ UNCHANGED <<rooms, members, loaded>>
  /\ Watch

\* is_member, for send_room and history_room.
CheckAs(w, isMember(_, _)) ==
  LET r == job[w].room IN
  /\ at[w] = "check"
  /\ \E us \in EnsureLoaded(r) :
       /\ cache' = [cache EXCEPT ![r] = us]
       /\ hidden' = hidden \cup Unread(r, us)
       /\ Proceed(w, IF ~isMember(job[w].user, us) THEN "refused"
                  ELSE IF job[w].kind = "send" THEN "insert" ELSE "ack")
  /\ loaded' = loaded \cup {r}
  /\ UNCHANGED <<rooms, members, job, out, clean, ghosts>>
  /\ Watch

\* Mutant: the first check of a room only loads it.
CheckUnloaded(w) == LET Hit(u, us) == job[w].room \in loaded /\ u \in us IN CheckAs(w, Hit)

Check(w) == LET Member(u, us) == u \in us IN CheckAs(w, Member)

\* insert_room_msg; no row when the query fails or the room does not exist.
Insert(w) ==
  /\ at[w] = "insert"
  /\ \/ job[w].room \in rooms /\ Proceed(w, "members") /\ UNCHANGED <<job, out, clean>>
     \/ mysql /\ EndHandler(w)
  /\ UNCHANGED <<rooms, members, loaded, cache, hidden, ghosts>>
  /\ Watch

\* members_of; the loop over the members is in Delivery.
MembersAs(w, skip) ==
  LET r == job[w].room IN
  /\ at[w] = "members"
  /\ \E us \in EnsureLoaded(r) :
       /\ cache' = [cache EXCEPT ![r] = us]
       /\ hidden' = hidden \cup Unread(r, us)
       /\ out' = [out EXCEPT ![w] = us \ skip]
  /\ loaded' = loaded \cup {r}
  /\ Proceed(w, "ack")
  /\ UNCHANGED <<rooms, members, job, clean, ghosts>>
  /\ Watch

\* Mutant: the sender is left out of the fan-out.
MembersButSender(w) == MembersAs(w, {job[w].user})

MembersOf(w) == MembersAs(w, {})

Finish(w) ==
  /\ at[w] \in {"ack", "refused"}
  /\ EndHandler(w)
  /\ UNCHANGED <<rooms, members, loaded, cache, hidden, ghosts>>
  /\ Watch

\* The process stops and starts again: the cache is empty, the MySQL tables are
\* as they were.
Restart ==
  /\ loaded' = {}
  /\ cache' = [r \in Rooms |-> {}]
  /\ at' = [w \in Handlers |-> "idle"]
  /\ job' = [w \in Handlers |-> NoJob]
  /\ out' = [w \in Handlers |-> {}]
  /\ clean' = [w \in Handlers |-> FALSE]
  /\ hidden' = {} /\ ghosts' = {}
  /\ IF mysql THEN UNCHANGED <<rooms, members>> ELSE rooms' = {} /\ members' = {}
  /\ Watch

Handle(w) ==
  \/ CreateRoom(w) \/ FindRoom(w)
  \/ WriteJoin(w) \/ JoinNowhere(w) \/ WriteFails(w) \/ JoinUnreported(w) \/ WriteLeave(w)
  \/ OnJoin(w) \/ OnLeave(w)
  \/ Check(w) \/ Insert(w) \/ MembersOf(w) \/ Finish(w)

RoomNext ==
  \/ \E w \in Handlers : (\E j \in Requests : Start(w, j)) \/ Handle(w)
  \/ Restart

RoomSpec == RoomInit /\ [][RoomNext]_roomVars
-----------------------------------------------------------------------------
(* RoomManager's cache says what the table says, for every membership that   *)
(* no handler is just changing, unless there is a cause for the difference.  *)
(* It has a user whom the table lacks only if an INSERT wrote no row, or a   *)
(* join and a leave of the user ran together; a SELECT that fails never does *)
(* that.  It lacks a user whom the table has only if a SELECT or a DELETE    *)
(* failed, the answer to an INSERT was lost, or, again, a join and a leave   *)
(* ran together.  One join or leave that then runs alone, or a restart, sets *)
(* it right (ensure_loaded, on_join, on_leave).                              *)
CacheAgrees ==
  \A r \in loaded, u \in Users : ~Changing(<<r, u>>) =>
    /\ u \in cache[r] => <<r, u>> \in members \cup ghosts
    /\ <<r, u>> \in members => u \in cache[r] \/ <<r, u>> \in hidden

(* Though is_member, the insert and members_of lock separately, a room       *)
(* message goes to everybody whose row was in the table, unchanged and not   *)
(* hidden from the cache, for as long as send_room ran.  Everybody else whom *)
(* it goes to had a row, or a join or a leave under way, at some time while  *)
(* send_room ran, or is one of the ghosts: failed and overlapping writes     *)
(* send it to strangers, failed and late reads never do.                     *)
FanoutIsCurrent ==
  \A w \in Handlers : at[w] = "ack" /\ job[w].kind = "send" => must[w] \subseteq out[w] /\ out[w] \subseteq may[w]

(* send_room and history_room serve a user only if it had a row, or a join   *)
(* or leave under way, at some time since the request was taken up, or is    *)
(* one of the ghosts: a SELECT that fails lets nobody in.  They refuse a     *)
(* user with "not a member of room" only if at some time since then it had   *)
(* no row, or one that was being changed or was hidden from the cache.       *)
MembersAreServed ==
  \A w \in Handlers :
    /\ at[w] \in {"insert", "members", "ack"} => job[w].user \in may[w]
    /\ at[w] = "refused" => job[w].user \notin must[w]
-----------------------------------------------------------------------------
(* What the documentation says and the code does not do.                     *)

(* "The DB remains the source of truth; this cache is kept warm": between    *)
(* handlers, what is cached of a room is what the table holds.               *)
CacheMirrorsTable ==
  \A r \in loaded, u \in Users : ~Changing(<<r, u>>) => (u \in cache[r] <=> <<r, u>> \in members)

(* "After DB write succeeds, update the cache": by the time on_leave is      *)
(* called the row has been deleted.                                          *)
LeaveWritesFirst ==
  \A w \in Handlers : at[w] = "cache" /\ job[w].kind = "leave" => Pair(job[w]) \notin members

(* "Reads fail loud": a query that fails does not make a member a non-member *)
(* whose request is answered with "not a member of this room".               *)
FailedReadIsNotAbsence ==
  \A w \in Handlers : at[w] = "refused" => Pair(job[w]) \notin members
=============================================================================
