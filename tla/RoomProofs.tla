----------------------------- MODULE RoomProofs -----------------------------
(***************************************************************************)
(* For any users, rooms, workers and requests, on either store: the cache  *)
(* of members agrees with the table except where a cause is recorded, and  *)
(* send_room and history_room decide by what was true while they ran.      *)
(***************************************************************************)
EXTENDS RoomManager, TLAPS
-----------------------------------------------------------------------------
(* RoomManager's cache of the room_members table.                            *)
(*                                                                           *)
(* CacheAgrees alone is not inductive: it says nothing of a membership that  *)
(* a handler is changing, and two joins of it may be under way at different  *)
(* places.  Agree excuses less, only a handler between its query and its     *)
(* cache update; OneWay and Written say why the update of such a handler is  *)
(* the one that the table calls for.                                         *)

Shape ==
  /\ members \subseteq Rooms \X Users
  /\ loaded \subseteq Rooms
  /\ cache \in [Rooms -> SUBSET Users]
  /\ at \in [Handlers -> Stages]
  /\ job \in [Handlers -> Job \cup {NoJob}]
  /\ out \in [Handlers -> SUBSET Users]
  /\ clean \in [Handlers -> BOOLEAN]

RoomTypes ==
  /\ Shape
  /\ must \in [Handlers -> SUBSET Users]
  /\ may \in [Handlers -> SUBSET Users]

\* Which request can be at which place.
RoomPlaces ==
  \A w \in Handlers :
    /\ at[w] # "idle" => job[w] \in Job
    /\ at[w] \in {"create", "find"} => job[w].kind = "create"
    /\ at[w] \in {"write", "cache"} => Updates(job[w])
    /\ at[w] \in {"check", "insert", "members", "ack", "refused"} => ~Updates(job[w])

\* A join and a leave of one membership that run together are both unclean, and
\* cache and table may differ on the membership either way.
OneWay ==
  \A v, w \in Handlers :
    at[v] # "idle" /\ at[w] # "idle" /\ Conflict(job[v], job[w]) =>
      ~clean[v] /\ Pair(job[v]) \in hidden /\ Pair(job[v]) \in ghosts

\* The table is as the handler has left it, when it comes to update the cache.
Written ==
  \A w \in Handlers :
    at[w] = "cache" =>
      /\ job[w].kind # "leave" /\ (clean[w] \/ Pair(job[w]) \notin ghosts) => Pair(job[w]) \in members
      /\ job[w].kind = "leave" /\ (clean[w] \/ Pair(job[w]) \notin hidden) => Pair(job[w]) \notin members

\* A handler that has changed this row, or found it so, has yet to tell the cache.
Pending(p) == \E w \in Handlers : at[w] = "cache" /\ Pair(job[w]) = p

Agree ==
  \A r \in loaded, u \in Users : ~Pending(<<r, u>>) =>
    /\ u \in cache[r] => <<r, u>> \in members \/ <<r, u>> \in ghosts
    /\ <<r, u>> \in members => u \in cache[r] \/ <<r, u>> \in hidden

Core == RoomTypes /\ RoomPlaces /\ OneWay /\ Written /\ Agree
RoomInv == Core /\ FanoutIsCurrent /\ MembersAreServed

\* How a worker gets to the places where its request has been decided.
Moves ==
  \A v \in Handlers :
    LET r == job[v].room IN
    /\ at'[v] \in {"insert", "members", "ack"} =>
         /\ job'[v] = job[v] /\ job[v] \in Job
         /\ \/ at[v] \in {"insert", "members", "ack"}
            \/ at[v] = "check" /\ r \in loaded' /\ job[v].user \in cache'[r]
    /\ at'[v] = "refused" =>
         /\ job'[v] = job[v] /\ job[v] \in Job
         /\ \/ at[v] = "refused"
            \/ at[v] = "check" /\ r \in loaded' /\ job[v].user \notin cache'[r]
    /\ at'[v] = "ack" /\ job[v].kind = "send" =>
         \/ at[v] = "ack" /\ out'[v] = out[v]
         \/ at[v] = "members" /\ r \in loaded' /\ out'[v] = cache'[r]
-----------------------------------------------------------------------------
\* A server that starts satisfies the invariant.
LEMMA RoomInitial == RoomInit => RoomInv
<1> SUFFICES ASSUME RoomInit PROVE RoomInv
  OBVIOUS
<1>1. RoomTypes
  BY SMTT(40) DEF RoomInit, RoomTypes, Shape, Stages
<1>2. RoomPlaces /\ OneWay /\ Written /\ Agree /\ FanoutIsCurrent /\ MembersAreServed
  BY DEF RoomInit, RoomPlaces, OneWay, Written, Agree, FanoutIsCurrent, MembersAreServed
<1> QED
  BY <1>1, <1>2 DEF RoomInv, Core

\* The history sets are sets of users.
LEMMA WatchTypes ==
  ASSUME RoomTypes, Watch
  PROVE  must' \in [Handlers -> SUBSET Users] /\ may' \in [Handlers -> SUBSET Users]
<1>1. \A r : Settled(r)' \subseteq Users /\ Possible(r)' \subseteq Users
  BY DEF Settled, Possible, Rows
<1> QED
  BY <1>1 DEF RoomTypes, Watch

\* What the cache says after a step is within what the history sets allow.
LEMMA CacheIsCurrent ==
  ASSUME RoomTypes', RoomPlaces', Agree', NEW r \in loaded'
  PROVE  Settled(r)' \subseteq cache'[r] /\ cache'[r] \subseteq Possible(r)'
<1>1. \A u \in Users : Pending(<<r, u>>)' => Changing(<<r, u>>)'
  BY DEF Pending, Changing, RoomPlaces
<1> QED
  BY <1>1 DEF RoomTypes, Shape, Agree, Settled, Possible, Rows

\* The requests that have been decided stay within what the history sets allow.
LEMMA ServedStep ==
  ASSUME RoomInv, Watch, Moves, RoomTypes', RoomPlaces', Agree'
  PROVE  FanoutIsCurrent' /\ MembersAreServed'
<1>1. ASSUME NEW v \in Handlers, at[v] \in {"check", "members"}, at'[v] # "idle",
             NEW r, r = job'[v].room
      PROVE  /\ must'[v] = must[v] \cap Settled(r)'
             /\ may'[v] = may[v] \cup Possible(r)'
  BY <1>1, SMTT(40) DEF Watch, Settled, Possible, Rows, Changing
<1>2. ASSUME NEW v \in Handlers, at[v] # "idle", at'[v] # "idle"
      PROVE  may[v] \subseteq may'[v]
  BY <1>2 DEF Watch
<1>3. ASSUME NEW v \in Handlers, at[v] \in {"ack", "refused"}, at'[v] # "idle"
      PROVE  must'[v] = must[v] /\ may'[v] = may[v]
  BY <1>3 DEF Watch
<1>4. FanoutIsCurrent'
  <2> SUFFICES ASSUME NEW v \in Handlers, at'[v] = "ack", job'[v].kind = "send"
               PROVE  must'[v] \subseteq out'[v] /\ out'[v] \subseteq may'[v]
    BY DEF FanoutIsCurrent
  <2>1. job'[v] = job[v]
    BY DEF Moves
  <2>2. CASE at[v] = "ack" /\ out'[v] = out[v]
    BY <1>3, <2>1, <2>2 DEF RoomInv, FanoutIsCurrent
  <2>3. CASE at[v] = "members" /\ job[v].room \in loaded' /\ out'[v] = cache'[job[v].room]
    BY <1>1, <2>1, <2>3, CacheIsCurrent
  <2> QED
    BY <2>1, <2>2, <2>3 DEF Moves
<1>5. ASSUME NEW v \in Handlers, at'[v] \in {"insert", "members", "ack"}
      PROVE  job'[v].user \in may'[v]
  <2>1. job'[v] = job[v]
    BY <1>5 DEF Moves
  <2>2. CASE at[v] \in {"insert", "members", "ack"}
    BY <1>2, <1>5, <2>1, <2>2 DEF RoomInv, MembersAreServed
  <2>3. CASE at[v] = "check" /\ job[v].room \in loaded' /\ job[v].user \in cache'[job[v].room]
    BY <1>1, <1>5, <2>1, <2>3, CacheIsCurrent
  <2> QED
    BY <1>5, <2>2, <2>3 DEF Moves
<1>6. ASSUME NEW v \in Handlers, at'[v] = "refused"
      PROVE  job'[v].user \notin must'[v]
  <2>1. job'[v] = job[v]
    BY <1>6 DEF Moves
  <2>2. CASE at[v] = "refused"
    BY <1>3, <1>6, <2>1, <2>2 DEF RoomInv, MembersAreServed
  <2>3. CASE at[v] = "check" /\ job[v].room \in loaded' /\ job[v].user \notin cache'[job[v].room]
    BY <1>1, <1>6, <2>1, <2>3, CacheIsCurrent
  <2> QED
    BY <1>6, <2>2, <2>3 DEF Moves
<1> QED
  BY <1>4, <1>5, <1>6, SMTT(40) DEF MembersAreServed

\* What ensure_loaded leaves in the cache of a room: what was there, the rows, or
\* nothing, when its query fails.
LEMMA Ensured ==
  ASSUME Shape, NEW r \in Rooms, NEW us \in EnsureLoaded(r)
  PROVE  /\ us \subseteq Users
         /\ r \in loaded => us = cache[r] /\ Unread(r, us) = {}
         /\ r \notin loaded =>
              /\ \A u \in us : <<r, u>> \in members
              /\ \A u \in Users : <<r, u>> \in members /\ u \notin us => <<r, u>> \in Unread(r, us)
<1>1. CASE r \in loaded
  BY <1>1 DEF Shape, EnsureLoaded, Unread
<1>2. CASE r \notin loaded
  <2>1. us = Rows(r) \/ us = {}
    BY <1>2 DEF EnsureLoaded
  <2>2. Unread(r, us) = {r} \X (Rows(r) \ us)
    BY <1>2 DEF Unread
  <2> QED
    BY <1>2, <2>1, <2>2, Zenon DEF Rows
<1> QED
  BY <1>1, <1>2

\* Loading a room keeps the agreement: what the query has missed is hidden.
LEMMA LoadKeepsAgree ==
  ASSUME Agree, Shape, NEW r \in Rooms, NEW us \in EnsureLoaded(r),
         cache' = [cache EXCEPT ![r] = us], hidden' = hidden \cup Unread(r, us), ghosts' = ghosts,
         loaded' = loaded \cup {r}, members' = members, job' = job,
         \A v \in Handlers : at'[v] = "cache" <=> at[v] = "cache"
  PROVE  Agree'
<1>1. \A p : Pending(p)' <=> Pending(p)
  BY DEF Pending
<1> SUFFICES ASSUME NEW s \in loaded', NEW u \in Users, ~Pending(<<s, u>>)
             PROVE  /\ u \in cache'[s] => <<s, u>> \in members \/ <<s, u>> \in ghosts
                    /\ <<s, u>> \in members => u \in cache'[s] \/ <<s, u>> \in hidden'
  BY <1>1 DEF Agree
<1>2. CASE s \in loaded /\ s # r
  BY <1>2 DEF Agree, Shape
<1>3. CASE s = r /\ r \in loaded
  BY <1>3, Ensured DEF Agree, Shape
<1>4. CASE s = r /\ r \notin loaded
  <2>1. cache'[s] = us
    BY <1>4 DEF Shape
  <2> QED
    BY <1>4, <2>1, Ensured
<1> QED
  BY <1>2, <1>3, <1>4, SMTT(40)

\* A request that is taken up makes its rivals and itself unclean.
LEMMA StartStep ==
  ASSUME Core, NEW w \in Handlers, NEW j \in Requests, Start(w, j)
  PROVE  Core' /\ Moves /\ Watch
<1> USE RoomAssumption DEF Core, RoomTypes, Shape
<1>1. Watch
  BY SMTT(40) DEF Start, Proceed, First
<1>room. j \in Job /\ j.kind \in Kinds /\ First[j.kind] \in Stages
  <2>1. j \in Job
    BY ONLY RoomAssumption, j \in Requests, Zenon
  <2>2. j.kind \in Kinds
    BY ONLY <2>1, SMTT(40) DEF Job
  <2>3. First[j.kind] \in Stages
    BY ONLY <2>2, SMTT(40) DEF Kinds, First, Stages
  <2> QED
    BY ONLY <2>1, <2>2, <2>3
<1>2. Shape'
  BY <1>room, Zenon DEF Job, Start, Proceed, First
<1>3. RoomPlaces'
  <2>1. /\ First[j.kind] \in {"create", "find"} => j.kind = "create"
        /\ First[j.kind] \in {"write", "cache"} => Updates(j)
        /\ First[j.kind] \in {"check", "insert", "members", "ack", "refused"} => ~Updates(j)
    BY ONLY <1>room, SMTT(40) DEF Kinds, First, Updates
  <2>2. /\ at' = [at EXCEPT ![w] = First[j.kind]]
        /\ job' = [job EXCEPT ![w] = j]
    BY Zenon DEF Start, Proceed
  <2>3. at \in [Handlers -> Stages] /\ job \in [Handlers -> Job \cup {NoJob}] /\ RoomPlaces
    BY Zenon
  <2>4. \A v \in Handlers \ {w} : at'[v] = at[v] /\ job'[v] = job[v]
    BY ONLY <2>2, <2>3, Zenon
  <2>5. at'[w] = First[j.kind] /\ job'[w] = j
    BY ONLY <2>2, <2>3, w \in Handlers, Zenon
  <2> QED
    BY ONLY <1>room, <2>1, <2>3, <2>4, <2>5, ZenonT(40) DEF RoomPlaces, Updates
<1>4. OneWay'
  BY ZenonT(40) DEF OneWay, Conflict, RoomPlaces, Start, Proceed, First
<1>5. Written'
  BY SMTT(40) DEF Written, Job, Kinds, Start, Proceed, First
<1>6. Agree'
  BY SMTT(40) DEF Agree, Pending, Job, Kinds, Start, Proceed, First
<1>7. Moves
  <2>1. First[j.kind] \notin {"insert", "members", "ack", "refused"}
    BY ONLY <1>room DEF Kinds, First
  <2>2. /\ at' = [at EXCEPT ![w] = First[j.kind]]
        /\ job' = [job EXCEPT ![w] = j]
        /\ out' = out
    BY Zenon DEF Start, Proceed
  <2>3. at \in [Handlers -> Stages] /\ job \in [Handlers -> Job \cup {NoJob}] /\ RoomPlaces
    BY Zenon
  <2>4. at'[w] \notin {"insert", "members", "ack", "refused"}
    BY ONLY <2>1, <2>2, <2>3, w \in Handlers, Zenon
  <2>5. \A v \in Handlers \ {w} : at'[v] = at[v] /\ job'[v] = job[v] /\ out'[v] = out[v]
    BY ONLY <2>2, <2>3, Zenon
  <2> QED
    BY ONLY <2>3, <2>4, <2>5, SMTT(40) DEF Moves, RoomPlaces
<1> QED
  BY <1>1, <1>2, <1>3, <1>4, <1>5, <1>6, <1>7, WatchTypes, SMTT(40)

\* Repositories::create_room.
LEMMA CreateStep ==
  ASSUME Core, NEW w \in Handlers, CreateRoom(w)
  PROVE  Core' /\ Moves /\ Watch
<1> USE RoomAssumption DEF Core, RoomTypes, Shape
<1>1. Watch
  BY DEF CreateRoom, Proceed
<1>2. Shape'
  BY DEF Stages, CreateRoom, Proceed
<1>3. RoomPlaces'
  BY DEF RoomPlaces, Updates, CreateRoom, Proceed
<1>4. OneWay'
  BY DEF OneWay, CreateRoom, Proceed
<1>5. Written'
  BY DEF Written, CreateRoom, Proceed
<1>6. Agree'
  BY SMTT(40) DEF Agree, Pending, CreateRoom, Proceed
<1>7. Moves
  BY SMTT(40) DEF Moves, RoomPlaces, CreateRoom, Proceed
<1> QED
  BY <1>1, <1>2, <1>3, <1>4, <1>5, <1>6, <1>7, WatchTypes, SMTT(40)

\* find_room_by_name, for a room that exists.
LEMMA FindStep ==
  ASSUME Core, NEW w \in Handlers, FindRoom(w)
  PROVE  Core' /\ Moves /\ Watch
<1> USE RoomAssumption DEF Core, RoomTypes, Shape
<1>1. Watch
  BY DEF FindRoom, EndHandler, Proceed
<1>2. Shape'
  BY Zenon DEF Stages, FindRoom, EndHandler, Proceed
<1>3. RoomPlaces'
  BY DEF RoomPlaces, Updates, FindRoom, EndHandler, Proceed
<1>4. OneWay'
  BY DEF OneWay, FindRoom, EndHandler, Proceed
<1>5. Written'
  BY DEF Written, FindRoom, EndHandler, Proceed
<1>6. Agree'
  BY SMTT(40) DEF Agree, Pending, FindRoom, EndHandler, Proceed
<1>7. Moves
  BY SMTT(40) DEF Moves, RoomPlaces, FindRoom, EndHandler, Proceed
<1> QED
  BY <1>1, <1>2, <1>3, <1>4, <1>5, <1>6, <1>7, WatchTypes

\* A join's row: whoever is about to take it out is a rival, and unclean.
LEMMA WriteJoinStep ==
  ASSUME Core, NEW w \in Handlers, WriteJoin(w)
  PROVE  Core' /\ Moves /\ Watch
<1> USE RoomAssumption DEF Core, RoomTypes, Shape
<1>1. Watch
  BY DEF WriteJoin, Proceed
<1>2. Shape'
  BY DEF RoomPlaces, Updates, Job, Stages, Pair, WriteJoin, Proceed
<1>3. RoomPlaces'
  BY DEF RoomPlaces, WriteJoin, Proceed
<1>4. OneWay'
  BY DEF OneWay, WriteJoin, Proceed
<1>5. Written'
  BY DEF Written, OneWay, Conflict, RoomPlaces, WriteJoin, Proceed
<1>6. Agree'
  BY SMTT(40) DEF Agree, Pending, Pair, WriteJoin, Proceed
<1>7. Moves
  BY SMTT(40) DEF Moves, RoomPlaces, WriteJoin, Proceed
<1> QED
  BY <1>1, <1>2, <1>3, <1>4, <1>5, <1>6, <1>7, WatchTypes

\* A leave's row: whoever is about to put it back is a rival, and unclean.
LEMMA WriteLeaveStep ==
  ASSUME Core, NEW w \in Handlers, WriteLeave(w)
  PROVE  Core' /\ Moves /\ Watch
<1> USE RoomAssumption DEF Core, RoomTypes, Shape
<1>1. Watch
  BY DEF WriteLeave, Proceed
<1>2. Shape'
  BY DEF Stages, WriteLeave, Proceed
<1>3. RoomPlaces'
  BY DEF RoomPlaces, WriteLeave, Proceed
<1>4. OneWay'
  BY SMTT(40) DEF OneWay, WriteLeave, Proceed
<1>5. Written'
  BY SMTT(40) DEF Written, OneWay, Conflict, RoomPlaces, WriteLeave, Proceed
<1>6. Agree'
  BY SMTT(40) DEF Agree, Pending, Pair, WriteLeave, Proceed
<1>7. Moves
  BY SMTT(40) DEF Moves, RoomPlaces, WriteLeave, Proceed
<1> QED
  BY <1>1, <1>2, <1>3, <1>4, <1>5, <1>6, <1>7, WatchTypes

\* A join of a room that does not exist.
LEMMA NowhereStep ==
  ASSUME Core, NEW w \in Handlers, JoinNowhere(w)
  PROVE  Core' /\ Moves /\ Watch
<1> USE RoomAssumption DEF Core, RoomTypes, Shape
<1>1. Watch
  BY DEF JoinNowhere, EndHandler, Proceed
<1>2. Shape'
  BY Zenon DEF Stages, JoinNowhere, EndHandler, Proceed
<1>3. RoomPlaces'
  BY DEF RoomPlaces, JoinNowhere, EndHandler, Proceed
<1>4. OneWay'
  BY SMTT(40) DEF OneWay, JoinNowhere, EndHandler, Proceed
<1>5. Written'
  BY DEF Written, JoinNowhere, EndHandler, Proceed
<1>6. Agree'
  BY SMTT(40) DEF Agree, Pending, JoinNowhere, EndHandler, Proceed
<1>7. Moves
  BY SMTT(40) DEF Moves, RoomPlaces, JoinNowhere, EndHandler, Proceed
<1> QED
  BY <1>1, <1>2, <1>3, <1>4, <1>5, <1>6, <1>7, WatchTypes

\* A join or a leave whose query fails.
LEMMA FailStep ==
  ASSUME Core, NEW w \in Handlers, WriteFails(w)
  PROVE  Core' /\ Moves /\ Watch
<1> USE RoomAssumption DEF Core, RoomTypes, Shape
<1>1. Watch
  BY DEF WriteFails, EndHandler, Proceed
<1>2. Shape'
  BY ZenonT(40) DEF Stages, WriteFails, EndHandler, Proceed
<1>3. RoomPlaces'
  BY DEF RoomPlaces, WriteFails, EndHandler, Proceed
<1>4. OneWay'
  BY DEF OneWay, WriteFails, EndHandler, Proceed
<1>5. Written'
  <2>1. ASSUME NEW v \in Handlers, v # w PROVE at'[v] = at[v] /\ job'[v] = job[v] /\ clean'[v] = clean[v]
    BY <2>1, ZenonT(40) DEF WriteFails, EndHandler, Proceed
  <2>2. members' = members /\ hidden \subseteq hidden' /\ ghosts \subseteq ghosts'
    BY Zenon DEF WriteFails
  <2>3. ASSUME at'[w] = "cache"
        PROVE  /\ job'[w] = job[w] /\ ~clean'[w]
               /\ job[w].kind = "leave" => Pair(job[w]) \in hidden'
               /\ job[w].kind # "leave" => Pair(job[w]) \in ghosts'
    BY <2>3 DEF WriteFails, EndHandler, Proceed, RoomPlaces, Updates
  <2>4. Pair(job[w])' = Pair(job'[w]) /\ \A v \in Handlers : Pair(job[v])' = Pair(job'[v])
    BY SMTT(40) DEF Pair
  <2> QED
    BY <2>1, <2>2, <2>3, <2>4, Zenon DEF Written
<1>6. Agree'
  BY SMTT(40) DEF Agree, Pending, WriteFails, EndHandler, Proceed
<1>7. Moves
  BY SMTT(40) DEF Moves, RoomPlaces, WriteFails, EndHandler, Proceed
<1> QED
  BY <1>1, <1>2, <1>3, <1>4, <1>5, <1>6, <1>7, WatchTypes

\* A join whose INSERT is carried out and reported as failed.
LEMMA UnreportedStep ==
  ASSUME Core, NEW w \in Handlers, JoinUnreported(w)
  PROVE  Core' /\ Moves /\ Watch
<1> USE RoomAssumption DEF Core, RoomTypes, Shape
<1>1. Watch
  BY DEF JoinUnreported, EndHandler, Proceed
<1>2. Shape'
  <2>1. job[w] \in Job /\ Pair(job[w]) \in Rooms \X Users
    BY DEF RoomPlaces, Job, Pair, JoinUnreported
  <2> QED
    BY <2>1, ZenonT(40) DEF Stages, JoinUnreported, EndHandler, Proceed
<1>3. RoomPlaces'
  BY SMTT(40) DEF RoomPlaces, JoinUnreported, EndHandler, Proceed
<1>4. OneWay'
  BY SMTT(40) DEF OneWay, JoinUnreported, EndHandler, Proceed
<1>5. Written'
  BY SMTT(40) DEF Written, OneWay, Conflict, RoomPlaces, JoinUnreported, EndHandler, Proceed
<1>6. Agree'
  BY SMTT(40) DEF Agree, Pending, Pair, JoinUnreported, EndHandler, Proceed
<1>7. Moves
  BY DEF Moves, RoomPlaces, JoinUnreported, EndHandler, Proceed
<1> QED
  BY <1>1, <1>2, <1>3, <1>4, <1>5, <1>6, <1>7, WatchTypes

\* on_join.
LEMMA OnJoinStep ==
  ASSUME Core, NEW w \in Handlers, OnJoin(w)
  PROVE  Core' /\ Moves /\ Watch
<1> USE RoomAssumption DEF Core, RoomTypes, Shape
<1>1. Watch
  BY DEF OnJoin, EnsureLoaded, Unread, EndHandler, Proceed
<1> DEFINE r == job[w].room
<1>room. r \in Rooms /\ job[w].user \in Users
  BY DEF RoomPlaces, Job, OnJoin
<1>load. PICK us \in EnsureLoaded(r) :
           /\ cache' = [cache EXCEPT ![r] = us \cup {job[w].user}]
           /\ hidden' = (hidden \cup Unread(r, us)) \ Mended(w)
  BY ZenonT(40) DEF OnJoin
<1>users. us \subseteq Users
  BY <1>room, Ensured, SMTT(40)
<1>read. /\ r \in loaded => us = cache[r] /\ Unread(r, us) = {}
         /\ r \notin loaded =>
              /\ \A u \in us : <<r, u>> \in members
              /\ \A u \in Users : <<r, u>> \in members /\ u \notin us => <<r, u>> \in Unread(r, us)
  BY <1>room, Ensured, SMTT(40)
<1>2. Shape'
  BY <1>room, <1>load, <1>users, SMTT(40)
     DEF Stages, OnJoin, Mended, EnsureLoaded, Unread, EndHandler, Proceed
<1>3. RoomPlaces'
  BY SMTT(40) DEF RoomPlaces, OnJoin, Mended, EnsureLoaded, Unread, EndHandler, Proceed
<1>4. OneWay'
  BY ZenonT(40)
     DEF OneWay, Conflict, RoomPlaces, OnJoin, Mended, EnsureLoaded, Unread, EndHandler, Proceed
<1>5. Written'
  BY ZenonT(40)
     DEF Written, OneWay, Conflict, RoomPlaces, OnJoin, Mended, EnsureLoaded, Unread, EndHandler, Proceed
<1>6. Agree'
  <2> SUFFICES ASSUME NEW s \in loaded', NEW u \in Users, ~Pending(<<s, u>>)'
               PROVE  /\ u \in cache'[s] => <<s, u>> \in members \/ <<s, u>> \in ghosts'
                      /\ <<s, u>> \in members => u \in cache'[s] \/ <<s, u>> \in hidden'
    BY SMTT(40) DEF Agree, OnJoin
  <2>1. loaded' = loaded \cup {r} /\ ghosts' = ghosts \ Mended(w)
    BY SMTT(40) DEF OnJoin
  <2>2. ASSUME <<s, u>> # <<r, job[w].user>>
        PROVE  /\ ~Pending(<<s, u>>)
               /\ <<s, u>> \in ghosts => <<s, u>> \in ghosts'
               /\ <<s, u>> \in hidden \cup Unread(r, us) => <<s, u>> \in hidden'
    BY <2>1, <2>2, <1>load, SMTT(40) DEF Pending, OnJoin, EndHandler, Proceed, Pair, Mended
  <2>3. CASE s = r /\ u = job[w].user
    <3>1. u \in cache'[s]
      BY <2>3, <1>room, <1>load, ZenonT(40)
    <3>2. Pair(job[w]) \in members \/ Pair(job[w]) \in ghosts'
      BY <2>1, SMTT(40) DEF Written, OnJoin, Mended
    <3> QED
      BY <2>3, <3>1, <3>2, ZenonT(40) DEF Pair
  <2>4. CASE s = r /\ u # job[w].user
    <3>1. u \in cache'[s] <=> u \in us
      BY <2>4, <1>room, <1>load, SMTT(40)
    <3>2. /\ ~Pending(<<r, u>>)
          /\ <<r, u>> \in ghosts => <<r, u>> \in ghosts'
          /\ <<r, u>> \in hidden \cup Unread(r, us) => <<r, u>> \in hidden'
      BY <2>2, <2>4
    <3>3. CASE r \in loaded
      <4>1. /\ u \in cache[r] => <<r, u>> \in members \/ <<r, u>> \in ghosts
            /\ <<r, u>> \in members => u \in cache[r] \/ <<r, u>> \in hidden
        BY <3>2, <3>3, ZenonT(40) DEF Agree
      <4>2. us = cache[r]
        BY <3>3, <1>read, SMTT(40)
      <4> QED
        BY <2>4, <3>1, <3>2, <4>1, <4>2, Zenon
    <3>4. CASE r \notin loaded
      BY <2>4, <3>1, <3>2, <3>4, <1>read, ZenonT(40)
    <3> QED
      BY <3>3, <3>4, SMTT(40)
  <2>5. CASE s # r
    <3>1. s \in loaded /\ cache'[s] = cache[s]
      BY <2>1, <2>5, <1>load, SMTT(40)
    <3> QED
      BY <2>2, <2>5, <3>1, ZenonT(40) DEF Agree
  <2> QED
    BY <2>3, <2>4, <2>5, ZenonT(40)
<1>7. Moves
  BY ZenonT(40) DEF Moves, RoomPlaces, OnJoin, Mended, EnsureLoaded, Unread, EndHandler, Proceed
<1> QED
  BY <1>1, <1>2, <1>3, <1>4, <1>5, <1>6, <1>7, WatchTypes, SMTT(40)

\* on_leave.
LEMMA OnLeaveStep ==
  ASSUME Core, NEW w \in Handlers, OnLeave(w)
  PROVE  Core' /\ Moves /\ Watch
<1> USE RoomAssumption DEF Core, RoomTypes, Shape
<1>1. Watch
  BY DEF OnLeave, EndHandler, Proceed
<1>2. Shape'
  BY ZenonT(40) DEF Stages, OnLeave, Mended, EndHandler, Proceed
<1>3. RoomPlaces'
  BY SMTT(40) DEF RoomPlaces, OnLeave, Mended, EndHandler, Proceed
<1>4. OneWay'
  BY ZenonT(40) DEF OneWay, Conflict, RoomPlaces, OnLeave, Mended, EndHandler, Proceed
<1>5. Written'
  BY ZenonT(40) DEF Written, OneWay, Conflict, RoomPlaces, OnLeave, Mended, EndHandler, Proceed
<1>6. Agree'
  BY SMTT(40)
     DEF Agree, Pending, Written, OneWay, Conflict, RoomPlaces, Pair, Job, OnLeave, Mended, EndHandler, Proceed
<1>7. Moves
  BY ZenonT(40) DEF Moves, RoomPlaces, OnLeave, Mended, EndHandler, Proceed
<1> QED
  BY <1>1, <1>2, <1>3, <1>4, <1>5, <1>6, <1>7, WatchTypes

\* is_member.
LEMMA CheckStep ==
  ASSUME Core, NEW w \in Handlers, Check(w)
  PROVE  Core' /\ Moves /\ Watch
<1> USE RoomAssumption DEF Core, RoomTypes, Shape
<1>1. Watch
  BY SMTT(40) DEF Check, CheckAs, EnsureLoaded, Unread, Proceed
<1> DEFINE r == job[w].room
<1>room. r \in Rooms /\ job[w].user \in Users
  BY DEF RoomPlaces, Job, Check, CheckAs
<1>load. PICK us \in EnsureLoaded(r) : cache' = [cache EXCEPT ![r] = us] /\ hidden' = hidden \cup Unread(r, us)
  BY ZenonT(40) DEF Check, CheckAs
<1>users. us \subseteq Users
  BY <1>room, Ensured
<1>2. Shape'
  BY <1>room, <1>load, <1>users, SMTT(40) DEF Stages, Check, CheckAs, EnsureLoaded, Unread, Proceed
<1>3. RoomPlaces'
  BY SMTT(40) DEF RoomPlaces, Check, CheckAs, EnsureLoaded, Unread, Proceed
<1>4. OneWay'
  BY ZenonT(40) DEF OneWay, Check, CheckAs, EnsureLoaded, Unread, Proceed
<1>5. Written'
  BY DEF Written, Check, CheckAs, EnsureLoaded, Unread, Proceed
<1>6. Agree'
  BY <1>room, <1>load, LoadKeepsAgree, ZenonT(40) DEF Check, CheckAs, Proceed
<1>7. Moves
  <2>1. PICK found : /\ cache' = [cache EXCEPT ![r] = found]
                     /\ at' = [at EXCEPT ![w] = IF job[w].user \notin found THEN "refused"
                                                 ELSE IF job[w].kind = "send" THEN "insert" ELSE "ack"]
    BY Zenon DEF Check, CheckAs, Proceed
  <2>2. at[w] = "check" /\ loaded' = loaded \cup {r} /\ job' = job /\ out' = out
    BY Zenon DEF Check, CheckAs
  <2>3. cache \in [Rooms -> SUBSET Users] /\ at \in [Handlers -> Stages] /\ RoomPlaces
    BY ZenonT(40)
  <2> QED
    BY ONLY <1>room, <2>1, <2>2, <2>3, w \in Handlers, ZenonT(40) DEF Moves, RoomPlaces
<1> QED
  BY <1>1, <1>2, <1>3, <1>4, <1>5, <1>6, <1>7, WatchTypes

\* insert_room_msg.
LEMMA InsertStep ==
  ASSUME Core, NEW w \in Handlers, Insert(w)
  PROVE  Core' /\ Moves /\ Watch
<1> USE RoomAssumption DEF Core, RoomTypes, Shape
<1>1. Watch
  BY DEF Insert, EndHandler, Proceed
<1>2. Shape'
  BY ZenonT(40) DEF Stages, Insert, EndHandler, Proceed
<1>3. RoomPlaces'
  BY SMTT(40) DEF RoomPlaces, Insert, EndHandler, Proceed
<1>4. OneWay'
  BY SMTT(40) DEF OneWay, Insert, EndHandler, Proceed
<1>5. Written'
  BY SMTT(40) DEF Written, Insert, EndHandler, Proceed
<1>6. Agree'
  BY SMTT(40) DEF Agree, Pending, Insert, EndHandler, Proceed
<1>7. Moves
  BY SMTT(40) DEF Moves, RoomPlaces, Insert, EndHandler, Proceed
<1> QED
  BY <1>1, <1>2, <1>3, <1>4, <1>5, <1>6, <1>7, WatchTypes

\* members_of.
LEMMA MembersStep ==
  ASSUME Core, NEW w \in Handlers, MembersOf(w)
  PROVE  Core' /\ Moves /\ Watch
<1> USE RoomAssumption DEF Core, RoomTypes, Shape
<1>1. Watch
  BY SMTT(40) DEF MembersOf, MembersAs, EnsureLoaded, Unread, Proceed
<1> DEFINE r == job[w].room
<1>room. r \in Rooms /\ job[w].user \in Users
  BY DEF RoomPlaces, Job, MembersOf, MembersAs
<1>load. PICK us \in EnsureLoaded(r) : cache' = [cache EXCEPT ![r] = us] /\ hidden' = hidden \cup Unread(r, us)
  BY ZenonT(40) DEF MembersOf, MembersAs
<1>users. us \subseteq Users
  BY <1>room, Ensured
<1>2. Shape'
  BY <1>room, <1>load, <1>users, SMTT(40)
     DEF Stages, MembersOf, MembersAs, EnsureLoaded, Unread, Proceed
<1>3. RoomPlaces'
  BY SMTT(40) DEF RoomPlaces, MembersOf, MembersAs, EnsureLoaded, Unread, Proceed
<1>4. OneWay'
  BY SMTT(40) DEF OneWay, MembersOf, MembersAs, EnsureLoaded, Unread, Proceed
<1>5. Written'
  BY DEF Written, MembersOf, MembersAs, EnsureLoaded, Unread, Proceed
<1>6. Agree'
  BY <1>room, <1>load, LoadKeepsAgree, ZenonT(40) DEF MembersOf, MembersAs, Proceed
<1>7. Moves
  <2>1. PICK found : /\ cache' = [cache EXCEPT ![r] = found]
                     /\ out' = [out EXCEPT ![w] = found]
    <3>1. \A all : all \ {} = all
      OBVIOUS
    <3> QED
      BY <3>1, Zenon DEF MembersOf, MembersAs
  <2>2. /\ at[w] = "members" /\ at' = [at EXCEPT ![w] = "ack"]
        /\ loaded' = loaded \cup {r} /\ job' = job
    BY Zenon DEF MembersOf, MembersAs, Proceed
  <2>3. /\ cache \in [Rooms -> SUBSET Users] /\ out \in [Handlers -> SUBSET Users]
        /\ at \in [Handlers -> Stages] /\ RoomPlaces
    BY ZenonT(40)
  <2> QED
    BY ONLY <1>room, <2>1, <2>2, <2>3, w \in Handlers, ZenonT(40) DEF Moves, RoomPlaces
<1> QED
  BY <1>1, <1>2, <1>3, <1>4, <1>5, <1>6, <1>7, WatchTypes

\* The handler's end.
LEMMA FinishStep ==
  ASSUME Core, NEW w \in Handlers, Finish(w)
  PROVE  Core' /\ Moves /\ Watch
<1> USE RoomAssumption DEF Core, RoomTypes, Shape
<1>1. Watch
  BY DEF Finish, EndHandler, Proceed
<1>2. Shape'
  BY SMTT(40) DEF Stages, Finish, EndHandler, Proceed
<1>3. RoomPlaces'
  BY SMTT(40) DEF RoomPlaces, Finish, EndHandler, Proceed
<1>4. OneWay'
  BY SMTT(40) DEF OneWay, Finish, EndHandler, Proceed
<1>5. Written'
  BY SMTT(40) DEF Written, Finish, EndHandler, Proceed
<1>6. Agree'
  BY SMTT(40) DEF Agree, Pending, Finish, EndHandler, Proceed
<1>7. Moves
  BY ZenonT(40) DEF Moves, RoomPlaces, Finish, EndHandler, Proceed
<1> QED
  BY <1>1, <1>2, <1>3, <1>4, <1>5, <1>6, <1>7, WatchTypes

\* A restart forgets the cache and the handlers.
LEMMA RestartStep ==
  ASSUME Core, Restart
  PROVE  Core' /\ Moves /\ Watch
<1> USE RoomAssumption DEF Core, RoomTypes, Shape
<1>1. Watch
  BY DEF Restart
<1>2. Shape'
  BY SMTT(40) DEF Stages, Restart
<1>3. RoomPlaces'
  BY SMTT(40) DEF RoomPlaces, Restart
<1>4. OneWay'
  BY SMTT(40) DEF OneWay, Restart
<1>5. Written'
  BY SMTT(40) DEF Written, Restart
<1>6. Agree'
  BY SMTT(40) DEF Agree, Pending, Restart
<1>7. Moves
  BY DEF Moves, RoomPlaces, Restart
<1> QED
  BY <1>1, <1>2, <1>3, <1>4, <1>5, <1>6, <1>7, WatchTypes, SMTT(40)

\* Every step keeps the invariant.
LEMMA RoomKept ==
  ASSUME RoomInv, [RoomNext]_roomVars
  PROVE  RoomInv'
<1>1. CASE UNCHANGED roomVars
  BY <1>1, ZenonT(40)
     DEF roomVars, RoomInv, Core, RoomTypes, Shape, RoomPlaces, OneWay, Written, Agree, Pending,
     FanoutIsCurrent, MembersAreServed
<1>2. CASE RoomNext
  <2>1. Core
    BY SMTT(40) DEF RoomInv
  <2>2. Core' /\ Moves /\ Watch
    BY <1>2, <2>1, StartStep, CreateStep, FindStep, WriteJoinStep, WriteLeaveStep, NowhereStep, SMTT(40),
       FailStep, UnreportedStep, OnJoinStep, OnLeaveStep, CheckStep, InsertStep, MembersStep, FinishStep,
       RestartStep DEF RoomNext, Handle
  <2>3. FanoutIsCurrent' /\ MembersAreServed'
    BY <2>2, ServedStep, SMTT(40) DEF Core
  <2> QED
    BY <2>2, <2>3 DEF RoomInv
<1> QED
  BY <1>1, <1>2, SMTT(40)

\* The invariant holds throughout.
LEMMA RoomInvariant == RoomSpec => []RoomInv
<1>1. RoomInv /\ [RoomNext]_roomVars => RoomInv'
  BY RoomKept
<1> QED
  BY RoomInitial, <1>1, PTL DEF RoomSpec
-----------------------------------------------------------------------------
(* The cache has a member whom the table lacks only among the ghosts, whom a *)
(* write without a row or a join and a leave that ran together put there,    *)
(* and lacks one whom the table has only among the hidden, whom a failed     *)
(* query or such a join and leave left out (ensure_loaded, on_join,          *)
(* on_leave).  A failed query of any kind is a step of RoomSpec.             *)
THEOREM CacheIsTheTable == RoomSpec => []CacheAgrees
<1>1. RoomInv => CacheAgrees
  <2> SUFFICES ASSUME RoomInv, NEW r \in loaded, NEW u \in Users, ~Changing(<<r, u>>)
               PROVE  /\ u \in cache[r] => <<r, u>> \in members \cup ghosts
                      /\ <<r, u>> \in members => u \in cache[r] \/ <<r, u>> \in hidden
    BY ZenonT(40) DEF CacheAgrees
  <2>1. ~Pending(<<r, u>>)
    BY DEF RoomInv, Core, RoomPlaces, Pending, Changing
  <2> QED
    BY <2>1, ZenonT(40) DEF RoomInv, Core, Agree
<1> QED
  BY <1>1, RoomInvariant, PTL

(* send_room fans out to everybody who was a member, and not hidden, all     *)
(* along, and to nobody who was neither a member, nor changing, nor a ghost  *)
(* at any time while it ran (members_of): a SELECT that fails, or comes      *)
(* late, sends a message to nobody else.                                     *)
THEOREM FanoutFollowsTheTable == RoomSpec => []FanoutIsCurrent
<1>1. RoomInv => FanoutIsCurrent
  BY DEF RoomInv
<1> QED
  BY <1>1, RoomInvariant, PTL

(* Nobody is served who was neither a member, nor changing, nor a ghost all  *)
(* the while, and nobody is refused who was a member, and not hidden, all    *)
(* the while (is_member): a SELECT that fails lets nobody in.                *)
THEOREM MembershipDecides == RoomSpec => []MembersAreServed
<1>1. RoomInv => MembersAreServed
  BY DEF RoomInv
<1> QED
  BY <1>1, RoomInvariant, PTL
==============================================================================
