------------------------------ MODULE History ------------------------------
(***************************************************************************)
(* Reading old messages: history_dm and history_room in both stores, the   *)
(* client that pages backwards with before_id while messages are being     *)
(* written, and the time stamp that a message is stored with.              *)
(*                                                                         *)
(* MySQL hands out an id when an INSERT begins and shows the row when it   *)
(* commits; the in-memory store does both under one lock.  The numbers of  *)
(* a request are cast to unsigned, as in the handlers, with a word that    *)
(* wraps at Word.  A query of MySQL may fail, and is then acked as an      *)
(* empty page.  A reply that is longer than a frame may be is dropped by   *)
(* Connection::send_frame.                                                 *)
(***************************************************************************)
EXTENDS Integers, Sequences, FiniteSets

CONSTANTS
  Users, Rooms,
  Posts,        \* what is written: [from, to], `to` a user or a room
  Queries,      \* whose history is read: {a, b} for two users, {r} for a room, {}
                \*   in a request that names neither
  Limits,       \* the limits that clients ask for
  Clock,        \* the time in milliseconds at which each id is handed out
  Word,         \* 2^32
  Cap,          \* 200
  Fits,         \* messages that fit in a frame
  None

MaxMessages == Len(Clock)  \* bound: messages written

ASSUME HistoryAssumption ==
  /\ Posts \subseteq [from : Users, to : Users \cup Rooms]
  /\ Limits \subseteq Int
  /\ Clock \in Seq(Nat)
  /\ Word \in Nat \ {0}
  /\ Cap \in Nat \ {0}
  /\ Fits \in Nat
  /\ None \notin Queries

VARIABLES
  mysql,    \* the store: MySQL, or the maps in memory; chosen when the server starts
  posted,   \* the messages that have an id: posted[id]
  rows,     \* the ids in the table, in the order in which they became visible
  query,    \* the client's walk: what it reads, None when it does not
  limit,    \*   the limit it asks for
  before,   \*   the next before_id
  got,      \*   the ids it has been sent, as they came
  state,    \*   "asking", "over" (an empty page), "refused" (an error) or "unanswered"
  failed,   \* history: the empty page was a query that failed
  atFirst   \* history: what was visible of the query at the first page

vars == <<mysql, posted, rows, query, limit, before, got, state, failed, atFirst>>
walkVars == <<query, limit, before, got, state, failed, atFirst>>

Ids == 1..MaxMessages
Visible == {rows[i] : i \in DOMAIN rows}

TypeOK ==
  /\ mysql \in BOOLEAN
  /\ posted \in Seq(Posts) /\ Len(posted) <= MaxMessages
  /\ rows \in Seq(1..Len(posted)) /\ Len(rows) = Cardinality(Visible)
  /\ query \in Queries \cup {None}
  /\ limit \in Limits \cup {0}
  /\ before \in Ids \cup {0}
  /\ got \in Seq(Ids)
  /\ state \in {"asking", "over", "refused", "unanswered"}
  /\ failed \in BOOLEAN
  /\ atFirst \subseteq Ids

Init ==
  /\ mysql \in BOOLEAN
  /\ posted = <<>>
  /\ rows = <<>>
  /\ query = None
  /\ limit = 0
  /\ before = 0
  /\ got = <<>>
  /\ state = "over"
  /\ failed = FALSE
  /\ atFirst = {}

\* insert_dm, insert_room_msg: AUTO_INCREMENT or next_msg_id_++.
Insert(p) ==
  /\ Len(posted) < MaxMessages
  /\ posted' = Append(posted, p)
  /\ rows' = IF mysql THEN rows ELSE Append(rows, Len(posted) + 1)
  /\ UNCHANGED <<mysql, walkVars>>

Commit(id) ==
  /\ mysql
  /\ id \in DOMAIN posted
  /\ id \notin Visible
  /\ rows' = Append(rows, id)
  /\ UNCHANGED <<mysql, posted, walkVars>>

\* WHERE room_id = r, or the two directions between a and b.
Match(q, id) == \/ posted[id].to \in Rooms /\ q = {posted[id].to}
                \/ posted[id].to \in Users /\ q = {posted[id].from, posted[id].to}

Smaller(m, n) == IF m < n THEN m ELSE n

Reverse(s) == [i \in 1..Len(s) |-> s[Len(s) + 1 - i]]

\* ORDER BY id DESC LIMIT min(lim, 200), then std::reverse.
MysqlPage(q, b, lim) ==
  LET hits == {id \in Visible : Match(q, id) /\ (b # 0 => id < b)}
      newest == CHOOSE s \in [1..Cardinality(hits) -> hits] : \A i, j \in DOMAIN s : i < j => s[i] > s[j]
  IN Reverse(SubSeq(newest, 1, Smaller(Len(newest), Smaller(lim, Cap))))

\* The in-memory store's loop, from the end of messages_: stop when there are
\* enough, pass over what is too new or does not match.
MemoryPageAs(q, b, lim, tooNew(_, _)) ==
  LET scan[i \in 0..Len(rows)] ==  \* what the loop has collected at index i + 1, newest first
        IF i = Len(rows) THEN <<>>
        ELSE LET out == scan[i + 1]
                 id == rows[i + 1]
             IN IF Len(out) >= lim \/ (b # 0 /\ tooNew(id, b)) \/ ~Match(q, id) THEN out ELSE Append(out, id)
  IN Reverse(scan[0])

\* Mutant: the message before_id is not passed over.
MemoryPageAgain(q, b, lim) == MemoryPageAs(q, b, lim, LAMBDA id, last : id > last)

MemoryPage(q, b, lim) == MemoryPageAs(q, b, lim, LAMBDA id, last : id >= last)

Page(q, b, lim) == IF mysql THEN MysqlPage(q, b, lim % Word) ELSE MemoryPage(q, b, lim % Word)

\* The handler replies with the page, oldest first; the client asks for what is
\* before the first of it until a page comes back empty.
ReplyAs(page, sent) ==
  IF Len(page) > Fits THEN state' = "unanswered" /\ UNCHANGED <<before, got>>
  ELSE IF page = <<>> THEN state' = "over" /\ UNCHANGED <<before, got>>
  ELSE /\ state' = "asking"
       /\ before' = page[1]
       /\ got' = sent \o got

\* Mutant: the last message of the page is left out.
ReplyShort(page) == ReplyAs(page, SubSeq(page, 1, Len(page) - 1))

Reply(page) == ReplyAs(page, page)

\* "user_id required", "room_id required", or is_member says no; what it goes by
\* is in RoomManager.
Refuse(q) ==
  /\ q \subseteq Rooms
  /\ state' = "refused"
  /\ UNCHANGED <<before, got, failed>>

\* One request.  Without a lease, or when the SELECT fails, there are no rows,
\* and the handler acks them like any others.
Ask(q, b, lim) ==
  \/ Refuse(q)
  \/ q # {} /\ Reply(Page(q, b, lim)) /\ UNCHANGED failed
  \/ q # {} /\ mysql /\ Reply(<<>>) /\ failed' = TRUE

FirstPage(q, lim) ==
  /\ query = None
  /\ query' = q
  /\ limit' = lim
  /\ atFirst' = {id \in Visible : Match(q, id)}
  /\ Ask(q, 0, lim)
  /\ UNCHANGED <<mysql, posted, rows>>

NextPage ==
  /\ query # None
  /\ state = "asking"
  /\ Ask(query, before, limit)
  /\ UNCHANGED <<mysql, posted, rows, query, limit, atFirst>>

Leave ==
  /\ query # None
  /\ state # "asking"
  /\ query' = None
  /\ limit' = 0 /\ before' = 0 /\ got' = <<>> /\ state' = "over" /\ failed' = FALSE /\ atFirst' = {}
  /\ UNCHANGED <<mysql, posted, rows>>

Next ==
  \/ \E p \in Posts : Insert(p)
  \/ \E id \in Ids : Commit(id)
  \/ \E q \in Queries, lim \in Limits : FirstPage(q, lim)
  \/ NextPage \/ Leave

Spec == Init /\ [][Next]_vars

\* Mutant: one zero too many, so that a message 10 ms into a second is stored in the next.
FractionCarries(ms) == IF ms < 10 THEN 100 * ms ELSE IF ms < 100 THEN 100 * ms ELSE ms

\* FROM_UNIXTIME(ts / 1000 . ts % 1000): the milliseconds are written without
\* leading zeros and read as decimals.
Fraction(ms) == IF ms < 10 THEN 100 * ms ELSE IF ms < 100 THEN 10 * ms ELSE ms
Stored(ts) == IF mysql THEN 1000 * (ts \div 1000) + Fraction(ts % 1000) ELSE ts
-----------------------------------------------------------------------------
(* Paging backwards with the lowest id of the last page as before_id, while  *)
(* messages are written and become visible out of order, the client is sent  *)
(* only messages of the conversation, each at most once, in the order of the *)
(* ids.  Of the messages that were there when it began it misses none that   *)
(* is newer than one it was sent: wherever the walk ends, what it lacks is   *)
(* at the old end.  A page that comes back empty, and is not a query that    *)
(* failed, leaves it lacking nothing; and it is left without an answer only  *)
(* if it asks for more than a frame can hold.                                *)
PagesAreExact ==
  LET sent == {got[i] : i \in DOMAIN got} IN
  /\ \A i, j \in DOMAIN got : i < j => got[i] < got[j]
  /\ \A id \in sent : id \in Visible /\ Match(query, id)
  /\ limit % Word # 0 => \A id \in atFirst \ sent : \A later \in sent : id < later
  /\ query # None /\ state = "over" /\ ~failed /\ limit % Word # 0 => atFirst \subseteq sent
  /\ state = "unanswered" => limit % Word > Fits

(* The loop of the in-memory store returns what the query of the MySQL store *)
(* returns, for limits that the cap does not change.                         *)
StoresAgree ==
  ~mysql => \A q \in Queries, b \in {0} \cup Ids, lim \in 0..Cap : MemoryPage(q, b, lim) = MysqlPage(q, b, lim)

(* The stored times are in the order of the clock, but for a message of the  *)
(* first 100 ms of a second, which can be stored after a later one of that   *)
(* second.                                                                   *)
TimesKeepOrder ==
  \A i, j \in Visible :
    Clock[i] < Clock[j] =>
      \/ Stored(Clock[i]) < Stored(Clock[j])
      \/ mysql /\ Clock[i] \div 1000 = Clock[j] \div 1000 /\ Clock[i] % 1000 < 100
-----------------------------------------------------------------------------
(* What the documentation says and the code does not do.                     *)

(* "`limit` is capped at 200": not by the in-memory store.                   *)
PagesAreCapped == \A q \in Queries, lim \in Limits : Len(Page(q, 0, lim)) <= Cap

(* "Reads fail loud (we surface an internal error to the client)": an empty  *)
(* page then is the end of the conversation.  A query that fails is acked    *)
(* with one.                                                                 *)
EmptyPageIsTheEnd ==
  query # None /\ state = "over" /\ limit % Word # 0 => atFirst \subseteq {got[i] : i \in DOMAIN got}

(* history_dm is answered with an ack: not when the page is longer than a    *)
(* frame may be, though the limit is within the cap.                         *)
HistoryIsAnswered == limit \in 0..Cap => state # "unanswered"

(* "created_at TIMESTAMP(3) to keep millisecond resolution for ordering":    *)
(* 5 ms are stored as 500 ms.                                                *)
TimesAlwaysKeepOrder ==
  \A i, j \in Visible : Clock[i] < Clock[j] => Stored(Clock[i]) < Stored(Clock[j])
=============================================================================
