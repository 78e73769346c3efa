--------------------------- MODULE IdentityProofs ---------------------------
(***************************************************************************)
(* Sessions and accounts, each for any constants.                          *)
(*                                                                         *)
(* For any tokens, users, workers and ttl, whatever queries fail and       *)
(* however often the process restarts: no token outlives its ttl or its    *)
(* logout, and none is lost, except where a failed query is recorded.      *)
(*                                                                         *)
(* For any names, passwords, connections, workers and instants: a login is *)
(* judged by the password that was registered, and the last_seen of a user *)
(* who is offline is that of the last departure, except where a failure or *)
(* a race that the code leaves open is recorded.                           *)
(***************************************************************************)
EXTENDS MCIdentity, TLAPS

\* Most leaves are first-order: Zenon is the default, SMT is cited by name.
USE Zenon
-----------------------------------------------------------------------------
(* Session: the inductive invariant of Spec.                                 *)

Types ==
  /\ now \in Nat
  /\ cached \subseteq Tokens /\ rows \subseteq Tokens
  /\ userOf \in [Tokens -> Users \cup {NoUser}]
  /\ rowUser \in [Tokens -> Users \cup {NoUser}]
  /\ owner \in [Tokens -> Users \cup {NoUser}]
  /\ expires \in [Tokens -> Nat]
  /\ active \in [Tokens -> Nat]
  /\ born \in [Tokens -> Nat]
  /\ pc \in [Workers -> {"idle", "insert", "delete"}]
  /\ tok \in [Workers -> Tokens \cup {NoToken}]
  /\ up \in BOOLEAN

\* What is cached is what create made, up to the fraction of a second that a
\* reload from the table loses.
CacheIsTrue ==
  \A t \in cached :
    /\ owner[t] # NoUser /\ userOf[t] = owner[t]
    /\ Truncated(born[t]) + Ttl <= expires[t] /\ expires[t] <= born[t] + Ttl

\* A row is what insert_session wrote.
RowsAreTrue ==
  \A t \in rows : owner[t] # NoUser /\ rowUser[t] = owner[t] /\ active[t] = Truncated(born[t])

\* A token is inserted by the worker that made it, once and before any client
\* has it; a token that is being deleted is out of the cache.
InHand ==
  /\ \A w \in Workers : pc[w] # "idle" => up /\ tok[w] \in Tokens /\ owner[tok[w]] # NoUser
  /\ \A w \in Workers : pc[w] = "insert" =>
       tok[w] \notin issued /\ (tok[w] \in cached \/ Truncated(born[tok[w]]) + Ttl <= now)
  /\ \A v, w \in Workers : pc[v] = "insert" /\ pc[w] = "insert" /\ tok[v] = tok[w] => v = w
  /\ \A w \in Workers : pc[w] = "delete" => tok[w] \in revoked /\ tok[w] \notin cached

\* A token's life: made, given to a client, revoked, its logout acked.
Stages ==
  /\ ended \subseteq revoked /\ revoked \subseteq issued
  /\ \A t \in issued : t \in Tokens /\ owner[t] # NoUser

\* After an acked logout nothing is left of a token, in the cache or in the
\* table from which a restart would bring it back.
Gone == \A t \in ended \ undeleted : t \notin cached /\ t \notin rows

\* A token that a client has is in the table, and in the cache until it expires.
Kept ==
  \A t \in issued \ (revoked \cup unsaved) :
    /\ t \in rows
    /\ up => t \in cached \/ Truncated(born[t]) + Ttl <= now

IInv == Types /\ CacheIsTrue /\ RowsAreTrue /\ InHand /\ Stages /\ Gone /\ Kept
-----------------------------------------------------------------------------
\* FROM_UNIXTIME(ts / 1000) is not later than ts.
LEMMA TruncatedFacts ==
  ASSUME NEW ts \in Nat
  PROVE  Truncated(ts) \in Nat /\ Truncated(ts) <= ts
<1>1. Second \in Nat \ {0}
  BY SessionAssumption
<1>2. ts \div Second \in Nat
  BY <1>1, SMT
<1>3. ts = Second * (ts \div Second) + (ts % Second) /\ ts % Second \in Nat
  BY <1>1, SMT
<1>4. (ts \div Second) * Second = Second * (ts \div Second)
  BY <1>1, <1>2, SMT
<1>5. Second * (ts \div Second) \in Nat
  BY <1>1, <1>2, SMT
<1> QED
  BY <1>3, <1>4, <1>5, SMT DEF Truncated

\* A process that starts on an empty table satisfies the invariant.
LEMMA InitIInv == Init => IInv
<1> SUFFICES ASSUME Init PROVE IInv
  OBVIOUS
<1>1. Types
  BY DEF Init, Types
<1>2. CacheIsTrue /\ RowsAreTrue /\ InHand /\ Stages /\ Gone /\ Kept
  BY DEF Init, CacheIsTrue, RowsAreTrue, InHand, Stages, Gone, Kept
<1> QED
  BY <1>1, <1>2 DEF IInv

\* Time only takes tokens towards their expiry.
LEMMA TickStep ==
  ASSUME IInv, Tick
  PROVE  IInv'
<1> USE SessionAssumption DEF IInv, Types
<1>1. Types' /\ CacheIsTrue' /\ RowsAreTrue'
  BY SMT DEF CacheIsTrue, RowsAreTrue, Tick, procVars, tableVars, workVars, histVars
<1>2. InHand'
  BY TruncatedFacts, SMT DEF InHand, Tick, procVars, tableVars, workVars, histVars
<1>3. Stages' /\ Gone'
  BY DEF Stages, Gone, Tick, procVars, tableVars, workVars, histVars
<1>4. Kept'
  BY TruncatedFacts, SMT DEF Kept, Stages, Tick, procVars, tableVars, workVars, histVars
<1> QED
  BY <1>1, <1>2, <1>3, <1>4

\* create caches a token that nobody has.
LEMMA CreateStep ==
  ASSUME IInv, NEW w \in Workers, NEW u \in Users, NEW t \in Tokens,
         Create(w, u, t)
  PROVE  IInv'
<1> USE SessionAssumption DEF IInv, Types
<1>1. Types'
  BY SMT DEF Types, Create, tableVars
<1>2. CacheIsTrue'
  BY TruncatedFacts, SMT DEF CacheIsTrue, Create, tableVars
<1>3. RowsAreTrue'
  BY DEF RowsAreTrue, Create, tableVars
<1>4. InHand'
  BY SMT DEF InHand, Stages, Create, tableVars
<1>5. Stages'
  BY DEF Stages, Create, tableVars
<1>6. Gone'
  BY DEF Gone, Stages, Create, tableVars
<1>7. Kept'
  BY DEF Kept, Stages, Create, tableVars
<1> QED
  BY <1>1, <1>2, <1>3, <1>4, <1>5, <1>6, <1>7

\* insert_session writes what create made, or its failure is recorded.
LEMMA InsertStep ==
  ASSUME IInv, NEW w \in Workers, Insert(w)
  PROVE  IInv'
<1> USE SessionAssumption DEF IInv, Types
<1>1. Types'
  BY TruncatedFacts, SMT DEF InHand, Insert, Done, procVars, tableVars
<1>2. CacheIsTrue'
  BY DEF CacheIsTrue, Insert, Done, procVars, tableVars
<1>3. RowsAreTrue'
  BY SMT DEF RowsAreTrue, InHand, Insert, Done, procVars, tableVars
<1>4. InHand'
  BY DEF InHand, Insert, Done, procVars, tableVars
<1>5. Stages'
  BY SMT DEF Stages, InHand, Insert, Done, procVars, tableVars
<1>6. Gone'
  BY SMT DEF Gone, Stages, InHand, Insert, Done, procVars, tableVars
<1>7. Kept'
  BY SMT DEF Kept, Stages, InHand, Insert, Done, procVars, tableVars
<1> QED
  BY <1>1, <1>2, <1>3, <1>4, <1>5, <1>6, <1>7

\* validate drops only what has expired.
LEMMA ValidateStep ==
  ASSUME IInv, NEW t \in Tokens, Validate(t)
  PROVE  IInv'
<1> USE SessionAssumption DEF IInv, Types
<1>1. Types' /\ RowsAreTrue' /\ Stages'
  BY DEF RowsAreTrue, Stages, Validate, Erase, tableVars, workVars, histVars
<1>2. CacheIsTrue'
  BY DEF CacheIsTrue, Validate, Erase, tableVars, workVars, histVars
<1>3. InHand'
  BY TruncatedFacts, SMT DEF InHand, CacheIsTrue, Validate, Erase, tableVars, workVars, histVars
<1>4. Gone'
  BY DEF Gone, Validate, Erase, tableVars, workVars, histVars
<1>5. Kept'
  BY TruncatedFacts, SMT DEF Kept, Stages, CacheIsTrue, Validate, Erase, tableVars, workVars, histVars
<1> QED
  BY <1>1, <1>2, <1>3, <1>4, <1>5

\* revoke takes the token out of the cache.
LEMMA RevokeStep ==
  ASSUME IInv, NEW w \in Workers, NEW t \in Tokens, Revoke(w, t)
  PROVE  IInv'
<1> USE SessionAssumption DEF IInv, Types
<1>1. Types' /\ RowsAreTrue' /\ Stages'
  BY DEF RowsAreTrue, Stages, Revoke, Erase, tableVars
<1>2. CacheIsTrue'
  BY DEF CacheIsTrue, Revoke, Erase, tableVars
<1>3. InHand'
  BY SMT DEF InHand, Stages, Revoke, Erase, tableVars
<1>4. Gone'
  BY DEF Gone, Revoke, Erase, tableVars
<1>5. Kept'
  BY DEF Kept, Revoke, Erase, tableVars
<1> QED
  BY <1>1, <1>2, <1>3, <1>4, <1>5

\* delete_session takes the row, or its failure is recorded.
LEMMA DeleteStep ==
  ASSUME IInv, NEW w \in Workers, Delete(w)
  PROVE  IInv'
<1> USE SessionAssumption DEF IInv, Types
<1>1. Types' /\ CacheIsTrue'
  BY SMT DEF CacheIsTrue, Delete, DeleteAs, Done, procVars, tableVars
<1>2. RowsAreTrue'
  BY SMT DEF RowsAreTrue, Delete, DeleteAs, Done, procVars, tableVars
<1>3. InHand'
  BY DEF InHand, Delete, DeleteAs, Done, procVars, tableVars
<1>4. Stages'
  BY SMT DEF Stages, InHand, Delete, DeleteAs, Done, procVars, tableVars
<1>5. Gone'
  BY SMT DEF Gone, InHand, Delete, DeleteAs, Done, procVars, tableVars
<1>6. Kept'
  BY SMT DEF Kept, InHand, Delete, DeleteAs, Done, procVars, tableVars
<1> QED
  BY <1>1, <1>2, <1>3, <1>4, <1>5, <1>6

\* A crash leaves the table.
LEMMA CrashStep ==
  ASSUME IInv, Crash
  PROVE  IInv'
<1> USE SessionAssumption DEF IInv, Types
<1>1. Types' /\ CacheIsTrue' /\ RowsAreTrue'
  BY DEF CacheIsTrue, RowsAreTrue, Crash, Erase, tableVars, histVars
<1>2. InHand' /\ Stages' /\ Gone' /\ Kept'
  BY DEF InHand, Stages, Gone, Kept, Crash, Erase, tableVars, histVars
<1> QED
  BY <1>1, <1>2

\* warm brings back the rows that have not expired, or its failure is recorded.
LEMMA WarmStep ==
  ASSUME IInv, Warm
  PROVE  IInv'
<1> USE SessionAssumption DEF IInv, Types
<1>1. Types'
  BY SMT DEF Types, Warm, Load, tableVars, workVars
<1>2. CacheIsTrue'
  BY TruncatedFacts, SMT DEF CacheIsTrue, RowsAreTrue, Warm, Load, tableVars, workVars
<1>3. RowsAreTrue'
  BY DEF RowsAreTrue, Warm, Load, tableVars, workVars
<1>4. InHand' /\ Stages'
  BY DEF InHand, Stages, Warm, Load, tableVars, workVars
<1>5. Gone'
  BY DEF Gone, Warm, Load, tableVars, workVars
<1>6. Kept'
  BY SMT DEF Kept, RowsAreTrue, Warm, Load, tableVars, workVars
<1> QED
  BY <1>1, <1>2, <1>3, <1>4, <1>5, <1>6

\* Every step keeps the invariant.
LEMMA StepIInv == IInv /\ [Next]_vars => IInv'
<1> SUFFICES ASSUME IInv, [Next]_vars PROVE IInv'
  OBVIOUS
<1>1. CASE UNCHANGED vars
  BY <1>1 DEF vars, IInv, Types, CacheIsTrue, RowsAreTrue, InHand, Stages, Gone, Kept
<1>2. CASE Next
  BY <1>2, TickStep, CreateStep, InsertStep, ValidateStep, RevokeStep, DeleteStep,
     CrashStep, WarmStep DEF Next
<1> QED
  BY <1>1, <1>2

\* The invariant holds throughout.
LEMMA Invariance == Spec => []IInv
  BY InitIInv, StepIInv, PTL DEF Spec
-----------------------------------------------------------------------------
(* However often the process restarts, a token is accepted for its user only *)
(* and not after its ttl (SessionManager::create, validate, warm).           *)
THEOREM TtlIsKept == Spec => []NeverOutlivesTtl
<1>1. IInv => NeverOutlivesTtl
  BY SessionAssumption, SMT DEF IInv, Types, CacheIsTrue, NeverOutlivesTtl, Accepts
<1> QED
  BY <1>1, Invariance, PTL

(* A token whose logout was acked is refused for ever, unless a DELETE of it *)
(* failed (SessionManager::revoke, delete_session, warm).                    *)
THEOREM LogoutIsFinal == Spec => []RevokedStaysDead
<1>1. IInv => RevokedStaysDead
  BY DEF IInv, Gone, RevokedStaysDead, Accepts
<1> QED
  BY <1>1, Invariance, PTL

(* A token that a client was given is accepted until its ttl, to the second, *)
(* is over, also after restarts, unless a query about it failed.             *)
THEOREM LoginSurvives == Spec => []SessionsSurvive
<1>1. IInv => SessionsSurvive
  <2> SUFFICES ASSUME IInv, up, NEW t \in issued \ (revoked \cup unsaved),
                      now < Truncated(born[t]) + Ttl
               PROVE  Accepts(t)
    BY DEF SessionsSurvive
  <2>1. t \in Tokens /\ now \in Nat /\ born[t] \in Nat /\ Truncated(born[t]) \in Nat
    BY TruncatedFacts DEF IInv, Types, Stages
  <2>2. t \in cached
    BY <2>1, SessionAssumption, SMT DEF IInv, Kept
  <2>3. Truncated(born[t]) + Ttl <= expires[t] /\ expires[t] \in Nat
    BY <2>1, <2>2 DEF IInv, CacheIsTrue, Types
  <2> QED
    BY <2>1, <2>2, <2>3, SessionAssumption, SMT DEF Accepts
<1> QED
  BY <1>1, Invariance, PTL
-----------------------------------------------------------------------------
(* Accounts: the inductive invariant of A!Spec.                              *)

\* What is in the hands of a thread that is at place p with job j.  A login
\* whose password was acked is compared with that password; one that has passed
\* the comparison has the password of the row.  The row that handle_presence
\* has read, unless it was behind then, is not older than the departure.
Handled(p, j) ==
  /\ p \in {"create", "find", "init", "decode", "welcome", "bind"} =>
       j.name \in Names /\ j.pass \in Passwords
  /\ p \in {"find", "init", "decode", "welcome", "bind"} => j.conn \in Conns
  /\ p \in {"stamp", "update", "row", "online"} => j.name \in Names
  /\ p \in {"find", "init", "decode"} /\ j.due => j.pass = hash[j.name]
  /\ p \in {"welcome", "bind"} => j.pass = hash[j.name]
  /\ p = "answer" /\ j.due /\ ~j.ok => j.fault
  /\ p \in {"row", "online"} => j.pass = None
  /\ p \in {"online", "answer"} /\ j.pass = None /\ ~j.fault => A!Stored(j.left) <= j.time

Threads == \A a \in A!Actors : Handled(at[a], job[a])

\* The row of a registration that was acked is there for good.
AckedIsKept == \A n \in Names, p \in Passwords : <<n, p>> \in acked => hash[n] = p

\* Of a user whose last_seen_at is not known to be behind at most one departure
\* is in flight, which is the last one; when none is, it has been written.
Departing ==
  \A n \in Names :
    /\ left[n] <= clock
    /\ n \notin lapsed =>
         /\ \A a, b \in A!Leaving(n) : a = b
         /\ \A a \in A!Leaving(n) : at[a] = "update" => left[n] <= job[a].time
         /\ A!Leaving(n) = {} => A!Stored(left[n]) <= seen[n]

AInv == A!TypeOK /\ Threads /\ AckedIsKept /\ Departing
-----------------------------------------------------------------------------
\* FROM_UNIXTIME(ts / 1000) keeps the order of instants, and is not later.
LEMMA StoredFacts ==
  ASSUME NEW s \in Nat, NEW t \in Nat, s <= t
  PROVE  A!Stored(s) \in Nat /\ A!Stored(s) <= s /\ A!Stored(s) <= A!Stored(t)
<1>1. Second \in Nat \ {0}
  BY SessionAssumption
<1>2. s \div Second \in Nat /\ t \div Second \in Nat
  BY <1>1, SMT
<1>3. /\ s = Second * (s \div Second) + (s % Second) /\ s % Second \in 0..(Second - 1)
      /\ t = Second * (t \div Second) + (t % Second) /\ t % Second \in 0..(Second - 1)
  BY <1>1, SMT
<1>4. s \div Second <= t \div Second
  BY <1>1, <1>2, <1>3, SMT
<1>5. (s \div Second) * Second <= (t \div Second) * Second
  BY <1>1, <1>2, <1>4, SMT
<1>6. (s \div Second) * Second \in Nat /\ (s \div Second) * Second <= s
  BY <1>1, <1>2, <1>3, SMT
<1> QED
  BY <1>5, <1>6, SMT DEF A!Stored

\* A server that starts on an empty table satisfies the invariant.
LEMMA InitAInv == A!Init => AInv
<1> SUFFICES ASSUME A!Init PROVE AInv
  OBVIOUS
<1>1. A!NoJob \in A!Jobs
  BY IdentityAssumption, SMT DEF A!NoJob, A!Jobs
<1>2. A!TypeOK
  <2>1. 0 \in 0..LastTick
    BY IdentityAssumption, SMT
  <2> QED
    BY <1>1, <2>1 DEF A!Init, A!TypeOK, A!Places
<1>3. Threads /\ AckedIsKept
  BY DEF A!Init, Threads, Handled, AckedIsKept
<1>4. Departing
  <2>1. A!Stored(0) <= 0
    BY StoredFacts, SMT
  <2>2. \A n \in Names : A!Leaving(n) = {}
    BY DEF A!Init, A!Leaving
  <2>3. \A n \in Names : left[n] = 0 /\ seen[n] = 0 /\ clock = 0
    BY DEF A!Init
  <2> QED
    BY <2>1, <2>2, <2>3, SMT DEF Departing
<1> QED
  BY <1>1, <1>2, <1>3, <1>4 DEF AInv

\* Thread a takes up j at p: everybody else stays.
LEMMA Moves ==
  ASSUME A!TypeOK, NEW a \in A!Actors, NEW p \in A!Places, NEW j \in A!Jobs,
         at' = [at EXCEPT ![a] = p], job' = [job EXCEPT ![a] = j]
  PROVE  /\ at' \in [A!Actors -> A!Places] /\ job' \in [A!Actors -> A!Jobs]
         /\ at'[a] = p /\ job'[a] = j
         /\ \A b \in A!Actors \ {a} : at'[b] = at[b] /\ job'[b] = job[b]
  BY DEF A!TypeOK

\* What a thread has in its hands is judged by the rows and the kind of store.
LEMMA MovesThreads ==
  ASSUME A!TypeOK, Threads, NEW a \in A!Actors, NEW p \in A!Places, NEW j \in A!Jobs,
         at' = [at EXCEPT ![a] = p], job' = [job EXCEPT ![a] = j],
         UNCHANGED <<hash, mysql>>, Handled(p, j)
  PROVE  Threads'
<1> SUFFICES ASSUME NEW b \in A!Actors PROVE Handled(at[b], job[b])'
  BY DEF Threads
<1>1. CASE b = a
  BY <1>1, Moves DEF Handled, A!Stored
<1>2. CASE b # a
  <2>1. at'[b] = at[b] /\ job'[b] = job[b]
    BY <1>2, Moves
  <2>2. Handled(at[b], job[b])
    BY DEF Threads
  <2> QED
    BY <2>1, <2>2 DEF Handled, A!Stored
<1> QED
  BY <1>1, <1>2

\* The departures in flight are those of the threads at "stamp" and "update".
LEMMA LeavingStays ==
  ASSUME A!TypeOK, NEW a \in A!Actors, NEW p \in A!Places, NEW j \in A!Jobs,
         at' = [at EXCEPT ![a] = p], job' = [job EXCEPT ![a] = j],
         at[a] \notin {"stamp", "update"}, p \notin {"stamp", "update"}, NEW n
  PROVE  /\ A!Leaving(n)' = A!Leaving(n)
         /\ \A b \in A!Leaving(n) : at'[b] = at[b] /\ job'[b] = job[b]
  BY Moves DEF A!Leaving

\* A step that leaves the departures in flight, and what they are for.
LEMMA DepartingStays ==
  ASSUME AInv, UNCHANGED <<mysql, clock, seen, left, lapsed>>,
         \A n \in Names :
           /\ A!Leaving(n)' = A!Leaving(n)
           /\ \A b \in A!Leaving(n) : at'[b] = at[b] /\ job'[b] = job[b]
  PROVE  Departing'
<1> SUFFICES ASSUME NEW n \in Names
             PROVE  /\ left'[n] <= clock'
                    /\ n \notin lapsed' =>
                         /\ \A b, c \in A!Leaving(n)' : b = c
                         /\ \A b \in A!Leaving(n)' : at'[b] = "update" => left'[n] <= job'[b].time
                         /\ A!Leaving(n)' = {} => A!Stored(left[n])' <= seen'[n]
  BY DEF Departing
<1>1. A!Stored(left[n])' = A!Stored(left[n])
  BY DEF A!Stored
<1> QED
  BY <1>1 DEF AInv, Departing

\* A step of one thread that has to do with neither rows nor departures.
LEMMA ThreadMoves ==
  ASSUME AInv, NEW a \in A!Actors, NEW p \in A!Places, NEW j \in A!Jobs,
         at' = [at EXCEPT ![a] = p], job' = [job EXCEPT ![a] = j],
         at[a] \notin {"stamp", "update"}, p \notin {"stamp", "update"},
         Handled(p, j),
         UNCHANGED <<mysql, clock, hash, seen, acked, left, lapsed>>,
         bound' \in [Names -> SUBSET Conns], user' \in [Conns -> Names \cup {None}],
         live' \subseteq Conns, inited' \in BOOLEAN
  PROVE  AInv'
<1>1. A!TypeOK'
  BY Moves DEF AInv, A!TypeOK
<1>2. Threads'
  BY MovesThreads DEF AInv
<1>3. AckedIsKept'
  BY DEF AInv, AckedIsKept
<1>4. Departing'
  BY LeavingStays, DepartingStays DEF AInv
<1> QED
  BY <1>1, <1>2, <1>3, <1>4 DEF AInv

\* What a thread has in its hands has the type of a job.
LEMMA JobFields ==
  ASSUME A!TypeOK, NEW a \in A!Actors
  PROVE  /\ job[a] \in A!Jobs
         /\ job[a].name \in Names \cup {None} /\ job[a].pass \in Passwords \cup {None}
         /\ job[a].conn \in Conns \cup {None}
         /\ job[a].time \in 0..LastTick /\ job[a].left \in 0..LastTick
         /\ job[a].due \in BOOLEAN /\ job[a].fault \in BOOLEAN /\ job[a].ok \in BOOLEAN
  BY DEF A!TypeOK, A!Jobs

\* NoJob suits a thread that has nothing to do.
LEMMA NothingInHand == A!NoJob \in A!Jobs /\ Handled("idle", A!NoJob)
<1>1. 0 \in 0..LastTick
  BY IdentityAssumption, SMT
<1> QED
  BY <1>1 DEF A!NoJob, A!Jobs, Handled

\* A request is taken up: what it asks for is in hand.
LEMMA TakenUp ==
  ASSUME NEW n \in Names \cup {None}, NEW p \in Passwords \cup {None},
         NEW c \in Conns \cup {None}, NEW d \in BOOLEAN
  PROVE  /\ [A!NoJob EXCEPT !.name = n] \in A!Jobs
         /\ [A!NoJob EXCEPT !.name = n, !.conn = c] \in A!Jobs
         /\ [A!NoJob EXCEPT !.name = n, !.pass = p] \in A!Jobs
         /\ [A!NoJob EXCEPT !.name = n, !.pass = p, !.conn = c, !.due = d] \in A!Jobs
<1>1. 0 \in 0..LastTick
  BY IdentityAssumption, SMT
<1> QED
  BY <1>1 DEF A!NoJob, A!Jobs

\* The same, when nothing but the thread changes.
LEMMA ThreadMovesAlone ==
  ASSUME AInv, NEW a \in A!Actors, NEW p \in A!Places, NEW j \in A!Jobs,
         at' = [at EXCEPT ![a] = p], job' = [job EXCEPT ![a] = j],
         at[a] \notin {"stamp", "update"}, p \notin {"stamp", "update"},
         Handled(p, j),
         UNCHANGED <<mysql, clock, A!rowVars, A!connVars, inited, acked, left, lapsed>>
  PROVE  AInv'
<1>1. UNCHANGED <<mysql, clock, hash, seen, bound, user, live, inited, acked, left, lapsed>>
  BY DEF A!rowVars, A!connVars
<1>2. /\ bound' \in [Names -> SUBSET Conns] /\ user' \in [Conns -> Names \cup {None}]
      /\ live' \subseteq Conns /\ inited' \in BOOLEAN
  BY <1>1 DEF AInv, A!TypeOK
<1> QED
  BY <1>1, <1>2, ThreadMoves

\* Reply sends an answer, and the thread is idle.
LEMMA ReplyStep ==
  ASSUME AInv, NEW w \in Workers, A!Reply(w)
  PROVE  AInv'
<1>1. w \in A!Actors /\ "idle" \in A!Places
  BY DEF A!Actors, A!Places
<1> QED
  BY <1>1, NothingInHand, ThreadMovesAlone DEF A!Reply, A!Done, A!Step

\* handle_register takes a name and a password to create_user.
LEMMA RegisterStep ==
  ASSUME AInv, NEW w \in Workers, NEW n \in Names, NEW p \in Passwords, A!Register(w, n, p)
  PROVE  AInv'
<1> DEFINE j == [A!NoJob EXCEPT !.name = n, !.pass = p]
<1>1. w \in A!Actors /\ "create" \in A!Places
  BY DEF A!Actors, A!Places
<1>2. j \in A!Jobs
  BY TakenUp
<1>3. Handled("create", j)
  BY DEF Handled, A!NoJob
<1> QED
  BY <1>1, <1>2, <1>3, ThreadMovesAlone DEF A!Register, A!Step

\* handle_login: a password that was acked is that of the row.
LEMMA LoginStep ==
  ASSUME AInv, NEW w \in Workers, NEW c \in Conns, NEW n \in Names, NEW p \in Passwords,
         A!Login(w, c, n, p)
  PROVE  AInv'
<1> DEFINE j == [A!NoJob EXCEPT !.name = n, !.pass = p, !.conn = c, !.due = <<n, p>> \in acked]
<1>1. w \in A!Actors /\ "find" \in A!Places
  BY DEF A!Actors, A!Places
<1>2. j \in A!Jobs
  <2>1. (<<n, p>> \in acked) \in BOOLEAN
    BY SMT
  <2> QED
    BY <2>1, TakenUp
<1>3. Handled("find", j)
  <2>1. <<n, p>> \in acked => hash[n] = p
    BY DEF AInv, AckedIsKept
  <2> QED
    BY <2>1 DEF Handled, A!NoJob
<1> QED
  BY <1>1, <1>2, <1>3, ThreadMovesAlone DEF A!Login, A!Step

\* handle_presence takes a name to find_user_by_id.
LEMMA AskPresenceStep ==
  ASSUME AInv, NEW w \in Workers, NEW n \in Names, A!AskPresence(w, n)
  PROVE  AInv'
<1> DEFINE j == [A!NoJob EXCEPT !.name = n]
<1>1. w \in A!Actors /\ "row" \in A!Places
  BY DEF A!Actors, A!Places
<1>2. j \in A!Jobs
  BY TakenUp
<1>3. Handled("row", j)
  BY DEF Handled, A!NoJob
<1> QED
  BY <1>1, <1>2, <1>3, ThreadMovesAlone DEF A!AskPresence, A!Step

\* A login is answered: let in, or refused if it was not due or had a fault.
LEMMA AnswerStep ==
  ASSUME AInv, NEW w \in Workers, NEW from, NEW ok \in BOOLEAN, NEW fault \in BOOLEAN,
         A!Answer(w, from, ok, fault), at[w] \in {"find", "decode", "bind"},
         ok \/ fault \/ ~job[w].due,
         UNCHANGED <<mysql, clock, hash, seen, acked, left, lapsed>>,
         bound' \in [Names -> SUBSET Conns], user' \in [Conns -> Names \cup {None}],
         live' \subseteq Conns, inited' \in BOOLEAN
  PROVE  AInv'
<1> DEFINE j == [job[w] EXCEPT !.ok = ok, !.fault = @ \/ fault]
<1>1. w \in A!Actors /\ "answer" \in A!Places
  BY DEF A!Actors, A!Places
<1>2. j \in A!Jobs
  BY <1>1, JobFields DEF AInv, A!Jobs
<1>3. j.ok = ok /\ j.fault = (job[w].fault \/ fault) /\ j.due = job[w].due /\ j.pass = job[w].pass
  BY <1>1, JobFields DEF AInv, A!Jobs
<1>4. job[w].pass \in Passwords
  BY <1>1 DEF AInv, Threads, Handled
<1>5. Handled("answer", j)
  BY <1>3, <1>4, IdentityAssumption DEF Handled
<1>6. at' = [at EXCEPT ![w] = "answer"] /\ job' = [job EXCEPT ![w] = j]
  BY DEF A!Answer, A!Step
<1> HIDE DEF j
<1> QED
  BY <1>1, <1>2, <1>5, <1>6, ThreadMoves

\* What is left alone has its type.
LEMMA ConnTypes ==
  ASSUME AInv, UNCHANGED <<A!connVars, inited>>
  PROVE  /\ bound' \in [Names -> SUBSET Conns] /\ user' \in [Conns -> Names \cup {None}]
         /\ live' \subseteq Conns /\ inited' \in BOOLEAN
  BY DEF AInv, A!TypeOK, A!connVars

\* find_user_by_username: a login that is due finds its row or its query fails.
LEMMA FindStep ==
  ASSUME AInv, NEW w \in Workers, A!Find(w)
  PROVE  AInv'
<1>1. w \in A!Actors /\ at[w] = "find"
  BY DEF A!Actors, A!Find
<1>2. Handled("find", job[w])
  BY <1>1 DEF AInv, Threads
<1>3. UNCHANGED <<mysql, clock, A!rowVars, A!connVars, inited, acked, left, lapsed>>
  BY DEF A!Find
<1>4. CASE A!Step(w, "find", IF inited THEN "decode" ELSE "init", job[w])
  <2>1. PICK p \in {"decode", "init"} : p = IF inited THEN "decode" ELSE "init"
    OBVIOUS
  <2>2. Handled(p, job[w]) /\ p \in A!Places
    BY <1>2 DEF Handled, A!Places
  <2>3. job[w] \in A!Jobs
    BY <1>1, JobFields DEF AInv
  <2>4. at' = [at EXCEPT ![w] = p] /\ job' = [job EXCEPT ![w] = job[w]]
    BY <1>4, <2>1 DEF A!Step
  <2> QED
    BY <1>1, <1>3, <2>2, <2>3, <2>4, ThreadMovesAlone
<1>5. CASE \/ hash[job[w].name] = None /\ A!Answer(w, "find", FALSE, FALSE)
           \/ A!Answer(w, "find", FALSE, TRUE)
  <2>1. hash[job[w].name] = None => ~job[w].due
    BY <1>2, IdentityAssumption DEF Handled
  <2> QED
    BY <1>1, <1>3, <1>5, <2>1, AnswerStep, ConnTypes DEF A!rowVars
<1> QED
  BY <1>4, <1>5 DEF A!Find

\* verify_password_hash: the password of the row is let in, another one is
\* refused, and so is any that was decoded from a torn table.
LEMMA DecodeStep ==
  ASSUME AInv, NEW w \in Workers, A!Decode(w)
  PROVE  AInv'
<1>1. w \in A!Actors /\ at[w] = "decode"
  BY DEF A!Actors, A!Decode
<1>2. Handled("decode", job[w]) /\ job[w] \in A!Jobs /\ "welcome" \in A!Places
  BY <1>1, JobFields DEF AInv, Threads, A!Places
<1>3. UNCHANGED <<mysql, clock, A!rowVars, A!connVars, inited, acked, left, lapsed>>
  BY DEF A!Decode
<1>4. CASE job[w].pass = hash[job[w].name] /\ A!Step(w, "decode", "welcome", job[w])
  <2>1. Handled("welcome", job[w])
    BY <1>2, <1>4 DEF Handled
  <2> QED
    BY <1>1, <1>2, <1>3, <1>4, <2>1, ThreadMovesAlone DEF A!Step
<1>5. CASE \/ job[w].pass # hash[job[w].name] /\ A!Answer(w, "decode", FALSE, FALSE)
           \/ A!Answer(w, "decode", FALSE, TRUE)
  <2>1. job[w].pass # hash[job[w].name] => ~job[w].due
    BY <1>2 DEF Handled
  <2> QED
    BY <1>1, <1>3, <1>5, <2>1, AnswerStep, ConnTypes DEF A!rowVars
<1> QED
  BY <1>4, <1>5 DEF A!Decode

\* set_user_id and Presence::bind, with the user and the connection in hand.
LEMMA SetUserStep ==
  ASSUME AInv, NEW w \in Workers, A!SetUser(w)
  PROVE  AInv'
<1>1. w \in A!Actors /\ "bind" \in A!Places /\ at[w] = "welcome"
  BY DEF A!Actors, A!Places, A!SetUser, A!Step
<1>2. Handled("welcome", job[w]) /\ job[w] \in A!Jobs
  BY <1>1, JobFields DEF AInv, Threads
<1>3. Handled("bind", job[w])
  BY <1>2 DEF Handled
<1>4. /\ UNCHANGED <<mysql, clock, hash, seen, acked, left, lapsed>>
      /\ UNCHANGED <<bound, live, inited>>
  BY DEF A!SetUser, A!rowVars
<1>5. user' \in [Conns -> Names \cup {None}]
  <2>1. job[w].name \in Names
    BY <1>2 DEF Handled
  <2> QED
    BY <2>1 DEF A!SetUser, AInv, A!TypeOK
<1>6. bound' \in [Names -> SUBSET Conns] /\ live' \subseteq Conns /\ inited' \in BOOLEAN
  BY <1>4 DEF AInv, A!TypeOK
<1>7. at' = [at EXCEPT ![w] = "bind"] /\ job' = [job EXCEPT ![w] = job[w]]
  BY DEF A!SetUser, A!Step
<1> QED
  BY <1>1, <1>2, <1>3, <1>4, <1>5, <1>6, <1>7, ThreadMoves

LEMMA BindStep ==
  ASSUME AInv, NEW w \in Workers, A!Bind(w)
  PROVE  AInv'
<1>1. w \in A!Actors /\ at[w] = "bind"
  BY DEF A!Actors, A!Bind, A!Answer, A!Step
<1>2. Handled("bind", job[w])
  BY <1>1 DEF AInv, Threads
<1>3. /\ UNCHANGED <<mysql, clock, hash, seen, acked, left, lapsed>>
      /\ UNCHANGED <<user, live, inited>>
  BY DEF A!Bind, A!rowVars
<1>4. bound' \in [Names -> SUBSET Conns]
  <2>1. job[w].name \in Names /\ job[w].conn \in Conns
    BY <1>2 DEF Handled
  <2> QED
    BY <2>1 DEF A!Bind, AInv, A!TypeOK
<1>5. user' \in [Conns -> Names \cup {None}] /\ live' \subseteq Conns /\ inited' \in BOOLEAN
  BY <1>3 DEF AInv, A!TypeOK
<1>6. A!Answer(w, "bind", TRUE, FALSE)
  BY DEF A!Bind
<1> QED
  BY <1>1, <1>3, <1>4, <1>5, <1>6, AnswerStep

\* handle_logout ends with set_user_id(0).
LEMMA ClearStep ==
  ASSUME AInv, NEW w \in Workers, A!Clear(w)
  PROVE  AInv'
<1>1. w \in A!Actors /\ "idle" \in A!Places
  BY DEF A!Actors, A!Places
<1>2. /\ UNCHANGED <<mysql, clock, hash, seen, acked, left, lapsed>>
      /\ UNCHANGED <<bound, live, inited>>
  BY DEF A!Clear, A!rowVars
<1>3. user' \in [Conns -> Names \cup {None}]
  BY DEF A!Clear, AInv, A!TypeOK
<1>4. bound' \in [Names -> SUBSET Conns] /\ live' \subseteq Conns /\ inited' \in BOOLEAN
  BY <1>2 DEF AInv, A!TypeOK
<1>5. /\ at[w] = "clear"
      /\ at' = [at EXCEPT ![w] = "idle"] /\ job' = [job EXCEPT ![w] = A!NoJob]
  BY DEF A!Clear, A!Done, A!Step
<1> QED
  BY <1>1, <1>2, <1>3, <1>4, <1>5, NothingInHand, ThreadMoves

\* find_user_by_id: a row that is not known to be behind is as fresh as the
\* user's last departure.
LEMMA ReadRowStep ==
  ASSUME AInv, NEW w \in Workers, A!ReadRow(w)
  PROVE  AInv'
<1>1. /\ w \in A!Actors /\ "online" \in A!Places /\ "idle" \in A!Places
      /\ at[w] = "row" /\ job[w] \in A!Jobs
  BY JobFields DEF A!Actors, A!Places, A!ReadRow, AInv
<1>2. UNCHANGED <<mysql, clock, A!rowVars, A!connVars, inited, acked, left, lapsed>>
  BY DEF A!ReadRow
<1>3. PICK n \in Names : n = job[w].name /\ job[w].pass = None
  BY <1>1 DEF AInv, Threads, Handled
<1>4. CASE A!Done(w, "row")
  BY <1>1, <1>2, <1>4, NothingInHand, ThreadMovesAlone DEF A!Done, A!Step
<1>5. CASE A!Step(w, "row", "online",
                  [job[w] EXCEPT !.time = seen[n], !.left = left[n],
                                 !.fault = n \in lapsed \/ A!Leaving(n) # {}])
  <2> DEFINE j == [job[w] EXCEPT !.time = seen[n], !.left = left[n],
                                 !.fault = n \in lapsed \/ A!Leaving(n) # {}]
  <2>1. seen[n] \in 0..LastTick /\ left[n] \in 0..LastTick
    BY DEF AInv, A!TypeOK
  <2>2. (n \in lapsed \/ A!Leaving(n) # {}) \in BOOLEAN
    BY SMT
  <2>3. j \in A!Jobs
    BY <1>1, <2>1, <2>2 DEF A!Jobs
  <2>4. /\ j.name = n /\ j.pass = None /\ j.time = seen[n] /\ j.left = left[n]
        /\ j.fault = (n \in lapsed \/ A!Leaving(n) # {})
    BY <1>1, <1>3 DEF A!Jobs
  <2>5. ~j.fault => A!Stored(j.left) <= j.time
    BY <2>4 DEF AInv, Departing
  <2>6. Handled("online", j)
    BY <2>4, <2>5 DEF Handled
  <2>7. at' = [at EXCEPT ![w] = "online"] /\ job' = [job EXCEPT ![w] = j]
    BY <1>5 DEF A!Step
  <2> HIDE DEF j
  <2> QED
    BY <1>1, <1>2, <2>3, <2>6, <2>7, ThreadMovesAlone
<1> QED
  BY <1>3, <1>4, <1>5 DEF A!ReadRow

\* is_online adds to what was read.
LEMMA IsOnlineStep ==
  ASSUME AInv, NEW w \in Workers, A!IsOnline(w)
  PROVE  AInv'
<1>1. /\ w \in A!Actors /\ "answer" \in A!Places
      /\ at[w] = "online" /\ job[w] \in A!Jobs
  BY JobFields DEF A!Actors, A!Places, A!IsOnline, AInv
<1>2. PICK n \in Names : n = job[w].name
  BY <1>1 DEF AInv, Threads, Handled
<1> DEFINE j == [job[w] EXCEPT !.due = bound[n] = {}, !.ok = TRUE,
                               !.fault = @ \/ left[n] # job[w].left]
<1>3. (bound[n] = {}) \in BOOLEAN /\ (job[w].fault \/ left[n] # job[w].left) \in BOOLEAN
  BY SMT
<1>4. j \in A!Jobs
  BY <1>1, <1>3 DEF A!Jobs
<1>5. /\ j.ok = TRUE /\ j.time = job[w].time /\ j.left = job[w].left
      /\ j.fault = (job[w].fault \/ left[n] # job[w].left)
  BY <1>1 DEF A!Jobs
<1>6. Handled("online", job[w])
  BY <1>1 DEF AInv, Threads
<1>7. job[w].fault \in BOOLEAN /\ job[w].pass = None
  BY <1>1, <1>6 DEF A!Jobs, Handled
<1>8. Handled("answer", j)
  BY <1>5, <1>6, <1>7 DEF Handled
<1>9. at' = [at EXCEPT ![w] = "answer"] /\ job' = [job EXCEPT ![w] = j]
  BY <1>2 DEF A!IsOnline, A!Step
<1>10. UNCHANGED <<mysql, clock, A!rowVars, A!connVars, inited, acked, left, lapsed>>
  BY DEF A!IsOnline
<1> HIDE DEF j
<1> QED
  BY <1>1, <1>4, <1>8, <1>9, <1>10, ThreadMovesAlone

\* create_user: the unique key keeps the rows that are there.
LEMMA CreateUserStep ==
  ASSUME AInv, NEW w \in Workers, A!Create(w)
  PROVE  AInv'
<1>1. w \in A!Actors /\ "idle" \in A!Places /\ at[w] = "create"
  BY DEF A!Actors, A!Places, A!Create
<1>2. PICK n \in Names, p \in Passwords : n = job[w].name /\ p = job[w].pass
  BY <1>1 DEF AInv, Threads, Handled
<1>3. at' = [at EXCEPT ![w] = "idle"] /\ job' = [job EXCEPT ![w] = A!NoJob]
  BY DEF A!Create, A!CreateAs, A!Done, A!Step
<1>4. UNCHANGED <<mysql, clock, seen, bound, user, live, inited, left, lapsed>>
  BY DEF A!Create, A!CreateAs, A!connVars
<1>5. \/ hash[n] = None /\ hash' = [hash EXCEPT ![n] = p] /\ acked' = acked \cup {<<n, p>>}
      \/ hash[n] = None /\ hash' = [hash EXCEPT ![n] = p] /\ acked' = acked
      \/ hash' = hash /\ acked' = acked
  BY <1>2 DEF A!Create, A!CreateAs
<1>6. hash \in [Names -> Passwords \cup {None}] /\ acked \subseteq Names \X Passwords
  BY DEF AInv, A!TypeOK
<1>7. hash' \in [Names -> Passwords \cup {None}] /\ acked' \subseteq Names \X Passwords
  BY <1>5, <1>6, SMT
<1>8. \A m \in Names : hash[m] \in Passwords => hash'[m] = hash[m]
  BY <1>5, <1>6, IdentityAssumption
<1>9. A!TypeOK'
  BY <1>1, <1>3, <1>4, <1>7, Moves, NothingInHand DEF AInv, A!TypeOK
<1>10. Threads'
  <2> SUFFICES ASSUME NEW b \in A!Actors PROVE Handled(at[b], job[b])'
    BY DEF Threads
  <2>1. CASE b = w
    <3>1. at'[b] = "idle"
      BY <1>1, <1>3, <2>1 DEF AInv, A!TypeOK
    <3> QED
      BY <3>1 DEF Handled
  <2>2. CASE b # w
    <3>1. at'[b] = at[b] /\ job'[b] = job[b]
      BY <1>3, <2>2 DEF AInv, A!TypeOK
    <3>2. Handled(at[b], job[b])
      BY DEF AInv, Threads
    <3>3. job[b].name \in Names /\ job[b].pass \in Passwords /\ job[b].pass = hash[job[b].name]
            => job[b].pass = hash'[job[b].name]
      BY <1>8
    <3> QED
      BY <1>4, <3>1, <3>2, <3>3 DEF Handled, A!Stored
  <2> QED
    BY <2>1, <2>2
<1>11. AckedIsKept'
  <2> SUFFICES ASSUME NEW m \in Names, NEW q \in Passwords, <<m, q>> \in acked'
               PROVE  hash'[m] = q
    BY DEF AckedIsKept
  <2>1. CASE <<m, q>> \in acked
    BY <1>8, <2>1 DEF AInv, AckedIsKept
  <2>2. CASE <<m, q>> \notin acked
    BY <1>5, <1>6, <2>2, SMT
  <2> QED
    BY <2>1, <2>2
<1>12. Departing'
  <2>1. ASSUME NEW m \in Names
        PROVE  /\ A!Leaving(m)' = A!Leaving(m)
               /\ \A b \in A!Leaving(m) : at'[b] = at[b] /\ job'[b] = job[b]
    BY <1>1, <1>3, LeavingStays, NothingInHand DEF AInv
  <2> QED
    BY <1>4, <2>1, DepartingStays
<1> QED
  BY <1>9, <1>10, <1>11, <1>12 DEF AInv

\* base64_decode fills its table; who is decoding may read anything.
LEMMA InitTableStep ==
  ASSUME AInv, NEW w \in Workers, A!InitTable(w)
  PROVE  AInv'
<1>1. /\ w \in A!Actors /\ "decode" \in A!Places /\ at[w] = "init"
      /\ at \in [A!Actors -> A!Places] /\ job \in [A!Actors -> A!Jobs]
  BY DEF A!Actors, A!Places, A!InitTable, AInv, A!TypeOK
<1>2. at' = [at EXCEPT ![w] = "decode"] /\ inited' = TRUE
  BY DEF A!InitTable
<1>3. job' = [a \in A!Actors |-> IF at[a] = "decode" THEN [job[a] EXCEPT !.fault = TRUE] ELSE job[a]]
  BY DEF A!InitTable
<1>4. UNCHANGED <<mysql, clock, hash, seen, bound, user, live, acked, left, lapsed>>
  BY DEF A!InitTable, A!rowVars, A!connVars
<1>5. \A a \in A!Actors : at[a] # "decode" => job'[a] = job[a]
  BY <1>3
<1>6. \A a \in A!Actors : at[a] = "decode" =>
        /\ job'[a].name = job[a].name /\ job'[a].pass = job[a].pass
        /\ job'[a].conn = job[a].conn /\ job'[a].due = job[a].due
        /\ job'[a] \in A!Jobs
  BY <1>1, <1>3 DEF A!Jobs
<1>7. A!TypeOK'
  <2>1. job' \in [A!Actors -> A!Jobs]
    BY <1>1, <1>3, <1>5, <1>6
  <2>2. at' \in [A!Actors -> A!Places]
    BY <1>1, <1>2
  <2> QED
    BY <1>2, <1>4, <2>1, <2>2 DEF AInv, A!TypeOK
<1>8. Threads'
  <2> SUFFICES ASSUME NEW b \in A!Actors PROVE Handled(at[b], job[b])'
    BY DEF Threads
  <2>1. Handled(at[b], job[b])
    BY DEF AInv, Threads
  <2>2. CASE b = w
    <3>1. at'[b] = "decode" /\ job'[b] = job[b]
      BY <1>1, <1>2, <1>5, <2>2
    <3> QED
      BY <1>1, <1>4, <2>1, <2>2, <3>1 DEF Handled
  <2>3. CASE b # w /\ at[b] # "decode"
    <3>1. at'[b] = at[b] /\ job'[b] = job[b]
      BY <1>1, <1>2, <1>5, <2>3
    <3> QED
      BY <1>4, <2>1, <3>1 DEF Handled, A!Stored
  <2>4. CASE b # w /\ at[b] = "decode"
    <3>1. at'[b] = "decode"
      BY <1>1, <1>2, <2>4
    <3> QED
      BY <1>4, <1>6, <2>1, <2>4, <3>1 DEF Handled
  <2> QED
    BY <2>2, <2>3, <2>4
<1>9. AckedIsKept'
  BY <1>4 DEF AInv, AckedIsKept
<1>10. Departing'
  <2>1. ASSUME NEW m \in Names
        PROVE  /\ A!Leaving(m)' = A!Leaving(m)
               /\ \A b \in A!Leaving(m) : at'[b] = at[b] /\ job'[b] = job[b]
    <3>1. ASSUME NEW b \in A!Actors
          PROVE  at'[b] \in {"stamp", "update"} <=> at[b] \in {"stamp", "update"}
      BY <1>1, <1>2
    <3>2. ASSUME NEW b \in A!Actors, at[b] \in {"stamp", "update"}
          PROVE  at'[b] = at[b] /\ job'[b] = job[b]
      BY <1>1, <1>2, <1>5, <3>2
    <3> QED
      BY <3>1, <3>2 DEF A!Leaving
  <2> QED
    BY <1>4, <2>1, DepartingStays
<1> QED
  BY <1>7, <1>8, <1>9, <1>10 DEF AInv

\* Time goes on.
LEMMA ClockStep ==
  ASSUME AInv, A!Tick
  PROVE  AInv'
<1>1. /\ clock' = clock + 1 /\ clock < LastTick
      /\ UNCHANGED <<mysql, hash, seen, bound, user, live, inited, at, job, acked, left, lapsed>>
  BY DEF A!Tick, A!rowVars, A!connVars, A!workVars
<1>2. clock \in 0..LastTick /\ left \in [Names -> 0..LastTick]
  BY DEF AInv, A!TypeOK
<1>3. clock' \in 0..LastTick
  BY <1>1, <1>2, IdentityAssumption, SMT
<1>4. A!TypeOK' /\ AckedIsKept'
  BY <1>1, <1>3 DEF AInv, A!TypeOK, AckedIsKept
<1>5. Threads'
  BY <1>1 DEF AInv, Threads, Handled, A!Stored
<1>6. Departing'
  <2>1. \A n \in Names : left[n] <= clock'
    <3>1. \A n \in Names : left[n] <= clock
      BY DEF AInv, Departing
    <3> QED
      BY <1>1, <1>2, <3>1, SMT
  <2>2. \A n : A!Leaving(n)' = A!Leaving(n)
    BY <1>1 DEF A!Leaving
  <2> QED
    BY <1>1, <2>1, <2>2 DEF AInv, Departing, A!Stored
<1> QED
  BY <1>4, <1>5, <1>6 DEF AInv

\* A client connects.
LEMMA ConnectStep ==
  ASSUME AInv, NEW c \in Conns, A!Connect(c)
  PROVE  AInv'
<1>1. /\ live' = live \cup {c} /\ user' = [user EXCEPT ![c] = None]
      /\ UNCHANGED <<mysql, clock, hash, seen, bound, inited, at, job, acked, left, lapsed>>
  BY DEF A!Connect, A!rowVars, A!workVars
<1>2. A!TypeOK' /\ AckedIsKept'
  BY <1>1 DEF AInv, A!TypeOK, AckedIsKept
<1>3. Threads'
  BY <1>1 DEF AInv, Threads, Handled, A!Stored
<1>4. Departing'
  BY <1>1, DepartingStays DEF A!Leaving
<1> QED
  BY <1>2, <1>3, <1>4 DEF AInv

\* A crash leaves the table; users it takes offline are recorded.
LEMMA RestartStep ==
  ASSUME AInv, A!Crash
  PROVE  AInv'
<1>1. /\ at' = [a \in A!Actors |-> "idle"] /\ job' = [a \in A!Actors |-> A!NoJob]
      /\ bound' = [n \in Names |-> {}] /\ user' = [c \in Conns |-> None]
      /\ live' = {} /\ inited' = FALSE
  BY DEF A!Crash
<1>2. /\ left' = [n \in Names |-> IF bound[n] # {} THEN clock ELSE left[n]]
      /\ lapsed' = lapsed \cup {n \in Names : bound[n] # {} \/ A!Leaving(n) # {}}
  BY DEF A!Crash
<1>3. UNCHANGED <<mysql, clock, hash, seen, acked>>
  BY DEF A!Crash, A!rowVars
<1>4. A!TypeOK'
  <2>1. left' \in [Names -> 0..LastTick] /\ lapsed' \subseteq Names
    BY <1>2 DEF AInv, A!TypeOK
  <2>2. at' \in [A!Actors -> A!Places] /\ job' \in [A!Actors -> A!Jobs]
    BY <1>1, NothingInHand DEF A!Places
  <2> QED
    BY <1>1, <1>3, <2>1, <2>2 DEF AInv, A!TypeOK
<1>5. Threads' /\ AckedIsKept'
  BY <1>1, <1>3 DEF AInv, AckedIsKept, Threads, Handled
<1>6. Departing'
  <2> SUFFICES ASSUME NEW n \in Names
               PROVE  /\ left'[n] <= clock'
                      /\ n \notin lapsed' => A!Stored(left[n])' <= seen'[n]
    BY <1>1 DEF Departing, A!Leaving
  <2>1. left[n] <= clock /\ clock <= clock
    BY SMT DEF AInv, Departing, A!TypeOK
  <2>2. left'[n] <= clock'
    BY <1>2, <1>3, <2>1
  <2>3. ASSUME n \notin lapsed' PROVE A!Stored(left[n])' <= seen'[n]
    <3>1. n \notin lapsed /\ bound[n] = {} /\ A!Leaving(n) = {}
      BY <1>2, <2>3
    <3>2. left'[n] = left[n]
      BY <1>2, <3>1
    <3> QED
      BY <1>3, <3>1, <3>2 DEF AInv, Departing, A!Stored
  <2> QED
    BY <2>2, <2>3
<1> QED
  BY <1>4, <1>5, <1>6 DEF AInv

\* Presence::unbind: a user's last connection starts a departure, beside which
\* an earlier one may still be in flight.
LEMMA UnbindStep ==
  ASSUME AInv, NEW a \in A!Actors, NEW c \in Conns, NEW next \in {"clear", "idle"},
         A!Unbind(a, c, next), live' \subseteq Conns,
         UNCHANGED <<mysql, clock, hash, seen, user, inited, acked>>
  PROVE  AInv'
<1>1. /\ user \in [Conns -> Names \cup {None}] /\ bound \in [Names -> SUBSET Conns]
      /\ clock \in 0..LastTick /\ left \in [Names -> 0..LastTick] /\ lapsed \subseteq Names
  BY DEF AInv, A!TypeOK
<1>2. PICK n \in Names \cup {None} : n = user[c]
  BY <1>1
<1>3. at[a] = "idle" /\ "stamp" \in A!Places /\ next \in A!Places
  BY DEF A!Unbind, A!UnbindAs, A!Step, A!Places
<1> DEFINE j == [A!NoJob EXCEPT !.name = n, !.conn = c]
<1>4. j \in A!Jobs /\ A!NoJob \in A!Jobs
  BY TakenUp, NothingInHand
<1>5. bound' = IF n = None THEN bound ELSE [bound EXCEPT ![n] = @ \ {c}]
  BY <1>2 DEF A!Unbind, A!UnbindAs
<1>6. bound' \in [Names -> SUBSET Conns]
  BY <1>1, <1>5
<1>7. user' \in [Conns -> Names \cup {None}] /\ inited' \in BOOLEAN
  BY DEF AInv, A!TypeOK
<1>8. CASE ~(n # None /\ bound[n] = {c})
  <2>1. left' = left /\ lapsed' = lapsed /\ at' = [at EXCEPT ![a] = next]
    BY <1>2, <1>8 DEF A!Unbind, A!UnbindAs, A!Step
  <2>2. PICK k \in A!Jobs : job' = [job EXCEPT ![a] = k]
    BY <1>2, <1>4, <1>8 DEF A!Unbind, A!UnbindAs, A!Step
  <2>3. Handled(next, k)
    BY DEF Handled
  <2> QED
    BY <1>3, <1>6, <1>7, <2>1, <2>2, <2>3, ThreadMoves
<1>9. CASE n # None /\ bound[n] = {c}
  <2>1. n \in Names
    BY <1>9
  <2>2. /\ left' = [left EXCEPT ![n] = clock]
        /\ lapsed' = IF A!Leaving(n) = {} THEN lapsed \ {n} ELSE lapsed \cup {n}
    BY <1>2, <1>9 DEF A!Unbind, A!UnbindAs
  <2>3. at' = [at EXCEPT ![a] = "stamp"] /\ job' = [job EXCEPT ![a] = j]
    BY <1>2, <1>9 DEF A!Unbind, A!UnbindAs, A!Step
  <2>4. j.name = n
    BY DEF A!NoJob
  <2>5. Handled("stamp", j)
    BY <2>1, <2>4 DEF Handled
  <2> HIDE DEF j
  <2>6. /\ at' \in [A!Actors -> A!Places] /\ job' \in [A!Actors -> A!Jobs]
        /\ at'[a] = "stamp" /\ job'[a] = j
        /\ \A b \in A!Actors \ {a} : at'[b] = at[b] /\ job'[b] = job[b]
    BY <1>3, <1>4, <2>3, Moves DEF AInv
  <2>7. Threads'
    BY <1>3, <1>4, <2>3, <2>5, MovesThreads DEF AInv
  <2>8. A!TypeOK'
    <3>1. left' \in [Names -> 0..LastTick] /\ lapsed' \subseteq Names
      BY <1>1, <2>1, <2>2
    <3> QED
      BY <1>6, <2>6, <3>1 DEF AInv, A!TypeOK
  <2>9. AckedIsKept'
    BY DEF AInv, AckedIsKept
  <2>10. Departing'
    <3> SUFFICES ASSUME NEW m \in Names
                 PROVE  /\ left'[m] <= clock'
                        /\ m \notin lapsed' =>
                             /\ \A b, d \in A!Leaving(m)' : b = d
                             /\ \A b \in A!Leaving(m)' : at'[b] = "update" => left'[m] <= job'[b].time
                             /\ A!Leaving(m)' = {} => A!Stored(left[m])' <= seen'[m]
      BY DEF Departing
    <3>1. CASE m = n
      <4>1. left'[m] <= clock'
        <5>1. clock <= clock
          BY <1>1, SMT
        <5> QED
          BY <1>1, <2>2, <3>1, <5>1
      <4>2. m \notin lapsed' => A!Leaving(m) = {}
        BY <2>2, <3>1
      <4>3. A!Leaving(m) = {} => A!Leaving(m)' = {a}
        BY <2>4, <2>6, <3>1 DEF A!Leaving
      <4> QED
        BY <2>6, <4>1, <4>2, <4>3
    <3>2. CASE m # n
      <4>1. left'[m] = left[m] /\ (m \notin lapsed' => m \notin lapsed)
        BY <1>1, <2>2, <3>2
      <4>2. A!Leaving(m)' = A!Leaving(m)
        BY <1>3, <2>4, <2>6, <3>2 DEF A!Leaving
      <4>3. \A b \in A!Leaving(m) : at'[b] = at[b] /\ job'[b] = job[b]
        BY <1>3, <2>6 DEF A!Leaving
      <4> QED
        BY <4>1, <4>2, <4>3 DEF AInv, Departing, A!Stored
    <3> QED
      BY <3>1, <3>2
  <2> QED
    BY <2>7, <2>8, <2>9, <2>10 DEF AInv
<1> QED
  BY <1>8, <1>9

\* handle_logout and on_close unbind the connection.
LEMMA LogoutStep ==
  ASSUME AInv, NEW w \in Workers, NEW c \in Conns, A!Logout(w, c)
  PROVE  AInv'
<1>1. w \in A!Actors /\ live' \subseteq Conns
  BY DEF A!Actors, A!Logout, AInv, A!TypeOK
<1> QED
  BY <1>1, UnbindStep DEF A!Logout, A!rowVars

LEMMA CloseStep ==
  ASSUME AInv, NEW c \in Conns, A!Close(c)
  PROVE  AInv'
<1>1. IO \in A!Actors /\ live' \subseteq Conns
  BY DEF A!Actors, A!Close, AInv, A!TypeOK
<1> QED
  BY <1>1, UnbindStep DEF A!Close, A!rowVars

\* The transition handler reads the clock, which is not before the departure.
LEMMA StampStep ==
  ASSUME AInv, NEW a \in A!Actors, A!Stamp(a)
  PROVE  AInv'
<1> DEFINE j == [job[a] EXCEPT !.time = clock]
<1>1. at[a] = "stamp" /\ "update" \in A!Places /\ job[a] \in A!Jobs
  BY JobFields DEF A!Places, A!Stamp, A!Step, AInv
<1>2. at' = [at EXCEPT ![a] = "update"] /\ job' = [job EXCEPT ![a] = j]
  BY DEF A!Stamp, A!Step
<1>3. UNCHANGED <<mysql, clock, hash, seen, bound, user, live, inited, acked, left, lapsed>>
  BY DEF A!Stamp, A!rowVars, A!connVars
<1>4. clock \in 0..LastTick
  BY DEF AInv, A!TypeOK
<1>5. j \in A!Jobs /\ j.name = job[a].name /\ j.time = clock
  BY <1>1, <1>4 DEF A!Jobs
<1>6. Handled("update", j)
  BY <1>1, <1>5 DEF AInv, Threads, Handled
<1> HIDE DEF j
<1>7. /\ at' \in [A!Actors -> A!Places] /\ job' \in [A!Actors -> A!Jobs]
      /\ at'[a] = "update" /\ job'[a] = j
      /\ \A b \in A!Actors \ {a} : at'[b] = at[b] /\ job'[b] = job[b]
  BY <1>1, <1>2, <1>5, Moves DEF AInv
<1>8. Threads'
  BY <1>1, <1>2, <1>3, <1>5, <1>6, MovesThreads DEF AInv
<1>9. A!TypeOK' /\ AckedIsKept'
  BY <1>3, <1>7 DEF AInv, A!TypeOK, AckedIsKept
<1>10. Departing'
  <2> SUFFICES ASSUME NEW m \in Names
               PROVE  /\ left'[m] <= clock'
                      /\ m \notin lapsed' =>
                           /\ \A b, d \in A!Leaving(m)' : b = d
                           /\ \A b \in A!Leaving(m)' : at'[b] = "update" => left'[m] <= job'[b].time
                           /\ A!Leaving(m)' = {} => A!Stored(left[m])' <= seen'[m]
    BY DEF Departing
  <2>1. A!Leaving(m)' = A!Leaving(m)
    <3>1. \A b \in A!Actors : job'[b].name = job[b].name
      BY <1>5, <1>7
    <3>2. \A b \in A!Actors : at'[b] \in {"stamp", "update"} <=> at[b] \in {"stamp", "update"}
      BY <1>1, <1>7
    <3> QED
      BY <3>1, <3>2 DEF A!Leaving
  <2>2. left[m] <= clock
    BY DEF AInv, Departing
  <2>3. ASSUME m \notin lapsed, NEW b \in A!Leaving(m), at'[b] = "update"
        PROVE  left[m] <= job'[b].time
    <3>1. CASE b = a
      BY <1>5, <1>7, <2>2, <3>1
    <3>2. CASE b # a
      <4>1. b \in A!Actors
        BY DEF A!Leaving
      <4> QED
        BY <1>7, <2>3, <3>2, <4>1 DEF AInv, Departing
    <3> QED
      BY <3>1, <3>2
  <2>4. A!Stored(left[m])' = A!Stored(left[m])
    BY <1>3 DEF A!Stored
  <2> QED
    BY <1>3, <2>1, <2>2, <2>3, <2>4 DEF AInv, Departing
<1> QED
  BY <1>8, <1>9, <1>10 DEF AInv

\* update_last_seen: the departure is written, or recorded as behind.
LEMMA UpdateStep ==
  ASSUME AInv, NEW a \in A!Actors, A!Update(a)
  PROVE  AInv'
<1>1. at[a] = "update" /\ {"clear", "idle"} \subseteq A!Places /\ job[a] \in A!Jobs
  BY JobFields DEF A!Places, A!Update, AInv
<1>2. PICK n \in Names : n = job[a].name
  BY <1>1 DEF AInv, Threads, Handled
<1>3. 0 \in 0..LastTick
  BY IdentityAssumption, SMT
<1>4. PICK p \in {"clear", "idle"}, j \in A!Jobs :
        at' = [at EXCEPT ![a] = p] /\ job' = [job EXCEPT ![a] = j]
  <2>1. [job[a] EXCEPT !.time = 0] \in A!Jobs
    BY <1>1, <1>3 DEF A!Jobs
  <2> QED
    BY <2>1, NothingInHand DEF A!Update, A!Done, A!Step
<1>5. UNCHANGED <<mysql, clock, hash, bound, user, live, inited, acked, left>>
  BY DEF A!Update, A!connVars
<1>6. \/ seen' = [seen EXCEPT ![n] = A!Stored(job[a].time)] /\ lapsed' = lapsed
      \/ seen' = seen /\ lapsed' = lapsed \cup {n}
  BY <1>2 DEF A!Update
<1>7. Handled(p, j) /\ p \in A!Places
  BY <1>1 DEF Handled
<1>8. Threads'
  BY <1>4, <1>5, <1>7, MovesThreads DEF AInv
<1>9. /\ at' \in [A!Actors -> A!Places] /\ job' \in [A!Actors -> A!Jobs]
      /\ at'[a] = p /\ job'[a] = j
      /\ \A b \in A!Actors \ {a} : at'[b] = at[b] /\ job'[b] = job[b]
  BY <1>4, <1>7, Moves DEF AInv
<1>10. /\ job[a].time \in 0..LastTick /\ job[a].time \in Nat
       /\ seen \in [Names -> 0..LastTick] /\ lapsed \subseteq Names
       /\ left[n] \in Nat
  <2>1. job[a].time \in 0..LastTick /\ left[n] \in 0..LastTick
    BY <1>1 DEF AInv, A!TypeOK, A!Jobs
  <2>2. job[a].time \in Nat /\ left[n] \in Nat
    BY <2>1, SMT
  <2> QED
    BY <2>1, <2>2 DEF AInv, A!TypeOK
<1>11. A!Stored(job[a].time) \in 0..LastTick
  <2>1. job[a].time <= job[a].time
    BY <1>10, SMT
  <2>2. A!Stored(job[a].time) \in Nat /\ A!Stored(job[a].time) <= job[a].time
    BY <1>10, <2>1, StoredFacts
  <2> QED
    BY <1>10, <2>2, IdentityAssumption, SMT
<1>12. A!TypeOK' /\ AckedIsKept'
  <2>1. seen' \in [Names -> 0..LastTick] /\ lapsed' \subseteq Names
    BY <1>6, <1>10, <1>11
  <2> QED
    BY <1>5, <1>9, <2>1 DEF AInv, A!TypeOK, AckedIsKept
<1>13. Departing'
  <2> SUFFICES ASSUME NEW m \in Names
               PROVE  /\ left'[m] <= clock'
                      /\ m \notin lapsed' =>
                           /\ \A b, d \in A!Leaving(m)' : b = d
                           /\ \A b \in A!Leaving(m)' : at'[b] = "update" => left'[m] <= job'[b].time
                           /\ A!Leaving(m)' = {} => A!Stored(left[m])' <= seen'[m]
    BY DEF Departing
  <2>1. left'[m] <= clock'
    BY <1>5 DEF AInv, Departing
  <2>2. A!Leaving(m)' = A!Leaving(m) \ {a}
    BY <1>9 DEF A!Leaving
  <2>3. \A b \in A!Leaving(m)' : at'[b] = at[b] /\ job'[b] = job[b]
    BY <1>9, <2>2 DEF A!Leaving
  <2>4. m \notin lapsed' => m \notin lapsed
    BY <1>6
  <2>5. A!Stored(left[m])' = A!Stored(left[m])
    BY <1>5 DEF A!Stored
  <2>6. ASSUME m \notin lapsed', A!Leaving(m)' = {} PROVE A!Stored(left[m]) <= seen'[m]
    <3>1. CASE m = n
      <4>1. a \in A!Leaving(m)
        BY <1>1, <1>2, <3>1 DEF A!Leaving
      <4>2. left[m] <= job[a].time
        BY <1>1, <2>4, <2>6, <4>1 DEF AInv, Departing
      <4>3. A!Stored(left[m]) <= A!Stored(job[a].time)
        BY <1>10, <3>1, <4>2, StoredFacts
      <4>4. seen'[m] = A!Stored(job[a].time)
        BY <1>6, <1>10, <2>6, <3>1
      <4> QED
        BY <4>3, <4>4
    <3>2. CASE m # n
      <4>1. A!Leaving(m) = {}
        BY <1>2, <2>2, <2>6, <3>2 DEF A!Leaving
      <4>2. seen'[m] = seen[m]
        BY <1>6, <1>10, <3>2
      <4> QED
        BY <2>4, <2>6, <4>1, <4>2 DEF AInv, Departing
    <3> QED
      BY <3>1, <3>2
  <2> QED
    BY <1>5, <2>1, <2>2, <2>3, <2>4, <2>5, <2>6 DEF AInv, Departing
<1> QED
  BY <1>8, <1>12, <1>13 DEF AInv

\* Every step keeps the invariant.
LEMMA StepAInv == AInv /\ [A!Next]_accountVars => AInv'
<1> SUFFICES ASSUME AInv, [A!Next]_accountVars PROVE AInv'
  OBVIOUS
<1>1. CASE UNCHANGED accountVars
  <2>1. UNCHANGED <<mysql, clock, hash, seen, bound, user, live, inited, at, job, acked, left, lapsed>>
    BY <1>1 DEF accountVars
  <2>2. A!TypeOK' /\ AckedIsKept'
    BY <2>1 DEF AInv, A!TypeOK, AckedIsKept
  <2>3. Threads'
    BY <2>1 DEF AInv, Threads, Handled, A!Stored
  <2>4. Departing'
    BY <2>1, DepartingStays DEF A!Leaving
  <2> QED
    BY <2>2, <2>3, <2>4 DEF AInv
<1>2. CASE A!Tick \/ A!Crash
  BY <1>2, ClockStep, RestartStep
<1>3. CASE \E c \in Conns : A!Close(c) \/ A!Connect(c)
  BY <1>3, CloseStep, ConnectStep
<1>4. ASSUME NEW w \in Workers, A!Request(w) PROVE AInv'
  BY <1>4, AskPresenceStep, RegisterStep, LoginStep, LogoutStep DEF A!Request
<1>5. ASSUME NEW w \in Workers, A!Work(w) PROVE AInv'
  BY <1>5, CreateUserStep, FindStep, InitTableStep, DecodeStep, SetUserStep, BindStep,
     ClearStep, ReadRowStep, IsOnlineStep, ReplyStep DEF A!Work
<1>6. CASE \E a \in A!Actors : A!Stamp(a) \/ A!Update(a)
  BY <1>6, StampStep, UpdateStep
<1> QED
  BY <1>1, <1>2, <1>3, <1>4, <1>5, <1>6 DEF A!Next

\* The invariant holds throughout.
LEMMA AccountsInvariance == A!Spec => []AInv
<1>1. A!Spec => A!Init /\ [][A!Next]_accountVars
  BY DEF A!Spec, A!vars, accountVars
<1> QED
  BY <1>1, InitAInv, StepAInv, PTL
-----------------------------------------------------------------------------
(* Nobody is let in but with the password that was registered, and with it   *)
(* everybody is, unless a query failed or base64_decode's table was being    *)
(* filled (handle_register, handle_login, verify_password_hash).             *)
THEOREM LoginIsJudged == A!Spec => []LoginsAreJudged
<1>1. AInv => LoginsAreJudged
  BY DEF AInv, Threads, Handled, LoginsAreJudged, A!LoginsAreJudged, A!Actors
<1> QED
  BY <1>1, AccountsInvariance, PTL

(* However departures, crashes and failed updates interleave, who is told    *)
(* that a user is offline is told a last_seen no older than its departure,   *)
(* except where that is recorded (Presence::unbind, update_last_seen,        *)
(* handle_presence).                                                         *)
THEOREM LastSeenFresh == A!Spec => []LastSeenIsFresh
<1>1. AInv => LastSeenIsFresh
  BY DEF AInv, Threads, Handled, LastSeenIsFresh, A!LastSeenIsFresh, A!Actors
<1> QED
  BY <1>1, AccountsInvariance, PTL
=============================================================================
