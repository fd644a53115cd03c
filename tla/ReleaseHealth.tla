---------------------------- MODULE ReleaseHealth ----------------------------
(***************************************************************************)
(* Sessions counted for the health of a release: recordSessionUpdate and   *)
(* recordAggregate of release-health-ingest.service, each a transaction at *)
(* READ COMMITTED, beside the retention of their rows.                     *)
(*                                                                         *)
(* A session is counted in the bucket in which it started, and each later  *)
(* update may move it to a worse outcome there.  Updates of one session    *)
(* arrive together and in any order; the first of them meet on the keys of *)
(* rows that are not there yet.  What a transaction writes becomes visible *)
(* at its commit; the rows it has written, locked or inserted are its own  *)
(* from the statement on that did so.                                      *)
(***************************************************************************)
EXTENDS Integers, FiniteSets

CONSTANTS
  Session,
  User,       \* keys of release_health_users
  Update,     \* updates of single sessions
  Aggregate,  \* counts that an SDK has added up itself
  SessionOf, OutcomeOf,  \* of each update
  CountsOf,   \* of each aggregate
  UserOf,     \* of each update and aggregate, None without a distinct id
  Started,    \* when each session and each aggregate started, by its client
  MaxAge,     \* SESSION_MAX_AGE_MS, in days
  Retention,  \* the days a project keeps
  MaxDay,     \* bound: days that pass
  Cleaner,    \* who holds the buckets that retention deletes
  None

Item == Update \union Aggregate
Bucket == 0..MaxDay  \* hours, of which days are enough here
Row == Bucket \union Session \union User

\* Outcomes by severity, 0 for healthy.  A bucket counts sessions in column 0
\* and each outcome that is not healthy in a column of its own.
Outcome == 0..3
Counts == [Outcome -> Nat]
SessionRow == [bucket : Bucket, outcome : Outcome, updated : 0..MaxDay]

ASSUME ReleaseHealthAssumption ==
  /\ SessionOf \in [Update -> Session] /\ OutcomeOf \in [Update -> Outcome]
  /\ CountsOf \in [Aggregate -> Counts]
  /\ UserOf \in [Item -> User \union {None}]
  /\ Started \in [Session \union Aggregate -> Nat]
  /\ MaxAge \in Nat /\ Retention \in Nat /\ MaxDay \in Nat
  /\ Update \intersect Aggregate = {} /\ Session \intersect Aggregate = {}
  /\ Session \intersect User = {} /\ Bucket \intersect (Session \union User) = {}
  /\ None \notin Item \union Row \union {Cleaner} /\ None \notin SessionRow /\ None \notin Counts
  /\ Cleaner \notin Item
  /\ IsFiniteSet(Session)

VARIABLES
  day,      \* today
  bucket,   \* release_health_buckets: the counts of each, or None
  session,  \* release_health_sessions: bucket, outcome, day of the update; or None
  user,     \* release_health_users
  lock,     \* the transaction whose rows and keys are locked
  drop,     \* the buckets that retention is deleting
  tx,       \* the transaction of each item
  past,     \* history: what each bucket counts besides the sessions there are
  heard,    \* history: the outcomes a session has been told
  tally,    \* history: how often each bucket has counted each session
  ahead     \* history: sessions reported before they say they started

tables == <<bucket, session, user>>
history == <<past, heard, tally, ahead>>
vars == <<day, tables, lock, drop, tx, history>>

Phase == {"new", "lock", "ensure", "insert", "count", "relock", "raise", "add", "user",
          "commit", "done", "lost"}
Tx == [phase : Phase, on : 0..MaxDay, at : Bucket, known : SessionRow \union {None},
       to : Bucket \union {None}, add : [Outcome -> Int]]

Zero == [c \in Outcome |-> 0]
NewTx == [phase |-> "new", on |-> 0, at |-> 0, known |-> None, to |-> None, add |-> Zero]

TypeOK ==
  /\ day \in 0..MaxDay
  /\ bucket \in [Bucket -> {None} \union Counts]
  /\ session \in [Session -> SessionRow \union {None}]
  /\ user \in [User -> {"none", "well", "crashed"}]
  /\ lock \in [Row -> Item \union {Cleaner, None}]
  /\ drop \subseteq Bucket
  /\ tx \in [Item -> Tx]
  /\ past \in [Bucket -> Counts]
  /\ heard \in [Session -> SUBSET Outcome]
  /\ tally \in [Bucket -> [Session -> Nat]]
  /\ ahead \subseteq Session

Init ==
  /\ day = 0
  /\ bucket = [b \in Bucket |-> None]
  /\ session = [s \in Session |-> None]
  /\ user = [x \in User |-> "none"]
  /\ lock = [k \in Row |-> None]
  /\ drop = {}
  /\ tx = [i \in Item |-> NewTx]
  /\ past = [b \in Bucket |-> Zero]
  /\ heard = [s \in Session |-> {}]
  /\ tally = [b \in Bucket |-> [s \in Session |-> 0]]
  /\ ahead = {}

-----------------------------------------------------------------------------
(* What the transactions share.                                            *)

InFlight(i) == tx[i].phase \notin {"new", "done", "lost"}
Free(i, k) == lock[k] \in {None, i}
Worse(i) == OutcomeOf[i] > tx[i].known.outcome
\* Mutant: the last update wins.
Latest(i) == OutcomeOf[i]
Worst(i) == IF Worse(i) THEN OutcomeOf[i] ELSE tx[i].known.outcome
AfterCounts(i) == IF UserOf[i] = None THEN "commit" ELSE "user"

\* outcomeCounts: a healthy session is in no column but the first.
FirstCounts(o) == [c \in Outcome |-> IF c = 0 \/ c = o THEN 1 ELSE 0]
MovedCounts(from, o) ==
  [c \in Outcome |-> IF c = 0 THEN 0 ELSE IF c = o THEN 1 ELSE IF c = from THEN -1 ELSE 0]

\* incrementSet: greatest(column + delta, 0).
Incremented(counts, add) ==
  [c \in Outcome |-> IF counts[c] + add[c] < 0 THEN 0 ELSE counts[c] + add[c]]

\* A statement that takes a row and goes on, having read or staged something.
Go(i, phase) == tx' = [tx EXCEPT ![i].phase = phase]
Take(i, k) == lock' = [lock EXCEPT ![k] = i]
Stages(i, b, add) ==
  /\ Free(i, b)
  /\ Take(i, b)
  /\ tx' = [tx EXCEPT ![i].phase = AfterCounts(i), ![i].to = b, ![i].add = add]
Released(holder) == [k \in Row |-> IF lock[k] = holder THEN None ELSE lock[k]]
InStatement == UNCHANGED <<day, tables, drop, history>>

-----------------------------------------------------------------------------
(* recordSessionUpdate and recordAggregate.                                *)

\* normalizeSessionUpdate: sessions that started too long ago are dropped, a
\* start in the future counts as now.
StartOf(i) == Started[IF i \in Update THEN SessionOf[i] ELSE i]
TooOld(i) == StartOf(i) + MaxAge < day
Receive(i) ==
  /\ tx[i].phase = "new" /\ ~TooOld(i)
  /\ tx' = [tx EXCEPT ![i].phase = IF i \in Update THEN "lock" ELSE "add", ![i].on = day,
                      ![i].at = IF StartOf(i) < day THEN StartOf(i) ELSE day]
  /\ ahead' = IF i \in Update /\ StartOf(i) > day THEN ahead \union {SessionOf[i]} ELSE ahead
  /\ UNCHANGED <<day, tables, lock, drop, past, heard, tally>>

\* lockKnown sees no row that another transaction has not committed; a row
\* that is gone on the second look leaves the update uncounted.
LockKnown(i) ==
  LET s == SessionOf[i]
      there == session[s] # None
  IN /\ tx[i].phase \in {"lock", "relock"}
     /\ there => Free(i, s)
     /\ lock' = IF there THEN [lock EXCEPT ![s] = i] ELSE lock
     /\ tx' = [tx EXCEPT ![i].known = session[s],
                         ![i].phase = IF there THEN "raise"
                                      ELSE IF @ = "lock" THEN "ensure" ELSE AfterCounts(i)]
     /\ InStatement

\* Mutant: the user is recorded before the bucket is there.
RecordUserFirst(i) ==
  LET b == tx[i].at
      x == UserOf[i]
  IN /\ tx[i].phase = "ensure"
     /\ x # None /\ Free(i, x)
     /\ IF bucket[b] = None THEN lock[b] = None ELSE lock[b] # Cleaner
     /\ lock' = [k \in Row |-> IF k = x \/ (k = b /\ bucket[b] = None) THEN i ELSE lock[k]]
     /\ Go(i, "insert")
     /\ InStatement

\* The insert waits for whoever inserts or deletes the same bucket.
EnsureBucket(i) ==
  LET b == tx[i].at IN
  /\ tx[i].phase = "ensure"
  /\ IF bucket[b] = None THEN lock[b] = None /\ Take(i, b)
     ELSE lock[b] # Cleaner /\ UNCHANGED lock
  /\ Go(i, "insert")
  /\ InStatement

\* So does the insert of the session; its bucket must still be there.
InsertSession(i) ==
  LET s == SessionOf[i] IN
  /\ tx[i].phase = "insert"
  /\ \/ /\ session[s] = None /\ lock[s] = None
        /\ \/ bucket[tx[i].at] # None /\ lock[tx[i].at] # Cleaner
           \/ lock[tx[i].at] = i
        /\ Take(i, s)
        /\ Go(i, "count")
     \/ /\ session[s] # None
        /\ UNCHANGED lock
        /\ Go(i, "relock")
  /\ InStatement

CountFirst(i) ==
  /\ tx[i].phase = "count"
  /\ Stages(i, tx[i].at, FirstCounts(OutcomeOf[i]))
  /\ InStatement

\* Mutant: the update counts in the bucket in which it says it started.
RaiseHere(i) ==
  LET known == tx[i].known IN
  /\ tx[i].phase = "raise"
  /\ IF Worse(i) THEN Stages(i, tx[i].at, MovedCounts(known.outcome, OutcomeOf[i]))
     ELSE Go(i, AfterCounts(i)) /\ UNCHANGED lock
  /\ InStatement

\* The update of the session, and of its bucket when it got worse.
Raise(i) ==
  LET known == tx[i].known IN
  /\ tx[i].phase = "raise"
  /\ IF Worse(i) THEN Stages(i, known.bucket, MovedCounts(known.outcome, OutcomeOf[i]))
     ELSE Go(i, AfterCounts(i)) /\ UNCHANGED lock
  /\ InStatement

AddToBucket(i) ==
  /\ tx[i].phase = "add"
  /\ Stages(i, tx[i].at, CountsOf[i])
  /\ InStatement

RecordUser(i) ==
  /\ tx[i].phase = "user"
  /\ Free(i, UserOf[i])
  /\ Take(i, UserOf[i])
  /\ Go(i, "commit")
  /\ InStatement

Crashed(i) == IF i \in Update THEN OutcomeOf[i] = 3 ELSE CountsOf[i][3] > 0
Tells(i, s) == i \in Update /\ s = SessionOf[i] /\ lock[s] = i

\* A bucket made on the way stays, whether or not it counts anything.
Commit(i) ==
  LET t == tx[i]
      first == t.known = None
  IN
  /\ t.phase = "commit"
  /\ bucket' = [b \in Bucket |->
       IF b = t.to THEN Incremented(IF bucket[b] = None THEN Zero ELSE bucket[b], t.add)
       ELSE IF bucket[b] = None /\ lock[b] = i THEN Zero ELSE bucket[b]]
  /\ session' = [s \in Session |->
       IF ~Tells(i, s) THEN session[s]
       ELSE IF first THEN [bucket |-> t.at, outcome |-> OutcomeOf[i], updated |-> t.on]
       ELSE [t.known EXCEPT !.outcome = Worst(i), !.updated = t.on]]
  /\ user' = [x \in User |->
       IF x # UserOf[i] THEN user[x]
       ELSE IF user[x] = "crashed" \/ Crashed(i) THEN "crashed" ELSE "well"]
  /\ lock' = Released(i)
  /\ tx' = [tx EXCEPT ![i].phase = "done"]
  /\ past' = IF i \in Aggregate
             THEN [past EXCEPT ![t.at] = [c \in Outcome |-> @[c] + CountsOf[i][c]]] ELSE past
  /\ heard' = [s \in Session |-> heard[s] \union IF Tells(i, s) THEN {OutcomeOf[i]} ELSE {}]
  /\ tally' = [b \in Bucket |-> [s \in Session |->
                 tally[b][s] + IF b = t.at /\ first /\ Tells(i, s) THEN 1 ELSE 0]]
  /\ UNCHANGED <<day, drop, ahead>>

\* A statement fails, deadlocked or not, or its process dies.  Nobody tries a
\* session again.
Rollback(i) ==
  /\ InFlight(i)
  /\ tx' = [tx EXCEPT ![i].phase = "lost"]
  /\ lock' = Released(i)
  /\ UNCHANGED <<day, tables, drop, history>>

-----------------------------------------------------------------------------
(* Time and retention.                                                     *)

\* No transaction lasts a day.
NextDay ==
  /\ day < MaxDay
  /\ \A i \in Item : InFlight(i) => tx[i].on = day
  /\ day' = day + 1
  /\ UNCHANGED <<tables, lock, drop, tx, history>>

\* The counts of a session stay in its bucket when its row goes.
Left(b, gone) ==
  [c \in Outcome |-> past[b][c] +
     Cardinality({s \in gone : session[s].bucket = b /\ (c = 0 \/ session[s].outcome = c)})]

\* Mutant: the state of a session goes as soon as no update is accepted.
StaleSooner(s) == session[s] # None /\ session[s].updated + MaxAge < day
\* Sessions that no update is accepted for any more, and a day longer.
Stale(s) == session[s] # None /\ session[s].updated + MaxAge + 1 < day
Prune ==
  LET gone == {s \in Session : Stale(s)} IN
  /\ gone # {} /\ \A s \in gone : lock[s] = None
  /\ session' = [s \in Session |-> IF s \in gone THEN None ELSE session[s]]
  /\ heard' = [s \in Session |-> IF s \in gone THEN {} ELSE heard[s]]
  /\ past' = [b \in Bucket |-> Left(b, gone)]
  /\ UNCHANGED <<day, bucket, user, lock, drop, tx, tally, ahead>>

\* The rows of old buckets are locked first, then those of their sessions,
\* which go with them.  A session just inserted holds its bucket (key share).
DropLock ==
  LET old == {b \in Bucket : bucket[b] # None /\ b + Retention < day} IN
  /\ drop = {} /\ old # {}
  /\ \A b \in old : lock[b] = None
  /\ \A i \in Item : tx[i].phase = "count" => tx[i].at \notin old
  /\ drop' = old
  /\ lock' = [k \in Row |-> IF k \in old THEN Cleaner ELSE lock[k]]
  /\ UNCHANGED <<day, tables, tx, history>>

Dropped(s) == session[s] # None /\ session[s].bucket \in drop
DropCommit ==
  LET gone == {s \in Session : Dropped(s)} IN
  /\ drop # {} /\ \A s \in gone : lock[s] = None
  /\ bucket' = [b \in Bucket |-> IF b \in drop THEN None ELSE bucket[b]]
  /\ session' = [s \in Session |-> IF s \in gone THEN None ELSE session[s]]
  /\ heard' = [s \in Session |-> IF s \in gone THEN {} ELSE heard[s]]
  /\ past' = [b \in Bucket |-> IF b \in drop THEN Zero ELSE past[b]]
  /\ tally' = [b \in Bucket |-> IF b \in drop THEN [s \in Session |-> 0] ELSE tally[b]]
  /\ lock' = Released(Cleaner)
  /\ drop' = {}
  /\ UNCHANGED <<day, user, tx, ahead>>

DropFails ==
  /\ drop # {}
  /\ drop' = {} /\ lock' = Released(Cleaner)
  /\ UNCHANGED <<day, tables, tx, history>>

Next ==
  \/ \E i \in Item : Receive(i) \/ EnsureBucket(i) \/ CountFirst(i) \/ AddToBucket(i)
                       \/ RecordUser(i) \/ Commit(i) \/ Rollback(i)
  \/ \E i \in Update : LockKnown(i) \/ InsertSession(i) \/ Raise(i)
  \/ NextDay \/ Prune \/ DropLock \/ DropCommit \/ DropFails

Spec == Init /\ [][Next]_vars

-----------------------------------------------------------------------------
(* Properties.                                                             *)

\* What a bucket shows is what its sessions and aggregates make up, however
\* updates of one session interleave, fail, or outlive the row of the session.
BucketsAddUp ==
  \A b \in Bucket : bucket[b] # None =>
    \A c \in Outcome :
      bucket[b][c] = past[b][c] +
        Cardinality({s \in Session : /\ session[s] # None /\ session[s].bucket = b
                                     /\ c = 0 \/ session[s].outcome = c})

\* "an update only ever raises it": in whatever order updates commit, a session
\* has the worst outcome they told, and a user who crashed once has crashed.
WorstWins ==
  /\ \A s \in Session : session[s] # None =>
       /\ session[s].outcome \in heard[s]
       /\ \A o \in heard[s] : o <= session[s].outcome
  /\ \A x \in User :
       user[x] = "crashed" <=>
         \E i \in Item : tx[i].phase = "done" /\ UserOf[i] = x /\ Crashed(i)

\* "A session is counted once": by one bucket, unless that bucket was deleted,
\* and as long as the clock of its client does not run ahead.
CountedOnce ==
  \A s \in Session \ ahead :
    /\ \A b \in Bucket : tally[b][s] <= 1
    /\ \A b, c \in Bucket : b # c => tally[b][s] = 0 \/ tally[c][s] = 0

\* The rows and keys that a transaction may wait for.
Wants(i) ==
  LET t == tx[i] IN
  CASE t.phase \in {"lock", "relock", "insert"} -> {SessionOf[i]}
    [] t.phase \in {"ensure", "count", "add"} -> {t.at}
    [] t.phase = "raise" -> IF Worse(i) THEN {t.known.bucket} ELSE {}
    [] t.phase = "user" -> {UserOf[i]}
    [] OTHER -> {}
WaitsFor(i, j) == i # j /\ \E k \in Wants(i) : lock[k] = j

\* "concurrent updates of one session wait for each other instead of
\* deadlocking": nor do any other updates and aggregates, in a ring of any length.
UpdatesNeverDeadlock ==
  \A ring \in SUBSET Item : ring # {} => \E i \in ring : \A j \in ring : ~WaitsFor(i, j)

-----------------------------------------------------------------------------
(* What a comment of the code says and a clock that runs ahead breaks.     *)

\* "Sessions that old are refused at ingest, so their state is no longer
\* needed": no session is counted twice.
NeverCountedTwice ==
  \A s \in Session, b, c \in Bucket : b # c => tally[b][s] = 0 \/ tally[c][s] = 0
=============================================================================
