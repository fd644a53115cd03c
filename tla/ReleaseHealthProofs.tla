------------------------- MODULE ReleaseHealthProofs -------------------------
(***************************************************************************)
(* Proofs about ReleaseHealth, for any number of sessions, updates and     *)
(* aggregates.                                                             *)
(*                                                                         *)
(* What an item has locked, and what it remembers of the rows it has       *)
(* locked, says where it is in its transaction (ItemInv).  As nobody else  *)
(* writes those rows, a step of another item leaves ItemInv alone          *)
(* (Undisturbed), and each conjunct is proved once for the item that moves *)
(* and once for all the others.                                            *)
(***************************************************************************)
EXTENDS ReleaseHealth, FiniteSetTheorems, TLAPS

OfUpdates == {"lock", "ensure", "insert", "count", "relock", "raise"}
AfterEnsure == {"insert", "relock", "count", "raise", "user", "commit"}
WithSession == {"count", "raise", "user", "commit"}
Staging == {"user", "commit"}

\* Which items get to a phase, and what they know in it.
Placed(i) ==
  /\ tx[i].phase \in OfUpdates => i \in Update
  /\ tx[i].phase = "add" => i \in Aggregate
  /\ tx[i].phase \in OfUpdates \union {"new", "add"} => tx[i].to = None
  /\ tx[i].phase \in {"ensure", "insert", "count"} \/ i \in Aggregate => tx[i].known = None
  /\ tx[i].phase = "user" => UserOf[i] # None

\* What an item may have locked.
Holds(i) ==
  \A k \in Row : lock[k] = i =>
    /\ InFlight(i)
    /\ k \in Bucket =>
         \/ k = tx[i].to
         \/ k = tx[i].at /\ bucket[k] = None /\ tx[i].phase \in AfterEnsure
    /\ k \in Session => i \in Update /\ k = SessionOf[i] /\ tx[i].phase \in WithSession
    /\ k \in User => k = UserOf[i] /\ tx[i].phase = "commit"

Counting(i) ==
  tx[i].phase = "count" =>
    /\ lock[SessionOf[i]] = i /\ session[SessionOf[i]] = None
    /\ bucket[tx[i].at] # None \/ lock[tx[i].at] = i
    /\ lock[tx[i].at] # Cleaner

Raising(i) ==
  tx[i].phase = "raise" =>
    /\ lock[SessionOf[i]] = i
    /\ tx[i].known = session[SessionOf[i]] /\ tx[i].known # None

\* What an item is about to write, once it has decided.
StagedFirst(i) == tx[i].to = tx[i].at /\ tx[i].add = FirstCounts(OutcomeOf[i])
StagedWorse(i) ==
  /\ tx[i].to = tx[i].known.bucket
  /\ tx[i].add = MovedCounts(tx[i].known.outcome, OutcomeOf[i])

Staged(i) ==
  tx[i].phase \in Staging =>
    /\ tx[i].to # None => lock[tx[i].to] = i
    /\ i \in Aggregate => tx[i].to = tx[i].at /\ tx[i].add = CountsOf[i]
    /\ i \in Update /\ lock[SessionOf[i]] = i =>
         /\ tx[i].known = session[SessionOf[i]]
         /\ tx[i].known = None => StagedFirst(i)
         /\ tx[i].known # None /\ Worse(i) => StagedWorse(i)
         /\ tx[i].known # None /\ ~Worse(i) => tx[i].to = None
    /\ i \in Update /\ lock[SessionOf[i]] # i => tx[i].to = None

ItemInv(i) == Placed(i) /\ Holds(i) /\ Counting(i) /\ Raising(i) /\ Staged(i)

DropsHeld ==
  /\ \A k \in Row : lock[k] = Cleaner <=> k \in drop
  /\ \A b \in drop : bucket[b] # None

\* No session without its bucket; nothing is remembered of what is gone.
Referenced ==
  /\ \A s \in Session : session[s] # None => bucket[session[s].bucket] # None
  /\ \A s \in Session : session[s] = None => heard[s] = {}
  /\ \A b \in Bucket : bucket[b] = None =>
       past[b] = Zero /\ \A s \in Session : tally[b][s] = 0

\* Why the state of a session outlives every update that is accepted for it.
OnTime(s) ==
  /\ \A i \in Update : SessionOf[i] = s /\ InFlight(i) =>
       /\ tx[i].at = Started[s] /\ Started[s] <= tx[i].on
       /\ tx[i].on <= Started[s] + MaxAge /\ day <= tx[i].on + 1
  /\ session[s] # None => session[s].bucket = Started[s] /\ Started[s] <= session[s].updated
  /\ \A b \in Bucket :
       /\ tally[b][s] <= 1
       /\ tally[b][s] # 0 =>
            /\ b = Started[s]
            /\ session[s] = None => Started[s] + MaxAge + 1 < day

IInv ==
  /\ TypeOK
  /\ \A i \in Item : ItemInv(i)
  /\ DropsHeld /\ Referenced
  /\ \A s \in Session \ ahead : OnTime(s)
  /\ BucketsAddUp /\ WorstWins

LEMMA InitIInv == Init => IInv
<1>. SUFFICES ASSUME Init PROVE IInv
  OBVIOUS
<1>. USE ReleaseHealthAssumption
<1>1. TypeOK
  BY DEF Init, TypeOK, NewTx, Tx, Phase, Zero, Counts, Outcome, Row, Bucket, Item
<1>2. \A i \in Item : ItemInv(i)
  <2>. TAKE i \in Item
  <2>1. tx[i].phase = "new" /\ tx[i].to = None /\ tx[i].known = None
    BY DEF Init, NewTx
  <2>2. \A k \in Row : lock[k] = None
    BY DEF Init
  <2>. QED BY <2>1, <2>2 DEF ItemInv, Placed, Holds, Counting, Raising, Staged, OfUpdates, Staging
<1>3. DropsHeld /\ Referenced
  BY DEF Init, DropsHeld, Referenced, Item
<1>4. \A s \in Session \ ahead : OnTime(s)
  <2>. TAKE s \in Session \ ahead
  <2>1. \A i \in Item : ~InFlight(i)
    BY DEF Init, NewTx, InFlight
  <2>. QED BY <2>1 DEF Init, OnTime, Item
<1>5. BucketsAddUp /\ WorstWins
  BY DEF Init, BucketsAddUp, WorstWins, NewTx
<1>. QED BY <1>1, <1>2, <1>3, <1>4, <1>5 DEF IInv

-----------------------------------------------------------------------------
(* The statements of a transaction.                                        *)

Statement(i) ==
  \/ i \in Update /\ (LockKnown(i) \/ InsertSession(i) \/ Raise(i))
  \/ EnsureBucket(i) \/ CountFirst(i) \/ AddToBucket(i) \/ RecordUser(i)

\* What every statement of a transaction does, whichever it is.
Moves(i) ==
  /\ InStatement
  /\ tx' \in [Item -> Tx] /\ \A j \in Item \ {i} : tx'[j] = tx[j]
  /\ tx'[i].on = tx[i].on /\ tx'[i].at = tx[i].at
  /\ InFlight(i) /\ InFlight(i)' /\ tx'[i].phase # "new"
  /\ lock' \in [Row -> Item \union {Cleaner, None}]
  /\ \A k \in Row : lock'[k] = lock[k] \/ (lock'[k] = i /\ lock[k] = None)

\* What is computed is of the type of its place.
LEMMA CountTypes ==
  ASSUME NEW o \in Outcome, NEW p \in Outcome
  PROVE  FirstCounts(o) \in Counts /\ MovedCounts(p, o) \in [Outcome -> Int]
BY DEF FirstCounts, MovedCounts, Counts, Outcome

LEMMA CountsAreInt == ASSUME NEW f \in Counts PROVE f \in [Outcome -> Int]
BY DEF Counts

\* What the assignments of a statement leave in its transaction.
LEMMA GoEffect ==
  ASSUME tx \in [Item -> Tx], NEW i \in Item, NEW p \in Phase, Go(i, p)
  PROVE  /\ tx' \in [Item -> Tx] /\ \A j \in Item \ {i} : tx'[j] = tx[j]
         /\ tx'[i].phase = p /\ tx'[i].on = tx[i].on /\ tx'[i].at = tx[i].at
         /\ tx'[i].known = tx[i].known /\ tx'[i].to = tx[i].to /\ tx'[i].add = tx[i].add
BY DEF Go, Tx

LEMMA StagesEffect ==
  ASSUME tx \in [Item -> Tx], NEW i \in Item, NEW b \in Bucket, NEW d \in [Outcome -> Int],
         Stages(i, b, d)
  PROVE  /\ tx' \in [Item -> Tx] /\ \A j \in Item \ {i} : tx'[j] = tx[j]
         /\ tx'[i].phase = AfterCounts(i) /\ tx'[i].on = tx[i].on /\ tx'[i].at = tx[i].at
         /\ tx'[i].known = tx[i].known /\ tx'[i].to = b /\ tx'[i].add = d
         /\ lock[b] \in {None, i} /\ lock' = [lock EXCEPT ![b] = i]
         /\ AfterCounts(i) \in Staging
<1>1. AfterCounts(i) \in Phase /\ AfterCounts(i) \in Staging
  BY DEF AfterCounts, Phase, Staging
<1>2. tx[i] \in Tx /\ tx[i].phase \in Phase
  BY DEF Tx
<1>3. tx' = [tx EXCEPT ![i].phase = AfterCounts(i), ![i].to = b, ![i].add = d]
  BY DEF Stages
<1>4. tx'[i] = [tx[i] EXCEPT !.phase = AfterCounts(i), !.to = b, !.add = d]
  BY <1>3
<1>5. /\ tx'[i] \in Tx
      /\ tx'[i].phase = AfterCounts(i) /\ tx'[i].on = tx[i].on /\ tx'[i].at = tx[i].at
      /\ tx'[i].known = tx[i].known /\ tx'[i].to = b /\ tx'[i].add = d
  BY <1>1, <1>2, <1>4 DEF Tx
<1>6. tx' \in [Item -> Tx] /\ \A j \in Item \ {i} : tx'[j] = tx[j]
  BY <1>3, <1>5
<1>7. lock[b] \in {None, i} /\ lock' = [lock EXCEPT ![b] = i]
  BY DEF Stages, Free, Take
<1>. QED BY <1>1, <1>5, <1>6, <1>7

LEMMA LockKnownEffect ==
  ASSUME TypeOK, NEW i \in Update, LockKnown(i)
  PROVE  /\ tx' \in [Item -> Tx] /\ \A j \in Item \ {i} : tx'[j] = tx[j]
         /\ tx'[i].on = tx[i].on /\ tx'[i].at = tx[i].at
         /\ tx'[i].known = session[SessionOf[i]]
         /\ tx'[i].to = tx[i].to /\ tx'[i].add = tx[i].add
         /\ tx[i].phase \in {"lock", "relock"}
         /\ tx'[i].phase = IF session[SessionOf[i]] # None THEN "raise"
                           ELSE IF tx[i].phase = "lock" THEN "ensure" ELSE AfterCounts(i)
         /\ session[SessionOf[i]] # None => lock[SessionOf[i]] \in {None, i}
         /\ lock' = IF session[SessionOf[i]] # None
                    THEN [lock EXCEPT ![SessionOf[i]] = i] ELSE lock
         /\ InStatement
<1>1. session[SessionOf[i]] \in SessionRow \union {None} /\ i \in Item
  BY ReleaseHealthAssumption DEF TypeOK, Item
<1>2. tx \in [Item -> Tx]
  BY DEF TypeOK
<1>. QED BY <1>1, <1>2 DEF LockKnown, Tx, Phase, AfterCounts, Free

LEMMA MovesIf ==
  ASSUME TypeOK, NEW i \in Item, NEW k \in Row, InStatement, InFlight(i),
         tx' \in [Item -> Tx], \A j \in Item \ {i} : tx'[j] = tx[j],
         tx'[i].on = tx[i].on, tx'[i].at = tx[i].at, tx'[i].phase \notin {"new", "done", "lost"},
         \/ lock' = lock
         \/ lock[k] \in {None, i} /\ lock' = [lock EXCEPT ![k] = i]
  PROVE  Moves(i)
<1>1. InFlight(i)'
  BY DEF InFlight
<1>2. lock \in [Row -> Item \union {Cleaner, None}]
  BY DEF TypeOK
<1>3. lock' \in [Row -> Item \union {Cleaner, None}]
  BY <1>2
<1>4. \A l \in Row : lock'[l] = lock[l] \/ (lock'[l] = i /\ lock[l] = None)
  BY <1>2
<1>. QED BY <1>1, <1>3, <1>4 DEF Moves

LEMMA StatementMoves ==
  ASSUME TypeOK, NEW i \in Item, ItemInv(i), Statement(i)
  PROVE  Moves(i)
<1>. USE ReleaseHealthAssumption
<1>1. /\ tx[i] \in Tx /\ tx \in [Item -> Tx] /\ lock \in [Row -> Item \union {Cleaner, None}]
      /\ tx[i].at \in Bucket /\ tx[i].at \in Row /\ tx[i].known \in SessionRow \union {None}
      /\ \A k \in Bucket \union Session \union User : k \in Row
  BY DEF TypeOK, Tx, Row
<1>a. /\ {"insert", "count", "relock", "user", "commit"} \subseteq Phase
      /\ AfterCounts(i) \in Phase /\ AfterCounts(i) \in {"user", "commit"}
  BY DEF Phase, AfterCounts
<1>2. CASE i \in Update /\ LockKnown(i)
  <2>1. SessionOf[i] \in Row
    BY <1>1, <1>2 DEF TypeOK
  <2>2. InFlight(i) /\ tx'[i].phase \notin {"new", "done", "lost"}
    BY <1>2, LockKnownEffect DEF InFlight, AfterCounts
  <2>. QED BY <1>2, <2>1, <2>2, LockKnownEffect, MovesIf
<1>3. CASE EnsureBucket(i)
  <2>1. Go(i, "insert") /\ tx[i].phase = "ensure" /\ InStatement
    BY <1>3 DEF EnsureBucket
  <2>2. \/ lock[tx[i].at] = None /\ lock' = [lock EXCEPT ![tx[i].at] = i]
        \/ lock' = lock
    BY <1>3 DEF EnsureBucket, Take
  <2>4. /\ tx' \in [Item -> Tx] /\ \A j \in Item \ {i} : tx'[j] = tx[j]
        /\ tx'[i].on = tx[i].on /\ tx'[i].at = tx[i].at
        /\ tx'[i].phase \notin {"new", "done", "lost"}
    BY <1>1, <1>a, <2>1, <2>2, GoEffect
  <2>5. InFlight(i)
    BY <2>1, <2>2 DEF InFlight
  <2>. QED BY <1>1, <2>1, <2>2, <2>4, <2>5, MovesIf
<1>4. CASE i \in Update /\ InsertSession(i)
  <2>1. SessionOf[i] \in Row
    BY <1>1, <1>4
  <2>2. /\ tx[i].phase = "insert" /\ InStatement
        /\ \/ Go(i, "count") /\ lock[SessionOf[i]] = None
              /\ lock' = [lock EXCEPT ![SessionOf[i]] = i]
           \/ Go(i, "relock") /\ lock' = lock
    BY <1>4 DEF InsertSession, Take
  <2>4. /\ tx' \in [Item -> Tx] /\ \A j \in Item \ {i} : tx'[j] = tx[j]
        /\ tx'[i].on = tx[i].on /\ tx'[i].at = tx[i].at
        /\ tx'[i].phase \notin {"new", "done", "lost"}
    BY <1>1, <1>a, <2>1, <2>2, GoEffect
  <2>5. InFlight(i)
    BY <2>1, <2>2 DEF InFlight
  <2>. QED BY <1>1, <2>1, <2>2, <2>4, <2>5, MovesIf
<1>5. CASE CountFirst(i)
  <2>1. i \in Update
    BY <1>5 DEF CountFirst, ItemInv, Placed, OfUpdates
  <2>2. FirstCounts(OutcomeOf[i]) \in [Outcome -> Int]
    BY <2>1, CountTypes, CountsAreInt
  <2>3. Stages(i, tx[i].at, FirstCounts(OutcomeOf[i])) /\ tx[i].phase = "count" /\ InStatement
    BY <1>5 DEF CountFirst
  <2>4. /\ tx' \in [Item -> Tx] /\ \A j \in Item \ {i} : tx'[j] = tx[j]
        /\ tx'[i].on = tx[i].on /\ tx'[i].at = tx[i].at
        /\ tx'[i].phase \notin {"new", "done", "lost"}
    BY <1>1, <1>a, <2>2, <2>3, StagesEffect
  <2>5. InFlight(i)
    BY <2>2, <2>3 DEF InFlight
  <2>6. lock[tx[i].at] \in {None, i} /\ lock' = [lock EXCEPT ![tx[i].at] = i]
    BY <1>1, <2>2, <2>3, StagesEffect
  <2>. QED BY <1>1, <2>3, <2>4, <2>5, <2>6, MovesIf
<1>6. CASE i \in Update /\ Raise(i)
  <2>1. /\ tx[i].phase = "raise" /\ InStatement
        /\ tx[i].known \in SessionRow /\ tx[i].known.bucket \in Bucket
    BY <1>1, <1>6 DEF Raise, ItemInv, Raising, SessionRow
  <2>2. MovedCounts(tx[i].known.outcome, OutcomeOf[i]) \in [Outcome -> Int]
    BY <1>6, <2>1, CountTypes DEF SessionRow
  <2>3. CASE Worse(i)
    <3>1. Stages(i, tx[i].known.bucket, MovedCounts(tx[i].known.outcome, OutcomeOf[i]))
      BY <1>6, <2>3 DEF Raise
    <3>2. /\ tx' \in [Item -> Tx] /\ \A j \in Item \ {i} : tx'[j] = tx[j]
          /\ tx'[i].on = tx[i].on /\ tx'[i].at = tx[i].at
          /\ tx'[i].phase \notin {"new", "done", "lost"}
      BY <1>1, <1>a, <2>1, <2>2, <3>1, StagesEffect
    <3>3. InFlight(i)
      BY <2>1, <2>2, <3>1 DEF InFlight
    <3>. QED BY <1>1, <2>1, <2>2, <3>1, <3>2, <3>3, StagesEffect, MovesIf
  <2>4. CASE ~Worse(i)
    <3>1. Go(i, AfterCounts(i)) /\ lock' = lock
      BY <1>6, <2>4 DEF Raise
    <3>2. /\ tx' \in [Item -> Tx] /\ \A j \in Item \ {i} : tx'[j] = tx[j]
          /\ tx'[i].on = tx[i].on /\ tx'[i].at = tx[i].at
          /\ tx'[i].phase \notin {"new", "done", "lost"}
      BY <1>1, <1>a, <2>1, <3>1, GoEffect
    <3>3. InFlight(i)
      BY <2>1, <3>1 DEF InFlight
    <3>. QED BY <1>1, <2>1, <3>1, <3>2, <3>3, MovesIf
  <2>. QED BY <2>3, <2>4
<1>7. CASE AddToBucket(i)
  <2>1. i \in Aggregate /\ CountsOf[i] \in [Outcome -> Int]
    BY <1>7, CountsAreInt DEF AddToBucket, ItemInv, Placed
  <2>2. Stages(i, tx[i].at, CountsOf[i]) /\ tx[i].phase = "add" /\ InStatement
    BY <1>7 DEF AddToBucket
  <2>4. /\ tx' \in [Item -> Tx] /\ \A j \in Item \ {i} : tx'[j] = tx[j]
        /\ tx'[i].on = tx[i].on /\ tx'[i].at = tx[i].at
        /\ tx'[i].phase \notin {"new", "done", "lost"}
    BY <1>1, <1>a, <2>1, <2>2, StagesEffect
  <2>5. InFlight(i)
    BY <2>1, <2>2 DEF InFlight
  <2>. QED BY <1>1, <2>1, <2>2, <2>4, <2>5, StagesEffect, MovesIf
<1>8. CASE RecordUser(i)
  <2>1. UserOf[i] \in Row
    BY <1>1, <1>8 DEF RecordUser, ItemInv, Placed
  <2>2. /\ Go(i, "commit") /\ tx[i].phase = "user" /\ InStatement
        /\ lock[UserOf[i]] \in {None, i} /\ lock' = [lock EXCEPT ![UserOf[i]] = i]
    BY <1>8 DEF RecordUser, Free, Take
  <2>4. /\ tx' \in [Item -> Tx] /\ \A j \in Item \ {i} : tx'[j] = tx[j]
        /\ tx'[i].on = tx[i].on /\ tx'[i].at = tx[i].at
        /\ tx'[i].phase \notin {"new", "done", "lost"}
    BY <1>1, <1>a, <2>1, <2>2, GoEffect
  <2>5. InFlight(i)
    BY <2>1, <2>2 DEF InFlight
  <2>. QED BY <1>1, <2>1, <2>2, <2>4, <2>5, MovesIf
<1>. QED BY <1>2, <1>3, <1>4, <1>5, <1>6, <1>7, <1>8 DEF Statement

LEMMA StagesItem ==
  ASSUME TypeOK, NEW i \in Item, ItemInv(i), tx[i].phase \in {"count", "raise", "add"},
         NEW b \in Bucket, NEW d \in [Outcome -> Int], Stages(i, b, d), InStatement
  PROVE  /\ Placed(i)' /\ Holds(i)' /\ tx'[i].phase \in Staging /\ lock'[b] = i
         /\ tx'[i].to = b /\ tx'[i].add = d /\ tx'[i].at = tx[i].at /\ tx'[i].known = tx[i].known
         /\ \A s \in Session : lock'[s] = lock[s]
         /\ bucket' = bucket /\ session' = session
<1>. USE ReleaseHealthAssumption
<1>1. /\ tx \in [Item -> Tx] /\ lock \in [Row -> Item \union {Cleaner, None}]
      /\ \A k \in Bucket \union Session \union User : k \in Row
      /\ bucket' = bucket /\ session' = session
  BY DEF TypeOK, Row, InStatement, tables
<1>2. /\ tx'[i].phase = AfterCounts(i) /\ tx'[i].phase \in Staging
      /\ tx'[i].at = tx[i].at /\ tx'[i].known = tx[i].known
      /\ tx'[i].to = b /\ tx'[i].add = d /\ lock' = [lock EXCEPT ![b] = i]
  BY <1>1, StagesEffect
<1>3. lock'[b] = i /\ \A k \in Row \ {b} : lock'[k] = lock[k]
  BY <1>1, <1>2
<1>4. \A s \in Session : s # b /\ lock'[s] = lock[s]
  BY <1>1, <1>3
<1>5. Placed(i)'
  BY <1>2 DEF ItemInv, Placed, Staging, OfUpdates, AfterCounts
<1>6. tx[i].to = None
  BY DEF ItemInv, Placed, OfUpdates
<1>7. Holds(i)'
  <2>. SUFFICES ASSUME NEW k \in Row, lock'[k] = i
                PROVE  /\ InFlight(i)'
                       /\ k \in Bucket =>
                            \/ k = tx'[i].to
                            \/ k = tx'[i].at /\ bucket'[k] = None /\ tx'[i].phase \in AfterEnsure
                       /\ k \in Session => /\ i \in Update /\ k = SessionOf[i]
                                           /\ tx'[i].phase \in WithSession
                       /\ k \in User => k = UserOf[i] /\ tx'[i].phase = "commit"
    BY DEF Holds
  <2>1. InFlight(i)' /\ tx'[i].phase \in AfterEnsure /\ tx'[i].phase \in WithSession
    BY <1>2 DEF InFlight, Staging, AfterEnsure, WithSession
  <2>2. CASE k = b
    BY <1>2, <2>1, <2>2
  <2>3. CASE k # b
    <3>1. lock[k] = i
      BY <1>3, <2>3
    <3>. QED BY <1>1, <1>2, <1>6, <2>1, <3>1 DEF ItemInv, Holds
  <2>. QED BY <2>2, <2>3
<1>. QED BY <1>1, <1>2, <1>3, <1>4, <1>5, <1>7

\* The item that moves is where its transaction says it is.
LEMMA StatementItem ==
  ASSUME TypeOK, NEW i \in Item, ItemInv(i), Statement(i)
  PROVE  ItemInv(i)'
<1>. USE ReleaseHealthAssumption
<1>1. /\ tx \in [Item -> Tx] /\ lock \in [Row -> Item \union {Cleaner, None}]
      /\ tx[i].at \in Bucket /\ tx[i].known \in SessionRow \union {None}
      /\ \A k \in Bucket \union Session \union User : k \in Row
      /\ \A k \in Row : k \in Bucket \union Session \union User
      /\ i # Cleaner /\ i # None
  BY DEF TypeOK, Tx, Row
<1>a. {"insert", "count", "relock", "commit"} \subseteq Phase
  BY DEF Phase
<1>b. /\ AfterCounts(i) \in Phase /\ AfterCounts(i) \in Staging
      /\ AfterCounts(i) = "user" => UserOf[i] # None
  BY DEF Phase, AfterCounts, Staging
<1>c. i \in Update => SessionOf[i] \in Session /\ session[SessionOf[i]] \in SessionRow \union {None}
  BY DEF TypeOK
<1>2. CASE i \in Update /\ LockKnown(i)
  <2>. DEFINE s == SessionOf[i]
  <2>1. /\ tx'[i].at = tx[i].at /\ tx'[i].known = session[s] /\ tx'[i].to = None
        /\ tx[i].phase \in {"lock", "relock"} /\ session' = session /\ bucket' = bucket
    BY <1>2, LockKnownEffect DEF ItemInv, Placed, OfUpdates, InStatement, tables
  <2>2. \A k \in Row : lock[k] = i => k \in Bucket /\ k = tx[i].at /\ bucket[k] = None
    BY <1>1, <2>1 DEF ItemInv, Holds, Placed, WithSession, OfUpdates
  <2>3. CASE session[s] # None
    <3>1. tx'[i].phase = "raise" /\ lock' = [lock EXCEPT ![s] = i]
      BY <1>2, <2>3, LockKnownEffect
    <3>2. lock'[s] = i /\ \A k \in Row : lock'[k] = i => k = s \/ lock[k] = i
      BY <1>1, <1>c, <1>2, <3>1
    <3>3. Placed(i)'
      BY <1>2, <2>1, <3>1 DEF Placed, Item
    <3>4. Holds(i)'
      BY <1>1, <1>c, <1>2, <2>1, <2>2, <3>1, <3>2 DEF Holds, InFlight, AfterEnsure, WithSession
    <3>. QED BY <2>1, <2>3, <3>1, <3>2, <3>3, <3>4
             DEF ItemInv, Counting, Raising, Staged, Staging
  <2>4. CASE session[s] = None /\ tx[i].phase = "lock"
    <3>1. tx'[i].phase = "ensure" /\ lock' = lock
      BY <1>2, <2>4, LockKnownEffect
    <3>2. \A k \in Row : lock'[k] # i
      BY <2>2, <2>4, <3>1 DEF ItemInv, Holds, Placed, AfterEnsure, OfUpdates
    <3>3. Placed(i)' /\ Holds(i)'
      BY <1>2, <2>1, <2>4, <3>1, <3>2 DEF Placed, Holds, Item
    <3>. QED BY <3>1, <3>3 DEF ItemInv, Counting, Raising, Staged, Staging
  <2>5. CASE session[s] = None /\ tx[i].phase = "relock"
    <3>1. tx'[i].phase = AfterCounts(i) /\ lock' = lock
      BY <1>2, <2>5, LockKnownEffect
    <3>2. Placed(i)'
      BY <1>b, <1>2, <2>1, <2>5, <3>1 DEF Placed, Item, Staging, OfUpdates
    <3>3. Holds(i)'
      BY <1>1, <1>b, <1>2, <2>1, <2>2, <2>5, <3>1 DEF Holds, InFlight, AfterEnsure, Staging
    <3>4. lock'[s] # i
      BY <1>1, <1>c, <1>2, <2>2, <3>1
    <3>. QED BY <1>2, <1>b, <2>1, <3>1, <3>2, <3>3, <3>4
             DEF ItemInv, Counting, Raising, Staged, Staging
  <2>. QED BY <2>1, <2>3, <2>4, <2>5
<1>3. CASE EnsureBucket(i)
  <2>1. /\ Go(i, "insert") /\ tx[i].phase = "ensure" /\ bucket' = bucket /\ session' = session
        /\ \/ bucket[tx[i].at] = None /\ lock' = [lock EXCEPT ![tx[i].at] = i]
           \/ lock' = lock
    BY <1>3 DEF EnsureBucket, Take, InStatement, tables
  <2>2. \A k \in Row : lock[k] # i
    BY <1>1, <2>1 DEF ItemInv, Holds, Placed, AfterEnsure, WithSession, OfUpdates
  <2>3. /\ tx'[i].phase = "insert" /\ tx'[i].at = tx[i].at /\ tx'[i].to = None
        /\ tx'[i].known = None /\ i \in Update
    BY <1>1, <1>a, <2>1, GoEffect DEF ItemInv, Placed, OfUpdates
  <2>4. \A k \in Row : lock'[k] = i => k = tx[i].at /\ bucket[k] = None
    BY <1>1, <2>1, <2>2
  <2>5. Placed(i)' /\ Holds(i)'
    BY <1>1, <2>1, <2>3, <2>4 DEF Placed, Holds, InFlight, AfterEnsure
  <2>. QED BY <2>3, <2>5 DEF ItemInv, Counting, Raising, Staged, Staging
<1>4. CASE i \in Update /\ InsertSession(i)
  <2>. DEFINE s == SessionOf[i]
  <2>1. tx[i].phase = "insert" /\ bucket' = bucket /\ session' = session
    BY <1>4 DEF InsertSession, InStatement, tables
  <2>2. \A k \in Row : lock[k] = i => k \in Bucket /\ k = tx[i].at /\ bucket[k] = None
    BY <1>1, <2>1 DEF ItemInv, Holds, Placed, WithSession, OfUpdates
  <2>3. tx[i].to = None /\ tx[i].known = None
    BY <2>1 DEF ItemInv, Placed, OfUpdates
  <2>4. CASE /\ session[s] = None /\ lock' = [lock EXCEPT ![s] = i] /\ Go(i, "count")
             /\ (bucket[tx[i].at] # None /\ lock[tx[i].at] # Cleaner) \/ lock[tx[i].at] = i
    <3>1. /\ tx'[i].phase = "count" /\ tx'[i].at = tx[i].at /\ tx'[i].to = None
          /\ tx'[i].known = None
      BY <1>1, <1>a, <2>3, <2>4, GoEffect
    <3>2. /\ lock'[s] = i /\ \A k \in Row : lock'[k] = i => k = s \/ lock[k] = i
          /\ lock'[tx[i].at] = lock[tx[i].at]
      BY <1>1, <1>c, <1>4, <2>4
    <3>3. Placed(i)' /\ Counting(i)'
      BY <1>1, <1>4, <2>1, <2>4, <3>1, <3>2 DEF Placed, Counting
    <3>4. Holds(i)'
      BY <1>1, <1>c, <1>4, <2>1, <2>2, <3>1, <3>2 DEF Holds, InFlight, AfterEnsure, WithSession
    <3>. QED BY <3>1, <3>3, <3>4 DEF ItemInv, Raising, Staged, Staging
  <2>5. CASE lock' = lock /\ Go(i, "relock")
    <3>1. /\ tx'[i].phase = "relock" /\ tx'[i].at = tx[i].at /\ tx'[i].to = None
          /\ tx'[i].known = None
      BY <1>1, <1>a, <2>3, <2>5, GoEffect
    <3>2. Placed(i)' /\ Holds(i)'
      BY <1>1, <1>4, <2>1, <2>2, <2>5, <3>1 DEF Placed, Holds, InFlight, AfterEnsure
    <3>. QED BY <3>1, <3>2 DEF ItemInv, Counting, Raising, Staged, Staging
  <2>. QED BY <1>4, <2>4, <2>5 DEF InsertSession, Take
<1>5. CASE CountFirst(i)
  <2>1. tx[i].phase = "count" /\ Stages(i, tx[i].at, FirstCounts(OutcomeOf[i])) /\ InStatement
    BY <1>5 DEF CountFirst
  <2>2. i \in Update /\ tx[i].known = None /\ session[SessionOf[i]] = None
    BY <2>1 DEF ItemInv, Placed, Counting, OfUpdates
  <2>3. FirstCounts(OutcomeOf[i]) \in [Outcome -> Int]
    BY <2>2, CountTypes, CountsAreInt
  <2>4. /\ Placed(i)' /\ Holds(i)' /\ tx'[i].phase \in Staging /\ lock'[tx[i].at] = i
        /\ tx'[i].to = tx[i].at /\ tx'[i].add = FirstCounts(OutcomeOf[i])
        /\ tx'[i].at = tx[i].at /\ tx'[i].known = None /\ session' = session
        /\ lock'[SessionOf[i]] = lock[SessionOf[i]]
    BY <1>1, <1>c, <2>1, <2>2, <2>3, StagesItem
  <2>5. i \notin Aggregate /\ lock'[SessionOf[i]] = i
    BY <2>1, <2>2, <2>4 DEF ItemInv, Counting
  <2>6. Staged(i)'
    BY <2>2, <2>4, <2>5 DEF Staged, StagedFirst
  <2>. QED BY <2>4, <2>6 DEF ItemInv, Counting, Raising, Staging
<1>6. CASE i \in Update /\ Raise(i)
  <2>. DEFINE s == SessionOf[i]
  <2>1. /\ tx[i].phase = "raise" /\ InStatement /\ session' = session /\ bucket' = bucket
        /\ lock[s] = i /\ tx[i].known = session[s] /\ tx[i].known # None /\ tx[i].to = None
        /\ tx[i].known \in SessionRow /\ tx[i].known.bucket \in Bucket
    BY <1>1, <1>6 DEF Raise, ItemInv, Raising, Placed, SessionRow, InStatement, tables, OfUpdates
  <2>2. MovedCounts(tx[i].known.outcome, OutcomeOf[i]) \in [Outcome -> Int]
    BY <1>6, <2>1, CountTypes DEF SessionRow
  <2>3. CASE Worse(i)
    <3>1. Stages(i, tx[i].known.bucket, MovedCounts(tx[i].known.outcome, OutcomeOf[i]))
      BY <1>6, <2>3 DEF Raise
    <3>2. /\ Placed(i)' /\ Holds(i)' /\ tx'[i].phase \in Staging /\ lock'[tx[i].known.bucket] = i
          /\ tx'[i].to = tx[i].known.bucket
          /\ tx'[i].add = MovedCounts(tx[i].known.outcome, OutcomeOf[i])
          /\ tx'[i].known = tx[i].known /\ lock'[s] = lock[s]
      BY <1>c, <1>6, <2>1, <2>2, <3>1, StagesItem
    <3>3. Worse(i)'
      BY <2>3, <3>2 DEF Worse
    <3>4. Staged(i)'
      BY <1>6, <2>1, <3>2, <3>3 DEF Staged, StagedWorse
    <3>. QED BY <3>2, <3>4 DEF ItemInv, Counting, Raising, Staging
  <2>4. CASE ~Worse(i)
    <3>1. Go(i, AfterCounts(i)) /\ lock' = lock
      BY <1>6, <2>4 DEF Raise
    <3>2. /\ tx'[i].phase = AfterCounts(i) /\ tx'[i].to = None /\ tx'[i].at = tx[i].at
          /\ tx'[i].known = tx[i].known
      BY <1>1, <1>b, <2>1, <3>1, GoEffect
    <3>3. ~Worse(i)'
      BY <2>4, <3>2 DEF Worse
    <3>4. Placed(i)'
      BY <1>b, <1>6, <3>2 DEF Placed, Staging, OfUpdates, Item
    <3>5. Holds(i)'
      BY <1>b, <2>1, <3>1, <3>2
         DEF ItemInv, Holds, InFlight, Staging, AfterEnsure, WithSession
    <3>6. Staged(i)'
      BY <1>6, <2>1, <3>1, <3>2, <3>3 DEF Staged
    <3>. QED BY <1>b, <3>2, <3>4, <3>5, <3>6 DEF ItemInv, Counting, Raising, Staging
  <2>. QED BY <2>3, <2>4
<1>7. CASE AddToBucket(i)
  <2>1. tx[i].phase = "add" /\ Stages(i, tx[i].at, CountsOf[i]) /\ InStatement
    BY <1>7 DEF AddToBucket
  <2>2. i \in Aggregate /\ i \notin Update /\ CountsOf[i] \in [Outcome -> Int]
    BY <2>1, CountsAreInt DEF ItemInv, Placed
  <2>3. /\ Placed(i)' /\ Holds(i)' /\ tx'[i].phase \in Staging /\ lock'[tx[i].at] = i
        /\ tx'[i].to = tx[i].at /\ tx'[i].add = CountsOf[i] /\ tx'[i].at = tx[i].at
    BY <1>1, <2>1, <2>2, StagesItem
  <2>4. Staged(i)'
    BY <2>2, <2>3 DEF Staged
  <2>. QED BY <2>3, <2>4 DEF ItemInv, Counting, Raising, Staging
<1>8. CASE RecordUser(i)
  <2>1. /\ tx[i].phase = "user" /\ Go(i, "commit") /\ session' = session /\ bucket' = bucket
        /\ lock' = [lock EXCEPT ![UserOf[i]] = i]
    BY <1>8 DEF RecordUser, Take, InStatement, tables
  <2>2. UserOf[i] \in User /\ UserOf[i] \in Row
    BY <1>1, <2>1 DEF ItemInv, Placed
  <2>3. /\ tx'[i].phase = "commit" /\ tx'[i].to = tx[i].to /\ tx'[i].at = tx[i].at
        /\ tx'[i].known = tx[i].known /\ tx'[i].add = tx[i].add
    BY <1>1, <1>a, <2>1, GoEffect
  <2>4. lock'[UserOf[i]] = i /\ \A k \in Row \ {UserOf[i]} : lock'[k] = lock[k]
    BY <1>1, <2>1, <2>2
  <2>5. \A k \in Bucket \union Session : k # UserOf[i] /\ lock'[k] = lock[k]
    BY <1>1, <2>2, <2>4
  <2>6. Placed(i)'
    BY <2>1, <2>3 DEF ItemInv, Placed, OfUpdates
  <2>7. Holds(i)'
    <3>. SUFFICES ASSUME NEW k \in Row, lock'[k] = i, k # UserOf[i]
                  PROVE  /\ k \in Bucket =>
                            \/ k = tx[i].to
                            \/ k = tx[i].at /\ bucket[k] = None
                         /\ k \in Session => i \in Update /\ k = SessionOf[i]
                         /\ k \notin User
      BY <2>1, <2>2, <2>3, <2>5 DEF Holds, InFlight, AfterEnsure, WithSession
    <3>. QED BY <2>1, <2>4 DEF ItemInv, Holds
  <2>8. tx'[i].to # None => lock'[tx'[i].to] = i
    <3>1. tx[i].to \in Bucket \union {None}
      BY <1>1 DEF Tx
    <3>. QED BY <2>1, <2>3, <2>5, <3>1 DEF ItemInv, Staged, Staging
  <2>9. i \in Update => lock'[SessionOf[i]] = lock[SessionOf[i]]
    BY <1>c, <2>5
  <2>10. Staged(i)'
    <3>1. Staged(i) /\ tx[i].phase \in Staging
      BY <2>1 DEF ItemInv, Staging
    <3>2. Worse(i)' <=> Worse(i)
      BY <2>3 DEF Worse
    <3>3. (StagedFirst(i)' <=> StagedFirst(i)) /\ (StagedWorse(i)' <=> StagedWorse(i))
      BY <2>3 DEF StagedFirst, StagedWorse
    <3>. QED BY <2>1, <2>3, <2>8, <2>9, <3>1, <3>2, <3>3 DEF Staged
  <2>. QED BY <2>3, <2>6, <2>7, <2>10 DEF ItemInv, Counting, Raising
<1>. QED BY <1>2, <1>3, <1>4, <1>5, <1>6, <1>7, <1>8 DEF Statement

-----------------------------------------------------------------------------
(* The items that do not move.                                             *)

\* No step of another changes what an item has locked or relies on.
Undisturbed(j) ==
  /\ tx'[j] = tx[j]
  /\ \A k \in Row : lock'[k] = j <=> lock[k] = j
  /\ \A s \in Session : lock[s] = j => session'[s] = session[s]
  /\ \A b \in Bucket : lock[b] = j /\ bucket[b] = None => bucket'[b] = None
  /\ tx[j].phase = "count" /\ bucket[tx[j].at] # None => bucket'[tx[j].at] # None
  /\ tx[j].phase = "count" /\ lock[tx[j].at] # Cleaner => lock'[tx[j].at] # Cleaner

LEMMA UndisturbedItem ==
  ASSUME TypeOK, NEW j \in Item, ItemInv(j), Undisturbed(j)
  PROVE  ItemInv(j)'
<1>. USE ReleaseHealthAssumption
<1>1. /\ j \in Update => SessionOf[j] \in Session /\ SessionOf[j] \in Row
      /\ tx[j].at \in Bucket /\ tx[j].at \in Row
      /\ tx[j].to # None => tx[j].to \in Row
      /\ \A k \in Bucket \union Session \union User : k \in Row
  BY DEF TypeOK, Tx, Row
<1>2. /\ InFlight(j)' <=> InFlight(j)
      /\ Worse(j)' <=> Worse(j)
      /\ StagedFirst(j)' <=> StagedFirst(j)
      /\ StagedWorse(j)' <=> StagedWorse(j)
  BY DEF Undisturbed, InFlight, Worse, StagedFirst, StagedWorse
<1>3. Placed(j)'
  BY DEF ItemInv, Undisturbed, Placed
<1>4. Holds(j)'
  <2>. SUFFICES ASSUME NEW k \in Row, lock[k] = j
                PROVE  /\ InFlight(j)
                       /\ k \in Bucket =>
                            \/ k = tx[j].to
                            \/ k = tx[j].at /\ bucket'[k] = None /\ tx[j].phase \in AfterEnsure
                       /\ k \in Session => /\ j \in Update /\ k = SessionOf[j]
                                           /\ tx[j].phase \in WithSession
                       /\ k \in User => k = UserOf[j] /\ tx[j].phase = "commit"
    BY <1>2 DEF Holds, Undisturbed
  <2>. QED BY DEF ItemInv, Holds, Undisturbed
<1>5. Counting(j)'
  <2>. SUFFICES ASSUME tx[j].phase = "count"
                PROVE  /\ lock'[SessionOf[j]] = j /\ session'[SessionOf[j]] = None
                       /\ bucket'[tx[j].at] # None \/ lock'[tx[j].at] = j
                       /\ lock'[tx[j].at] # Cleaner
    BY DEF Counting, Undisturbed
  <2>1. j \in Update
    BY DEF ItemInv, Placed, OfUpdates
  <2>. QED BY <1>1, <2>1 DEF ItemInv, Counting, Undisturbed
<1>6. Raising(j)'
  <2>. SUFFICES ASSUME tx[j].phase = "raise"
                PROVE  /\ lock'[SessionOf[j]] = j
                       /\ tx[j].known = session'[SessionOf[j]] /\ tx[j].known # None
    BY DEF Raising, Undisturbed
  <2>1. j \in Update
    BY DEF ItemInv, Placed, OfUpdates
  <2>. QED BY <1>1, <2>1 DEF ItemInv, Raising, Undisturbed
<1>7. Staged(j)'
  <2>. SUFFICES ASSUME tx[j].phase \in Staging
                PROVE  /\ tx[j].to # None => lock'[tx[j].to] = j
                       /\ j \in Aggregate => tx[j].to = tx[j].at /\ tx[j].add = CountsOf[j]
                       /\ j \in Update /\ lock'[SessionOf[j]] = j =>
                            /\ tx[j].known = session'[SessionOf[j]]
                            /\ tx[j].known = None => StagedFirst(j)
                            /\ tx[j].known # None /\ Worse(j) => StagedWorse(j)
                            /\ tx[j].known # None /\ ~Worse(j) => tx[j].to = None
                       /\ j \in Update /\ lock'[SessionOf[j]] # j => tx[j].to = None
    BY <1>2 DEF Staged, Undisturbed
  <2>1. Staged(j)
    BY DEF ItemInv
  <2>2. tx[j].to # None => lock'[tx[j].to] = j
    BY <1>1, <2>1 DEF Staged, Undisturbed
  <2>3. j \in Aggregate => tx[j].to = tx[j].at /\ tx[j].add = CountsOf[j]
    BY <2>1 DEF Staged
  <2>4. j \in Update => (lock'[SessionOf[j]] = j <=> lock[SessionOf[j]] = j)
    BY <1>1 DEF Undisturbed
  <2>5. j \in Update /\ lock[SessionOf[j]] = j => session'[SessionOf[j]] = session[SessionOf[j]]
    BY <1>1 DEF Undisturbed
  <2>. QED BY <2>1, <2>2, <2>3, <2>4, <2>5 DEF Staged
<1>. QED BY <1>3, <1>4, <1>5, <1>6, <1>7 DEF ItemInv

LEMMA StatementOthers ==
  ASSUME TypeOK, NEW i \in Item, Moves(i), NEW j \in Item \ {i}
  PROVE  Undisturbed(j)
<1>. USE ReleaseHealthAssumption
<1>1. tx[j].at \in Row
  BY DEF TypeOK, Tx, Row
<1>2. \A k \in Row : (lock'[k] = j <=> lock[k] = j) /\ (lock'[k] = Cleaner <=> lock[k] = Cleaner)
  BY DEF Moves
<1>. QED BY <1>1, <1>2 DEF Moves, Undisturbed, InStatement, tables

\* What a step may do to others when it changes no lock of theirs.
LEMMA CommitOthers ==
  ASSUME TypeOK, NEW i \in Item, ItemInv(i), Commit(i), NEW j \in Item \ {i}, ItemInv(j)
  PROVE  Undisturbed(j)
<1>. USE ReleaseHealthAssumption
<1>1. /\ tx'[j] = tx[j] /\ tx[j].at \in Bucket /\ tx[j].at \in Row
      /\ \A k \in Bucket \union Session : k \in Row
      /\ tx[i].to \in Bucket \union {None} /\ tx[i].add \in [Outcome -> Int]
      /\ \A b \in Bucket : bucket[b] \in Counts \union {None}
  BY DEF TypeOK, Tx, Row, Commit
<1>2. \A k \in Row : lock'[k] = IF lock[k] = i THEN None ELSE lock[k]
  BY DEF Commit, Released
<1>3. \A k \in Row : lock'[k] = j <=> lock[k] = j
  BY <1>2
<1>4. \A s \in Session : lock[s] = j => session'[s] = session[s]
  BY DEF Commit, Tells
<1>5. tx[i].to # None => lock[tx[i].to] = i
  BY DEF ItemInv, Staged, Staging, Commit
<1>6. \A b \in Bucket : lock[b] = j /\ bucket[b] = None => bucket'[b] = None
  BY <1>1, <1>5 DEF Commit
<1>7. \A b \in Bucket : bucket[b] # None => bucket'[b] # None
  <2>. TAKE b \in Bucket
  <2>. HAVE bucket[b] # None
  <2>1. Incremented(bucket[b], tx[i].add) \in Counts
    BY <1>1 DEF Incremented, Counts
  <2>. QED BY <2>1 DEF Commit
<1>8. lock[tx[j].at] # Cleaner => lock'[tx[j].at] # Cleaner
  BY <1>1, <1>2
<1>. QED BY <1>1, <1>3, <1>4, <1>6, <1>7, <1>8 DEF Undisturbed

LEMMA RollbackOthers ==
  ASSUME TypeOK, NEW i \in Item, Rollback(i), NEW j \in Item \ {i}
  PROVE  Undisturbed(j)
<1>. USE ReleaseHealthAssumption
<1>1. tx'[j] = tx[j] /\ tx[j].at \in Row
  BY DEF TypeOK, Tx, Row, Rollback
<1>2. \A k \in Row : lock'[k] = IF lock[k] = i THEN None ELSE lock[k]
  BY DEF Rollback, Released
<1>. QED BY <1>1, <1>2 DEF Rollback, Undisturbed, tables

LEMMA ReceiveOthers ==
  ASSUME TypeOK, NEW i \in Item, Receive(i), NEW j \in Item \ {i}
  PROVE  Undisturbed(j)
BY DEF TypeOK, Receive, Undisturbed, tables

LEMMA RetentionOthers ==
  ASSUME TypeOK, DropsHeld, NEW j \in Item, ItemInv(j),
         NextDay \/ Prune \/ DropLock \/ DropCommit \/ DropFails
  PROVE  Undisturbed(j)
<1>. USE ReleaseHealthAssumption
<1>1. /\ tx' = tx /\ tx[j].at \in Row /\ tx[j].at \in Bucket
      /\ \A k \in Bucket \union Session : k \in Row
  BY DEF TypeOK, Tx, Row, NextDay, Prune, DropLock, DropCommit, DropFails
<1>2. CASE NextDay
  BY <1>2 DEF NextDay, Undisturbed, tables
<1>3. CASE Prune
  <2>1. \A s \in Session : lock[s] = j => session'[s] = session[s]
    BY <1>3 DEF Prune
  <2>. QED BY <1>1, <1>3, <2>1 DEF Prune, Undisturbed
<1>4. CASE DropLock
  <2>. DEFINE old == {b \in Bucket : bucket[b] # None /\ b + Retention < day}
  <2>1. \A k \in Row : lock'[k] = IF k \in old THEN Cleaner ELSE lock[k]
    BY <1>4 DEF DropLock
  <2>2. \A b \in old : lock[b] = None
    BY <1>4 DEF DropLock
  <2>3. tx[j].phase = "count" => tx[j].at \notin old
    BY <1>4 DEF DropLock
  <2>. HIDE DEF old
  <2>4. \A k \in Row : lock'[k] = j <=> lock[k] = j
    BY <2>1, <2>2
  <2>5. tx[j].phase = "count" /\ lock[tx[j].at] # Cleaner => lock'[tx[j].at] # Cleaner
    BY <1>1, <2>1, <2>3
  <2>. QED BY <1>1, <1>4, <2>4, <2>5 DEF DropLock, Undisturbed, tables
<1>5. CASE DropCommit
  <2>1. \A k \in Row : lock'[k] = IF lock[k] = Cleaner THEN None ELSE lock[k]
    BY <1>5 DEF DropCommit, Released
  <2>2. \A s \in Session : lock[s] = j => session'[s] = session[s]
    BY <1>5 DEF DropCommit
  <2>3. \A b \in Bucket : bucket'[b] = IF b \in drop THEN None ELSE bucket[b]
    BY <1>5 DEF DropCommit
  <2>4. tx[j].phase = "count" => tx[j].at \notin drop
    BY <1>1 DEF DropsHeld, ItemInv, Counting
  <2>. QED BY <1>1, <2>1, <2>2, <2>3, <2>4 DEF Undisturbed
<1>6. CASE DropFails
  <2>1. \A k \in Row : lock'[k] = IF lock[k] = Cleaner THEN None ELSE lock[k]
    BY <1>6 DEF DropFails, Released
  <2>. QED BY <1>1, <1>6, <2>1 DEF DropFails, Undisturbed, tables
<1>. QED BY <1>2, <1>3, <1>4, <1>5, <1>6

\* Every step of the system keeps every item where it is, or moves one.
LEMMA ItemStep ==
  ASSUME IInv, [Next]_vars
  PROVE  \A j \in Item : ItemInv(j)'
<1>. TAKE j \in Item
<1>1. TypeOK /\ DropsHeld /\ \A i \in Item : ItemInv(i)
  BY DEF IInv
<1>2. ASSUME NEW i \in Item, Statement(i)
      PROVE  ItemInv(j)'
  BY <1>1, <1>2, StatementItem, StatementMoves, StatementOthers, UndisturbedItem
<1>3. ASSUME NEW i \in Item, Receive(i)
      PROVE  ItemInv(j)'
  <2>1. CASE i = j
    <3>. USE ReleaseHealthAssumption
    <3>1. /\ tx'[i].phase = IF i \in Update THEN "lock" ELSE "add"
          /\ tx[i].phase = "new" /\ tx'[i].to = tx[i].to /\ tx'[i].known = tx[i].known
          /\ lock' = lock
      BY <1>1, <1>3 DEF TypeOK, Tx, Receive
    <3>2. Placed(i)'
      BY <1>1, <3>1 DEF ItemInv, Placed, OfUpdates, Item
    <3>3. \A k \in Row : lock'[k] # i
      BY <1>1, <3>1 DEF ItemInv, Holds, InFlight
    <3>. QED BY <2>1, <3>1, <3>2, <3>3 DEF ItemInv, Holds, Counting, Raising, Staged, Staging
  <2>. QED BY <1>1, <1>3, <2>1, ReceiveOthers, UndisturbedItem
<1>4. ASSUME NEW i \in Item, Commit(i) \/ Rollback(i)
      PROVE  ItemInv(j)'
  <2>1. CASE i = j
    <3>. USE ReleaseHealthAssumption
    <3>1. tx'[i].phase \in {"done", "lost"} /\ tx'[i].known = tx[i].known
      BY <1>1, <1>4 DEF TypeOK, Tx, Commit, Rollback
    <3>2. \A k \in Row : lock'[k] # i
      BY <1>4 DEF Commit, Rollback, Released
    <3>3. Placed(i)'
      BY <1>1, <3>1 DEF ItemInv, Placed, OfUpdates
    <3>. QED BY <2>1, <3>1, <3>2, <3>3 DEF ItemInv, Holds, Counting, Raising, Staged, Staging
  <2>2. CASE i # j
    BY <1>1, <1>4, <2>2, CommitOthers, RollbackOthers, UndisturbedItem
  <2>. QED BY <2>1, <2>2
<1>5. CASE NextDay \/ Prune \/ DropLock \/ DropCommit \/ DropFails
  BY <1>1, <1>5, RetentionOthers, UndisturbedItem
<1>6. CASE UNCHANGED vars
  <2>1. Undisturbed(j)
    BY <1>6 DEF vars, tables, Undisturbed
  <2>. QED BY <1>1, <2>1, UndisturbedItem
<1>. QED BY <1>2, <1>3, <1>4, <1>5, <1>6 DEF Next, Statement, Item

-----------------------------------------------------------------------------
(* Types.                                                                  *)

LEMMA SomeSessions ==
  ASSUME NEW S \in SUBSET Session
  PROVE  IsFiniteSet(S) /\ Cardinality(S) \in Nat
BY ReleaseHealthAssumption, FS_Subset, FS_CardinalityType

\* What a commit makes of the buckets and of the session it tells.
LEMMA CommitBuckets ==
  ASSUME TypeOK, NEW i \in Item, Commit(i), NEW b \in Bucket
  PROVE  /\ bucket'[b] \in Counts \union {None}
         /\ b = tx[i].to =>
              bucket'[b] = Incremented(IF bucket[b] = None THEN Zero ELSE bucket[b], tx[i].add)
         /\ b # tx[i].to /\ bucket[b] # None => bucket'[b] = bucket[b]
         /\ b # tx[i].to /\ bucket[b] = None => bucket'[b] \in {None, Zero}
         /\ bucket[b] # None \/ b = tx[i].to => bucket'[b] # None
<1>. USE ReleaseHealthAssumption
<1>1. bucket[b] \in Counts \union {None} /\ tx[i].add \in [Outcome -> Int]
  BY DEF TypeOK, Tx
<1>2. Zero \in Counts
  BY DEF Zero, Counts
<1>3. \A f \in Counts : Incremented(f, tx[i].add) \in Counts
  BY <1>1 DEF Incremented, Counts
<1>4. bucket'[b] = IF b = tx[i].to
                   THEN Incremented(IF bucket[b] = None THEN Zero ELSE bucket[b], tx[i].add)
                   ELSE IF bucket[b] = None /\ lock[b] = i THEN Zero ELSE bucket[b]
  BY DEF Commit
<1>. QED BY <1>1, <1>2, <1>3, <1>4

LEMMA CommitSessions ==
  ASSUME TypeOK, NEW i \in Item, ItemInv(i), Commit(i), NEW s \in Session
  PROVE  /\ ~Tells(i, s) => session'[s] = session[s] /\ heard'[s] = heard[s]
         /\ Tells(i, s) =>
              /\ i \in Update /\ s = SessionOf[i] /\ OutcomeOf[i] \in Outcome
              /\ tx[i].known = session[s]
              /\ session'[s] \in SessionRow /\ session'[s] # None
              /\ session'[s].updated = tx[i].on
              /\ session[s] = None =>
                   session'[s].bucket = tx[i].at /\ session'[s].outcome = OutcomeOf[i]
              /\ session[s] # None =>
                   /\ session'[s].bucket = session[s].bucket
                   /\ session'[s].outcome = Worst(i)
              /\ heard'[s] = heard[s] \union {OutcomeOf[i]}
<1>. USE ReleaseHealthAssumption
<1>1. CASE ~Tells(i, s)
  BY <1>1 DEF Commit
<1>2. CASE Tells(i, s)
  <2>1. /\ i \in Update /\ s = SessionOf[i] /\ tx[i].known = session[s] /\ OutcomeOf[i] \in Outcome
        /\ tx[i].on \in 0..MaxDay /\ tx[i].at \in Bucket
        /\ session[s] \in SessionRow \union {None}
    BY <1>2 DEF Tells, ItemInv, Staged, Staging, Commit, TypeOK, Tx
  <2>2. CASE session[s] = None
    <3>1. session'[s] = [bucket |-> tx[i].at, outcome |-> OutcomeOf[i], updated |-> tx[i].on]
      BY <1>2, <2>1, <2>2 DEF Commit
    <3>2. session'[s] \in SessionRow
      BY <2>1, <3>1 DEF SessionRow
    <3>. QED BY <1>2, <2>1, <2>2, <3>1, <3>2 DEF Commit
  <2>3. CASE session[s] # None
    <3>1. session'[s] = [session[s] EXCEPT !.outcome = Worst(i), !.updated = tx[i].on]
      BY <1>2, <2>1, <2>3 DEF Commit
    <3>2. Worst(i) \in Outcome
      BY <2>1, <2>3 DEF Worst, SessionRow
    <3>3. session'[s] \in SessionRow
      BY <2>1, <2>3, <3>1, <3>2 DEF SessionRow
    <3>4. /\ session'[s].bucket = session[s].bucket /\ session'[s].outcome = Worst(i)
          /\ session'[s].updated = tx[i].on
      BY <2>1, <2>3, <3>1 DEF SessionRow
    <3>. QED BY <1>2, <2>1, <2>3, <3>3, <3>4 DEF Commit
  <2>. QED BY <2>2, <2>3
<1>. QED BY <1>1, <1>2

LEMMA TypeStep ==
  ASSUME IInv, [Next]_vars
  PROVE  TypeOK'
<1>. USE ReleaseHealthAssumption
<1>1. TypeOK /\ \A i \in Item : ItemInv(i)
  BY DEF IInv
<1>2. ASSUME NEW i \in Item, Statement(i)
      PROVE  TypeOK'
  <2>1. Moves(i)
    BY <1>1, <1>2, StatementMoves
  <2>. QED BY <1>1, <2>1 DEF TypeOK, Moves, InStatement, tables, history
<1>3. ASSUME NEW i \in Item, Receive(i)
      PROVE  TypeOK'
  <2>1. tx' \in [Item -> Tx]
    <3>1. /\ tx[i] \in Tx /\ tx \in [Item -> Tx] /\ day \in Bucket /\ day \in 0..MaxDay
          /\ (IF i \in Update THEN "lock" ELSE "add") \in Phase
      BY <1>1 DEF TypeOK, Bucket, Phase
    <3>2. (IF StartOf(i) < day THEN StartOf(i) ELSE day) \in Bucket
      <4>1. StartOf(i) \in Nat
        BY DEF StartOf, Item
      <4>. QED BY <3>1, <4>1 DEF Bucket
    <3>. QED BY <1>3, <3>1, <3>2 DEF Receive, Tx
  <2>2. ahead' \subseteq Session
    BY <1>1, <1>3 DEF TypeOK, Receive
  <2>. QED BY <1>1, <1>3, <2>1, <2>2 DEF TypeOK, Receive, tables
<1>4. ASSUME NEW i \in Item, Commit(i)
      PROVE  TypeOK'
  <2>1. bucket' \in [Bucket -> {None} \union Counts]
    <3>1. \A b \in Bucket : bucket'[b] \in {None} \union Counts
      BY <1>1, <1>4, CommitBuckets
    <3>2. bucket' = [b \in Bucket |-> bucket'[b]]
      BY <1>4 DEF Commit
    <3>. QED BY <3>1, <3>2
  <2>2. session' \in [Session -> SessionRow \union {None}]
    <3>1. \A s \in Session : session'[s] \in SessionRow \union {None}
      BY <1>1, <1>4, CommitSessions DEF TypeOK
    <3>2. session' = [s \in Session |-> session'[s]]
      BY <1>4 DEF Commit
    <3>. QED BY <3>1, <3>2
  <2>3. user' \in [User -> {"none", "well", "crashed"}]
    BY <1>1, <1>4 DEF TypeOK, Commit
  <2>4. lock' \in [Row -> Item \union {Cleaner, None}]
    BY <1>1, <1>4 DEF TypeOK, Commit, Released
  <2>5. tx' \in [Item -> Tx]
    <3>1. Go(i, "done") /\ "done" \in Phase /\ tx \in [Item -> Tx]
      BY <1>1, <1>4 DEF TypeOK, Commit, Go, Phase
    <3>. QED BY <3>1, GoEffect
  <2>6. past' \in [Bucket -> Counts]
    <3>1. CASE i \in Aggregate
      <4>1. [c \in Outcome |-> past[tx[i].at][c] + CountsOf[i][c]] \in Counts
        <5>1. past[tx[i].at] \in Counts /\ CountsOf[i] \in Counts
          BY <1>1, <3>1 DEF TypeOK, Tx
        <5>. QED BY <5>1 DEF Counts
      <4>2. past' = [past EXCEPT ![tx[i].at] = [c \in Outcome |-> past[tx[i].at][c] + CountsOf[i][c]]]
        BY <1>4, <3>1 DEF Commit
      <4>. QED BY <1>1, <4>1, <4>2 DEF TypeOK
    <3>2. CASE i \notin Aggregate
      BY <1>1, <1>4, <3>2 DEF TypeOK, Commit
    <3>. QED BY <3>1, <3>2
  <2>7. heard' \in [Session -> SUBSET Outcome]
    <3>1. \A s \in Session : Tells(i, s) => OutcomeOf[i] \in Outcome
      BY DEF Tells
    <3>. QED BY <1>1, <1>4, <3>1 DEF TypeOK, Commit
  <2>8. tally' \in [Bucket -> [Session -> Nat]]
    BY <1>1, <1>4 DEF TypeOK, Commit
  <2>. QED BY <1>1, <1>4, <2>1, <2>2, <2>3, <2>4, <2>5, <2>6, <2>7, <2>8 DEF TypeOK, Commit
<1>5. ASSUME NEW i \in Item, Rollback(i)
      PROVE  TypeOK'
  <2>1. Go(i, "lost") /\ "lost" \in Phase /\ tx \in [Item -> Tx]
    BY <1>1, <1>5 DEF TypeOK, Rollback, Go, Phase
  <2>2. tx' \in [Item -> Tx]
    BY <2>1, GoEffect
  <2>3. lock' \in [Row -> Item \union {Cleaner, None}]
    BY <1>1, <1>5 DEF TypeOK, Rollback, Released
  <2>. QED BY <1>1, <1>5, <2>2, <2>3 DEF TypeOK, Rollback, tables, history
<1>6. CASE NextDay
  BY <1>1, <1>6 DEF TypeOK, NextDay, tables, history
<1>7. CASE Prune
  <2>. DEFINE gone == {s \in Session : Stale(s)}
  <2>1. past' \in [Bucket -> Counts]
    <3>1. ASSUME NEW b \in Bucket
          PROVE  Left(b, gone) \in Counts
      <4>1. past[b] \in Counts
        BY <1>1 DEF TypeOK
      <4>2. \A c \in Outcome :
              Cardinality({s \in gone : session[s].bucket = b /\ (c = 0 \/ session[s].outcome = c)})
                \in Nat
        BY SomeSessions
      <4>. QED BY <4>1, <4>2 DEF Left, Counts
    <3>2. past' = [b \in Bucket |-> Left(b, gone)]
      BY <1>7 DEF Prune
    <3>. QED BY <3>1, <3>2
  <2>2. heard' \in [Session -> SUBSET Outcome]
    BY <1>1, <1>7 DEF TypeOK, Prune
  <2>. QED BY <1>1, <1>7, <2>1, <2>2 DEF TypeOK, Prune
<1>8. CASE DropLock
  BY <1>1, <1>8 DEF TypeOK, DropLock, tables, history
<1>9. CASE DropCommit
  <2>1. Zero \in Counts
    BY DEF Zero, Counts
  <2>. QED BY <1>1, <1>9, <2>1 DEF TypeOK, DropCommit, Released
<1>10. CASE DropFails
  BY <1>1, <1>10 DEF TypeOK, DropFails, Released, tables, history
<1>11. CASE UNCHANGED vars
  BY <1>1, <1>11 DEF TypeOK, vars, tables, history
<1>. QED BY <1>2, <1>3, <1>4, <1>5, <1>6, <1>7, <1>8, <1>9, <1>10, <1>11 DEF Next, Statement, Item

-----------------------------------------------------------------------------
(* What the tables and the histories say of each other.                    *)

LEMMA DropsStep ==
  ASSUME IInv, [Next]_vars
  PROVE  DropsHeld'
<1>. USE ReleaseHealthAssumption
<1>1. TypeOK /\ DropsHeld /\ \A i \in Item : ItemInv(i)
  BY DEF IInv
<1>2. ASSUME NEW i \in Item, Statement(i)
      PROVE  DropsHeld'
  <2>1. Moves(i)
    BY <1>1, <1>2, StatementMoves
  <2>2. \A k \in Row : lock'[k] = Cleaner <=> lock[k] = Cleaner
    BY <2>1 DEF Moves
  <2>. QED BY <1>1, <2>1, <2>2 DEF DropsHeld, Moves, InStatement, tables
<1>3. ASSUME NEW i \in Item, Receive(i)
      PROVE  DropsHeld'
  BY <1>1, <1>3 DEF DropsHeld, Receive, tables
<1>4. ASSUME NEW i \in Item, Commit(i)
      PROVE  DropsHeld'
  <2>1. \A b \in drop : b \in Bucket
    BY <1>1 DEF TypeOK
  <2>2. \A k \in Row : lock'[k] = Cleaner <=> lock[k] = Cleaner
    BY <1>4 DEF Commit, Released
  <2>3. \A b \in drop : bucket'[b] # None
    BY <1>1, <1>4, <2>1, CommitBuckets DEF DropsHeld
  <2>. QED BY <1>1, <1>4, <2>2, <2>3 DEF DropsHeld, Commit
<1>5. ASSUME NEW i \in Item, Rollback(i)
      PROVE  DropsHeld'
  <2>1. \A k \in Row : lock'[k] = Cleaner <=> lock[k] = Cleaner
    BY <1>5 DEF Rollback, Released
  <2>. QED BY <1>1, <1>5, <2>1 DEF DropsHeld, Rollback, tables
<1>6. CASE NextDay \/ Prune \/ UNCHANGED vars
  BY <1>1, <1>6 DEF DropsHeld, NextDay, Prune, vars, tables
<1>7. CASE DropLock
  <2>. DEFINE old == {b \in Bucket : bucket[b] # None /\ b + Retention < day}
  <2>1. /\ drop = {} /\ drop' = old /\ bucket' = bucket
        /\ \A k \in Row : lock'[k] = IF k \in old THEN Cleaner ELSE lock[k]
    BY <1>7 DEF DropLock, tables
  <2>2. \A k \in Row : lock'[k] = Cleaner <=> k \in drop'
    BY <1>1, <2>1 DEF DropsHeld
  <2>. QED BY <2>1, <2>2 DEF DropsHeld
<1>8. CASE DropCommit \/ DropFails
  <2>1. drop' = {} /\ \A k \in Row : lock'[k] # Cleaner
    BY <1>8 DEF DropCommit, DropFails, Released
  <2>. QED BY <2>1 DEF DropsHeld
<1>. QED BY <1>2, <1>3, <1>4, <1>5, <1>6, <1>7, <1>8 DEF Next, Statement, Item

LEMMA ReferencedStep ==
  ASSUME IInv, [Next]_vars
  PROVE  Referenced'
<1>. USE ReleaseHealthAssumption
<1>1. TypeOK /\ Referenced /\ \A i \in Item : ItemInv(i)
  BY DEF IInv
<1>2. \A s \in Session : session[s] # None => session[s].bucket \in Bucket
  BY <1>1 DEF TypeOK, SessionRow
<1>3. CASE UNCHANGED <<tables, history>>
  BY <1>1, <1>3 DEF Referenced, tables, history
<1>4. ASSUME NEW i \in Item, Statement(i)
      PROVE  Referenced'
  BY <1>1, <1>3, <1>4, StatementMoves DEF Moves, InStatement
<1>5. ASSUME NEW i \in Item, Receive(i)
      PROVE  Referenced'
  BY <1>1, <1>5 DEF Referenced, Receive, tables
<1>6. ASSUME NEW i \in Item, Commit(i)
      PROVE  Referenced'
  <2>1. \A b \in Bucket : bucket[b] # None \/ b = tx[i].to => bucket'[b] # None
    BY <1>1, <1>6, CommitBuckets
  <2>2. ASSUME NEW s \in Session, Tells(i, s), session[s] = None
        PROVE  tx[i].to = tx[i].at
    BY <1>1, <1>6, <2>2, CommitSessions DEF Tells, ItemInv, Staged, StagedFirst, Staging, Commit
  <2>3. ASSUME NEW s \in Session, session'[s] # None
        PROVE  bucket'[session'[s].bucket] # None
    <3>1. CASE session[s] = None
      <4>1. Tells(i, s) /\ session'[s].bucket = tx[i].at
        BY <1>1, <1>6, <2>3, <3>1, CommitSessions
      <4>2. tx[i].at \in Bucket /\ tx[i].to = tx[i].at
        BY <1>1, <2>2, <3>1, <4>1 DEF TypeOK, Tx
      <4>. QED BY <2>1, <4>1, <4>2
    <3>2. CASE session[s] # None
      <4>1. session'[s].bucket = session[s].bucket
        BY <1>1, <1>6, <3>2, CommitSessions
      <4>. QED BY <1>1, <1>2, <2>1, <3>2, <4>1 DEF Referenced
    <3>. QED BY <3>1, <3>2
  <2>4. ASSUME NEW s \in Session, session'[s] = None
        PROVE  heard'[s] = {}
    BY <1>1, <1>6, <2>4, CommitSessions DEF Referenced
  <2>5. ASSUME NEW b \in Bucket, bucket'[b] = None
        PROVE  past'[b] = Zero /\ \A s \in Session : tally'[b][s] = 0
    <3>1. bucket[b] = None /\ b # tx[i].to
      BY <2>1, <2>5
    <3>2. past'[b] = past[b]
      BY <1>1, <1>6, <3>1 DEF ItemInv, Staged, Staging, Commit, TypeOK
    <3>3. ASSUME NEW s \in Session
          PROVE  tally'[b][s] = tally[b][s]
      <4>1. (b = tx[i].at /\ tx[i].known = None /\ Tells(i, s)) => FALSE
        BY <1>1, <1>6, <2>2, <3>1, CommitSessions
      <4>. QED BY <1>1, <1>6, <4>1 DEF Commit, TypeOK
    <3>. QED BY <1>1, <3>1, <3>2, <3>3 DEF Referenced
  <2>. QED BY <2>3, <2>4, <2>5 DEF Referenced
<1>7. ASSUME NEW i \in Item, Rollback(i)
      PROVE  Referenced'
  BY <1>3, <1>7 DEF Rollback
<1>8. CASE Prune
  <2>. DEFINE gone == {s \in Session : Stale(s)}
  <2>1. /\ bucket' = bucket /\ tally' = tally
        /\ \A s \in Session : session'[s] = IF s \in gone THEN None ELSE session[s]
        /\ \A s \in Session : heard'[s] = IF s \in gone THEN {} ELSE heard[s]
    BY <1>8 DEF Prune
  <2>2. \A b \in Bucket : past'[b] = Left(b, gone)
    BY <1>8 DEF Prune
  <2>3. ASSUME NEW b \in Bucket, bucket[b] = None
        PROVE  Left(b, gone) = Zero
    <3>1. ASSUME NEW c \in Outcome
          PROVE  {s \in gone : session[s].bucket = b /\ (c = 0 \/ session[s].outcome = c)} = {}
      BY <1>1, <2>3 DEF Referenced, Stale
    <3>2. past[b] = Zero
      BY <1>1, <2>3 DEF Referenced
    <3>3. \A c \in Outcome : Zero[c] + 0 = Zero[c]
      BY DEF Zero
    <3>4. Left(b, gone) = [c \in Outcome |-> Zero[c]]
      BY <3>1, <3>2, <3>3, FS_EmptySet DEF Left
    <3>. QED BY <3>4 DEF Zero
  <2>4. \A b \in Bucket : bucket[b] = None => past'[b] = Zero
    BY <2>2, <2>3
  <2>. HIDE DEF gone
  <2>. QED BY <1>1, <2>1, <2>4 DEF Referenced
<1>9. CASE DropCommit
  BY <1>1, <1>2, <1>9 DEF Referenced, TypeOK, DropCommit, Dropped
<1>10. CASE NextDay \/ DropLock \/ DropFails \/ UNCHANGED vars
  BY <1>3, <1>10 DEF NextDay, DropLock, DropFails, vars
<1>. QED BY <1>4, <1>5, <1>6, <1>7, <1>8, <1>9, <1>10 DEF Next, Statement, Item

LEMMA WorstStep ==
  ASSUME IInv, [Next]_vars
  PROVE  WorstWins'
<1>. USE ReleaseHealthAssumption
<1>1. TypeOK /\ Referenced /\ WorstWins /\ \A i \in Item : ItemInv(i)
  BY DEF IInv
<1>. DEFINE CrashedBy(x, i) == tx[i].phase = "done" /\ UserOf[i] = x /\ Crashed(i)
<1>2. ASSUME NEW j \in Item, \A i \in Item \ {j} : tx'[i] = tx[i], user' = user,
             tx[j].phase # "done", tx'[j].phase # "done",
             session' = session, heard' = heard
      PROVE  WorstWins'
  <2>1. \A x \in User, i \in Item : CrashedBy(x, i)' <=> CrashedBy(x, i)
    BY <1>2 DEF Crashed
  <2>. QED BY <1>1, <1>2, <2>1 DEF WorstWins, Crashed
<1>3. ASSUME NEW i \in Item, Statement(i)
      PROVE  WorstWins'
  <2>1. Moves(i)
    BY <1>1, <1>3, StatementMoves
  <2>. QED BY <1>2, <2>1 DEF Moves, InStatement, InFlight, tables, history
<1>4. ASSUME NEW i \in Item, Receive(i)
      PROVE  WorstWins'
  <2>1. tx[i].phase # "done" /\ tx'[i].phase # "done" /\ \A j \in Item \ {i} : tx'[j] = tx[j]
    BY <1>1, <1>4 DEF Receive, TypeOK, Tx
  <2>. QED BY <1>2, <1>4, <2>1 DEF Receive, tables
<1>5. ASSUME NEW i \in Item, Commit(i)
      PROVE  WorstWins'
  <2>1. ASSUME NEW s \in Session, session'[s] # None
        PROVE  /\ session'[s].outcome \in heard'[s]
               /\ \A o \in heard'[s] : o <= session'[s].outcome
    <3>1. heard[s] \subseteq Outcome
      BY <1>1 DEF TypeOK
    <3>2. CASE ~Tells(i, s)
      BY <1>1, <1>5, <2>1, <3>2, CommitSessions DEF WorstWins
    <3>3. CASE Tells(i, s) /\ session[s] = None
      BY <1>1, <1>5, <3>3, CommitSessions DEF Referenced, Outcome
    <3>4. CASE Tells(i, s) /\ session[s] # None
      <4>1. /\ session'[s].outcome = Worst(i) /\ heard'[s] = heard[s] \union {OutcomeOf[i]}
            /\ tx[i].known = session[s] /\ OutcomeOf[i] \in Outcome
        BY <1>1, <1>5, <3>4, CommitSessions
      <4>2. /\ session[s].outcome \in heard[s] /\ \A o \in heard[s] : o <= session[s].outcome
        BY <1>1, <3>4 DEF WorstWins
      <4>. QED BY <3>1, <4>1, <4>2 DEF Worst, Worse, Outcome
    <3>. QED BY <3>2, <3>3, <3>4
  <2>2. /\ tx[i].phase = "commit" /\ tx'[i].phase = "done"
        /\ \A j \in Item \ {i} : tx'[j] = tx[j]
    BY <1>1, <1>5 DEF TypeOK, Tx, Commit
  <2>3. ASSUME NEW x \in User
        PROVE  user'[x] = "crashed" <=> \E j \in Item : CrashedBy(x, j)'
    <3>1. user[x] = "crashed" <=> \E j \in Item : CrashedBy(x, j)
      BY <1>1 DEF WorstWins
    <3>2. (\E j \in Item : CrashedBy(x, j)') <=>
             (\E j \in Item : CrashedBy(x, j)) \/ (UserOf[i] = x /\ Crashed(i))
      BY <2>2 DEF Crashed
    <3>3. user'[x] = "crashed" <=> user[x] = "crashed" \/ (UserOf[i] = x /\ Crashed(i))
      BY <1>1, <1>5 DEF Commit, TypeOK
    <3>. QED BY <3>1, <3>2, <3>3
  <2>. QED BY <2>1, <2>3 DEF WorstWins, Crashed
<1>6. ASSUME NEW i \in Item, Rollback(i)
      PROVE  WorstWins'
  <2>1. tx[i].phase # "done" /\ tx'[i].phase # "done" /\ \A j \in Item \ {i} : tx'[j] = tx[j]
    BY <1>1, <1>6 DEF Rollback, TypeOK, Tx, InFlight
  <2>. QED BY <1>2, <1>6, <2>1 DEF Rollback, tables, history
<1>7. CASE Prune \/ DropCommit
  <2>1. /\ tx' = tx /\ user' = user
        /\ \A s \in Session :
             session'[s] # None => session'[s] = session[s] /\ heard'[s] = heard[s]
    BY <1>7 DEF Prune, DropCommit
  <2>. QED BY <1>1, <2>1 DEF WorstWins, Crashed
<1>8. CASE NextDay \/ DropLock \/ DropFails \/ UNCHANGED vars
  BY <1>1, <1>8 DEF WorstWins, Crashed, NextDay, DropLock, DropFails, vars, tables, history
<1>. QED BY <1>3, <1>4, <1>5, <1>6, <1>7, <1>8 DEF Next, Statement, Item

LEMMA OnTimeStep ==
  ASSUME IInv, [Next]_vars
  PROVE  \A s \in Session \ ahead' : OnTime(s)'
<1>. USE ReleaseHealthAssumption
<1>1. /\ TypeOK /\ \A i \in Item : ItemInv(i)
      /\ Referenced /\ \A s \in Session \ ahead : OnTime(s)
  BY DEF IInv
<1>. SUFFICES ASSUME NEW s \in Session \ ahead' PROVE OnTime(s)'
  OBVIOUS
<1>2. s \in Session \ ahead /\ OnTime(s)
  <2>1. ahead \subseteq ahead'
    BY DEF Next, vars, history, InStatement, LockKnown, EnsureBucket, InsertSession, CountFirst,
           Raise, AddToBucket, RecordUser, Receive, Commit, Rollback, NextDay, Prune, DropLock,
           DropCommit, DropFails
  <2>. QED BY <1>1, <2>1
<1>3. /\ Started[s] \in Nat /\ MaxAge \in Nat /\ day \in Int
      /\ \A i \in Item : tx[i].on \in Int /\ tx[i].at \in Bucket
      /\ \A b \in Bucket : tally[b][s] \in Nat
      /\ session[s] # None => session[s].updated \in Int
  BY <1>1 DEF TypeOK, Tx, SessionRow
<1>. DEFINE InTime(i) == /\ tx[i].at = Started[s] /\ Started[s] <= tx[i].on
                         /\ tx[i].on <= Started[s] + MaxAge /\ day <= tx[i].on + 1
<1>4. ASSUME NEW j \in Item, \A i \in Item \ {j} : tx'[i] = tx[i],
             InFlight(j)' => InFlight(j) /\ tx'[j].on = tx[j].on /\ tx'[j].at = tx[j].at,
             day' = day
      PROVE  \A i \in Update : SessionOf[i] = s /\ InFlight(i)' => InTime(i)'
  <2>1. \A i \in Item : InFlight(i)' =>
          InFlight(i) /\ tx'[i].on = tx[i].on /\ tx'[i].at = tx[i].at
    BY <1>4 DEF InFlight
  <2>. QED BY <1>2, <1>4, <2>1 DEF OnTime, Item
<1>5. ASSUME NEW i \in Item, Statement(i)
      PROVE  OnTime(s)'
  <2>1. Moves(i)
    BY <1>1, <1>5, StatementMoves
  <2>2. \A u \in Update : SessionOf[u] = s /\ InFlight(u)' => InTime(u)'
    BY <1>4, <2>1 DEF Moves, InStatement
  <2>. QED BY <1>2, <2>1, <2>2 DEF OnTime, Moves, InStatement, tables, history
<1>6. ASSUME NEW i \in Item, Receive(i)
      PROVE  OnTime(s)'
  <2>1. /\ \A j \in Item \ {i} : tx'[j] = tx[j]
        /\ tx'[i].on = day /\ tx'[i].at = IF StartOf(i) < day THEN StartOf(i) ELSE day
    BY <1>1, <1>6 DEF TypeOK, Tx, Receive
  <2>2. i \in Update /\ SessionOf[i] = s => InTime(i)'
    <3>. SUFFICES ASSUME i \in Update, SessionOf[i] = s PROVE InTime(i)'
      OBVIOUS
    <3>1. StartOf(i) = Started[s] /\ ~(StartOf(i) > day) /\ ~TooOld(i) /\ day' = day
      BY <1>6 DEF StartOf, Receive
    <3>. QED BY <1>3, <2>1, <3>1 DEF TooOld
  <2>3. ASSUME NEW u \in Update, SessionOf[u] = s, InFlight(u)'
        PROVE  InTime(u)'
    <3>1. CASE u = i
      BY <2>2, <2>3, <3>1
    <3>2. CASE u # i
      <4>1. tx'[u] = tx[u] /\ day' = day /\ InFlight(u)
        BY <1>6, <2>1, <2>3, <3>2 DEF Item, InFlight, Receive
      <4>. QED BY <1>2, <2>3, <4>1 DEF OnTime
    <3>. QED BY <3>1, <3>2
  <2>. QED BY <1>2, <1>6, <2>3 DEF OnTime, Receive, tables
<1>7. ASSUME NEW i \in Item, Commit(i)
      PROVE  OnTime(s)'
  <2>1. \A j \in Item \ {i} : tx'[j] = tx[j]
    BY <1>7 DEF Commit
  <2>2. ~InFlight(i)' /\ InFlight(i) /\ day' = day
    BY <1>1, <1>7 DEF Commit, TypeOK, Tx, InFlight
  <2>3. \A u \in Update : SessionOf[u] = s /\ InFlight(u)' => InTime(u)'
    BY <1>4, <2>1, <2>2
  <2>4. CASE ~Tells(i, s)
    <3>1. session'[s] = session[s]
      BY <1>1, <1>7, <2>4, CommitSessions
    <3>2. \A b \in Bucket : tally'[b][s] = tally[b][s] + 0
      BY <1>1, <1>7, <2>4 DEF Commit
    <3>3. \A b \in Bucket : tally'[b][s] = tally[b][s]
      BY <1>3, <3>2
    <3>. QED BY <1>2, <2>2, <2>3, <3>1, <3>3 DEF OnTime
  <2>5. CASE Tells(i, s)
    <3>1. i \in Update /\ SessionOf[i] = s /\ InTime(i)
      BY <1>2, <2>2, <2>5 DEF Tells, OnTime
    <3>2. /\ session'[s] # None /\ session'[s].updated = tx[i].on
          /\ session[s] = None => session'[s].bucket = tx[i].at
          /\ session[s] # None => session'[s].bucket = session[s].bucket
          /\ tx[i].known = session[s]
      BY <1>1, <1>7, <2>5, CommitSessions
    <3>3. session'[s].bucket = Started[s] /\ Started[s] <= session'[s].updated
      BY <1>2, <3>1, <3>2 DEF OnTime
    <3>4. ASSUME NEW b \in Bucket
          PROVE  /\ tally'[b][s] <= 1
                 /\ tally'[b][s] # 0 => b = Started[s]
      <4>1. tally'[b][s] = tally[b][s] +
                             (IF b = tx[i].at /\ session[s] = None THEN 1 ELSE 0)
        BY <1>1, <1>7, <2>5, <3>2 DEF Commit, TypeOK
      <4>2. tally[b][s] <= 1 /\ (tally[b][s] # 0 => b = Started[s])
        BY <1>2 DEF OnTime
      <4>3. session[s] = None => tally[b][s] = 0
        BY <1>2, <1>3, <3>1 DEF OnTime
      <4>. QED BY <1>3, <3>1, <4>1, <4>2, <4>3
    <3>. QED BY <2>3, <3>2, <3>3, <3>4 DEF OnTime
  <2>. QED BY <2>4, <2>5
<1>8. ASSUME NEW i \in Item, Rollback(i)
      PROVE  OnTime(s)'
  <2>1. \A j \in Item \ {i} : tx'[j] = tx[j]
    BY <1>8 DEF Rollback
  <2>2. ~InFlight(i)' /\ day' = day
    BY <1>1, <1>8 DEF Rollback, TypeOK, Tx, InFlight
  <2>3. \A u \in Update : SessionOf[u] = s /\ InFlight(u)' => InTime(u)'
    BY <1>4, <2>1, <2>2
  <2>. QED BY <1>2, <1>8, <2>3 DEF OnTime, Rollback, tables, history
<1>9. CASE NextDay
  <2>1. /\ day' = day + 1 /\ tx' = tx /\ \A i \in Item : InFlight(i) => tx[i].on = day
        /\ session' = session /\ tally' = tally
    BY <1>9 DEF NextDay, tables, history
  <2>2. \A u \in Update : SessionOf[u] = s /\ InFlight(u)' => InTime(u)'
    BY <1>2, <1>3, <2>1 DEF OnTime, InFlight, Item
  <2>3. Started[s] + MaxAge + 1 < day => Started[s] + MaxAge + 1 < day'
    BY <1>3, <2>1
  <2>. QED BY <1>2, <2>1, <2>2, <2>3 DEF OnTime
<1>10. CASE Prune \/ DropCommit
  <2>1. tx' = tx /\ day' = day
    BY <1>10 DEF Prune, DropCommit
  <2>2. \A u \in Update : SessionOf[u] = s /\ InFlight(u)' => InTime(u)'
    BY <1>2, <2>1 DEF OnTime, InFlight
  <2>3. CASE Prune
    <3>1. /\ session'[s] = IF Stale(s) THEN None ELSE session[s]
          /\ tally' = tally
      BY <2>3 DEF Prune
    <3>2. CASE Stale(s)
      <4>1. session[s] # None /\ Started[s] + MaxAge + 1 < day
        BY <1>2, <1>3, <3>2 DEF OnTime, Stale
      <4>. QED BY <1>2, <2>1, <2>2, <3>1, <3>2, <4>1 DEF OnTime
    <3>. QED BY <1>2, <2>1, <2>2, <3>1, <3>2 DEF OnTime
  <2>4. CASE DropCommit
    <3>1. /\ session'[s] = IF Dropped(s) THEN None ELSE session[s]
          /\ \A b \in Bucket : tally'[b][s] = IF b \in drop THEN 0 ELSE tally[b][s]
      BY <1>1, <2>4 DEF DropCommit, TypeOK
    <3>2. Dropped(s) => session[s] # None /\ Started[s] \in drop
      BY <1>2 DEF Dropped, OnTime
    <3>. QED BY <1>2, <1>3, <2>1, <2>2, <3>1, <3>2 DEF OnTime
  <2>. QED BY <1>10, <2>3, <2>4
<1>11. CASE DropLock \/ DropFails \/ UNCHANGED vars
  BY <1>2, <1>11 DEF OnTime, InFlight, DropLock, DropFails, vars, tables, history
<1>. QED BY <1>5, <1>6, <1>7, <1>8, <1>9, <1>10, <1>11 DEF Next, Statement, Item

-----------------------------------------------------------------------------
(* The counts of a bucket.                                                 *)

\* The sessions there are that column c of bucket b counts.
Live(b, c) ==
  {s \in Session : /\ session[s] # None /\ session[s].bucket = b
                   /\ c = 0 \/ session[s].outcome = c}

LEMMA LiveCounts ==
  ASSUME NEW b \in Bucket, NEW c \in Outcome
  PROVE  IsFiniteSet(Live(b, c)) /\ Cardinality(Live(b, c)) \in Nat
BY SomeSessions DEF Live

\* A session that is told and counted for the first time.
LEMMA FirstLive ==
  ASSUME TypeOK, NEW s \in Session, session[s] = None, session'[s] # None,
         \A r \in Session \ {s} : session'[r] = session[r],
         NEW b \in Bucket, NEW c \in Outcome
  PROVE  Cardinality(Live(b, c)') = Cardinality(Live(b, c)) +
           IF session'[s].bucket = b /\ (c = 0 \/ session'[s].outcome = c) THEN 1 ELSE 0
<1>1. s \notin Live(b, c)
  BY DEF Live
<1>2. CASE session'[s].bucket = b /\ (c = 0 \/ session'[s].outcome = c)
  <2>1. Live(b, c)' = Live(b, c) \union {s}
    BY <1>2 DEF Live
  <2>2. Cardinality(Live(b, c) \union {s}) = Cardinality(Live(b, c)) + 1
    BY <1>1, LiveCounts, FS_AddElement
  <2>. QED BY <1>2, <2>1, <2>2
<1>3. CASE ~(session'[s].bucket = b /\ (c = 0 \/ session'[s].outcome = c))
  <2>1. Live(b, c)' = Live(b, c)
    BY <1>3 DEF Live
  <2>. QED BY <1>3, <2>1, LiveCounts
<1>. QED BY <1>2, <1>3

\* A session that stays in its bucket and gets worse there.
LEMMA WorseLive ==
  ASSUME TypeOK, NEW s \in Session, session[s] # None, session'[s] # None,
         session'[s].bucket = session[s].bucket, session'[s].outcome # session[s].outcome,
         \A r \in Session \ {s} : session'[r] = session[r],
         NEW b \in Bucket, NEW c \in Outcome
  PROVE  /\ b # session[s].bucket => Live(b, c)' = Live(b, c)
         /\ b = session[s].bucket =>
              Cardinality(Live(b, c)') = Cardinality(Live(b, c)) +
                IF c = 0 THEN 0 ELSE IF c = session'[s].outcome THEN 1
                ELSE IF c = session[s].outcome THEN -1 ELSE 0
<1>1. CASE b # session[s].bucket \/ c = 0 \/ c \notin {session[s].outcome, session'[s].outcome}
  <2>1. Live(b, c)' = Live(b, c)
    BY <1>1 DEF Live
  <2>. QED BY <1>1, <2>1, LiveCounts
<1>2. CASE b = session[s].bucket /\ c # 0 /\ c = session'[s].outcome
  <2>1. s \notin Live(b, c) /\ Live(b, c)' = Live(b, c) \union {s}
    BY <1>2 DEF Live
  <2>2. Cardinality(Live(b, c) \union {s}) = Cardinality(Live(b, c)) + 1
    BY <2>1, LiveCounts, FS_AddElement
  <2>. QED BY <1>2, <2>1, <2>2
<1>3. CASE b = session[s].bucket /\ c # 0 /\ c = session[s].outcome
  <2>1. s \in Live(b, c) /\ Live(b, c)' = Live(b, c) \ {s}
    BY <1>3 DEF Live
  <2>2. Cardinality(Live(b, c) \ {s}) = Cardinality(Live(b, c)) - 1
    BY <2>1, LiveCounts, FS_RemoveElement
  <2>. QED BY <1>3, <2>1, <2>2, LiveCounts
<1>. QED BY <1>1, <1>2, <1>3

AddsUp(b) ==
  bucket[b] # None =>
    \A c \in Outcome : bucket[b][c] = past[b][c] + Cardinality(Live(b, c))

LEMMA BucketsAreLive == BucketsAddUp <=> \A b \in Bucket : AddsUp(b)
BY DEF BucketsAddUp, AddsUp, Live

\* A bucket that is not there counts nothing, and neither do the sessions.
LEMMA NoBucket ==
  ASSUME TypeOK, Referenced, NEW b \in Bucket, bucket[b] = None, NEW c \in Outcome
  PROVE  past[b][c] = 0 /\ Cardinality(Live(b, c)) = 0
<1>1. past[b][c] = 0
  BY DEF Referenced, Zero
<1>2. Live(b, c) = {}
  BY DEF Referenced, Live
<1>. QED BY <1>1, <1>2, FS_EmptySet

LEMMA CommitAddsUp ==
  ASSUME IInv, NEW i \in Item, Commit(i), NEW b \in Bucket
  PROVE  AddsUp(b)'
<1>. USE ReleaseHealthAssumption
<1>1. TypeOK /\ Referenced /\ AddsUp(b) /\ ItemInv(i)
  BY BucketsAreLive DEF IInv
<1>2. /\ tx[i].phase \in Staging /\ Staged(i) /\ tx[i].at \in Bucket
      /\ bucket[b] \in Counts \union {None} /\ past[b] \in Counts
  BY <1>1 DEF ItemInv, Commit, Staging, TypeOK, Tx
<1>. DEFINE before == IF bucket[b] = None THEN Zero ELSE bucket[b]
            add == IF b = tx[i].to THEN tx[i].add ELSE Zero
<1>3. \A c \in Outcome : /\ before[c] = past[b][c] + Cardinality(Live(b, c))
                         /\ Cardinality(Live(b, c)) \in Nat /\ past[b][c] \in Nat
  BY <1>1, <1>2, NoBucket, LiveCounts DEF AddsUp, Zero, Counts
<1>4. SUFFICES \A c \in Outcome :
        /\ add[c] \in Int
        /\ past'[b][c] + Cardinality(Live(b, c)') = before[c] + add[c]
        /\ Cardinality(Live(b, c)') \in Nat /\ past'[b][c] \in Nat
  <2>. SUFFICES ASSUME bucket'[b] # None, NEW c \in Outcome
                PROVE  bucket'[b][c] = past'[b][c] + Cardinality(Live(b, c)')
    BY DEF AddsUp
  <2>1. before[c] + add[c] >= 0 /\ before[c] \in Int /\ add[c] \in Int
    BY <1>3, <1>4
  <2>2. CASE b = tx[i].to
    <3>1. bucket'[b] = Incremented(before, tx[i].add)
      BY <1>1, <2>2, CommitBuckets
    <3>2. bucket'[b][c] = before[c] + add[c]
      BY <2>1, <2>2, <3>1 DEF Incremented
    <3>. QED BY <1>4, <3>2
  <2>3. CASE b # tx[i].to
    <3>1. bucket'[b] = before
      BY <1>1, <2>3, CommitBuckets
    <3>2. add[c] = 0
      BY <2>3 DEF Zero
    <3>. QED BY <1>4, <2>1, <3>1, <3>2
  <2>. QED BY <2>2, <2>3
<1>. TAKE c \in Outcome
<1>5. CASE i \in Aggregate
  <2>1. tx[i].to = tx[i].at /\ tx[i].add = CountsOf[i] /\ CountsOf[i] \in Counts
    BY <1>2, <1>5 DEF Staged
  <2>2. \A s \in Session : session'[s] = session[s]
    BY <1>5 DEF Commit, Tells
  <2>3. Live(b, c)' = Live(b, c)
    BY <2>2 DEF Live
  <2>4. CountsOf[i][c] \in Nat
    BY <2>1 DEF Counts
  <2>5. past'[b][c] = past[b][c] + add[c]
    <3>1. past' = [past EXCEPT ![tx[i].at] = [d \in Outcome |-> past[tx[i].at][d] + CountsOf[i][d]]]
      BY <1>5 DEF Commit
    <3>2. CASE b = tx[i].at
      BY <1>1, <1>2, <2>1, <3>1, <3>2 DEF TypeOK
    <3>3. CASE b # tx[i].at
      BY <1>1, <1>3, <2>1, <3>1, <3>3 DEF TypeOK, Zero
    <3>. QED BY <3>2, <3>3
  <2>6. add[c] \in Nat
    BY <2>1, <2>4 DEF Zero
  <2>. QED BY <1>3, <2>3, <2>5, <2>6
<1>6. CASE i \in Update /\ ~Tells(i, SessionOf[i])
  <2>1. tx[i].to = None /\ past' = past
    BY <1>2, <1>6 DEF Staged, Tells, Commit
  <2>2. \A s \in Session : session'[s] = session[s]
    BY <1>6 DEF Commit, Tells
  <2>3. Live(b, c)' = Live(b, c)
    BY <2>2 DEF Live
  <2>4. add[c] = 0
    BY <2>1 DEF Zero, Row
  <2>. QED BY <1>3, <2>1, <2>3, <2>4
<1>7. CASE i \in Update /\ Tells(i, SessionOf[i])
  <2>. DEFINE s == SessionOf[i]
  <2>1. /\ s \in Session /\ past' = past /\ lock[s] = i
        /\ \A r \in Session \ {s} : session'[r] = session[r]
    BY <1>7 DEF Commit, Tells
  <2>2. /\ tx[i].known = session[s] /\ session'[s] \in SessionRow /\ session'[s] # None
        /\ OutcomeOf[i] \in Outcome
        /\ session[s] = None =>
             session'[s].bucket = tx[i].at /\ session'[s].outcome = OutcomeOf[i]
        /\ session[s] # None =>
             session'[s].bucket = session[s].bucket /\ session'[s].outcome = Worst(i)
    BY <1>1, <1>7, <2>1, CommitSessions
  <2>3. CASE session[s] = None
    <3>1. StagedFirst(i)
      BY <1>2, <1>7, <2>1, <2>2, <2>3 DEF Staged
    <3>2. add[c] = IF tx[i].at = b /\ (c = 0 \/ OutcomeOf[i] = c) THEN 1 ELSE 0
      BY <3>1 DEF StagedFirst, FirstCounts, Zero
    <3>3. Cardinality(Live(b, c)') = Cardinality(Live(b, c)) +
            IF session'[s].bucket = b /\ (c = 0 \/ session'[s].outcome = c) THEN 1 ELSE 0
      BY <1>1, <2>1, <2>2, <2>3, FirstLive
    <3>. QED BY <1>3, <2>1, <2>2, <2>3, <3>2, <3>3
  <2>4. CASE session[s] # None /\ Worse(i)
    <3>1. StagedWorse(i) /\ session[s] \in SessionRow
      BY <1>1, <1>2, <1>7, <2>1, <2>2, <2>4 DEF Staged, TypeOK
    <3>2. session'[s].outcome = OutcomeOf[i] /\ session[s].outcome \in Outcome
          /\ OutcomeOf[i] > session[s].outcome
      BY <2>2, <2>4, <3>1 DEF Worst, Worse, SessionRow
    <3>3. add[c] = IF b # session[s].bucket THEN 0
                   ELSE IF c = 0 THEN 0 ELSE IF c = OutcomeOf[i] THEN 1
                   ELSE IF c = session[s].outcome THEN -1 ELSE 0
      BY <2>2, <3>1 DEF StagedWorse, MovedCounts, Zero
    <3>4. session'[s].outcome # session[s].outcome
      BY <2>2, <3>2 DEF Outcome
    <3>5. /\ b # session[s].bucket => Live(b, c)' = Live(b, c)
          /\ b = session[s].bucket =>
               Cardinality(Live(b, c)') = Cardinality(Live(b, c)) +
                 IF c = 0 THEN 0 ELSE IF c = session'[s].outcome THEN 1
                 ELSE IF c = session[s].outcome THEN -1 ELSE 0
      BY <1>1, <2>1, <2>2, <2>4, <3>4, WorseLive
    <3>6. Cardinality(Live(b, c)') = Cardinality(Live(b, c)) + add[c]
      BY <1>3, <3>2, <3>3, <3>5
    <3>7. IsFiniteSet(Live(b, c)') /\ Cardinality(Live(b, c)') \in Nat
      BY SomeSessions DEF Live
    <3>8. add[c] \in Int
      BY <3>3
    <3>. HIDE DEF add, before
    <3>. QED BY <1>3, <2>1, <3>6, <3>7, <3>8
  <2>5. CASE session[s] # None /\ ~Worse(i)
    <3>1. tx[i].to = None /\ session'[s].outcome = session[s].outcome
          /\ session'[s].bucket = session[s].bucket
      BY <1>2, <1>7, <2>1, <2>2, <2>5 DEF Staged, Worst
    <3>2. Live(b, c)' = Live(b, c)
      BY <2>1, <2>2, <2>5, <3>1 DEF Live
    <3>3. add[c] = 0
      BY <3>1 DEF Zero, Row
    <3>. QED BY <1>3, <2>1, <3>2, <3>3
  <2>. QED BY <2>3, <2>4, <2>5
<1>. QED BY <1>5, <1>6, <1>7 DEF Item

LEMMA BucketsStep ==
  ASSUME IInv, [Next]_vars
  PROVE  BucketsAddUp'
<1>1. /\ TypeOK /\ Referenced /\ \A i \in Item : ItemInv(i)
      /\ \A b \in Bucket : AddsUp(b)
  BY BucketsAreLive DEF IInv
<1>. SUFFICES ASSUME NEW b \in Bucket PROVE AddsUp(b)'
  BY BucketsAreLive DEF BucketsAddUp, AddsUp, Live
<1>2. CASE bucket' = bucket /\ session' = session /\ past' = past
  BY <1>1, <1>2 DEF AddsUp, Live
<1>3. ASSUME NEW i \in Item, Statement(i)
      PROVE  AddsUp(b)'
  BY <1>1, <1>2, <1>3, StatementMoves DEF Moves, InStatement, tables, history
<1>4. ASSUME NEW i \in Item, Receive(i) \/ Rollback(i)
      PROVE  AddsUp(b)'
  BY <1>2, <1>4 DEF Receive, Rollback, tables, history
<1>5. ASSUME NEW i \in Item, Commit(i)
      PROVE  AddsUp(b)'
  BY <1>5, CommitAddsUp
<1>6. CASE Prune
  <2>. DEFINE gone == {s \in Session : Stale(s)}
              Going(c) == {s \in gone : session[s].bucket = b /\ (c = 0 \/ session[s].outcome = c)}
  <2>1. /\ bucket' = bucket /\ past'[b] = Left(b, gone)
        /\ \A s \in Session : session'[s] = IF s \in gone THEN None ELSE session[s]
    BY <1>6 DEF Prune
  <2>2. ASSUME NEW c \in Outcome
        PROVE  past'[b][c] + Cardinality(Live(b, c)') = past[b][c] + Cardinality(Live(b, c))
    <3>1. past'[b][c] = past[b][c] + Cardinality(Going(c)) /\ past[b][c] \in Nat
      BY <1>1, <2>1 DEF Left, TypeOK, Counts
    <3>2. /\ Live(b, c) = Live(b, c)' \union Going(c)
          /\ Live(b, c)' \intersect Going(c) = {}
      BY <2>1 DEF Live, Stale
    <3>3. /\ IsFiniteSet(Live(b, c)') /\ Cardinality(Live(b, c)') \in Nat
          /\ IsFiniteSet(Going(c)) /\ Cardinality(Going(c)) \in Nat
      BY SomeSessions DEF Live
    <3>. HIDE DEF gone, Going
    <3>4. Cardinality(Live(b, c)' \union Going(c)) =
            Cardinality(Live(b, c)') + Cardinality(Going(c))
              - Cardinality(Live(b, c)' \intersect Going(c))
      BY <3>3, FS_Union
    <3>5. Cardinality(Live(b, c)' \intersect Going(c)) = 0
      BY <3>2, FS_EmptySet
    <3>. QED BY <3>1, <3>2, <3>3, <3>4, <3>5
  <2>. QED BY <1>1, <2>1, <2>2 DEF AddsUp
<1>7. CASE DropCommit
  <2>1. CASE b \in drop
    BY <1>1, <1>7, <2>1 DEF DropCommit, AddsUp
  <2>2. CASE b \notin drop
    <3>1. bucket'[b] = bucket[b] /\ past'[b] = past[b]
      BY <1>7, <2>2 DEF DropCommit
    <3>2. \A s \in Session : session'[s] = IF Dropped(s) THEN None ELSE session[s]
      BY <1>7 DEF DropCommit
    <3>3. \A c \in Outcome : Live(b, c)' = Live(b, c)
      BY <2>2, <3>2 DEF Live, Dropped
    <3>. QED BY <1>1, <3>1, <3>3 DEF AddsUp
  <2>. QED BY <2>1, <2>2
<1>8. CASE NextDay \/ DropLock \/ DropFails \/ UNCHANGED vars
  BY <1>2, <1>8 DEF NextDay, DropLock, DropFails, vars, tables, history
<1>. QED BY <1>3, <1>4, <1>5, <1>6, <1>7, <1>8 DEF Next, Statement, Item

-----------------------------------------------------------------------------
(* The theorems.                                                           *)

\* Every reachable state satisfies the invariant: what items have locked says
\* where they are, and the tables agree with what was told.
THEOREM Invariant == Spec => []IInv
<1>1. Init => IInv
  BY InitIInv
<1>2. IInv /\ [Next]_vars => IInv'
  BY TypeStep, ItemStep, DropsStep, ReferencedStep, WorstStep, OnTimeStep, BucketsStep DEF IInv
<1>. QED BY <1>1, <1>2, PTL DEF Spec

\* Tables, locks and transactions stay of their types.
THEOREM TypeCorrect == Spec => []TypeOK
<1>1. IInv => TypeOK
  BY DEF IInv
<1>. QED BY <1>1, Invariant, PTL

\* A bucket shows what its sessions and aggregates make up, in every column.
THEOREM AddUp == Spec => []BucketsAddUp
<1>1. IInv => BucketsAddUp
  BY DEF IInv
<1>. QED BY <1>1, Invariant, PTL

\* A session has the worst outcome it was told, a user who crashed has crashed.
THEOREM Worsens == Spec => []WorstWins
<1>1. IInv => WorstWins
  BY DEF IInv
<1>. QED BY <1>1, Invariant, PTL

\* No two buckets count a session whose client's clock does not run ahead.
THEOREM Once == Spec => []CountedOnce
<1>1. IInv => CountedOnce
  <2>. SUFFICES ASSUME IInv, NEW s \in Session \ ahead
                PROVE  /\ \A b \in Bucket : tally[b][s] <= 1
                       /\ \A b, c \in Bucket : b # c => tally[b][s] = 0 \/ tally[c][s] = 0
    BY DEF CountedOnce
  <2>. QED BY DEF IInv, OnTime
<1>. QED BY <1>1, Invariant, PTL

\* Whoever has a row that another waits for is further in its transaction.
Rank(i) ==
  CASE tx[i].phase = "commit" -> 0
    [] tx[i].phase = "user" -> 1
    [] tx[i].phase \in {"count", "raise"} -> 2
    [] tx[i].phase \in {"insert", "relock"} -> 3
    [] OTHER -> 4

LEMMA WaitsForFurther ==
  ASSUME IInv, NEW i \in Item, NEW j \in Item, WaitsFor(i, j)
  PROVE  Rank(j) < Rank(i)
<1>. USE ReleaseHealthAssumption
<1>1. TypeOK /\ Referenced /\ ItemInv(i) /\ ItemInv(j)
  BY DEF IInv
<1>2. PICK k \in Wants(i) : lock[k] = j
  BY DEF WaitsFor
<1>3. i # j
  BY DEF WaitsFor
<1>4. /\ tx[i].at \in Bucket /\ \A b \in Bucket \union Session \union User : b \in Row
      /\ i \in Update => SessionOf[i] \in Session
      /\ session \in [Session -> SessionRow \union {None}]
      /\ UserOf[i] # None => UserOf[i] \in User
  BY <1>1 DEF TypeOK, Tx, Row
<1>5. ASSUME k \in Session PROVE tx[j].phase \in WithSession
  BY <1>1, <1>2, <1>4, <1>5 DEF ItemInv, Holds
<1>6. ASSUME k \in Bucket
      PROVE  /\ tx[j].phase \in AfterEnsure
             /\ bucket[k] # None => tx[j].phase \in Staging
  <2>1. InFlight(j) /\ (k = tx[j].to \/ (bucket[k] = None /\ tx[j].phase \in AfterEnsure))
    BY <1>1, <1>2, <1>4, <1>6 DEF ItemInv, Holds
  <2>2. k = tx[j].to => tx[j].phase \in Staging
    <3>1. k # None
      BY <1>4, <1>6
    <3>2. tx[j].phase \in Phase
      BY <1>1 DEF TypeOK, Tx
    <3>. QED BY <1>1, <2>1, <3>1, <3>2 DEF ItemInv, Placed, InFlight, Phase, OfUpdates, Staging
  <2>. QED BY <2>1, <2>2 DEF Staging, AfterEnsure
<1>7. CASE tx[i].phase \in {"lock", "relock", "insert"}
  <2>1. k \in Session
    BY <1>1, <1>2, <1>4, <1>7 DEF Wants, ItemInv, Placed, OfUpdates
  <2>. QED BY <1>5, <1>7, <2>1 DEF Rank, WithSession
<1>8. CASE tx[i].phase \in {"ensure", "add"}
  <2>1. k \in Bucket
    BY <1>2, <1>4, <1>8 DEF Wants
  <2>. QED BY <1>6, <1>8, <2>1 DEF Rank, AfterEnsure
<1>9. CASE tx[i].phase = "count"
  <2>1. k = tx[i].at
    BY <1>2, <1>9 DEF Wants
  <2>2. bucket[k] # None
    BY <1>1, <1>2, <1>3, <1>9, <2>1 DEF ItemInv, Counting
  <2>. QED BY <1>4, <1>6, <1>9, <2>1, <2>2 DEF Rank, Staging
<1>10. CASE tx[i].phase = "raise"
  <2>1. k = tx[i].known.bucket
    BY <1>2, <1>10 DEF Wants
  <2>2. tx[i].known = session[SessionOf[i]] /\ tx[i].known # None /\ SessionOf[i] \in Session
    BY <1>1, <1>4, <1>10 DEF ItemInv, Raising, Placed, OfUpdates
  <2>3. k \in Bucket
    BY <1>4, <2>1, <2>2 DEF SessionRow
  <2>4. bucket[k] # None
    BY <1>1, <2>1, <2>2 DEF Referenced
  <2>. QED BY <1>6, <1>10, <2>3, <2>4 DEF Rank, Staging
<1>11. CASE tx[i].phase = "user"
  <2>1. k \in User
    BY <1>1, <1>2, <1>4, <1>11 DEF Wants, ItemInv, Placed
  <2>2. tx[j].phase = "commit"
    BY <1>1, <1>2, <1>4, <2>1 DEF ItemInv, Holds
  <2>. QED BY <1>11, <2>2 DEF Rank
<1>. QED BY <1>2, <1>7, <1>8, <1>9, <1>10, <1>11 DEF Wants

\* Updates and aggregates never wait for each other in a ring.
THEOREM NoDeadlock == Spec => []UpdatesNeverDeadlock
<1>1. IInv => UpdatesNeverDeadlock
  <2>. SUFFICES ASSUME IInv, NEW ring \in SUBSET Item, ring # {}
                PROVE  \E i \in ring : \A j \in ring : ~WaitsFor(i, j)
    BY DEF UpdatesNeverDeadlock
  <2>1. \A i \in ring : Rank(i) \in 0..4
    BY DEF Rank
  <2>2. PICK i \in ring : \A j \in ring : Rank(i) <= Rank(j)
    <3>1. \E n \in 0..4 : /\ \E i \in ring : Rank(i) = n
                          /\ \A m \in 0..4 : (\E i \in ring : Rank(i) = m) => n <= m
      BY <2>1
    <3>. QED BY <2>1, <3>1
  <2>3. \A j \in ring : ~(Rank(j) < Rank(i))
    BY <2>1, <2>2
  <2>. QED BY <2>3, WaitsForFurther
<1>. QED BY <1>1, Invariant, PTL

=============================================================================
