----------------------------- MODULE IssueCounts -----------------------------
(***************************************************************************)
(* IssueCountsService: the batched counters.  A flush is one statement in  *)
(* a transaction of its own; it takes the rows it saw when it locked the   *)
(* issue, and holds the lock until its commit.                             *)
(***************************************************************************)
EXTENDS IssueStore

FlushState == [todo : SUBSET Issue, at : Issue \union {None}, took : SUBSET Delivery,
               round : 0..(MaxRounds - 1)]
NotFlushing ==
  [todo |-> {}, at |-> None, took |-> {}, round |-> 0]

\* Moves on to the next issue of the list.
Skip(f, i) == [NotFlushing EXCEPT !.todo = flush[f].todo \ {i}]

\* Mutants: a flush that waits for nothing and takes no lock into account; a
\* flush that deletes the rows that arrived since it counted.
FlushTakeUnlocked(f, i) ==
  /\ i \in flush[f].todo /\ flush[f].at = None
  /\ flush' = [flush EXCEPT ![f].at = i, ![f].took = PendingOf(i)]
  /\ UNCHANGED <<store, del, req>>
FlushCommitLate(f) ==
  LET i == flush[f].at IN
  /\ i # None
  /\ issue' = [issue EXCEPT ![i].seen = @ + Cardinality(flush[f].took)]
  /\ pending' = [d \in Delivery |-> IF pending[d] = i THEN None ELSE pending[d]]
  /\ flush' = [flush EXCEPT ![f] = Skip(f, i)]
  /\ UNCHANGED <<event, del, req>>

\* Whether the round of a flush is its last.
LastRound(f) == flush[f].round + 1 = MaxRounds

\* flushOnce begins: the row is locked, or skipped when another holds it.
FlushTake(f, i) ==
  /\ i \in flush[f].todo /\ flush[f].at = None
  /\ flush' = [flush EXCEPT ![f] =
                 IF CanUpdate(i)
                 THEN [@ EXCEPT !.at = i, !.took = PendingOf(i)]
                 ELSE Skip(f, i)]
  /\ UNCHANGED <<store, del, req>>

\* flushOnce commits.  A round that found no row, or the last one, ends it.
FlushCommit(f) ==
  LET i == flush[f].at
      took == flush[f].took
  IN
  /\ i # None
  /\ issue' = [issue EXCEPT ![i].seen = @ + Cardinality(took)]
  /\ pending' = [d \in Delivery |-> IF d \in took THEN None ELSE pending[d]]
  /\ flush' = [flush EXCEPT ![f] =
                 IF took = {} \/ LastRound(f) THEN Skip(f, i)
                 ELSE [@ EXCEPT !.at = None, !.took = {}, !.round = flush[f].round + 1]]
  /\ UNCHANGED <<event, del, req>>

\* The statement fails, or the process dies: the rows stay for a later flush.
FlushFails(f) ==
  /\ flush[f].todo # {}
  /\ flush' = [flush EXCEPT ![f] = NotFlushing]
  /\ UNCHANGED <<store, del, req>>

\* Mutant: merged issues are not swept.
SweepStartUnmerged ==
  /\ flush[Sweeper] = NotFlushing
  /\ flush' = [flush EXCEPT ![Sweeper].todo =
                 {i \in Issue : PendingOf(i) # {} /\ issue[i].into = None}]
  /\ flush'[Sweeper].todo # {}
  /\ UNCHANGED <<store, del, req>>

\* flushAll lists the issues with pending rows and flushes one after another.
SweepStart ==
  /\ flush[Sweeper] = NotFlushing
  /\ flush' = [flush EXCEPT ![Sweeper].todo = {i \in Issue : PendingOf(i) # {}}]
  /\ flush'[Sweeper].todo # {}
  /\ UNCHANGED <<store, del, req>>

FlushStep(f) == FlushCommit(f) \/ \E i \in Issue : FlushTake(f, i)
=============================================================================
