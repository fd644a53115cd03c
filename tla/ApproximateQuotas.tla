-------------------------- MODULE ApproximateQuotas --------------------------
(***************************************************************************)
(* ApproximateQuotas: quotas that each process counts in memory and writes *)
(* to ingest_rate_counters in batches.  A process is one JavaScript thread:*)
(* a step runs from one await to the next, and what another step changed   *)
(* in between is seen by the code after the await.                         *)
(*                                                                         *)
(* A row of the table is one quota over one fixed window.  Time is what    *)
(* the code compares: the window a reservation falls in, whether a window  *)
(* has ended, and whether a total was read less than 100 ms ago.           *)
(***************************************************************************)
EXTENDS Integers

CONSTANTS
  Process,
  Quota,    \* a scope and its owner
  Limit,    \* units a window of each quota allows
  Windows,  \* bound: windows in a behaviour
  Flush     \* the periodic flush, beside one read per row

Row == Quota \X (1..Windows)
Writer == Row \union {Flush}

ASSUME ApproximateQuotasAssumption ==
  /\ Limit \in [Quota -> Nat \ {0}]
  /\ Windows \in Nat \ {0}
  /\ Flush \notin Row

VARIABLES
  counter,  \* ingest_rate_counters: the count of each row
  window,   \* the window the clock is in
  entry,    \* the entries of each process
  write     \* the writes each process has under way

quotas == <<counter, window, entry, write>>

Age == {"never", "stale", "fresh"}
Entry == [kept : BOOLEAN, known : Int, pending : Int, read : Age]
Write == [phase : {"idle", "waiting", "sent", "stored"}, rows : SUBSET Row,
          units : [Row -> Int], total : [Row -> Int]]

Zero == [c \in Row |-> 0]
NoEntry == [kept |-> FALSE, known |-> 0, pending |-> 0, read |-> "never"]
NewEntry == [kept |-> TRUE, known |-> 0, pending |-> 0, read |-> "never"]
NoWrite == [phase |-> "idle", rows |-> {}, units |-> Zero, total |-> Zero]

QuotasInit ==
  /\ counter = Zero
  /\ window = 1
  /\ entry = [p \in Process |-> [c \in Row |-> NoEntry]]
  /\ write = [p \in Process |-> [s \in Writer |-> NoWrite]]

Refreshing(p, c) == write[p][c].phase # "idle"
Flushing(p) == write[p][Flush].phase # "idle"

-----------------------------------------------------------------------------
(* reserve                                                                 *)

\* entryFor
EntryFor(p, c) == IF entry[p][c].kept THEN entry[p][c] ELSE NewEntry

MustRead(e, limit, units) ==
  LET estimate == e.known + e.pending + units IN
  \/ e.read = "never"
  \/ estimate <= limit /\ 10 * estimate > 9 * limit /\ e.read = "stale"

\* Mutant: units not written yet are not counted against the limit.
ExceedsWritten(e, limit, units) == e.known + units > limit

Exceeds(e, limit, units) == e.known + e.pending + units > limit

\* write is called with the pending units of the rows C.
Sending(p, C, entries) ==
  [phase |-> "sent", rows |-> C, total |-> Zero,
   units |-> [c \in Row |-> IF c \in C THEN entries[c].pending ELSE 0]]

\* read: the first caller starts it, and it waits for a flush under way.
StartRead(p, c) ==
  LET entries == [entry[p] EXCEPT ![c] = EntryFor(p, c)] IN
  /\ entry' = [entry EXCEPT ![p] = entries]
  /\ write' = IF Refreshing(p, c) THEN write
              ELSE [write EXCEPT ![p][c] =
                      IF Flushing(p) THEN [NoWrite EXCEPT !.phase = "waiting"]
                      ELSE Sending(p, {c}, entries)]

Count(p, c, units) ==
  entry' = [entry EXCEPT ![p][c] = [EntryFor(p, c) EXCEPT !.pending = @ + units]]

\* release, of each row in C.  An entry that was forgotten is counted nowhere.
Release(p, C, units) ==
  entry' = [entry EXCEPT ![p] =
              [c \in Row |-> IF c \in C /\ entry[p][c].kept
                             THEN [entry[p][c] EXCEPT !.pending = @ - units]
                             ELSE entry[p][c]]]

-----------------------------------------------------------------------------
(* write, of a flush or of a read                                          *)

\* A read goes on once no flush is under way.
ReadGoesOn(p, c) ==
  /\ write[p][c].phase = "waiting" /\ ~Flushing(p)
  /\ write' = [write EXCEPT ![p][c] = Sending(p, {c}, entry[p])]
  /\ UNCHANGED <<counter, window, entry>>

\* dropEndedWindows
Ended(c) == c[2] < window
Forget(p, entries) ==
  [c \in Row |-> IF Ended(c) /\ entries[c].pending = 0 /\ ~Refreshing(p, c)
                 THEN NoEntry ELSE entries[c]]

\* Mutant: units written twice, or released once written, are never given back.
PendingPositive(p) == {c \in Row : entry[p][c].pending > 0}

Pending(p) == {c \in Row : entry[p][c].pending # 0}

FlushStart(p) ==
  /\ ~Flushing(p)
  /\ IF Pending(p) = {}
     THEN entry' = [entry EXCEPT ![p] = Forget(p, entry[p])] /\ UNCHANGED write
     ELSE write' = [write EXCEPT ![p][Flush] = Sending(p, Pending(p), entry[p])] /\ UNCHANGED entry
  /\ UNCHANGED <<counter, window>>

\* The statement commits: it adds the units and returns the totals.
Store(p, s) ==
  LET w == write[p][s] IN
  /\ w.phase = "sent"
  /\ counter' = [c \in Row |-> counter[c] + w.units[c]]
  /\ write' = [write EXCEPT ![p][s] =
                 [w EXCEPT !.phase = "stored",
                           !.total = [c \in Row |-> IF c \in w.rows THEN counter'[c] ELSE 0]]]
  /\ UNCHANGED <<window, entry>>

Larger(m, n) == IF m < n THEN n ELSE m

\* Mutant: units counted while the write was under way are taken for written.
AnsweredAll(e, units, total) ==
  [kept |-> TRUE, known |-> Larger(e.known, total), pending |-> 0, read |-> "fresh"]

Answered(e, units, total) ==
  [kept |-> TRUE, known |-> Larger(e.known, total), pending |-> e.pending - units, read |-> "fresh"]

\* The totals arrive.
Answer(p, s) ==
  LET w == write[p][s]
      entries == [c \in Row |-> IF c \in w.rows THEN Answered(entry[p][c], w.units[c], w.total[c])
                                ELSE entry[p][c]]
  IN
  /\ w.phase = "stored"
  /\ entry' = [entry EXCEPT ![p] = IF s = Flush THEN Forget(p, entries) ELSE entries]
  /\ write' = [write EXCEPT ![p][s] = NoWrite]
  /\ UNCHANGED <<counter, window>>

\* The reads that wait for a flush fail with it.
FailsWith(p, s) == {s} \union {c \in Row : s = Flush /\ write[p][c].phase = "waiting"}

\* The statement fails: its units stay pending.
Fail(p, s) ==
  /\ write[p][s].phase = "sent"
  /\ write' = [write EXCEPT ![p] = [t \in Writer |-> IF t \in FailsWith(p, s) THEN NoWrite ELSE @[t]]]
  /\ entry' = [entry EXCEPT ![p] = IF s = Flush THEN Forget(p, entry[p]) ELSE @]
  /\ UNCHANGED <<counter, window>>

-----------------------------------------------------------------------------
(* Time                                                                    *)

GrowStale(p, c) ==
  /\ entry[p][c].read = "fresh"
  /\ entry' = [entry EXCEPT ![p][c].read = "stale"]
  /\ UNCHANGED <<counter, window, write>>

WindowEnds ==
  /\ window < Windows
  /\ window' = window + 1
  /\ UNCHANGED <<counter, entry, write>>
=============================================================================
