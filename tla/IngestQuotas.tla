---------------------------- MODULE IngestQuotas ----------------------------
(***************************************************************************)
(* IngestQuotasService: what a request reserves, one quota after another,  *)
(* and what it releases when a later quota refuses it.  An event asks for  *)
(* the hourly quotas and then for its key's minute, which is counted       *)
(* exactly; a batch of sessions asks for one quota, for all its sessions.  *)
(***************************************************************************)
EXTENDS ApproximateQuotas, Sequences, FiniteSets, Functions

CONSTANTS
  Request,
  ProcessOf,  \* the process each request reaches
  Asks,       \* the quotas it asks for, in order: those that have a limit
  Units,      \* the units it asks for
  Keyed,      \* the requests whose key has a limit
  KeyLimit    \* and the limit

ASSUME IngestQuotasAssumption ==
  /\ IsFiniteSet(Process) /\ IsFiniteSet(Request)
  /\ ProcessOf \in [Request -> Process]
  /\ Asks \in [Request -> Seq(Quota)]
  /\ \A r \in Request : IsInjective(Asks[r])
  /\ Units \in [Request -> Nat \ {0}]
  /\ Keyed \subseteq Request
  /\ KeyLimit \in Nat \ {0}

VARIABLES
  keyCount,  \* ingest_rate_counters: the row of the key's minute
  req        \* the requests

vars == <<quotas, keyCount, req>>

\* next: the quota to ask for; row: the entry it waits for; got: what it holds.
RequestState == [phase : {"ask", "wait", "woken", "key", "admitted", "refused", "thrown"},
                 next : Nat \ {0}, row : Row \union {<<>>}, got : SUBSET Row]

\* Where a request goes once it has reserved n quotas.
After(r, n) ==
  IF n < Len(Asks[r]) THEN "ask" ELSE IF r \in Keyed THEN "key" ELSE "admitted"

Init ==
  /\ QuotasInit
  /\ keyCount = 0
  /\ req = [r \in Request |-> [phase |-> After(r, 0), next |-> 1, row |-> <<>>, got |-> {}]]

\* Of the rows of a quota, the one of the present window.
Present(r) == <<Asks[r][req[r].next], window>>

\* Mutant: what was reserved before is kept.
ReleaseNothing(r, C) == entry' = entry
ReleaseReserved(r, C) == Release(ProcessOf[r], C, Units[r])

\* reserve, after the read if there was one: refused, or counted.
Decide(r, c) ==
  LET p == ProcessOf[r]
      limit == Limit[c[1]]
  IN
  /\ IF Exceeds(EntryFor(p, c), limit, Units[r])
     THEN /\ ReleaseReserved(r, req[r].got)
          /\ req' = [req EXCEPT ![r].phase = "refused", ![r].row = <<>>, ![r].got = {}]
     ELSE /\ Count(p, c, Units[r])
          /\ req' = [req EXCEPT ![r] = [phase |-> After(r, req[r].next), next |-> req[r].next + 1, row |-> <<>>,
                                        got |-> req[r].got \union {c}]]
  /\ UNCHANGED <<counter, window, write, keyCount>>

MustWait(r, c) == MustRead(EntryFor(ProcessOf[r], c), Limit[c[1]], Units[r])

Reserve(r) ==
  /\ req[r].phase = "ask"
  /\ ~MustWait(r, Present(r))
  /\ Decide(r, Present(r))

ReserveRead(r) ==
  /\ req[r].phase = "ask"
  /\ MustWait(r, Present(r))
  /\ StartRead(ProcessOf[r], Present(r))
  /\ req' = [req EXCEPT ![r].phase = "wait", ![r].row = Present(r)]
  /\ UNCHANGED <<counter, window, keyCount>>

\* The requests a read wakes decide before the process does anything else.
Settled(p) == \A r \in Request : ProcessOf[r] = p => req[r].phase # "woken"

ReserveAfterRead(r) ==
  /\ req[r].phase = "woken"
  /\ Decide(r, req[r].row)

\* The requests that wait for the reads of C.
Waiting(p, C, phase) ==
  req' = [r \in Request |->
            IF ProcessOf[r] = p /\ req[r].phase = "wait" /\ req[r].row \in C
            THEN [req[r] EXCEPT !.phase = phase]
            ELSE req[r]]

WriteAnswered(p, s) == Settled(p) /\ Answer(p, s) /\ Waiting(p, {s}, "woken") /\ UNCHANGED keyCount

\* A read that fails throws: what the requests reserved before stays counted.
WriteFails(p, s) == Settled(p) /\ Fail(p, s) /\ Waiting(p, FailsWith(p, s), "thrown") /\ UNCHANGED keyCount

\* Mutant: the statement counts without looking at the limit.
ConsumeKeyBlindly(r) ==
  /\ req[r].phase = "key"
  /\ keyCount' = keyCount + 1
  /\ req' = [req EXCEPT ![r].phase = "admitted"]
  /\ UNCHANGED quotas

\* consumeKeyMinute: one statement, which counts only below the limit.
ConsumeKey(r) ==
  /\ req[r].phase = "key"
  /\ IF keyCount < KeyLimit
     THEN /\ keyCount' = keyCount + 1
          /\ req' = [req EXCEPT ![r].phase = "admitted"]
          /\ UNCHANGED entry
     ELSE /\ ReleaseReserved(r, req[r].got)
          /\ req' = [req EXCEPT ![r].phase = "refused", ![r].got = {}]
          /\ UNCHANGED keyCount
  /\ UNCHANGED <<counter, window, write>>

\* The statement fails: the hourly quotas are given back as well.
ConsumeKeyFails(r) ==
  /\ req[r].phase = "key"
  /\ ReleaseReserved(r, req[r].got)
  /\ req' = [req EXCEPT ![r].phase = "thrown", ![r].got = {}]
  /\ UNCHANGED <<counter, window, write, keyCount>>

MinutePasses ==
  /\ keyCount > 0
  /\ keyCount' = 0
  /\ UNCHANGED <<quotas, req>>

RequestStep(r) ==
  \/ ReserveAfterRead(r)
  \/ Settled(ProcessOf[r]) /\ (Reserve(r) \/ ReserveRead(r) \/ ConsumeKey(r) \/ ConsumeKeyFails(r))

FlushTimer(p) == Settled(p) /\ FlushStart(p) /\ UNCHANGED <<keyCount, req>>

WriteStep(p, s) ==
  \/ Store(p, s) /\ UNCHANGED <<keyCount, req>>
  \/ WriteAnswered(p, s)
  \/ WriteFails(p, s)

Next ==
  \/ \E r \in Request : RequestStep(r)
  \/ \E p \in Process :
       \/ \E s \in Writer : WriteStep(p, s)
       \/ FlushTimer(p)
       \/ \E c \in Row : (ReadGoesOn(p, c) \/ GrowStale(p, c)) /\ UNCHANGED <<keyCount, req>>
  \/ WindowEnds /\ UNCHANGED <<keyCount, req>>
  \/ MinutePasses

Spec == Init /\ [][Next]_vars

\* The timer flushes again and again, its statement ends, and does not fail
\* for ever; a request that was woken goes on.
Fairness ==
  /\ \A r \in Request : WF_vars(ReserveAfterRead(r))
  /\ \A p \in Process :
    /\ WF_vars(FlushTimer(p))
    /\ SF_vars(Store(p, Flush) /\ UNCHANGED <<keyCount, req>>)
    /\ WF_vars(WriteAnswered(p, Flush))

FairSpec == Spec /\ Fairness

-----------------------------------------------------------------------------
TypeOK ==
  /\ counter \in [Row -> Int]
  /\ window \in 1..Windows
  /\ entry \in [Process -> [Row -> Entry]]
  /\ write \in [Process -> [Writer -> Write]]
  /\ keyCount \in 0..KeyLimit
  /\ req \in [Request -> RequestState]

\* Requests hold their units from the reservation to the release.
Held(c) == SumFunction([r \in Request |-> IF c \in req[r].got THEN Units[r] ELSE 0])
GrantedBy(p, c) ==
  SumFunction([r \in Request |-> IF ProcessOf[r] = p /\ c \in req[r].got THEN Units[r] ELSE 0])

\* The units of a row in a write that is stored and not yet answered: a read
\* of that row, or a flush.
Stored(p, s, c) == IF write[p][s].phase = "stored" THEN write[p][s].units[c] ELSE 0

\* What a process still has to write of a row.
Unwritten(p, c) == entry[p][c].pending - Stored(p, c, c) - Stored(p, Flush, c)
ToWrite(c) == SumFunction([p \in Process |-> Unwritten(p, c)])

\* However reads, flushes, failed statements and releases overlap, every unit
\* a request holds is in the row or still to be written to it, exactly once.
UnitsConserved == \A c \in Row : c[2] = window => counter[c] + ToWrite(c) = Held(c)

\* A read and a flush that overlapped wrote units twice, or a request gave
\* units back, and a write takes them out of the row again.
TakesBack(p, c) == Stored(p, c, c) < 0 \/ Stored(p, Flush, c) < 0

\* Units that other processes give back may leave the row lower than it should
\* be, for a while: reads and flushes take those out twice as well.
GaveBack(r) == req[r].phase \in {"refused", "thrown"} /\ req[r].next > 1 /\ req[r].got = {}
OthersKeep(p) == \A r \in Request : ProcessOf[r] # p => ~GaveBack(r)

\* However many requests wait for the same read, and however writes overlap
\* and are answered, a process lets no request through that brings what it
\* granted above the limit, except while a write of its own takes units back.
GrantsWithinLimit ==
  [][\A r \in Request, c \in Row :
       LET p == ProcessOf[r] IN
       (OthersKeep(p) /\ ~TakesBack(p, c) /\ c \in req'[r].got \ req[r].got) =>
         GrantedBy(p, c)' <= Limit[c[1]]]_vars

\* A unit that was counted is written, although writes fail and windows end.
EventuallyWritten ==
  \A p \in Process, c \in Row : (entry[p][c].pending # 0) ~> (entry[p][c].pending = 0)

-----------------------------------------------------------------------------
(* What the comments say, and the overlaps break.                          *)

\* "A stale total can let an event through but never refuses one wrongly":
\* a request is refused only when the requests hold the whole limit.
NeverRefusedWrongly ==
  [][\A r \in Request :
       (req[r].phase \in {"ask", "woken"} /\ req'[r].phase = "refused") =>
         LET c == IF req[r].phase = "ask" THEN Present(r) ELSE req[r].row
         IN Held(c) + Units[r] > Limit[c[1]]]_vars
=============================================================================
