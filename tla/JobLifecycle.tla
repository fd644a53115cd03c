---------------------------- MODULE JobLifecycle ----------------------------
(***************************************************************************)
(* What the job queue promises a service that enqueues a job, with the     *)
(* workers, the sweeps and the clock left out: the job waits, is tried at  *)
(* most as often as the limit it was admitted with, and settles once.      *)
(* Only a job that was tried settles, only a job that settled is           *)
(* forgotten, and a success is final.                                      *)
(***************************************************************************)
EXTENDS Naturals

CONSTANT Job

VARIABLES
  state,  \* where each job is
  tries,  \* how often it was tried since it was admitted or revived
  limit   \* how often it may be

lifecycle == <<state, tries, limit>>

State == {"absent", "waiting", "active", "done", "dead"}

Init ==
  /\ state = [j \in Job |-> "absent"]
  /\ tries = [j \in Job |-> 0]
  /\ limit = [j \in Job |-> 0]

Becomes(j, from, to, n) ==
  state[j] = from /\ state'[j] = to /\ tries'[j] = n

Admit(j) == Becomes(j, "absent", "waiting", 0) /\ limit'[j] > 0

Take(j) ==
  /\ tries[j] < limit[j]
  /\ Becomes(j, "waiting", "active", tries[j] + 1)
  /\ limit'[j] = limit[j]

Retry(j) ==
  /\ tries[j] < limit[j]
  /\ Becomes(j, "active", "waiting", tries[j])
  /\ limit'[j] = limit[j]

Settle(j) ==
  /\ \E outcome \in {"done", "dead"} : Becomes(j, "active", outcome, tries[j])
  /\ limit'[j] = limit[j]

Revive(j) == Becomes(j, "dead", "waiting", 0) /\ limit'[j] = limit[j]

Forget(j) == \E from \in {"done", "dead"} : Becomes(j, from, "absent", 0) /\ limit'[j] = 0

Keep(j) == state'[j] = state[j] /\ tries'[j] = tries[j] /\ limit'[j] = limit[j]

\* One statement may move several jobs, each along its own lifecycle.
Next ==
  \A j \in Job :
    Keep(j) \/ Admit(j) \/ Take(j) \/ Retry(j) \/ Settle(j) \/ Revive(j) \/ Forget(j)

Spec == Init /\ [][Next]_lifecycle
=============================================================================
