----------------------------- MODULE ForkJoin -----------------------------
(***************************************************************************)
(* What worker_pool promises the benchmark: a job handed to run() is run   *)
(* exactly once by every worker, side by side, and run() returns when all  *)
(* of them have finished.  There is no lock, no wait and no counter here.  *)
(***************************************************************************)
CONSTANT Workers

VARIABLES
  phase,  \* "idle", "running" or "closed"
  todo,   \* the workers that have not started the job
  busy    \* the workers running it

vars == <<phase, todo, busy>>

Init == phase = "idle" /\ todo = {} /\ busy = {}

Fork ==
  /\ phase = "idle"
  /\ phase' = "running"
  /\ todo' = Workers
  /\ UNCHANGED busy

Start(w) ==
  /\ w \in todo
  /\ todo' = todo \ {w}
  /\ busy' = busy \cup {w}
  /\ UNCHANGED phase

End(w) ==
  /\ w \in busy
  /\ busy' = busy \ {w}
  /\ UNCHANGED <<phase, todo>>

Join ==
  /\ phase = "running"
  /\ todo = {}
  /\ busy = {}
  /\ phase' = "idle"
  /\ UNCHANGED <<todo, busy>>

Close ==
  /\ phase = "idle"
  /\ phase' = "closed"
  /\ UNCHANGED <<todo, busy>>

Next ==
  \/ Fork \/ Join \/ Close
  \/ \E w \in Workers : Start(w) \/ End(w)

Spec == Init /\ [][Next]_vars
=============================================================================
