------------------------------ MODULE WorkPool ------------------------------
(***************************************************************************)
(* What JobScheduler::start() promises its caller, with no thread, mutex   *)
(* or state word in sight (doc comments of src/sys_JobScheduler.cpp).      *)
(*                                                                         *)
(* A producer holds a set of jobs.  Between the call of start() and its    *)
(* return jobs are taken, processed and harvested, one harvest at a time.  *)
(* start() may only return when no job is in flight, and it may only       *)
(* return normally when the producer is exhausted or a stop() was called;  *)
(* it throws exactly the message of a harvest that failed.                 *)
(***************************************************************************)
CONSTANTS Jobs,      \* the jobs a producer can deliver
          Roots,     \* the jobs a producer can hold before any harvest
          NoJob,     \* not a job: no error recorded
          Spawn      \* Spawn[j]: the jobs the producer gains when j is harvested

VARIABLES busy,      \* TRUE between the call of start() and its return
          todo,      \* the jobs the producer has still to deliver
          inflight,  \* delivered and not yet given to harvest()
          harvested, \* given to harvest(), which returned
          failed,    \* given to harvest(), which threw
          quit,      \* a stop() was called during this start()
          outcome    \* what the last start() did: a pair <<kind, job>>

avars == <<busy, todo, inflight, harvested, failed, quit, outcome>>

AInit ==
  /\ busy = FALSE /\ quit = FALSE
  /\ todo = {} /\ inflight = {} /\ harvested = {} /\ failed = {}
  /\ outcome = <<"none", NoJob>>

\* A new producer: its jobs replace whatever the former one had left.
Supply ==
  /\ ~busy
  /\ \E S \in SUBSET Roots : todo' = S
  /\ harvested' = {} /\ failed' = {}
  /\ UNCHANGED <<busy, inflight, quit, outcome>>

\* start() asked for a thread count no array can have: it throws at once.
Refuse ==
  /\ ~busy
  /\ outcome' = <<"badcount", NoJob>>
  /\ UNCHANGED <<busy, todo, inflight, harvested, failed, quit>>

Begin ==
  /\ ~busy
  /\ busy' = TRUE /\ quit' = FALSE /\ failed' = {}
  /\ outcome' = <<"none", NoJob>>
  /\ UNCHANGED <<todo, inflight, harvested>>

Take(j) ==
  /\ busy /\ j \in todo
  /\ todo' = todo \ {j}
  /\ inflight' = inflight \union {j}
  /\ UNCHANGED <<busy, harvested, failed, quit, outcome>>

Collect(j) ==
  /\ busy /\ j \in inflight
  /\ inflight' = inflight \ {j}
  /\ harvested' = harvested \union {j}
  /\ todo' = todo \union Spawn[j]
  /\ UNCHANGED <<busy, failed, quit, outcome>>

Reject(j) ==
  /\ busy /\ j \in inflight
  /\ inflight' = inflight \ {j}
  /\ failed' = failed \union {j}
  /\ UNCHANGED <<busy, todo, harvested, quit, outcome>>

Quit ==
  /\ busy
  /\ quit' = TRUE
  /\ UNCHANGED <<busy, todo, inflight, harvested, failed, outcome>>

\* start() returns normally: everything was processed, unless stop() was called.
Return ==
  /\ busy /\ inflight = {}
  /\ quit \/ (todo = {} /\ failed = {})
  /\ busy' = FALSE
  /\ outcome' = <<"ok", NoJob>>
  /\ UNCHANGED <<todo, inflight, harvested, failed, quit>>

\* start() throws: the message is one of a harvest of this very start().
Throw ==
  /\ busy /\ inflight = {}
  /\ \E j \in failed : outcome' = <<"exn", j>>
  /\ busy' = FALSE
  /\ UNCHANGED <<todo, inflight, harvested, failed, quit>>

ANext ==
  \/ Supply \/ Refuse \/ Begin \/ Quit \/ Return \/ Throw
  \/ \E j \in Jobs : Take(j) \/ Collect(j) \/ Reject(j)

ASpec == AInit /\ [][ANext]_avars
=============================================================================
