----------------------------- MODULE JobSystem -----------------------------
(***************************************************************************)
(* The engine's worker pool: submit, parallelForPartitions, drain and      *)
(* shutdown of JobSystem, its worker loop, and the lock and the condition  *)
(* variables between them.                                                 *)
(*                                                                         *)
(* One owner thread uses the pool, as Game does.  A job computes something *)
(* (a mesh, a packet), calls parallelForPartitions itself, or is a helper  *)
(* of the owner's parallelForPartitions.  A thread that waits on a         *)
(* condition variable first tests its predicate with the lock held and     *)
(* then goes to sleep: two steps, between which threads that need no lock  *)
(* act.  The serial pool, which has no workers, is left out.               *)
(***************************************************************************)
EXTENDS Integers, Sequences, FiniteSets

CONSTANTS
  Workers,          \* the threads of workers_
  Main,             \* the owner thread
  NoThread,
  Kinds,            \* what the owner submits: "plain" jobs, or a "caller" of
                    \* parallelForPartitions
  Count, Grain,     \* the arguments of parallelForPartitions
  Throwing,         \* the partitions on which fn throws
  MaxJobs           \* bound: jobs submitted in a run

Threads == Workers \union {Main}
Jobs == 1..MaxJobs

\* Mutant of PartitionCount: rounded down.
PartitionCountFloor == Count \div Grain

PartitionCount == (Count + Grain - 1) \div Grain

Least(a, b) == IF a < b THEN a ELSE b
Partitions == 0..(PartitionCount - 1)

\* begin .. end - 1 of partition p.
Indices(p) == (p * Grain)..(Least(Count, (p + 1) * Grain) - 1)

ASSUME ThreadAssumption ==
  /\ IsFiniteSet(Workers) /\ Workers # {}
  /\ Main \notin Workers /\ NoThread \notin Threads
ASSUME CountAssumption == Count \in Nat \ {0} /\ Grain \in Nat \ {0}
ASSUME PartitionAssumption == PartitionCount \in Nat \ {0} /\ Throwing \subseteq Partitions
ASSUME JobAssumption == MaxJobs \in Nat /\ Kinds \subseteq {"plain", "caller"}

VARIABLES
  mutex,            \* the thread that holds mutex_, or NoThread
  queue,            \* queue_, as numbers of jobs
  stopping,
  active,
  submitted,
  jobs,             \* what was submitted, with the state of its future
  pc,               \* where a thread is
  job,              \* the job a worker has taken, or 0
  open,             \* the threads that are in a parallelForPartitions of theirs
  serving,          \* the caller whose partitions a thread computes
  part,             \* the partition a thread computes
  next,             \* the next partition of a call
  toSubmit,         \* helpers a call has still to submit
  helpers,          \* the futures of a call
  computed          \* how often fn returned for a partition of the present call

pool == <<mutex, queue, stopping, active, submitted, jobs>>
calls == <<open, serving, part, next, toSubmit, helpers, computed>>
vars == <<mutex, queue, stopping, active, submitted, jobs, pc, job,
          open, serving, part, next, toSubmit, helpers, computed>>

Job(k, t, f) == [kind |-> k, caller |-> t, future |-> f]
NoJob == Job("none", Main, "none")
Unfinished(t) == {i \in Jobs : jobs[i].kind = "helper" /\ jobs[i].caller = t /\ jobs[i].future = "pending"}

Init ==
  /\ mutex = NoThread
  /\ queue = <<>>
  /\ stopping = FALSE
  /\ active = 0
  /\ submitted = 0
  /\ jobs = [i \in Jobs |-> NoJob]
  /\ pc = [t \in Threads |-> IF t = Main THEN "idle" ELSE "look"]
  /\ job = [w \in Workers |-> 0]
  /\ open = {}
  /\ serving = [t \in Threads |-> t]
  /\ part = [t \in Threads |-> 0]
  /\ next = [t \in Threads |-> 0]
  /\ toSubmit = [t \in Threads |-> 0]
  /\ helpers = [t \in Threads |-> {}]
  /\ computed = [t \in Threads |-> [p \in Partitions |-> 0]]

Goes(t, l) == pc' = [pc EXCEPT ![t] = l]

(***************************************************************************)
(* submit                                                                  *)
(***************************************************************************)
\* Mutant of Push: the job is queued without the lock.
PushUnlocked(t, k) ==
  /\ ~stopping
  /\ submitted < MaxJobs
  /\ submitted' = submitted + 1
  /\ queue' = Append(queue, submitted + 1)
  /\ jobs' = [jobs EXCEPT ![submitted + 1] = Job(k, t, "pending")]
  /\ UNCHANGED <<mutex, stopping, active>>

\* The locked part of submit.  It throws when the pool is stopping, but then
\* the owner is in shutdown.
Push(t, k) ==
  /\ mutex = NoThread
  /\ ~stopping
  /\ submitted < MaxJobs
  /\ submitted' = submitted + 1
  /\ queue' = Append(queue, submitted + 1)
  /\ jobs' = [jobs EXCEPT ![submitted + 1] = Job(k, t, "pending")]
  /\ UNCHANGED <<mutex, stopping, active>>

Submit(k) ==
  /\ pc[Main] = "idle"
  /\ Push(Main, k)
  /\ Goes(Main, "notify")
  /\ UNCHANGED <<job, calls>>

\* cv_.notify_one and the return of submit.
Notify(t) ==
  /\ pc[t] = "notify"
  /\ LET on == IF t \notin open THEN "idle" ELSE IF toSubmit[t] = 0 THEN "loop" ELSE "submit"
         asleep == {w \in Workers : pc[w] = "asleep"}
     IN IF asleep = {}
          THEN Goes(t, on)
          ELSE \E w \in asleep : pc' = [pc EXCEPT ![t] = on, ![w] = "look"]
  /\ UNCHANGED <<pool, job, calls>>

(***************************************************************************)
(* parallelForPartitions                                                   *)
(***************************************************************************)
\* Mutant of Serial: a call from a worker is not recognised.
SerialNotNested(t) == Cardinality(Workers) <= 1 \/ PartitionCount <= 1

Serial(t) == Cardinality(Workers) <= 1 \/ t \in Workers \/ PartitionCount <= 1

\* Thread t calls parallelForPartitions.
Call(t) ==
  LET n == IF Serial(t) THEN 0 ELSE Least(Cardinality(Workers), PartitionCount) - 1
  IN /\ \/ t = Main /\ pc[t] = "idle"
        \/ t \in Workers /\ pc[t] = "run" /\ jobs[job[t]].kind = "caller"
     /\ submitted + n <= MaxJobs
     /\ open' = open \union {t}
     /\ serving' = [serving EXCEPT ![t] = t]
     /\ next' = [next EXCEPT ![t] = 0]
     /\ toSubmit' = [toSubmit EXCEPT ![t] = n]
     /\ helpers' = [helpers EXCEPT ![t] = {}]
     /\ computed' = [computed EXCEPT ![t] = [p \in Partitions |-> 0]]
     /\ Goes(t, IF n = 0 THEN "loop" ELSE "submit")
     /\ UNCHANGED <<pool, job, part>>

SubmitHelper(t) ==
  /\ pc[t] = "submit"
  /\ Push(t, "helper")
  /\ helpers' = [helpers EXCEPT ![t] = @ \union {submitted + 1}]
  /\ toSubmit' = [toSubmit EXCEPT ![t] = @ - 1]
  /\ Goes(t, "notify")
  /\ UNCHANGED <<job, open, serving, part, next, computed>>

\* The job of worker w ends with its future in state f.
Ends(w, f) == jobs' = [jobs EXCEPT ![job[w]].future = f] /\ Goes(w, "end")

\* A thread fetches the next partition, or leaves the loop.
Take(t) ==
  /\ pc[t] = "loop"
  /\ LET c == serving[t]
     IN /\ next' = [next EXCEPT ![c] = @ + 1]
        /\ IF next[c] < PartitionCount
             THEN /\ Goes(t, "fn") /\ part' = [part EXCEPT ![t] = next[c]]
                  /\ UNCHANGED jobs
             ELSE /\ IF t = c THEN Goes(t, "get") /\ UNCHANGED jobs ELSE Ends(t, "ready")
                  /\ UNCHANGED part
  /\ UNCHANGED <<mutex, queue, stopping, active, submitted, job, open, serving, toSubmit,
                 helpers, computed>>

\* fn returns.
Computes(t) ==
  /\ pc[t] = "fn"
  /\ part[t] \notin Throwing
  /\ computed' = [computed EXCEPT ![serving[t]][part[t]] = @ + 1]
  /\ part' = [part EXCEPT ![t] = 0]
  /\ Goes(t, "loop")
  /\ UNCHANGED <<pool, job, open, serving, next, toSubmit, helpers>>

\* An exception leaves the call of t: a packaged_task keeps it, and the owner
\* has it.  Helpers that still run use what is left of the call, which is
\* undefined in the code; here they find it as it was.
Unwinds(t) ==
  /\ open' = open \ {t}
  /\ IF t = Main THEN Goes(t, "idle") /\ UNCHANGED jobs ELSE Ends(t, "failed")

\* fn throws.
Throws(t) ==
  /\ pc[t] = "fn"
  /\ part[t] \in Throwing
  /\ IF t = serving[t] THEN Unwinds(t) ELSE Ends(t, "failed") /\ UNCHANGED open
  /\ UNCHANGED <<mutex, queue, stopping, active, submitted, job, serving, part, next,
                 toSubmit, helpers, computed>>

\* Mutant of AllGot: the helpers are not waited for.
AllGotEarly(t) == TRUE

AllGot(t) == helpers[t] = {}

HasValue(i) == jobs[i].future = "ready"

\* f.get() for the first of the remaining futures.
Get(t) ==
  /\ pc[t] = "get"
  /\ \E i \in helpers[t] :
       /\ \A h \in helpers[t] : i <= h
       /\ \/ /\ HasValue(i)
             /\ helpers' = [helpers EXCEPT ![t] = @ \ {i}]
             /\ UNCHANGED <<jobs, pc, open>>
          \/ /\ jobs[i].future \in {"failed", "broken"}
             /\ Unwinds(t)
             /\ UNCHANGED helpers
  /\ UNCHANGED <<mutex, queue, stopping, active, submitted, job, serving, part, next,
                 toSubmit, computed>>

\* All futures are got: parallelForPartitions returns.
Returns(t) ==
  /\ pc[t] = "get"
  /\ AllGot(t)
  /\ open' = open \ {t}
  /\ Goes(t, "returned")
  /\ UNCHANGED <<pool, job, serving, part, next, toSubmit, helpers, computed>>

\* What called it goes on, and the variables of the call are gone.
Leave(t) ==
  /\ pc[t] = "returned"
  /\ IF t = Main THEN Goes(t, "idle") /\ UNCHANGED jobs ELSE Ends(t, "ready")
  /\ next' = [next EXCEPT ![t] = 0]
  /\ computed' = [computed EXCEPT ![t] = [p \in Partitions |-> 0]]
  /\ UNCHANGED <<mutex, queue, stopping, active, submitted, job, open, serving, part,
                 toSubmit, helpers>>

(***************************************************************************)
(* drain and shutdown                                                      *)
(***************************************************************************)
\* drain tests its predicate with the lock held ...
Drain ==
  /\ pc[Main] \in {"idle", "drain"}
  /\ mutex = NoThread
  /\ IF queue = <<>> /\ active = 0
       THEN Goes(Main, "idle") /\ UNCHANGED mutex
       ELSE Goes(Main, "drain_block") /\ mutex' = Main
  /\ UNCHANGED <<queue, stopping, active, submitted, jobs, job, calls>>

\* ... and goes to sleep.
DrainBlocks ==
  /\ pc[Main] = "drain_block"
  /\ mutex' = NoThread
  /\ Goes(Main, "drain_asleep")
  /\ UNCHANGED <<queue, stopping, active, submitted, jobs, job, calls>>

Shutdown(drainPending) ==
  /\ pc[Main] = "idle"
  /\ stopping' = TRUE
  /\ Goes(Main, IF drainPending THEN "wake" ELSE "clear")
  /\ UNCHANGED <<mutex, queue, active, submitted, jobs, job, calls>>

\* The queued jobs are destroyed, and their promises broken.
ClearQueue ==
  /\ pc[Main] = "clear"
  /\ mutex = NoThread
  /\ queue' = <<>>
  /\ jobs' = [i \in Jobs |-> IF \E n \in 1..Len(queue) : queue[n] = i
                             THEN [jobs[i] EXCEPT !.future = "broken"] ELSE jobs[i]]
  /\ Goes(Main, "wake")
  /\ UNCHANGED <<mutex, stopping, active, submitted, job, calls>>

\* cv_.notify_all
WakeAll ==
  /\ pc[Main] = "wake"
  /\ pc' = [t \in Threads |-> IF t = Main THEN "join"
                              ELSE IF pc[t] = "asleep" THEN "look" ELSE pc[t]]
  /\ UNCHANGED <<pool, job, calls>>

Join ==
  /\ pc[Main] = "join"
  /\ \A w \in Workers : pc[w] = "exited"
  /\ Goes(Main, "stopped")
  /\ UNCHANGED <<pool, job, calls>>

(***************************************************************************)
(* workerLoop                                                              *)
(***************************************************************************)
\* Mutant of MayExit: a stopping pool leaves its queue.
MayExitEarly == stopping

MayExit == queue = <<>> /\ stopping

\* A worker takes the lock and tests the predicate of cv_.wait.
Look(w) ==
  /\ pc[w] = "look"
  /\ mutex = NoThread
  /\ IF MayExit
       THEN Goes(w, "exited") /\ UNCHANGED <<mutex, queue, job>>
     ELSE IF queue # <<>>
       THEN /\ job' = [job EXCEPT ![w] = Head(queue)]
            /\ queue' = Tail(queue)
            /\ Goes(w, "begin")
            /\ UNCHANGED mutex
     ELSE Goes(w, "block") /\ mutex' = w /\ UNCHANGED <<queue, job>>
  /\ UNCHANGED <<stopping, active, submitted, jobs, calls>>

Blocks(w) ==
  /\ pc[w] = "block"
  /\ mutex' = NoThread
  /\ Goes(w, "asleep")
  /\ UNCHANGED <<queue, stopping, active, submitted, jobs, job, calls>>

\* Condition variables may wake spuriously.
Spurious(t) ==
  /\ pc[t] \in {"asleep", "drain_asleep"}
  /\ Goes(t, IF t = Main THEN "drain" ELSE "look")
  /\ UNCHANGED <<pool, job, calls>>

Begin(w) ==
  /\ pc[w] = "begin"
  /\ active' = active + 1
  /\ LET helping == jobs[job[w]].kind = "helper"
     IN /\ Goes(w, IF helping THEN "loop" ELSE "run")
        /\ serving' = IF helping THEN [serving EXCEPT ![w] = jobs[job[w]].caller] ELSE serving
  /\ UNCHANGED <<mutex, queue, stopping, submitted, jobs, job, open, part, next, toSubmit,
                 helpers, computed>>

\* A job that calls nothing.
Run(w) ==
  /\ pc[w] = "run"
  /\ jobs[job[w]].kind = "plain"
  /\ Ends(w, "ready")
  /\ UNCHANGED <<mutex, queue, stopping, active, submitted, job, calls>>

\* Mutant of ActiveAfter: the job stays active.
ActiveAfterEnd == active

ActiveAfter == active - 1

\* The end of the queued function, with drainCv_.notify_all.
End(w) ==
  /\ pc[w] = "end"
  /\ active' = ActiveAfter
  /\ job' = [job EXCEPT ![w] = 0]
  /\ serving' = [serving EXCEPT ![w] = w]
  /\ pc' = [pc EXCEPT ![w] = "look",
                      ![Main] = IF @ = "drain_asleep" THEN "drain" ELSE @]
  /\ UNCHANGED <<mutex, queue, stopping, submitted, jobs, open, part, next, toSubmit, helpers,
                 computed>>

Worker(w) == Look(w) \/ Blocks(w) \/ Begin(w) \/ Run(w) \/ End(w)

\* What a thread does in submit and parallelForPartitions.
Proceeds(t) ==
  Notify(t) \/ SubmitHelper(t) \/ Take(t) \/ Computes(t) \/ Throws(t) \/ Get(t) \/ Returns(t) \/ Leave(t)

\* What the owner decides to do, and what follows.
Starts == (\E k \in Kinds : Submit(k)) \/ \E d \in BOOLEAN : Shutdown(d)
Owner == Drain \/ DrainBlocks \/ ClearQueue \/ WakeAll \/ Join
Caller(t) == Call(t) \/ Proceeds(t)

Next ==
  \/ Starts \/ Owner
  \/ \E t \in Threads : Caller(t)
  \/ \E w \in Workers : Worker(w)

SpuriousNext == Next \/ \E t \in Threads : Spurious(t)

(***************************************************************************)
(* Every thread runs, fn returns, and a free lock is taken by a thread     *)
(* that waits for it.  The owner need not start anything.                  *)
(***************************************************************************)
Fairness ==
  /\ WF_vars(Proceeds(Main) \/ DrainBlocks \/ ClearQueue \/ WakeAll \/ Join \/ (Drain /\ pc[Main] = "drain"))
  /\ \A w \in Workers : WF_vars(Worker(w) \/ Caller(w))

Spec == Init /\ [][Next]_vars /\ Fairness

\* The same with spurious wake-ups.
SpuriousSpec == Init /\ [][SpuriousNext]_vars

(***************************************************************************)
(* Properties                                                              *)
(***************************************************************************)
Labels == {"idle", "notify", "submit", "loop", "fn", "get", "returned", "drain", "drain_block",
           "drain_asleep", "clear", "wake", "join", "stopped",
           "look", "block", "asleep", "begin", "run", "end", "exited"}
Records == [kind : {"none", "plain", "caller", "helper"}, caller : Threads,
            future : {"none", "pending", "ready", "failed", "broken"}]

\* The types of the pool; no more jobs are active than there are workers.
TypeOK ==
  /\ mutex \in Threads \union {NoThread}
  /\ queue \in Seq(Jobs)
  /\ stopping \in BOOLEAN
  /\ active \in 0..Cardinality(Workers)
  /\ submitted \in 0..MaxJobs
  /\ jobs \in [Jobs -> Records]
  /\ pc \in [Threads -> Labels]
  /\ job \in [Workers -> Jobs \union {0}]
  /\ open \subseteq Threads
  /\ serving \in [Threads -> Threads]
  /\ part \in [Threads -> Partitions \union {0}]
  /\ next \in [Threads -> Nat]
  /\ toSubmit \in [Threads -> Nat]
  /\ helpers \in [Threads -> SUBSET Jobs]
  /\ computed \in [Threads -> [Partitions -> Nat]]

\* README: a "synchronous parallelFor() helper".  No helper outlives the call
\* whose variables it refers to.
Synchronous == \A t \in Threads \ open : Unfinished(t) = {}

\* parallelForPartitions' comment: "Partition boundaries and indices depend
\* only on count/grain, never worker count."  When it returns, every index
\* has been computed once, whichever threads took the partitions.
EachIndexOnce ==
  \A t \in Threads : pc[t] = "returned" =>
    \A i \in 0..(Count - 1) : \E p \in Partitions :
      /\ computed[t][p] = 1
      /\ {q \in Partitions : computed[t][q] > 0 /\ i \in Indices(q)} = {p}

\* The worker that has taken job i and not finished it.
Runs(w, i) == job[w] = i /\ pc[w] \notin {"look", "block", "asleep", "exited", "end"}

\* submit pushes with the lock held and notifies after it: a wake-up that finds
\* nobody asleep is lost, and rightly so.  While a worker sleeps, each queued
\* job has a thread that is about to look for it or about to wake one.
NoLostWakeup ==
  (\E w \in Workers : pc[w] = "asleep") =>
    Len(queue) <= Cardinality({w \in Workers : pc[w] = "look"})
                    + Cardinality({t \in Threads : pc[t] = "notify"})

\* A job whose future is pending is being run, or is in the queue of a pool with
\* a worker left to take it: shutdown(true) abandons none, whatever fn throws.
NoJobLost ==
  \A i \in Jobs : jobs[i].future = "pending" =>
    \/ \E w \in Workers : Runs(w, i)
    \/ /\ \E n \in 1..Len(queue) : queue[n] = i
       /\ \E w \in Workers : pc[w] # "exited"

\* shutdown joins its workers: when it has returned, every future is settled,
\* by its job or by the broken promise of a dropped one.
ShutdownSettles == pc[Main] = "stopped" => \A i \in Jobs : jobs[i].future # "pending"

\* README: "nested calls made from an existing worker fall back to serial
\* execution so a bounded pool cannot deadlock waiting on itself."
CallsReturn == \A t \in Threads : t \in open ~> t \notin open

\* No submitted job is forgotten: its future gets a value, an exception, or
\* the broken promise of a shutdown that drops the queue.
FuturesResolve == \A i \in Jobs : jobs[i].future = "pending" ~> jobs[i].future # "pending"

\* testJobSystem destroys its pools and goes on: the destructor's
\* shutdown(true) returns.
ShutdownReturns == stopping ~> pc[Main] = "stopped"

(***************************************************************************)
(* The inductive invariant behind Synchronous and EachIndexOnce, for an fn *)
(* that does not throw.                                                    *)
(***************************************************************************)
Free == {"look", "block", "asleep", "exited"}
Busy == {"run", "loop", "fn", "get", "returned", "end"}
AtRest == {"idle", "drain", "drain_block", "drain_asleep", "clear", "wake", "join", "stopped"}
Holders == {w \in Workers : pc[w] \notin Free}

\* Workers do not submit; the owner does not look for jobs.
PlacesOK ==
  /\ \A w \in Workers : pc[w] \in Free \union Busy \union {"begin"}
  /\ pc[Main] \in AtRest \union {"notify", "submit", "loop", "fn", "get", "returned"}

ActiveCounted == active = Cardinality({w \in Workers : pc[w] \in Busy})

\* Jobs are numbered in the order of submission.
Numbered ==
  \A i \in Jobs : /\ i > submitted => jobs[i] = NoJob
                  /\ i <= submitted => jobs[i].kind # "none"

\* The queue holds pending jobs in that order, all of them later than those
\* the workers hold ...
QueueOrdered ==
  \A n \in 1..Len(queue) :
    /\ queue[n] <= submitted /\ jobs[queue[n]].future = "pending"
    /\ \A m \in 1..Len(queue) : m < n => queue[m] < queue[n]
    /\ \A w \in Holders : job[w] < queue[n]

\* ... which are all different.
HeldApart ==
  \A w \in Holders :
    /\ job[w] \in Jobs /\ job[w] <= submitted
    /\ pc[w] # "end" => jobs[job[w]].future = "pending"
    /\ \A v \in Holders \ {w} : job[v] # job[w]

\* A helper that is not finished belongs to the open call of the owner, which
\* has its future; none fails, and none is dropped.
HelpersHeld ==
  /\ \A i \in Jobs : jobs[i].kind = "helper" =>
       /\ jobs[i].caller = Main
       /\ jobs[i].future \in {"pending", "ready"}
       /\ jobs[i].future = "pending" => Main \in open /\ i \in helpers[Main]
  /\ \A i \in helpers[Main] : jobs[i].kind = "helper"

\* Who is in a call of its own ...
CallsOK ==
  /\ \A t \in open : pc[t] \in {"notify", "submit", "loop", "fn", "get"} /\ serving[t] = t
  /\ \A t \in Threads : pc[t] \in {"submit", "get"} => t \in open
  /\ pc[Main] = "submit" => toSubmit[Main] > 0
  /\ \A w \in Workers : toSubmit[w] = 0 /\ helpers[w] = {}

\* ... and whom the others serve.
HelpersServe ==
  /\ \A t \in Threads : pc[t] \in {"loop", "fn"} =>
       \/ t \in open
       \/ t \in Workers /\ jobs[job[t]].kind = "helper" /\ serving[t] = Main
  /\ \A w \in Holders : jobs[job[w]].kind = "helper" => w \notin open /\ pc[w] \notin {"run", "returned"}

InFn(s, c, p) == pc[s] = "fn" /\ serving[s] = c /\ part[s] = p

\* Every partition that was taken is computed or is being computed, by one
\* thread; the others are neither.
PartitionsShared ==
  \A c \in open, p \in Partitions :
    /\ p >= next[c] => computed[c][p] = 0 /\ \A s \in Threads : ~InFn(s, c, p)
    /\ p < next[c] => \/ computed[c][p] = 1 /\ \A s \in Threads : ~InFn(s, c, p)
                      \/ computed[c][p] = 0 /\ \E s \in Threads : InFn(s, c, p)
    /\ \A s, u \in Threads : InFn(s, c, p) /\ InFn(u, c, p) => s = u

PartitionsDone ==
  \A t \in Threads :
    /\ pc[t] = "fn" => part[t] \in Partitions
    /\ pc[t] = "get" => next[t] >= PartitionCount
    /\ pc[t] = "returned" => \A p \in Partitions : computed[t][p] = 1

IInv ==
  /\ TypeOK
  /\ PlacesOK
  /\ ActiveCounted
  /\ Numbered
  /\ QueueOrdered
  /\ HeldApart
  /\ HelpersHeld
  /\ CallsOK
  /\ HelpersServe
  /\ PartitionsShared
  /\ PartitionsDone

(***************************************************************************)
(* The inductive invariant behind NoLostWakeup and NoJobLost, whatever fn  *)
(* throws.                                                                 *)
(***************************************************************************)

\* Who tests a predicate or is about to sleep holds the lock, so that nobody
\* submits in between.
LockHeld ==
  /\ \A w \in Workers : pc[w] = "block" => mutex = w /\ queue = <<>>
  /\ pc[Main] = "drain_block" => mutex = Main

\* A worker leaves a pool that takes no more jobs and has none.
ExitsLast == \A w \in Workers : pc[w] = "exited" => stopping /\ queue = <<>>

QueueInv ==
  /\ TypeOK
  /\ PlacesOK
  /\ ActiveCounted
  /\ \A w \in Holders : job[w] \in Jobs
  /\ pc[Main] = "submit" => toSubmit[Main] > 0
  /\ serving[Main] = Main
  /\ LockHeld
  /\ ExitsLast
  /\ NoLostWakeup
  /\ NoJobLost

=============================================================================
