-------------------------- MODULE JobSystemProofs --------------------------
(***************************************************************************)
(* Theorems about JobSystem, for any number of workers, jobs, indices and  *)
(* any grain, with spurious wake-ups, and an fn that does not throw.       *)
(***************************************************************************)
EXTENDS JobSystem, FiniteSetTheorems, TLAPS

(***************************************************************************)
(* What the pieces of a step do                                            *)
(***************************************************************************)

\* The threads are the workers and the owner.
LEMMA ThreadsAre == Threads = Workers \union {Main} /\ Main \notin Workers
BY ThreadAssumption DEF Threads

\* The partitions are numbered from 0, and there is at least one.
LEMMA PartitionsAre ==
  /\ PartitionCount \in Nat /\ PartitionCount > 0
  /\ \A p : p \in Partitions <=> p \in Nat /\ p < PartitionCount
BY PartitionAssumption DEF Partitions

\* Only the thread that acts moves.
LEMMA GoesTo ==
  ASSUME TypeOK, NEW t \in Threads, NEW l \in Labels, Goes(t, l)
  PROVE  /\ pc'[t] = l
         /\ \A s \in Threads \ {t} : pc'[s] = pc[s]
         /\ pc' \in [Threads -> Labels]
BY DEF Goes, TypeOK

\* A submitted job is the last of the queue and the highest number.
LEMMA Pushed ==
  ASSUME TypeOK, NEW t \in Threads, NEW k \in {"plain", "caller", "helper"}, Push(t, k)
  PROVE  /\ ~stopping /\ UNCHANGED <<mutex, stopping, active>>
         /\ submitted' = submitted + 1 /\ submitted' \in Jobs /\ submitted' \in 0..MaxJobs
         /\ queue' \in Seq(Jobs) /\ Len(queue') = Len(queue) + 1
         /\ queue'[Len(queue) + 1] = submitted + 1
         /\ \A n \in 1..Len(queue) : queue'[n] = queue[n]
         /\ jobs' \in [Jobs -> Records]
         /\ jobs'[submitted + 1].kind = k /\ jobs'[submitted + 1].caller = t
         /\ jobs'[submitted + 1].future = "pending"
         /\ \A i \in Jobs \ {submitted + 1} : jobs'[i] = jobs[i]
<1> USE JobAssumption
<1>1. submitted' = submitted + 1 /\ submitted' \in Jobs /\ submitted' \in 0..MaxJobs
  BY DEF Push, TypeOK, Jobs
<1>2. /\ queue' \in Seq(Jobs) /\ Len(queue') = Len(queue) + 1
      /\ queue'[Len(queue) + 1] = submitted + 1
      /\ \A n \in 1..Len(queue) : queue'[n] = queue[n]
  BY <1>1 DEF Push, TypeOK
<1>3. Job(k, t, "pending") \in Records
  BY DEF Job, Records
<1>4. jobs' \in [Jobs -> Records] /\ jobs'[submitted + 1] = Job(k, t, "pending")
      /\ \A i \in Jobs \ {submitted + 1} : jobs'[i] = jobs[i]
  BY <1>1, <1>3 DEF Push, TypeOK
<1> QED
  BY <1>1, <1>2, <1>4 DEF Push, Job

\* A job that ends keeps its kind and its caller.
LEMMA JobEnds ==
  ASSUME TypeOK, NEW w \in Workers, job[w] \in Jobs,
         NEW f \in {"ready", "failed"}, Ends(w, f)
  PROVE  /\ jobs' \in [Jobs -> Records]
         /\ jobs'[job[w]].future = f
         /\ jobs'[job[w]].kind = jobs[job[w]].kind /\ jobs'[job[w]].caller = jobs[job[w]].caller
         /\ \A i \in Jobs \ {job[w]} : jobs'[i] = jobs[i]
         /\ pc'[w] = "end"
         /\ \A s \in Threads \ {w} : pc'[s] = pc[s]
         /\ pc' \in [Threads -> Labels]
<1>1. jobs' = [jobs EXCEPT ![job[w]].future = f] /\ jobs \in [Jobs -> Records]
  BY DEF Ends, TypeOK
<1>2. jobs[job[w]] \in Records
  BY <1>1
<1>3. /\ [jobs[job[w]] EXCEPT !.future = f] \in Records
      /\ [jobs[job[w]] EXCEPT !.future = f].future = f
      /\ [jobs[job[w]] EXCEPT !.future = f].kind = jobs[job[w]].kind
      /\ [jobs[job[w]] EXCEPT !.future = f].caller = jobs[job[w]].caller
  BY <1>2 DEF Records
<1>4. /\ jobs'[job[w]] = [jobs[job[w]] EXCEPT !.future = f]
      /\ \A i \in Jobs \ {job[w]} : jobs'[i] = jobs[i]
      /\ jobs' = [i \in Jobs |-> jobs'[i]]
  BY <1>1
<1>5. jobs' \in [Jobs -> Records]
  BY <1>1, <1>3, <1>4
<1>6. w \in Threads /\ "end" \in Labels /\ Goes(w, "end")
  BY ThreadsAre DEF Labels, Ends
<1> QED
  BY <1>3, <1>4, <1>5, <1>6, GoesTo

\* A worker that holds a job.
LEMMA Holds ==
  ASSUME IInv, NEW w \in Workers, pc[w] \notin Free
  PROVE  w \in Holders /\ job[w] \in Jobs /\ job[w] <= submitted
BY DEF IInv, HeldApart, Holders

\* A thread computes partitions of its own call or, as a helper, of the
\* owner's.
LEMMA Serves ==
  ASSUME IInv, NEW t \in Threads, pc[t] \in {"loop", "fn"}
  PROVE  /\ serving[t] \in open
         /\ \/ t \in open /\ serving[t] = t
            \/ /\ t \in Workers /\ t \notin open /\ t # serving[t] /\ serving[t] = Main
               /\ job[t] \in Jobs /\ jobs[job[t]].kind = "helper" /\ jobs[job[t]].future = "pending"
<1>1. CASE t \in open
  BY <1>1 DEF IInv, CallsOK
<1>2. CASE t \notin open
  <2>1. t \in Workers /\ jobs[job[t]].kind = "helper" /\ serving[t] = Main /\ t # Main
    BY <1>2, ThreadsAre DEF IInv, HelpersServe
  <2>2. t \in Holders /\ job[t] \in Jobs /\ jobs[job[t]].future = "pending"
    BY <2>1, Holds DEF IInv, HeldApart, Free
  <2>3. Main \in open
    BY <2>1, <2>2 DEF IInv, HelpersHeld
  <2> QED BY <1>2, <2>1, <2>2, <2>3
<1> QED BY <1>1, <1>2

\* A step in which threads sleep, wake or rest, and nothing else happens.
LEMMA QuietStep ==
  ASSUME IInv, UNCHANGED <<queue, active, submitted, jobs, job, calls>>,
         mutex' \in Threads \union {NoThread}, stopping' \in BOOLEAN,
         pc' \in [Threads -> Labels],
         \A w \in Workers : pc'[w] = pc[w] \/ (pc[w] \in Free /\ pc'[w] \in Free),
         pc'[Main] = pc[Main] \/ (pc[Main] \in AtRest /\ pc'[Main] \in AtRest)
  PROVE  IInv'
<1> USE ThreadsAre DEF calls
<1>1. TypeOK'
  BY DEF IInv, TypeOK
<1>2. PlacesOK'
  BY DEF IInv, PlacesOK
<1>3. {w \in Workers : pc'[w] \in Busy} = {w \in Workers : pc[w] \in Busy} /\ Holders' = Holders
  BY DEF Busy, Free, Holders
<1>4. ActiveCounted'
  BY <1>3 DEF IInv, ActiveCounted
<1>5. Numbered' /\ QueueOrdered'
  BY <1>3 DEF IInv, Numbered, QueueOrdered
<1>6. HeldApart'
  BY <1>3 DEF IInv, HeldApart, Free, Holders
<1>7. HelpersHeld'
  BY DEF IInv, HelpersHeld
<1>8. CallsOK'
  <2>1. \A t \in Threads : \/ pc'[t] = pc[t]
                           \/ pc[t] \in Free \union AtRest /\ pc'[t] \in Free \union AtRest
    OBVIOUS
  <2>2. \A t \in open : pc[t] \notin Free \union AtRest
    BY DEF IInv, CallsOK, Free, AtRest
  <2>3. \A t \in open : t \in Threads
    BY DEF IInv, TypeOK
  <2>4. \A t \in open : pc'[t] = pc[t]
    BY <2>1, <2>2, <2>3
  <2>5. \A t \in Threads : pc'[t] \in {"submit", "get"} => pc[t] = pc'[t]
    BY <2>1 DEF Free, AtRest
  <2> QED BY <2>4, <2>5 DEF IInv, CallsOK
<1>9. HelpersServe'
  <2>1. \A t \in Threads : pc'[t] \in {"loop", "fn"} => pc[t] = pc'[t]
    BY DEF Free, AtRest
  <2>2. \A w \in Workers : pc'[w] \in {"run", "returned"} => pc[w] = pc'[w]
    BY DEF Free
  <2>3. \A t \in Threads : pc'[t] \in {"loop", "fn"} =>
          \/ t \in open'
          \/ t \in Workers /\ jobs'[job'[t]].kind = "helper" /\ serving'[t] = Main
    BY <2>1 DEF IInv, HelpersServe
  <2>4. \A w \in Holders' : jobs'[job'[w]].kind = "helper" => w \notin open' /\ pc'[w] \notin {"run", "returned"}
    BY <1>3, <2>2 DEF IInv, HelpersServe, Holders
  <2> QED BY <2>3, <2>4 DEF HelpersServe
<1>10. \A s \in Threads, c \in open, p \in Partitions : InFn(s, c, p)' <=> InFn(s, c, p)
  BY DEF InFn, Free, AtRest
<1>11. PartitionsShared'
  BY <1>10 DEF IInv, PartitionsShared
<1>12. PartitionsDone'
  BY DEF IInv, PartitionsDone, Free, AtRest
<1> QED
  BY <1>1, <1>2, <1>4, <1>5, <1>6, <1>7, <1>8, <1>9, <1>11, <1>12 DEF IInv

\* drain, shutdown, join and sleep.
LEMMA DrainInv ==
  ASSUME IInv, Drain \/ DrainBlocks
  PROVE  IInv'
<1> USE ThreadsAre
<1>1. UNCHANGED <<queue, active, submitted, jobs, job, calls, stopping>>
  BY DEF Drain, DrainBlocks
<1>2. PICK l \in {"idle", "drain_block", "drain_asleep"} : Goes(Main, l) /\ pc[Main] \in AtRest
  BY DEF Drain, DrainBlocks, AtRest
<1>3. l \in Labels /\ l \in AtRest
  BY DEF Labels, AtRest
<1>4. mutex' \in Threads \union {NoThread}
  BY DEF Drain, DrainBlocks, IInv, TypeOK
<1>5. stopping' \in BOOLEAN
  BY <1>1 DEF IInv, TypeOK
<1> QED
  BY <1>1, <1>2, <1>3, <1>4, <1>5, GoesTo, QuietStep DEF IInv

\* Shutting down, waking and joining touch neither jobs nor calls.
LEMMA ShutdownInv ==
  ASSUME IInv, (\E d \in BOOLEAN : Shutdown(d)) \/ WakeAll \/ Join
  PROVE  IInv'
<1> USE ThreadsAre
<1>1. UNCHANGED <<mutex, queue, active, submitted, jobs, job, calls>>
  BY DEF Shutdown, WakeAll, Join, pool
<1>2. stopping' \in BOOLEAN /\ mutex' \in Threads \union {NoThread}
  BY <1>1 DEF Shutdown, WakeAll, Join, pool, IInv, TypeOK
<1>3. /\ pc[Main] \in AtRest /\ pc'[Main] \in AtRest /\ pc' \in [Threads -> Labels]
      /\ \A w \in Workers : pc'[w] = pc[w] \/ (pc[w] \in Free /\ pc'[w] \in Free)
  <2>1. CASE \E d \in BOOLEAN : Shutdown(d)
    <3>1. PICK l \in {"wake", "clear"} : pc[Main] = "idle" /\ Goes(Main, l)
      BY <2>1 DEF Shutdown
    <3>2. l \in Labels /\ l \in AtRest /\ pc[Main] \in AtRest
      BY <3>1 DEF Labels, AtRest
    <3> QED BY <3>1, <3>2, GoesTo DEF IInv
  <2>2. CASE WakeAll
    BY <2>2 DEF WakeAll, IInv, TypeOK, Labels, AtRest, Free
  <2>3. CASE Join
    <3>1. pc[Main] = "join" /\ Goes(Main, "stopped")
      BY <2>3 DEF Join
    <3>2. "stopped" \in Labels /\ "stopped" \in AtRest /\ pc[Main] \in AtRest
      BY <3>1 DEF Labels, AtRest
    <3> QED BY <3>1, <3>2, GoesTo DEF IInv
  <2> QED BY <2>1, <2>2, <2>3
<1> QED
  BY <1>1, <1>2, <1>3, QuietStep

\* Going to sleep and waking up touch neither jobs nor calls.
LEMMA SleepInv ==
  ASSUME IInv, (\E w \in Workers : Blocks(w)) \/ (\E t \in Threads : Spurious(t))
  PROVE  IInv'
<1> USE ThreadsAre
<1>1. UNCHANGED <<stopping, queue, active, submitted, jobs, job, calls>>
  BY DEF Blocks, Spurious, pool
<1>2. stopping' \in BOOLEAN /\ mutex' \in Threads \union {NoThread}
  BY <1>1 DEF Blocks, Spurious, pool, IInv, TypeOK
<1>3. CASE \E w \in Workers : Blocks(w)
  <2>1. PICK w \in Workers : pc[w] = "block" /\ Goes(w, "asleep")
    BY <1>3 DEF Blocks
  <2>2. "asleep" \in Labels /\ "asleep" \in Free /\ pc[w] \in Free
    BY <2>1 DEF Labels, Free
  <2> QED BY <1>1, <1>2, <2>1, <2>2, GoesTo, QuietStep DEF IInv
<1>4. CASE \E t \in Threads : Spurious(t)
  <2>1. PICK t \in Threads : pc[t] \in {"asleep", "drain_asleep"} /\ Goes(t, IF t = Main THEN "drain" ELSE "look")
    BY <1>4 DEF Spurious
  <2>2. CASE t = Main
    <3>1. Goes(Main, "drain") /\ "drain" \in Labels /\ "drain" \in AtRest /\ pc[Main] \in AtRest
      BY <2>1, <2>2 DEF Labels, AtRest, IInv, PlacesOK
    <3> QED BY <1>1, <1>2, <3>1, GoesTo, QuietStep DEF IInv
  <2>3. CASE t # Main
    <3>1. t \in Workers /\ Goes(t, "look") /\ "look" \in Labels /\ "look" \in Free /\ pc[t] \in Free
      BY <2>1, <2>3 DEF Labels, Free, Busy, IInv, PlacesOK
    <3> QED BY <1>1, <1>2, <3>1, GoesTo, QuietStep DEF IInv
  <2> QED BY <2>2, <2>3
<1> QED
  BY <1>3, <1>4

(***************************************************************************)
(* The queue and the jobs                                                  *)
(***************************************************************************)
JobsOK == Numbered /\ QueueOrdered /\ HeldApart

\* The job of a worker is not the one being submitted.
LEMMA PushJobs ==
  ASSUME IInv, NEW t \in Threads, NEW k \in {"plain", "caller", "helper"}, Push(t, k),
         UNCHANGED job, \A w \in Workers : pc'[w] = pc[w]
  PROVE  /\ JobsOK' /\ Holders' = Holders
         /\ \A w \in Holders : jobs'[job[w]] = jobs[job[w]]
<1> USE JobAssumption
<1>1. /\ submitted' = submitted + 1 /\ submitted' \in Jobs /\ submitted \in Nat
      /\ queue \in Seq(Jobs) /\ Len(queue) \in Nat
      /\ Len(queue') = Len(queue) + 1 /\ queue'[Len(queue) + 1] = submitted + 1
      /\ \A n \in 1..Len(queue) : queue'[n] = queue[n] /\ queue[n] \in Jobs
      /\ jobs'[submitted + 1].kind = k /\ jobs'[submitted + 1].future = "pending"
      /\ \A i \in Jobs \ {submitted + 1} : jobs'[i] = jobs[i]
  BY Pushed DEF IInv, TypeOK
<1>2. Holders' = Holders
  BY DEF Holders
<1>3. Numbered'
  <2> SUFFICES ASSUME NEW i \in Jobs
               PROVE  (i > submitted' => jobs'[i] = NoJob) /\ (i <= submitted' => jobs'[i].kind # "none")
    BY DEF Numbered, NoJob, Job
  <2>1. CASE i = submitted + 1
    BY <2>1, <1>1
  <2>2. CASE i # submitted + 1
    BY <2>2, <1>1 DEF IInv, Numbered, Jobs
  <2> QED BY <2>1, <2>2
<1>4. \A w \in Holders : job[w] \in Jobs /\ job[w] < submitted + 1 /\ jobs'[job[w]] = jobs[job[w]]
  BY <1>1 DEF IInv, HeldApart, Jobs
<1>5. \A n \in 1..Len(queue) : queue[n] < submitted + 1 /\ jobs'[queue[n]] = jobs[queue[n]]
  BY <1>1 DEF IInv, QueueOrdered, Jobs
<1>6. QueueOrdered'
  <2> SUFFICES ASSUME NEW n \in 1..Len(queue')
               PROVE  /\ queue'[n] <= submitted' /\ jobs'[queue'[n]].future = "pending"
                      /\ \A m \in 1..Len(queue') : m < n => queue'[m] < queue'[n]
                      /\ \A w \in Holders : job[w] < queue'[n]
    BY <1>2 DEF QueueOrdered
  <2>1. CASE n = Len(queue) + 1
    BY <2>1, <1>1, <1>4, <1>5
  <2>2. CASE n \in 1..Len(queue)
    <3>1. queue[n] <= submitted /\ jobs[queue[n]].future = "pending"
          /\ (\A m \in 1..Len(queue) : m < n => queue[m] < queue[n])
          /\ (\A w \in Holders : job[w] < queue[n])
      BY <2>2 DEF IInv, QueueOrdered
    <3>2. queue[n] \in Jobs /\ queue[n] <= submitted'
      BY <3>1, <2>2, <1>1 DEF Jobs
    <3>3. \A m \in 1..Len(queue') : m < n => m \in 1..Len(queue)
      BY <2>2, <1>1
    <3> QED BY <2>2, <3>1, <3>2, <3>3, <1>1, <1>5
  <2> QED BY <2>1, <2>2, <1>1
<1>7. HeldApart'
  <2> SUFFICES ASSUME NEW w \in Holders
               PROVE  /\ job[w] \in Jobs /\ job[w] <= submitted'
                      /\ pc[w] # "end" => jobs'[job[w]].future = "pending"
                      /\ \A v \in Holders \ {w} : job[v] # job[w]
    BY <1>2 DEF HeldApart, Holders
  <2>1. /\ job[w] \in Jobs /\ job[w] <= submitted
        /\ pc[w] # "end" => jobs[job[w]].future = "pending"
        /\ \A v \in Holders \ {w} : job[v] # job[w]
    BY DEF IInv, HeldApart
  <2> QED BY <2>1, <1>1, <1>4 DEF Jobs
<1> QED
  BY <1>2, <1>3, <1>4, <1>6, <1>7 DEF JobsOK

\* Threads move, and no job does.
LEMMA SameJobs ==
  ASSUME IInv, UNCHANGED <<queue, submitted, jobs, job>>,
         \A w \in Workers : \/ pc'[w] = pc[w]
                            \/ pc[w] \in Free /\ pc'[w] \in Free
                            \/ pc[w] \notin Free \union {"end"} /\ pc'[w] \notin Free
  PROVE  JobsOK' /\ Holders' = Holders
<1>1. Holders' = Holders
  BY DEF Holders
<1>2. \A w \in Holders : pc'[w] # "end" => pc[w] # "end"
  BY DEF Holders
<1>3. HeldApart'
  BY <1>1, <1>2 DEF IInv, HeldApart
<1> QED
  BY <1>1, <1>3 DEF IInv, JobsOK, Numbered, QueueOrdered

\* A worker ends its job.
LEMMA EndsJobs ==
  ASSUME IInv, NEW w \in Workers, pc[w] \notin Free \union {"end"},
         NEW f \in {"ready", "failed"}, Ends(w, f), UNCHANGED <<queue, submitted, job>>
  PROVE  /\ JobsOK' /\ Holders' = Holders
         /\ \A v \in Holders \ {w} : jobs'[job[v]] = jobs[job[v]]
         /\ jobs[job[w]].future = "pending"
<1>1. w \in Holders /\ job[w] \in Jobs /\ job[w] <= submitted /\ jobs[job[w]].future = "pending"
  BY Holds DEF IInv, HeldApart
<1>2. /\ jobs'[job[w]].kind = jobs[job[w]].kind
      /\ \A i \in Jobs \ {job[w]} : jobs'[i] = jobs[i]
      /\ pc'[w] = "end"
      /\ \A s \in Threads \ {w} : pc'[s] = pc[s]
  BY <1>1, JobEnds DEF IInv
<1>3. Holders' = Holders
  BY <1>1, <1>2, ThreadsAre DEF Holders, Free
<1>4. \A v \in Holders \ {w} : job[v] \in Jobs \ {job[w]} /\ pc'[v] = pc[v]
  BY <1>1, <1>2, ThreadsAre DEF IInv, HeldApart, Holders
<1>5. \A n \in 1..Len(queue) : queue[n] \in Jobs \ {job[w]}
  <2> TAKE n \in 1..Len(queue)
  <2>1. queue[n] \in Jobs
    BY DEF IInv, TypeOK
  <2>2. job[w] < queue[n]
    BY <1>1 DEF IInv, QueueOrdered
  <2> QED BY <2>1, <2>2, <1>1 DEF Jobs
<1>6. Numbered'
  <2> SUFFICES ASSUME NEW i \in Jobs
               PROVE  (i > submitted => jobs'[i] = NoJob) /\ (i <= submitted => jobs'[i].kind # "none")
    BY DEF Numbered, NoJob, Job
  <2>1. CASE i = job[w]
    BY <2>1, <1>1, <1>2 DEF IInv, Numbered, TypeOK, Jobs
  <2>2. CASE i # job[w]
    BY <2>2, <1>2 DEF IInv, Numbered
  <2> QED BY <2>1, <2>2
<1>7. QueueOrdered'
  BY <1>2, <1>3, <1>5 DEF IInv, QueueOrdered
<1>8. HeldApart'
  BY <1>1, <1>2, <1>3, <1>4 DEF IInv, HeldApart
<1> QED
  BY <1>1, <1>2, <1>3, <1>4, <1>6, <1>7, <1>8 DEF JobsOK

\* Ending a job that is no helper, or with a value, keeps the helpers.
LEMMA EndsHelpers ==
  ASSUME IInv, NEW w \in Workers, pc[w] \notin Free, NEW f \in {"ready", "failed"}, Ends(w, f),
         f = "ready" \/ jobs[job[w]].kind # "helper", helpers'[Main] = helpers[Main],
         Main \in open => Main \in open'
  PROVE  HelpersHeld'
<1>1. job[w] \in Jobs
  BY Holds
<1>2. /\ jobs'[job[w]].future = f
      /\ jobs'[job[w]].kind = jobs[job[w]].kind /\ jobs'[job[w]].caller = jobs[job[w]].caller
      /\ \A i \in Jobs \ {job[w]} : jobs'[i] = jobs[i]
  BY <1>1, JobEnds DEF IInv
<1>3. helpers[Main] \subseteq Jobs
  BY ThreadsAre DEF IInv, TypeOK
<1> QED
  BY <1>1, <1>2, <1>3 DEF IInv, HelpersHeld

(***************************************************************************)
(* The calls                                                               *)
(***************************************************************************)
AtWork == {"fn", "get", "returned"}

\* Threads move elsewhere than in fn and behind the loop.
LEMMA SamePartitions ==
  ASSUME IInv, UNCHANGED <<serving, part, next, computed>>, open' \subseteq open,
         \A t \in Threads : \/ pc'[t] = pc[t]
                            \/ pc[t] \notin AtWork /\ pc'[t] \notin AtWork
  PROVE  PartitionsShared' /\ PartitionsDone'
<1>1. \A t \in Threads : pc'[t] \in AtWork => pc'[t] = pc[t]
  OBVIOUS
<1>2. \A s \in Threads, c \in open, p \in Partitions : InFn(s, c, p)' <=> InFn(s, c, p)
  BY DEF InFn, AtWork
<1>3. PartitionsShared'
  BY <1>2 DEF IInv, PartitionsShared
<1>4. PartitionsDone'
  BY <1>1 DEF IInv, PartitionsDone, AtWork
<1> QED BY <1>3, <1>4

\* The futures of a call are those of submitted helpers.
LEMMA HelpersSubmitted ==
  ASSUME IInv
  PROVE  \A i \in helpers[Main] : i \in Jobs /\ i <= submitted /\ jobs[i].kind = "helper"
<1> TAKE i \in helpers[Main]
<1>1. i \in Jobs /\ jobs[i].kind = "helper"
  BY ThreadsAre DEF IInv, TypeOK, HelpersHeld
<1>2. jobs[i] # NoJob
  BY <1>1 DEF NoJob, Job
<1> QED
  BY <1>1, <1>2 DEF IInv, Numbered, TypeOK, Jobs

\* A submitted job is the youngest, and no helper.
LEMMA SubmitInv ==
  ASSUME IInv, NEW k \in {"plain", "caller"}, Submit(k)
  PROVE  IInv'
<1> USE ThreadsAre
<1>1. /\ pc[Main] = "idle" /\ pc'[Main] = "notify"
      /\ \A w \in Workers : pc'[w] = pc[w]
      /\ pc' \in [Threads -> Labels]
  BY GoesTo DEF Submit, Labels, IInv
<1>2. Push(Main, k) /\ UNCHANGED <<job, calls>>
  BY DEF Submit
<1>3. TypeOK'
  BY <1>1, <1>2, Pushed DEF IInv, TypeOK, calls
<1>4. PlacesOK'
  BY <1>1 DEF IInv, PlacesOK
<1>5. ActiveCounted'
  BY <1>1, <1>2 DEF IInv, ActiveCounted, Push
<1>6. /\ JobsOK' /\ Holders' = Holders
      /\ \A w \in Holders : jobs'[job[w]] = jobs[job[w]]
  BY <1>1, <1>2, PushJobs
<1>7. HelpersHeld'
  <2>1. /\ submitted \in Nat /\ jobs'[submitted + 1].kind = k
        /\ \A i \in Jobs \ {submitted + 1} : jobs'[i] = jobs[i]
    BY <1>2, Pushed DEF IInv, TypeOK
  <2>2. \A i \in helpers[Main] : i \in Jobs /\ i # submitted + 1
    BY <2>1, HelpersSubmitted
  <2>3. \A i \in Jobs : jobs'[i].kind = "helper" => i # submitted + 1
    BY <2>1
  <2> QED BY <1>2, <2>1, <2>2, <2>3 DEF IInv, HelpersHeld, calls
<1>8. CallsOK'
  BY <1>1, <1>2 DEF IInv, CallsOK, TypeOK, calls
<1>9. HelpersServe'
  <2>1. \A t \in Threads : pc'[t] \in {"loop", "fn"} =>
          \/ t \in open
          \/ t \in Workers /\ jobs[job[t]].kind = "helper" /\ serving[t] = Main
    BY <1>1 DEF IInv, HelpersServe
  <2>2. \A t \in Workers : pc'[t] \in {"loop", "fn"} => t \in Holders
    BY <1>1 DEF Holders, Free
  <2>3. \A w \in Holders : jobs'[job[w]].kind = "helper" => w \notin open /\ pc'[w] \notin {"run", "returned"}
    BY <1>1, <1>6 DEF IInv, HelpersServe, Holders
  <2> QED BY <1>2, <1>6, <2>1, <2>2, <2>3 DEF HelpersServe, calls
<1>10. PartitionsShared' /\ PartitionsDone'
  BY <1>1, <1>2, SamePartitions DEF AtWork, calls
<1> QED
  BY <1>3, <1>4, <1>5, <1>6, <1>7, <1>8, <1>9, <1>10 DEF IInv, JobsOK

\* Notifying moves the owner on, to its next helper, its loop or back to idle.
LEMMA NotifyInv ==
  ASSUME IInv, NEW t \in Threads, Notify(t)
  PROVE  IInv'
<1> USE ThreadsAre
<1> DEFINE on == IF t \notin open THEN "idle" ELSE IF toSubmit[t] = 0 THEN "loop" ELSE "submit"
<1>1. t = Main /\ pc[Main] = "notify" /\ UNCHANGED <<pool, job, calls>>
  BY DEF Notify, IInv, PlacesOK, Free, Busy
<1>2. on \in Labels /\ on \in {"idle", "loop", "submit"}
  BY DEF Labels
<1>3. /\ pc'[Main] = on
      /\ \A w \in Workers : pc'[w] = pc[w] \/ (pc[w] = "asleep" /\ pc'[w] = "look")
      /\ pc' \in [Threads -> Labels]
  <2>1. CASE Goes(t, on)
    BY <1>1, <1>2, <2>1, GoesTo DEF IInv
  <2>2. CASE \E w \in {v \in Workers : pc[v] = "asleep"} : pc' = [pc EXCEPT ![t] = on, ![w] = "look"]
    BY <1>1, <1>2, <2>2 DEF IInv, TypeOK, Labels
  <2> QED BY <2>1, <2>2 DEF Notify
<1> HIDE DEF on
<1>4. TypeOK'
  BY <1>1, <1>3 DEF IInv, TypeOK, pool, calls
<1>5. PlacesOK'
  BY <1>2, <1>3 DEF IInv, PlacesOK, AtRest, Free
<1>6. ActiveCounted'
  <2>1. {w \in Workers : pc'[w] \in Busy} = {w \in Workers : pc[w] \in Busy}
    BY <1>3 DEF Busy
  <2> QED BY <1>1, <2>1 DEF IInv, ActiveCounted, pool
<1>7. JobsOK' /\ Holders' = Holders
  BY <1>1, <1>3, SameJobs DEF pool, Free
<1>8. HelpersHeld'
  BY <1>1 DEF IInv, HelpersHeld, pool, calls
<1>9. CallsOK'
  <2>1. Main \in open => on \in {"loop", "submit"}
    BY <1>1 DEF on
  <2>2. on = "submit" => Main \in open /\ toSubmit[Main] > 0
    BY <1>1 DEF on, IInv, TypeOK
  <2>3. \A w \in Workers : w \in open => pc'[w] = pc[w]
    BY <1>3 DEF IInv, CallsOK
  <2>4. \A w \in Workers : pc'[w] \in {"submit", "get"} => pc'[w] = pc[w]
    BY <1>3
  <2>5. \A s \in open : pc'[s] \in {"notify", "submit", "loop", "fn", "get"} /\ serving[s] = s
    BY <1>2, <1>3, <2>1, <2>3 DEF IInv, CallsOK, TypeOK
  <2>6. \A s \in Threads : pc'[s] \in {"submit", "get"} => s \in open
    BY <1>2, <1>3, <2>2, <2>4 DEF IInv, CallsOK
  <2> QED BY <1>1, <1>3, <2>2, <2>5, <2>6 DEF IInv, CallsOK, calls
<1>10. HelpersServe'
  <2>1. on = "loop" => Main \in open
    BY <1>1 DEF on
  <2>2. \A w \in Workers : pc'[w] \in {"loop", "fn", "run", "returned"} => pc'[w] = pc[w]
    BY <1>3
  <2>3. \A s \in Threads : pc'[s] \in {"loop", "fn"} =>
          \/ s \in open
          \/ s \in Workers /\ jobs[job[s]].kind = "helper" /\ serving[s] = Main
    BY <1>2, <1>3, <2>1, <2>2 DEF IInv, HelpersServe
  <2>4. \A w \in Holders : jobs[job[w]].kind = "helper" => w \notin open /\ pc'[w] \notin {"run", "returned"}
    BY <2>2 DEF IInv, HelpersServe, Holders
  <2> QED BY <1>1, <1>7, <2>3, <2>4 DEF HelpersServe, pool, calls
<1>11. PartitionsShared' /\ PartitionsDone'
  BY <1>1, <1>2, <1>3, SamePartitions DEF AtWork, calls
<1> QED
  BY <1>4, <1>5, <1>6, <1>7, <1>8, <1>9, <1>10, <1>11 DEF IInv, JobsOK

\* A helper is the youngest job, and the owner's call has it on its list.
LEMMA SubmitHelperInv ==
  ASSUME IInv, NEW t \in Threads, SubmitHelper(t)
  PROVE  IInv'
<1> USE ThreadsAre
<1>1. t = Main /\ pc[Main] = "submit" /\ Main \in open /\ toSubmit[Main] > 0
  BY DEF SubmitHelper, IInv, PlacesOK, CallsOK, Free, Busy
<1>2. Push(Main, "helper") /\ UNCHANGED <<job, open, serving, part, next, computed>>
  BY <1>1 DEF SubmitHelper
<1>3. /\ pc'[Main] = "notify" /\ pc' \in [Threads -> Labels]
      /\ \A w \in Workers : pc'[w] = pc[w]
  BY <1>1, GoesTo DEF SubmitHelper, Labels, IInv
<1>4. /\ submitted' \in Jobs /\ submitted' = submitted + 1
      /\ jobs'[submitted + 1].kind = "helper" /\ jobs'[submitted + 1].caller = Main
      /\ jobs'[submitted + 1].future = "pending"
      /\ \A i \in Jobs \ {submitted + 1} : jobs'[i] = jobs[i]
  BY <1>2, Pushed DEF IInv
<1>5. /\ helpers' \in [Threads -> SUBSET Jobs] /\ helpers'[Main] = helpers[Main] \union {submitted + 1}
      /\ toSubmit' \in [Threads -> Nat]
      /\ \A w \in Workers : toSubmit'[w] = toSubmit[w] /\ helpers'[w] = helpers[w]
  BY <1>1, <1>4 DEF SubmitHelper, IInv, TypeOK
<1>6. TypeOK'
  BY <1>2, <1>3, <1>5, Pushed DEF IInv, TypeOK
<1>7. PlacesOK'
  BY <1>3 DEF IInv, PlacesOK
<1>8. ActiveCounted'
  BY <1>2, <1>3 DEF IInv, ActiveCounted, Push
<1>9. /\ JobsOK' /\ Holders' = Holders
      /\ \A w \in Holders : jobs'[job[w]] = jobs[job[w]]
  BY <1>2, <1>3, PushJobs
<1>10. HelpersHeld'
  <2>1. \A i \in helpers[Main] : i \in Jobs /\ jobs'[i].kind = "helper"
    BY <1>4, HelpersSubmitted
  <2>2. \A i \in helpers'[Main] : jobs'[i].kind = "helper"
    BY <1>4, <1>5, <2>1
  <2>3. ASSUME NEW i \in Jobs, jobs'[i].kind = "helper"
        PROVE  /\ jobs'[i].caller = Main
               /\ jobs'[i].future \in {"pending", "ready"}
               /\ jobs'[i].future = "pending" => Main \in open' /\ i \in helpers'[Main]
    <3>1. CASE i = submitted + 1
      BY <3>1, <1>1, <1>2, <1>4, <1>5
    <3>2. CASE i # submitted + 1
      BY <3>2, <2>3, <1>1, <1>2, <1>4, <1>5 DEF IInv, HelpersHeld
    <3> QED BY <3>1, <3>2
  <2> QED BY <2>2, <2>3 DEF HelpersHeld
<1>11. CallsOK'
  BY <1>1, <1>2, <1>3, <1>5 DEF IInv, CallsOK, TypeOK
<1>12. HelpersServe'
  <2>1. \A s \in Threads : pc'[s] \in {"loop", "fn"} =>
          \/ s \in open
          \/ s \in Workers /\ jobs[job[s]].kind = "helper" /\ serving[s] = Main
    BY <1>3 DEF IInv, HelpersServe
  <2>2. \A s \in Workers : pc'[s] \in {"loop", "fn"} => s \in Holders
    BY <1>3 DEF Holders, Free
  <2>3. \A w \in Holders : jobs'[job[w]].kind = "helper" => w \notin open /\ pc'[w] \notin {"run", "returned"}
    BY <1>3, <1>9 DEF IInv, HelpersServe, Holders
  <2> QED BY <1>2, <1>9, <2>1, <2>2, <2>3 DEF HelpersServe
<1>13. PartitionsShared' /\ PartitionsDone'
  BY <1>1, <1>2, <1>3, SamePartitions DEF AtWork
<1> QED
  BY <1>6, <1>7, <1>8, <1>9, <1>10, <1>11, <1>12, <1>13 DEF IInv, JobsOK

\* Helpers a call of t asks for.
Wanted(t) == IF Serial(t) THEN 0 ELSE Least(Cardinality(Workers), PartitionCount) - 1

\* The number of helpers is a number, and a worker asks for none.
LEMMA WantedIs ==
  /\ \A t \in Threads : Wanted(t) \in Nat
  /\ \A w \in Workers : Wanted(w) = 0
<1>1. Cardinality(Workers) \in Nat
  BY ThreadAssumption, FS_CardinalityType
<1> QED
  BY <1>1, PartitionsAre DEF Wanted, Serial, Least

\* Nobody computes partitions for a thread that is in no call.
LEMMA NoneServes ==
  ASSUME IInv, NEW t \in Threads, t \notin open
  PROVE  \A s \in Threads, p \in Partitions : ~InFn(s, t, p)
BY Serves DEF InFn

\* A new call has its counter at zero, no helpers and nobody in its fn.
LEMMA CallInv ==
  ASSUME IInv, NEW t \in Threads, Call(t)
  PROVE  IInv'
<1> USE ThreadsAre
<1> DEFINE n == Wanted(t)
           l == IF n = 0 THEN "loop" ELSE "submit"
<1>1. \/ t = Main /\ pc[t] = "idle"
      \/ t \in Workers /\ pc[t] = "run" /\ jobs[job[t]].kind = "caller"
  BY DEF Call
<1>2. n \in Nat /\ (t \in Workers => n = 0) /\ l \in Labels /\ l \in {"loop", "submit"}
  BY WantedIs DEF Labels
<1>3. /\ open' = open \union {t}
      /\ serving' = [serving EXCEPT ![t] = t]
      /\ next' = [next EXCEPT ![t] = 0]
      /\ toSubmit' = [toSubmit EXCEPT ![t] = n]
      /\ helpers' = [helpers EXCEPT ![t] = {}]
      /\ computed' = [computed EXCEPT ![t] = [p \in Partitions |-> 0]]
      /\ Goes(t, l)
      /\ UNCHANGED <<pool, job, part>>
  BY DEF Call, Wanted
<1> HIDE DEF n, l
<1>4. /\ pc'[t] = l /\ pc' \in [Threads -> Labels]
      /\ \A s \in Threads \ {t} : pc'[s] = pc[s]
  BY <1>2, <1>3, GoesTo DEF IInv
<1>5. /\ serving' \in [Threads -> Threads] /\ serving'[t] = t
      /\ \A s \in Threads \ {t} : serving'[s] = serving[s]
      /\ next' \in [Threads -> Nat] /\ next'[t] = 0
      /\ \A s \in Threads \ {t} : next'[s] = next[s]
  BY <1>3 DEF IInv, TypeOK
<1>6. /\ toSubmit' \in [Threads -> Nat] /\ toSubmit'[t] = n
      /\ \A s \in Threads \ {t} : toSubmit'[s] = toSubmit[s]
      /\ helpers' \in [Threads -> SUBSET Jobs] /\ helpers'[t] = {}
      /\ \A s \in Threads \ {t} : helpers'[s] = helpers[s]
  BY <1>2, <1>3 DEF IInv, TypeOK
<1>7. /\ computed' \in [Threads -> [Partitions -> Nat]]
      /\ \A p \in Partitions : computed'[t][p] = 0
      /\ \A s \in Threads \ {t} : computed'[s] = computed[s]
  BY <1>3 DEF IInv, TypeOK
<1>8. t \notin open /\ open \subseteq Threads
  BY <1>1 DEF IInv, CallsOK, TypeOK
<1>9. TypeOK'
  BY <1>3, <1>4, <1>5, <1>6, <1>7, <1>8 DEF IInv, TypeOK, pool
<1>10. PlacesOK'
  BY <1>2, <1>4 DEF IInv, PlacesOK, Busy, l
<1>11. ActiveCounted'
  <2>1. {w \in Workers : pc'[w] \in Busy} = {w \in Workers : pc[w] \in Busy}
    BY <1>1, <1>2, <1>4 DEF Busy, l
  <2> QED BY <1>3, <2>1 DEF IInv, ActiveCounted, pool
<1>12. JobsOK' /\ Holders' = Holders
  <2>1. \A w \in Workers : pc'[w] = pc[w] \/ (pc[w] = "run" /\ pc'[w] = "loop")
    BY <1>1, <1>2, <1>4 DEF l
  <2> QED BY <1>3, <2>1, SameJobs DEF pool, Free
<1>13. HelpersHeld'
  <2>1. CASE t = Main
    <3>1. \A i \in Jobs : jobs[i].kind = "helper" => jobs[i].future # "pending"
      BY <2>1, <1>8 DEF IInv, HelpersHeld
    <3> QED BY <3>1, <2>1, <1>3, <1>6 DEF IInv, HelpersHeld, pool
  <2>2. CASE t # Main
    BY <2>2, <1>3, <1>6 DEF IInv, HelpersHeld, pool
  <2> QED BY <2>1, <2>2
<1>14. CallsOK'
  <2>1. \A s \in open : s # t /\ s \in Threads /\ pc'[s] = pc[s] /\ serving'[s] = serving[s]
    BY <1>4, <1>5, <1>8
  <2>2. \A s \in open' : pc'[s] \in {"notify", "submit", "loop", "fn", "get"} /\ serving'[s] = s
    BY <2>1, <1>2, <1>3, <1>4, <1>5 DEF IInv, CallsOK
  <2>3. \A s \in Threads : pc'[s] \in {"submit", "get"} => s \in open'
    BY <1>3, <1>4 DEF IInv, CallsOK
  <2>4. pc'[Main] = "submit" => toSubmit'[Main] > 0
    BY <1>2, <1>4, <1>6 DEF IInv, CallsOK, l
  <2>5. \A w \in Workers : toSubmit'[w] = 0 /\ helpers'[w] = {}
    BY <1>2, <1>6 DEF IInv, CallsOK
  <2> QED BY <2>2, <2>3, <2>4, <2>5 DEF CallsOK
<1>15. HelpersServe'
  <2>1. \A s \in Threads : pc'[s] \in {"loop", "fn"} =>
          \/ s \in open'
          \/ s \in Workers /\ jobs[job[s]].kind = "helper" /\ serving'[s] = Main
    BY <1>3, <1>4, <1>5 DEF IInv, HelpersServe
  <2>2. ASSUME NEW w \in Holders, jobs[job[w]].kind = "helper"
        PROVE  w \notin open' /\ pc'[w] \notin {"run", "returned"}
    <3>1. w # t
      BY <2>2, <1>1 DEF Holders
    <3> QED BY <2>2, <3>1, <1>3, <1>4 DEF IInv, HelpersServe, Holders
  <2> QED BY <1>3, <1>12, <2>1, <2>2 DEF HelpersServe, pool
<1>16. PartitionsShared'
  <2>1. \A s \in Threads, p \in Partitions : ~InFn(s, t, p)'
    BY <1>2, <1>3, <1>4, <1>5, <1>8, NoneServes DEF InFn
  <2>2. \A s \in Threads, c \in open, p \in Partitions : InFn(s, c, p)' <=> InFn(s, c, p)
    BY <1>1, <1>2, <1>3, <1>4, <1>5 DEF InFn
  <2> SUFFICES ASSUME NEW c \in open', NEW p \in Partitions
               PROVE  /\ p >= next'[c] => computed'[c][p] = 0 /\ \A s \in Threads : ~InFn(s, c, p)'
                      /\ p < next'[c] => \/ computed'[c][p] = 1 /\ \A s \in Threads : ~InFn(s, c, p)'
                                         \/ computed'[c][p] = 0 /\ \E s \in Threads : InFn(s, c, p)'
                      /\ \A s, u \in Threads : InFn(s, c, p)' /\ InFn(u, c, p)' => s = u
    BY DEF PartitionsShared
  <2>3. CASE c = t
    BY <2>1, <2>3, <1>5, <1>7, PartitionsAre
  <2>4. CASE c # t
    <3>1. c \in open /\ next'[c] = next[c] /\ computed'[c] = computed[c]
      BY <2>4, <1>3, <1>5, <1>7, <1>8
    <3> QED BY <3>1, <2>2 DEF IInv, PartitionsShared
  <2> QED BY <2>3, <2>4
<1>17. PartitionsDone'
  BY <1>2, <1>3, <1>4, <1>5, <1>7 DEF IInv, PartitionsDone
<1> QED
  BY <1>9, <1>10, <1>11, <1>12, <1>13, <1>14, <1>15, <1>16, <1>17 DEF IInv, JobsOK

\* A thread that fetches a partition, finds none for its own call, or none
\* for the owner's.
LEMMA TakeInv ==
  ASSUME IInv, NEW t \in Threads, Take(t)
  PROVE  IInv'
<1> USE ThreadsAre
<1> DEFINE c == serving[t]
<1>1. pc[t] = "loop" /\ c \in Threads /\ c \in open
  BY Serves DEF Take, IInv, TypeOK
<1>2. \/ t \in open /\ c = t
      \/ t \in Workers /\ t \notin open /\ t # c /\ c = Main /\ jobs[job[t]].kind = "helper"
  BY <1>1, Serves
<1>3. next' \in [Threads -> Nat] /\ next'[c] = next[c] + 1 /\ \A s \in Threads \ {c} : next'[s] = next[s]
  BY <1>1 DEF Take, IInv, TypeOK
<1>4. UNCHANGED <<mutex, queue, stopping, active, submitted, job, open, serving, toSubmit, helpers, computed>>
  BY DEF Take
<1>5. \/ /\ next[c] < PartitionCount /\ Goes(t, "fn")
         /\ part' = [part EXCEPT ![t] = next[c]] /\ UNCHANGED jobs
      \/ next[c] >= PartitionCount /\ t = c /\ Goes(t, "get") /\ UNCHANGED <<part, jobs>>
      \/ next[c] >= PartitionCount /\ t # c /\ Ends(t, "ready") /\ UNCHANGED part
  BY <1>1, PartitionsAre DEF Take, IInv, TypeOK
<1> HIDE DEF c
<1>6. \A s \in Threads : next[s] \in Nat /\ next'[s] \in Nat /\ next'[s] >= next[s]
  <2> TAKE s \in Threads
  <2>1. CASE s = c
    BY <2>1, <1>3 DEF IInv, TypeOK
  <2>2. CASE s # c
    BY <2>2, <1>3 DEF IInv, TypeOK
  <2> QED BY <2>1, <2>2
<1>7. ASSUME next[c] >= PartitionCount, NEW d \in open, NEW p \in Partitions
      PROVE  (p < next[d] <=> p < next'[d]) /\ (p >= next[d] <=> p >= next'[d])
  <2>1. d \in Threads /\ p \in Nat /\ p < PartitionCount /\ PartitionCount \in Nat
    BY PartitionsAre DEF IInv, TypeOK
  <2>2. CASE d = c
    BY <2>1, <2>2, <1>3, <1>6, <1>7
  <2>3. CASE d # c
    BY <2>1, <2>3, <1>3, <1>6
  <2> QED BY <2>2, <2>3
<1>8. CASE next[c] < PartitionCount /\ Goes(t, "fn") /\ part' = [part EXCEPT ![t] = next[c]] /\ UNCHANGED jobs
  <2>1. next[c] \in Partitions /\ next[c] \in Nat
    BY <1>1, <1>8, PartitionsAre DEF IInv, TypeOK
  <2>2. pc'[t] = "fn" /\ pc' \in [Threads -> Labels] /\ \A s \in Threads \ {t} : pc'[s] = pc[s]
    BY <1>8, GoesTo DEF IInv, Labels
  <2>3. /\ part' \in [Threads -> Partitions \union {0}] /\ part'[t] = next[c]
        /\ \A s \in Threads \ {t} : part'[s] = part[s]
    BY <1>8, <2>1 DEF IInv, TypeOK
  <2>4. TypeOK'
    BY <1>3, <1>4, <1>8, <2>2, <2>3 DEF IInv, TypeOK
  <2>5. PlacesOK'
    BY <2>2 DEF IInv, PlacesOK, Busy
  <2>6. ActiveCounted'
    <3>1. {w \in Workers : pc'[w] \in Busy} = {w \in Workers : pc[w] \in Busy}
      BY <1>1, <2>2 DEF Busy
    <3> QED BY <1>4, <3>1 DEF IInv, ActiveCounted
  <2>7. JobsOK' /\ Holders' = Holders
    <3>1. \A w \in Workers : pc'[w] = pc[w] \/ (pc[w] = "loop" /\ pc'[w] = "fn")
      BY <1>1, <2>2
    <3> QED BY <3>1, <1>4, <1>8, SameJobs DEF Free
  <2>8. HelpersHeld'
    BY <1>4, <1>8 DEF IInv, HelpersHeld
  <2>9. CallsOK'
    BY <1>1, <1>4, <2>2 DEF IInv, CallsOK, TypeOK
  <2>10. HelpersServe'
    <3>1. \A s \in Threads : pc'[s] \in {"loop", "fn"} => pc[s] \in {"loop", "fn"}
      BY <1>1, <2>2
    <3>2. \A w \in Workers : pc'[w] \in {"run", "returned"} => pc'[w] = pc[w]
      BY <2>2
    <3> QED BY <1>4, <1>8, <2>7, <3>1, <3>2 DEF IInv, HelpersServe, Holders
  <2>11. PartitionsShared'
    <3>1. \A s \in Threads, d \in open, p \in Partitions :
            InFn(s, d, p)' <=> IF s = t THEN d = c /\ p = next[c] ELSE InFn(s, d, p)
      BY <1>1, <1>4, <2>2, <2>3 DEF InFn, c
    <3>2. \A d \in open, p \in Partitions : ~InFn(t, d, p)
      BY <1>1 DEF InFn
    <3> SUFFICES ASSUME NEW d \in open, NEW p \in Partitions
                 PROVE  /\ p >= next'[d] => computed[d][p] = 0 /\ \A s \in Threads : ~InFn(s, d, p)'
                        /\ p < next'[d] => \/ computed[d][p] = 1 /\ \A s \in Threads : ~InFn(s, d, p)'
                                           \/ computed[d][p] = 0 /\ \E s \in Threads : InFn(s, d, p)'
                        /\ \A s, u \in Threads : InFn(s, d, p)' /\ InFn(u, d, p)' => s = u
      BY <1>4 DEF PartitionsShared
    <3>3. /\ p >= next[d] => computed[d][p] = 0 /\ \A s \in Threads : ~InFn(s, d, p)
          /\ p < next[d] => \/ computed[d][p] = 1 /\ \A s \in Threads : ~InFn(s, d, p)
                            \/ computed[d][p] = 0 /\ \E s \in Threads : InFn(s, d, p)
          /\ \A s, u \in Threads : InFn(s, d, p) /\ InFn(u, d, p) => s = u
      BY DEF IInv, PartitionsShared
    <3>4. p \in Nat /\ d \in Threads /\ next[d] \in Nat
      BY PartitionsAre DEF IInv, TypeOK
    <3>5. CASE d = c /\ p = next[c]
      BY <3>1, <3>3, <3>4, <3>5, <1>3
    <3>6. CASE ~(d = c /\ p = next[c])
      <4>1. \A s \in Threads : InFn(s, d, p)' <=> InFn(s, d, p)
        BY <3>1, <3>2, <3>6
      <4>2. (p >= next'[d] => p >= next[d]) /\ (p < next'[d] => p < next[d])
        BY <3>4, <3>6, <1>1, <1>3
      <4> QED BY <3>3, <4>1, <4>2
    <3> QED BY <3>5, <3>6
  <2>12. PartitionsDone'
    <3>1. \A s \in Threads : pc'[s] = "fn" => part'[s] \in Partitions
      BY <2>1, <2>2, <2>3 DEF IInv, PartitionsDone
    <3>2. \A s \in Threads : pc'[s] = "get" => next'[s] >= PartitionCount
      BY <2>1, <1>6, <2>2, PartitionsAre DEF IInv, PartitionsDone
    <3>3. \A s \in Threads : pc'[s] = "returned" => \A p \in Partitions : computed'[s][p] = 1
      BY <1>4, <2>2 DEF IInv, PartitionsDone
    <3> QED BY <3>1, <3>2, <3>3 DEF PartitionsDone
  <2> QED BY <2>4, <2>5, <2>6, <2>7, <2>8, <2>9, <2>10, <2>11, <2>12 DEF IInv, JobsOK
<1>9. CASE next[c] >= PartitionCount /\ t = c /\ Goes(t, "get") /\ UNCHANGED <<part, jobs>>
  <2>2. pc'[t] = "get" /\ pc' \in [Threads -> Labels] /\ \A s \in Threads \ {t} : pc'[s] = pc[s]
    BY <1>9, GoesTo DEF IInv, Labels
  <2>4. TypeOK'
    BY <1>3, <1>4, <1>9, <2>2 DEF IInv, TypeOK
  <2>5. PlacesOK'
    BY <2>2 DEF IInv, PlacesOK, Busy
  <2>6. ActiveCounted'
    <3>1. {w \in Workers : pc'[w] \in Busy} = {w \in Workers : pc[w] \in Busy}
      BY <1>1, <2>2 DEF Busy
    <3> QED BY <1>4, <3>1 DEF IInv, ActiveCounted
  <2>7. JobsOK' /\ Holders' = Holders
    <3>1. \A w \in Workers : pc'[w] = pc[w] \/ (pc[w] = "loop" /\ pc'[w] = "get")
      BY <1>1, <2>2
    <3> QED BY <3>1, <1>4, <1>9, SameJobs DEF Free
  <2>8. HelpersHeld'
    BY <1>4, <1>9 DEF IInv, HelpersHeld
  <2>9. CallsOK'
    BY <1>1, <1>4, <1>9, <2>2 DEF IInv, CallsOK, TypeOK
  <2>10. HelpersServe'
    <3>1. \A s \in Threads : pc'[s] \in {"loop", "fn"} => pc[s] \in {"loop", "fn"}
      BY <2>2
    <3>2. \A w \in Workers : pc'[w] \in {"run", "returned"} => pc'[w] = pc[w]
      BY <2>2
    <3> QED BY <1>4, <1>9, <2>7, <3>1, <3>2 DEF IInv, HelpersServe, Holders
  <2>11. PartitionsShared'
    <3>1. \A s \in Threads, d \in open, p \in Partitions : InFn(s, d, p)' <=> InFn(s, d, p)
      BY <1>1, <1>4, <1>9, <2>2 DEF InFn
    <3>2. \A d \in open, p \in Partitions : p < next[d] <=> p < next'[d]
      BY <1>9, <1>7
    <3>3. \A d \in open, p \in Partitions : p >= next[d] <=> p >= next'[d]
      BY <1>9, <1>7
    <3> QED BY <1>4, <3>1, <3>2, <3>3 DEF IInv, PartitionsShared
  <2>12. PartitionsDone'
    <3>1. \A s \in Threads : pc'[s] = "fn" => part'[s] \in Partitions
      BY <1>9, <2>2 DEF IInv, PartitionsDone
    <3>2. \A s \in Threads : pc'[s] = "get" => next'[s] >= PartitionCount
      BY <1>9, <1>6, <2>2, PartitionsAre DEF IInv, PartitionsDone
    <3>3. \A s \in Threads : pc'[s] = "returned" => \A p \in Partitions : computed'[s][p] = 1
      BY <1>4, <2>2 DEF IInv, PartitionsDone
    <3> QED BY <3>1, <3>2, <3>3 DEF PartitionsDone
  <2> QED BY <2>4, <2>5, <2>6, <2>7, <2>8, <2>9, <2>10, <2>11, <2>12 DEF IInv, JobsOK
<1>10. CASE next[c] >= PartitionCount /\ t # c /\ Ends(t, "ready") /\ UNCHANGED part
  <2>1. t \in Workers /\ t \notin open /\ jobs[job[t]].kind = "helper" /\ job[t] \in Jobs /\ pc[t] \notin Free \union {"end"}
    BY <1>1, <1>2, <1>10, Holds DEF Free
  <2>2. /\ pc'[t] = "end" /\ pc' \in [Threads -> Labels] /\ \A s \in Threads \ {t} : pc'[s] = pc[s]
        /\ jobs' \in [Jobs -> Records] /\ jobs'[job[t]].kind = "helper"
    BY <1>10, <2>1, JobEnds DEF IInv
  <2>3. /\ JobsOK' /\ Holders' = Holders
        /\ \A v \in Holders \ {t} : jobs'[job[v]] = jobs[job[v]]
    BY <1>4, <1>10, <2>1, EndsJobs
  <2>4. TypeOK'
    BY <1>3, <1>4, <1>10, <2>2 DEF IInv, TypeOK
  <2>5. PlacesOK'
    BY <2>1, <2>2 DEF IInv, PlacesOK, Busy
  <2>6. ActiveCounted'
    <3>1. {w \in Workers : pc'[w] \in Busy} = {w \in Workers : pc[w] \in Busy}
      BY <1>1, <2>2 DEF Busy
    <3> QED BY <1>4, <3>1 DEF IInv, ActiveCounted
  <2>7. HelpersHeld'
    BY <1>4, <1>10, <2>1, EndsHelpers
  <2>8. CallsOK'
    BY <1>1, <1>4, <2>1, <2>2 DEF IInv, CallsOK, TypeOK
  <2>9. HelpersServe'
    <3>1. \A s \in Threads : pc'[s] \in {"loop", "fn"} => s # t /\ pc[s] \in {"loop", "fn"}
      BY <2>2
    <3>2. \A s \in Workers : pc'[s] \in {"loop", "fn"} => s \in Holders \ {t}
      BY <3>1 DEF Holders, Free
    <3>3. \A s \in Threads : pc'[s] \in {"loop", "fn"} =>
            \/ s \in open
            \/ s \in Workers /\ jobs'[job[s]].kind = "helper" /\ serving[s] = Main
      BY <2>3, <3>1, <3>2 DEF IInv, HelpersServe
    <3>4. \A w \in Holders : jobs'[job[w]].kind = "helper" => w \notin open /\ pc'[w] \notin {"run", "returned"}
      BY <2>1, <2>2, <2>3 DEF IInv, HelpersServe, Holders
    <3> QED BY <1>4, <2>3, <3>3, <3>4 DEF HelpersServe
  <2>10. PartitionsShared'
    <3>1. \A s \in Threads, d \in open, p \in Partitions : InFn(s, d, p)' <=> InFn(s, d, p)
      BY <1>1, <1>4, <1>10, <2>2 DEF InFn
    <3>2. \A d \in open, p \in Partitions : p < next[d] <=> p < next'[d]
      BY <1>10, <1>7
    <3>3. \A d \in open, p \in Partitions : p >= next[d] <=> p >= next'[d]
      BY <1>10, <1>7
    <3> QED BY <1>4, <3>1, <3>2, <3>3 DEF IInv, PartitionsShared
  <2>11. PartitionsDone'
    <3>1. \A s \in Threads : pc'[s] = "fn" => part'[s] \in Partitions
      BY <1>10, <2>2 DEF IInv, PartitionsDone
    <3>2. \A s \in Threads : pc'[s] = "get" => next'[s] >= PartitionCount
      BY <1>10, <1>6, <2>2, PartitionsAre DEF IInv, PartitionsDone
    <3>3. \A s \in Threads : pc'[s] = "returned" => \A p \in Partitions : computed'[s][p] = 1
      BY <1>4, <2>2 DEF IInv, PartitionsDone
    <3> QED BY <3>1, <3>2, <3>3 DEF PartitionsDone
  <2> QED BY <2>3, <2>4, <2>5, <2>6, <2>7, <2>8, <2>9, <2>10, <2>11 DEF IInv, JobsOK
<1> QED BY <1>5, <1>8, <1>9, <1>10

\* A computed partition is counted once, by the one thread that had taken it.
LEMMA ComputesInv ==
  ASSUME IInv, NEW t \in Threads, Computes(t)
  PROVE  IInv'
<1> USE ThreadsAre
<1> DEFINE c == serving[t]
           p == part[t]
<1>1. pc[t] = "fn" /\ c \in Threads /\ c \in open /\ p \in Partitions
  BY Serves DEF Computes, IInv, TypeOK, PartitionsDone
<1>2. UNCHANGED <<pool, job, open, serving, next, toSubmit, helpers>>
  BY DEF Computes
<1>3. /\ computed' \in [Threads -> [Partitions -> Nat]]
      /\ computed'[c][p] = computed[c][p] + 1
      /\ \A d \in Threads, q \in Partitions : ~(d = c /\ q = p) => computed'[d][q] = computed[d][q]
  <2>1. /\ computed \in [Threads -> [Partitions -> Nat]]
        /\ computed' = [computed EXCEPT ![c] = [computed[c] EXCEPT ![p] = @ + 1]]
    BY DEF Computes, IInv, TypeOK
  <2> DEFINE row == [computed[c] EXCEPT ![p] = @ + 1]
  <2>2. /\ row \in [Partitions -> Nat] /\ row[p] = computed[c][p] + 1
        /\ \A q \in Partitions \ {p} : row[q] = computed[c][q]
    BY <1>1, <2>1
  <2> HIDE DEF row, c, p
  <2>3. computed' \in [Threads -> [Partitions -> Nat]] /\ computed'[c] = row
        /\ \A d \in Threads \ {c} : computed'[d] = computed[d]
    BY <1>1, <2>1, <2>2 DEF row
  <2> QED BY <2>2, <2>3
<1>4. /\ part' \in [Threads -> Partitions \union {0}]
      /\ \A s \in Threads \ {t} : part'[s] = part[s]
  BY DEF Computes, IInv, TypeOK
<1>5. pc'[t] = "loop" /\ pc' \in [Threads -> Labels] /\ \A s \in Threads \ {t} : pc'[s] = pc[s]
  BY GoesTo DEF Computes, IInv, Labels
<1>6. InFn(t, c, p)
  BY <1>1 DEF InFn
<1> HIDE DEF c, p
<1>7. p < next[c] /\ computed[c][p] = 0 /\ \A s \in Threads : InFn(s, c, p) => s = t
  <2>1. p \in Nat /\ next[c] \in Nat
    BY <1>1, PartitionsAre DEF IInv, TypeOK
  <2> QED BY <2>1, <1>1, <1>6 DEF IInv, PartitionsShared
<1>8. TypeOK'
  BY <1>2, <1>3, <1>4, <1>5 DEF IInv, TypeOK, pool
<1>9. PlacesOK'
  BY <1>5 DEF IInv, PlacesOK, Busy
<1>10. ActiveCounted'
  <2>1. {w \in Workers : pc'[w] \in Busy} = {w \in Workers : pc[w] \in Busy}
    BY <1>1, <1>5 DEF Busy
  <2> QED BY <1>2, <2>1 DEF IInv, ActiveCounted, pool
<1>11. JobsOK' /\ Holders' = Holders
  <2>1. \A w \in Workers : pc'[w] = pc[w] \/ (pc[w] = "fn" /\ pc'[w] = "loop")
    BY <1>1, <1>5
  <2> QED BY <2>1, <1>2, SameJobs DEF Free, pool
<1>12. HelpersHeld'
  BY <1>2 DEF IInv, HelpersHeld, pool
<1>13. CallsOK'
  BY <1>1, <1>2, <1>5 DEF IInv, CallsOK, TypeOK
<1>14. HelpersServe'
  <2>1. \A s \in Threads : pc'[s] \in {"loop", "fn"} => pc[s] \in {"loop", "fn"}
    BY <1>1, <1>5
  <2>2. \A w \in Workers : pc'[w] \in {"run", "returned"} => pc'[w] = pc[w]
    BY <1>5
  <2> QED BY <1>2, <1>11, <2>1, <2>2 DEF IInv, HelpersServe, Holders, pool
<1>15. PartitionsShared'
  <2>1. \A s \in Threads, d \in open, q \in Partitions : InFn(s, d, q)' <=> s # t /\ InFn(s, d, q)
    BY <1>1, <1>2, <1>4, <1>5 DEF InFn
  <2>2. \A d \in open, q \in Partitions : InFn(t, d, q) => d = c /\ q = p
    BY DEF InFn, c, p
  <2> SUFFICES ASSUME NEW d \in open, NEW q \in Partitions
               PROVE  /\ q >= next[d] => computed'[d][q] = 0 /\ \A s \in Threads : ~InFn(s, d, q)'
                      /\ q < next[d] => \/ computed'[d][q] = 1 /\ \A s \in Threads : ~InFn(s, d, q)'
                                        \/ computed'[d][q] = 0 /\ \E s \in Threads : InFn(s, d, q)'
                      /\ \A s, u \in Threads : InFn(s, d, q)' /\ InFn(u, d, q)' => s = u
    BY <1>2 DEF PartitionsShared
  <2>3. /\ q >= next[d] => computed[d][q] = 0 /\ \A s \in Threads : ~InFn(s, d, q)
        /\ q < next[d] => \/ computed[d][q] = 1 /\ \A s \in Threads : ~InFn(s, d, q)
                          \/ computed[d][q] = 0 /\ \E s \in Threads : InFn(s, d, q)
        /\ \A s, u \in Threads : InFn(s, d, q) /\ InFn(u, d, q) => s = u
    BY DEF IInv, PartitionsShared
  <2>4. CASE d = c /\ q = p
    <3>1. computed'[d][q] = 1
      BY <2>4, <1>3, <1>7
    <3>2. \A s \in Threads : ~InFn(s, d, q)'
      BY <2>1, <2>4, <1>7
    <3>3. ~(q >= next[d])
      BY <2>3, <2>4, <1>1, <1>6
    <3> QED BY <3>1, <3>2, <3>3
  <2>5. CASE ~(d = c /\ q = p)
    <3>1. \A s \in Threads : InFn(s, d, q)' <=> InFn(s, d, q)
      BY <2>1, <2>2, <2>5
    <3>2. computed'[d][q] = computed[d][q]
      BY <2>5, <1>3 DEF IInv, TypeOK
    <3> QED BY <2>3, <3>1, <3>2
  <2> QED BY <2>4, <2>5
<1>16. PartitionsDone'
  <2>1. \A s \in Threads : pc'[s] = "fn" => part'[s] \in Partitions
    BY <1>4, <1>5 DEF IInv, PartitionsDone
  <2>2. \A s \in Threads : pc'[s] = "get" => next'[s] >= PartitionCount
    BY <1>2, <1>5 DEF IInv, PartitionsDone
  <2>3. \A s \in Threads : pc'[s] = "returned" => \A q \in Partitions : computed'[s][q] = 1
    <3>1. \A s \in Threads : pc'[s] = "returned" => s # c
      BY <1>1, <1>5 DEF IInv, CallsOK
    <3> QED BY <3>1, <1>3, <1>5 DEF IInv, PartitionsDone
  <2> QED BY <2>1, <2>2, <2>3 DEF PartitionsDone
<1> QED
  BY <1>8, <1>9, <1>10, <1>11, <1>12, <1>13, <1>14, <1>15, <1>16 DEF IInv, JobsOK

\* Only the owner waits for futures, and none of them fails.
LEMMA GetInv ==
  ASSUME IInv, NEW t \in Threads, Get(t)
  PROVE  IInv'
<1> USE ThreadsAre
<1>1. PICK i \in helpers[t] :
        \/ HasValue(i) /\ helpers' = [helpers EXCEPT ![t] = @ \ {i}] /\ UNCHANGED <<jobs, pc, open>>
        \/ jobs[i].future \in {"failed", "broken"}
  BY DEF Get
<1>2. t = Main
  BY <1>1 DEF IInv, CallsOK
<1>3. i \in Jobs /\ jobs[i].kind = "helper" /\ jobs[i].future \in {"pending", "ready"}
  BY <1>1, <1>2 DEF IInv, TypeOK, HelpersHeld
<1>4. /\ jobs[i].future = "ready" /\ UNCHANGED <<jobs, pc, open>>
      /\ helpers' \in [Threads -> SUBSET Jobs] /\ helpers'[Main] = helpers[Main] \ {i}
      /\ \A w \in Workers : helpers'[w] = helpers[w]
  BY <1>1, <1>2, <1>3 DEF HasValue, IInv, TypeOK
<1>5. UNCHANGED <<mutex, queue, stopping, active, submitted, job, serving, part, next, toSubmit, computed>>
  BY DEF Get
<1>6. TypeOK' /\ PlacesOK' /\ ActiveCounted'
  BY <1>4, <1>5 DEF IInv, TypeOK, PlacesOK, ActiveCounted
<1>7. JobsOK' /\ Holders' = Holders
  BY <1>4, <1>5, SameJobs
<1>8. HelpersHeld'
  BY <1>4 DEF IInv, HelpersHeld
<1>9. CallsOK'
  BY <1>4, <1>5 DEF IInv, CallsOK
<1>10. HelpersServe'
  BY <1>4, <1>5, <1>7 DEF IInv, HelpersServe
<1>11. PartitionsShared' /\ PartitionsDone'
  BY <1>4, <1>5, SamePartitions
<1> QED
  BY <1>6, <1>7, <1>8, <1>9, <1>10, <1>11 DEF IInv, JobsOK

\* When the futures are got, nobody computes for the call any more.
LEMMA ReturnsInv ==
  ASSUME IInv, NEW t \in Threads, Returns(t)
  PROVE  IInv'
<1> USE ThreadsAre
<1>1. pc[t] = "get" /\ t \in open /\ helpers[t] = {} /\ next[t] \in Nat /\ next[t] >= PartitionCount
  BY DEF Returns, AllGot, IInv, TypeOK, CallsOK, PartitionsDone
<1>2. UNCHANGED <<pool, job, serving, part, next, toSubmit, helpers, computed>> /\ open' = open \ {t}
  BY DEF Returns
<1>3. pc'[t] = "returned" /\ pc' \in [Threads -> Labels] /\ \A s \in Threads \ {t} : pc'[s] = pc[s]
  BY GoesTo DEF Returns, IInv, Labels
<1>4. \A i \in Jobs : jobs[i].kind = "helper" /\ t = Main => jobs[i].future = "ready"
  BY <1>1 DEF IInv, HelpersHeld
<1>5. \A s \in Threads, p \in Partitions : ~InFn(s, t, p)
  <2> SUFFICES ASSUME NEW s \in Threads, pc[s] = "fn", serving[s] = t PROVE FALSE
    BY DEF InFn
  <2>1. CASE s \in open
    BY <2>1, <1>1, Serves
  <2>2. CASE s \notin open
    BY <2>2, <1>4, Serves
  <2> QED BY <2>1, <2>2
<1>6. TypeOK'
  BY <1>2, <1>3 DEF IInv, TypeOK, pool
<1>7. PlacesOK'
  BY <1>3 DEF IInv, PlacesOK, Busy
<1>8. ActiveCounted'
  <2>1. {w \in Workers : pc'[w] \in Busy} = {w \in Workers : pc[w] \in Busy}
    BY <1>1, <1>3 DEF Busy
  <2> QED BY <1>2, <2>1 DEF IInv, ActiveCounted, pool
<1>9. JobsOK' /\ Holders' = Holders
  <2>1. \A w \in Workers : pc'[w] = pc[w] \/ (pc[w] = "get" /\ pc'[w] = "returned")
    BY <1>1, <1>3
  <2> QED BY <2>1, <1>2, SameJobs DEF Free, pool
<1>10. HelpersHeld'
  BY <1>2, <1>4 DEF IInv, HelpersHeld, pool
<1>11. CallsOK'
  BY <1>2, <1>3 DEF IInv, CallsOK, TypeOK
<1>12. HelpersServe'
  <2>1. \A s \in Threads : pc'[s] \in {"loop", "fn"} =>
          \/ s \in open'
          \/ s \in Workers /\ jobs[job[s]].kind = "helper" /\ serving[s] = Main
    BY <1>2, <1>3 DEF IInv, HelpersServe
  <2>2. \A w \in Holders : jobs[job[w]].kind = "helper" => w \notin open' /\ pc'[w] \notin {"run", "returned"}
    BY <1>1, <1>2, <1>3 DEF IInv, HelpersServe, Holders
  <2> QED BY <1>2, <1>9, <2>1, <2>2 DEF HelpersServe, pool
<1>13. PartitionsShared'
  <2>1. \A s \in Threads, c \in open, p \in Partitions : InFn(s, c, p)' <=> InFn(s, c, p)
    BY <1>1, <1>2, <1>3 DEF InFn
  <2> QED BY <1>2, <2>1 DEF IInv, PartitionsShared
<1>14. PartitionsDone'
  <2>1. \A p \in Partitions : computed[t][p] = 1
    <3> TAKE p \in Partitions
    <3>1. p < next[t]
      BY <1>1, PartitionsAre
    <3> QED BY <3>1, <1>1, <1>5 DEF IInv, PartitionsShared
  <2> QED BY <1>2, <1>3, <2>1 DEF IInv, PartitionsDone
<1> QED
  BY <1>6, <1>7, <1>8, <1>9, <1>10, <1>11, <1>12, <1>13, <1>14 DEF IInv, JobsOK

\* A worker ends a job of its own, and the caller's thread goes on.
LEMMA LeaveInv ==
  ASSUME IInv, NEW t \in Threads, Leave(t)
  PROVE  IInv'
<1> USE ThreadsAre
<1>1. pc[t] = "returned" /\ t \notin open
  BY DEF Leave, IInv, CallsOK
<1>2. UNCHANGED <<mutex, queue, stopping, active, submitted, job, open, serving, part, toSubmit, helpers>>
  BY DEF Leave
<1>3. /\ next' \in [Threads -> Nat] /\ \A s \in Threads \ {t} : next'[s] = next[s]
      /\ computed' \in [Threads -> [Partitions -> Nat]]
      /\ \A s \in Threads \ {t} : computed'[s] = computed[s]
  BY DEF Leave, IInv, TypeOK
<1>4. \/ t = Main /\ pc'[t] = "idle" /\ UNCHANGED jobs /\ JobsOK' /\ Holders' = Holders
      \/ t \in Workers /\ pc'[t] = "end" /\ JobsOK' /\ Holders' = Holders
  <2>1. CASE t = Main
    <3>1. Goes(Main, "idle") /\ UNCHANGED jobs
      BY <2>1 DEF Leave
    <3>2. pc'[Main] = "idle" /\ \A w \in Workers : pc'[w] = pc[w]
      BY <3>1, GoesTo DEF IInv, Labels
    <3> QED BY <2>1, <3>1, <3>2, <1>2, SameJobs
  <2>2. CASE t # Main
    <3>1. t \in Workers /\ Ends(t, "ready") /\ pc[t] \notin Free \union {"end"}
      BY <2>2, <1>1 DEF Leave, Free
    <3> QED BY <3>1, <1>2, Holds, JobEnds, EndsJobs DEF IInv
  <2> QED BY <2>1, <2>2
<1>5. /\ pc' \in [Threads -> Labels] /\ \A s \in Threads \ {t} : pc'[s] = pc[s]
      /\ jobs' \in [Jobs -> Records] /\ HelpersHeld'
      /\ \A w \in Holders : jobs'[job[w]].kind = jobs[job[w]].kind
  <2>1. CASE t = Main
    <3>1. Goes(Main, "idle") /\ UNCHANGED jobs
      BY <2>1 DEF Leave
    <3> QED BY <2>1, <3>1, <1>2, GoesTo DEF IInv, TypeOK, HelpersHeld, Labels
  <2>2. CASE t # Main
    <3>1. t \in Workers /\ Ends(t, "ready") /\ pc[t] \notin Free \union {"end"}
      BY <2>2, <1>1 DEF Leave, Free
    <3>2. job[t] \in Jobs
      BY <3>1, Holds
    <3>3. \A v \in Holders \ {t} : jobs'[job[v]] = jobs[job[v]]
      BY <3>1, <1>2, EndsJobs
    <3> QED BY <3>1, <3>2, <3>3, <1>2, JobEnds, EndsHelpers DEF IInv
  <2> QED BY <2>1, <2>2
<1>6. TypeOK'
  BY <1>2, <1>3, <1>5 DEF IInv, TypeOK
<1>7. PlacesOK'
  BY <1>4, <1>5 DEF IInv, PlacesOK, Busy, AtRest
<1>8. ActiveCounted'
  <2>1. {w \in Workers : pc'[w] \in Busy} = {w \in Workers : pc[w] \in Busy}
    BY <1>1, <1>4, <1>5 DEF Busy
  <2> QED BY <1>2, <2>1 DEF IInv, ActiveCounted
<1>9. CallsOK'
  BY <1>1, <1>2, <1>4, <1>5 DEF IInv, CallsOK, TypeOK
<1>10. HelpersServe'
  <2>1. \A s \in Threads : pc'[s] \in {"loop", "fn"} => s # t /\ pc[s] \in {"loop", "fn"}
    BY <1>4, <1>5
  <2>2. \A s \in Workers : pc'[s] \in {"loop", "fn"} => s \in Holders
    BY <2>1 DEF Holders, Free
  <2>3. \A s \in Threads : pc'[s] \in {"loop", "fn"} =>
          \/ s \in open
          \/ s \in Workers /\ jobs'[job[s]].kind = "helper" /\ serving[s] = Main
    BY <2>1, <2>2, <1>5 DEF IInv, HelpersServe
  <2>4. \A w \in Holders : jobs'[job[w]].kind = "helper" => w \notin open /\ pc'[w] \notin {"run", "returned"}
    BY <1>4, <1>5 DEF IInv, HelpersServe, Holders
  <2> QED BY <1>2, <1>4, <2>3, <2>4 DEF HelpersServe
<1>11. PartitionsShared'
  <2>1. \A s \in Threads, c \in open, p \in Partitions : InFn(s, c, p)' <=> InFn(s, c, p)
    BY <1>1, <1>2, <1>4, <1>5 DEF InFn
  <2>2. \A c \in open : next'[c] = next[c] /\ computed'[c] = computed[c]
    BY <1>1, <1>3 DEF IInv, TypeOK
  <2> QED BY <1>2, <2>1, <2>2 DEF IInv, PartitionsShared
<1>12. PartitionsDone'
  <2>1. \A s \in Threads : pc'[s] \in AtWork => s # t /\ pc'[s] = pc[s]
    BY <1>4, <1>5 DEF AtWork
  <2> QED BY <1>2, <1>3, <2>1 DEF IInv, PartitionsDone, AtWork
<1> QED
  BY <1>4, <1>5, <1>6, <1>7, <1>8, <1>9, <1>10, <1>11, <1>12 DEF IInv, JobsOK

(***************************************************************************)
(* shutdown and the workers' loop                                          *)
(***************************************************************************)
\* The dropped jobs are no helpers, and nobody holds them.
LEMMA ClearInv ==
  ASSUME IInv, ClearQueue
  PROVE  IInv'
<1> USE ThreadsAre
<1> DEFINE Queued == {i \in Jobs : \E n \in 1..Len(queue) : queue[n] = i}
<1>1. pc[Main] = "clear" /\ Main \notin open
  BY DEF ClearQueue, IInv, CallsOK
<1>2. queue' = <<>> /\ UNCHANGED <<mutex, stopping, active, submitted, job, calls>>
  BY DEF ClearQueue
<1>3. pc'[Main] = "wake" /\ pc' \in [Threads -> Labels] /\ \A w \in Workers : pc'[w] = pc[w]
  BY GoesTo DEF ClearQueue, IInv, Labels
<1>4. jobs' = [i \in Jobs |-> IF i \in Queued THEN [jobs[i] EXCEPT !.future = "broken"] ELSE jobs[i]]
  BY DEF ClearQueue
<1>5. \A i \in Queued : i \in Jobs /\ jobs[i] \in Records /\ i <= submitted /\ jobs[i].future = "pending"
  BY DEF IInv, TypeOK, QueueOrdered
<1>6. \A i \in Queued : jobs'[i] \in Records /\ jobs'[i].kind = jobs[i].kind
  <2> TAKE i \in Queued
  <2>1. [jobs[i] EXCEPT !.future = "broken"] \in Records
    BY <1>5 DEF Records
  <2>2. [jobs[i] EXCEPT !.future = "broken"].kind = jobs[i].kind
    BY <1>5 DEF Records
  <2> QED BY <1>4, <2>1, <2>2
<1>7. \A i \in Jobs \ Queued : jobs'[i] = jobs[i] /\ jobs[i] \in Records
  BY <1>4 DEF IInv, TypeOK
<1>8. jobs' \in [Jobs -> Records]
  BY <1>4, <1>6, <1>7
<1>9. \A w \in Holders : job[w] \in Jobs \ Queued
  <2> TAKE w \in Holders
  <2>1. job[w] \in Jobs /\ \A n \in 1..Len(queue) : job[w] < queue[n] /\ queue[n] \in Jobs
    BY DEF IInv, HeldApart, QueueOrdered, TypeOK
  <2> QED BY <2>1 DEF Jobs
<1>10. \A i \in Queued : jobs[i].kind # "helper"
  BY <1>1, <1>5 DEF IInv, HelpersHeld
<1> HIDE DEF Queued
<1>11. TypeOK'
  BY <1>2, <1>3, <1>8 DEF IInv, TypeOK, calls
<1>12. PlacesOK' /\ Holders' = Holders
  BY <1>3 DEF IInv, PlacesOK, AtRest, Holders
<1>13. ActiveCounted'
  BY <1>2, <1>3 DEF IInv, ActiveCounted
<1>14. Numbered'
  BY <1>2, <1>5, <1>6, <1>7 DEF IInv, Numbered, TypeOK, Jobs
<1>15. QueueOrdered'
  BY <1>2 DEF QueueOrdered
<1>16. HeldApart'
  BY <1>2, <1>3, <1>7, <1>9, <1>12 DEF IInv, HeldApart, Holders
<1>17. HelpersHeld'
  <2>1. \A i \in Jobs : jobs'[i].kind = jobs[i].kind
    BY <1>6, <1>7
  <2>2. \A i \in Jobs : jobs[i].kind = "helper" => jobs'[i] = jobs[i]
    BY <1>7, <1>10
  <2> QED BY <1>2, <2>1, <2>2 DEF IInv, HelpersHeld, TypeOK, calls
<1>18. CallsOK'
  BY <1>1, <1>2, <1>3 DEF IInv, CallsOK, TypeOK, calls
<1>19. HelpersServe'
  <2>1. \A s \in Workers : pc'[s] \in {"loop", "fn"} => s \in Holders
    BY <1>3 DEF Holders, Free
  <2>2. \A s \in Threads : pc'[s] \in {"loop", "fn"} =>
          \/ s \in open
          \/ s \in Workers /\ jobs'[job[s]].kind = "helper" /\ serving[s] = Main
    BY <2>1, <1>3, <1>7, <1>9 DEF IInv, HelpersServe
  <2>3. \A w \in Holders : jobs'[job[w]].kind = "helper" => w \notin open /\ pc'[w] \notin {"run", "returned"}
    BY <1>3, <1>7, <1>9 DEF IInv, HelpersServe, Holders
  <2> QED BY <1>2, <1>12, <2>2, <2>3 DEF HelpersServe, calls
<1>20. PartitionsShared' /\ PartitionsDone'
  BY <1>1, <1>2, <1>3, SamePartitions DEF AtWork, calls
<1> QED
  BY <1>11, <1>12, <1>13, <1>14, <1>15, <1>16, <1>17, <1>18, <1>19, <1>20 DEF IInv

\* A worker leaves, goes to sleep or takes the first of the queue.
LEMMA LookInv ==
  ASSUME IInv, NEW w \in Workers, Look(w)
  PROVE  IInv'
<1> USE ThreadsAre
<1>1. pc[w] = "look" /\ w \notin open /\ UNCHANGED <<stopping, active, submitted, jobs, calls>>
  BY DEF Look, IInv, CallsOK
<1>2. CASE queue' = queue
  <2>1. PICK l \in {"exited", "block"} : Goes(w, l) /\ UNCHANGED job /\ mutex' \in Threads \union {NoThread}
    <3>1. queue # <<>> => Tail(queue) # queue
      BY DEF IInv, TypeOK
    <3> QED BY <1>2, <3>1 DEF Look, IInv, TypeOK
  <2>2. l \in Labels /\ l \in Free /\ pc[w] \in Free
    BY <1>1 DEF Labels, Free
  <2>3. stopping' \in BOOLEAN
    BY <1>1 DEF IInv, TypeOK
  <2> QED BY <1>1, <1>2, <2>1, <2>2, <2>3, GoesTo, QuietStep DEF IInv
<1>3. CASE queue' # queue
  <2>1. /\ queue # <<>> /\ job' = [job EXCEPT ![w] = Head(queue)] /\ queue' = Tail(queue)
        /\ Goes(w, "begin") /\ UNCHANGED mutex
    BY <1>3 DEF Look
  <2>2. /\ queue \in Seq(Jobs) /\ Len(queue) \in Nat /\ Len(queue) > 0 /\ Head(queue) = queue[1]
        /\ queue[1] \in Jobs /\ queue' \in Seq(Jobs) /\ Len(queue') = Len(queue) - 1
        /\ \A n \in 1..Len(queue') : queue'[n] = queue[n + 1] /\ n + 1 \in 1..Len(queue)
    BY <2>1 DEF IInv, TypeOK
  <2>3. /\ job' \in [Workers -> Jobs \union {0}] /\ job'[w] = queue[1]
        /\ \A v \in Workers \ {w} : job'[v] = job[v]
    BY <2>1, <2>2 DEF IInv, TypeOK
  <2>4. pc'[w] = "begin" /\ pc' \in [Threads -> Labels] /\ \A s \in Threads \ {w} : pc'[s] = pc[s]
    BY <2>1, GoesTo DEF IInv, Labels
  <2>5. Holders' = Holders \union {w} /\ w \notin Holders
    BY <1>1, <2>4 DEF Holders, Free
  <2>6. /\ queue[1] <= submitted /\ jobs[queue[1]].future = "pending"
        /\ \A v \in Holders : job[v] < queue[1]
    BY <2>2 DEF IInv, QueueOrdered
  <2>7. TypeOK'
    BY <1>1, <2>1, <2>2, <2>3, <2>4 DEF IInv, TypeOK, calls
  <2>8. PlacesOK'
    BY <2>4 DEF IInv, PlacesOK
  <2>9. ActiveCounted'
    <3>1. {v \in Workers : pc'[v] \in Busy} = {v \in Workers : pc[v] \in Busy}
      BY <1>1, <2>4 DEF Busy
    <3> QED BY <1>1, <3>1 DEF IInv, ActiveCounted
  <2>10. Numbered'
    BY <1>1 DEF IInv, Numbered
  <2>11. QueueOrdered'
    <3> SUFFICES ASSUME NEW n \in 1..Len(queue')
                 PROVE  /\ queue'[n] <= submitted /\ jobs[queue'[n]].future = "pending"
                        /\ \A m \in 1..Len(queue') : m < n => queue'[m] < queue'[n]
                        /\ \A v \in Holders \union {w} : job'[v] < queue'[n]
      BY <1>1, <2>5 DEF QueueOrdered
    <3>1. /\ queue[n + 1] <= submitted /\ jobs[queue[n + 1]].future = "pending"
          /\ \A m \in 1..Len(queue) : m < n + 1 => queue[m] < queue[n + 1]
          /\ \A v \in Holders : job[v] < queue[n + 1]
      BY <2>2 DEF IInv, QueueOrdered
    <3>2. \A m \in 1..Len(queue') : m < n => queue'[m] < queue'[n]
      BY <2>2, <3>1
    <3>3. \A v \in Holders \union {w} : job'[v] < queue'[n]
      BY <2>2, <2>3, <2>5, <3>1 DEF Holders
    <3> QED BY <2>2, <3>1, <3>2, <3>3
  <2>12. HeldApart'
    <3> SUFFICES ASSUME NEW v \in Holders \union {w}
                 PROVE  /\ job'[v] \in Jobs /\ job'[v] <= submitted
                        /\ pc'[v] # "end" => jobs[job'[v]].future = "pending"
                        /\ \A u \in (Holders \union {w}) \ {v} : job'[u] # job'[v]
      BY <1>1, <2>5 DEF HeldApart
    <3>1. \A u \in Holders : /\ job'[u] = job[u] /\ job[u] \in Jobs /\ job[u] <= submitted
                             /\ pc'[u] = pc[u] /\ job[u] # queue[1]
      BY <2>2, <2>3, <2>4, <2>5, <2>6 DEF IInv, HeldApart, Holders, Jobs
    <3>2. CASE v = w
      BY <3>1, <3>2, <2>2, <2>3, <2>4, <2>6
    <3>3. CASE v # w
      <4>1. v \in Holders
        BY <3>3
      <4> QED BY <4>1, <3>1, <2>3 DEF IInv, HeldApart
    <3> QED BY <3>2, <3>3
  <2>13. HelpersHeld'
    BY <1>1 DEF IInv, HelpersHeld, calls
  <2>14. CallsOK'
    BY <1>1, <2>4 DEF IInv, CallsOK, TypeOK, calls
  <2>15. HelpersServe'
    <3>1. \A s \in Threads : pc'[s] \in {"loop", "fn"} =>
            \/ s \in open
            \/ s \in Workers /\ jobs[job'[s]].kind = "helper" /\ serving[s] = Main
      BY <2>3, <2>4 DEF IInv, HelpersServe
    <3>2. \A v \in Holders \union {w} : jobs[job'[v]].kind = "helper" => v \notin open /\ pc'[v] \notin {"run", "returned"}
      BY <1>1, <2>3, <2>4, <2>5 DEF IInv, HelpersServe, Holders
    <3> QED BY <1>1, <2>5, <3>1, <3>2 DEF HelpersServe, calls
  <2>16. PartitionsShared' /\ PartitionsDone'
    BY <1>1, <2>4, SamePartitions DEF AtWork, calls
  <2> QED BY <2>7, <2>8, <2>9, <2>10, <2>11, <2>12, <2>13, <2>14, <2>15, <2>16 DEF IInv
<1> QED BY <1>2, <1>3

\* A worker that is not in fn may get another caller to serve.
LEMMA ServesOther ==
  ASSUME IInv, UNCHANGED <<open, part, next, computed>>, NEW w \in Workers,
         pc[w] \notin AtWork, pc'[w] \notin AtWork,
         \A t \in Threads \ {w} : \/ pc'[t] = pc[t] /\ serving'[t] = serving[t]
                                  \/ pc[t] \notin AtWork /\ pc'[t] \notin AtWork
  PROVE  PartitionsShared' /\ PartitionsDone'
<1>1. \A t \in Threads : pc'[t] \in AtWork \/ pc[t] \in AtWork =>
        pc'[t] = pc[t] /\ serving'[t] = serving[t]
  OBVIOUS
<1>2. \A s \in Threads, c \in open, p \in Partitions : InFn(s, c, p)' <=> InFn(s, c, p)
  BY <1>1 DEF InFn, AtWork
<1>3. PartitionsShared'
  BY <1>2 DEF IInv, PartitionsShared
<1>4. PartitionsDone'
  BY <1>1 DEF IInv, PartitionsDone, AtWork
<1> QED BY <1>3, <1>4

\* One more worker is busy, and no more are than there are.
LEMMA BeginInv ==
  ASSUME IInv, NEW w \in Workers, Begin(w)
  PROVE  IInv'
<1> USE ThreadsAre
<1> DEFINE helping == jobs[job[w]].kind = "helper"
           l == IF helping THEN "loop" ELSE "run"
<1>1. pc[w] = "begin" /\ w \notin open /\ w \in Holders /\ job[w] \in Jobs
  BY Holds DEF Begin, IInv, CallsOK, Free
<1>2. UNCHANGED <<mutex, queue, stopping, submitted, jobs, job, open, part, next, toSubmit, helpers, computed>>
  BY DEF Begin
<1>3. l \in Labels /\ l \in {"loop", "run"} /\ Goes(w, l)
  BY DEF Begin, Labels
<1>4. pc'[w] = l /\ pc' \in [Threads -> Labels] /\ \A s \in Threads \ {w} : pc'[s] = pc[s]
  BY <1>3, GoesTo DEF IInv
<1>5. helping => jobs[job[w]].caller = Main
  BY <1>1 DEF IInv, HelpersHeld
<1>6. /\ serving' \in [Threads -> Threads]
      /\ helping => serving'[w] = Main
      /\ \A s \in Threads \ {w} : serving'[s] = serving[s]
  BY <1>5 DEF Begin, IInv, TypeOK
<1> HIDE DEF l
<1>7. /\ active' = Cardinality({v \in Workers : pc'[v] \in Busy})
      /\ active' \in 0..Cardinality(Workers)
  <2> DEFINE B == {v \in Workers : pc[v] \in Busy}
             C == {v \in Workers : pc'[v] \in Busy}
  <2>1. C = B \union {w} /\ w \notin B /\ B \in SUBSET Workers /\ C \in SUBSET Workers
    BY <1>1, <1>3, <1>4 DEF Busy
  <2>2. IsFiniteSet(Workers) /\ Cardinality(Workers) \in Nat
    BY ThreadAssumption, FS_CardinalityType
  <2>3. IsFiniteSet(B)
    BY <2>1, <2>2, FS_Subset
  <2>4. IsFiniteSet(C) /\ Cardinality(C) <= Cardinality(Workers)
    BY <2>1, <2>2, FS_Subset
  <2>5. Cardinality(B) \in Nat /\ Cardinality(C) \in Nat
    BY <2>3, <2>4, FS_CardinalityType
  <2>6. Cardinality(B \union {w}) = Cardinality(B) + 1
    BY <2>1, <2>3, FS_AddElement
  <2>7. active' = active + 1 /\ active = Cardinality(B)
    BY DEF Begin, IInv, ActiveCounted
  <2> HIDE DEF B
  <2>8. active' = Cardinality(C)
    BY <2>1, <2>6, <2>7
  <2> QED BY <2>2, <2>4, <2>5, <2>8
<1>8. TypeOK'
  BY <1>2, <1>4, <1>6, <1>7 DEF IInv, TypeOK
<1>9. PlacesOK'
  BY <1>3, <1>4 DEF IInv, PlacesOK, Busy
<1>10. ActiveCounted'
  BY <1>7 DEF ActiveCounted
<1>11. JobsOK' /\ Holders' = Holders
  <2>1. \A v \in Workers : pc'[v] = pc[v] \/ (pc[v] = "begin" /\ pc'[v] \in {"loop", "run"})
    BY <1>1, <1>3, <1>4
  <2> QED BY <2>1, <1>2, SameJobs DEF Free
<1>12. HelpersHeld'
  BY <1>2 DEF IInv, HelpersHeld
<1>13. CallsOK'
  BY <1>1, <1>2, <1>3, <1>4, <1>6 DEF IInv, CallsOK, TypeOK
<1>14. HelpersServe'
  <2>1. pc'[w] = "loop" => helping
    BY <1>4 DEF l
  <2>2. pc'[w] # "returned" /\ (helping => pc'[w] # "run")
    BY <1>3, <1>4 DEF l
  <2>3. \A s \in Threads : pc'[s] \in {"loop", "fn"} =>
          \/ s \in open
          \/ s \in Workers /\ jobs[job[s]].kind = "helper" /\ serving'[s] = Main
    BY <2>1, <1>3, <1>4, <1>6 DEF IInv, HelpersServe
  <2>4. \A v \in Holders : jobs[job[v]].kind = "helper" => v \notin open /\ pc'[v] \notin {"run", "returned"}
    BY <2>2, <1>1, <1>4 DEF IInv, HelpersServe, Holders
  <2> QED BY <1>2, <1>11, <2>3, <2>4 DEF HelpersServe
<1>15. PartitionsShared' /\ PartitionsDone'
  BY <1>1, <1>2, <1>3, <1>4, <1>6, ServesOther DEF AtWork
<1> QED
  BY <1>8, <1>9, <1>10, <1>11, <1>12, <1>13, <1>14, <1>15 DEF IInv, JobsOK

\* A plain job that is run changes no call.
LEMMA RunInv ==
  ASSUME IInv, NEW w \in Workers, Run(w)
  PROVE  IInv'
<1> USE ThreadsAre
<1>1. pc[w] = "run" /\ w \notin open /\ pc[w] \notin Free \union {"end"} /\ Ends(w, "ready")
  BY DEF Run, IInv, CallsOK, Free
<1>2. UNCHANGED <<mutex, queue, stopping, active, submitted, job, calls>>
  BY DEF Run
<1>3. job[w] \in Jobs
  BY <1>1, Holds
<1>4. /\ jobs' \in [Jobs -> Records] /\ jobs'[job[w]].kind = jobs[job[w]].kind
      /\ pc'[w] = "end" /\ pc' \in [Threads -> Labels]
      /\ \A s \in Threads \ {w} : pc'[s] = pc[s]
  BY <1>1, <1>3, JobEnds DEF IInv
<1>5. /\ JobsOK' /\ Holders' = Holders
      /\ \A v \in Holders \ {w} : jobs'[job[v]] = jobs[job[v]]
  BY <1>1, <1>2, EndsJobs
<1>6. TypeOK'
  BY <1>2, <1>4 DEF IInv, TypeOK, calls
<1>7. PlacesOK'
  BY <1>4 DEF IInv, PlacesOK, Busy
<1>8. ActiveCounted'
  <2>1. {v \in Workers : pc'[v] \in Busy} = {v \in Workers : pc[v] \in Busy}
    BY <1>1, <1>4 DEF Busy
  <2> QED BY <1>2, <2>1 DEF IInv, ActiveCounted
<1>9. HelpersHeld'
  BY <1>1, <1>2, EndsHelpers DEF calls
<1>10. CallsOK'
  BY <1>1, <1>2, <1>4 DEF IInv, CallsOK, TypeOK, calls
<1>11. HelpersServe'
  <2>1. \A s \in Threads : pc'[s] \in {"loop", "fn"} => s # w /\ pc'[s] = pc[s]
    BY <1>4
  <2>2. \A s \in Workers : pc'[s] \in {"loop", "fn"} => s \in Holders \ {w}
    BY <2>1 DEF Holders, Free
  <2>3. \A s \in Threads : pc'[s] \in {"loop", "fn"} =>
          \/ s \in open
          \/ s \in Workers /\ jobs'[job[s]].kind = "helper" /\ serving[s] = Main
    BY <1>5, <2>1, <2>2 DEF IInv, HelpersServe
  <2>4. \A v \in Holders : jobs'[job[v]].kind = "helper" => v \notin open /\ pc'[v] \notin {"run", "returned"}
    BY <1>1, <1>4, <1>5 DEF IInv, HelpersServe, Holders
  <2> QED BY <1>2, <1>5, <2>3, <2>4 DEF HelpersServe, calls
<1>12. PartitionsShared' /\ PartitionsDone'
  BY <1>1, <1>2, <1>4, SamePartitions DEF AtWork, calls
<1> QED
  BY <1>5, <1>6, <1>7, <1>8, <1>9, <1>10, <1>11, <1>12 DEF IInv, JobsOK

\* One worker less is busy, and it holds no job.
LEMMA EndInv ==
  ASSUME IInv, NEW w \in Workers, End(w)
  PROVE  IInv'
<1> USE ThreadsAre
<1>1. pc[w] = "end" /\ w \notin open /\ w \in Holders
  BY DEF End, IInv, CallsOK, Holders, Free
<1>2. UNCHANGED <<mutex, queue, stopping, submitted, jobs, open, part, next, toSubmit, helpers, computed>>
  BY DEF End
<1>3. /\ pc' \in [Threads -> Labels] /\ pc'[w] = "look"
      /\ \A v \in Workers \ {w} : pc'[v] = pc[v]
      /\ pc'[Main] = pc[Main] \/ (pc[Main] = "drain_asleep" /\ pc'[Main] = "drain")
  BY DEF End, IInv, TypeOK, Labels
<1>4. /\ job' \in [Workers -> Jobs \union {0}] /\ \A v \in Workers \ {w} : job'[v] = job[v]
      /\ serving' \in [Threads -> Threads] /\ \A s \in Threads \ {w} : serving'[s] = serving[s]
  BY DEF End, IInv, TypeOK
<1>5. Holders' = Holders \ {w}
  BY <1>1, <1>3 DEF Holders, Free
<1>6. /\ active' = Cardinality({v \in Workers : pc'[v] \in Busy})
      /\ active' \in 0..Cardinality(Workers)
  <2> DEFINE B == {v \in Workers : pc[v] \in Busy}
             C == {v \in Workers : pc'[v] \in Busy}
  <2>1. C = B \ {w} /\ w \in B /\ B \in SUBSET Workers /\ C \in SUBSET Workers
    BY <1>1, <1>3 DEF Busy
  <2>2. IsFiniteSet(Workers) /\ Cardinality(Workers) \in Nat
    BY ThreadAssumption, FS_CardinalityType
  <2>3. IsFiniteSet(B)
    BY <2>1, <2>2, FS_Subset
  <2>4. IsFiniteSet(C) /\ Cardinality(C) <= Cardinality(Workers)
    BY <2>1, <2>2, FS_Subset
  <2>5. Cardinality(B) \in Nat /\ Cardinality(C) \in Nat
    BY <2>3, <2>4, FS_CardinalityType
  <2>6. Cardinality(B \ {w}) = Cardinality(B) - 1
    BY <2>1, <2>3, FS_RemoveElement
  <2>7. active' = active - 1 /\ active = Cardinality(B)
    BY DEF End, ActiveAfter, IInv, ActiveCounted
  <2> HIDE DEF B
  <2>8. active' = Cardinality(C)
    BY <2>1, <2>6, <2>7
  <2> QED BY <2>2, <2>4, <2>5, <2>8
<1>7. TypeOK'
  BY <1>2, <1>3, <1>4, <1>6 DEF IInv, TypeOK
<1>8. PlacesOK'
  BY <1>3 DEF IInv, PlacesOK, Free, AtRest
<1>9. ActiveCounted'
  BY <1>6 DEF ActiveCounted
<1>10. Numbered'
  BY <1>2 DEF IInv, Numbered
<1>11. QueueOrdered'
  <2>1. \A v \in Holders \ {w} : job'[v] = job[v]
    BY <1>4 DEF Holders
  <2> QED BY <1>2, <1>5, <2>1 DEF IInv, QueueOrdered
<1>12. HeldApart'
  <2>1. \A v \in Holders \ {w} : job'[v] = job[v] /\ pc'[v] = pc[v]
    BY <1>3, <1>4 DEF Holders
  <2> QED BY <1>2, <1>5, <2>1 DEF IInv, HeldApart
<1>13. HelpersHeld'
  BY <1>2 DEF IInv, HelpersHeld
<1>14. CallsOK'
  <2>1. \A t \in open : t \in Threads \ {w} /\ pc'[t] = pc[t] /\ serving'[t] = serving[t]
    BY <1>1, <1>3, <1>4 DEF IInv, CallsOK, TypeOK
  <2>2. \A t \in Threads : pc'[t] \in {"submit", "get"} => pc'[t] = pc[t]
    BY <1>3
  <2> QED BY <1>2, <2>1, <2>2 DEF IInv, CallsOK
<1>15. HelpersServe'
  <2>1. \A s \in Threads : pc'[s] \in {"loop", "fn"} => s # w /\ pc'[s] = pc[s]
    BY <1>3
  <2>2. \A s \in Threads : pc'[s] \in {"loop", "fn"} =>
          \/ s \in open
          \/ s \in Workers /\ jobs[job'[s]].kind = "helper" /\ serving'[s] = Main
    BY <1>4, <2>1 DEF IInv, HelpersServe
  <2>3. \A v \in Holders \ {w} : jobs[job'[v]].kind = "helper" => v \notin open /\ pc'[v] \notin {"run", "returned"}
    BY <1>3, <1>4 DEF IInv, HelpersServe, Holders
  <2> QED BY <1>2, <1>5, <2>2, <2>3 DEF HelpersServe
<1>16. PartitionsShared' /\ PartitionsDone'
  BY <1>1, <1>2, <1>3, <1>4, ServesOther DEF AtWork
<1> QED
  BY <1>7, <1>8, <1>9, <1>10, <1>11, <1>12, <1>13, <1>14, <1>15, <1>16 DEF IInv

(***************************************************************************)
(* Every step                                                              *)
(***************************************************************************)
LEMMA InitInv ==
  ASSUME Init
  PROVE  IInv
<1> USE ThreadsAre, JobAssumption DEF Init
<1>1. TypeOK
  <2>1. NoJob \in Records
    BY DEF NoJob, Job, Records
  <2>2. 0 \in 0..Cardinality(Workers)
    BY ThreadAssumption, FS_CardinalityType
  <2>3. pc \in [Threads -> Labels]
    BY DEF Labels
  <2>4. queue \in Seq(Jobs) /\ submitted \in 0..MaxJobs /\ jobs \in [Jobs -> Records]
    BY <2>1
  <2>5. part \in [Threads -> Partitions \union {0}] /\ job \in [Workers -> Jobs \union {0}]
    OBVIOUS
  <2>6. /\ serving \in [Threads -> Threads] /\ next \in [Threads -> Nat]
        /\ toSubmit \in [Threads -> Nat] /\ helpers \in [Threads -> SUBSET Jobs]
    OBVIOUS
  <2>7. computed \in [Threads -> [Partitions -> Nat]]
    OBVIOUS
  <2> QED BY <2>2, <2>3, <2>4, <2>5, <2>6, <2>7 DEF TypeOK
<1>2. \A w \in Workers : pc[w] = "look"
  OBVIOUS
<1>3. pc[Main] = "idle" /\ \A t \in Threads : pc[t] \in {"idle", "look"}
  OBVIOUS
<1>4. PlacesOK /\ Holders = {}
  BY <1>2, <1>3 DEF PlacesOK, Holders, Free, AtRest
<1>5. ActiveCounted
  <2>1. {w \in Workers : pc[w] \in Busy} = {}
    BY <1>2 DEF Busy
  <2> QED BY <2>1, FS_EmptySet DEF ActiveCounted
<1>6. Numbered /\ QueueOrdered /\ HeldApart
  BY <1>4 DEF Numbered, QueueOrdered, HeldApart, Jobs
<1>7. HelpersHeld
  BY DEF HelpersHeld, NoJob, Job
<1>8. CallsOK /\ HelpersServe
  BY <1>2, <1>3, <1>4 DEF CallsOK, HelpersServe
<1>9. PartitionsShared /\ PartitionsDone
  BY <1>3 DEF PartitionsShared, PartitionsDone
<1> QED
  BY <1>1, <1>4, <1>5, <1>6, <1>7, <1>8, <1>9 DEF IInv

\* Every step of the pool preserves the invariant while fn does not throw.
LEMMA StepInv ==
  ASSUME Throwing = {}, IInv, [SpuriousNext]_vars
  PROVE  IInv'
<1>1. CASE UNCHANGED vars
  BY <1>1, QuietStep DEF vars, calls, IInv, TypeOK
<1>2. CASE Starts
  <2>1. CASE \E k \in Kinds : Submit(k)
    BY <2>1, SubmitInv, JobAssumption
  <2>2. CASE \E d \in BOOLEAN : Shutdown(d)
    BY <2>2, ShutdownInv
  <2> QED BY <1>2, <2>1, <2>2 DEF Starts
<1>3. CASE Owner
  BY <1>3, DrainInv, ClearInv, ShutdownInv DEF Owner
<1>4. ASSUME NEW t \in Threads, Caller(t) PROVE IInv'
  <2>1. ~Throws(t)
    BY DEF Throws
  <2> QED
    BY <1>4, <2>1, CallInv, NotifyInv, SubmitHelperInv, TakeInv, ComputesInv, GetInv, ReturnsInv, LeaveInv
       DEF Caller, Proceeds
<1>5. ASSUME NEW w \in Workers, Worker(w) PROVE IInv'
  BY <1>5, LookInv, SleepInv, BeginInv, RunInv, EndInv DEF Worker
<1>6. ASSUME NEW t \in Threads, Spurious(t) PROVE IInv'
  BY <1>6, SleepInv
<1> QED
  BY <1>1, <1>2, <1>3, <1>4, <1>5, <1>6 DEF SpuriousNext, Next

(***************************************************************************)
(* Partitions and indices                                                  *)
(***************************************************************************)
LEMMA QuotientIs ==
  ASSUME NEW a \in Nat, NEW g \in Nat \ {0}
  PROVE  a \div g \in Nat /\ (a \div g) * g <= a /\ a < (a \div g) * g + g
OBVIOUS

\* What is used of products in the arithmetic of the partitions.
LEMMA Products ==
  ASSUME NEW p \in Nat, NEW q \in Nat, NEW g \in Nat
  PROVE  /\ p * g \in Nat /\ (p + 1) * g = p * g + g
         /\ p < q => p * g + g <= q * g
<1>1. p * g \in Nat /\ q * g \in Nat /\ (p + 1) * g = p * g + g
  OBVIOUS
<1>2. ASSUME p < q PROVE p * g + g <= q * g
  <2>1. q - p - 1 \in Nat
    BY <1>2
  <2>2. q * g = p * g + g + (q - p - 1) * g
    OBVIOUS
  <2>3. (q - p - 1) * g \in Nat
    BY <2>1
  <2> QED BY <1>1, <2>2, <2>3
<1> QED BY <1>1, <1>2

\* Every index is in one partition.
LEMMA OnePartition ==
  ASSUME NEW i \in 0..(Count - 1)
  PROVE  \E p \in Partitions : \A q \in Partitions : i \in Indices(q) <=> q = p
<1> USE CountAssumption
<1> DEFINE p == i \div Grain
<1>1. Count \in Nat /\ Grain \in Nat \ {0} /\ i \in Nat /\ i < Count
  OBVIOUS
<1>2. p \in Nat /\ p * Grain <= i /\ i < p * Grain + Grain
  BY <1>1, QuotientIs
<1>3. Count + Grain - 1 \in Nat
  BY <1>1
<1>4. PartitionCount \in Nat /\ Count + Grain - 1 < PartitionCount * Grain + Grain
  BY <1>1, <1>3, QuotientIs DEF PartitionCount
<1> HIDE DEF p
<1>5. p \in Partitions
  <2>1. i < PartitionCount * Grain
    <3>1. PartitionCount * Grain \in Nat
      BY <1>4, <1>1, Products
    <3> QED BY <1>1, <1>4, <3>1
  <2>2. p < PartitionCount
    <3> SUFFICES ASSUME ~(p < PartitionCount) PROVE FALSE
      OBVIOUS
    <3>1. PartitionCount * Grain \in Nat /\ p * Grain \in Nat
      BY <1>1, <1>2, <1>4, Products
    <3>2. CASE p = PartitionCount
      BY <3>2, <3>1, <2>1, <1>1, <1>2
    <3>3. CASE PartitionCount < p
      <4>1. PartitionCount * Grain + Grain <= p * Grain
        BY <3>3, <1>1, <1>2, <1>4, Products
      <4> QED BY <4>1, <3>1, <2>1, <1>1, <1>2
    <3> QED BY <1>2, <1>4, <3>2, <3>3
  <2> QED BY <1>2, <2>2, PartitionsAre
<1>6. ASSUME NEW q \in Partitions PROVE i \in Indices(q) <=> q = p
  <2>1. q \in Nat /\ q * Grain \in Nat /\ (q + 1) * Grain = q * Grain + Grain /\ p * Grain \in Nat
    BY <1>1, <1>2, PartitionsAre, Products
  <2>2. i \in Indices(q) <=> q * Grain <= i /\ i < q * Grain + Grain
    BY <1>1, <2>1 DEF Indices, Least
  <2>3. CASE q < p
    <3>1. q * Grain + Grain <= p * Grain
      BY <2>1, <2>3, <1>1, <1>2, Products
    <3> QED BY <2>1, <2>2, <2>3, <3>1, <1>1, <1>2
  <2>4. CASE p < q
    <3>1. p * Grain + Grain <= q * Grain
      BY <2>1, <2>4, <1>1, <1>2, Products
    <3> QED BY <2>1, <2>2, <2>4, <3>1, <1>1, <1>2
  <2>5. CASE q = p
    BY <2>2, <2>5, <1>2
  <2> QED BY <2>1, <2>3, <2>4, <2>5, <1>2
<1> QED BY <1>5, <1>6

(***************************************************************************)
(* Theorems                                                                *)
(***************************************************************************)

\* The inductive invariant, whatever wakes the sleepers.
THEOREM Invariance ==
  ASSUME Throwing = {}
  PROVE  SpuriousSpec => []IInv
<1>1. Init => IInv
  BY InitInv
<1>2. IInv /\ [SpuriousNext]_vars => IInv'
  BY StepInv
<1> QED BY <1>1, <1>2, PTL DEF SpuriousSpec

\* The pool keeps its types, and no more jobs are active than there are
\* workers: TypeOK of JobSystem.
THEOREM TypeCorrect ==
  ASSUME Throwing = {}
  PROVE  SpuriousSpec => []TypeOK
<1>1. IInv => TypeOK
  BY DEF IInv
<1> QED BY <1>1, Invariance, PTL

\* parallelForPartitions of a fn that does not throw is synchronous: no helper
\* job refers to a call that has returned.
THEOREM CallsAreSynchronous ==
  ASSUME Throwing = {}
  PROVE  SpuriousSpec => []Synchronous
<1>1. IInv => Synchronous
  BY DEF IInv, HelpersHeld, Synchronous, Unfinished
<1> QED BY <1>1, Invariance, PTL

\* When parallelForPartitions returns, fn was called once for every index, for
\* any count, grain and number of workers.
THEOREM IndicesAreComputed ==
  ASSUME Throwing = {}
  PROVE  SpuriousSpec => []EachIndexOnce
<1>1. IInv => EachIndexOnce
  <2> SUFFICES ASSUME IInv, NEW t \in Threads, pc[t] = "returned", NEW i \in 0..(Count - 1)
               PROVE  \E p \in Partitions :
                        /\ computed[t][p] = 1
                        /\ {q \in Partitions : computed[t][q] > 0 /\ i \in Indices(q)} = {p}
    BY DEF EachIndexOnce
  <2>1. \A p \in Partitions : computed[t][p] = 1
    BY DEF IInv, PartitionsDone
  <2>2. PICK p \in Partitions : \A q \in Partitions : i \in Indices(q) <=> q = p
    BY OnePartition
  <2> QED BY <2>1, <2>2
<1> QED BY <1>1, Invariance, PTL

\* The same without spurious wake-ups, for the fair pool of the liveness runs.
THEOREM FairPool ==
  ASSUME Throwing = {}
  PROVE  Spec => [](TypeOK /\ Synchronous /\ EachIndexOnce)
<1>1. [Next]_vars => [SpuriousNext]_vars
  BY DEF SpuriousNext
<1>2. Spec => SpuriousSpec
  BY <1>1, PTL DEF Spec, SpuriousSpec
<1> QED BY <1>2, TypeCorrect, CallsAreSynchronous, IndicesAreComputed, PTL

=============================================================================
