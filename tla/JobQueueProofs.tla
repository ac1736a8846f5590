--------------------------- MODULE JobQueueProofs ---------------------------
(***************************************************************************)
(* The queue of JobSystem for any number of workers, any jobs and an fn    *)
(* that may throw anywhere: no wake-up is lost and no job is forgotten.    *)
(* The theorems of JobSystemProofs about the calls need an fn that does    *)
(* not throw; these do not, and they are about SpuriousSpec.               *)
(***************************************************************************)
EXTENDS JobSystemProofs

Working == Labels \ {"look", "block", "asleep", "exited", "end"}

\* A worker that has finished no job runs the one it has taken.
LEMMA RunsIs ==
  ASSUME TypeOK, NEW w \in Workers, NEW i
  PROVE  Runs(w, i) <=> job[w] = i /\ pc[w] \in Working
BY ThreadsAre DEF Runs, Working, TypeOK

(***************************************************************************)
(* Counting who looks and who notifies                                     *)
(***************************************************************************)
Looking == {w \in Workers : pc[w] = "look"}
Notifying == {t \in Threads : pc[t] = "notify"}

\* Only the owner notifies.
LEMMA CountsAre ==
  ASSUME PlacesOK
  PROVE  /\ IsFiniteSet(Looking) /\ Cardinality(Looking) \in Nat
         /\ Cardinality(Notifying) = IF pc[Main] = "notify" THEN 1 ELSE 0
<1> USE ThreadsAre
<1>1. IsFiniteSet(Workers) /\ Looking \subseteq Workers
  BY ThreadAssumption DEF Looking
<1>2. IsFiniteSet(Looking)
  BY <1>1, FS_Subset
<1>3. Cardinality(Looking) \in Nat
  BY <1>2, FS_CardinalityType
<1>4. Notifying = IF pc[Main] = "notify" THEN {Main} ELSE {}
  BY DEF Notifying, PlacesOK, Free, Busy
<1>5. Cardinality({Main}) = 1 /\ Cardinality({}) = 0
  BY FS_Singleton, FS_EmptySet
<1> QED BY <1>2, <1>3, <1>4, <1>5

\* The same after a step.
LEMMA CountsNext ==
  ASSUME PlacesOK'
  PROVE  /\ IsFiniteSet(Looking') /\ Cardinality(Looking') \in Nat
         /\ Cardinality(Notifying') = IF pc'[Main] = "notify" THEN 1 ELSE 0
<1> USE ThreadsAre
<1>1. IsFiniteSet(Workers) /\ Looking' \subseteq Workers
  BY ThreadAssumption DEF Looking
<1>2. IsFiniteSet(Looking')
  BY <1>1, FS_Subset
<1>3. Cardinality(Looking') \in Nat
  BY <1>2, FS_CardinalityType
<1>4. Notifying' = IF pc'[Main] = "notify" THEN {Main} ELSE {}
  BY DEF Notifying, PlacesOK, Free, Busy
<1>5. Cardinality({Main}) = 1 /\ Cardinality({}) = 0
  BY FS_Singleton, FS_EmptySet
<1> QED BY <1>2, <1>3, <1>4, <1>5

\* NoLostWakeup in terms of these sets.
LEMMA WakeupIs ==
  /\ NoLostWakeup <=>
       ((\E w \in Workers : pc[w] = "asleep") =>
          Len(queue) <= Cardinality(Looking) + Cardinality(Notifying))
  /\ NoLostWakeup' <=>
       ((\E w \in Workers : pc'[w] = "asleep") =>
          Len(queue') <= Cardinality(Looking') + Cardinality(Notifying'))
BY DEF NoLostWakeup, Looking, Notifying

\* A step that sends nobody to sleep, takes nothing from the queue or adds to
\* it, and keeps those that look and notify.
LEMMA WakeupsKept ==
  ASSUME QueueInv, PlacesOK', queue' = queue,
         \A w \in Workers : /\ pc'[w] = "asleep" => pc[w] = "asleep"
                            /\ pc[w] = "look" => pc'[w] = "look",
         pc[Main] = "notify" => pc'[Main] = "notify"
  PROVE  NoLostWakeup'
<1>1. Looking \subseteq Looking'
  BY DEF Looking
<1>2. Cardinality(Looking) <= Cardinality(Looking')
  BY <1>1, CountsNext, FS_Subset
<1>3. PlacesOK /\ NoLostWakeup /\ Len(queue) \in Nat
  BY DEF QueueInv, TypeOK
<1>4. Cardinality(Notifying) <= Cardinality(Notifying')
  BY <1>3, CountsAre, CountsNext
<1>5. /\ Cardinality(Looking) \in Nat /\ Cardinality(Looking') \in Nat
      /\ Cardinality(Notifying) \in Nat /\ Cardinality(Notifying') \in Nat
  BY <1>3, CountsAre, CountsNext
<1> QED BY <1>2, <1>3, <1>4, <1>5, WakeupIs

\* An empty queue, or a pool in which nobody sleeps, owes no wake-up.
LEMMA NothingOwed ==
  ASSUME PlacesOK', queue' = <<>> \/ \A w \in Workers : pc'[w] # "asleep"
  PROVE  NoLostWakeup'
<1>1. CASE queue' = <<>>
  <2>1. Len(queue') = 0
    BY <1>1
  <2>2. Cardinality(Looking') \in Nat /\ Cardinality(Notifying') \in Nat
    BY CountsNext
  <2> QED BY <2>1, <2>2, WakeupIs
<1>2. CASE \A w \in Workers : pc'[w] # "asleep"
  BY <1>2, WakeupIs
<1> QED BY <1>1, <1>2

\* The owner submits and is about to notify.
LEMMA WakeupAdded ==
  ASSUME QueueInv, PlacesOK', Len(queue') = Len(queue) + 1,
         \A w \in Workers : pc'[w] = pc[w], pc[Main] # "notify", pc'[Main] = "notify"
  PROVE  NoLostWakeup'
<1>1. Looking' = Looking
  BY DEF Looking
<1>2. PlacesOK /\ NoLostWakeup /\ Len(queue) \in Nat
  BY DEF QueueInv, TypeOK
<1>3. /\ Cardinality(Looking) \in Nat
      /\ Cardinality(Notifying) = 0 /\ Cardinality(Notifying') = 1
  BY <1>2, CountsAre, CountsNext
<1>4. (\E w \in Workers : pc'[w] = "asleep") <=> \E w \in Workers : pc[w] = "asleep"
  OBVIOUS
<1> QED BY <1>1, <1>2, <1>3, <1>4, WakeupIs

\* The owner notifies and a sleeper wakes.
LEMMA WakeupPassed ==
  ASSUME QueueInv, PlacesOK', queue' = queue, NEW w \in Workers, pc[w] = "asleep", pc'[w] = "look",
         \A v \in Workers \ {w} : pc'[v] = pc[v], pc[Main] = "notify", pc'[Main] # "notify"
  PROVE  NoLostWakeup'
<1>1. PlacesOK /\ NoLostWakeup /\ Len(queue) \in Nat
  BY DEF QueueInv, TypeOK
<1>2. Looking' = Looking \union {w} /\ w \notin Looking
  BY DEF Looking
<1>3. /\ IsFiniteSet(Looking) /\ Cardinality(Looking) \in Nat
      /\ Cardinality(Notifying) = 1 /\ Cardinality(Notifying') = 0
  BY <1>1, CountsAre, CountsNext
<1>4. Cardinality(Looking \union {w}) = Cardinality(Looking) + 1
  BY <1>2, <1>3, FS_AddElement
<1>5. Cardinality(Looking') = Cardinality(Looking) + 1
  BY <1>2, <1>4
<1>6. Len(queue) <= Cardinality(Looking) + Cardinality(Notifying)
  BY <1>1, WakeupIs
<1> QED BY <1>1, <1>3, <1>5, <1>6, WakeupIs

\* A worker that looked takes a job.
LEMMA WakeupUsed ==
  ASSUME QueueInv, PlacesOK', Len(queue') = Len(queue) - 1, NEW w \in Workers,
         pc[w] = "look", pc'[w] = "begin", \A t \in Threads \ {w} : pc'[t] = pc[t]
  PROVE  NoLostWakeup'
<1> USE ThreadsAre
<1>1. PlacesOK /\ NoLostWakeup /\ Len(queue) \in Nat
  BY DEF QueueInv, TypeOK
<1>2. Looking' = Looking \ {w} /\ w \in Looking
  BY DEF Looking
<1>3. /\ IsFiniteSet(Looking) /\ Cardinality(Looking) \in Nat
      /\ Cardinality(Notifying) \in Nat /\ Cardinality(Notifying') = Cardinality(Notifying)
  BY <1>1, CountsAre, CountsNext
<1>4. Cardinality(Looking \ {w}) = Cardinality(Looking) - 1
  BY <1>2, <1>3, FS_RemoveElement
<1>5. Cardinality(Looking') = Cardinality(Looking) - 1
  BY <1>2, <1>4
<1>6. (\E v \in Workers : pc'[v] = "asleep") => \E v \in Workers : pc[v] = "asleep"
  <2>1. \A v \in Workers : pc'[v] = "asleep" => pc[v] = "asleep"
    OBVIOUS
  <2> QED BY <2>1
<1> QED BY <1>1, <1>3, <1>5, <1>6, WakeupIs

(***************************************************************************)
(* Jobs that stay where they are                                           *)
(***************************************************************************)
LEMMA JobsKept ==
  ASSUME QueueInv, TypeOK', queue' = queue,
         \A i \in Jobs : jobs'[i].future = "pending" => jobs[i].future = "pending",
         \A w \in Workers : /\ pc'[w] = "exited" => pc[w] = "exited"
                            /\ pc[w] \in Working =>
                                 \/ pc'[w] \in Working /\ job'[w] = job[w]
                                 \/ jobs'[job[w]].future # "pending"
  PROVE  NoJobLost'
<1> SUFFICES ASSUME NEW i \in Jobs, jobs'[i].future = "pending"
             PROVE  \/ \E w \in Workers : Runs(w, i)'
                    \/ /\ \E n \in 1..Len(queue) : queue[n] = i
                       /\ \E w \in Workers : pc'[w] # "exited"
  BY DEF NoJobLost
<1>1. \/ \E w \in Workers : Runs(w, i)
      \/ /\ \E n \in 1..Len(queue) : queue[n] = i
         /\ \E w \in Workers : pc[w] # "exited"
  BY DEF QueueInv, NoJobLost
<1>2. CASE \E w \in Workers : Runs(w, i)
  <2>1. PICK w \in Workers : job[w] = i /\ pc[w] \in Working
    BY <1>2, RunsIs DEF QueueInv
  <2>2. job'[w] = i /\ pc'[w] \in Working
    BY <2>1
  <2>3. Runs(w, i)'
    BY <2>2 DEF Runs, Working
  <2> QED BY <2>3
<1>3. CASE /\ \E n \in 1..Len(queue) : queue[n] = i
           /\ \E w \in Workers : pc[w] # "exited"
  BY <1>3
<1> QED BY <1>1, <1>2, <1>3

(***************************************************************************)
(* Steps of one thread that is in no queue and no lock                     *)
(***************************************************************************)

\* The workers that are busy are counted, whatever they do next.
LEMMA BusyKept ==
  ASSUME QueueInv, active' = active,
         \A w \in Workers : pc'[w] \in Busy <=> pc[w] \in Busy
  PROVE  ActiveCounted'
<1>1. {w \in Workers : pc'[w] \in Busy} = {w \in Workers : pc[w] \in Busy}
  OBVIOUS
<1> QED BY <1>1 DEF QueueInv, ActiveCounted

\* A thread goes on in a call, a job or fn, and may end the job it runs.
LEMMA ThreadStep ==
  ASSUME QueueInv, TypeOK', NEW t \in Threads,
         UNCHANGED <<mutex, queue, stopping, active, submitted, job>>,
         \A s \in Threads \ {t} : pc'[s] = pc[s],
         IF t = Main
           THEN /\ pc[t] \in {"idle", "loop", "fn", "get", "returned"}
                /\ pc'[t] \in {"idle", "submit", "loop", "fn", "get", "returned"}
           ELSE pc[t] \in Busy \ {"end"} /\ pc'[t] \in Busy,
         pc'[Main] = "submit" => toSubmit'[Main] > 0, serving'[Main] = Main,
         \A i \in Jobs : jobs'[i].future = "pending" => jobs[i].future = "pending",
         t \in Workers /\ pc'[t] = "end" => jobs'[job[t]].future # "pending"
  PROVE  QueueInv'
<1> USE ThreadsAre
<1>1. PlacesOK'
  BY DEF QueueInv, PlacesOK, Busy, Free, AtRest
<1>2. \A w \in Workers : /\ pc'[w] \in Busy <=> pc[w] \in Busy
                         /\ pc'[w] \in Free <=> pc[w] \in Free
                         /\ pc'[w] \in Free => pc'[w] = pc[w]
  BY DEF Busy, Free
<1>3. ActiveCounted'
  BY <1>2, BusyKept
<1>4. \A w \in Holders' : job'[w] \in Jobs
  BY <1>2 DEF Holders, QueueInv
<1>5. LockHeld' /\ ExitsLast'
  <2>1. \A w \in Workers : pc'[w] \in {"block", "exited"} => pc'[w] = pc[w]
    BY <1>2 DEF Free
  <2>2. pc'[Main] = "drain_block" => pc[Main] = "drain_block"
    OBVIOUS
  <2> QED BY <2>1, <2>2 DEF QueueInv, LockHeld, ExitsLast
<1>6. NoLostWakeup'
  <2>1. \A w \in Workers : /\ pc'[w] = "asleep" => pc[w] = "asleep"
                           /\ pc[w] = "look" => pc'[w] = "look"
    BY <1>2 DEF Free, Busy
  <2>2. pc[Main] = "notify" => pc'[Main] = "notify"
    OBVIOUS
  <2> QED BY <1>1, <2>1, <2>2, WakeupsKept
<1>7. NoJobLost'
  <2>1. \A w \in Workers : /\ pc'[w] = "exited" => pc[w] = "exited"
                           /\ pc[w] \in Working =>
                                \/ pc'[w] \in Working /\ job'[w] = job[w]
                                \/ jobs'[job[w]].future # "pending"
    BY <1>2 DEF Free, Busy, Working, Labels
  <2> QED BY <2>1, JobsKept
<1> QED BY <1>1, <1>3, <1>4, <1>5, <1>6, <1>7 DEF QueueInv

\* Threads sleep, wake and rest; the owner may ask the pool to stop.
LEMMA RestStep ==
  ASSUME QueueInv, UNCHANGED <<queue, active, submitted, jobs, job, calls>>,
         mutex' \in Threads \union {NoThread}, stopping' \in BOOLEAN, stopping => stopping',
         pc' \in [Threads -> Labels],
         \A w \in Workers : pc'[w] = pc[w] \/ (pc[w] = "asleep" /\ pc'[w] = "look"),
         pc'[Main] = pc[Main] \/ (pc[Main] \in AtRest /\ pc'[Main] \in AtRest),
         LockHeld'
  PROVE  QueueInv'
<1> USE ThreadsAre DEF calls
<1>1. TypeOK'
  BY DEF QueueInv, TypeOK
<1>2. PlacesOK'
  BY DEF QueueInv, PlacesOK, Free
<1>3. \A w \in Workers : pc'[w] \in Busy <=> pc[w] \in Busy
  BY DEF Busy
<1>4. ActiveCounted'
  BY <1>3, BusyKept
<1>5. \A w \in Holders' : job'[w] \in Jobs
  BY DEF Holders, QueueInv, Free
<1>6. pc'[Main] = "submit" => toSubmit'[Main] > 0
  BY DEF QueueInv, AtRest
<1>7. ExitsLast'
  BY DEF QueueInv, ExitsLast
<1>8. NoLostWakeup'
  BY <1>2, WakeupsKept DEF AtRest
<1>9. NoJobLost'
  BY <1>1, JobsKept DEF Working
<1>10. serving'[Main] = Main
  BY DEF QueueInv
<1> QED BY <1>1, <1>2, <1>4, <1>5, <1>6, <1>7, <1>8, <1>9, <1>10 DEF QueueInv

(***************************************************************************)
(* The owner: drain, shutdown and join                                     *)
(***************************************************************************)
\* drain and the sleep of the owner and of the workers hand the lock over
\* properly.
LEMMA DrainQueue ==
  ASSUME QueueInv, Drain \/ DrainBlocks
  PROVE  QueueInv'
<1> USE ThreadsAre
<1>1. UNCHANGED <<queue, active, submitted, jobs, job, calls, stopping>>
  BY DEF Drain, DrainBlocks
<1>2. PICK l \in {"idle", "drain_block", "drain_asleep"} : Goes(Main, l) /\ pc[Main] \in AtRest
  BY DEF Drain, DrainBlocks, AtRest
<1>3. l \in Labels /\ l \in AtRest
  BY DEF Labels, AtRest
<1>4. /\ pc'[Main] = l /\ pc' \in [Threads -> Labels]
      /\ \A w \in Workers : pc'[w] = pc[w]
  BY <1>2, <1>3, GoesTo DEF QueueInv
<1>5. mutex' \in Threads \union {NoThread} /\ stopping' \in BOOLEAN
  BY <1>1 DEF Drain, DrainBlocks, QueueInv, TypeOK
<1>6. LockHeld'
  <2>1. CASE Drain
    <3>1. \A w \in Workers : pc[w] # "block"
      BY <2>1, ThreadAssumption DEF Drain, QueueInv, LockHeld, Threads
    <3>2. l = "drain_block" => mutex' = Main
      BY <2>1, <1>4, <1>3 DEF Drain, Goes, QueueInv, TypeOK
    <3> QED BY <1>4, <3>1, <3>2 DEF LockHeld
  <2>2. CASE DrainBlocks
    <3>1. \A w \in Workers : pc[w] # "block"
      BY <2>2, ThreadAssumption DEF DrainBlocks, QueueInv, LockHeld, Threads
    <3>2. l = "drain_asleep"
      BY <2>2, <1>4 DEF DrainBlocks, Goes, QueueInv, TypeOK
    <3> QED BY <1>4, <3>1, <3>2 DEF LockHeld
  <2> QED BY <2>1, <2>2
<1> QED
  BY <1>1, <1>3, <1>4, <1>2, <1>5, <1>6, RestStep

\* Shutting down, waking the workers and joining them queues nothing and takes
\* nothing from the queue.
LEMMA ShutdownQueue ==
  ASSUME QueueInv, (\E d \in BOOLEAN : Shutdown(d)) \/ WakeAll \/ Join
  PROVE  QueueInv'
<1> USE ThreadsAre
<1>1. UNCHANGED <<mutex, queue, active, submitted, jobs, job, calls>>
  BY DEF Shutdown, WakeAll, Join, pool
<1>2. stopping' \in BOOLEAN /\ (stopping => stopping') /\ mutex' \in Threads \union {NoThread}
  BY <1>1 DEF Shutdown, WakeAll, Join, pool, QueueInv, TypeOK
<1>3. /\ pc[Main] \in AtRest /\ pc'[Main] \in AtRest \ {"drain_block"} /\ pc' \in [Threads -> Labels]
      /\ \A w \in Workers : pc'[w] = pc[w] \/ (pc[w] = "asleep" /\ pc'[w] = "look")
  <2>1. CASE \E d \in BOOLEAN : Shutdown(d)
    <3>1. PICK l \in {"wake", "clear"} : Goes(Main, l) /\ pc[Main] = "idle"
      BY <2>1 DEF Shutdown
    <3>2. l \in Labels /\ l \in AtRest \ {"drain_block"} /\ pc[Main] \in AtRest
      BY <3>1 DEF Labels, AtRest
    <3> QED BY <3>1, <3>2, GoesTo DEF QueueInv
  <2>2. CASE WakeAll
    BY <2>2 DEF WakeAll, QueueInv, TypeOK, AtRest, Labels
  <2>3. CASE Join
    <3>1. Goes(Main, "stopped") /\ pc[Main] = "join"
      BY <2>3 DEF Join
    <3>2. "stopped" \in Labels /\ "stopped" \in AtRest \ {"drain_block"} /\ pc[Main] \in AtRest
      BY <3>1 DEF Labels, AtRest
    <3> QED BY <3>1, <3>2, GoesTo DEF QueueInv
  <2> QED BY <2>1, <2>2, <2>3
<1>4. LockHeld'
  BY <1>1, <1>3 DEF QueueInv, LockHeld
<1> QED
  BY <1>1, <1>2, <1>3, <1>4, RestStep

\* A spurious wake-up makes one more worker look, which no claim of the invariant
\* minds.
LEMMA SpuriousQueue ==
  ASSUME QueueInv, NEW t \in Threads, Spurious(t)
  PROVE  QueueInv'
<1> USE ThreadsAre
<1>1. UNCHANGED <<mutex, stopping, queue, active, submitted, jobs, job, calls>>
  BY DEF Spurious, pool
<1>2. stopping' \in BOOLEAN /\ mutex' \in Threads \union {NoThread}
  BY <1>1 DEF QueueInv, TypeOK
<1> DEFINE l == IF t = Main THEN "drain" ELSE "look"
<1>3. pc[t] \in {"asleep", "drain_asleep"} /\ Goes(t, l) /\ l \in Labels
  BY DEF Spurious, Labels
<1>4. pc'[t] = l /\ pc' \in [Threads -> Labels] /\ \A s \in Threads \ {t} : pc'[s] = pc[s]
  BY <1>3, GoesTo DEF QueueInv
<1>5. /\ \A w \in Workers : pc'[w] = pc[w] \/ (pc[w] = "asleep" /\ pc'[w] = "look")
      /\ pc'[Main] = pc[Main] \/ (pc[Main] \in AtRest /\ pc'[Main] \in AtRest \ {"drain_block"})
  BY <1>3, <1>4 DEF QueueInv, PlacesOK, Free, Busy, AtRest
<1>6. LockHeld'
  BY <1>1, <1>5 DEF QueueInv, LockHeld
<1> QED
  BY <1>1, <1>2, <1>4, <1>5, <1>6, RestStep

\* The queue is dropped, and every promise in it broken.
LEMMA ClearQueueStep ==
  ASSUME QueueInv, ClearQueue
  PROVE  QueueInv'
<1> USE ThreadsAre
<1>1. pc[Main] = "clear" /\ queue' = <<>> /\ UNCHANGED <<mutex, stopping, active, submitted, job, calls>>
  BY DEF ClearQueue
<1>2. pc'[Main] = "wake" /\ pc' \in [Threads -> Labels] /\ \A w \in Workers : pc'[w] = pc[w]
  BY GoesTo DEF ClearQueue, QueueInv, Labels
<1> DEFINE Queued == {i \in Jobs : \E n \in 1..Len(queue) : queue[n] = i}
<1>3. jobs' = [i \in Jobs |-> IF i \in Queued THEN [jobs[i] EXCEPT !.future = "broken"] ELSE jobs[i]]
  BY DEF ClearQueue
<1> HIDE DEF Queued
<1>4. \A i \in Jobs : /\ jobs[i] \in Records
                      /\ i \in Queued => /\ jobs'[i] \in Records
                                         /\ jobs'[i].future = "broken"
                      /\ i \notin Queued => jobs'[i] = jobs[i]
  <2> TAKE i \in Jobs
  <2>1. jobs[i] \in Records
    BY DEF QueueInv, TypeOK
  <2>2. [jobs[i] EXCEPT !.future = "broken"] \in Records /\ [jobs[i] EXCEPT !.future = "broken"].future = "broken"
    BY <2>1 DEF Records
  <2> QED BY <1>3, <2>1, <2>2
<1>5. jobs' \in [Jobs -> Records]
  <2>1. \A i \in Jobs : jobs'[i] \in Records
    BY <1>4
  <2>2. jobs' = [i \in Jobs |-> jobs'[i]]
    BY <1>3
  <2> QED BY <2>1, <2>2
<1>6. TypeOK'
  BY <1>1, <1>2, <1>5 DEF QueueInv, TypeOK, calls
<1>7. PlacesOK'
  BY <1>2 DEF QueueInv, PlacesOK, AtRest
<1>8. ActiveCounted'
  BY <1>1, <1>2, BusyKept
<1>9. \A w \in Holders' : job'[w] \in Jobs
  BY <1>1, <1>2 DEF Holders, QueueInv
<1>10. LockHeld' /\ ExitsLast'
  BY <1>1, <1>2 DEF QueueInv, LockHeld, ExitsLast
<1>11. NoLostWakeup'
  BY <1>1, <1>7, NothingOwed
<1>12. NoJobLost'
  <2> SUFFICES ASSUME NEW i \in Jobs, jobs'[i].future = "pending"
               PROVE  \E w \in Workers : Runs(w, i)'
    BY DEF NoJobLost
  <2>1. i \notin Queued /\ jobs[i].future = "pending"
    BY <1>4
  <2>2. PICK w \in Workers : Runs(w, i)
    BY <2>1 DEF QueueInv, NoJobLost, Queued
  <2> QED BY <1>1, <1>2, <2>2 DEF Runs
<1> QED
  BY <1>1, <1>2, <1>6, <1>7, <1>8, <1>9, <1>10, <1>11, <1>12 DEF QueueInv, calls

(***************************************************************************)
(* submit and its notification                                             *)
(***************************************************************************)

\* A job is pushed by the owner, who goes on to notify: no worker that has
\* left, or that is about to sleep, missed it.
LEMMA PushStep ==
  ASSUME QueueInv, TypeOK', NEW k \in {"plain", "caller", "helper"}, Push(Main, k),
         UNCHANGED <<job, serving>>, pc[Main] \in {"idle", "submit"}, pc'[Main] = "notify",
         \A w \in Workers : pc'[w] = pc[w]
  PROVE  QueueInv'
<1> USE ThreadsAre
<1>1. /\ ~stopping /\ mutex = NoThread /\ UNCHANGED <<mutex, stopping, active>>
      /\ submitted + 1 \in Jobs
      /\ queue \in Seq(Jobs) /\ Len(queue') = Len(queue) + 1 /\ Len(queue) \in Nat
      /\ queue'[Len(queue) + 1] = submitted + 1
      /\ \A n \in 1..Len(queue) : queue'[n] = queue[n]
      /\ \A i \in Jobs \ {submitted + 1} : jobs'[i] = jobs[i]
  BY Pushed DEF QueueInv, TypeOK, Push
<1>2. \A w \in Workers : pc[w] \notin {"block", "exited"}
  BY <1>1, ThreadAssumption DEF QueueInv, LockHeld, ExitsLast, Threads
<1>3. PlacesOK'
  BY DEF QueueInv, PlacesOK
<1>4. ActiveCounted'
  BY <1>1, BusyKept
<1>5. \A w \in Holders' : job'[w] \in Jobs
  BY DEF Holders, QueueInv
<1>6. LockHeld' /\ ExitsLast'
  BY <1>2 DEF LockHeld, ExitsLast
<1>7. NoLostWakeup'
  BY <1>1, <1>3, WakeupAdded
<1>8. NoJobLost'
  <2> SUFFICES ASSUME NEW i \in Jobs, jobs'[i].future = "pending"
               PROVE  \/ \E w \in Workers : Runs(w, i)'
                      \/ /\ \E n \in 1..Len(queue') : queue'[n] = i
                         /\ \E w \in Workers : pc'[w] # "exited"
    BY DEF NoJobLost
  <2>1. \E w \in Workers : pc'[w] # "exited"
    BY <1>2, ThreadAssumption
  <2>2. CASE i = submitted + 1
    BY <1>1, <2>1, <2>2
  <2>3. CASE i # submitted + 1
    <3>1. jobs[i].future = "pending"
      BY <1>1, <2>3
    <3>2. CASE \E w \in Workers : Runs(w, i)
      BY <3>2 DEF Runs
    <3>3. ASSUME NEW n \in 1..Len(queue), queue[n] = i PROVE n \in 1..Len(queue') /\ queue'[n] = i
      BY <3>3, <1>1
    <3> QED BY <3>1, <3>2, <3>3, <2>1 DEF QueueInv, NoJobLost
  <2> QED BY <2>2, <2>3
<1> QED
  BY <1>3, <1>4, <1>5, <1>6, <1>7, <1>8 DEF QueueInv

\* submit puts its job in the queue while a worker is left, and has still to
\* notify: the job is accounted for.
LEMMA SubmitQueue ==
  ASSUME QueueInv, NEW k \in {"plain", "caller"}, Submit(k)
  PROVE  QueueInv'
<1> USE ThreadsAre
<1>1. /\ pc[Main] = "idle" /\ pc'[Main] = "notify"
      /\ \A w \in Workers : pc'[w] = pc[w]
      /\ pc' \in [Threads -> Labels]
  BY GoesTo DEF Submit, Labels, QueueInv
<1>2. Push(Main, k) /\ UNCHANGED <<job, calls>>
  BY DEF Submit
<1>3. TypeOK'
  <2>1. TypeOK
    BY DEF QueueInv
  <2>2. /\ submitted' \in 0..MaxJobs /\ queue' \in Seq(Jobs) /\ jobs' \in [Jobs -> Records]
        /\ UNCHANGED <<mutex, stopping, active>>
    BY <1>2, <2>1, Pushed
  <2> QED BY <1>1, <1>2, <2>1, <2>2 DEF TypeOK, calls
<1> QED BY <1>1, <1>2, <1>3, PushStep DEF calls

\* A helper of parallelFor is queued as submit queues any job.
LEMMA SubmitHelperQueue ==
  ASSUME QueueInv, NEW t \in Threads, SubmitHelper(t)
  PROVE  QueueInv'
<1> USE ThreadsAre
<1>1. t = Main /\ pc[Main] = "submit" /\ toSubmit[Main] > 0
  BY DEF SubmitHelper, QueueInv, PlacesOK, Free, Busy
<1>2. /\ Push(Main, "helper") /\ UNCHANGED <<job, open, serving, part, next, computed>>
      /\ helpers' = [helpers EXCEPT ![Main] = @ \union {submitted + 1}]
      /\ toSubmit' = [toSubmit EXCEPT ![Main] = @ - 1]
  BY <1>1 DEF SubmitHelper
<1>3. /\ pc'[Main] = "notify" /\ pc' \in [Threads -> Labels]
      /\ \A w \in Workers : pc'[w] = pc[w]
  BY <1>1, GoesTo DEF SubmitHelper, Labels, QueueInv
<1>4. submitted + 1 \in Jobs /\ UNCHANGED <<mutex, stopping, active>>
  BY <1>2, Pushed DEF QueueInv
<1>5. helpers' \in [Threads -> SUBSET Jobs] /\ toSubmit' \in [Threads -> Nat]
  BY <1>1, <1>2, <1>4 DEF QueueInv, TypeOK
<1>6. submitted' \in 0..MaxJobs /\ queue' \in Seq(Jobs) /\ jobs' \in [Jobs -> Records]
  BY <1>2, Pushed DEF QueueInv
<1>7. TypeOK'
  BY <1>2, <1>3, <1>4, <1>5, <1>6 DEF QueueInv, TypeOK
<1> QED BY <1>1, <1>2, <1>3, <1>7, PushStep

\* A notification wakes a sleeper, which will look, or finds nobody asleep.
LEMMA NotifyQueue ==
  ASSUME QueueInv, NEW t \in Threads, Notify(t)
  PROVE  QueueInv'
<1> USE ThreadsAre
<1> DEFINE on == IF t \notin open THEN "idle" ELSE IF toSubmit[t] = 0 THEN "loop" ELSE "submit"
<1>1. t = Main /\ pc[Main] = "notify" /\ UNCHANGED <<pool, job, calls>>
  BY DEF Notify, QueueInv, PlacesOK, Free, Busy
<1>2. on \in Labels /\ on \in {"idle", "loop", "submit"} /\ (on = "submit" => toSubmit[Main] > 0)
  BY <1>1 DEF Labels, QueueInv, TypeOK
<1>3. \/ /\ \A w \in Workers : pc[w] # "asleep" /\ pc'[w] = pc[w]
         /\ pc'[Main] = on /\ pc' \in [Threads -> Labels]
      \/ /\ pc'[Main] = on /\ pc' \in [Threads -> Labels]
         /\ \E w \in Workers : /\ pc[w] = "asleep" /\ pc'[w] = "look"
                               /\ \A v \in Workers \ {w} : pc'[v] = pc[v]
  <2>1. CASE Goes(t, on) /\ {w \in Workers : pc[w] = "asleep"} = {}
    BY <1>1, <1>2, <2>1, GoesTo DEF QueueInv
  <2>2. ASSUME NEW w \in Workers, pc[w] = "asleep", pc' = [pc EXCEPT ![t] = on, ![w] = "look"]
        PROVE  /\ pc'[Main] = on /\ pc' \in [Threads -> Labels] /\ pc'[w] = "look"
               /\ \A v \in Workers \ {w} : pc'[v] = pc[v]
    BY <1>1, <1>2, <2>2 DEF QueueInv, TypeOK, Labels
  <2> QED BY <2>1, <2>2 DEF Notify
<1> HIDE DEF on
<1>4. \A w \in Workers : pc'[w] = pc[w] \/ (pc[w] = "asleep" /\ pc'[w] = "look")
  BY <1>3
<1>5. TypeOK'
  BY <1>1, <1>3 DEF QueueInv, TypeOK, pool, calls
<1>6. PlacesOK'
  BY <1>2, <1>3, <1>4 DEF QueueInv, PlacesOK, Free, AtRest
<1>7. UNCHANGED <<mutex, queue, stopping, active, submitted, jobs, job, serving, toSubmit>>
  BY <1>1 DEF pool, calls
<1>8. ActiveCounted'
  BY <1>4, <1>7, BusyKept DEF Busy
<1>9. \A w \in Holders' : job'[w] \in Jobs
  BY <1>4, <1>7 DEF Holders, QueueInv, Free
<1>10. LockHeld' /\ ExitsLast'
  BY <1>2, <1>3, <1>4, <1>7 DEF QueueInv, LockHeld, ExitsLast
<1>11. NoLostWakeup'
  <2>1. pc'[Main] # "notify"
    BY <1>2, <1>3
  <2>2. CASE \A w \in Workers : pc[w] # "asleep" /\ pc'[w] = pc[w]
    BY <1>6, <2>2, NothingOwed
  <2>3. CASE \E w \in Workers : /\ pc[w] = "asleep" /\ pc'[w] = "look"
                                /\ \A v \in Workers \ {w} : pc'[v] = pc[v]
    BY <1>1, <1>6, <1>7, <2>1, <2>3, WakeupPassed
  <2> QED BY <1>3, <2>2, <2>3
<1>12. NoJobLost'
  BY <1>4, <1>5, <1>7, JobsKept DEF Working
<1> QED
  BY <1>2, <1>3, <1>5, <1>6, <1>7, <1>8, <1>9, <1>10, <1>11, <1>12 DEF QueueInv

(***************************************************************************)
(* parallelForPartitions, with an fn that may throw                        *)
(***************************************************************************)

\* The job of a worker, ended or not, keeps its type.
LEMMA EndsType ==
  ASSUME QueueInv, NEW w \in Workers, pc[w] \notin Free, NEW f \in {"ready", "failed"}, Ends(w, f)
  PROVE  /\ jobs' \in [Jobs -> Records] /\ pc' \in [Threads -> Labels]
         /\ pc'[w] = "end" /\ \A s \in Threads \ {w} : pc'[s] = pc[s]
         /\ jobs'[job[w]].future # "pending"
         /\ \A i \in Jobs : jobs'[i].future = "pending" => jobs[i].future = "pending"
<1>1. job[w] \in Jobs
  BY DEF QueueInv, Holders
<1> QED BY <1>1, JobEnds DEF QueueInv

\* parallelFor begins: the queue and the workers are as they were.
LEMMA CallQueue ==
  ASSUME QueueInv, NEW t \in Threads, Call(t)
  PROVE  QueueInv'
<1> USE ThreadsAre
<1> DEFINE n == Wanted(t)
           l == IF n = 0 THEN "loop" ELSE "submit"
<1>1. \/ t = Main /\ pc[t] = "idle"
      \/ t \in Workers /\ pc[t] = "run"
  BY DEF Call
<1>2. n \in Nat /\ (t \in Workers => n = 0) /\ l \in Labels /\ l \in {"loop", "submit"}
  BY WantedIs DEF Labels
<1>3. /\ open' = open \union {t}
      /\ serving' = [serving EXCEPT ![t] = t]
      /\ next' = [next EXCEPT ![t] = 0]
      /\ toSubmit' = [toSubmit EXCEPT ![t] = n]
      /\ helpers' = [helpers EXCEPT ![t] = {}]
      /\ computed' = [computed EXCEPT ![t] = [p \in Partitions |-> 0]]
      /\ Goes(t, l)
      /\ UNCHANGED <<pool, job, part>>
  BY DEF Call, Wanted
<1> HIDE DEF n
<1>4. pc'[t] = l /\ pc' \in [Threads -> Labels] /\ \A s \in Threads \ {t} : pc'[s] = pc[s]
  BY <1>2, <1>3, GoesTo DEF QueueInv
<1>5. /\ open' \subseteq Threads /\ serving' \in [Threads -> Threads] /\ next' \in [Threads -> Nat]
      /\ toSubmit' \in [Threads -> Nat] /\ helpers' \in [Threads -> SUBSET Jobs]
      /\ toSubmit'[t] = n /\ \A s \in Threads \ {t} : toSubmit'[s] = toSubmit[s]
  BY <1>2, <1>3 DEF QueueInv, TypeOK
<1>6. computed' \in [Threads -> [Partitions -> Nat]]
  BY <1>3 DEF QueueInv, TypeOK
<1>7. TypeOK'
  BY <1>3, <1>4, <1>5, <1>6 DEF QueueInv, TypeOK, pool
<1>8. pc'[Main] = "submit" => toSubmit'[Main] > 0
  <2>1. CASE t = Main
    BY <2>1, <1>2, <1>4, <1>5
  <2>2. CASE t # Main
    BY <2>2, <1>4, <1>5 DEF QueueInv
  <2> QED BY <2>1, <2>2
<1>9. IF t = Main
        THEN pc[t] = "idle" /\ pc'[t] \in {"submit", "loop"}
        ELSE pc[t] \in Busy \ {"end"} /\ pc'[t] \in Busy /\ pc'[t] # "end"
  BY <1>1, <1>2, <1>4 DEF Busy
<1>10. serving'[Main] = Main
  BY <1>3 DEF QueueInv, TypeOK
<1> QED
  BY <1>3, <1>4, <1>7, <1>8, <1>9, <1>10, ThreadStep DEF pool

\* What the steps in a call that touch neither queue nor lock have in common.
LEMMA CallStep ==
  ASSUME QueueInv, TypeOK', NEW t \in Threads,
         UNCHANGED <<mutex, queue, stopping, active, submitted, job, serving, toSubmit>>,
         pc[t] \in {"loop", "fn", "get", "returned"},
         \/ /\ UNCHANGED jobs
            /\ \/ pc' = pc
               \/ \E l \in {"loop", "fn", "get", "returned"} : Goes(t, l)
               \/ t = Main /\ Goes(t, "idle")
         \/ t \in Workers /\ \E f \in {"ready", "failed"} : Ends(t, f)
  PROVE  QueueInv'
<1> USE ThreadsAre
<1>1. ASSUME NEW l \in {"loop", "fn", "get", "returned", "idle"}, Goes(t, l)
      PROVE  pc'[t] = l /\ \A s \in Threads \ {t} : pc'[s] = pc[s]
  BY <1>1, GoesTo DEF QueueInv, Labels
<1>2. CASE UNCHANGED jobs /\ pc' = pc
  BY <1>2, ThreadStep DEF QueueInv, Busy
<1>3. CASE UNCHANGED jobs /\ \E l \in {"loop", "fn", "get", "returned"} : Goes(t, l)
  BY <1>1, <1>3, ThreadStep DEF QueueInv, Busy
<1>4. CASE UNCHANGED jobs /\ t = Main /\ Goes(t, "idle")
  BY <1>1, <1>4, ThreadStep DEF QueueInv
<1>5. ASSUME t \in Workers, NEW f \in {"ready", "failed"}, Ends(t, f) PROVE QueueInv'
  <2>1. pc[t] \notin Free /\ t # Main /\ pc[t] \in Busy \ {"end"}
    BY <1>5 DEF Free, Busy
  <2>2. /\ pc'[t] = "end" /\ \A s \in Threads \ {t} : pc'[s] = pc[s]
        /\ jobs'[job[t]].future # "pending"
        /\ \A i \in Jobs : jobs'[i].future = "pending" => jobs[i].future = "pending"
    BY <1>5, <2>1, EndsType
  <2> QED BY <2>1, <2>2, ThreadStep DEF QueueInv, Busy
<1> QED BY <1>2, <1>3, <1>4, <1>5

\* A thread that takes a partition keeps the job it runs.
LEMMA TakeQueue ==
  ASSUME QueueInv, NEW t \in Threads, Take(t)
  PROVE  QueueInv'
<1> USE ThreadsAre
<1> DEFINE c == serving[t]
<1>1. /\ pc[t] = "loop" /\ c \in Threads
      /\ UNCHANGED <<mutex, queue, stopping, active, submitted, job, open, serving, toSubmit, helpers, computed>>
      /\ next' = [next EXCEPT ![c] = @ + 1]
  BY DEF Take, QueueInv, TypeOK
<1>2. \/ next[c] < PartitionCount /\ Goes(t, "fn") /\ part' = [part EXCEPT ![t] = next[c]] /\ UNCHANGED jobs
      \/ t = c /\ Goes(t, "get") /\ UNCHANGED <<jobs, part>>
      \/ t # c /\ Ends(t, "ready") /\ UNCHANGED part
  BY DEF Take
<1>3. next' \in [Threads -> Nat] /\ next[c] \in Nat
  BY <1>1 DEF QueueInv, TypeOK
<1>4. part' \in [Threads -> Partitions \union {0}]
  BY <1>2, <1>3, PartitionsAre DEF QueueInv, TypeOK
<1>5. t # Main => t \in Workers /\ pc[t] \notin Free
  BY <1>1 DEF Free
<1>6. CASE next[c] < PartitionCount /\ Goes(t, "fn") /\ UNCHANGED jobs
  <2>1. pc' \in [Threads -> Labels]
    BY <1>6, GoesTo DEF QueueInv, Labels
  <2>2. TypeOK'
    BY <1>1, <1>3, <1>4, <1>6, <2>1 DEF QueueInv, TypeOK
  <2> QED BY <1>1, <1>6, <2>2, CallStep
<1>7. CASE Goes(t, "get") /\ UNCHANGED jobs
  <2>1. pc' \in [Threads -> Labels]
    BY <1>7, GoesTo DEF QueueInv, Labels
  <2>2. TypeOK'
    BY <1>1, <1>3, <1>4, <1>7, <2>1 DEF QueueInv, TypeOK
  <2> QED BY <1>1, <1>7, <2>2, CallStep
<1>8. CASE t # c /\ Ends(t, "ready")
  <2>1. t \in Workers
    BY <1>1, <1>8 DEF QueueInv
  <2>2. jobs' \in [Jobs -> Records] /\ pc' \in [Threads -> Labels]
    BY <1>1, <1>5, <1>8, <2>1, EndsType DEF Free
  <2>3. TypeOK'
    BY <1>1, <1>3, <1>4, <2>2 DEF QueueInv, TypeOK
  <2> QED BY <1>1, <1>8, <2>1, <2>3, CallStep
<1> QED BY <1>2, <1>6, <1>7, <1>8

\* A thread that computes a partition keeps the job it runs.
LEMMA ComputesQueue ==
  ASSUME QueueInv, NEW t \in Threads, Computes(t)
  PROVE  QueueInv'
<1>1. /\ pc[t] = "fn" /\ Goes(t, "loop")
      /\ UNCHANGED <<pool, job, open, serving, next, toSubmit, helpers>>
      /\ part' = [part EXCEPT ![t] = 0]
  BY DEF Computes
<1>2. pc' \in [Threads -> Labels] /\ part' \in [Threads -> Partitions \union {0}]
  BY <1>1, GoesTo DEF QueueInv, TypeOK, Labels
<1>3. computed' \in [Threads -> [Partitions -> Nat]]
  <2> DEFINE c == serving[t]
             p == part[t]
             row == [computed[c] EXCEPT ![p] = @ + 1]
  <2>1. computed \in [Threads -> [Partitions -> Nat]] /\ c \in Threads /\ p \in Partitions
    BY PartitionsAre DEF QueueInv, TypeOK
  <2>2. computed' = [computed EXCEPT ![c] = row]
    BY DEF Computes
  <2>3. row \in [Partitions -> Nat]
    BY <2>1
  <2> HIDE DEF row, c, p
  <2> QED BY <2>1, <2>2, <2>3
<1>4. TypeOK'
  BY <1>1, <1>2, <1>3 DEF QueueInv, TypeOK, pool
<1> QED BY <1>1, <1>4, CallStep DEF pool

\* An fn that throws ends the helper with its exception in the future, or the
\* call of the thread: no job is left half-way.
LEMMA ThrowsQueue ==
  ASSUME QueueInv, NEW t \in Threads, Throws(t)
  PROVE  QueueInv'
<1> USE ThreadsAre
<1>1. /\ pc[t] = "fn"
      /\ UNCHANGED <<mutex, queue, stopping, active, submitted, job, serving, part, next, toSubmit, helpers, computed>>
      /\ open' \in {open, open \ {t}}
  BY DEF Throws, Unwinds
<1>2. \/ t = Main /\ Goes(t, "idle") /\ UNCHANGED jobs
      \/ t \in Workers /\ Ends(t, "failed")
  BY DEF Throws, Unwinds, QueueInv
<1>3. jobs' \in [Jobs -> Records] /\ pc' \in [Threads -> Labels]
  <2>1. CASE t = Main /\ Goes(t, "idle") /\ UNCHANGED jobs
    BY <2>1, GoesTo DEF QueueInv, TypeOK, Labels
  <2>2. CASE t \in Workers /\ Ends(t, "failed")
    BY <1>1, <2>2, EndsType DEF Free
  <2> QED BY <1>2, <2>1, <2>2
<1>4. TypeOK'
  BY <1>1, <1>3 DEF QueueInv, TypeOK
<1> QED BY <1>1, <1>2, <1>4, CallStep

\* The caller gets the result of a helper that is finished, and of no other.
LEMMA GetQueue ==
  ASSUME QueueInv, NEW t \in Threads, Get(t)
  PROVE  QueueInv'
<1> USE ThreadsAre
<1>1. pc[t] = "get" /\ UNCHANGED <<mutex, queue, stopping, active, submitted, job, serving, part, next, toSubmit, computed>>
  BY DEF Get
<1>2. \/ /\ UNCHANGED <<jobs, pc, open>> /\ helpers' \in [Threads -> SUBSET Jobs]
      \/ Unwinds(t) /\ UNCHANGED helpers
  BY DEF Get, QueueInv, TypeOK
<1>3. CASE UNCHANGED <<jobs, pc, open>> /\ helpers' \in [Threads -> SUBSET Jobs]
  <2>1. TypeOK'
    BY <1>1, <1>3 DEF QueueInv, TypeOK
  <2> QED BY <1>1, <1>3, <2>1, CallStep
<1>4. CASE Unwinds(t) /\ UNCHANGED helpers
  <2>1. \/ t = Main /\ Goes(t, "idle") /\ UNCHANGED jobs
        \/ t \in Workers /\ Ends(t, "failed")
    BY <1>4 DEF Unwinds
  <2>2. jobs' \in [Jobs -> Records] /\ pc' \in [Threads -> Labels]
    <3>1. CASE t = Main /\ Goes(t, "idle") /\ UNCHANGED jobs
      BY <3>1, GoesTo DEF QueueInv, TypeOK, Labels
    <3>2. CASE t \in Workers /\ Ends(t, "failed")
      BY <1>1, <3>2, EndsType DEF Free
    <3> QED BY <2>1, <3>1, <3>2
  <2>3. TypeOK'
    BY <1>1, <1>4, <2>2 DEF QueueInv, TypeOK, Unwinds
  <2> QED BY <1>1, <2>1, <2>3, CallStep
<1> QED BY <1>2, <1>3, <1>4

\* A call that returns leaves the pool alone.
LEMMA ReturnsQueue ==
  ASSUME QueueInv, NEW t \in Threads, Returns(t)
  PROVE  QueueInv'
<1>1. /\ pc[t] = "get" /\ Goes(t, "returned") /\ open' = open \ {t}
      /\ UNCHANGED <<pool, job, serving, part, next, toSubmit, helpers, computed>>
  BY DEF Returns
<1>2. pc' \in [Threads -> Labels]
  BY <1>1, GoesTo DEF QueueInv, Labels
<1>3. TypeOK'
  BY <1>1, <1>2 DEF QueueInv, TypeOK, pool
<1> QED BY <1>1, <1>3, CallStep DEF pool

\* The frame of a call is left: the worker that made it finishes its own job.
LEMMA LeaveQueue ==
  ASSUME QueueInv, NEW t \in Threads, Leave(t)
  PROVE  QueueInv'
<1> USE ThreadsAre
<1>1. /\ pc[t] = "returned"
      /\ UNCHANGED <<mutex, queue, stopping, active, submitted, job, open, serving, part, toSubmit, helpers>>
  BY DEF Leave
<1>2. \/ t = Main /\ Goes(t, "idle") /\ UNCHANGED jobs
      \/ t \in Workers /\ Ends(t, "ready")
  BY DEF Leave
<1>3. jobs' \in [Jobs -> Records] /\ pc' \in [Threads -> Labels]
  <2>1. CASE t = Main /\ Goes(t, "idle") /\ UNCHANGED jobs
    BY <2>1, GoesTo DEF QueueInv, TypeOK, Labels
  <2>2. CASE t \in Workers /\ Ends(t, "ready")
    BY <1>1, <2>2, EndsType DEF Free
  <2> QED BY <1>2, <2>1, <2>2
<1>4. next' \in [Threads -> Nat] /\ computed' \in [Threads -> [Partitions -> Nat]]
  BY DEF Leave, QueueInv, TypeOK
<1>5. TypeOK'
  BY <1>1, <1>3, <1>4 DEF QueueInv, TypeOK
<1> QED BY <1>1, <1>2, <1>5, CallStep

(***************************************************************************)
(* The workers' loop                                                       *)
(***************************************************************************)

\* A worker leaves an empty pool that stops, goes to sleep on an empty queue,
\* or takes the first job.
LEMMA LookQueue ==
  ASSUME QueueInv, NEW w \in Workers, Look(w)
  PROVE  QueueInv'
<1> USE ThreadsAre
<1>1. /\ pc[w] = "look" /\ mutex = NoThread
      /\ UNCHANGED <<stopping, active, submitted, jobs, calls>>
  BY DEF Look
<1>2. /\ \A v \in Workers : pc[v] # "block"
      /\ pc[Main] # "drain_block"
  BY <1>1, ThreadAssumption DEF QueueInv, LockHeld, Threads
<1>3. CASE /\ queue = <<>> /\ UNCHANGED <<queue, job>>
           /\ \/ stopping /\ Goes(w, "exited") /\ UNCHANGED mutex
              \/ Goes(w, "block") /\ mutex' = w
  <2>1. PICK l \in {"exited", "block"} : Goes(w, l) /\ (l = "exited" => stopping) /\ (l = "block" => mutex' = w)
    BY <1>3
  <2>2. pc'[w] = l /\ pc' \in [Threads -> Labels] /\ \A s \in Threads \ {w} : pc'[s] = pc[s]
    BY <2>1, GoesTo DEF QueueInv, Labels
  <2>3. mutex' \in Threads \union {NoThread}
    BY <1>3 DEF QueueInv, TypeOK
  <2>4. TypeOK'
    BY <1>1, <1>3, <2>2, <2>3 DEF QueueInv, TypeOK, calls
  <2>5. PlacesOK'
    BY <2>2 DEF QueueInv, PlacesOK, Free
  <2>6. \A v \in Workers : (pc'[v] \in Busy <=> pc[v] \in Busy) /\ (pc'[v] \in Free <=> pc[v] \in Free)
    BY <1>1, <2>2 DEF Busy, Free
  <2>7. ActiveCounted'
    BY <1>1, <2>6, BusyKept
  <2>8. \A v \in Holders' : job'[v] \in Jobs
    BY <1>3, <2>6 DEF Holders, QueueInv
  <2>9. LockHeld' /\ ExitsLast'
    BY <1>1, <1>2, <1>3, <2>1, <2>2 DEF QueueInv, LockHeld, ExitsLast
  <2>10. NoLostWakeup'
    BY <1>3, <2>5, NothingOwed
  <2>11. NoJobLost'
    <3> SUFFICES ASSUME NEW i \in Jobs, jobs'[i].future = "pending"
                 PROVE  \E v \in Workers : Runs(v, i)'
      BY DEF NoJobLost
    <3>1. jobs[i].future = "pending" /\ Len(queue) = 0
      BY <1>1, <1>3
    <3>2. PICK v \in Workers : Runs(v, i)
      BY <3>1 DEF QueueInv, NoJobLost
    <3>3. v # w
      BY <1>1, <3>2 DEF Runs
    <3> QED BY <1>3, <2>2, <3>2, <3>3 DEF Runs
  <2>12. serving'[Main] = Main /\ (pc'[Main] = "submit" => toSubmit'[Main] > 0)
    BY <1>1, <2>2 DEF QueueInv, calls
  <2> QED BY <2>4, <2>5, <2>7, <2>8, <2>9, <2>10, <2>11, <2>12 DEF QueueInv
<1>4. CASE /\ queue # <<>> /\ job' = [job EXCEPT ![w] = Head(queue)] /\ queue' = Tail(queue)
           /\ Goes(w, "begin") /\ UNCHANGED mutex
  <2>1. pc'[w] = "begin" /\ pc' \in [Threads -> Labels] /\ \A s \in Threads \ {w} : pc'[s] = pc[s]
    BY <1>4, GoesTo DEF QueueInv, Labels
  <2>2. /\ queue \in Seq(Jobs) /\ Len(queue) \in Nat \ {0}
        /\ Head(queue) = queue[1] /\ Head(queue) \in Jobs
        /\ queue' \in Seq(Jobs) /\ Len(queue') = Len(queue) - 1
        /\ \A n \in 1..(Len(queue) - 1) : queue'[n] = queue[n + 1]
    BY <1>4 DEF QueueInv, TypeOK
  <2>3. /\ job' \in [Workers -> Jobs \union {0}] /\ job'[w] = queue[1]
        /\ \A v \in Workers \ {w} : job'[v] = job[v]
    BY <1>4, <2>2 DEF QueueInv, TypeOK
  <2>4. TypeOK'
    BY <1>1, <1>4, <2>1, <2>2, <2>3 DEF QueueInv, TypeOK, calls
  <2>5. PlacesOK'
    BY <2>1 DEF QueueInv, PlacesOK
  <2>6. ActiveCounted'
    BY <1>1, <2>1, BusyKept DEF Busy
  <2>7. \A v \in Holders' : job'[v] \in Jobs
    BY <2>1, <2>2, <2>3 DEF Holders, QueueInv
  <2>8. LockHeld' /\ ExitsLast'
    <3>1. \A v \in Workers : pc'[v] # "block" /\ pc'[v] # "exited"
      BY <1>2, <1>4, <2>1 DEF QueueInv, ExitsLast
    <3> QED BY <1>2, <2>1, <3>1 DEF LockHeld, ExitsLast
  <2>9. NoLostWakeup'
    BY <1>1, <2>1, <2>2, <2>5, WakeupUsed
  <2>10. NoJobLost'
    <3> SUFFICES ASSUME NEW i \in Jobs, jobs'[i].future = "pending"
                 PROVE  \/ \E v \in Workers : Runs(v, i)'
                        \/ /\ \E n \in 1..Len(queue') : queue'[n] = i
                           /\ \E v \in Workers : pc'[v] # "exited"
      BY DEF NoJobLost
    <3>1. CASE \E v \in Workers : Runs(v, i)
      <4>1. PICK v \in Workers : Runs(v, i)
        BY <3>1
      <4>2. v # w
        BY <1>1, <4>1 DEF Runs
      <4> QED BY <2>1, <2>3, <4>1, <4>2 DEF Runs
    <3>2. ASSUME NEW n \in 1..Len(queue), queue[n] = i
          PROVE  \/ \E v \in Workers : Runs(v, i)'
                 \/ /\ \E m \in 1..Len(queue') : queue'[m] = i
                    /\ \E v \in Workers : pc'[v] # "exited"
      <4>1. CASE n = 1
        BY <2>1, <2>3, <3>2, <4>1 DEF Runs
      <4>2. CASE n # 1
        <5>1. n - 1 \in 1..Len(queue') /\ queue'[n - 1] = i
          BY <2>2, <3>2, <4>2
        <5> QED BY <2>1, <5>1
      <4> QED BY <4>1, <4>2
    <3>3. jobs[i].future = "pending"
      BY <1>1
    <3> QED BY <3>1, <3>2, <3>3 DEF QueueInv, NoJobLost
  <2>11. serving'[Main] = Main /\ (pc'[Main] = "submit" => toSubmit'[Main] > 0)
    BY <1>1, <2>1 DEF QueueInv, calls
  <2> QED BY <2>4, <2>5, <2>6, <2>7, <2>8, <2>9, <2>10, <2>11 DEF QueueInv
<1> QED BY <1>1, <1>3, <1>4 DEF Look, MayExit

\* The worker that saw an empty queue sleeps, and gives back the lock.
LEMMA BlocksQueue ==
  ASSUME QueueInv, NEW w \in Workers, Blocks(w)
  PROVE  QueueInv'
<1> USE ThreadsAre
<1>1. /\ pc[w] = "block" /\ mutex' = NoThread /\ queue = <<>> /\ mutex = w
      /\ UNCHANGED <<queue, stopping, active, submitted, jobs, job, calls>>
  BY DEF Blocks, QueueInv, LockHeld
<1>2. pc'[w] = "asleep" /\ pc' \in [Threads -> Labels] /\ \A s \in Threads \ {w} : pc'[s] = pc[s]
  BY GoesTo DEF Blocks, QueueInv, Labels
<1>3. /\ \A v \in Workers \ {w} : pc[v] # "block"
      /\ pc[Main] # "drain_block"
  BY <1>1 DEF QueueInv, LockHeld
<1>4. TypeOK'
  BY <1>1, <1>2 DEF QueueInv, TypeOK, calls
<1>5. PlacesOK'
  BY <1>2 DEF QueueInv, PlacesOK, Free
<1>6. ActiveCounted'
  BY <1>1, <1>2, BusyKept DEF Busy
<1>7. \A v \in Holders' : job'[v] \in Jobs
  BY <1>1, <1>2 DEF Holders, QueueInv, Free
<1>8. LockHeld' /\ ExitsLast'
  BY <1>1, <1>2, <1>3 DEF QueueInv, LockHeld, ExitsLast
<1>9. NoLostWakeup'
  BY <1>1, <1>5, NothingOwed
<1>10. NoJobLost'
  BY <1>1, <1>2, <1>4, JobsKept DEF Working
<1>11. serving'[Main] = Main /\ (pc'[Main] = "submit" => toSubmit'[Main] > 0)
  BY <1>1, <1>2 DEF QueueInv, calls
<1> QED BY <1>4, <1>5, <1>6, <1>7, <1>8, <1>9, <1>10, <1>11 DEF QueueInv

\* A worker starts the job it has taken.
LEMMA BeginQueue ==
  ASSUME QueueInv, NEW w \in Workers, Begin(w)
  PROVE  QueueInv'
<1> USE ThreadsAre
<1> DEFINE l == IF jobs[job[w]].kind = "helper" THEN "loop" ELSE "run"
<1>1. /\ pc[w] = "begin" /\ Goes(w, l) /\ active' = active + 1
      /\ UNCHANGED <<mutex, queue, stopping, submitted, jobs, job, open, part, next, toSubmit, helpers, computed>>
  BY DEF Begin
<1>2. job[w] \in Jobs
  BY <1>1 DEF QueueInv, Holders, Free
<1>3. l \in {"loop", "run"} /\ l \in Labels
  BY DEF Labels
<1>4. pc'[w] = l /\ pc' \in [Threads -> Labels] /\ \A s \in Threads \ {w} : pc'[s] = pc[s]
  BY <1>1, <1>3, GoesTo DEF QueueInv
<1>5. serving' \in [Threads -> Threads] /\ serving'[Main] = serving[Main]
  <2>1. jobs[job[w]].caller \in Threads
    BY <1>2 DEF QueueInv, TypeOK, Records
  <2> QED BY <2>1 DEF Begin, QueueInv, TypeOK
<1> HIDE DEF l
<1>6. /\ active' = Cardinality({v \in Workers : pc'[v] \in Busy})
      /\ active' \in 0..Cardinality(Workers)
  <2> DEFINE B == {v \in Workers : pc[v] \in Busy}
             C == {v \in Workers : pc'[v] \in Busy}
  <2>1. C = B \union {w} /\ w \notin B /\ B \in SUBSET Workers /\ C \in SUBSET Workers
    BY <1>1, <1>3, <1>4 DEF Busy
  <2>2. IsFiniteSet(Workers) /\ Cardinality(Workers) \in Nat
    BY ThreadAssumption, FS_CardinalityType
  <2>3. IsFiniteSet(B)
    BY <2>1, <2>2, FS_Subset
  <2>4. IsFiniteSet(C) /\ Cardinality(C) <= Cardinality(Workers)
    BY <2>1, <2>2, FS_Subset
  <2>5. Cardinality(B) \in Nat /\ Cardinality(C) \in Nat
    BY <2>3, <2>4, FS_CardinalityType
  <2>6. Cardinality(B \union {w}) = Cardinality(B) + 1
    BY <2>1, <2>3, FS_AddElement
  <2>7. active' = active + 1 /\ active = Cardinality(B)
    BY <1>1 DEF QueueInv, ActiveCounted
  <2> HIDE DEF B
  <2>8. active' = Cardinality(C)
    BY <2>1, <2>6, <2>7
  <2> QED BY <2>2, <2>4, <2>5, <2>8
<1>7. TypeOK'
  BY <1>1, <1>4, <1>5, <1>6 DEF QueueInv, TypeOK
<1>8. PlacesOK'
  BY <1>3, <1>4 DEF QueueInv, PlacesOK, Busy
<1>9. ActiveCounted'
  BY <1>6 DEF ActiveCounted
<1>10. \A v \in Holders' : job'[v] \in Jobs
  BY <1>1, <1>2, <1>4 DEF Holders, QueueInv
<1>11. LockHeld' /\ ExitsLast'
  BY <1>1, <1>3, <1>4 DEF QueueInv, LockHeld, ExitsLast
<1>12. NoLostWakeup'
  <2>1. \A v \in Workers : /\ pc'[v] = "asleep" => pc[v] = "asleep"
                           /\ pc[v] = "look" => pc'[v] = "look"
    BY <1>1, <1>3, <1>4
  <2> QED BY <1>1, <1>4, <1>8, <2>1, WakeupsKept
<1>13. NoJobLost'
  <2>1. \A v \in Workers : /\ pc'[v] = "exited" => pc[v] = "exited"
                           /\ pc[v] \in Working => pc'[v] \in Working /\ job'[v] = job[v]
    BY <1>1, <1>3, <1>4 DEF Working
  <2> QED BY <1>1, <1>7, <2>1, JobsKept
<1>14. serving'[Main] = Main /\ (pc'[Main] = "submit" => toSubmit'[Main] > 0)
  BY <1>1, <1>4, <1>5 DEF QueueInv
<1> QED BY <1>7, <1>8, <1>9, <1>10, <1>11, <1>12, <1>13, <1>14 DEF QueueInv

\* A plain job runs to its end and settles its future.
LEMMA RunQueue ==
  ASSUME QueueInv, NEW w \in Workers, Run(w)
  PROVE  QueueInv'
<1> USE ThreadsAre
<1>1. /\ pc[w] = "run" /\ Ends(w, "ready")
      /\ UNCHANGED <<mutex, queue, stopping, active, submitted, job, calls>>
  BY DEF Run
<1>2. /\ jobs' \in [Jobs -> Records] /\ pc' \in [Threads -> Labels]
      /\ pc'[w] = "end" /\ \A s \in Threads \ {w} : pc'[s] = pc[s]
      /\ jobs'[job[w]].future # "pending"
      /\ \A i \in Jobs : jobs'[i].future = "pending" => jobs[i].future = "pending"
  BY <1>1, EndsType DEF Free
<1>3. TypeOK'
  BY <1>1, <1>2 DEF QueueInv, TypeOK, calls
<1>4. serving'[Main] = Main /\ (pc'[Main] = "submit" => toSubmit'[Main] > 0)
  BY <1>1, <1>2 DEF QueueInv, calls
<1> QED BY <1>1, <1>2, <1>3, <1>4, ThreadStep DEF Busy

\* A worker is done with its job and looks again; the owner may wake in drain.
LEMMA EndQueue ==
  ASSUME QueueInv, NEW w \in Workers, End(w)
  PROVE  QueueInv'
<1> USE ThreadsAre
<1>1. /\ pc[w] = "end" /\ active' = active - 1
      /\ UNCHANGED <<mutex, queue, stopping, submitted, jobs, open, part, next, toSubmit, helpers, computed>>
  BY DEF End, ActiveAfter
<1>2. /\ pc' \in [Threads -> Labels] /\ pc'[w] = "look"
      /\ \A v \in Workers \ {w} : pc'[v] = pc[v]
      /\ pc'[Main] = pc[Main] \/ (pc[Main] = "drain_asleep" /\ pc'[Main] = "drain")
  BY DEF End, QueueInv, TypeOK, Labels
<1>3. /\ job' \in [Workers -> Jobs \union {0}] /\ \A v \in Workers \ {w} : job'[v] = job[v]
      /\ serving' \in [Threads -> Threads] /\ serving'[Main] = serving[Main]
  BY DEF End, QueueInv, TypeOK
<1>4. /\ active' = Cardinality({v \in Workers : pc'[v] \in Busy})
      /\ active' \in 0..Cardinality(Workers)
  <2> DEFINE B == {v \in Workers : pc[v] \in Busy}
             C == {v \in Workers : pc'[v] \in Busy}
  <2>1. C = B \ {w} /\ w \in B /\ B \in SUBSET Workers /\ C \in SUBSET Workers
    BY <1>1, <1>2 DEF Busy
  <2>2. IsFiniteSet(Workers) /\ Cardinality(Workers) \in Nat
    BY ThreadAssumption, FS_CardinalityType
  <2>3. IsFiniteSet(B)
    BY <2>1, <2>2, FS_Subset
  <2>4. IsFiniteSet(C) /\ Cardinality(C) <= Cardinality(Workers)
    BY <2>1, <2>2, FS_Subset
  <2>5. Cardinality(B) \in Nat /\ Cardinality(C) \in Nat
    BY <2>3, <2>4, FS_CardinalityType
  <2>6. Cardinality(B \ {w}) = Cardinality(B) - 1
    BY <2>1, <2>3, FS_RemoveElement
  <2>7. active' = active - 1 /\ active = Cardinality(B)
    BY <1>1 DEF QueueInv, ActiveCounted
  <2> HIDE DEF B
  <2>8. active' = Cardinality(C)
    BY <2>1, <2>6, <2>7
  <2> QED BY <2>2, <2>4, <2>5, <2>8
<1>5. TypeOK'
  BY <1>1, <1>2, <1>3, <1>4 DEF QueueInv, TypeOK
<1>6. PlacesOK'
  BY <1>2 DEF QueueInv, PlacesOK, Free, AtRest
<1>7. ActiveCounted'
  BY <1>4 DEF ActiveCounted
<1>8. \A v \in Holders' : job'[v] \in Jobs
  BY <1>2, <1>3 DEF Holders, QueueInv, Free
<1>9. LockHeld' /\ ExitsLast'
  BY <1>1, <1>2 DEF QueueInv, LockHeld, ExitsLast
<1>10. NoLostWakeup'
  <2>1. \A v \in Workers : /\ pc'[v] = "asleep" => pc[v] = "asleep"
                           /\ pc[v] = "look" => pc'[v] = "look"
    BY <1>2
  <2> QED BY <1>1, <1>2, <1>6, <2>1, WakeupsKept
<1>11. NoJobLost'
  <2>1. \A v \in Workers : /\ pc'[v] = "exited" => pc[v] = "exited"
                           /\ pc[v] \in Working => pc'[v] \in Working /\ job'[v] = job[v]
    BY <1>1, <1>2, <1>3 DEF Working
  <2> QED BY <1>1, <1>5, <2>1, JobsKept
<1>12. serving'[Main] = Main /\ (pc'[Main] = "submit" => toSubmit'[Main] > 0)
  BY <1>1, <1>2, <1>3 DEF QueueInv
<1> QED BY <1>5, <1>6, <1>7, <1>8, <1>9, <1>10, <1>11, <1>12 DEF QueueInv

(***************************************************************************)
(* Every step, and the theorems                                            *)
(***************************************************************************)
LEMMA QueueInit ==
  ASSUME Init
  PROVE  QueueInv
<1>1. IInv
  BY InitInv
<1>2. \A w \in Workers : pc[w] = "look"
  BY ThreadsAre DEF Init
<1>3. \A i \in Jobs : jobs[i].future # "pending"
  BY DEF Init, NoJob, Job
<1>4. NoLostWakeup
  BY <1>2 DEF NoLostWakeup
<1>5. /\ pc[Main] = "idle" /\ serving[Main] = Main
  BY ThreadsAre DEF Init
<1> QED
  BY <1>1, <1>2, <1>3, <1>4, <1>5 DEF IInv, QueueInv, Holders, Free, LockHeld, ExitsLast, NoJobLost

\* Every step of the pool preserves the invariant of the queue.
LEMMA QueueStep ==
  ASSUME QueueInv, [SpuriousNext]_vars
  PROVE  QueueInv'
<1>1. CASE UNCHANGED vars
  <2>1. UNCHANGED <<queue, active, submitted, jobs, job, calls, mutex, stopping, pc>>
    BY <1>1 DEF vars, calls
  <2>2. LockHeld'
    BY <2>1 DEF QueueInv, LockHeld
  <2> QED BY <2>1, <2>2, RestStep DEF QueueInv, TypeOK
<1>2. CASE Starts
  <2>1. CASE \E k \in Kinds : Submit(k)
    BY <2>1, SubmitQueue, JobAssumption
  <2>2. CASE \E d \in BOOLEAN : Shutdown(d)
    BY <2>2, ShutdownQueue
  <2> QED BY <1>2, <2>1, <2>2 DEF Starts
<1>3. CASE Owner
  BY <1>3, DrainQueue, ClearQueueStep, ShutdownQueue DEF Owner
<1>4. ASSUME NEW t \in Threads, Caller(t) PROVE QueueInv'
  BY <1>4, CallQueue, NotifyQueue, SubmitHelperQueue, TakeQueue, ComputesQueue, ThrowsQueue,
     GetQueue, ReturnsQueue, LeaveQueue
     DEF Caller, Proceeds
<1>5. ASSUME NEW w \in Workers, Worker(w) PROVE QueueInv'
  BY <1>5, LookQueue, BlocksQueue, BeginQueue, RunQueue, EndQueue DEF Worker
<1>6. ASSUME NEW t \in Threads, Spurious(t) PROVE QueueInv'
  BY <1>6, SpuriousQueue
<1> QED
  BY <1>1, <1>2, <1>3, <1>4, <1>5, <1>6 DEF SpuriousNext, Next

\* The invariant of the queue, whatever fn throws and whatever wakes the
\* sleepers.
THEOREM QueueInvariance == SpuriousSpec => []QueueInv
<1>1. Init => QueueInv
  BY QueueInit
<1>2. QueueInv /\ [SpuriousNext]_vars => QueueInv'
  BY QueueStep
<1> QED BY <1>1, <1>2, PTL DEF SpuriousSpec

\* The types hold even of a pool whose jobs throw: the count of active jobs
\* neither exceeds the workers nor falls below zero.
THEOREM ThrowingTypeCorrect == SpuriousSpec => []TypeOK
<1>1. QueueInv => TypeOK
  BY DEF QueueInv
<1> QED BY <1>1, QueueInvariance, PTL

\* With any number of workers, a queued job never waits for a worker that
\* nobody is going to wake.
THEOREM WakeupsAreKept == SpuriousSpec => []NoLostWakeup
<1>1. QueueInv => NoLostWakeup
  BY DEF QueueInv
<1> QED BY <1>1, QueueInvariance, PTL

\* No submitted job disappears, whatever its fn throws.
THEOREM JobsAreKept == SpuriousSpec => []NoJobLost
<1>1. QueueInv => NoJobLost
  BY DEF QueueInv
<1> QED BY <1>1, QueueInvariance, PTL

(***************************************************************************)
(* The end of shutdown                                                     *)
(***************************************************************************)

\* The owner has joined only workers that have left.
Joined == pc[Main] = "stopped" => \A w \in Workers : pc[w] = "exited"

\* Nobody who has stopped or left acts again, and only join stops.
LEMMA JoinedStep ==
  ASSUME QueueInv, Joined, [SpuriousNext]_vars
  PROVE  Joined'
<1> USE ThreadsAre
<1>0. pc \in [Threads -> Labels]
  BY DEF QueueInv, TypeOK
<1>1. CASE UNCHANGED vars
  BY <1>1 DEF vars, Joined
<1>2. CASE pc[Main] = "stopped" /\ SpuriousNext
  <2>1. \A t \in Threads : pc[t] \in {"stopped", "exited"}
    BY <1>2 DEF Joined
  <2>2. ~Starts /\ ~Owner
    BY <2>1 DEF Starts, Submit, Shutdown, Owner, Drain, DrainBlocks, ClearQueue, WakeAll, Join
  <2>3. ASSUME NEW t \in Threads PROVE ~Caller(t) /\ ~Spurious(t)
    BY <2>1 DEF Caller, Call, Proceeds, Notify, SubmitHelper, Take, Computes, Throws, Get, Returns,
                Leave, Spurious
  <2>4. ASSUME NEW w \in Workers PROVE ~Worker(w)
    BY <2>1 DEF Worker, Look, Blocks, Begin, Run, End
  <2> QED BY <1>2, <2>2, <2>3, <2>4 DEF SpuriousNext, Next
<1>3. CASE pc[Main] # "stopped" /\ SpuriousNext
  <2>1. ASSUME NEW t \in Threads, NEW l \in Labels \ {"stopped"}, Goes(t, l) PROVE pc'[Main] # "stopped"
    BY <1>0, <1>3, <2>1 DEF Goes
  <2>2. CASE Starts
    <3>1. PICK l \in {"notify", "wake", "clear"} : Goes(Main, l)
      BY <2>2 DEF Starts, Submit, Shutdown
    <3>2. Main \in Threads /\ l \in Labels \ {"stopped"}
      BY DEF Labels
    <3>3. pc'[Main] # "stopped"
      BY <2>1, <3>1, <3>2
    <3> QED BY <3>3 DEF Joined
  <2>3. CASE Owner
    <3>1. CASE Join
      BY <1>0, <3>1 DEF Join, Goes, Joined
    <3>2. CASE WakeAll
      BY <3>2 DEF WakeAll, Joined
    <3>3. CASE Drain \/ DrainBlocks \/ ClearQueue
      BY <2>1, <3>3 DEF Drain, DrainBlocks, ClearQueue, Labels, Joined
    <3> QED BY <2>3, <3>1, <3>2, <3>3 DEF Owner
  <2>4. ASSUME NEW t \in Threads, NEW f, Ends(t, f) PROVE pc'[Main] # "stopped"
    BY <2>1, <2>4 DEF Ends, Labels
  <2>5. ASSUME NEW t \in Threads, Caller(t) PROVE pc'[Main] # "stopped"
    <3>1. CASE Notify(t)
      BY <1>0, <1>3, <3>1 DEF Notify, Goes
    <3>2. CASE Call(t) \/ SubmitHelper(t) \/ Computes(t) \/ Returns(t)
      BY <2>1, <3>2 DEF Call, SubmitHelper, Computes, Returns, Labels
    <3>3. CASE Take(t) \/ Leave(t) \/ Throws(t) \/ Get(t)
      <4>1. ASSUME NEW l \in {"fn", "get", "idle"}, Goes(t, l) PROVE pc'[Main] # "stopped"
        BY <2>1, <4>1 DEF Labels
      <4> QED BY <1>3, <2>4, <3>3, <4>1 DEF Take, Leave, Throws, Get, Unwinds
    <3> QED BY <2>5, <3>1, <3>2, <3>3 DEF Caller, Proceeds
  <2>6. ASSUME NEW w \in Workers, Worker(w) PROVE pc'[Main] # "stopped"
    <3>1. CASE Look(w) \/ Blocks(w) \/ Begin(w)
      BY <2>1, <3>1 DEF Look, Blocks, Begin, Labels
    <3>2. CASE Run(w)
      BY <2>4, <3>2 DEF Run
    <3>3. CASE End(w)
      BY <1>0, <1>3, <3>3 DEF End
    <3> QED BY <2>6, <3>1, <3>2, <3>3 DEF Worker
  <2>7. ASSUME NEW t \in Threads, Spurious(t) PROVE pc'[Main] # "stopped"
    BY <2>1, <2>7 DEF Spurious, Labels
  <2> QED BY <1>3, <2>2, <2>3, <2>5, <2>6, <2>7 DEF SpuriousNext, Next, Joined
<1> QED BY <1>1, <1>2, <1>3

\* When shutdown has joined the workers no future is left pending: those of the
\* queue were run or broken, and nothing is held any more.
THEOREM ShutdownSettlesAll == SpuriousSpec => []ShutdownSettles
<1>1. Init => Joined
  BY ThreadsAre DEF Init, Joined
<1>2. QueueInv /\ Joined /\ [SpuriousNext]_vars => Joined'
  BY JoinedStep
<1>3. QueueInv /\ Joined => ShutdownSettles
  BY DEF QueueInv, Joined, NoJobLost, Runs, ShutdownSettles
<1> QED BY <1>1, <1>2, <1>3, QueueInvariance, PTL DEF SpuriousSpec

\* The same without spurious wake-ups, for the fair pool of the liveness runs.
THEOREM FairQueue == Spec => [](TypeOK /\ NoLostWakeup /\ NoJobLost /\ ShutdownSettles)
<1>1. [Next]_vars => [SpuriousNext]_vars
  BY DEF SpuriousNext
<1>2. Spec => SpuriousSpec
  BY <1>1, PTL DEF Spec, SpuriousSpec
<1> QED
  BY <1>2, ThrowingTypeCorrect, WakeupsAreKept, JobsAreKept, ShutdownSettlesAll, PTL

=============================================================================
