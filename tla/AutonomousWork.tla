--------------------------- MODULE AutonomousWork ---------------------------
(***************************************************************************)
(* src/fortress/AutonomousWork: jobs, the workers that claim them under a  *)
(* lease, the ledger of the resources a claimed job has reserved, and the  *)
(* standing work orders that create jobs.                                  *)
(*                                                                         *)
(* A point of time is kept as the time that is left until it: a lease and  *)
(* the due time of an order count down with Tick.  Who is fit for a job    *)
(* (skills, policies, the path, the readiness of the workshop) and how the *)
(* fit pairs score is up to the caller: any choice is possible.            *)
(***************************************************************************)
EXTENDS Integers, FiniteSets, Functions

CONSTANTS
  Workers,
  Resources,
  Keys,        \* source keys of one origin, in the order of their ids
  Definitions, \* what a source may ask for: [needs, after, required]
  Orders,      \* work orders, in the order of their ids
  Order,       \* [Orders -> [mode, frequency, min, max, batch, period]]
  NoWorker,
  Lease,       \* leaseSeconds
  MaxJobs,     \* bound: JobIds are 1..MaxJobs
  MaxStock     \* bound of the stock the metrics of an evaluation show

Ids == 1..MaxJobs

ASSUME WorkAssumption ==
  /\ Keys \subseteq Nat \ {0} /\ IsFiniteSet(Keys)
  /\ Orders \subseteq Nat \ {0} /\ IsFiniteSet(Orders)
  /\ NoWorker \notin Workers
  /\ Lease \in Nat \ {0}
  /\ MaxJobs \in Nat \ {0}
  /\ MaxStock \in Nat
  /\ \A d \in Definitions :
       d.needs \subseteq Resources /\ d.after \subseteq Ids /\ d.required \in Nat \ {0}
  /\ Definitions \subseteq [needs : SUBSET Resources, after : SUBSET Ids, required : Nat \ {0}]
  /\ Order \in [Orders -> [mode : {"produce", "atLeast", "between", "repeat"},
                           frequency : {"once", "periodic", "transition", "event"},
                           min : Nat, max : Nat, batch : Nat \ {0}, period : Nat]]
  /\ \A o \in Orders : Order[o].frequency # "periodic" => Order[o].period = 0

VARIABLES
  jobs,        \* jobs_
  nextJobId,   \* nextJobId_
  ledger,      \* reservations_
  workers,     \* workers_: "absent", or registered and "off" or "available"
  orders       \* workOrders_

vars == <<jobs, nextJobId, ledger, workers, orders>>

NoJob == [state |-> "none", worker |-> NoWorker, left |-> 0, done |-> 0, required |-> 1,
          needs |-> {}, after |-> {}, key |-> 0, order |-> 0, quantity |-> 1]
Free == [job |-> 0, worker |-> NoWorker, left |-> 0]

Known == {j \in Ids : jobs[j].state # "none"}
Terminal(j) == jobs[j].state \in {"Completed", "Cancelled", "Failed"}
Open(j) == j \in Known /\ ~Terminal(j)
Claimed(j) == jobs[j].worker # NoWorker

Init ==
  /\ jobs = [j \in Ids |-> NoJob]
  /\ nextJobId = 1
  /\ ledger = [r \in Resources |-> Free]
  /\ workers = [w \in Workers |-> "absent"]
  /\ orders = [o \in Orders |-> [firedOnce |-> FALSE, wait |-> 0, lastConditionValue |-> FALSE,
                                 eventPending |-> FALSE]]

(***************************************************************************)
(* ReservationLedger                                                       *)
(***************************************************************************)
\* releaseJob, for the jobs of a set
Released(book, S) == [r \in Resources |-> IF book[r].job \in S THEN Free ELSE book[r]]

\* expire
Expired(claim) == IF claim.left = 0 THEN Free ELSE claim

(***************************************************************************)
(* Jobs                                                                    *)
(***************************************************************************)
Blocked(job) == [job EXCEPT !.state = "Blocked", !.worker = NoWorker, !.left = 0]

NewJob(d, key) == [NoJob EXCEPT !.state = "Candidate", !.needs = d.needs, !.after = d.after,
                                !.required = d.required, !.key = key]

\* Mutant of CreateJob: an id of the caller's does not move nextJobId_.
CreateJobBehind(id, d) ==
  /\ id \notin Known
  /\ jobs' = [jobs EXCEPT ![id] = NewJob(d, 0)]
  /\ nextJobId' = IF id = nextJobId THEN id + 1 ELSE nextJobId
  /\ UNCHANGED <<ledger, workers, orders>>

\* createJob, with an id of the caller's or with nextJobId_
CreateJob(id, d) ==
  /\ id \notin Known
  /\ jobs' = [jobs EXCEPT ![id] = NewJob(d, 0)]
  /\ nextJobId' = IF id >= nextJobId THEN id + 1 ELSE nextJobId
  /\ UNCHANGED <<ledger, workers, orders>>

\* Mutant of CancelledJob: the claim is not taken from the job.
CancelledClaimed(job) == [job EXCEPT !.state = "Cancelled"]

\* cancelJob
CancelledJob(job) == [job EXCEPT !.state = "Cancelled", !.worker = NoWorker, !.left = 0]

Cancel(j) ==
  /\ j \in Known
  /\ jobs' = [jobs EXCEPT ![j] = CancelledJob(@)]
  /\ ledger' = Released(ledger, {j})
  /\ UNCHANGED <<nextJobId, workers, orders>>

\* releaseJob, with no reason and with one
Release(j) ==
  /\ j \in Known
  /\ \E state \in {"Pending", "Blocked"} :
       jobs' = [jobs EXCEPT ![j] = [@ EXCEPT !.state = state, !.worker = NoWorker, !.left = 0]]
  /\ ledger' = Released(ledger, {j})
  /\ UNCHANGED <<nextJobId, workers, orders>>

(***************************************************************************)
(* synchronizeGeneratedJobs: the source publishes all it wants at present. *)
(***************************************************************************)
\* The job of a source key: of several the last one that was not cancelled.
OfKey(k) == {j \in Known : jobs[j].key = k /\ jobs[j].state # "Cancelled"}
Existing(k) == CHOOSE j \in OfKey(k) : \A i \in OfKey(k) : i <= j

\* Mutant of Updated: the progress of the job is not carried over.
UpdatedAfresh(job, d) ==
  [job EXCEPT !.needs = d.needs, !.after = d.after, !.done = 0,
              !.state = IF @ = "Blocked" THEN "Candidate" ELSE @]

\* A claimed job keeps its definition until its claim is given back.
Updated(job, d) ==
  [job EXCEPT !.needs = d.needs, !.after = d.after,
              !.state = IF @ = "Blocked" THEN "Candidate" ELSE @]

Synchronize(specs) ==
  LET present == DOMAIN specs
      created == {k \in present : OfKey(k) = {}}
      idOf(k) == nextJobId + Cardinality({i \in created : i < k})
      updated == {Existing(k) : k \in present \ created}
      current(j) == j \in updated /\ ~Terminal(j) /\ ~Claimed(j)
      withdrawn == {j \in {Existing(k) : k \in {i \in Keys \ present : OfKey(i) # {}}} : ~Terminal(j)}
  IN /\ nextJobId + Cardinality(created) <= MaxJobs + 1
     /\ jobs' = [j \in Ids |->
          IF \E k \in created : idOf(k) = j
            THEN LET k == CHOOSE i \in created : idOf(i) = j IN NewJob(specs[k], k)
          ELSE IF current(j) THEN Updated(jobs[j], specs[jobs[j].key])
          ELSE IF j \in withdrawn THEN CancelledJob(jobs[j])
          ELSE jobs[j]]
     /\ nextJobId' = nextJobId + Cardinality(created)
     /\ ledger' = Released(ledger, withdrawn)
     /\ UNCHANGED <<workers, orders>>

(***************************************************************************)
(* Workers and their claims                                                *)
(***************************************************************************)
UpsertWorker(w, snapshot) ==
  /\ workers' = [workers EXCEPT ![w] = snapshot]
  /\ UNCHANGED <<jobs, nextJobId, ledger, orders>>

\* Mutant of RemoveWorker: a job that is worked on stays with the worker.
RemoveIdleWorker(w) ==
  LET claims == {j \in Known : jobs[j].worker = w /\ jobs[j].state = "Claimed"}
  IN /\ workers' = [workers EXCEPT ![w] = "absent"]
     /\ jobs' = [j \in Ids |-> IF j \in claims THEN Blocked(jobs[j]) ELSE jobs[j]]
     /\ ledger' = Released(ledger, claims)
     /\ UNCHANGED <<nextJobId, orders>>

RemoveWorker(w) ==
  LET claims == {j \in Known : jobs[j].worker = w /\ ~Terminal(j)}
  IN /\ workers' = [workers EXCEPT ![w] = "absent"]
     /\ jobs' = [j \in Ids |-> IF j \in claims THEN Blocked(jobs[j]) ELSE jobs[j]]
     /\ ledger' = Released(ledger, claims)
     /\ UNCHANGED <<nextJobId, orders>>

\* expireLeases: the jobs whose claim, or the claim of one of whose resources,
\* has lapsed.
LeaseEnded(j) ==
  /\ \/ Claimed(j) /\ jobs[j].left = 0
     \/ \E r \in Resources : ledger[r].job = j /\ ledger[r].left = 0
  /\ jobs[j].state \notin {"Completed", "Cancelled"}

Unleased(j) == IF LeaseEnded(j) THEN Blocked(jobs[j]) ELSE jobs[j]

ExpireLeases ==
  /\ jobs' = [j \in Ids |-> Unleased(j)]
  /\ ledger' = [r \in Resources |-> Expired(ledger[r])]
  /\ UNCHANGED <<nextJobId, workers, orders>>

DependenciesComplete(j) == \A i \in jobs[j].after : jobs[i].state = "Completed"

\* Jobs that are open and have no claim once the leases are expired.
Unclaimed(j) ==
  Unleased(j).worker = NoWorker /\ Unleased(j).state \notin {"none", "Completed", "Cancelled", "Failed"}

\* Mutant of Candidates: a blocked job is not looked at again.
UnblockedCandidates ==
  {j \in Ids : Unclaimed(j) /\ DependenciesComplete(j) /\ jobs[j].state # "Blocked"}

\* What assign looks at after it expired the leases: open jobs that wait for
\* nothing, and the workers whose snapshots are available.
Candidates == {j \in Ids : Unclaimed(j) /\ DependenciesComplete(j)}

Available == {w \in Workers : workers[w] = "available"}
Pairs == Candidates \X Available

\* Mutant of Reservable: what another job has reserved is not looked at.
ReservableAnyway(j) == TRUE

\* reserveAtomic: no resource of j is another job's.
Reservable(j) == \A r \in jobs[j].needs : Expired(ledger[r]).job \in {0, j}

\* Pairs that assign may make together: each job and worker once, no resource
\* twice.
Compatible(decisions) ==
  /\ \A p \in decisions : Reservable(p[1])
  /\ \A p, q \in decisions : p # q =>
       p[1] # q[1] /\ p[2] # q[2] /\ jobs[p[1]].needs \cap jobs[q[1]].needs = {}

WorkerOf(decisions, j) == (CHOOSE p \in decisions : p[1] = j)[2]
Assigned(decisions) == {p[1] : p \in decisions}

\* assign: fit pairs are taken in the order of their scores while they are
\* compatible; every other job that is not claimed is blocked for a reason.
Assign(decisions) ==
  /\ UNCHANGED <<nextJobId, workers, orders>>
  /\ Compatible(decisions)
  /\ jobs' = [j \in Ids |->
       IF j \in Assigned(decisions)
         THEN [jobs[j] EXCEPT !.state = "Claimed", !.worker = WorkerOf(decisions, j), !.left = Lease]
       ELSE IF Unclaimed(j) THEN Blocked(jobs[j])
       ELSE jobs[j]]
  /\ ledger' = [r \in Resources |->
       IF \E j \in Assigned(decisions) : r \in jobs[j].needs
         THEN LET j == CHOOSE i \in Assigned(decisions) : r \in jobs[i].needs
              IN [job |-> j, worker |-> WorkerOf(decisions, j), left |-> Lease]
         ELSE Expired(ledger[r])]

\* invalidateReservation
Invalidate(r) ==
  LET j == ledger[r].job
  IN /\ j # 0
     /\ jobs' = [jobs EXCEPT ![j] = Blocked(@)]
     /\ ledger' = Released(ledger, {j})
     /\ UNCHANGED <<nextJobId, workers, orders>>

(***************************************************************************)
(* execute.  The executor may fail, advance the work or declare it done.   *)
(***************************************************************************)
Executable(j) == Claimed(j) /\ jobs[j].state \in {"Claimed", "Working"}

ExecuteFails(j) ==
  /\ Executable(j)
  /\ jobs' = [jobs EXCEPT ![j] = [@ EXCEPT !.state = "Failed", !.worker = NoWorker, !.left = 0]]
  /\ ledger' = Released(ledger, {j})
  /\ UNCHANGED <<nextJobId, workers, orders>>

\* Mutant of Finished: the claims of a finished job stay in the ledger.
FinishedHolding(j) ==
  /\ jobs' = [jobs EXCEPT ![j] = [@ EXCEPT !.state = "Completed", !.done = jobs[j].required,
                                           !.worker = NoWorker, !.left = 0]]
  /\ UNCHANGED ledger

\* The end of execute for a completed job.
Finished(j) ==
  /\ jobs' = [jobs EXCEPT ![j] = [@ EXCEPT !.state = "Completed", !.done = jobs[j].required,
                                           !.worker = NoWorker, !.left = 0]]
  /\ ledger' = Released(ledger, {j})

Execute(j, progressDelta, completed) ==
  /\ Executable(j)
  /\ IF completed \/ jobs[j].done + progressDelta >= jobs[j].required
       THEN Finished(j)
       ELSE /\ jobs' = [jobs EXCEPT ![j] = [@ EXCEPT !.state = "Working",
                                                     !.done = jobs[j].done + progressDelta]]
            /\ UNCHANGED ledger
  /\ UNCHANGED <<nextJobId, workers, orders>>

(***************************************************************************)
(* Work orders.  The caller passes the triggers evaluateWorkOrders returns *)
(* to instantiateTriggeredOrders at once.                                  *)
(***************************************************************************)
\* Mutant of Outstanding: a failed job counts as work under way.
OutstandingFailed(o) ==
  {j \in Known : jobs[j].order = o /\ jobs[j].state \notin {"Completed", "Cancelled"}}

\* The jobs of an order that outstandingOrderQuantity counts.
Outstanding(o) == {j \in Known : jobs[j].order = o /\ ~Terminal(j)}

JobQuantity == [j \in Ids |-> jobs[j].quantity]
OutstandingQuantity(o) == SumFunctionOnSet(JobQuantity, Outstanding(o))

\* workOrderQuantity
Quantity(o, stock) ==
  LET current == stock + OutstandingQuantity(o)
      upTo(n) == IF current >= n THEN 0 ELSE n - current
  IN CASE Order[o].mode = "repeat" -> Order[o].batch
       [] Order[o].mode = "produce" -> upTo(Order[o].max)
       [] Order[o].mode = "atLeast" -> upTo(Order[o].min)
       [] Order[o].mode = "between" -> IF current >= Order[o].min THEN 0 ELSE upTo(Order[o].max)

FrequencyAllows(o, conditions) ==
  CASE Order[o].frequency = "once" -> ~orders[o].firedOnce
    [] Order[o].frequency = "periodic" -> orders[o].wait = 0
    [] Order[o].frequency = "transition" -> conditions[o] /\ ~orders[o].lastConditionValue
    [] Order[o].frequency = "event" -> orders[o].eventPending

Triggered(stock, conditions) ==
  {o \in Orders : conditions[o] /\ FrequencyAllows(o, conditions) /\ Quantity(o, stock) > 0}

OrderJob(o, stock) ==
  [NoJob EXCEPT !.state = "Candidate", !.order = o, !.quantity = Quantity(o, stock),
                !.required = Quantity(o, stock)]

\* stock: what the metrics show of the product.  conditions: what
\* workOrderConditionsMet finds for each order.  Of its record an order keeps
\* the field its frequency reads.
EvaluateWorkOrders(stock, conditions) ==
  LET triggers == Triggered(stock, conditions)
      idOf(o) == nextJobId + Cardinality({p \in triggers : p < o})
  IN /\ UNCHANGED <<ledger, workers>>
     /\ nextJobId + Cardinality(triggers) <= MaxJobs + 1
     /\ orders' = [o \in Orders |->
          [orders[o] EXCEPT !.firedOnce = @ \/ (o \in triggers /\ Order[o].frequency = "once"),
                            !.wait = IF o \in triggers THEN Order[o].period ELSE @,
                            !.lastConditionValue = conditions[o] /\ Order[o].frequency = "transition",
                            !.eventPending = FALSE]]
     /\ jobs' = [j \in Ids |->
          IF \E o \in triggers : idOf(o) = j
            THEN OrderJob(CHOOSE o \in triggers : idOf(o) = j, stock) ELSE jobs[j]]
     /\ nextJobId' = nextJobId + Cardinality(triggers)

SignalWorkOrderEvent(o) ==
  /\ orders' = [orders EXCEPT ![o].eventPending = Order[o].frequency = "event"]
  /\ UNCHANGED <<jobs, nextJobId, ledger, workers>>

(***************************************************************************)
(* Time                                                                    *)
(***************************************************************************)
Less(n) == IF n = 0 THEN 0 ELSE n - 1

Tick ==
  /\ jobs' = [j \in Ids |-> [jobs[j] EXCEPT !.left = Less(@)]]
  /\ ledger' = [r \in Resources |-> [ledger[r] EXCEPT !.left = Less(@)]]
  /\ orders' = [o \in Orders |-> [orders[o] EXCEPT !.wait = Less(@)]]
  /\ UNCHANGED <<nextJobId, workers>>

\* Partial functions from Keys to Definitions
Snapshots == UNION {[S -> Definitions] : S \in SUBSET Keys}

Next ==
  \/ \E d \in Definitions : \E id \in Ids : CreateJob(id, d)
  \/ \E specs \in Snapshots : Synchronize(specs)
  \/ \E j \in Ids : Cancel(j) \/ Release(j) \/ ExecuteFails(j)
  \/ \E j \in Ids, d \in {0, 1}, completed \in BOOLEAN : Execute(j, d, completed)
  \/ \E w \in Workers : RemoveWorker(w) \/ \E s \in {"off", "available"} : UpsertWorker(w, s)
  \/ \E decisions \in SUBSET Pairs : Assign(decisions)
  \/ ExpireLeases
  \/ \E r \in Resources : Invalidate(r)
  \/ \E stock \in 0..MaxStock, conditions \in [Orders -> BOOLEAN] :
       EvaluateWorkOrders(stock, conditions)
  \/ \E o \in Orders : SignalWorkOrderEvent(o)
  \/ Tick

\* assign when every available worker is fit for every job: no pair is left
\* that could be made too.
FullAssign ==
  \E decisions \in SUBSET Pairs :
    /\ Assign(decisions)
    /\ \A p \in Pairs \ decisions : ~Compatible(decisions \union {p})

\* The caller lets time pass, assigns again and again, executes claimed jobs
\* now and then within their leases, and evaluates the orders at times when
\* their conditions are met and nothing is in stock.
Fairness ==
  /\ WF_vars(Tick)
  /\ WF_vars(FullAssign)
  /\ SF_vars(\E j \in Ids : Execute(j, 1, FALSE))
  /\ WF_vars(EvaluateWorkOrders(0, [o \in Orders |-> TRUE]))

Spec == Init /\ [][Next]_vars /\ Fairness

(***************************************************************************)
(* Properties                                                              *)
(***************************************************************************)
States == {"none", "Candidate", "Pending", "Claimed", "Working", "Blocked", "Completed",
           "Cancelled", "Failed"}
JobRecords == [state : States, worker : Workers \union {NoWorker}, left : 0..Lease, done : Nat,
               required : Nat \ {0}, needs : SUBSET Resources, after : SUBSET Ids,
               key : Keys \union {0}, order : Orders \union {0}, quantity : Nat]
Claims == [job : Ids \union {0}, worker : Workers \union {NoWorker}, left : 0..Lease]

\* The types of the work system; ids are handed out in order.
TypeOK ==
  /\ jobs \in [Ids -> JobRecords]
  /\ nextJobId \in 1..(MaxJobs + 1)
  /\ ledger \in [Resources -> Claims]
  /\ workers \in [Workers -> {"absent", "off", "available"}]
  /\ orders \in [Orders -> [firedOnce : BOOLEAN, wait : Nat, lastConditionValue : BOOLEAN,
                             eventPending : BOOLEAN]]
  /\ \A j \in Known : j < nextJobId

\* reserveAtomic is all or nothing, and leases end in the ledger and in the
\* job at the same time: a claimed job owns every resource it needs, for its
\* worker and as long as its claim, and the ledger holds nothing else.
ClaimsAgree ==
  /\ \A j \in Known : Claimed(j) =>
       \A r \in jobs[j].needs :
         ledger[r] = [job |-> j, worker |-> jobs[j].worker, left |-> jobs[j].left]
  /\ \A r \in Resources : ledger[r].job # 0 =>
       /\ ledger[r].job \in Known
       /\ Claimed(ledger[r].job)
       /\ r \in jobs[ledger[r].job].needs

\* No job is left claimed by a worker that removeWorker took away, and only
\* jobs that are claimed or worked on have a worker.
ClaimantsPresent ==
  \A j \in Known : Claimed(j) =>
    workers[jobs[j].worker] # "absent" /\ jobs[j].state \in {"Claimed", "Working"}

\* A lease that is running is not taken away by an assignment: a resource goes
\* from one job to another only when the first one's lease has ended.
NoTheft ==
  \A r \in Resources :
    (ledger[r].job # 0 /\ ledger'[r].job \notin {0, ledger[r].job}) => ledger[r].left = 0
LeasesRespected == [][NoTheft]_vars

\* Losing the worker, the lease or a resource, and a new snapshot of the
\* source, keep the work that was done; a job's id never gets another job.
WorkKept ==
  [][\A j \in Known : jobs'[j].done >= jobs[j].done /\ jobs'[j].key = jobs[j].key
                       /\ jobs'[j].order = jobs[j].order]_vars

\* The ledger's claims as an abstract book of claims: every operation gives
\* claims back whole, or grants them whole and side by side, or lets leases
\* run out.
Book ==
  INSTANCE ResourceClaims WITH
    Jobs <- Ids,
    needs <- [j \in Ids |-> jobs[j].needs],
    holds <- [j \in Ids |-> {r \in Resources : ledger[r].job = j}],
    claimed <- {j \in Ids : Claimed(j)},
    over <- {j \in Ids : Claimed(j) /\ jobs[j].left = 0}

\* What assign, execute, the lease clock, the sources and the owners do to the
\* ledger, to the leases and to the jobs is one book of claims.
ImplementsClaims == Book!Spec

\* No one revives or gives up a job, takes a running claim from it or changes
\* what it waits for, and the workers stay as they are.
Calm ==
  /\ workers' = workers
  /\ \A j \in Known :
       /\ jobs'[j].after = jobs[j].after
       /\ \/ jobs'[j].state = "Completed"
          \/ /\ Terminal(j) <=> Terminal(j)'
             /\ Claimed(j) /\ jobs[j].left > 0 => Claimed(j)'

\* Whatever was cancelled, taken away or blocked before, and whoever left: with
\* a worker at hand every open job that waits for nothing is finished in the
\* end.  No claim of the ledger outlives its job and no job stays blocked.
WorkDrains ==
  <>[][Calm]_vars =>
    <>[](Available # {} => \A j \in Known : Open(j) => ~DependenciesComplete(j))

\* A periodic order that maintains a stock does so for good: while nothing is
\* in stock there is again and again enough of it under way, also when its jobs
\* fail or are cancelled, as long as there are job ids left.
Replenishes ==
  \A o \in Orders :
    Order[o].frequency = "periodic" /\ Order[o].mode = "atLeast" =>
      []<>(\/ SumFunctionOnSet(JobQuantity, {j \in Ids : Open(j) /\ jobs[j].order = o})
                >= Order[o].min
           \/ nextJobId > MaxJobs)

-----------------------------------------------------------------------------
(***************************************************************************)
(* The inductive invariant behind the safety properties.  What a job is    *)
(* short of is never negative, and an id that was not handed out yet is    *)
(* nobody's, nor is a resource that no job has.                            *)
(***************************************************************************)
WithinWork == \A j \in Ids : jobs[j].done <= jobs[j].required

Unused ==
  /\ \A j \in Ids \ Known : jobs[j] = NoJob
  /\ \A r \in Resources : ledger[r].job = 0 => ledger[r] = Free

IInv ==
  /\ TypeOK
  /\ WithinWork
  /\ Unused
  /\ ClaimsAgree
  /\ ClaimantsPresent

=============================================================================
