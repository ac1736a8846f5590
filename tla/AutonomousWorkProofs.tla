------------------------ MODULE AutonomousWorkProofs ------------------------
(***************************************************************************)
(* Theorems of AutonomousWork for any workers, resources, definitions and  *)
(* orders, any lease and any number of jobs.  Most operations only give    *)
(* claims up: the lemma Maintained treats these together.  An assignment,  *)
(* an execution that goes on and the clock are treated by themselves.      *)
(***************************************************************************)
EXTENDS AutonomousWork, FiniteSums, TLAPS

\* A job whose claim is given up, in the state s.
GivenUp(x, s) == [x EXCEPT !.state = s, !.worker = NoWorker, !.left = 0]

\* What every step does: the invariant holds after it, the work that was done
\* is kept, no running lease is taken away, and the book of claims makes a step
\* of its own or none.
KeepsWork ==
  \A j \in Known : jobs'[j].done >= jobs[j].done /\ jobs'[j].key = jobs[j].key
                    /\ jobs'[j].order = jobs[j].order
Booked == Book!Next \/ UNCHANGED Book!vars
Good == IInv' /\ KeepsWork /\ NoTheft /\ Booked

\* What a step does to the job j, whatever becomes of its claim.
Proceeds(j) ==
  /\ jobs'[j].done <= jobs'[j].required
  /\ IF jobs'[j].state = "none" THEN j \notin Known /\ jobs'[j] = NoJob ELSE j < nextJobId'
  /\ j \in Known =>
       jobs'[j].done >= jobs[j].done /\ jobs'[j].key = jobs[j].key /\ jobs'[j].order = jobs[j].order

\* What a step that gives up the claims of S does to it.
Passes(j, S) ==
  /\ Proceeds(j)
  /\ IF Claimed(j) /\ j \notin S
       THEN jobs'[j] = jobs[j] /\ workers'[jobs[j].worker] # "absent"
       ELSE jobs'[j].worker = NoWorker

\* The types of the other variables.
OrderRecords == [firedOnce : BOOLEAN, wait : Nat, lastConditionValue : BOOLEAN, eventPending : BOOLEAN]
Snapshot == {"absent", "off", "available"}

-----------------------------------------------------------------------------
(* Records.                                                                *)

\* The fields of a job whose claim was given up.
LEMMA GivenUpJob ==
  ASSUME NEW x \in JobRecords, NEW s \in States
  PROVE  /\ GivenUp(x, s) \in JobRecords /\ GivenUp(x, s).state = s /\ GivenUp(x, s).worker = NoWorker
         /\ GivenUp(x, s).done = x.done /\ GivenUp(x, s).required = x.required
         /\ GivenUp(x, s).key = x.key /\ GivenUp(x, s).order = x.order
         /\ GivenUp(x, s).needs = x.needs
<1>1. 0 \in 0..Lease
  BY WorkAssumption
<1> QED
  BY <1>1 DEF GivenUp, JobRecords

\* An id that was not handed out is of no job.
LEMMA NoJobTyped ==
  NoJob \in JobRecords /\ NoJob.state = "none" /\ NoJob.worker = NoWorker /\ NoJob.done <= NoJob.required
<1>1. 0 \in 0..Lease
  BY WorkAssumption
<1> QED
  BY <1>1 DEF NoJob, JobRecords, States

\* The job of a definition.
LEMMA NewJobTyped ==
  ASSUME NEW d \in Definitions, NEW k \in Keys \union {0}
  PROVE  /\ NewJob(d, k) \in JobRecords /\ NewJob(d, k).state = "Candidate"
         /\ NewJob(d, k).worker = NoWorker /\ NewJob(d, k).done <= NewJob(d, k).required
<1> DEFINE y == NewJob(d, k)
<1>1. d.needs \in SUBSET Resources /\ d.after \in SUBSET Ids /\ d.required \in Nat \ {0}
  BY WorkAssumption
<1>2. NoJob \in JobRecords /\ NoJob.done = 0 /\ NoJob.worker = NoWorker
  BY NoJobTyped DEF NoJob
<1>3. /\ y.state = "Candidate" /\ y.worker = NoWorker /\ y.done = 0 /\ y.required = d.required
  BY <1>2 DEF NewJob, NoJob
<1>4. y \in JobRecords
  <2> HIDE DEF NoJob
  <2> QED
    BY <1>1, <1>2 DEF NewJob, JobRecords, States
<1> QED
  BY <1>1, <1>3, <1>4

\* The ledger after the jobs of a set gave up their claims.
LEMMA ReleasedTyped ==
  ASSUME ledger \in [Resources -> Claims], NEW S
  PROVE  Released(ledger, S) \in [Resources -> Claims]
<1>1. Free \in Claims
  <2>1. 0 \in 0..Lease
    BY WorkAssumption
  <2> QED
    BY <2>1 DEF Free, Claims
<1> QED
  BY <1>1 DEF Released

\* The initial state.
LEMMA InitGood == Init => IInv
<1> SUFFICES ASSUME Init PROVE IInv
  OBVIOUS
<1>1. NoJob \in JobRecords /\ NoJob.state = "none" /\ NoJob.done <= NoJob.required
  BY NoJobTyped
<1>2. Known = {}
  BY <1>1 DEF Init, Known
<1>3. Free \in Claims /\ Free.job = 0
  <2>1. 0 \in 0..Lease
    BY WorkAssumption
  <2> QED
    BY <2>1 DEF Free, Claims
<1> HIDE DEF NoJob, Free
<1>4. TypeOK
  BY <1>1, <1>2, <1>3, WorkAssumption DEF Init, TypeOK
<1>5. WithinWork /\ Unused
  BY <1>1, <1>2, <1>3 DEF Init, WithinWork, Unused
<1>6. ClaimsAgree /\ ClaimantsPresent
  BY <1>2, <1>3 DEF Init, ClaimsAgree, ClaimantsPresent
<1> QED
  BY <1>4, <1>5, <1>6 DEF IInv

-----------------------------------------------------------------------------
(* Steps that give claims up.                                              *)

\* The part of the invariant that does not speak of claims, after a step.
Orderly == TypeOK' /\ WithinWork' /\ Unused' /\ KeepsWork

\* A step that leaves each job in order leaves that part intact.
LEMMA Proceeding ==
  ASSUME IInv,
         jobs' \in [Ids -> JobRecords], nextJobId' \in 1..(MaxJobs + 1),
         workers' \in [Workers -> Snapshot], orders' \in [Orders -> OrderRecords],
         ledger' \in [Resources -> Claims],
         \A r \in Resources : ledger'[r].job = 0 => ledger'[r] = Free,
         \A j \in Ids : Proceeds(j)
  PROVE  Orderly
<1>1. TypeOK'
  <2>1. \A j \in Ids : jobs'[j].state # "none" => j < nextJobId'
    BY DEF Proceeds
  <2> QED
    BY <2>1 DEF TypeOK, Known, Snapshot, OrderRecords, Ids
<1>2. WithinWork'
  BY DEF WithinWork, Proceeds, Ids
<1>3. Unused'
  <2>1. \A j \in Ids : jobs'[j].state = "none" => jobs'[j] = NoJob
    BY DEF Proceeds
  <2> QED
    BY <2>1 DEF Unused, Known, Ids, NoJob, Free
<1>4. KeepsWork
  BY DEF KeepsWork, Proceeds, Known
<1> QED
  BY <1>1, <1>2, <1>3, <1>4 DEF Orderly

-----------------------------------------------------------------------------
(* The book of claims.                                                     *)

\* What the invariant says of the resources: they are held by the jobs that
\* have a claim, and each of these holds what it needs.
LEMMA Holding ==
  ASSUME NEW book, NEW job,
         \A j \in Ids : job[j].worker # NoWorker =>
           job[j].needs \subseteq Resources /\ \A r \in job[j].needs : book[r].job = j,
         \A r \in Resources : book[r].job \in Ids =>
           job[book[r].job].worker # NoWorker /\ r \in job[book[r].job].needs
  PROVE  \A j \in Ids : {r \in Resources : book[r].job = j} =
                        IF job[j].worker # NoWorker THEN job[j].needs ELSE {}
<1> TAKE j \in Ids
<1>1. CASE job[j].worker # NoWorker
  <2>1. \A r \in job[j].needs : r \in Resources /\ book[r].job = j
    BY <1>1
  <2>2. \A r \in Resources : book[r].job = j => r \in job[j].needs
    OBVIOUS
  <2> QED
    BY <1>1, <2>1, <2>2
<1>2. CASE job[j].worker = NoWorker
  BY <1>2
<1> QED
  BY <1>1, <1>2

\* This holds before each step ...
LEMMA HeldBefore ==
  ASSUME IInv
  PROVE  \A j \in Ids : {r \in Resources : ledger[r].job = j} = IF Claimed(j) THEN jobs[j].needs ELSE {}
<1>1. ASSUME NEW j \in Ids, jobs[j].worker # NoWorker
      PROVE  jobs[j].needs \subseteq Resources /\ \A r \in jobs[j].needs : ledger[r].job = j
  <2>1. jobs[j].state # "none"
    BY <1>1 DEF IInv, Unused, Known, NoJob
  <2>2. \A r \in jobs[j].needs : ledger[r] = [job |-> j, worker |-> jobs[j].worker, left |-> jobs[j].left]
    BY <1>1, <2>1 DEF IInv, ClaimsAgree, Known, Claimed
  <2> QED
    BY <2>2 DEF IInv, TypeOK, JobRecords
<1>2. \A r \in Resources : ledger[r].job \in Ids =>
        jobs[ledger[r].job].worker # NoWorker /\ r \in jobs[ledger[r].job].needs
  BY WorkAssumption DEF IInv, ClaimsAgree, Claimed, Ids
<1> QED
  BY <1>1, <1>2, Holding DEF Claimed

\* ... and after it.
LEMMA HeldAfter ==
  ASSUME IInv'
  PROVE  \A j \in Ids : {r \in Resources : ledger'[r].job = j} = IF Claimed(j)' THEN jobs'[j].needs ELSE {}
<1>1. ASSUME NEW j \in Ids, jobs'[j].worker # NoWorker
      PROVE  jobs'[j].needs \subseteq Resources /\ \A r \in jobs'[j].needs : ledger'[r].job = j
  <2>1. jobs'[j].state # "none"
    BY <1>1 DEF IInv, Unused, Known, NoJob, Ids
  <2>2. \A r \in jobs'[j].needs : ledger'[r] = [job |-> j, worker |-> jobs'[j].worker, left |-> jobs'[j].left]
    BY <1>1, <2>1 DEF IInv, ClaimsAgree, Known, Claimed, Ids
  <2> QED
    BY <2>2 DEF IInv, TypeOK, JobRecords, Ids
<1>2. \A r \in Resources : ledger'[r].job \in Ids =>
        jobs'[ledger'[r].job].worker # NoWorker /\ r \in jobs'[ledger'[r].job].needs
  BY WorkAssumption DEF IInv, ClaimsAgree, Claimed, Ids
<1> QED
  BY <1>1, <1>2, Holding DEF Claimed

\* A step after which no job has a claim it did not have, and no claim another
\* lease or other needs, gives claims back.
LEMMA GivenBack ==
  ASSUME IInv, IInv',
         \A j \in Ids : jobs'[j].worker # NoWorker =>
           Claimed(j) /\ jobs'[j].needs = jobs[j].needs /\ jobs'[j].left = jobs[j].left
  PROVE  Booked
<1> DEFINE S == {j \in Ids : Claimed(j) /\ jobs'[j].worker = NoWorker}
           held == [j \in Ids |-> {r \in Resources : ledger[r].job = j}]
           heldNext == [j \in Ids |-> {r \in Resources : ledger'[r].job = j}]
<1>1. S \in SUBSET {j \in Ids : Claimed(j)}
  OBVIOUS
<1>2. {j \in Ids : Claimed(j)'} = {j \in Ids : Claimed(j)} \ S
  BY DEF Claimed
<1>3. {j \in Ids : Claimed(j)' /\ jobs'[j].left = 0} = {j \in Ids : Claimed(j) /\ jobs[j].left = 0} \ S
  BY DEF Claimed
<1>4. heldNext = [j \in Ids |-> IF j \in S THEN {} ELSE held[j]]
  <2>1. ASSUME NEW j \in Ids PROVE heldNext[j] = IF j \in S THEN {} ELSE held[j]
    <3>1. /\ heldNext[j] = IF Claimed(j)' THEN jobs'[j].needs ELSE {}
          /\ held[j] = IF Claimed(j) THEN jobs[j].needs ELSE {}
      BY HeldBefore, HeldAfter
    <3> HIDE DEF held, heldNext
    <3> QED
      BY <3>1 DEF Claimed
  <2> QED
    BY <2>1
<1>5. \A j \in {i \in Ids : Claimed(i)'} :
        [i \in Ids |-> jobs'[i].needs][j] = [i \in Ids |-> jobs[i].needs][j]
  BY DEF Claimed
<1> HIDE DEF S
<1>6. Book!Next
  BY <1>1, <1>2, <1>3, <1>4, <1>5 DEF Book!Next, Book!GiveBack, Ids
<1> QED
  BY <1>6 DEF Booked

-----------------------------------------------------------------------------
\* A step that gives up the claims of S and no others.
LEMMA Maintained ==
  ASSUME IInv, NEW S,
         jobs' \in [Ids -> JobRecords], nextJobId' \in 1..(MaxJobs + 1),
         workers' \in [Workers -> Snapshot], orders' \in [Orders -> OrderRecords],
         ledger' = Released(ledger, S),
         \A j \in Ids : Passes(j, S)
  PROVE  Good
<1>1. ledger' \in [Resources -> Claims]
  BY ReleasedTyped DEF IInv, TypeOK
<1>2. \A r \in Resources : ledger'[r].job = 0 => ledger'[r] = Free
  BY DEF Released, IInv, Unused
<1>3. Orderly
  <2>1. \A j \in Ids : Proceeds(j)
    BY DEF Passes
  <2> QED
    BY <1>1, <1>2, <2>1, Proceeding
<1>4. \A j \in Ids : jobs'[j].worker # NoWorker =>
        j \notin S /\ jobs'[j] = jobs[j] /\ Claimed(j) /\ workers'[jobs[j].worker] # "absent"
  BY DEF Passes, Proceeds
<1>5. \A j \in Ids : jobs'[j].worker # NoWorker => j \in Known
  BY <1>4, NoJobTyped DEF IInv, Unused, Claimed
<1>6. ClaimsAgree'
  <2>1. ASSUME NEW j \in Ids, jobs'[j].worker # NoWorker, NEW r \in jobs'[j].needs
        PROVE  ledger'[r] = [job |-> j, worker |-> jobs'[j].worker, left |-> jobs'[j].left]
    <3>1. j \in Known /\ Claimed(j) /\ jobs'[j] = jobs[j] /\ j \notin S
      BY <1>4, <1>5, <2>1
    <3>2. ledger[r] = [job |-> j, worker |-> jobs[j].worker, left |-> jobs[j].left]
      BY <2>1, <3>1 DEF IInv, ClaimsAgree
    <3>3. r \in Resources
      BY <2>1 DEF JobRecords
    <3> QED
      BY <3>1, <3>2, <3>3 DEF Released
  <2>2. ASSUME NEW r \in Resources, ledger'[r].job # 0
        PROVE  /\ ledger'[r].job \in Known' /\ jobs'[ledger'[r].job].worker # NoWorker
               /\ r \in jobs'[ledger'[r].job].needs
    <3>1. ledger'[r] = ledger[r] /\ ledger[r].job \notin S
      BY <2>2 DEF Released, Free
    <3>2. ledger[r].job \in Known /\ Claimed(ledger[r].job) /\ r \in jobs[ledger[r].job].needs
      BY <2>2, <3>1 DEF IInv, ClaimsAgree
    <3>3. jobs'[ledger[r].job] = jobs[ledger[r].job]
      BY <3>1, <3>2 DEF Passes, Known
    <3> QED
      BY <3>1, <3>2, <3>3 DEF Known, Claimed, Ids
  <2> QED
    BY <2>1, <2>2 DEF ClaimsAgree, Known, Claimed, Ids
<1>7. ClaimantsPresent'
  BY <1>4, <1>5 DEF IInv, ClaimantsPresent, Known, Claimed, Ids
<1>8. NoTheft
  BY DEF NoTheft, Released, Free
<1>9. IInv'
  BY <1>3, <1>6, <1>7 DEF IInv, Orderly
<1>10. Booked
  BY <1>4, <1>9, GivenBack
<1> QED
  BY <1>3, <1>8, <1>9, <1>10 DEF Good, Orderly

\* What the invariant says of one job.
LEMMA OneJob ==
  ASSUME IInv, NEW j \in Ids
  PROVE  /\ jobs[j] \in JobRecords /\ jobs[j].done <= jobs[j].required
         /\ IF jobs[j].state = "none" THEN j \notin Known /\ jobs[j] = NoJob ELSE j < nextJobId
         /\ Claimed(j) => /\ j \in Known /\ jobs[j].state \in {"Claimed", "Working"}
                         /\ workers[jobs[j].worker] # "absent"
<1>1. jobs[j] \in JobRecords /\ jobs[j].done <= jobs[j].required
  BY DEF IInv, TypeOK, WithinWork
<1>2. IF jobs[j].state = "none" THEN j \notin Known /\ jobs[j] = NoJob ELSE j < nextJobId
  BY DEF IInv, TypeOK, Unused, Known
<1>3. Claimed(j) => j \in Known
  BY <1>2, NoJobTyped DEF Claimed, Known
<1>4. j \in Known /\ Claimed(j) => jobs[j].state \in {"Claimed", "Working"} /\ workers[jobs[j].worker] # "absent"
  BY DEF IInv, ClaimantsPresent
<1> QED
  BY <1>1, <1>2, <1>3, <1>4

\* A job that a step leaves alone.
LEMMA Untouched ==
  ASSUME IInv, NEW j \in Ids, NEW S, j \notin S \/ ~Claimed(j), jobs'[j] = jobs[j],
         nextJobId' \in Nat, nextJobId' >= nextJobId,
         Claimed(j) => workers'[jobs[j].worker] # "absent"
  PROVE  Passes(j, S)
<1>1. nextJobId \in Nat /\ j \in Nat
  BY DEF IInv, TypeOK, Ids
<1>2. jobs[j].done \in Nat
  BY OneJob DEF JobRecords
<1>3. jobs[j].state = "none" => j \notin Known
  BY DEF Known
<1> QED
  BY <1>1, <1>2, <1>3, OneJob DEF Passes, Proceeds, Claimed

\* A job that a step takes the claim from.
LEMMA TakenFrom ==
  ASSUME IInv, NEW j \in Known, NEW S, j \in S \/ ~Claimed(j), NEW s \in States \ {"none"},
         jobs'[j] = GivenUp(jobs[j], s), nextJobId' \in Nat, nextJobId' >= nextJobId
  PROVE  Passes(j, S)
<1>1. j \in Ids /\ nextJobId \in Nat /\ j \in Nat
  BY DEF IInv, TypeOK, Ids, Known
<1>2. jobs[j] \in JobRecords /\ jobs[j].done <= jobs[j].required /\ j < nextJobId
  BY <1>1, OneJob DEF Known
<1>3. jobs[j].done \in Nat
  BY <1>2 DEF JobRecords
<1>4. /\ jobs'[j].state = s /\ jobs'[j].worker = NoWorker /\ jobs'[j].done = jobs[j].done
      /\ jobs'[j].required = jobs[j].required /\ jobs'[j].key = jobs[j].key /\ jobs'[j].order = jobs[j].order
  BY <1>2, GivenUpJob
<1> QED
  BY <1>1, <1>2, <1>3, <1>4 DEF Passes, Proceeds

\* A step that takes the claims from the jobs of a set and does nothing else
\* but to change the workers.
LEMMA Taken ==
  ASSUME IInv, NEW S \in SUBSET Known, NEW s \in States \ {"none"},
         jobs' = [j \in Ids |-> IF j \in S THEN GivenUp(jobs[j], s) ELSE jobs[j]],
         ledger' = Released(ledger, S), nextJobId' = nextJobId, orders' = orders,
         workers' \in [Workers -> Snapshot],
         \A j \in Known \ S : Claimed(j) => workers'[jobs[j].worker] # "absent"
  PROVE  Good
<1>1. /\ nextJobId' \in 1..(MaxJobs + 1) /\ nextJobId' \in Nat /\ nextJobId' >= nextJobId
      /\ orders' \in [Orders -> OrderRecords]
  BY WorkAssumption DEF IInv, TypeOK, OrderRecords
<1>2. \A j \in Ids : GivenUp(jobs[j], s) \in JobRecords /\ jobs[j] \in JobRecords
  BY OneJob, GivenUpJob
<1>3. jobs' \in [Ids -> JobRecords]
  BY <1>2
<1>4. \A j \in Ids : Passes(j, S)
  <2> TAKE j \in Ids
  <2>1. CASE j \in S
    <3>1. j \in Known /\ jobs'[j] = GivenUp(jobs[j], s)
      BY <2>1
    <3> QED
      BY <2>1, <3>1, <1>1, TakenFrom
  <2>2. CASE j \notin S
    <3>1. jobs'[j] = jobs[j]
      BY <2>2
    <3>2. Claimed(j) => workers'[jobs[j].worker] # "absent"
      BY <2>2, OneJob
    <3> QED
      BY <2>2, <3>1, <3>2, <1>1, Untouched
  <2> QED
    BY <2>1, <2>2
<1> QED
  BY <1>1, <1>3, <1>4, Maintained

\* cancelJob
LEMMA CancelGood == ASSUME IInv, NEW j \in Ids, Cancel(j) PROVE Good
<1>1. {j} \in SUBSET Known /\ "Cancelled" \in States \ {"none"}
  BY DEF Cancel, States
<1>2. jobs' = [i \in Ids |-> IF i \in {j} THEN GivenUp(jobs[i], "Cancelled") ELSE jobs[i]]
  BY DEF Cancel, CancelledJob, GivenUp, IInv, TypeOK
<1>3. workers' \in [Workers -> Snapshot] /\ workers' = workers
  BY DEF Cancel, IInv, TypeOK, Snapshot
<1>4. \A i \in Known \ {j} : Claimed(i) => workers'[jobs[i].worker] # "absent"
  BY <1>3 DEF IInv, ClaimantsPresent
<1>5. ledger' = Released(ledger, {j}) /\ nextJobId' = nextJobId /\ orders' = orders
  BY DEF Cancel
<1> QED
  BY <1>1, <1>2, <1>3, <1>4, <1>5, Taken

\* releaseJob
LEMMA ReleaseGood == ASSUME IInv, NEW j \in Ids, Release(j) PROVE Good
<1>1. PICK s \in {"Pending", "Blocked"} :
        jobs' = [jobs EXCEPT ![j] = [@ EXCEPT !.state = s, !.worker = NoWorker, !.left = 0]]
  BY DEF Release
<1>2. {j} \in SUBSET Known /\ s \in States \ {"none"}
  BY <1>1 DEF Release, States
<1>3. jobs' = [i \in Ids |-> IF i \in {j} THEN GivenUp(jobs[i], s) ELSE jobs[i]]
  BY <1>1 DEF GivenUp, IInv, TypeOK
<1>4. workers' \in [Workers -> Snapshot] /\ workers' = workers
  BY DEF Release, IInv, TypeOK, Snapshot
<1>5. \A i \in Known \ {j} : Claimed(i) => workers'[jobs[i].worker] # "absent"
  BY <1>4 DEF IInv, ClaimantsPresent
<1>6. ledger' = Released(ledger, {j}) /\ nextJobId' = nextJobId /\ orders' = orders
  BY DEF Release
<1> QED
  BY <1>2, <1>3, <1>4, <1>5, <1>6, Taken

\* execute, when the executor fails
LEMMA ExecuteFailsGood == ASSUME IInv, NEW j \in Ids, ExecuteFails(j) PROVE Good
<1>1. {j} \in SUBSET Known /\ "Failed" \in States \ {"none"}
  BY OneJob DEF ExecuteFails, Executable, States
<1>2. jobs' = [i \in Ids |-> IF i \in {j} THEN GivenUp(jobs[i], "Failed") ELSE jobs[i]]
  BY DEF ExecuteFails, GivenUp, IInv, TypeOK
<1>3. workers' \in [Workers -> Snapshot] /\ workers' = workers
  BY DEF ExecuteFails, IInv, TypeOK, Snapshot
<1>4. \A i \in Known \ {j} : Claimed(i) => workers'[jobs[i].worker] # "absent"
  BY <1>3 DEF IInv, ClaimantsPresent
<1>5. ledger' = Released(ledger, {j}) /\ nextJobId' = nextJobId /\ orders' = orders
  BY DEF ExecuteFails
<1> QED
  BY <1>1, <1>2, <1>3, <1>4, <1>5, Taken

\* invalidateReservation
LEMMA InvalidateGood == ASSUME IInv, NEW r \in Resources, Invalidate(r) PROVE Good
<1> DEFINE j == ledger[r].job
<1>1. {j} \in SUBSET Known /\ "Blocked" \in States \ {"none"}
  BY DEF Invalidate, States, IInv, ClaimsAgree
<1>2. jobs' = [i \in Ids |-> IF i \in {j} THEN GivenUp(jobs[i], "Blocked") ELSE jobs[i]]
  BY <1>1 DEF Invalidate, Blocked, GivenUp, IInv, TypeOK
<1>3. workers' \in [Workers -> Snapshot] /\ workers' = workers
  BY DEF Invalidate, IInv, TypeOK, Snapshot
<1>4. \A i \in Known \ {j} : Claimed(i) => workers'[jobs[i].worker] # "absent"
  BY <1>3 DEF IInv, ClaimantsPresent
<1>5. ledger' = Released(ledger, {j}) /\ nextJobId' = nextJobId /\ orders' = orders
  BY DEF Invalidate
<1> HIDE DEF j
<1> QED
  BY <1>1, <1>2, <1>3, <1>4, <1>5, Taken

\* removeWorker
LEMMA RemoveWorkerGood == ASSUME IInv, NEW w \in Workers, RemoveWorker(w) PROVE Good
<1> DEFINE S == {j \in Known : jobs[j].worker = w /\ ~Terminal(j)}
<1>1. S \in SUBSET Known /\ "Blocked" \in States \ {"none"}
  BY DEF States
<1>2. jobs' = [i \in Ids |-> IF i \in S THEN GivenUp(jobs[i], "Blocked") ELSE jobs[i]]
  BY DEF RemoveWorker, Blocked, GivenUp
<1>3. workers' \in [Workers -> Snapshot] /\ \A v \in Workers \ {w} : workers'[v] = workers[v]
  BY DEF RemoveWorker, IInv, TypeOK, Snapshot
<1>4. ASSUME NEW i \in Known \ S, Claimed(i) PROVE workers'[jobs[i].worker] # "absent"
  <2>1. /\ i \in Ids /\ jobs[i].state \in {"Claimed", "Working"} /\ workers[jobs[i].worker] # "absent"
        /\ jobs[i] \in JobRecords
    BY <1>4, OneJob DEF Known
  <2>2. jobs[i].worker # w
    BY <2>1 DEF Terminal
  <2>3. jobs[i].worker \in Workers
    BY <1>4, <2>1 DEF JobRecords, Claimed
  <2> QED
    BY <1>3, <2>1, <2>2, <2>3
<1>5. ledger' = Released(ledger, S) /\ nextJobId' = nextJobId /\ orders' = orders
  BY DEF RemoveWorker
<1> HIDE DEF S
<1> QED
  BY <1>1, <1>2, <1>3, <1>4, <1>5, Taken

-----------------------------------------------------------------------------
(* Steps that leave the claims alone.                                      *)

\* A step that changes neither jobs nor ledger, and leaves no claimed job
\* without its worker.
LEMMA JobsUntouched ==
  ASSUME IInv, jobs' = jobs, ledger' = ledger, nextJobId' = nextJobId,
         workers' \in [Workers -> Snapshot], orders' \in [Orders -> OrderRecords],
         \A j \in Known : Claimed(j) => workers'[jobs[j].worker] # "absent"
  PROVE  Good
<1>1. /\ jobs' \in [Ids -> JobRecords] /\ nextJobId' \in 1..(MaxJobs + 1)
      /\ nextJobId' \in Nat /\ nextJobId' >= nextJobId
  BY WorkAssumption DEF IInv, TypeOK
<1>2. ledger' = Released(ledger, {})
  BY DEF Released, IInv, TypeOK
<1>3. \A j \in Ids : Passes(j, {})
  <2> TAKE j \in Ids
  <2>1. jobs'[j] = jobs[j] /\ j \notin {}
    OBVIOUS
  <2>2. Claimed(j) => workers'[jobs[j].worker] # "absent"
    BY OneJob
  <2> QED
    BY <2>1, <2>2, <1>1, Untouched
<1> QED
  BY <1>1, <1>2, <1>3, Maintained

\* upsertWorker
LEMMA UpsertWorkerGood ==
  ASSUME IInv, NEW w \in Workers, NEW snapshot \in {"off", "available"}, UpsertWorker(w, snapshot)
  PROVE  Good
<1>1. workers' \in [Workers -> Snapshot] /\ orders' \in [Orders -> OrderRecords]
  BY DEF UpsertWorker, IInv, TypeOK, Snapshot, OrderRecords
<1>2. \A j \in Known : Claimed(j) => workers'[jobs[j].worker] # "absent"
  <2> SUFFICES ASSUME NEW j \in Known, Claimed(j) PROVE workers'[jobs[j].worker] # "absent"
    OBVIOUS
  <2>1. workers[jobs[j].worker] # "absent" /\ jobs[j] \in JobRecords
    BY OneJob DEF Known
  <2>2. jobs[j].worker \in Workers
    BY <2>1 DEF JobRecords, Claimed
  <2> QED
    BY <2>1, <2>2 DEF UpsertWorker, IInv, TypeOK
<1> QED
  BY <1>1, <1>2, JobsUntouched DEF UpsertWorker

\* signalWorkOrderEvent
LEMMA SignalGood == ASSUME IInv, NEW o \in Orders, SignalWorkOrderEvent(o) PROVE Good
<1>1. orders \in [Orders -> OrderRecords]
  BY DEF IInv, TypeOK, OrderRecords
<1>2. orders' \in [Orders -> OrderRecords]
  BY <1>1 DEF SignalWorkOrderEvent, OrderRecords
<1>3. workers' \in [Workers -> Snapshot] /\ workers' = workers
  BY DEF SignalWorkOrderEvent, IInv, TypeOK, Snapshot
<1>4. \A j \in Known : Claimed(j) => workers'[jobs[j].worker] # "absent"
  BY <1>3 DEF IInv, ClaimantsPresent
<1> QED
  BY <1>2, <1>3, <1>4, JobsUntouched DEF SignalWorkOrderEvent

\* A step that does nothing.
LEMMA StutterGood == ASSUME IInv, UNCHANGED vars PROVE Good
<1>1. workers' \in [Workers -> Snapshot] /\ orders' \in [Orders -> OrderRecords] /\ workers' = workers
  BY DEF vars, IInv, TypeOK, Snapshot, OrderRecords
<1>2. \A j \in Known : Claimed(j) => workers'[jobs[j].worker] # "absent"
  BY <1>1 DEF IInv, ClaimantsPresent
<1> QED
  BY <1>1, <1>2, JobsUntouched DEF vars

\* A job of an id that was not handed out before.
LEMMA Fresh ==
  ASSUME IInv, NEW j \in Ids \ Known, NEW S, jobs'[j] \in JobRecords,
         jobs'[j].state = "Candidate", jobs'[j].worker = NoWorker,
         jobs'[j].done <= jobs'[j].required, j < nextJobId'
  PROVE  Passes(j, S)
  BY OneJob DEF Passes, Proceeds

\* createJob
LEMMA CreateJobGood ==
  ASSUME IInv, NEW d \in Definitions, NEW id \in Ids, CreateJob(id, d)
  PROVE  Good
<1> DEFINE y == NewJob(d, 0)
<1>1. /\ y \in JobRecords /\ y.state = "Candidate" /\ y.worker = NoWorker /\ y.done <= y.required
  BY NewJobTyped
<1>2. jobs \in [Ids -> JobRecords] /\ nextJobId \in 1..(MaxJobs + 1) /\ id \in 1..MaxJobs
  BY DEF IInv, TypeOK, Ids
<1>3. /\ jobs' = [jobs EXCEPT ![id] = y] /\ id \notin Known
      /\ nextJobId' = IF id >= nextJobId THEN id + 1 ELSE nextJobId
  BY DEF CreateJob
<1>4. nextJobId' \in 1..(MaxJobs + 1) /\ nextJobId' \in Nat /\ nextJobId' >= nextJobId /\ id < nextJobId'
  BY <1>2, <1>3, WorkAssumption
<1>5. workers' \in [Workers -> Snapshot] /\ workers' = workers /\ orders' \in [Orders -> OrderRecords]
  BY DEF CreateJob, IInv, TypeOK, Snapshot, OrderRecords
<1>6. ledger' = Released(ledger, {})
  BY DEF CreateJob, Released, IInv, TypeOK
<1> HIDE DEF y
<1>7. jobs' \in [Ids -> JobRecords]
  BY <1>1, <1>2, <1>3
<1>8. \A j \in Ids : Passes(j, {})
  <2> TAKE j \in Ids
  <2>1. CASE j = id
    <3>1. jobs'[j] = y
      BY <1>2, <1>3, <2>1
    <3> QED
      BY <3>1, <2>1, <1>1, <1>3, <1>4, Fresh
  <2>2. CASE j # id
    <3>1. jobs'[j] = jobs[j] /\ j \notin {}
      BY <1>2, <1>3, <2>2
    <3>2. Claimed(j) => workers'[jobs[j].worker] # "absent"
      BY <1>5, OneJob
    <3> QED
      BY <3>1, <3>2, <1>4, Untouched
  <2> QED
    BY <2>1, <2>2
<1> QED
  BY <1>4, <1>5, <1>6, <1>7, <1>8, Maintained

-----------------------------------------------------------------------------
(* The leases.                                                             *)

\* The jobs whose leases have lapsed are those with a claim of no time left:
\* what the ledger says of them is the same.
Lapsed == {j \in Ids : Claimed(j) /\ jobs[j].left = 0}

\* Expiry takes the claims of exactly these jobs, in the ledger and in the jobs.
LEMMA LapsedJobs ==
  ASSUME IInv
  PROVE  /\ Lapsed \in SUBSET Known
         /\ \A j \in Ids : LeaseEnded(j) <=> j \in Lapsed
         /\ \A j \in Ids : Unleased(j) = IF j \in Lapsed THEN GivenUp(jobs[j], "Blocked") ELSE jobs[j]
         /\ [r \in Resources |-> Expired(ledger[r])] = Released(ledger, Lapsed)
<1>1. Lapsed \in SUBSET Known
  BY OneJob DEF Lapsed
<1>2. ASSUME NEW r \in Resources, ledger[r].job # 0
      PROVE  /\ ledger[r].job \in Ids /\ Claimed(ledger[r].job) /\ ledger[r].left = jobs[ledger[r].job].left
  <2>1. ledger[r].job \in Known /\ Claimed(ledger[r].job) /\ r \in jobs[ledger[r].job].needs
    BY <1>2 DEF IInv, ClaimsAgree
  <2>2. ledger[r] = [job |-> ledger[r].job, worker |-> jobs[ledger[r].job].worker,
                     left |-> jobs[ledger[r].job].left]
    BY <2>1 DEF IInv, ClaimsAgree
  <2>3. ledger[r].left = jobs[ledger[r].job].left
    BY <2>2
  <2> QED
    BY <2>1, <2>3 DEF Known
<1>3. ASSUME NEW j \in Ids PROVE LeaseEnded(j) <=> j \in Lapsed
  <2>1. j # 0
    BY WorkAssumption DEF Ids
  <2>2. j \in Lapsed => LeaseEnded(j)
    BY OneJob DEF Lapsed, LeaseEnded
  <2>3. LeaseEnded(j) => j \in Lapsed
    BY <1>2, <2>1 DEF Lapsed, LeaseEnded
  <2> QED
    BY <2>2, <2>3
<1>4. ASSUME NEW r \in Resources
      PROVE  Expired(ledger[r]) = IF ledger[r].job \in Lapsed THEN Free ELSE ledger[r]
  <2>1. CASE ledger[r].job = 0
    <3>1. ledger[r] = Free
      BY <2>1 DEF IInv, Unused
    <3> QED
      BY <3>1 DEF Expired
  <2>2. CASE ledger[r].job # 0
    BY <2>2, <1>2 DEF Expired, Lapsed
  <2> QED
    BY <2>1, <2>2
<1> QED
  BY <1>1, <1>3, <1>4 DEF Unleased, Blocked, GivenUp, Released

\* expireLeases
LEMMA ExpireLeasesGood == ASSUME IInv, ExpireLeases PROVE Good
<1>1. Lapsed \in SUBSET Known /\ "Blocked" \in States \ {"none"}
  BY LapsedJobs DEF States
<1>2. jobs' = [i \in Ids |-> IF i \in Lapsed THEN GivenUp(jobs[i], "Blocked") ELSE jobs[i]]
  BY LapsedJobs DEF ExpireLeases
<1>3. workers' \in [Workers -> Snapshot] /\ workers' = workers
  BY DEF ExpireLeases, IInv, TypeOK, Snapshot
<1>4. \A i \in Known \ Lapsed : Claimed(i) => workers'[jobs[i].worker] # "absent"
  BY <1>3 DEF IInv, ClaimantsPresent
<1>5. ledger' = Released(ledger, Lapsed) /\ nextJobId' = nextJobId /\ orders' = orders
  BY LapsedJobs DEF ExpireLeases
<1> QED
  BY <1>1, <1>2, <1>3, <1>4, <1>5, Taken

-----------------------------------------------------------------------------
(* The clock.                                                              *)

\* Time that is left only runs out.
LEMMA LessTyped ==
  /\ \A n \in 0..Lease : Less(n) \in 0..Lease
  /\ \A n \in Nat : Less(n) \in Nat
  /\ Less(0) = 0
  BY WorkAssumption DEF Less

\* Tick
LEMMA TickGood == ASSUME IInv, Tick PROVE Good
<1>1. \A j \in Ids : jobs[j] \in JobRecords /\ jobs'[j] = [jobs[j] EXCEPT !.left = Less(@)]
  BY OneJob DEF Tick
<1>2. ASSUME NEW j \in Ids
      PROVE  /\ jobs'[j] \in JobRecords /\ jobs'[j].left = Less(jobs[j].left)
             /\ jobs'[j].state = jobs[j].state /\ jobs'[j].worker = jobs[j].worker
             /\ jobs'[j].needs = jobs[j].needs /\ jobs'[j].done = jobs[j].done
             /\ jobs'[j].required = jobs[j].required /\ jobs'[j].key = jobs[j].key
             /\ jobs'[j].order = jobs[j].order
  <2>1. jobs[j].left \in 0..Lease
    BY <1>1 DEF JobRecords
  <2>2. Less(jobs[j].left) \in 0..Lease
    BY <2>1, LessTyped
  <2>3. jobs[j] \in JobRecords /\ jobs'[j] = [jobs[j] EXCEPT !.left = Less(jobs[j].left)]
    BY <1>1
  <2>4. \A x \in JobRecords, n \in 0..Lease : [x EXCEPT !.left = n] \in JobRecords
    BY DEF JobRecords
  <2>5. jobs'[j] \in JobRecords
    BY <2>2, <2>3, <2>4
  <2> QED
    BY <2>3, <2>5 DEF JobRecords
<1>3. jobs' \in [Ids -> JobRecords]
  BY <1>2 DEF Tick
<1>4. ASSUME NEW r \in Resources
      PROVE  /\ ledger'[r] \in Claims /\ ledger'[r].job = ledger[r].job
             /\ ledger'[r].worker = ledger[r].worker /\ ledger'[r].left = Less(ledger[r].left)
  BY LessTyped DEF Tick, IInv, TypeOK, Claims
<1>5. ledger' \in [Resources -> Claims]
  BY <1>4 DEF Tick
<1>6. ASSUME NEW r \in Resources, ledger'[r].job = 0 PROVE ledger'[r] = Free
  <2>1. ledger[r] = Free
    BY <1>4, <1>6 DEF IInv, Unused
  <2>2. ledger'[r] = [ledger[r] EXCEPT !.left = Less(@)]
    BY DEF Tick
  <2> QED
    BY <2>1, <2>2, LessTyped DEF Free
<1>7. orders' \in [Orders -> OrderRecords] /\ workers' \in [Workers -> Snapshot]
  <2>1. orders \in [Orders -> OrderRecords] /\ workers' \in [Workers -> Snapshot]
    BY DEF Tick, IInv, TypeOK, OrderRecords, Snapshot
  <2> QED
    BY <2>1, LessTyped DEF Tick, OrderRecords
<1>8. nextJobId' \in 1..(MaxJobs + 1) /\ nextJobId' = nextJobId /\ workers' = workers
  BY DEF Tick, IInv, TypeOK
<1>9. ASSUME NEW j \in Ids PROVE Proceeds(j)
  <2>1. jobs[j].state = "none" => jobs'[j] = NoJob
    <3> SUFFICES ASSUME jobs[j].state = "none" PROVE jobs'[j] = NoJob
      OBVIOUS
    <3>1. jobs'[j] = [NoJob EXCEPT !.left = Less(@)]
      BY <1>1, OneJob
    <3> QED
      BY <3>1, LessTyped DEF NoJob
  <2>2. jobs[j].done \in Nat
    BY <1>1 DEF JobRecords
  <2> QED
    BY <2>1, <2>2, <1>2, <1>8, OneJob DEF Proceeds
<1>10. Orderly
  BY <1>3, <1>5, <1>6, <1>7, <1>8, <1>9, Proceeding
<1>11. ClaimsAgree'
  <2>1. ASSUME NEW j \in Ids, jobs'[j].worker # NoWorker, NEW r \in jobs'[j].needs
        PROVE  ledger'[r] = [job |-> j, worker |-> jobs'[j].worker, left |-> jobs'[j].left]
    <3>1. j \in Known /\ Claimed(j) /\ r \in jobs[j].needs /\ r \in Resources
      BY <1>1, <1>2, <2>1, OneJob DEF Claimed, JobRecords
    <3>2. ledger[r] = [job |-> j, worker |-> jobs[j].worker, left |-> jobs[j].left]
      BY <3>1 DEF IInv, ClaimsAgree
    <3>3. ledger'[r] = [ledger[r] EXCEPT !.left = Less(@)]
      BY <3>1 DEF Tick
    <3> QED
      BY <3>2, <3>3, <1>2
  <2>2. ASSUME NEW r \in Resources, ledger'[r].job # 0
        PROVE  /\ ledger'[r].job \in Known' /\ jobs'[ledger'[r].job].worker # NoWorker
               /\ r \in jobs'[ledger'[r].job].needs
    <3>1. ledger[r].job \in Known /\ Claimed(ledger[r].job) /\ r \in jobs[ledger[r].job].needs
      BY <2>2, <1>4 DEF IInv, ClaimsAgree
    <3> QED
      BY <3>1, <1>2, <1>4 DEF Known, Claimed, Ids
  <2> QED
    BY <2>1, <2>2 DEF ClaimsAgree, Known, Claimed, Ids
<1>12. ClaimantsPresent'
  <2>1. ASSUME NEW j \in Ids, jobs'[j].worker # NoWorker
        PROVE  workers'[jobs'[j].worker] # "absent" /\ jobs'[j].state \in {"Claimed", "Working"}
    BY <2>1, <1>2, <1>8, OneJob DEF Claimed
  <2> QED
    BY <2>1 DEF ClaimantsPresent, Known, Claimed, Ids
<1>13. NoTheft
  BY <1>4 DEF NoTheft
<1>14. IInv'
  BY <1>10, <1>11, <1>12 DEF Orderly, IInv
<1>15. Booked
  <2>1. {j \in Ids : Claimed(j)'} = {j \in Ids : Claimed(j)}
    BY <1>2 DEF Claimed
  <2>2. [j \in Ids |-> jobs'[j].needs] = [j \in Ids |-> jobs[j].needs]
    BY <1>2
  <2>3. [j \in Ids |-> {r \in Resources : ledger'[r].job = j}] = [j \in Ids |-> {r \in Resources : ledger[r].job = j}]
    BY <1>4
  <2>4. {j \in Ids : Claimed(j) /\ jobs[j].left = 0} \subseteq {j \in Ids : Claimed(j)' /\ jobs'[j].left = 0}
    BY <1>2, LessTyped DEF Claimed
  <2>5. {j \in Ids : Claimed(j)' /\ jobs'[j].left = 0} \subseteq {j \in Ids : Claimed(j)}
    BY <1>2 DEF Claimed
  <2>6. Book!RunOut
    BY <2>1, <2>2, <2>3, <2>4, <2>5 DEF Book!RunOut, Ids
  <2> QED
    BY <2>6 DEF Booked, Book!Next
<1> QED
  BY <1>10, <1>13, <1>14, <1>15 DEF Good, Orderly

-----------------------------------------------------------------------------
(* execute                                                                 *)

\* execute, when the job is done
LEMMA FinishedGood ==
  ASSUME IInv, NEW j \in Ids, Executable(j), Finished(j), UNCHANGED <<nextJobId, workers, orders>>
  PROVE  Good
<1> DEFINE y == [jobs[j] EXCEPT !.state = "Completed", !.done = jobs[j].required,
                                !.worker = NoWorker, !.left = 0]
<1>1. jobs \in [Ids -> JobRecords] /\ jobs[j] \in JobRecords /\ j \in Known /\ j < nextJobId
  BY OneJob DEF Executable, IInv, TypeOK
<1>2. jobs' = [jobs EXCEPT ![j] = y] /\ ledger' = Released(ledger, {j})
  BY <1>1 DEF Finished
<1>3. 0 \in 0..Lease
  BY WorkAssumption
<1>4. /\ y \in JobRecords /\ y.state = "Completed" /\ y.done = jobs[j].required /\ y.required = jobs[j].required
      /\ y.worker = NoWorker /\ y.key = jobs[j].key /\ y.order = jobs[j].order
  BY <1>1, <1>3 DEF JobRecords, States
<1> HIDE DEF y
<1>5. jobs' \in [Ids -> JobRecords]
  BY <1>1, <1>2, <1>4
<1>6. /\ nextJobId' \in 1..(MaxJobs + 1) /\ nextJobId' \in Nat /\ nextJobId' = nextJobId /\ workers' = workers
      /\ workers' \in [Workers -> Snapshot] /\ orders' \in [Orders -> OrderRecords]
  BY WorkAssumption DEF IInv, TypeOK, Snapshot, OrderRecords
<1>7. \A i \in Ids : Passes(i, {j})
  <2> TAKE i \in Ids
  <2>1. CASE i = j
    <3>1. jobs'[i] = y
      BY <1>1, <1>2, <2>1
    <3>2. jobs[j].done \in Nat /\ jobs[j].required \in Nat /\ jobs[j].done <= jobs[j].required
      BY <1>1, OneJob DEF JobRecords
    <3> QED
      BY <3>1, <3>2, <2>1, <1>1, <1>4, <1>6 DEF Passes, Proceeds
  <2>2. CASE i # j
    <3>1. jobs'[i] = jobs[i] /\ i \notin {j}
      BY <1>1, <1>2, <2>2
    <3>2. Claimed(i) => workers'[jobs[i].worker] # "absent"
      BY <1>6, OneJob
    <3>3. nextJobId' >= nextJobId
      BY <1>6
    <3> QED
      BY <3>1, <3>2, <3>3, <1>6, Untouched
  <2> QED
    BY <2>1, <2>2
<1> QED
  BY <1>2, <1>5, <1>6, <1>7, Maintained

\* A job that stays the same.
LEMMA Alike ==
  ASSUME IInv, NEW i \in Ids, jobs'[i] = jobs[i], nextJobId' = nextJobId
  PROVE  Proceeds(i)
<1>1. jobs[i].done \in Nat
  BY OneJob DEF JobRecords
<1> QED
  BY <1>1, OneJob DEF Proceeds

\* execute, when the job goes on: the claims stay what they are
LEMMA ProgressGood ==
  ASSUME IInv, NEW j \in Ids, NEW d \in {0, 1}, Executable(j), ~(jobs[j].done + d >= jobs[j].required),
         jobs' = [jobs EXCEPT ![j] = [@ EXCEPT !.state = "Working", !.done = jobs[j].done + d]],
         UNCHANGED <<ledger, nextJobId, workers, orders>>
  PROVE  Good
<1> DEFINE n == jobs[j].done + d
           y == [jobs[j] EXCEPT !.state = "Working", !.done = n]
<1>1. jobs \in [Ids -> JobRecords] /\ jobs[j] \in JobRecords /\ j \in Known /\ Claimed(j)
  BY OneJob DEF Executable, IInv, TypeOK
<1>2. jobs[j].done \in Nat /\ jobs[j].required \in Nat /\ d \in Nat
  BY <1>1 DEF JobRecords
<1>14. n \in Nat /\ n >= jobs[j].done /\ n <= jobs[j].required
  BY <1>2
<1>3. /\ y \in JobRecords /\ y.state = "Working" /\ y.worker = jobs[j].worker /\ y.left = jobs[j].left
      /\ y.needs = jobs[j].needs /\ y.done = n /\ y.required = jobs[j].required
      /\ y.key = jobs[j].key /\ y.order = jobs[j].order
  <2> HIDE DEF n
  <2>1. \A x \in JobRecords : [x EXCEPT !.state = "Working", !.done = n] \in JobRecords
    BY <1>14 DEF JobRecords, States
  <2> QED
    BY <2>1, <1>1 DEF JobRecords
<1>4. jobs' = [jobs EXCEPT ![j] = y]
  BY <1>1
<1> HIDE DEF n
<1> HIDE DEF y
<1>5. jobs' \in [Ids -> JobRecords] /\ jobs'[j] = y /\ \A i \in Ids \ {j} : jobs'[i] = jobs[i]
  BY <1>1, <1>3, <1>4
<1>6. ASSUME NEW i \in Ids
      PROVE  /\ jobs'[i].worker = jobs[i].worker /\ jobs'[i].left = jobs[i].left /\ jobs'[i].needs = jobs[i].needs
             /\ jobs[i].state # "none" => jobs'[i].state # "none"
  BY <1>3, <1>5
<1>7. /\ nextJobId' \in 1..(MaxJobs + 1) /\ nextJobId' = nextJobId /\ workers' = workers /\ ledger' = ledger
      /\ workers' \in [Workers -> Snapshot] /\ orders' \in [Orders -> OrderRecords]
      /\ ledger' \in [Resources -> Claims]
  BY DEF IInv, TypeOK, Snapshot, OrderRecords
<1>8. ASSUME NEW i \in Ids PROVE Proceeds(i)
  <2>1. CASE i = j
    BY <2>1, <1>1, <1>14, <1>3, <1>5, <1>7, OneJob DEF Proceeds, Known
  <2>2. CASE i # j
    <3>1. jobs'[i] = jobs[i] /\ nextJobId' = nextJobId
      BY <2>2, <1>5, <1>7
    <3> QED
      BY <3>1, Alike
  <2> QED
    BY <2>1, <2>2
<1>9. \A r \in Resources : ledger'[r].job = 0 => ledger'[r] = Free
  BY <1>7 DEF IInv, Unused
<1>10. Orderly
  BY <1>5, <1>7, <1>8, <1>9, Proceeding
<1>11. ClaimsAgree'
  <2>1. ASSUME NEW i \in Ids, jobs'[i].worker # NoWorker, NEW r \in jobs'[i].needs
        PROVE  ledger'[r] = [job |-> i, worker |-> jobs'[i].worker, left |-> jobs'[i].left]
    <3>1. i \in Known /\ Claimed(i) /\ r \in jobs[i].needs
      BY <1>6, <2>1, OneJob DEF Claimed
    <3> QED
      BY <3>1, <1>6, <1>7 DEF IInv, ClaimsAgree
  <2>2. ASSUME NEW r \in Resources, ledger'[r].job # 0
        PROVE  /\ ledger'[r].job \in Known' /\ jobs'[ledger'[r].job].worker # NoWorker
               /\ r \in jobs'[ledger'[r].job].needs
    <3>1. ledger[r].job \in Known /\ Claimed(ledger[r].job) /\ r \in jobs[ledger[r].job].needs
      BY <2>2, <1>7 DEF IInv, ClaimsAgree
    <3> QED
      BY <3>1, <1>6, <1>7 DEF Known, Claimed, Ids
  <2> QED
    BY <2>1, <2>2 DEF ClaimsAgree, Known, Claimed, Ids
<1>12. ClaimantsPresent'
  <2>1. ASSUME NEW i \in Ids, jobs'[i].worker # NoWorker
        PROVE  workers'[jobs'[i].worker] # "absent" /\ jobs'[i].state \in {"Claimed", "Working"}
    BY <2>1, <1>3, <1>5, <1>6, <1>7, OneJob DEF Claimed
  <2> QED
    BY <2>1 DEF ClaimantsPresent, Known, Claimed, Ids
<1>13. NoTheft
  BY <1>7 DEF NoTheft
<1>15. IInv'
  BY <1>10, <1>11, <1>12 DEF Orderly, IInv
<1>16. Booked
  BY <1>6, <1>15, GivenBack DEF Claimed
<1> QED
  BY <1>10, <1>13, <1>15, <1>16 DEF Good, Orderly

\* execute
LEMMA ExecuteGood ==
  ASSUME IInv, NEW j \in Ids, NEW d \in {0, 1}, NEW completed \in BOOLEAN, Execute(j, d, completed)
  PROVE  Good
<1>1. CASE completed \/ jobs[j].done + d >= jobs[j].required
  BY <1>1, FinishedGood DEF Execute
<1>2. CASE ~(completed \/ jobs[j].done + d >= jobs[j].required)
  BY <1>2, ProgressGood DEF Execute
<1> QED
  BY <1>1, <1>2

-----------------------------------------------------------------------------
(* assign                                                                  *)

\* The jobs an assignment looks at have no claim that still runs.
LEMMA UnclaimedJobs ==
  ASSUME IInv, NEW j \in Ids, Unclaimed(j)
  PROVE  j \in Known /\ (Claimed(j) => j \in Lapsed)
<1>1. Unleased(j) = IF j \in Lapsed THEN GivenUp(jobs[j], "Blocked") ELSE jobs[j]
  BY LapsedJobs
<1>2. CASE j \in Lapsed
  BY <1>2, LapsedJobs
<1>3. CASE j \notin Lapsed
  BY <1>1, <1>3 DEF Unclaimed, Claimed, Known
<1> QED
  BY <1>2, <1>3

\* Claims that have lapsed belong to jobs that an assignment looks at.
LEMMA LapsedUnclaimed ==
  ASSUME IInv, NEW j \in Lapsed
  PROVE  Unclaimed(j)
<1>1. j \in Ids /\ jobs[j] \in JobRecords /\ "Blocked" \in States
  BY OneJob DEF Lapsed, States
<1>2. Unleased(j) = GivenUp(jobs[j], "Blocked")
  BY <1>1, LapsedJobs
<1> QED
  BY <1>1, <1>2, GivenUpJob DEF Unclaimed

\* The worker of an assigned job is one of the available ones, each assigned
\* job may have what it needs, and no two need the same.
LEMMA Decided ==
  ASSUME IInv, NEW decisions \in SUBSET Pairs, Compatible(decisions)
  PROVE  /\ \A j \in Assigned(decisions) :
              /\ j \in Known /\ Unclaimed(j) /\ (Claimed(j) => j \in Lapsed) /\ Reservable(j)
              /\ WorkerOf(decisions, j) \in Workers /\ workers[WorkerOf(decisions, j)] = "available"
         /\ \A i, j \in Assigned(decisions) : i # j => jobs[i].needs \cap jobs[j].needs = {}
<1>1. ASSUME NEW j \in Assigned(decisions)
      PROVE  /\ j \in Known /\ Unclaimed(j) /\ (Claimed(j) => j \in Lapsed) /\ Reservable(j)
             /\ WorkerOf(decisions, j) \in Workers /\ workers[WorkerOf(decisions, j)] = "available"
  <2>1. PICK p \in decisions : p[1] = j
    BY DEF Assigned
  <2>2. j \in Ids /\ Unclaimed(j)
    BY <2>1 DEF Pairs, Candidates
  <2>3. Reservable(j)
    BY <2>1 DEF Compatible
  <2> DEFINE q == CHOOSE x \in decisions : x[1] = j
  <2>4. q \in decisions
    BY <2>1
  <2>5. q[2] \in Available
    BY <2>4 DEF Pairs
  <2>6. WorkerOf(decisions, j) \in Available
    BY <2>5 DEF WorkerOf
  <2> QED
    BY <2>2, <2>3, <2>6, UnclaimedJobs DEF Available
<1>2. ASSUME NEW i \in Assigned(decisions), NEW j \in Assigned(decisions), i # j
      PROVE  jobs[i].needs \cap jobs[j].needs = {}
  <2>1. PICK p \in decisions : p[1] = i
    BY DEF Assigned
  <2>2. PICK q \in decisions : q[1] = j
    BY DEF Assigned
  <2>3. p # q
    BY <1>2, <2>1, <2>2
  <2> QED
    BY <2>1, <2>2, <2>3 DEF Compatible
<1> QED
  BY <1>1, <1>2

\* A job that is assigned.
LEMMA AssignedJob ==
  ASSUME NEW x \in JobRecords, NEW w \in Workers
  PROVE  LET y == [x EXCEPT !.state = "Claimed", !.worker = w, !.left = Lease]
         IN  /\ y \in JobRecords /\ y.state = "Claimed" /\ y.worker = w /\ y.left = Lease
             /\ y.needs = x.needs /\ y.done = x.done /\ y.required = x.required
             /\ y.key = x.key /\ y.order = x.order
<1>1. Lease \in 0..Lease
  BY WorkAssumption
<1> QED
  BY <1>1 DEF JobRecords, States

\* Assign, the jobs: what it assigns, what it blocks, what it leaves alone.
LEMMA AssignJobs ==
  ASSUME IInv, NEW decisions \in SUBSET Pairs, Assign(decisions), NEW j \in Ids
  PROVE  /\ jobs'[j] \in JobRecords
         /\ Proceeds(j)
         /\ jobs'[j].needs = jobs[j].needs
         /\ j \in Assigned(decisions) =>
              /\ jobs'[j].state = "Claimed" /\ jobs'[j].worker = WorkerOf(decisions, j)
              /\ jobs'[j].left = Lease
         /\ j \notin Assigned(decisions) =>
              IF Claimed(j) /\ j \notin Lapsed THEN jobs'[j] = jobs[j] ELSE jobs'[j].worker = NoWorker
<1> DEFINE A == Assigned(decisions)
<1>1. Compatible(decisions) /\ nextJobId' = nextJobId
  BY DEF Assign
<1>2. jobs[j] \in JobRecords /\ jobs[j].done \in Nat
  BY OneJob DEF JobRecords
<1>3. CASE j \in A
  <2>1. j \in Known /\ WorkerOf(decisions, j) \in Workers
    BY <1>1, <1>3, Decided
  <2>2. jobs'[j] = [jobs[j] EXCEPT !.state = "Claimed", !.worker = WorkerOf(decisions, j), !.left = Lease]
    BY <1>3 DEF Assign
  <2>3. /\ jobs'[j] \in JobRecords /\ jobs'[j].state = "Claimed" /\ jobs'[j].worker = WorkerOf(decisions, j)
        /\ jobs'[j].left = Lease /\ jobs'[j].needs = jobs[j].needs /\ jobs'[j].done = jobs[j].done
        /\ jobs'[j].required = jobs[j].required /\ jobs'[j].key = jobs[j].key /\ jobs'[j].order = jobs[j].order
    <3> DEFINE w == WorkerOf(decisions, j)
               y == [jobs[j] EXCEPT !.state = "Claimed", !.worker = w, !.left = Lease]
    <3>1. w \in Workers /\ jobs'[j] = y
      BY <2>1, <2>2
    <3> HIDE DEF w
    <3>2. /\ y \in JobRecords /\ y.state = "Claimed" /\ y.worker = w /\ y.left = Lease
          /\ y.needs = jobs[j].needs /\ y.done = jobs[j].done /\ y.required = jobs[j].required
          /\ y.key = jobs[j].key /\ y.order = jobs[j].order
      BY <3>1, <1>2, AssignedJob
    <3> HIDE DEF y
    <3> QED
      BY <3>1, <3>2 DEF w
  <2>4. Proceeds(j)
    BY <2>1, <2>3, <1>1, <1>2, OneJob DEF Proceeds, Known
  <2> QED
    BY <1>3, <2>3, <2>4
<1>4. CASE j \notin A /\ Unclaimed(j)
  <2>1. jobs'[j] = GivenUp(jobs[j], "Blocked") /\ "Blocked" \in States
    BY <1>4 DEF Assign, Blocked, GivenUp, States
  <2>2. j \in Known /\ (Claimed(j) => j \in Lapsed)
    BY <1>4, UnclaimedJobs
  <2>3. /\ jobs'[j] \in JobRecords /\ jobs'[j].state = "Blocked" /\ jobs'[j].worker = NoWorker
        /\ jobs'[j].done = jobs[j].done /\ jobs'[j].required = jobs[j].required
        /\ jobs'[j].key = jobs[j].key /\ jobs'[j].order = jobs[j].order /\ jobs'[j].needs = jobs[j].needs
    BY <2>1, <1>2, GivenUpJob
  <2>4. Proceeds(j)
    BY <2>2, <2>3, <1>1, <1>2, OneJob DEF Proceeds, Known
  <2> QED
    BY <1>4, <2>2, <2>3, <2>4
<1>5. CASE j \notin A /\ ~Unclaimed(j)
  <2>1. jobs'[j] = jobs[j]
    BY <1>5 DEF Assign
  <2>2. j \notin Lapsed
    BY <1>5, LapsedUnclaimed
  <2>3. Proceeds(j)
    BY <2>1, <1>1, Alike
  <2> QED
    BY <1>2, <1>5, <2>1, <2>2, <2>3 DEF Claimed
<1> QED
  BY <1>3, <1>4, <1>5

\* Assign, the ledger.
LEMMA AssignLedger ==
  ASSUME IInv, NEW decisions \in SUBSET Pairs, Assign(decisions), NEW r \in Resources
  PROVE  \/ \E j \in Assigned(decisions) :
              /\ r \in jobs[j].needs
              /\ ledger'[r] = [job |-> j, worker |-> WorkerOf(decisions, j), left |-> Lease]
              /\ ledger[r].job \in Lapsed \union {0, j}
         \/ /\ \A j \in Assigned(decisions) : r \notin jobs[j].needs
            /\ ledger'[r] = Released(ledger, Lapsed)[r]
<1> DEFINE A == Assigned(decisions)
<1>1. /\ \A j \in A : j \in Known /\ Reservable(j)
      /\ \A i, j \in A : i # j => jobs[i].needs \cap jobs[j].needs = {}
  BY Decided DEF Assign
<1>2. Expired(ledger[r]) = Released(ledger, Lapsed)[r]
  BY LapsedJobs
<1>3. CASE \E j \in A : r \in jobs[j].needs
  <2> DEFINE j == CHOOSE i \in A : r \in jobs[i].needs
  <2>1. j \in A /\ r \in jobs[j].needs
    BY <1>3
  <2>2. ledger'[r] = [job |-> j, worker |-> WorkerOf(decisions, j), left |-> Lease]
    BY <1>3 DEF Assign
  <2> HIDE DEF j
  <2>3. Expired(ledger[r]).job \in {0, j}
    BY <2>1, <1>1 DEF Reservable
  <2>4. ledger[r].job \in Lapsed \union {0, j}
    BY <2>3, <1>2 DEF Released
  <2> QED
    BY <2>1, <2>2, <2>4
<1>4. CASE \A j \in A : r \notin jobs[j].needs
  BY <1>2, <1>4 DEF Assign
<1> QED
  BY <1>3, <1>4

\* Assign, the book: the claims that have lapsed go and the assigned jobs get
\* theirs.
LEMMA Granted ==
  ASSUME IInv, IInv', NEW A \in SUBSET Ids,
         \A j \in A : Claimed(j) => j \in Lapsed,
         \A i, j \in A : i # j => jobs[i].needs \cap jobs[j].needs = {},
         \A j \in Ids :
           /\ jobs'[j].needs = jobs[j].needs
           /\ j \in A => jobs'[j].worker # NoWorker /\ jobs'[j].left = Lease
           /\ j \notin A => IF Claimed(j) /\ j \notin Lapsed THEN jobs'[j] = jobs[j] ELSE jobs'[j].worker = NoWorker
  PROVE  Booked
<1> DEFINE claimed == {j \in Ids : Claimed(j)}
           over == {j \in Ids : Claimed(j) /\ jobs[j].left = 0}
           running == claimed \ over
           held == [j \in Ids |-> {r \in Resources : ledger[r].job = j}]
           heldNext == [j \in Ids |-> {r \in Resources : ledger'[r].job = j}]
           asked == [j \in Ids |-> jobs[j].needs]
<1>1. over = Lapsed
  BY DEF Lapsed
<1>2. A \cap running = {}
  BY <1>1
<1>3. {j \in Ids : Claimed(j)'} = running \union A
  BY <1>1 DEF Claimed
<1>4. {j \in Ids : Claimed(j)' /\ jobs'[j].left = 0} = {}
  <2>1. Lease # 0
    BY WorkAssumption
  <2>2. ASSUME NEW j \in Ids, jobs'[j].worker # NoWorker PROVE jobs'[j].left # 0
    BY <2>1, <2>2 DEF Claimed, Lapsed
  <2> QED
    BY <2>2 DEF Claimed
<1>5. ASSUME NEW j \in Ids
      PROVE  /\ heldNext[j] = IF j \in running \union A THEN asked[j] ELSE {}
             /\ held[j] = IF j \in claimed THEN asked[j] ELSE {}
  <2>1. /\ heldNext[j] = IF Claimed(j)' THEN jobs'[j].needs ELSE {}
        /\ held[j] = IF Claimed(j) THEN jobs[j].needs ELSE {}
    BY HeldBefore, HeldAfter
  <2>2. Claimed(j)' <=> j \in running \union A
    BY <1>3
  <2> HIDE DEF held, heldNext, running
  <2> QED
    BY <2>1, <2>2
<1>6. heldNext = [j \in Ids |-> IF j \in A THEN asked[j] ELSE IF j \in over THEN {} ELSE held[j]]
  <2>1. ASSUME NEW j \in Ids
        PROVE  heldNext[j] = IF j \in A THEN asked[j] ELSE IF j \in over THEN {} ELSE held[j]
    <3>1. over \subseteq claimed
      OBVIOUS
    <3> HIDE DEF held, heldNext, asked, claimed, over
    <3> QED
      BY <1>2, <1>5, <3>1
  <2> QED
    BY <2>1
<1>7. ASSUME NEW i \in A, NEW j \in A \union running, i # j PROVE asked[i] \cap asked[j] = {}
  <2>1. i \in Ids /\ j \in Ids /\ j \in running \union A /\ i \in running \union A
    OBVIOUS
  <2>2. heldNext[i] = asked[i] /\ heldNext[j] = asked[j]
    BY <1>5, <2>1
  <2>3. heldNext[i] \cap heldNext[j] = {}
    BY <1>7, <2>1
  <2> QED
    BY <2>2, <2>3
<1>8. [j \in Ids |-> jobs'[j].needs] = asked
  OBVIOUS
<1>9. Book!Grant(A)
  BY <1>2, <1>3, <1>4, <1>6, <1>7, <1>8 DEF Book!Grant, Ids
<1>10. Book!Next
  BY <1>9 DEF Book!Next
<1> QED
  BY <1>10 DEF Booked

\* assign
LEMMA AssignGood == ASSUME IInv, NEW decisions \in SUBSET Pairs, Assign(decisions) PROVE Good
<1> DEFINE A == Assigned(decisions)
           held == Released(ledger, Lapsed)
<1>1. /\ nextJobId' \in 1..(MaxJobs + 1) /\ workers' = workers
      /\ workers' \in [Workers -> Snapshot] /\ orders' \in [Orders -> OrderRecords]
  BY DEF Assign, IInv, TypeOK, Snapshot, OrderRecords
<1>2. \A j \in A : /\ j \in Known /\ (Claimed(j) => j \in Lapsed)
                   /\ WorkerOf(decisions, j) \in Workers /\ workers[WorkerOf(decisions, j)] = "available"
  BY Decided DEF Assign
<1>3. \A i, j \in A : i # j => jobs[i].needs \cap jobs[j].needs = {}
  BY Decided DEF Assign
<1>4. jobs' \in [Ids -> JobRecords]
  <2>1. jobs' = [j \in Ids |-> jobs'[j]]
    BY DEF Assign
  <2>2. \A j \in Ids : jobs'[j] \in JobRecords
    BY AssignJobs
  <2> QED
    BY <2>1, <2>2
<1>5. /\ held \in [Resources -> Claims]
      /\ \A r \in Resources : held[r] = Free \/ (held[r] = ledger[r] /\ ledger[r].job \notin Lapsed)
  <2>1. ledger \in [Resources -> Claims]
    BY DEF IInv, TypeOK
  <2>2. held \in [Resources -> Claims]
    BY <2>1, ReleasedTyped
  <2>3. \A r \in Resources : held[r] = IF ledger[r].job \in Lapsed THEN Free ELSE ledger[r]
    BY DEF Released
  <2> HIDE DEF held
  <2> QED
    BY <2>2, <2>3
<1> HIDE DEF held
<1>6. ASSUME NEW r \in Resources
      PROVE  \/ \E j \in A : /\ r \in jobs[j].needs
                            /\ ledger'[r] = [job |-> j, worker |-> WorkerOf(decisions, j), left |-> Lease]
                            /\ ledger[r].job \in Lapsed \union {0, j}
             \/ (\A j \in A : r \notin jobs[j].needs) /\ ledger'[r] = held[r]
  BY AssignLedger DEF held
<1>7. ASSUME NEW r \in Resources PROVE ledger'[r] \in Claims /\ (ledger'[r].job = 0 => ledger'[r] = Free)
  <2>1. Lease \in 0..Lease /\ 0 \notin Ids
    BY WorkAssumption DEF Ids
  <2>2. ASSUME NEW j \in A, ledger'[r] = [job |-> j, worker |-> WorkerOf(decisions, j), left |-> Lease]
        PROVE  ledger'[r] \in Claims /\ ledger'[r].job # 0
    BY <1>2, <2>1, <2>2 DEF Claims, Known
  <2>3. ASSUME ledger'[r] = held[r] PROVE ledger'[r] \in Claims /\ (ledger'[r].job = 0 => ledger'[r] = Free)
    BY <1>5, <2>3 DEF IInv, Unused
  <2> QED
    BY <1>6, <2>2, <2>3
<1>8. Orderly
  <2>1. ledger' \in [Resources -> Claims]
    BY <1>7 DEF Assign
  <2>2. \A j \in Ids : Proceeds(j)
    BY AssignJobs
  <2> QED
    BY <1>1, <1>4, <1>7, <2>1, <2>2, Proceeding
<1>9. ASSUME NEW j \in Ids
      PROVE  /\ jobs'[j].needs = jobs[j].needs
             /\ j \in A => /\ jobs'[j].state = "Claimed" /\ jobs'[j].worker = WorkerOf(decisions, j)
                           /\ jobs'[j].left = Lease
             /\ j \notin A => IF Claimed(j) /\ j \notin Lapsed THEN jobs'[j] = jobs[j] ELSE jobs'[j].worker = NoWorker
  BY AssignJobs
<1>10. ASSUME NEW r \in Resources, ledger[r].job # 0
       PROVE  /\ ledger[r].job \in Known /\ Claimed(ledger[r].job) /\ r \in jobs[ledger[r].job].needs
              /\ ledger[r].job \in Lapsed => ledger[r].left = 0
  <2>1. ledger[r].job \in Known /\ Claimed(ledger[r].job) /\ r \in jobs[ledger[r].job].needs
    BY <1>10 DEF IInv, ClaimsAgree
  <2>2. ledger[r] = [job |-> ledger[r].job, worker |-> jobs[ledger[r].job].worker,
                     left |-> jobs[ledger[r].job].left]
    BY <2>1 DEF IInv, ClaimsAgree
  <2>3. ledger[r].left = jobs[ledger[r].job].left
    BY <2>2
  <2> QED
    BY <2>1, <2>3 DEF Lapsed
<1>11. ClaimsAgree'
  <2>1. ASSUME NEW j \in Ids, jobs'[j].worker # NoWorker, NEW r \in jobs'[j].needs
        PROVE  ledger'[r] = [job |-> j, worker |-> jobs'[j].worker, left |-> jobs'[j].left]
    <3>1. r \in Resources
      BY <1>4, <2>1 DEF JobRecords
    <3>2. CASE j \in A
      <4>1. r \in jobs[j].needs
        BY <1>9, <2>1, <3>2
      <4>2. PICK i \in A : /\ r \in jobs[i].needs
                           /\ ledger'[r] = [job |-> i, worker |-> WorkerOf(decisions, i), left |-> Lease]
        BY <1>6, <3>1, <3>2, <4>1
      <4>3. i = j
        BY <1>3, <3>2, <4>1, <4>2
      <4> QED
        BY <1>9, <3>2, <4>2, <4>3
    <3>3. CASE j \notin A
      <4>1. Claimed(j) /\ j \notin Lapsed /\ jobs'[j] = jobs[j] /\ j \in Known
        BY <1>9, <2>1, <3>3, OneJob
      <4>2. ledger[r] = [job |-> j, worker |-> jobs[j].worker, left |-> jobs[j].left]
        BY <2>1, <4>1 DEF IInv, ClaimsAgree
      <4>3. ledger[r].job = j /\ j # 0
        BY <4>2, WorkAssumption DEF Ids
      <4>4. ledger'[r] = held[r]
        BY <1>6, <3>1, <3>3, <4>1, <4>3
      <4>5. held[r] = ledger[r]
        BY <3>1, <4>1, <4>3 DEF held, Released
      <4> QED
        BY <4>1, <4>2, <4>4, <4>5
    <3> QED
      BY <3>2, <3>3
  <2>2. ASSUME NEW r \in Resources, ledger'[r].job # 0
        PROVE  /\ ledger'[r].job \in Ids /\ jobs'[ledger'[r].job].state # "none"
               /\ jobs'[ledger'[r].job].worker # NoWorker /\ r \in jobs'[ledger'[r].job].needs
    <3>1. ASSUME NEW j \in A, r \in jobs[j].needs,
                 ledger'[r] = [job |-> j, worker |-> WorkerOf(decisions, j), left |-> Lease]
          PROVE  /\ ledger'[r].job \in Ids /\ jobs'[ledger'[r].job].state # "none"
                 /\ jobs'[ledger'[r].job].worker # NoWorker /\ r \in jobs'[ledger'[r].job].needs
      <4>1. j \in Ids /\ jobs'[j].state # "none" /\ jobs'[j].worker # NoWorker /\ r \in jobs'[j].needs
        BY <1>2, <1>9, <3>1, WorkAssumption DEF Known
      <4>2. ledger'[r].job = j
        BY <3>1
      <4> QED
        BY <4>1, <4>2
    <3>2. ASSUME ledger'[r] = held[r]
          PROVE  /\ ledger'[r].job \in Ids /\ jobs'[ledger'[r].job].state # "none"
                 /\ jobs'[ledger'[r].job].worker # NoWorker /\ r \in jobs'[ledger'[r].job].needs
      <4> DEFINE j == ledger[r].job
      <4>1. ledger'[r] = ledger[r] /\ j \notin Lapsed
        BY <1>5, <2>2, <3>2 DEF Free
      <4>2. j \in Known /\ Claimed(j) /\ r \in jobs[j].needs
        BY <1>10, <2>2, <4>1
      <4>3. j \in Ids /\ j \notin A
        BY <1>2, <4>1, <4>2 DEF Known
      <4>4. jobs'[j] = jobs[j]
        BY <1>9, <4>1, <4>2, <4>3
      <4> QED
        BY <4>1, <4>2, <4>3, <4>4 DEF Known, Claimed
    <3> QED
      BY <1>6, <3>1, <3>2
  <2> QED
    BY <2>1, <2>2 DEF ClaimsAgree, Known, Claimed, Ids
<1>12. ClaimantsPresent'
  <2>1. ASSUME NEW j \in Ids, jobs'[j].worker # NoWorker
        PROVE  workers'[jobs'[j].worker] # "absent" /\ jobs'[j].state \in {"Claimed", "Working"}
    <3>1. CASE j \in A
      BY <3>1, <1>1, <1>2, <1>9
    <3>2. CASE j \notin A
      BY <3>2, <2>1, <1>1, <1>9, OneJob
    <3> QED
      BY <3>1, <3>2
  <2> QED
    BY <2>1 DEF ClaimantsPresent, Known, Claimed, Ids
<1>13. NoTheft
  <2> SUFFICES ASSUME NEW r \in Resources, ledger[r].job # 0, ledger'[r].job \notin {0, ledger[r].job}
               PROVE  ledger[r].left = 0
    BY DEF NoTheft
  <2>1. ASSUME ledger'[r] = held[r] PROVE FALSE
    BY <1>5, <2>1 DEF Free
  <2>4. PICK j \in A : /\ ledger'[r] = [job |-> j, worker |-> WorkerOf(decisions, j), left |-> Lease]
                       /\ ledger[r].job \in Lapsed \union {0, j}
    BY <1>6, <2>1
  <2>2. ledger'[r].job = j /\ ledger[r].job \in Lapsed \union {0, j}
    BY <2>4
  <2>3. ledger[r].job \in Lapsed
    BY <2>2
  <2> QED
    BY <2>3, <1>10
<1>14. IInv'
  BY <1>8, <1>11, <1>12 DEF Orderly, IInv
<1>15. Booked
  <2>1. A \in SUBSET Ids
    BY <1>2 DEF Known
  <2>2. \A j \in A : Claimed(j) => j \in Lapsed
    BY <1>2
  <2>3. \A j \in A : WorkerOf(decisions, j) # NoWorker
    BY <1>2, WorkAssumption
  <2> HIDE DEF A
  <2> QED
    BY <2>1, <2>2, <2>3, <1>3, <1>9, <1>14, Granted
<1> QED
  BY <1>8, <1>13, <1>14, <1>15 DEF Good, Orderly

-----------------------------------------------------------------------------
(* synchronizeGeneratedJobs                                                *)

\* Of the jobs of a source key there is a last one.
LEMMA ExistingJob ==
  ASSUME IInv, NEW k, OfKey(k) # {}
  PROVE  Existing(k) \in Known /\ jobs[Existing(k)].key = k
<1>1. IsFiniteSet(Ids)
  <2>1. MaxJobs \in Int /\ 1 \in Int
    BY WorkAssumption
  <2> QED
    BY <2>1, FS_Interval DEF Ids
<1>2. OfKey(k) \subseteq Ids
  BY DEF OfKey, Known
<1>3. IsFiniteSet(OfKey(k))
  BY <1>1, <1>2, FS_Subset
<1>4. OfKey(k) \subseteq Int
  BY <1>2 DEF Ids
<1>5. \E m \in OfKey(k) : \A i \in OfKey(k) : i <= m
  BY <1>3, <1>4, LargestMember
<1>6. Existing(k) \in OfKey(k)
  BY <1>5 DEF Existing
<1> QED
  BY <1>6 DEF OfKey

\* A job whose definition a new snapshot replaced.
LEMMA UpdatedJob ==
  ASSUME NEW x \in JobRecords, NEW d \in Definitions
  PROVE  /\ Updated(x, d) \in JobRecords /\ Updated(x, d).worker = x.worker
         /\ (Updated(x, d).state = "none" => x.state = "none")
         /\ Updated(x, d).done = x.done /\ Updated(x, d).required = x.required
         /\ Updated(x, d).key = x.key /\ Updated(x, d).order = x.order
<1>1. d.needs \in SUBSET Resources /\ d.after \in SUBSET Ids
  BY WorkAssumption
<1> QED
  BY <1>1 DEF Updated, JobRecords, States

\* What a snapshot of the source does to one job.
LEMMA SynchronizeJob ==
  ASSUME IInv, NEW present \in SUBSET Keys, NEW specs \in [present -> Definitions],
         Synchronize(specs), NEW j \in Ids,
         NEW withdrawn,
         withdrawn = {i \in {Existing(k) : k \in {n \in Keys \ present : OfKey(n) # {}}} : ~Terminal(i)}
  PROVE  /\ jobs'[j] \in JobRecords /\ Passes(j, withdrawn)
         /\ nextJobId' \in 1..(MaxJobs + 1) /\ nextJobId' >= nextJobId
<1> DEFINE created == {k \in present : OfKey(k) = {}}
           before(k) == {i \in created : i < k}
           idOf(k) == nextJobId + Cardinality(before(k))
           updated == {Existing(k) : k \in present \ created}
<1>1. DOMAIN specs = present
  OBVIOUS
<1>2. jobs'[j] = IF \E k \in created : idOf(k) = j
                   THEN NewJob(specs[CHOOSE i \in created : idOf(i) = j], CHOOSE i \in created : idOf(i) = j)
                 ELSE IF j \in updated /\ ~Terminal(j) /\ ~Claimed(j) THEN Updated(jobs[j], specs[jobs[j].key])
                 ELSE IF j \in withdrawn THEN CancelledJob(jobs[j]) ELSE jobs[j]
  BY <1>1 DEF Synchronize
<1>3. /\ nextJobId' = nextJobId + Cardinality(created)
      /\ nextJobId + Cardinality(created) <= MaxJobs + 1
      /\ workers' = workers
  BY <1>1 DEF Synchronize
<1>4. IsFiniteSet(created) /\ created \in SUBSET Int /\ created \subseteq present
  <2>1. created \in SUBSET Keys
    OBVIOUS
  <2> HIDE DEF created
  <2>3. IsFiniteSet(Keys) /\ Keys \subseteq Int
    BY WorkAssumption
  <2>2. IsFiniteSet(created) /\ created \in SUBSET Int
    BY <2>1, <2>3, FS_Subset
  <2> QED
    BY <2>2 DEF created
<1>5. \A k \in present \ created : OfKey(k) # {}
  OBVIOUS
<1> HIDE DEF created
<1>6. /\ Cardinality(created) \in Nat
      /\ \A k \in created : Cardinality(before(k)) \in Nat /\ Cardinality(before(k)) < Cardinality(created)
  <2>1. Cardinality(created) \in Nat
    BY <1>4, FS_CardinalityType
  <2> QED
    BY <2>1, <1>4, Position
<1> HIDE DEF before
<1>7. nextJobId \in 1..(MaxJobs + 1)
  BY DEF IInv, TypeOK
<1>8. nextJobId' \in 1..(MaxJobs + 1) /\ nextJobId' \in Nat /\ nextJobId' >= nextJobId
  BY <1>3, <1>6, <1>7, WorkAssumption
<1>9. jobs[j] \in JobRecords /\ j \in Nat
  BY OneJob DEF Ids
<1>10. CASE \E k \in created : idOf(k) = j
  <2> DEFINE k == CHOOSE i \in created : idOf(i) = j
  <2>1. k \in created /\ idOf(k) = j
    BY <1>10
  <2>2. jobs'[j] = NewJob(specs[k], k)
    BY <1>2, <1>10
  <2> HIDE DEF k
  <2>3. j >= nextJobId /\ j < nextJobId'
    BY <2>1, <1>3, <1>6, <1>7
  <2>4. j \notin Known
    BY <2>3, <1>7, <1>9, OneJob DEF Known
  <2>5. specs[k] \in Definitions /\ k \in Keys \union {0}
    BY <2>1, <1>4
  <2>6. /\ jobs'[j] \in JobRecords /\ jobs'[j].state = "Candidate" /\ jobs'[j].worker = NoWorker
        /\ jobs'[j].done <= jobs'[j].required
    BY <2>2, <2>5, NewJobTyped
  <2> QED
    BY <1>8, <2>3, <2>4, <2>6, Fresh
<1>11. CASE /\ ~\E k \in created : idOf(k) = j
            /\ j \in updated /\ ~Terminal(j) /\ ~Claimed(j)
  <2> DEFINE d == specs[jobs[j].key]
  <2>1. jobs'[j] = Updated(jobs[j], d)
    BY <1>2, <1>11
  <2>2. PICK k \in present \ created : j = Existing(k)
    BY <1>11
  <2>3. j \in Known /\ jobs[j].key = k
    BY <2>2, <1>5, ExistingJob
  <2>4. d \in Definitions
    BY <2>2, <2>3
  <2> HIDE DEF d
  <2>5. /\ jobs'[j] \in JobRecords /\ jobs'[j].worker = jobs[j].worker
        /\ (jobs'[j].state = "none" => jobs[j].state = "none")
        /\ jobs'[j].done = jobs[j].done /\ jobs'[j].required = jobs[j].required
        /\ jobs'[j].key = jobs[j].key /\ jobs'[j].order = jobs[j].order
    BY <2>1, <2>4, <1>9, UpdatedJob
  <2>6. Proceeds(j)
    <3>1. j < nextJobId /\ jobs[j].state # "none" /\ jobs[j].done <= jobs[j].required /\ jobs[j].done \in Nat
      BY <2>3, OneJob DEF Known, JobRecords
    <3> QED
      BY <2>5, <3>1, <1>7, <1>8, <1>9 DEF Proceeds
  <2> QED
    BY <1>8, <1>11, <2>5, <2>6 DEF Passes, Claimed
<1>12. CASE /\ ~\E k \in created : idOf(k) = j
            /\ ~(j \in updated /\ ~Terminal(j) /\ ~Claimed(j))
            /\ j \in withdrawn
  <2>1. jobs'[j] = GivenUp(jobs[j], "Cancelled") /\ "Cancelled" \in States \ {"none"}
    BY <1>2, <1>12 DEF CancelledJob, GivenUp, States
  <2>2. PICK k : OfKey(k) # {} /\ j = Existing(k)
    BY <1>12
  <2>3. j \in Known
    BY <2>2, ExistingJob
  <2>4. jobs'[j] \in JobRecords
    BY <2>1, <1>9, GivenUpJob
  <2> QED
    BY <1>8, <1>12, <2>1, <2>3, <2>4, TakenFrom
<1>13. CASE /\ ~\E k \in created : idOf(k) = j
            /\ ~(j \in updated /\ ~Terminal(j) /\ ~Claimed(j))
            /\ j \notin withdrawn
  <2>1. jobs'[j] = jobs[j]
    BY <1>2, <1>13
  <2>2. Claimed(j) => workers'[jobs[j].worker] # "absent"
    BY <1>3, OneJob
  <2>3. Passes(j, withdrawn)
    BY <1>8, <1>13, <2>1, <2>2, Untouched
  <2> QED
    BY <1>8, <1>9, <2>1, <2>3
<1> QED
  BY <1>10, <1>11, <1>12, <1>13

\* synchronizeGeneratedJobs
LEMMA SynchronizeGood == ASSUME IInv, NEW specs \in Snapshots, Synchronize(specs) PROVE Good
<1>1. PICK present \in SUBSET Keys : specs \in [present -> Definitions]
  BY DEF Snapshots
<1> DEFINE withdrawn == {i \in {Existing(k) : k \in {n \in Keys \ present : OfKey(n) # {}}} : ~Terminal(i)}
<1>2. DOMAIN specs = present
  BY <1>1
<1>3. /\ ledger' = Released(ledger, withdrawn)
      /\ workers' \in [Workers -> Snapshot] /\ orders' \in [Orders -> OrderRecords]
  BY <1>2 DEF Synchronize, IInv, TypeOK, Snapshot, OrderRecords
<1>4. jobs' = [j \in Ids |-> jobs'[j]]
  BY DEF Synchronize
<1>5. withdrawn = {i \in {Existing(k) : k \in {n \in Keys \ present : OfKey(n) # {}}} : ~Terminal(i)}
  OBVIOUS
<1>6. 1 \in Ids
  BY WorkAssumption DEF Ids
<1> HIDE DEF withdrawn
<1>7. \A j \in Ids : /\ jobs'[j] \in JobRecords /\ Passes(j, withdrawn)
                     /\ nextJobId' \in 1..(MaxJobs + 1) /\ nextJobId' >= nextJobId
  BY <1>1, <1>5, SynchronizeJob
<1>8. jobs' \in [Ids -> JobRecords] /\ nextJobId' \in 1..(MaxJobs + 1)
  BY <1>4, <1>6, <1>7
<1> QED
  BY <1>3, <1>7, <1>8, Maintained

-----------------------------------------------------------------------------
(* evaluateWorkOrders                                                      *)

\* What an order asks for is a natural number.
LEMMA QuantityNatural ==
  ASSUME IInv, NEW o \in Orders, NEW stock \in Nat
  PROVE  Quantity(o, stock) \in Nat
<1>1. IsFiniteSet(Outstanding(o)) /\ Outstanding(o) \subseteq Ids
  <2>1. MaxJobs \in Int /\ 1 \in Int
    BY WorkAssumption
  <2>2. IsFiniteSet(Ids)
    BY <2>1, FS_Interval DEF Ids
  <2>3. Outstanding(o) \subseteq Ids
    BY DEF Outstanding, Known
  <2> QED
    BY <2>2, <2>3, FS_Subset
<1>2. \A j \in Outstanding(o) : JobQuantity[j] \in Nat
  BY <1>1, OneJob DEF JobQuantity, JobRecords
<1>3. OutstandingQuantity(o) \in Nat
  BY <1>1, <1>2, SumIsNatural DEF OutstandingQuantity
<1>4. /\ Order[o].mode \in {"produce", "atLeast", "between", "repeat"}
      /\ Order[o].min \in Nat /\ Order[o].max \in Nat /\ Order[o].batch \in Nat
  BY WorkAssumption
<1> QED
  BY <1>3, <1>4 DEF Quantity

\* The job an order that is short of something creates.
LEMMA OrderJobTyped ==
  ASSUME IInv, NEW o \in Orders, NEW stock \in Nat, Quantity(o, stock) > 0
  PROVE  /\ OrderJob(o, stock) \in JobRecords /\ OrderJob(o, stock).state = "Candidate"
         /\ OrderJob(o, stock).worker = NoWorker
         /\ OrderJob(o, stock).done <= OrderJob(o, stock).required
<1> DEFINE q == Quantity(o, stock)
           y == OrderJob(o, stock)
<1>1. q \in Nat \ {0}
  BY QuantityNatural
<1>2. y = [NoJob EXCEPT !.state = "Candidate", !.order = o, !.quantity = q, !.required = q]
  BY DEF OrderJob
<1> HIDE DEF q, y
<1>3. y.state = "Candidate" /\ y.worker = NoWorker /\ y.done = 0 /\ y.required = q
  BY <1>2 DEF NoJob
<1>4. NoJob \in JobRecords
  BY NoJobTyped
<1>5. y \in JobRecords
  <2> HIDE DEF NoJob
  <2> QED
    BY <1>1, <1>2, <1>4 DEF JobRecords, States
<1> QED
  BY <1>1, <1>3, <1>5 DEF y

\* evaluateWorkOrders and instantiateTriggeredOrders
LEMMA EvaluateGood ==
  ASSUME IInv, NEW stock \in 0..MaxStock, NEW conditions \in [Orders -> BOOLEAN],
         EvaluateWorkOrders(stock, conditions)
  PROVE  Good
<1> DEFINE triggers == Triggered(stock, conditions)
           before(o) == {p \in triggers : p < o}
           idOf(o) == nextJobId + Cardinality(before(o))
<1>1. stock \in Nat
  BY WorkAssumption
<1>2. /\ jobs' = [j \in Ids |-> IF \E o \in triggers : idOf(o) = j
                                 THEN OrderJob(CHOOSE o \in triggers : idOf(o) = j, stock) ELSE jobs[j]]
      /\ nextJobId' = nextJobId + Cardinality(triggers)
      /\ nextJobId + Cardinality(triggers) <= MaxJobs + 1
      /\ ledger' = ledger /\ workers' = workers
  BY DEF EvaluateWorkOrders
<1>3. triggers \subseteq Orders /\ \A o \in triggers : Quantity(o, stock) > 0
  BY DEF Triggered
<1>4. orders' \in [Orders -> OrderRecords]
  <2>1. orders \in [Orders -> OrderRecords]
    BY DEF IInv, TypeOK, OrderRecords
  <2>2. \A o \in Orders : Order[o].period \in Nat
    BY WorkAssumption
  <2>3. orders' = [o \in Orders |->
          [orders[o] EXCEPT !.firedOnce = @ \/ (o \in triggers /\ Order[o].frequency = "once"),
                            !.wait = IF o \in triggers THEN Order[o].period ELSE @,
                            !.lastConditionValue = conditions[o] /\ Order[o].frequency = "transition",
                            !.eventPending = FALSE]]
    BY DEF EvaluateWorkOrders
  <2> HIDE DEF triggers
  <2> QED
    BY <2>1, <2>2, <2>3 DEF OrderRecords
<1> HIDE DEF triggers
<1>5. IsFiniteSet(triggers) /\ triggers \in SUBSET Int
  <2>1. IsFiniteSet(Orders) /\ Orders \subseteq Int
    BY WorkAssumption
  <2> QED
    BY <2>1, <1>3, FS_Subset
<1>6. /\ Cardinality(triggers) \in Nat
      /\ \A o \in triggers : Cardinality(before(o)) \in Nat /\ Cardinality(before(o)) < Cardinality(triggers)
  <2>1. Cardinality(triggers) \in Nat
    BY <1>5, FS_CardinalityType
  <2> QED
    BY <2>1, <1>5, Position
<1> HIDE DEF before
<1>7. nextJobId \in 1..(MaxJobs + 1)
  BY DEF IInv, TypeOK
<1>8. nextJobId' \in 1..(MaxJobs + 1) /\ nextJobId' \in Nat /\ nextJobId' >= nextJobId
  BY <1>2, <1>6, <1>7, WorkAssumption
<1>9. workers' \in [Workers -> Snapshot]
  BY <1>2 DEF IInv, TypeOK, Snapshot
<1>10. ledger' = Released(ledger, {})
  BY <1>2 DEF Released, IInv, TypeOK
<1>11. ASSUME NEW j \in Ids PROVE jobs'[j] \in JobRecords /\ Passes(j, {})
  <2>1. jobs[j] \in JobRecords /\ j \in Nat
    BY OneJob DEF Ids
  <2>2. CASE \E o \in triggers : idOf(o) = j
    <3> DEFINE o == CHOOSE x \in triggers : idOf(x) = j
    <3>1. o \in triggers /\ idOf(o) = j
      BY <2>2
    <3>2. jobs'[j] = OrderJob(o, stock)
      BY <1>2, <2>2
    <3> HIDE DEF o
    <3>3. j >= nextJobId /\ j < nextJobId'
      BY <3>1, <1>2, <1>6, <1>7
    <3>4. j \notin Known
      BY <3>3, <1>7, <2>1, OneJob DEF Known
    <3>5. /\ jobs'[j] \in JobRecords /\ jobs'[j].state = "Candidate" /\ jobs'[j].worker = NoWorker
          /\ jobs'[j].done <= jobs'[j].required
      BY <3>1, <3>2, <1>1, <1>3, OrderJobTyped
    <3> QED
      BY <3>3, <3>4, <3>5, Fresh
  <2>3. CASE ~\E o \in triggers : idOf(o) = j
    <3>1. jobs'[j] = jobs[j] /\ j \notin {}
      BY <1>2, <2>3
    <3>2. Claimed(j) => workers'[jobs[j].worker] # "absent"
      BY <1>2, OneJob
    <3> QED
      BY <2>1, <3>1, <3>2, <1>8, Untouched
  <2> QED
    BY <2>2, <2>3
<1>12. jobs' \in [Ids -> JobRecords]
  BY <1>2, <1>11
<1> QED
  BY <1>4, <1>8, <1>9, <1>10, <1>11, <1>12, Maintained

-----------------------------------------------------------------------------
(* The theorems.                                                           *)

\* At the start no job has a claim.
LEMMA InitBook == Init => Book!Init
<1> SUFFICES ASSUME Init PROVE Book!Init
  OBVIOUS
<1>1. \A j \in Ids : jobs[j] = NoJob /\ j # 0
  BY WorkAssumption DEF Init, Ids
<1>2. \A r \in Resources : ledger[r].job = 0
  BY DEF Init, Free
<1>3. \A j \in Ids : ~Claimed(j) /\ jobs[j].needs = {}
  BY <1>1 DEF Claimed, NoJob
<1>4. \A j \in Ids : {r \in Resources : ledger[r].job = j} = {}
  BY <1>1, <1>2
<1> QED
  BY <1>3, <1>4 DEF Book!Init

\* Every step keeps the invariant and the work that was done, and takes no
\* running lease away.
LEMMA NextGood == ASSUME IInv, [Next]_vars PROVE Good
<1>1. ASSUME NEW d \in Definitions, NEW id \in Ids, CreateJob(id, d) PROVE Good
  BY <1>1, CreateJobGood
<1>2. ASSUME NEW specs \in Snapshots, Synchronize(specs) PROVE Good
  BY <1>2, SynchronizeGood
<1>3. ASSUME NEW j \in Ids, Cancel(j) \/ Release(j) \/ ExecuteFails(j) PROVE Good
  BY <1>3, CancelGood, ReleaseGood, ExecuteFailsGood
<1>4. ASSUME NEW j \in Ids, NEW d \in {0, 1}, NEW completed \in BOOLEAN, Execute(j, d, completed)
      PROVE  Good
  BY <1>4, ExecuteGood
<1>5. ASSUME NEW w \in Workers, RemoveWorker(w) \/ \E s \in {"off", "available"} : UpsertWorker(w, s)
      PROVE  Good
  BY <1>5, RemoveWorkerGood, UpsertWorkerGood
<1>6. ASSUME NEW decisions \in SUBSET Pairs, Assign(decisions) PROVE Good
  BY <1>6, AssignGood
<1>7. ASSUME ExpireLeases PROVE Good
  BY <1>7, ExpireLeasesGood
<1>8. ASSUME NEW r \in Resources, Invalidate(r) PROVE Good
  BY <1>8, InvalidateGood
<1>9. ASSUME NEW stock \in 0..MaxStock, NEW conditions \in [Orders -> BOOLEAN],
             EvaluateWorkOrders(stock, conditions)
      PROVE  Good
  BY <1>9, EvaluateGood
<1>10. ASSUME NEW o \in Orders, SignalWorkOrderEvent(o) PROVE Good
  BY <1>10, SignalGood
<1>11. ASSUME Tick PROVE Good
  BY <1>11, TickGood
<1>12. ASSUME UNCHANGED vars PROVE Good
  BY <1>12, StutterGood
<1> QED
  BY <1>1, <1>2, <1>3, <1>4, <1>5, <1>6, <1>7, <1>8, <1>9, <1>10, <1>11, <1>12 DEF Next

\* The invariant is inductive.
THEOREM Invariance == Spec => []IInv
<1>1. IInv /\ [Next]_vars => IInv'
  BY NextGood DEF Good
<1> QED
  BY InitGood, <1>1, PTL DEF Spec

\* The jobs, the ledger, the workers and the orders have their types, and job
\* ids are handed out in order.
THEOREM TypeCorrect == Spec => []TypeOK
<1>1. IInv => TypeOK
  BY DEF IInv
<1> QED
  BY Invariance, <1>1, PTL

\* However claims are made, lapse, are lost with a worker or are given back: a
\* claimed job owns every resource it needs for as long as its lease, and the
\* ledger reserves nothing for anyone else (claim, releaseJob, expireLeases).
THEOREM ClaimsAndLedgerAgree == Spec => []ClaimsAgree
<1>1. IInv => ClaimsAgree
  BY DEF IInv
<1> QED
  BY Invariance, <1>1, PTL

\* No job is left with a worker that removeWorker took away.
THEOREM ClaimantsArePresent == Spec => []ClaimantsPresent
<1>1. IInv => ClaimantsPresent
  BY DEF IInv
<1> QED
  BY Invariance, <1>1, PTL

\* No step gives a resource under a running lease to another job.
THEOREM RunningLeasesAreRespected == Spec => LeasesRespected
<1>1. IInv /\ [Next]_vars => [NoTheft]_vars
  BY NextGood DEF Good
<1> QED
  BY Invariance, <1>1, PTL DEF Spec, LeasesRespected

\* No step undoes work, and none gives a job's id to another job: not losing
\* the worker, the lease or a resource, and not a new snapshot of the source.
THEOREM WorkIsKept == Spec => WorkKept
<1>1. IInv /\ [Next]_vars =>
        [\A j \in Known : jobs'[j].done >= jobs[j].done /\ jobs'[j].key = jobs[j].key
                           /\ jobs'[j].order = jobs[j].order]_vars
  BY NextGood DEF Good, KeepsWork
<1> QED
  BY Invariance, <1>1, PTL DEF Spec, WorkKept

\* Whatever sources, workers, the clock, the owners and the assignment do in
\* whatever order, jobs, leases and ledger are together one book of claims: a
\* claim is granted with all the job needs and given back with all it holds,
\* and what is granted is nobody's whose lease is running.
THEOREM WorkImplementsClaims == Spec => ImplementsClaims
<1>1. IInv /\ [Next]_vars => [Book!Next]_(Book!vars)
  BY NextGood DEF Good, Booked
<1> QED
  BY InitBook, Invariance, <1>1, PTL DEF Spec, ImplementsClaims, Book!Spec

=============================================================================
