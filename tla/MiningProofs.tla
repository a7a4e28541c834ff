---------------------------- MODULE MiningProofs ----------------------------
(***************************************************************************)
(* The miner for any number of workers, any nonce range and any delay of   *)
(* its queues.                                                             *)
(*                                                                         *)
(* The argument is one invariant, NumbersTell: the number of a job, held   *)
(* by a worker or still in a queue, never exceeds the job number of the    *)
(* loop, and where the two are equal the job is for the template under     *)
(* way.  It is needed because neither property speaks of the queues.       *)
(***************************************************************************)
EXTENDS Mining, SequenceTheorems, TLAPS

TypeInv ==
    /\ template \in Nat /\ jobId \in Nat
    /\ loop \in LoopSteps /\ answer \in Results
    /\ jobs \in [Worker -> Seq(Jobs)]
    /\ results \in [Worker -> Seq(Results)]
    /\ job \in [Worker -> Jobs]
    /\ at \in [Worker -> Nat]
    /\ step \in [Worker -> WorkerSteps]
    /\ late \in [Worker -> Nat]

\* A record that carries a job's number and its template, where the loop's are
\* n and m.
Tells(r, n, m) == r.id <= n /\ (r.id = n => r.template = m)

NumbersTell ==
    /\ \A w \in Worker : Tells(job[w], jobId, template)
    /\ \A w \in Worker : \A i \in 1..Len(jobs[w]) : Tells(jobs[w][i], jobId, template)
    /\ \A w \in Worker : \A i \in 1..Len(results[w]) : Tells(results[w][i], jobId, template)

\* A worker that has wasted a hash is about to see that its job was replaced.
OneWasted ==
    \A w \in Worker :
        /\ late[w] <= 1
        /\ late[w] = 1 /\ step[w] \in {"check", "hash"} => step[w] = "check" /\ job[w].id # jobId

IInv == TypeInv /\ NumbersTell /\ OneWasted /\ SolvesTemplate

USE DEF LoopSteps, WorkerSteps

\* What a job and a result hold (Job, and the pair a worker puts).
LEMMA Fields ==
    /\ Stop \in Jobs /\ Stop.id = -1 /\ NoAnswer \in Results
    /\ \A j \in Jobs : j.id \in Int /\ j.template \in Nat /\ j.first \in Nat
    /\ \A r \in Results : r.id \in Int /\ r.template \in Nat /\ r.nonce \in Nat
    /\ \A i \in Int, n, m \in Nat : [id |-> i, template |-> n, first |-> m] \in Jobs
    /\ \A i \in Int, n, m \in Nat : [id |-> i, nonce |-> m, template |-> n] \in Results
  BY DEF Stop, NoAnswer, Jobs, Results

\* Taking from a queue, or adding to one, leaves every entry telling.
LEMMA TailTells ==
    ASSUME NEW S, NEW q \in Seq(S), q # <<>>, NEW n, NEW m,
           \A i \in 1..Len(q) : Tells(q[i], n, m)
    PROVE  \A i \in 1..Len(Tail(q)) : Tells(Tail(q)[i], n, m)
  <1>1. /\ Len(q) \in Nat /\ Len(Tail(q)) = Len(q) - 1
        /\ \A i \in 1..Len(Tail(q)) : Tail(q)[i] = q[i + 1]
    BY HeadTailProperties, LenProperties
  <1> TAKE i \in 1..Len(Tail(q))
  <1>2. i + 1 \in 1..Len(q)
    BY <1>1
  <1>3. Tells(q[i + 1], n, m)
    BY <1>2
  <1> QED
    BY <1>1, <1>3

LEMMA AppendTells ==
    ASSUME NEW S, NEW q \in Seq(S), NEW e \in S, NEW n, NEW m, Tells(e, n, m),
           \A i \in 1..Len(q) : Tells(q[i], n, m)
    PROVE  \A i \in 1..Len(Append(q, e)) : Tells(Append(q, e)[i], n, m)
  <1>1. /\ Len(q) \in Nat /\ Len(Append(q, e)) = Len(q) + 1
        /\ \A i \in 1..Len(q) : Append(q, e)[i] = q[i]
        /\ Append(q, e)[Len(q) + 1] = e
    BY AppendProperties, LenProperties
  <1> TAKE i \in 1..Len(Append(q, e))
  <1>2. i \in 1..Len(q) \/ i = Len(q) + 1
    BY <1>1
  <1> QED
    BY <1>1, <1>2

\* The miner starts in the invariant.
LEMMA InitHolds == Init => IInv
  <1> SUFFICES ASSUME Init PROVE IInv
    OBVIOUS
  <1>1. TypeInv
    BY Fields DEF Init, TypeInv
  <1>2. NumbersTell
    BY Fields DEF Init, NumbersTell, Tells
  <1>3. OneWasted /\ SolvesTemplate
    BY DEF Init, OneWasted, SolvesTemplate
  <1> QED
    BY <1>1, <1>2, <1>3 DEF IInv

\* Every step of the loop, of a worker or of another node keeps the types.
LEMMA TypeStep == TypeInv /\ [Next]_vars => TypeInv'
  <1> SUFFICES ASSUME TypeInv, [Next]_vars PROVE TypeInv'
    OBVIOUS
  <1> USE MiningAssumption, Fields DEF TypeInv, loopVars, workerVars
  <1>1. CASE Build
    BY <1>1 DEF Build
  <1>2. CASE HandOut
    <2> PICK start \in Starts :
          jobs' = [w \in Worker |-> Append(jobs[w],
                     [id |-> jobId, template |-> template, first |-> FirstNonce(start, w)])]
      BY <1>2 DEF HandOut
    <2>1. \A w \in Worker : FirstNonce(start, w) \in Nat
      BY DEF FirstNonce, Worker
    <2> QED
      BY <1>2, <2>1 DEF HandOut
  <1>3. CASE Turn
    BY <1>3 DEF Turn
  <1>4. CASE TakeResult
    <2> PICK w \in Worker :
          /\ results[w] # <<>>
          /\ results' = [results EXCEPT ![w] = Tail(@)]
          /\ IF IsCurrent(Head(results[w]))
             THEN loop' = "got" /\ answer' = Head(results[w])
             ELSE UNCHANGED <<loop, answer>>
      BY <1>4 DEF TakeResult
    <2>1. /\ results[w] \in Seq(Results)
          /\ Head(results[w]) \in Results /\ Tail(results[w]) \in Seq(Results)
      BY HeadTailProperties
    <2> QED
      BY <1>4, <2>1 DEF TakeResult
  <1>5. CASE TimeOut
    BY <1>5 DEF TimeOut
  <1>6. CASE SubmitMined
    <2>1. \A w \in Worker : Append(jobs[w], Stop) \in Seq(Jobs)
      BY AppendProperties
    <2>2. jobs' \in [Worker -> Seq(Jobs)]
      BY <1>6, <2>1 DEF SubmitMined
    <2> QED
      BY <1>6, <2>2 DEF SubmitMined
  <1>7. CASE Cancel
    BY <1>7 DEF Cancel
  <1>8. CASE TipMoves
    BY <1>8 DEF TipMoves
  <1>9. ASSUME NEW w \in Worker, WorkerStep(w) \/ Terminate(w) PROVE TypeInv'
    <2>1. CASE TakeJob(w)
      <3>1. jobs[w] \in Seq(Jobs) /\ Head(jobs[w]) \in Jobs /\ Tail(jobs[w]) \in Seq(Jobs)
        BY <2>1, HeadTailProperties DEF TakeJob
      <3> QED
        BY <2>1, <3>1 DEF TakeJob
    <2>2. CASE StartJob(w)
      BY <2>2 DEF StartJob
    <2>3. CASE CheckJob(w)
      BY <2>3 DEF CheckJob
    <2>4. CASE HashFound(w)
      <3> DEFINE new == [id |-> job[w].id, nonce |-> at[w], template |-> job[w].template]
      <3>1. new \in Results /\ results[w] \in Seq(Results)
        OBVIOUS
      <3>2. Append(results[w], new) \in Seq(Results)
        BY <3>1, AppendProperties
      <3>3. results' \in [Worker -> Seq(Results)]
        BY <2>4, <3>2 DEF HashFound
      <3>4. late' \in [Worker -> Nat] /\ step' \in [Worker -> WorkerSteps]
        BY <2>4 DEF HashFound, HashEnds
      <3> QED
        BY <2>4, <3>3, <3>4 DEF HashFound
    <2>5. CASE HashMissed(w)
      <3>1. at[w] + Workers \in Nat
        OBVIOUS
      <3>2. at' \in [Worker -> Nat]
        BY <2>5, <3>1 DEF HashMissed
      <3>3. late' \in [Worker -> Nat]
        BY <2>5 DEF HashMissed, HashEnds
      <3>4. step' \in [Worker -> WorkerSteps]
        BY <2>5 DEF HashMissed
      <3> QED
        BY <2>5, <3>2, <3>3, <3>4 DEF HashMissed
    <2>6. CASE Terminate(w)
      BY <2>6 DEF Terminate
    <2> QED
      BY <1>9, <2>1, <2>2, <2>3, <2>4, <2>5, <2>6 DEF WorkerStep
  <1>10. CASE UNCHANGED vars
    BY <1>10 DEF vars
  <1> QED
    BY <1>1, <1>2, <1>3, <1>4, <1>5, <1>6, <1>7, <1>8, <1>9, <1>10 DEF Next, LoopStep

\* Bumping the number and putting None into every queue (pause, close) keeps
\* the numbers telling.
LEMMA Bumped ==
    ASSUME TypeInv, TypeInv', NumbersTell, UNCHANGED <<template, job, results>>,
           jobId' = jobId \/ jobId' = jobId + 1,
           jobs' = jobs \/ jobs' = [w \in Worker |-> Append(jobs[w], Stop)]
    PROVE  NumbersTell'
  <1> USE Fields DEF TypeInv
  <1>1. ASSUME NEW r, r.id \in Int, Tells(r, jobId, template) PROVE Tells(r, jobId', template')
    BY <1>1 DEF Tells
  <1>2. \A w \in Worker : Tells(job[w], jobId', template')
    BY <1>1 DEF NumbersTell
  <1>3. \A w \in Worker : \A i \in 1..Len(results[w]) : Tells(results[w][i], jobId', template')
    BY <1>1, ElementOfSeq DEF NumbersTell
  <1>4. \A w \in Worker : \A i \in 1..Len(jobs[w]) : Tells(jobs[w][i], jobId', template')
    BY <1>1, ElementOfSeq DEF NumbersTell
  <1>5. Tells(Stop, jobId', template')
    BY DEF Tells
  <1>6. \A w \in Worker : \A i \in 1..Len(jobs'[w]) : Tells(jobs'[w][i], jobId', template')
    <2>1. CASE jobs' = jobs
      BY <1>4, <2>1
    <2>2. CASE jobs' = [w \in Worker |-> Append(jobs[w], Stop)]
      <3> SUFFICES ASSUME NEW w \in Worker, NEW i \in 1..Len(jobs'[w])
                   PROVE  Tells(jobs'[w][i], jobId', template')
        OBVIOUS
      <3>1. jobs'[w] = Append(jobs[w], Stop) /\ jobs[w] \in Seq(Jobs)
        BY <2>2
      <3>2. (i \in 1..Len(jobs[w]) /\ jobs'[w][i] = jobs[w][i]) \/ jobs'[w][i] = Stop
        BY <3>1, AppendProperties
      <3> QED
        BY <3>2, <1>4, <1>5
    <2> QED
      BY <2>1, <2>2
  <1> QED
    BY <1>2, <1>3, <1>6 DEF NumbersTell

\* A step that leaves the numbers and what is in the queues alone.
LEMMA SameTells == NumbersTell /\ UNCHANGED <<jobId, template, job, jobs, results>> => NumbersTell'
  BY DEF NumbersTell

\* Every step keeps the numbers telling: a number is bumped before a job with a
\* new template exists, and a job, a result and an answer are only ever copied.
LEMMA NumbersStep == TypeInv /\ NumbersTell /\ [Next]_vars => NumbersTell'
  <1> SUFFICES ASSUME TypeInv, NumbersTell, [Next]_vars PROVE NumbersTell'
    OBVIOUS
  <1> TypeInv'
    BY TypeStep
  <1> USE Fields DEF TypeInv, NumbersTell, Tells, loopVars, workerVars
  <1>0. /\ \A w \in Worker : job[w] \in Jobs
        /\ \A w \in Worker : \A i \in 1..Len(jobs[w]) : jobs[w][i] \in Jobs
        /\ \A w \in Worker : \A i \in 1..Len(results[w]) : results[w][i] \in Results
    BY ElementOfSeq
  <1>1. CASE Build
    <2>1. /\ jobId \in Int /\ jobId' = jobId + 1
          /\ UNCHANGED <<job, jobs, results>>
      BY <1>1 DEF Build
    <2>2. \A r \in Jobs \cup Results : Tells(r, jobId, template) => Tells(r, jobId', template')
      BY <2>1
    <2> HIDE DEF Tells, TypeInv
    <2> HIDE Fields
    <2> QED
      BY <1>0, <2>1, <2>2
  <1>2. CASE HandOut
    <2> PICK start \in Starts :
          jobs' = [w \in Worker |-> Append(jobs[w],
                     [id |-> jobId, template |-> template, first |-> FirstNonce(start, w)])]
      BY <1>2 DEF HandOut
    <2>1. \A w \in Worker : FirstNonce(start, w) \in Nat
      BY MiningAssumption DEF FirstNonce, Worker
    <2>2. \A w \in Worker : \A i \in 1..Len(jobs'[w]) : Tells(jobs'[w][i], jobId, template)
      <3> TAKE w \in Worker
      <3> DEFINE new == [id |-> jobId, template |-> template, first |-> FirstNonce(start, w)]
      <3>1. new \in Jobs /\ Tells(new, jobId, template)
        BY <2>1
      <3>2. jobs'[w] = Append(jobs[w], new) /\ jobs[w] \in Seq(Jobs)
        OBVIOUS
      <3>3. \A i \in 1..Len(jobs[w]) : Tells(jobs[w][i], jobId, template)
        OBVIOUS
      <3> HIDE DEF new, Tells, NumbersTell, TypeInv
      <3>4. \A i \in 1..Len(Append(jobs[w], new)) : Tells(Append(jobs[w], new)[i], jobId, template)
        BY <3>1, <3>2, <3>3, AppendTells
      <3> QED
        BY <3>2, <3>4
    <2>3. UNCHANGED <<jobId, template, job, results>>
      BY <1>2 DEF HandOut, workerVars
    <2> HIDE DEF Tells, TypeInv
    <2> QED
      BY <2>2, <2>3
  <1>3. CASE Turn
    <2>1. UNCHANGED <<jobId, template, job, jobs, results>>
      BY <1>3 DEF Turn, workerVars
    <2> QED
      BY <2>1, SameTells
  <1>4. CASE TakeResult
    <2> PICK w \in Worker : results[w] # <<>> /\ results' = [results EXCEPT ![w] = Tail(@)]
      BY <1>4 DEF TakeResult
    <2>1. \A v \in Worker : \A i \in 1..Len(results'[v]) : Tells(results'[v][i], jobId, template)
      <3>1. results[w] \in Seq(Results)
        OBVIOUS
      <3>2. \A i \in 1..Len(Tail(results[w])) : Tells(Tail(results[w])[i], jobId, template)
        <4>1. \A i \in 1..Len(results[w]) : Tells(results[w][i], jobId, template)
          OBVIOUS
        <4> HIDE DEF Tells, NumbersTell, TypeInv
        <4> QED
          BY <3>1, <4>1, TailTells
      <3> TAKE v \in Worker
      <3> HIDE DEF Tells
      <3>3. CASE v = w
        <4>1. results'[v] = Tail(results[w])
          BY <3>3
        <4> QED
          BY <3>2, <4>1
      <3>4. CASE v # w
        <4>1. results'[v] = results[v]
          BY <3>4
        <4> QED
          BY <4>1
      <3> QED
        BY <3>3, <3>4
    <2>2. UNCHANGED <<jobId, template, job, jobs>>
      BY <1>4 DEF TakeResult, workerVars
    <2> HIDE DEF Tells, TypeInv
    <2> QED
      BY <2>1, <2>2
  <1>5. CASE TimeOut
    <2>1. UNCHANGED <<jobId, template, job, jobs, results>>
      BY <1>5 DEF TimeOut, workerVars
    <2> QED
      BY <2>1, SameTells
  <1>6. CASE SubmitMined
    <2>1. /\ UNCHANGED <<template, job, results>>
          /\ jobId' = jobId \/ jobId' = jobId + 1
          /\ jobs' = jobs \/ jobs' = [w \in Worker |-> Append(jobs[w], Stop)]
      BY <1>6 DEF SubmitMined
    <2> QED
      BY <2>1, Bumped
  <1>7. CASE Cancel
    <2>1. /\ UNCHANGED <<template, job, results>>
          /\ jobId' = jobId \/ jobId' = jobId + 1
          /\ jobs' = jobs \/ jobs' = [w \in Worker |-> Append(jobs[w], Stop)]
      BY <1>7 DEF Cancel
    <2> QED
      BY <2>1, Bumped
  <1>8. CASE TipMoves
    <2>1. UNCHANGED <<jobId, template, job, jobs, results>>
      BY <1>8 DEF TipMoves, workerVars
    <2> QED
      BY <2>1, SameTells
  <1>9. ASSUME NEW w \in Worker, WorkerStep(w) \/ Terminate(w) PROVE NumbersTell'
    <2>1. CASE TakeJob(w)
      <3>1. jobs[w] \in Seq(Jobs) /\ jobs[w] # <<>>
        BY <2>1 DEF TakeJob
      <3>2. Head(jobs[w]) = jobs[w][1] /\ 1 \in 1..Len(jobs[w])
        BY <3>1, LenProperties, EmptySeq
      <3>3. \A i \in 1..Len(Tail(jobs[w])) : Tells(Tail(jobs[w])[i], jobId, template)
        <4>1. \A i \in 1..Len(jobs[w]) : Tells(jobs[w][i], jobId, template)
          OBVIOUS
        <4> HIDE DEF Tells, NumbersTell, TypeInv
        <4> QED
          BY <3>1, <4>1, TailTells
      <3>4. /\ UNCHANGED <<jobId, template, results>>
            /\ jobs' = [jobs EXCEPT ![w] = Tail(@)]
            /\ job' = [job EXCEPT ![w] = Head(jobs[w])]
        BY <2>1 DEF TakeJob
      <3>5. Tells(Head(jobs[w]), jobId, template)
        BY <3>2
      <3> HIDE DEF Tells
      <3>6. \A v \in Worker : Tells(job'[v], jobId, template)
        BY <3>4, <3>5
      <3>7. \A v \in Worker : \A i \in 1..Len(jobs'[v]) : Tells(jobs'[v][i], jobId, template)
        BY <3>3, <3>4
      <3> HIDE DEF TypeInv
      <3> QED
        BY <3>4, <3>6, <3>7
    <2>2. CASE StartJob(w)
      <3>1. UNCHANGED <<jobId, template, job, jobs, results>>
        BY <2>2 DEF StartJob, loopVars
      <3> QED
        BY <3>1, SameTells
    <2>3. CASE CheckJob(w)
      <3>1. UNCHANGED <<jobId, template, job, jobs, results>>
        BY <2>3 DEF CheckJob
      <3> QED
        BY <3>1, SameTells
    <2>4. CASE HashFound(w)
      <3> DEFINE new == [id |-> job[w].id, nonce |-> at[w], template |-> job[w].template]
      <3>1. new \in Results /\ Tells(new, jobId, template)
        BY <1>0
      <3>2. results' = [results EXCEPT ![w] = Append(@, new)] /\ results[w] \in Seq(Results)
        BY <2>4 DEF HashFound
      <3> HIDE DEF new
      <3>3. \A i \in 1..Len(Append(results[w], new)) : Tells(Append(results[w], new)[i], jobId, template)
        <4>1. \A i \in 1..Len(results[w]) : Tells(results[w][i], jobId, template)
          OBVIOUS
        <4> HIDE DEF Tells, NumbersTell, TypeInv
        <4> QED
          BY <3>1, <3>2, <4>1, AppendTells
      <3>4. UNCHANGED <<jobId, template, job, jobs>>
        BY <2>4 DEF HashFound
      <3>5. \A v \in Worker : \A i \in 1..Len(results'[v]) : Tells(results'[v][i], jobId, template)
        <4> TAKE v \in Worker
        <4>1. CASE v = w
          <5>1. results'[v] = Append(results[w], new)
            BY <3>2, <4>1
          <5> QED
            BY <3>3, <5>1
        <4>2. CASE v # w
          <5>1. results'[v] = results[v]
            BY <3>2, <4>2
          <5> QED
            BY <5>1
        <4> QED
          BY <4>1, <4>2
      <3> HIDE DEF Tells, TypeInv
      <3> QED
        BY <3>4, <3>5
    <2>5. CASE HashMissed(w)
      <3>1. UNCHANGED <<jobId, template, job, jobs, results>>
        BY <2>5 DEF HashMissed, HashEnds, loopVars
      <3> QED
        BY <3>1, SameTells
    <2>6. CASE Terminate(w)
      <3>1. UNCHANGED <<jobId, template, job, jobs, results>>
        BY <2>6 DEF Terminate, loopVars
      <3> QED
        BY <3>1, SameTells
    <2> QED
      BY <1>9, <2>1, <2>2, <2>3, <2>4, <2>5, <2>6 DEF WorkerStep
  <1>10. CASE UNCHANGED vars
    <2>1. UNCHANGED <<jobId, template, job, jobs, results>>
      BY <1>10 DEF vars, loopVars, workerVars
    <2> QED
      BY <2>1, SameTells
  <1> QED
    BY <1>1, <1>2, <1>3, <1>4, <1>5, <1>6, <1>7, <1>8, <1>9, <1>10 DEF Next, LoopStep

\* A worker that has wasted a hash sees it before the next: the number it
\* compares with never comes back, because every job's number is at most it.
LEMMA WastedStep == TypeInv /\ NumbersTell /\ OneWasted /\ [Next]_vars => OneWasted'
  <1> SUFFICES ASSUME TypeInv, NumbersTell, OneWasted, [Next]_vars PROVE OneWasted'
    OBVIOUS
  <1>0. \A w \in Worker : job[w].id <= jobId
    BY DEF NumbersTell, Tells
  <1> USE <1>0 DEF TypeInv, OneWasted, loopVars, workerVars
  <1>1. CASE Build
    BY <1>1 DEF Build
  <1>2. CASE HandOut
    BY <1>2 DEF HandOut
  <1>3. CASE Turn
    BY <1>3 DEF Turn
  <1>4. CASE TakeResult
    BY <1>4 DEF TakeResult
  <1>5. CASE TimeOut
    BY <1>5 DEF TimeOut
  <1>6. CASE SubmitMined
    BY <1>6 DEF SubmitMined
  <1>7. CASE Cancel
    BY <1>7 DEF Cancel
  <1>8. CASE TipMoves
    BY <1>8 DEF TipMoves
  <1>9. ASSUME NEW w \in Worker, WorkerStep(w) \/ Terminate(w) PROVE OneWasted'
    <2>1. CASE TakeJob(w)
      BY <2>1 DEF TakeJob
    <2>2. CASE StartJob(w)
      BY <2>2 DEF StartJob
    <2>3. CASE CheckJob(w)
      BY <2>3 DEF CheckJob, Replaced
    <2>4. CASE HashFound(w)
      BY <2>4 DEF HashFound, HashEnds
    <2>5. CASE HashMissed(w)
      BY <2>5 DEF HashMissed, HashEnds
    <2>6. CASE Terminate(w)
      BY <2>6 DEF Terminate
    <2> QED
      BY <1>9, <2>1, <2>2, <2>3, <2>4, <2>5, <2>6 DEF WorkerStep
  <1>10. CASE UNCHANGED vars
    BY <1>10 DEF vars
  <1> QED
    BY <1>1, <1>2, <1>3, <1>4, <1>5, <1>6, <1>7, <1>8, <1>9, <1>10 DEF Next, LoopStep

\* The loop holds an answer only after TakeResult, which compares its number.
LEMMA SolvesStep == IInv /\ [Next]_vars => SolvesTemplate'
  <1> SUFFICES ASSUME IInv, [Next]_vars PROVE SolvesTemplate'
    OBVIOUS
  <1> USE DEF IInv, TypeInv, SolvesTemplate, loopVars, workerVars
  <1>1. CASE TakeResult
    <2> PICK w \in Worker :
          /\ results[w] # <<>>
          /\ results' = [results EXCEPT ![w] = Tail(@)]
          /\ IF IsCurrent(Head(results[w]))
             THEN loop' = "got" /\ answer' = Head(results[w])
             ELSE UNCHANGED <<loop, answer>>
      BY <1>1 DEF TakeResult
    <2>1. Tells(Head(results[w]), jobId, template)
      <3>1. results[w] \in Seq(Results) /\ Len(results[w]) >= 1
        OBVIOUS
      <3>2. Head(results[w]) = results[w][1]
        BY <3>1
      <3> QED
        BY <3>1, <3>2 DEF NumbersTell
    <2> QED
      BY <1>1, <2>1 DEF TakeResult, IsCurrent, Tells
  <1>2. CASE Build \/ HandOut \/ Turn \/ TimeOut \/ SubmitMined \/ Cancel \/ TipMoves
    BY <1>2 DEF Build, HandOut, Turn, TimeOut, SubmitMined, Cancel, TipMoves
  <1>3. ASSUME NEW w \in Worker, WorkerStep(w) \/ Terminate(w) PROVE SolvesTemplate'
    BY <1>3 DEF WorkerStep, TakeJob, StartJob, CheckJob, HashFound, HashMissed, Terminate
  <1>4. CASE UNCHANGED vars
    BY <1>4 DEF vars
  <1> QED
    BY <1>1, <1>2, <1>3, <1>4 DEF Next, LoopStep

\* The invariant holds in every reachable state.
LEMMA Invariant == Spec => []IInv
  <1>1. IInv /\ [Next]_vars => IInv'
    BY TypeStep, NumbersStep, WastedStep, SolvesStep DEF IInv
  <1> QED
    BY <1>1, InitHolds, PTL DEF Spec

\* A block is only submitted with a nonce that was found for its own header,
\* whatever comes out of the queue of results, and when (wait).
THEOREM Solves == Spec => []SolvesTemplate
  BY Invariant, PTL DEF IInv

\* "stale work stops within one hash" (_work).
THEOREM Stops == Spec => []StaleWorkStops
  <1>1. IInv => StaleWorkStops
    BY DEF IInv, OneWasted, StaleWorkStops
  <1> QED
    BY <1>1, Invariant, PTL
=============================================================================
