------------------------------- MODULE Mining -------------------------------
(***************************************************************************)
(* miner/engine.py and mining_loop of node/server.py: worker processes     *)
(* search nonces for the job they hold, the loop hands out a job for every *)
(* new template and submits the block when a nonce comes back.             *)
(*                                                                         *)
(* Loop and workers share one number (current_job), a queue of jobs for    *)
(* each worker, and a queue of results that every worker writes.  What is  *)
(* put into a queue is read in order, but may arrive late: get_nowait can  *)
(* find nothing although a job is on its way, and wait can time out        *)
(* although a result is.  Tips are numbered by service.tip_version.        *)
(***************************************************************************)
EXTENDS Integers, Sequences

CONSTANTS
    Workers,      \* number of worker processes
    NonceLimit,   \* 1 << 64
    Starts,       \* the random numbers `start` is drawn from
    Blocks,       \* the loop stops after so many blocks of its own
    MaxMoves,     \* bound on the tips that come from other nodes
    MaxRefreshes  \* bound on the templates rebuilt because time is up

Worker == 0..(Workers - 1)

\* `start` is in the lower half of the range, and there are fewer workers than
\* nonces in the other half.
ASSUME MiningAssumption ==
    /\ Workers \in Nat \ {0} /\ NonceLimit \in Nat
    /\ Starts \subseteq Nat /\ \A s \in Starts : s + Workers <= NonceLimit
    /\ Blocks \in Nat /\ MaxMoves \in Nat /\ MaxRefreshes \in Nat

VARIABLES
    tip,        \* service.tip_version
    moves,      \* tips that other nodes have found
    refreshes,  \* templates rebuilt because time was up
    loop,       \* where mining_loop is, see LoopSteps
    template,   \* number of the template it works on
    base,       \* `version`: the tip that template was built on
    answer,     \* the result that wait has returned
    found,      \* blocks of its own that became the tip
    jobId,      \* _job_id and current_job
    jobs,       \* jobs[w]: the queue of worker w
    results,    \* results[w]: what worker w has put into the queue of results
    step,       \* where each worker is, see WorkerSteps
    job,        \* the job each worker holds
    at,         \* the nonce it is at
    late        \* hashes it finished for its job after that was replaced

loopVars == <<tip, moves, refreshes, loop, template, base, answer, found>>
workerVars == <<step, job, at, late>>
vars == <<loopVars, jobId, jobs, results, workerVars>>

\* build: top of the loop; put: the job number is bumped, the jobs are not handed
\* out yet; turn: the condition of the inner loop; wait: engine.wait runs in a
\* thread; got: it has returned; close: the workers are told to end.
LoopSteps == {"build", "put", "turn", "wait", "got", "close"}

\* idle: jobs.get(); skim: looking for a newer job; check: before a hash; hash;
\* ended.
WorkerSteps == {"idle", "skim", "check", "hash", "ended"}

Stop == [id |-> -1, template |-> 0, first |-> 0]
Jobs == [id : Int, template : Nat, first : Nat]

\* A result is <<job_id, nonce>> in the code; `template` says for which header the
\* nonce was found, and nothing reads it but the property SolvesTemplate.
Results == [id : Int, nonce : Nat, template : Nat]
NoAnswer == [id |-> -1, nonce |-> 0, template |-> 0]

-----------------------------------------------------------------------------
(* mining_loop *)

\* service.template and tip_version are read in one step, and mine bumps the
\* job number before it hands out anything.
Build ==
    /\ loop = "build"
    /\ template' = template + 1 /\ base' = tip
    /\ jobId' = jobId + 1
    /\ answer' = NoAnswer
    /\ loop' = "put"
    /\ UNCHANGED <<tip, moves, refreshes, found, jobs, results, workerVars>>

\* The first nonce of worker w.
FirstNonce(start, w) == start + w

\* mine puts a job into every worker's queue.
HandOut ==
    /\ loop = "put"
    /\ \E start \in Starts :
          jobs' = [w \in Worker |-> Append(jobs[w],
                     [id |-> jobId, template |-> template, first |-> FirstNonce(start, w)])]
    /\ loop' = "turn"
    /\ UNCHANGED <<tip, moves, refreshes, template, base, answer, found, jobId,
                   results, workerVars>>

\* Mutant: a new tip is not noticed.
NeverOutdated == FALSE

\* service.tip_version != version.
Outdated == tip # base

\* The inner loop waits once more, or goes back for a new template: the tip has
\* changed, or the template is old.
Turn ==
    /\ loop = "turn"
    /\ \/ Outdated /\ loop' = "build" /\ UNCHANGED refreshes
       \/ ~Outdated /\ loop' = "wait" /\ UNCHANGED refreshes
       \/ /\ refreshes < MaxRefreshes
          /\ refreshes' = refreshes + 1
          /\ loop' = "build"
    /\ UNCHANGED <<tip, moves, template, base, answer, found, jobId, jobs, results,
                   workerVars>>

\* Mutant: any result will do.
AnyResult(r) == TRUE

\* A result of the job under way; others are thrown away.
IsCurrent(r) == r.id = jobId

\* wait takes a result from the queue.
TakeResult ==
    /\ loop = "wait"
    /\ \E w \in Worker :
          /\ results[w] # <<>>
          /\ results' = [results EXCEPT ![w] = Tail(@)]
          /\ IF IsCurrent(Head(results[w]))
             THEN loop' = "got" /\ answer' = Head(results[w])
             ELSE UNCHANGED <<loop, answer>>
    /\ UNCHANGED <<tip, moves, refreshes, template, base, found, jobId, jobs,
                   workerVars>>

\* wait runs out of time.
TimeOut ==
    /\ loop = "wait"
    /\ loop' = "turn"
    /\ UNCHANGED <<tip, moves, refreshes, template, base, answer, found, jobId, jobs,
                   results, workerVars>>

\* The block is submitted: a NEW_TIP if its parent is still the tip, else a
\* SIDE_BRANCH.  The last block asked for ends the loop.
SubmitMined ==
    /\ loop = "got"
    /\ IF Outdated
       THEN loop' = "build" /\ UNCHANGED <<tip, found>>
       ELSE /\ tip' = tip + 1 /\ found' = found + 1
            /\ loop' = IF found + 1 = Blocks THEN "close" ELSE "build"
    /\ jobId' = IF loop' = "close" THEN jobId + 1 ELSE jobId
    /\ jobs' = IF loop' = "close" THEN [w \in Worker |-> Append(jobs[w], Stop)] ELSE jobs
    /\ UNCHANGED <<moves, refreshes, template, base, answer, results, workerVars>>

\* The task is cancelled while it waits: `finally` closes the engine (pause,
\* then a None for every worker).
Cancel ==
    /\ loop \in {"wait", "got"}
    /\ loop' = "close"
    /\ jobId' = jobId + 1
    /\ jobs' = [w \in Worker |-> Append(jobs[w], Stop)]
    /\ UNCHANGED <<tip, moves, refreshes, template, base, answer, found, results,
                   workerVars>>

\* A block of another node becomes the tip.
TipMoves ==
    /\ moves < MaxMoves /\ loop \in {"wait", "got"}
    /\ moves' = moves + 1 /\ tip' = tip + 1
    /\ UNCHANGED <<refreshes, loop, template, base, answer, found, jobId, jobs,
                   results, workerVars>>

-----------------------------------------------------------------------------
(* A worker process *)

\* Mutant: `get_nowait() or job`, which keeps the job when None comes in.
TakeJobNotNone(w) ==
    /\ step[w] \in {"idle", "skim"} /\ jobs[w] # <<>>
    /\ job' = [job EXCEPT ![w] = IF step[w] = "skim" /\ Head(jobs[w]) = Stop
                                 THEN @ ELSE Head(jobs[w])]
    /\ jobs' = [jobs EXCEPT ![w] = Tail(@)]
    /\ step' = [step EXCEPT ![w] = "skim"]
    /\ UNCHANGED <<loopVars, jobId, results, at, late>>

\* _latest_job: the first job, then every newer one that has arrived.
TakeJob(w) ==
    /\ step[w] \in {"idle", "skim"} /\ jobs[w] # <<>>
    /\ job' = [job EXCEPT ![w] = Head(jobs[w])]
    /\ jobs' = [jobs EXCEPT ![w] = Tail(@)]
    /\ step' = [step EXCEPT ![w] = "skim"]
    /\ UNCHANGED <<loopVars, jobId, results, at, late>>

\* queue.Empty: nothing is there, or nothing has arrived yet.
StartJob(w) ==
    /\ step[w] = "skim"
    /\ step' = [step EXCEPT ![w] = IF job[w] = Stop THEN "ended" ELSE "check"]
    /\ at' = [at EXCEPT ![w] = job[w].first]
    /\ late' = [late EXCEPT ![w] = 0]
    /\ UNCHANGED <<loopVars, jobId, jobs, results, job>>

\* Mutant: the number is not read before a hash.
NeverReplaced(w) == FALSE

\* Mutant: `current_job.value >= job.job_id`.
ReplacedTooSoon(w) == jobId >= job[w].id

\* current_job.value != job.job_id.
Replaced(w) == jobId # job[w].id

CheckJob(w) ==
    /\ step[w] = "check"
    /\ step' = [step EXCEPT ![w] = IF Replaced(w) THEN "idle" ELSE "hash"]
    /\ UNCHANGED <<loopVars, jobId, jobs, results, job, at, late>>

\* One hash ends; if the job was replaced meanwhile, that one was in vain.
HashEnds(w) ==
    /\ step[w] = "hash"
    /\ late' = [late EXCEPT ![w] = IF jobId # job[w].id THEN @ + 1 ELSE @]

\* The digest meets the target.
HashFound(w) ==
    /\ HashEnds(w)
    /\ results' = [results EXCEPT ![w] = Append(@, [id |-> job[w].id, nonce |-> at[w],
                                                     template |-> job[w].template])]
    /\ step' = [step EXCEPT ![w] = "idle"]
    /\ UNCHANGED <<loopVars, jobId, jobs, job, at>>

\* It does not: the worker goes on `stride` nonces further, or has none left.
HashMissed(w) ==
    /\ HashEnds(w)
    /\ at' = [at EXCEPT ![w] = @ + Workers]
    /\ step' = [step EXCEPT ![w] = IF at[w] + Workers >= NonceLimit THEN "idle" ELSE "check"]
    /\ UNCHANGED <<loopVars, jobId, jobs, results, job>>

\* close gives a worker five seconds, then terminates it.
Terminate(w) ==
    /\ loop = "close" /\ step[w] # "ended"
    /\ step' = [step EXCEPT ![w] = "ended"]
    /\ UNCHANGED <<loopVars, jobId, jobs, results, job, at, late>>

WorkerStep(w) ==
    TakeJob(w) \/ StartJob(w) \/ CheckJob(w) \/ HashFound(w) \/ HashMissed(w)

-----------------------------------------------------------------------------
Init ==
    /\ tip = 0 /\ moves = 0 /\ refreshes = 0
    /\ loop = "build" /\ template = 0 /\ base = 0 /\ answer = NoAnswer /\ found = 0
    /\ jobId = 0
    /\ jobs = [w \in Worker |-> <<>>] /\ results = [w \in Worker |-> <<>>]
    /\ step = [w \in Worker |-> "idle"] /\ job = [w \in Worker |-> Stop]
    /\ at = [w \in Worker |-> 0] /\ late = [w \in Worker |-> 0]

LoopStep == Build \/ HandOut \/ Turn \/ TakeResult \/ TimeOut \/ SubmitMined

Next ==
    \/ LoopStep \/ Cancel \/ TipMoves
    \/ \E w \in Worker : WorkerStep(w) \/ Terminate(w)

\* The event loop and the processes keep running, and a wait ends in time.
Fairness ==
    /\ WF_vars(Build \/ HandOut \/ Turn \/ SubmitMined) /\ WF_vars(TimeOut)
    /\ \A w \in Worker : WF_vars(WorkerStep(w))

Spec == Init /\ [][Next]_vars /\ Fairness

-----------------------------------------------------------------------------
(* Properties *)

\* Every block that is submitted carries a nonce that was found for its own
\* header: a result of an older job that comes in late, or is already queued
\* when a new template is handed out, is never put into the new block (wait).
SolvesTemplate == loop = "got" => answer.template = template

\* "stale work stops within one hash": a worker finishes at most one hash for a
\* job after the number was bumped (_work).
StaleWorkStops == \A w \in Worker : late[w] <= 1

\* A job that was put into a worker's queue is worked on, unless it is replaced:
\* the worker never takes it for an old one and waits for the next (mine bumps
\* the number before it puts the jobs).
JobReached ==
    \A w \in Worker : \A j \in 1..(MaxMoves + MaxRefreshes + Blocks + 1) :
        (jobs[w] # <<>> /\ jobs[w][Len(jobs[w])].id = j)
            ~> (jobId > j \/ step[w] = "ended" \/ (step[w] = "hash" /\ job[w].id = j))

\* "Switches to new work at once when the tip changes" (mining_loop).
FollowsTip == (loop # "close" /\ tip # base) ~> (loop = "close" \/ tip = base)

\* What is put into a worker's queue reaches it: JobReached, and when the loop is
\* over every worker process ends, also one that is hashing (close).
WorkersHear == JobReached /\ (loop = "close" ~> \A w \in Worker : step[w] = "ended")
=============================================================================
