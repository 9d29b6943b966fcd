----------------------------- MODULE AgentJobs -----------------------------
(***************************************************************************)
(* The life of a background job: ClientAgent.enqueue in a web process, the *)
(* Celery lifecycle hooks of Agent.register_lifecycle_hooks in the worker  *)
(* processes, JobCanceller and the zombie check of ClientAgent.get in web  *)
(* processes, and JobRecovery at worker boot.  They share nothing but      *)
(* Redis: the JobState documents, the concurrency locks, the broker queue. *)
(*                                                                         *)
(* Every Redis round trip of a handler is a step of its own, so a document *)
(* read by one process may be overwritten by another before it is saved    *)
(* back.  JobPersistency.save is one step here (document and indexes       *)
(* together); module JobStore takes it apart.                              *)
(*                                                                         *)
(* Celery and the broker are external: acks_late, task_retry sent after    *)
(* the retry message is published, task_failure followed by task_postrun,  *)
(* the message acknowledged before task_failure (child process lost) and   *)
(* before task_revoked, and an unacknowledged message of a dead worker     *)
(* becoming visible again.                                                 *)
(***************************************************************************)
EXTENDS Naturals, FiniteSets

CONSTANTS
    Jobs,      \* job ids; a job id is generated by one enqueue
    Beat,      \* the jobs among them that Celery Beat publishes, without enqueue
    Workers,   \* worker processes, one pool slot each
    UpAtStart, \* workers running before the first job, their boot sweep over
    Keys,      \* concurrency lock keys: (job name, user or _global)
    KeyOf,     \* JobState.concurrency_lock_key of a job
    Gated,     \* jobs whose request has max_concurrent = 1; the others have 0
    Resume,    \* jobs whose request has resume = True
    Deferred,  \* jobs enqueued with an eta in the future
    Polled,    \* jobs whose state a client polls with GET /jobs/<id>
    Cancelled, \* jobs a client asks to cancel
    MaxTry,    \* JobRequest.max_try of a job
    RetryCap,  \* bound on Celery's retry counter: no max_try exceeds RetryCap + 1
    Faults,    \* the kinds of fault that may happen
    MaxFaults, \* how many faults may happen in one behaviour
    NoJob      \* the value of a free lock

FaultKinds == {"crash", "publish", "apiDeath", "raise", "lost",
               "lockTTL", "docTTL", "redeliver"}

ASSUME JobsAssumption ==
    /\ Beat \subseteq Jobs
    /\ Gated \subseteq Jobs \ Beat
    /\ Deferred \subseteq Jobs \ Beat
    /\ UpAtStart \subseteq Workers
    /\ KeyOf \in [Jobs -> Keys]
    /\ RetryCap \in Nat
    /\ MaxTry \in [Jobs -> 1 .. RetryCap + 1]
    /\ Faults \subseteq FaultKinds
    /\ MaxFaults \in Nat
    /\ NoJob \notin Jobs

Terminal == {"SUCCESS", "FAILURE", "CANCELED"}
Status == Terminal \cup {"PENDING", "STARTED", "RETRY"}

(* A JobState: its status, its attempt counter and whether enqueue wrote   *)
(* it (max_try, soft_timeout_seconds and max_concurrent taken from the     *)
(* request) or _on_prerun did (all three 0).                               *)
Doc == [status: Status, attempts: Nat, tracked: BOOLEAN]
NoDoc == [status |-> "NONE", attempts |-> 0, tracked |-> FALSE]

Message == [job: Jobs, retries: 0 .. RetryCap, eta: BOOLEAN]
NoMsg == [job |-> NoJob, retries |-> 0, eta |-> FALSE]

(* What a worker process is doing: the hook (or the job body) it runs and  *)
(* the step of the hook, the message it holds, the JobState the hook read  *)
(* and the outcome Celery hands to task_postrun.                           *)
ChildHooks == {"prerun", "body", "retry", "failure", "postrun", "ack"}
ParentHooks == {"lost", "revoked"}
Outcomes == {"SUCCESS", "FAILURE", "RETRY"}
Slot == [hook: {"down", "sweep", "idle"} \cup ChildHooks \cup ParentHooks,
         step: {"get", "save", "publish", "release"},
         msg: Message \cup {NoMsg}, snap: Doc \cup {NoDoc}, outcome: Outcomes]

(* The worker is at a step that uses the message it holds. *)
NeedsMessage(s) ==
    \/ s.hook \in ChildHooks \cup ParentHooks
    \/ s.hook = "sweep" /\ s.step # "get"

VARIABLES
    doc,      \* the JobState documents
    lock,     \* the concurrency locks; the code stores "1", the model the job that took it
    queue,    \* how many copies of a message the broker will deliver
    enq,      \* progress of ClientAgent.enqueue for each job
    due,      \* jobs whose eta has passed
    slot,     \* the worker processes
    revoked,  \* ids each worker process remembers as revoked
    sweepLock,\* the recovery lock
    orphans,  \* the JobStates the running sweep listed and has not handled yet
    cancel,   \* progress of JobCanceller.cancel for each job
    poll,     \* progress of ClientAgent.get for each job, with the JobState read
    expired,  \* ghost: jobs whose document has expired
    dropped,  \* ghost: jobs whose acknowledged message died with its worker
    budget    \* how many more faults may happen

vars == <<doc, lock, queue, enq, due, slot, revoked, sweepLock, orphans,
          cancel, poll, expired, dropped, budget>>
webVars == <<enq, cancel, poll>>
ghosts == <<expired, dropped>>
sweepVars == <<sweepLock, orphans>>

Down == [hook |-> "down", step |-> "get", msg |-> NoMsg, snap |-> NoDoc,
         outcome |-> "SUCCESS"]
Idle == [Down EXCEPT !.hook = "idle"]

TypeOK ==
    /\ doc \in [Jobs -> Doc \cup {NoDoc}]
    /\ lock \in [Keys -> Jobs \cup {NoJob}]
    /\ queue \in [Message -> Nat]
    /\ enq \in [Jobs -> {"new", "locked", "saved", "failing",
                         "done", "refused", "failed", "dead"}]
    /\ due \in SUBSET Jobs
    /\ slot \in [Workers -> Slot]
    /\ \A w \in Workers : NeedsMessage(slot[w]) => slot[w].msg \in Message
    /\ revoked \in [Workers -> SUBSET Jobs]
    /\ sweepLock \in BOOLEAN
    /\ orphans \in [Jobs -> Doc \cup {NoDoc}]
    /\ cancel \in [Jobs -> {"idle", "read", "wait", "over"}]
    /\ poll \in [Jobs -> [at: {"idle", "read", "over"}, snap: Doc \cup {NoDoc}]]
    /\ expired \in SUBSET Jobs
    /\ dropped \in SUBSET Jobs
    /\ budget \in 0 .. MaxFaults

Init ==
    /\ doc = [j \in Jobs |-> NoDoc]
    /\ lock = [k \in Keys |-> NoJob]
    /\ queue = [m \in Message |-> 0]
    /\ enq = [j \in Jobs |-> "new"]
    /\ due = Jobs \ Deferred
    /\ slot = [w \in Workers |-> IF w \in UpAtStart THEN Idle ELSE Down]
    /\ revoked = [w \in Workers |-> {}]
    /\ sweepLock = FALSE
    /\ orphans = [j \in Jobs |-> NoDoc]
    /\ cancel = [j \in Jobs |-> "idle"]
    /\ poll = [j \in Jobs |-> [at |-> "idle", snap |-> NoDoc]]
    /\ expired = {}
    /\ dropped = {}
    /\ budget = MaxFaults

(* A fault of kind f happens. *)
Fault(f) == f \in Faults /\ budget > 0 /\ budget' = budget - 1

Publish(m) == queue' = [queue EXCEPT ![m] = @ + 1]
Fetch(m) == queue[m] > 0 /\ queue' = [queue EXCEPT ![m] = @ - 1]
Release(j) == lock' = [lock EXCEPT ![KeyOf[j]] = NoJob]

(* Mutant: create_job drops the eta. *)
NewMessageNoEta(j) == [job |-> j, retries |-> 0, eta |-> FALSE]

NewMessage(j) == [job |-> j, retries |-> 0, eta |-> j \in Deferred]

-----------------------------------------------------------------------------
(* ClientAgent.enqueue, in a web process *)

AcquireLock(j) ==
    /\ enq[j] = "new" /\ j \notin Beat
    /\ \/ /\ j \notin Gated
          /\ enq' = [enq EXCEPT ![j] = "locked"]
          /\ UNCHANGED lock
       \/ /\ j \in Gated /\ lock[KeyOf[j]] = NoJob
          /\ enq' = [enq EXCEPT ![j] = "locked"]
          /\ lock' = [lock EXCEPT ![KeyOf[j]] = j]
       \/ /\ j \in Gated /\ lock[KeyOf[j]] # NoJob    \* ERROR_JOB_CONCURRENT_LIMIT
          /\ enq' = [enq EXCEPT ![j] = "refused"]
          /\ UNCHANGED lock
    /\ UNCHANGED <<doc, queue, due, slot, revoked, sweepVars, cancel, poll,
                   ghosts, budget>>

(* Mutant: enqueue publishes without having saved the JobState. *)
SavePendingSkipped(j) ==
    /\ enq[j] = "locked"
    /\ enq' = [enq EXCEPT ![j] = "saved"]
    /\ UNCHANGED <<doc, lock, queue, due, slot, revoked, sweepVars, cancel, poll,
                   ghosts, budget>>

SavePending(j) ==
    /\ enq[j] = "locked"
    /\ doc' = [doc EXCEPT ![j] = [status |-> "PENDING", attempts |-> 0, tracked |-> TRUE]]
    /\ enq' = [enq EXCEPT ![j] = "saved"]
    /\ UNCHANGED <<lock, queue, due, slot, revoked, sweepVars, cancel, poll,
                   ghosts, budget>>

CreateJob(j) ==
    /\ enq[j] = "saved"
    /\ Publish(NewMessage(j))
    /\ enq' = [enq EXCEPT ![j] = "done"]
    /\ UNCHANGED <<doc, lock, due, slot, revoked, sweepVars, cancel, poll,
                   ghosts, budget>>

(* Mutant: the except clause of enqueue forgets the lock. *)
EnqueueRaisesKeepsLock(j) ==
    /\ enq[j] \in {"locked", "saved"}
    /\ Fault("publish")
    /\ enq' = [enq EXCEPT ![j] = "failed"]
    /\ UNCHANGED <<doc, lock, queue, due, slot, revoked, sweepVars, cancel, poll,
                   ghosts>>

(* Saving or publishing raised: a gated job still has its lock to give back. *)
EnqueueRaises(j) ==
    /\ enq[j] \in {"locked", "saved"}
    /\ Fault("publish")
    /\ enq' = [enq EXCEPT ![j] = IF j \in Gated THEN "failing" ELSE "failed"]
    /\ UNCHANGED <<doc, lock, queue, due, slot, revoked, sweepVars, cancel, poll,
                   ghosts>>

EnqueueReleases(j) ==
    /\ enq[j] = "failing"
    /\ Release(j)
    /\ enq' = [enq EXCEPT ![j] = "failed"]
    /\ UNCHANGED <<doc, queue, due, slot, revoked, sweepVars, cancel, poll,
                   ghosts, budget>>

EnqueuerDies(j) ==
    /\ enq[j] \in {"locked", "saved", "failing"}
    /\ Fault("apiDeath")
    /\ enq' = [enq EXCEPT ![j] = "dead"]
    /\ UNCHANGED <<doc, lock, queue, due, slot, revoked, sweepVars, cancel, poll,
                   ghosts>>

(* Celery Beat publishes a periodic job straight to the broker. *)
BeatFires(j) ==
    /\ j \in Beat /\ enq[j] = "new"
    /\ Publish(NewMessage(j))
    /\ enq' = [enq EXCEPT ![j] = "done"]
    /\ UNCHANGED <<doc, lock, due, slot, revoked, sweepVars, cancel, poll,
                   ghosts, budget>>

-----------------------------------------------------------------------------
(* Time *)

EtaPasses(j) ==
    /\ j \notin due
    /\ due' = due \cup {j}
    /\ UNCHANGED <<doc, lock, queue, slot, revoked, sweepVars, webVars, ghosts, budget>>

(* soft_timeout_seconds + 60 after enqueue, however long the job queues.   *)
LockExpires(k) ==
    /\ lock[k] # NoJob
    /\ Fault("lockTTL")
    /\ lock' = [lock EXCEPT ![k] = NoJob]
    /\ UNCHANGED <<doc, queue, due, slot, revoked, sweepVars, webVars, ghosts>>

Busy(w) == slot[w].hook \in ChildHooks \cup ParentHooks
HeldBy(j) == {w \in Workers : Busy(w) /\ slot[w].msg.job = j}

(* SOGO_P_AGENT_JOB_STATE_TTL after the last save, which is days: the lock *)
(* of the job has expired long before and no hook of it is running.        *)
DocExpires(j) ==
    /\ doc[j] # NoDoc
    /\ lock[KeyOf[j]] # j
    /\ HeldBy(j) = {}
    /\ j \notin due \/ doc[j].status \in Terminal
    /\ enq[j] \notin {"locked", "saved", "failing"}
    /\ Fault("docTTL")
    /\ doc' = [doc EXCEPT ![j] = NoDoc]
    /\ expired' = expired \cup {j}
    /\ UNCHANGED <<lock, queue, due, slot, revoked, sweepVars, webVars, dropped>>

(* A worker keeps a message with an eta unacknowledged until the eta; past *)
(* the visibility timeout the broker hands out a second copy.              *)
Redelivered(m) ==
    /\ queue[m] > 0 /\ m.eta /\ m.job \notin due
    /\ Fault("redeliver")
    /\ Publish(m)
    /\ UNCHANGED <<doc, lock, due, slot, revoked, sweepVars, webVars, ghosts>>

-----------------------------------------------------------------------------
(* The worker: messages and the job body *)

Take(w, m) ==
    /\ slot[w].hook = "idle"
    /\ m.job \notin revoked[w]
    /\ m.eta => m.job \in due
    /\ Fetch(m)
    /\ slot' = [slot EXCEPT ![w] = [Idle EXCEPT !.hook = "prerun", !.msg = m]]
    /\ UNCHANGED <<doc, lock, due, revoked, sweepVars, webVars, ghosts, budget>>

(* A revoked id is acknowledged and announced instead of executed. *)
TakeRevoked(w, m) ==
    /\ slot[w].hook = "idle"
    /\ m.job \in revoked[w]
    /\ Fetch(m)
    /\ slot' = [slot EXCEPT ![w] = [Idle EXCEPT !.hook = "revoked", !.msg = m]]
    /\ UNCHANGED <<doc, lock, due, revoked, sweepVars, webVars, ghosts, budget>>

BodySucceeds(w) ==
    /\ slot[w].hook = "body"
    /\ slot' = [slot EXCEPT ![w].hook = "postrun", ![w].outcome = "SUCCESS"]
    /\ UNCHANGED <<doc, lock, queue, due, revoked, sweepVars, webVars, ghosts, budget>>

(* autoretry_for: the retry is published (its jittered countdown may be    *)
(* 0), then the task_retry signal is sent.                                 *)
BodyRetries(w) ==
    LET m == slot[w].msg IN
    /\ slot[w].hook = "body"
    /\ m.retries < MaxTry[m.job] - 1
    /\ Fault("raise")
    /\ Publish([m EXCEPT !.retries = @ + 1, !.eta = FALSE])
    /\ slot' = [slot EXCEPT ![w].hook = "retry", ![w].outcome = "RETRY"]
    /\ UNCHANGED <<doc, lock, due, revoked, sweepVars, webVars, ghosts>>

(* max_try exhausted, or an exception that is not in retry_for. *)
BodyFails(w) ==
    /\ slot[w].hook = "body"
    /\ Fault("raise")
    /\ slot' = [slot EXCEPT ![w].hook = "failure", ![w].outcome = "FAILURE"]
    /\ UNCHANGED <<doc, lock, queue, due, revoked, sweepVars, webVars, ghosts>>

(* The child process dies under the body (hard time limit, killed): the    *)
(* parent acknowledges the message and sends task_failure, no postrun.     *)
BodyLost(w) ==
    /\ slot[w].hook = "body"
    /\ Fault("lost")
    /\ slot' = [slot EXCEPT ![w].hook = "lost", ![w].outcome = "FAILURE"]
    /\ UNCHANGED <<doc, lock, queue, due, revoked, sweepVars, webVars, ghosts>>

Ack(w) ==
    /\ slot[w].hook = "ack"
    /\ slot' = [slot EXCEPT ![w] = Idle]
    /\ UNCHANGED <<doc, lock, queue, due, revoked, sweepVars, webVars, ghosts, budget>>

-----------------------------------------------------------------------------
(* The lifecycle hooks: get, save, release *)

(* What the worker does once a hook has returned. *)
AfterHook(h) ==
    CASE h = "prerun" -> "body"
      [] h \in {"retry", "failure"} -> "postrun"
      [] h = "postrun" -> "ack"
      [] OTHER -> "idle"

Returned(s) ==
    IF AfterHook(s.hook) = "idle" THEN Idle
    ELSE [s EXCEPT !.hook = AfterHook(s.hook), !.step = "get", !.snap = NoDoc]

HookReturns(w) == slot' = [slot EXCEPT ![w] = Returned(slot[w])]

OnPrerunGet(w) ==
    LET j == slot[w].msg.job IN
    /\ slot[w].hook = "prerun" /\ slot[w].step = "get"
    /\ slot' = [slot EXCEPT ![w].step = "save",
                            ![w].snap = IF doc[j] # NoDoc THEN doc[j]
                                        ELSE [status |-> "STARTED", attempts |-> 0,
                                              tracked |-> FALSE]]
    /\ UNCHANGED <<doc, lock, queue, due, revoked, sweepVars, webVars, ghosts, budget>>

(* Mutant: _on_prerun counts the attempt and leaves the status. *)
OnPrerunSaveKeepsStatus(w) ==
    LET j == slot[w].msg.job IN
    /\ slot[w].hook = "prerun" /\ slot[w].step = "save"
    /\ doc' = [doc EXCEPT ![j] = [slot[w].snap EXCEPT !.attempts = @ + 1]]
    /\ HookReturns(w)
    /\ UNCHANGED <<lock, queue, due, revoked, sweepVars, webVars, ghosts, budget>>

OnPrerunSave(w) ==
    LET j == slot[w].msg.job IN
    /\ slot[w].hook = "prerun" /\ slot[w].step = "save"
    /\ doc' = [doc EXCEPT ![j] = [slot[w].snap EXCEPT !.status = "STARTED",
                                                      !.attempts = @ + 1]]
    /\ HookReturns(w)
    /\ UNCHANGED <<lock, queue, due, revoked, sweepVars, webVars, ghosts, budget>>

EndHooks == {"retry", "failure", "lost", "revoked", "postrun"}

(* Mutant: the hook's name, not a JobStatus, is written. *)
HookStatusByName(w) ==
    IF slot[w].hook \in {"retry", "failure", "lost"} THEN slot[w].hook ELSE slot[w].outcome

(* Mutant: _on_postrun does not look at the outcome. *)
HookStatusAlwaysSuccess(w) ==
    CASE slot[w].hook = "retry" -> "RETRY"
      [] slot[w].hook \in {"failure", "lost"} -> "FAILURE"
      [] slot[w].hook = "revoked" -> "CANCELED"
      [] OTHER -> "SUCCESS"

(* The status the hook writes. *)
HookStatus(w) ==
    CASE slot[w].hook = "retry" -> "RETRY"
      [] slot[w].hook \in {"failure", "lost"} -> "FAILURE"
      [] slot[w].hook = "revoked" -> "CANCELED"
      [] OTHER -> slot[w].outcome

(* The early returns: no JobState, and task_postrun of a retried attempt. *)
HookIgnores(w) ==
    \/ doc[slot[w].msg.job] = NoDoc
    \/ slot[w].hook = "postrun" /\ slot[w].outcome = "RETRY"

(* Mutant: the hooks take the lock of a retried job to be released already. *)
HasLockFirstAttempt(j, s) == j \in Gated /\ s.tracked /\ s.attempts < 2

(* _release_concurrency_lock acts on state.max_concurrent > 0. *)
HasLock(j, s) == j \in Gated /\ s.tracked

HookGet(w) ==
    /\ slot[w].hook \in EndHooks /\ slot[w].step = "get"
    /\ \/ HookIgnores(w) /\ HookReturns(w)
       \/ /\ ~HookIgnores(w)
          /\ slot' = [slot EXCEPT ![w].step = "save",
                                  ![w].snap = doc[slot[w].msg.job]]
    /\ UNCHANGED <<doc, lock, queue, due, revoked, sweepVars, webVars, ghosts, budget>>

HookSave(w) ==
    LET j == slot[w].msg.job IN
    /\ slot[w].hook \in EndHooks /\ slot[w].step = "save"
    /\ doc' = [doc EXCEPT ![j] = [slot[w].snap EXCEPT !.status = HookStatus(w)]]
    /\ IF slot[w].hook # "retry" /\ HasLock(j, slot[w].snap)
       THEN slot' = [slot EXCEPT ![w].step = "release"]
       ELSE HookReturns(w)
    /\ UNCHANGED <<lock, queue, due, revoked, sweepVars, webVars, ghosts, budget>>

HookRelease(w) ==
    /\ slot[w].hook \in EndHooks /\ slot[w].step = "release"
    /\ Release(slot[w].msg.job)
    /\ HookReturns(w)
    /\ UNCHANGED <<doc, queue, due, revoked, sweepVars, webVars, ghosts, budget>>

-----------------------------------------------------------------------------
(* JobCanceller.cancel, in a web process *)

CancelStart(j) ==
    /\ cancel[j] = "idle" /\ j \in Cancelled
    /\ cancel' = [cancel EXCEPT ![j] =
                    IF doc[j] = NoDoc \/ doc[j].status \in Terminal THEN "over" ELSE "read"]
    /\ UNCHANGED <<doc, lock, queue, due, slot, revoked, sweepVars, enq, poll,
                   ghosts, budget>>

(* Mutant: the revoke reaches only the worker that executes the job. *)
BroadcastToHolder(j) ==
    /\ revoked' = [w \in Workers |-> IF w \in HeldBy(j) THEN revoked[w] \cup {j}
                                     ELSE revoked[w]]
    /\ slot' = [w \in Workers |->
                  IF slot[w].hook \in ChildHooks /\ slot[w].msg.job = j
                  THEN [slot[w] EXCEPT !.hook = "revoked", !.step = "get", !.snap = NoDoc]
                  ELSE slot[w]]

(* The revoke broadcast reaches the running workers; the one executing the *)
(* job kills the child, acknowledges the message and sends task_revoked.   *)
Broadcast(j) ==
    /\ revoked' = [w \in Workers |-> IF slot[w].hook \in {"down", "sweep"}
                                     THEN revoked[w] ELSE revoked[w] \cup {j}]
    /\ slot' = [w \in Workers |->
                  IF slot[w].hook \in ChildHooks /\ slot[w].msg.job = j
                  THEN [slot[w] EXCEPT !.hook = "revoked", !.step = "get", !.snap = NoDoc]
                  ELSE slot[w]]

CancelTerm(j) ==
    /\ cancel[j] = "read"
    /\ Broadcast(j)
    /\ cancel' = [cancel EXCEPT ![j] = "wait"]
    /\ UNCHANGED <<doc, lock, queue, due, sweepVars, enq, poll, ghosts, budget>>

CancelSettled(j) ==
    /\ cancel[j] = "wait"
    /\ doc[j] = NoDoc \/ doc[j].status \in Terminal
    /\ cancel' = [cancel EXCEPT ![j] = "over"]
    /\ UNCHANGED <<doc, lock, queue, due, slot, revoked, sweepVars, enq, poll,
                   ghosts, budget>>

(* The grace period ends: the same broadcast with SIGKILL. *)
CancelKill(j) ==
    /\ cancel[j] = "wait"
    /\ Broadcast(j)
    /\ cancel' = [cancel EXCEPT ![j] = "over"]
    /\ UNCHANGED <<doc, lock, queue, due, sweepVars, enq, poll, ghosts, budget>>

-----------------------------------------------------------------------------
(* ClientAgent.get, in a web process *)

(* A job STARTED for more than twice its soft timeout: the hard limit is   *)
(* soft + 10 s, so no child executes it any more.                          *)
IsZombie(j) == doc[j].status = "STARTED" /\ doc[j].tracked /\ HeldBy(j) = {}

PollGet(j) ==
    /\ poll[j].at = "idle" /\ j \in Polled
    /\ IsZombie(j)
    /\ poll' = [poll EXCEPT ![j] = [at |-> "read", snap |-> doc[j]]]
    /\ UNCHANGED <<doc, lock, queue, due, slot, revoked, sweepVars, enq, cancel,
                   ghosts, budget>>

PollSave(j) ==
    /\ poll[j].at = "read"
    /\ doc' = [doc EXCEPT ![j] = [poll[j].snap EXCEPT !.status = "FAILURE"]]
    /\ poll' = [poll EXCEPT ![j] = [at |-> "over", snap |-> NoDoc]]
    /\ UNCHANGED <<lock, queue, due, slot, revoked, sweepVars, enq, cancel,
                   ghosts, budget>>

-----------------------------------------------------------------------------
(* Worker boot, JobRecovery.reconcile_orphans, worker death *)

(* list_pending and the status test of the sweep. *)
Sweepable(d) == d.status \in {"STARTED", "PENDING"}

Boot(w) ==
    /\ slot[w].hook = "down"
    /\ \/ /\ ~sweepLock
          /\ sweepLock' = TRUE
          /\ orphans' = [j \in Jobs |-> IF Sweepable(doc[j]) THEN doc[j] ELSE NoDoc]
          /\ slot' = [slot EXCEPT ![w] = [Down EXCEPT !.hook = "sweep"]]
       \/ /\ sweepLock
          /\ slot' = [slot EXCEPT ![w] = Idle]
          /\ UNCHANGED sweepVars
    /\ UNCHANGED <<doc, lock, queue, due, revoked, webVars, ghosts, budget>>

Eligible(j) == j \in Resume /\ orphans[j].tracked /\ orphans[j].attempts < MaxTry[j]

SweepResumes(w, j) ==
    /\ slot[w].hook = "sweep" /\ slot[w].step = "get"
    /\ orphans[j] # NoDoc /\ Eligible(j)
    /\ doc' = [doc EXCEPT ![j] = [orphans[j] EXCEPT !.status = "PENDING"]]
    /\ slot' = [slot EXCEPT ![w].step = "publish", ![w].msg = NewMessage(j)]
    /\ UNCHANGED <<lock, queue, due, revoked, sweepVars, webVars, ghosts, budget>>

(* The resumed job is published with no eta. *)
SweepPublishes(w) ==
    LET j == slot[w].msg.job IN
    /\ slot[w].hook = "sweep" /\ slot[w].step = "publish"
    /\ Publish([slot[w].msg EXCEPT !.eta = FALSE])
    /\ orphans' = [orphans EXCEPT ![j] = NoDoc]
    /\ slot' = [slot EXCEPT ![w] = [Down EXCEPT !.hook = "sweep"]]
    /\ UNCHANGED <<doc, lock, due, revoked, sweepLock, webVars, ghosts, budget>>

SweepFails(w, j) ==
    /\ slot[w].hook = "sweep" /\ slot[w].step = "get"
    /\ orphans[j] # NoDoc /\ ~Eligible(j)
    /\ doc' = [doc EXCEPT ![j] = [orphans[j] EXCEPT !.status = "FAILURE"]]
    /\ slot' = [slot EXCEPT ![w].step = "release", ![w].msg = NewMessage(j)]
    /\ UNCHANGED <<lock, queue, due, revoked, sweepVars, webVars, ghosts, budget>>

(* The lock is deleted whether or not the job took it. *)
SweepReleases(w) ==
    LET j == slot[w].msg.job IN
    /\ slot[w].hook = "sweep" /\ slot[w].step = "release"
    /\ Release(j)
    /\ orphans' = [orphans EXCEPT ![j] = NoDoc]
    /\ slot' = [slot EXCEPT ![w] = [Down EXCEPT !.hook = "sweep"]]
    /\ UNCHANGED <<doc, queue, due, revoked, sweepLock, webVars, ghosts, budget>>

SweepEnds(w) ==
    /\ slot[w].hook = "sweep" /\ slot[w].step = "get"
    /\ \A j \in Jobs : orphans[j] = NoDoc
    /\ slot' = [slot EXCEPT ![w] = Idle]
    /\ UNCHANGED <<doc, lock, queue, due, revoked, sweepVars, webVars, ghosts, budget>>

(* The recovery lock outlives the sweep (never deleted, 60 s TTL). *)
SweepLockExpires ==
    /\ sweepLock
    /\ \A w \in Workers : slot[w].hook # "sweep"
    /\ sweepLock' = FALSE
    /\ UNCHANGED <<doc, lock, queue, due, slot, revoked, orphans, webVars, ghosts, budget>>

(* Mutant: without acks_late the message dies with the child. *)
CrashEarlyAck(w) ==
    /\ slot[w].hook # "down"
    /\ Fault("crash")
    /\ slot' = [slot EXCEPT ![w] = Down]
    /\ revoked' = [revoked EXCEPT ![w] = {}]
    /\ orphans' = IF slot[w].hook = "sweep" THEN [j \in Jobs |-> NoDoc] ELSE orphans
    /\ UNCHANGED <<doc, lock, queue, due, sweepLock, webVars, ghosts>>

(* The worker process dies.  The message of a child is still unacknowledged *)
(* and comes back; that of a parent-side hook is gone.                      *)
Crash(w) ==
    /\ slot[w].hook # "down"
    /\ Fault("crash")
    /\ slot' = [slot EXCEPT ![w] = Down]
    /\ revoked' = [revoked EXCEPT ![w] = {}]
    /\ IF slot[w].hook \in ChildHooks THEN Publish(slot[w].msg) ELSE UNCHANGED queue
    /\ dropped' = IF slot[w].hook \in ParentHooks
                  THEN dropped \cup {slot[w].msg.job} ELSE dropped
    /\ orphans' = IF slot[w].hook = "sweep" THEN [j \in Jobs |-> NoDoc] ELSE orphans
    /\ UNCHANGED <<doc, lock, due, sweepLock, webVars, expired>>

-----------------------------------------------------------------------------
WebNext(j) ==
    \/ AcquireLock(j) \/ SavePending(j) \/ CreateJob(j)
    \/ EnqueueRaises(j) \/ EnqueueReleases(j) \/ EnqueuerDies(j)
    \/ BeatFires(j)
    \/ CancelStart(j) \/ CancelTerm(j) \/ CancelSettled(j) \/ CancelKill(j)
    \/ PollGet(j) \/ PollSave(j)

TimeNext ==
    \/ \E j \in Jobs : EtaPasses(j) \/ DocExpires(j)
    \/ \E k \in Keys : LockExpires(k)
    \/ \E m \in Message : Redelivered(m)
    \/ SweepLockExpires

(* The steps a live worker process goes on to take. *)
WorkerStep(w) ==
    \/ \E m \in Message : Take(w, m) \/ TakeRevoked(w, m)
    \/ OnPrerunGet(w) \/ OnPrerunSave(w)
    \/ BodySucceeds(w) \/ BodyRetries(w) \/ BodyFails(w)
    \/ HookGet(w) \/ HookSave(w) \/ HookRelease(w) \/ Ack(w)
    \/ \E j \in Jobs : SweepResumes(w, j) \/ SweepFails(w, j)
    \/ SweepPublishes(w) \/ SweepReleases(w) \/ SweepEnds(w)

Next ==
    \/ \E j \in Jobs : WebNext(j)
    \/ TimeNext
    \/ \E w \in Workers : WorkerStep(w) \/ BodyLost(w) \/ Boot(w) \/ Crash(w)

Spec == Init /\ [][Next]_vars

(* A web request runs to its end, etas pass, a worker that is up goes on,  *)
(* and a supervisor restarts a worker that is down.                        *)
Fairness ==
    /\ \A j \in Jobs : /\ WF_vars(AcquireLock(j) \/ SavePending(j) \/ CreateJob(j))
                       /\ WF_vars(EnqueueReleases(j))
                       /\ WF_vars(BeatFires(j))
                       /\ WF_vars(EtaPasses(j))
    /\ \A w \in Workers : WF_vars(WorkerStep(w)) /\ WF_vars(Boot(w))

FairSpec == Spec /\ Fairness

-----------------------------------------------------------------------------
(* Properties *)

Queued(j) == \E m \in Message : m.job = j /\ queue[m] > 0
InEnqueue(j) == enq[j] \in {"locked", "saved", "failing"}

(* A worker is still going to write the outcome of this job: it holds the  *)
(* message and neither handed the job on (retry) nor finished its hooks.   *)
WillSettle(w, j) ==
    /\ Busy(w) /\ slot[w].msg.job = j
    /\ slot[w].hook \notin {"retry", "ack"}
    /\ slot[w].hook = "postrun" => slot[w].outcome # "RETRY"

Driven(j) == Queued(j) \/ \E w \in Workers : WillSettle(w, j)

(* The JobState hits Redis before the message hits the broker              *)
(* (ClientAgent.enqueue): a worker never finds an enqueued job without its *)
(* JobState, and so never replaces it by one that has lost max_try and     *)
(* max_concurrent, unless the document expired.                            *)
TrackedFromTheStart ==
    \A j \in Jobs \ (Beat \cup expired) :
        /\ Queued(j) => doc[j] # NoDoc
        /\ doc[j] # NoDoc => doc[j].tracked

(* The concurrency lock never outlives its job: while a job owns it, the   *)
(* enqueue is still running or a message or a worker will lead to a hook   *)
(* that deletes it.  Only the death of the enqueuing process, or of a      *)
(* worker inside the task_failure or task_revoked hook of an acknowledged  *)
(* message, leaves a lock to its TTL.                                      *)
LockNotLeaked ==
    \A k \in Keys : lock[k] # NoJob =>
        \/ InEnqueue(lock[k]) \/ enq[lock[k]] = "dead"
        \/ Driven(lock[k])
        \/ lock[k] \in dropped

(* A non-terminal JobState has a message or a worker behind it, so that it *)
(* can still end.                                                          *)
WorkConserved ==
    \A j \in Jobs : doc[j].status \in Status \ Terminal =>
        InEnqueue(j) \/ Driven(j) \/ enq[j] = "dead" \/ j \in dropped

(* JobStatus.STARTED, "picked up, currently executing", is what a client   *)
(* reads as long as the body runs.                                         *)
BodyIsStarted ==
    \A w \in Workers :
        slot[w].hook = "body" => doc[slot[w].msg.job].status = "STARTED"

(* max_concurrent = 1: one job in flight (non-terminal) per scope.         *)
GateExclusive ==
    \A i, j \in Gated :
        /\ KeyOf[i] = KeyOf[j]
        /\ doc[i].status \in Status \ Terminal
        /\ doc[j].status \in Status \ Terminal
        => i = j

(* A job whose state is CANCELED is over for every worker: none executes   *)
(* it, runs a hook of it that could write another status, or picks up a    *)
(* retry or a second delivery of it (the revoke of JobCanceller.cancel     *)
(* reached all of them before task_revoked wrote the status).              *)
CanceledNeverRuns ==
    \A j \in Jobs : doc[j].status = "CANCELED" =>
        \A w \in Workers : slot[w].hook \in ChildHooks => slot[w].msg.job # j

(* The eta of enqueue is the earliest time the job runs.                   *)
EtaRespected ==
    \A w \in Workers : slot[w].hook = "body" => slot[w].msg.job \in due

(* A terminal status marks the end of a job's life: it never changes.      *)
TerminalFinal ==
    [][\A j \in Jobs : doc[j].status \in Terminal => doc'[j].status = doc[j].status]_vars

(* Every job that enqueue accepted reaches a terminal status.              *)
JobEnds == \A j \in Jobs : enq[j] = "done" ~> doc[j].status \in Terminal

(* A concurrency lock is always given back.                                *)
LockFreed == \A k \in Keys : lock[k] # NoJob ~> lock[k] = NoJob
=============================================================================
