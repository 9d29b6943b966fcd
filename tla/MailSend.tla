------------------------------ MODULE MailSend ------------------------------
(***************************************************************************)
(* Sending a mail: InterfaceApiMailSend.send_mail in a web process, which  *)
(* delivers at once, schedules a ScheduleSendJob, or, with Undo Send, puts *)
(* the mail into a Redis entry and schedules an UndoSendJob that reads the *)
(* entry back; cancel_pending_send, which deletes the entry; and the two   *)
(* jobs in the worker processes.                                           *)
(*                                                                         *)
(* The agent is seen from its clients: a published message is executed at  *)
(* least once, not before its eta, again after an exception up to max_try  *)
(* times, again after the death of a worker, once more when the boot sweep *)
(* of another worker resumes the job, and once more when it waits longer   *)
(* than the visibility timeout; no more once a child process is lost under *)
(* it, since its message is acknowledged then (module AgentJobs).  The     *)
(* time since a mail was held or scheduled is one of three phases.         *)
(***************************************************************************)
EXTENDS Naturals, FiniteSets

CONSTANTS
    Direct,    \* mails sent with neither send_at nor an undo window
    Scheduled, \* mails sent with send_at in the future
    Held,      \* mails sent while SOGO_U_UNDO_SEND_SECONDS > 0
    Undone,    \* held mails whose sender asks to undo
    Workers,   \* worker processes
    MaxTry,    \* max_try of UndoSendRequest and ScheduleSendRequest
    Faults,    \* the kinds of fault that may happen
    MaxFaults, \* how many faults may happen in one behaviour
    NoMail     \* the mail of an idle worker

FaultKinds == {"smtp", "imap", "cache", "publish", "ttl", "preference",
               "crash", "lost", "resume", "redeliver"}

ASSUME MailAssumption ==
    /\ Direct \cap Scheduled = {} /\ Direct \cap Held = {} /\ Scheduled \cap Held = {}
    /\ Undone \subseteq Held
    /\ MaxTry \in Nat \ {0}
    /\ Faults \subseteq FaultKinds
    /\ MaxFaults \in Nat
    /\ NoMail \notin Direct \cup Scheduled \cup Held

Mails == Direct \cup Scheduled \cup Held
Message == [mail: Scheduled \cup Held, retries: 0 .. MaxTry - 1, eta: BOOLEAN]
NoMsg == [mail |-> NoMail, retries |-> 0, eta |-> FALSE]

VARIABLES
    api,       \* progress of send_mail for each mail
    answer,    \* what send_mail answered
    entry,     \* held mails whose undo_send: entry is in Redis
    phase,     \* the time since the mail was held or scheduled
    queue,     \* how many copies of a message the agent will execute
    run,       \* what each worker process executes
    delivered, \* how often the SMTP server accepted the mail
    draft,     \* mails whose tmp_draft row still exists
    undo,      \* progress of cancel_pending_send for each mail
    reply,     \* what cancel_pending_send answered
    inTime,    \* ghost: mails whose entry was deleted by an undo inside the window
    lapsed,    \* ghost: mails whose entry expired
    failed,    \* ghost: mails whose job ended in FAILURE: max_try used up, or its child lost
    resumed,   \* ghost: mails whose job a boot sweep published again
    repeats,   \* ghost: how often the agent put out the mail's message once more, see AtMostOnce
    budget     \* how many more faults may happen

vars == <<api, answer, entry, phase, queue, run, delivered, draft, undo, reply,
          inTime, lapsed, failed, resumed, repeats, budget>>
ghosts == <<lapsed, failed, resumed, repeats>>
apiVars == <<api, answer>>
undoVars == <<undo, reply, inTime>>

IdleRun == [step |-> "idle", msg |-> NoMsg]
Run == [step: {"idle", "get", "smtp", "books", "delete", "ack"}, msg: Message \cup {NoMsg}]

TypeOK ==
    /\ api \in [Mails -> {"new", "composed", "stored", "sent", "over"}]
    /\ answer \in [Mails -> {"none", "refused", "error", "sent", "scheduled", "pending"}]
    /\ entry \subseteq Held
    /\ phase \in [Mails -> {"window", "grace", "late"}]
    /\ queue \in [Message -> Nat]
    /\ run \in [Workers -> Run]
    /\ \A w \in Workers : run[w].step # "idle" => run[w].msg \in Message
    /\ delivered \in [Mails -> Nat]
    /\ draft \subseteq Mails
    /\ undo \in [Mails -> {"idle", "read", "cleanup", "over"}]
    /\ reply \in [Mails -> {"none", "not found", "expired", "cancelled"}]
    /\ inTime \subseteq Held /\ lapsed \subseteq Held
    /\ failed \subseteq Scheduled \cup Held
    /\ resumed \subseteq Scheduled \cup Held
    /\ repeats \in [Mails -> 0 .. MaxFaults]
    /\ budget \in 0 .. MaxFaults

Init ==
    /\ api = [s \in Mails |-> "new"]
    /\ answer = [s \in Mails |-> "none"]
    /\ entry = {}
    /\ phase = [s \in Mails |-> "window"]
    /\ queue = [m \in Message |-> 0]
    /\ run = [w \in Workers |-> IdleRun]
    /\ delivered = [s \in Mails |-> 0]
    /\ draft = Mails
    /\ undo = [s \in Mails |-> "idle"]
    /\ reply = [s \in Mails |-> "none"]
    /\ inTime = {} /\ lapsed = {} /\ failed = {} /\ resumed = {}
    /\ repeats = [s \in Mails |-> 0]
    /\ budget = MaxFaults

Fault(f) == f \in Faults /\ budget > 0 /\ budget' = budget - 1
Publish(m) == queue' = [queue EXCEPT ![m] = @ + 1]
Answer(s, a) == api' = [api EXCEPT ![s] = "over"] /\ answer' = [answer EXCEPT ![s] = a]
Delivered(s) == delivered' = [delivered EXCEPT ![s] = @ + 1]
Queued(s) == \E m \in Message : m.mail = s /\ queue[m] > 0
Executing(s) == \E w \in Workers : run[w].step \notin {"idle", "ack"} /\ run[w].msg.mail = s
RepeatIf(c, s) == repeats' = IF c THEN [repeats EXCEPT ![s] = @ + 1] ELSE repeats

-----------------------------------------------------------------------------
(* send_mail, in a web process *)

(* The tmp_draft key is refused: unknown, another user's, or still locked  *)
(* by an auto-save half a second later; or send_at is malformed or too far *)
(* away.                                                                   *)
Refuse(s) ==
    /\ api[s] = "new"
    /\ Answer(s, "refused")
    /\ UNCHANGED <<entry, phase, queue, run, delivered, draft, undoVars, ghosts, budget>>

Compose(s) ==
    /\ api[s] = "new"
    /\ api' = [api EXCEPT ![s] = "composed"]
    /\ UNCHANGED <<answer, entry, phase, queue, run, delivered, draft, undoVars,
                   ghosts, budget>>

(* _execute_send: the SMTP transaction, then the Sent folder and the draft. *)
ExecuteSend(s) ==
    /\ api[s] = "composed" /\ s \in Direct
    /\ Delivered(s)
    /\ api' = [api EXCEPT ![s] = "sent"]
    /\ UNCHANGED <<answer, entry, phase, queue, run, draft, undoVars, ghosts, budget>>

(* The server refused the mail, or took it and its answer was lost. *)
ExecuteSendFails(s) ==
    /\ api[s] = "composed" /\ s \in Direct
    /\ Fault("smtp")
    /\ Delivered(s) \/ UNCHANGED delivered
    /\ Answer(s, "error")
    /\ UNCHANGED <<entry, phase, queue, run, draft, undoVars, ghosts>>

SentBooks(s) ==
    /\ api[s] = "sent"
    /\ Answer(s, "sent")
    /\ \/ draft' = draft \ {s} /\ UNCHANGED budget
       \/ Fault("imap") /\ UNCHANGED draft
    /\ UNCHANGED <<entry, phase, queue, run, delivered, undoVars, ghosts>>

Schedule(s) ==
    /\ api[s] = "composed" /\ s \in Scheduled
    /\ Publish([mail |-> s, retries |-> 0, eta |-> TRUE])
    /\ Answer(s, "scheduled")
    /\ UNCHANGED <<entry, phase, run, delivered, draft, undoVars, ghosts, budget>>

StoreEntry(s) ==
    /\ api[s] = "composed" /\ s \in Held
    /\ entry' = entry \cup {s}
    /\ api' = [api EXCEPT ![s] = "stored"]
    /\ UNCHANGED <<answer, phase, queue, run, delivered, draft, undoVars, ghosts, budget>>

(* Mutant: send_mail answers with the status of the job. *)
EnqueueUndoJobStatus(s) ==
    /\ api[s] = "stored"
    /\ Publish([mail |-> s, retries |-> 0, eta |-> TRUE])
    /\ Answer(s, "PENDING")
    /\ UNCHANGED <<entry, phase, run, delivered, draft, undoVars, ghosts, budget>>

EnqueueUndo(s) ==
    /\ api[s] = "stored"
    /\ Publish([mail |-> s, retries |-> 0, eta |-> TRUE])
    /\ Answer(s, "pending")
    /\ UNCHANGED <<entry, phase, run, delivered, draft, undoVars, ghosts, budget>>

(* enqueue raises, before or after the broker took the message.  It is not *)
(* a RequestException (the gate is off for both requests), so send_mail    *)
(* catches nothing and a held mail keeps its entry.                        *)
EnqueueRaises(s) ==
    /\ api[s] = IF s \in Scheduled THEN "composed" ELSE "stored"
    /\ Fault("publish")
    /\ \/ Publish([mail |-> s, retries |-> 0, eta |-> TRUE])
       \/ UNCHANGED queue
    /\ Answer(s, "error")
    /\ UNCHANGED <<entry, phase, run, delivered, draft, undoVars, ghosts>>

-----------------------------------------------------------------------------
(* Time *)

(* For a held mail: the undo window, the 2 s that cancel_pending_send adds *)
(* to it, and after; for a scheduled one: before send_at, and after.       *)
TimePasses(s) ==
    /\ api[s] \in {"stored", "over"} /\ s \in Scheduled \cup Held
    /\ phase[s] # "late"
    /\ phase' = [phase EXCEPT ![s] = IF @ = "window" THEN "grace" ELSE "late"]
    /\ UNCHANGED <<apiVars, entry, queue, run, delivered, draft, undoVars, ghosts, budget>>

(* undo_seconds + 300 after the mail was held. *)
EntryExpires(s) ==
    /\ s \in entry /\ phase[s] = "late"
    /\ Fault("ttl")
    /\ entry' = entry \ {s}
    /\ lapsed' = lapsed \cup {s}
    /\ UNCHANGED <<apiVars, phase, queue, run, delivered, draft, undoVars, failed, resumed, repeats>>

(* A worker keeps the message of a scheduled mail unacknowledged until its *)
(* eta, which may be 30 days away: past the visibility timeout (6 hours)   *)
(* the broker hands out a second copy.                                     *)
Redelivered(m) ==
    /\ queue[m] > 0 /\ m.eta
    /\ m.mail \in Scheduled /\ phase[m.mail] = "window"
    /\ Fault("redeliver")
    /\ Publish(m)
    /\ RepeatIf(TRUE, m.mail)
    /\ UNCHANGED <<apiVars, entry, phase, run, delivered, draft, undoVars, lapsed, failed, resumed>>

-----------------------------------------------------------------------------
(* UndoSendJob.process and ScheduleSendJob.process, in a worker process *)

Take(w, m) ==
    /\ run[w].step = "idle"
    /\ queue[m] > 0 /\ (m.eta => phase[m.mail] # "window")
    /\ queue' = [queue EXCEPT ![m] = @ - 1]
    /\ run' = [run EXCEPT ![w] = [step |-> IF m.mail \in Held THEN "get" ELSE "smtp", msg |-> m]]
    /\ UNCHANGED <<apiVars, entry, phase, delivered, draft, undoVars, ghosts, budget>>

(* Mutant: the job trusts its eta and does not re-read the entry. *)
GetEntryTrusting(w) ==
    /\ run[w].step = "get"
    /\ run' = [run EXCEPT ![w].step = "smtp"]
    /\ UNCHANGED <<apiVars, entry, phase, queue, delivered, draft, undoVars, ghosts, budget>>

(* The entry is gone: the job is skipped, now and if the message is handed *)
(* out again before it is acknowledged.                                    *)
GetEntry(w) ==
    /\ run[w].step = "get"
    /\ run' = [run EXCEPT ![w] = IF @.msg.mail \in entry THEN [@ EXCEPT !.step = "smtp"]
                                 ELSE IdleRun]
    /\ UNCHANGED <<apiVars, entry, phase, queue, delivered, draft, undoVars, ghosts, budget>>

Deliver(w) ==
    /\ run[w].step = "smtp" /\ run[w].msg.mail \in Held
    /\ Delivered(run[w].msg.mail)
    /\ run' = [run EXCEPT ![w].step = "books"]
    /\ UNCHANGED <<apiVars, entry, phase, queue, draft, undoVars, ghosts, budget>>

(* ScheduleSendJob has the mail in its payload, keeps no record of the     *)
(* delivery and leaves the draft alone.                                    *)
DeliverScheduled(w) ==
    /\ run[w].step = "smtp" /\ run[w].msg.mail \in Scheduled
    /\ Delivered(run[w].msg.mail)
    /\ run' = [run EXCEPT ![w].step = "ack"]
    /\ UNCHANGED <<apiVars, entry, phase, queue, draft, undoVars, ghosts, budget>>

HasRetry(w) == run[w].msg.retries < MaxTry - 1

(* The job raised, whatever it was (autoretry_for): the agent publishes    *)
(* the retry, or the job has failed; then it acknowledges the message.     *)
Retry(w) ==
    LET m == run[w].msg IN
    /\ IF HasRetry(w)
       THEN Publish([m EXCEPT !.retries = @ + 1, !.eta = FALSE]) /\ UNCHANGED failed
       ELSE failed' = failed \cup {m.mail} /\ UNCHANGED queue
    /\ run' = [run EXCEPT ![w].step = "ack"]

(* Mutant: a failed delivery cleans up like a successful one. *)
DeliverFailsCleansUp(w) ==
    /\ run[w].step = "smtp"
    /\ Fault("smtp")
    /\ Retry(w)
    /\ draft' = draft \ {run[w].msg.mail}
    /\ UNCHANGED <<apiVars, entry, phase, delivered, undoVars, lapsed, resumed, repeats>>

(* Mutant: a failed delivery deletes the entry, the retry finds nothing. *)
DeliverFailsDropsEntry(w) ==
    /\ run[w].step = "smtp"
    /\ Fault("smtp")
    /\ Retry(w)
    /\ entry' = entry \ {run[w].msg.mail}
    /\ UNCHANGED <<apiVars, phase, delivered, draft, undoVars, lapsed, resumed, repeats>>

(* send_mail of the outgoing module raises: the server refused the mail,   *)
(* or took it and its answer was lost.  The entry stays for the retry.     *)
DeliverFails(w) ==
    /\ run[w].step = "smtp"
    /\ Fault("smtp")
    /\ Retry(w)
    /\ \/ UNCHANGED <<delivered, repeats>>
       \/ Delivered(run[w].msg.mail) /\ RepeatIf(HasRetry(w), run[w].msg.mail)
    /\ UNCHANGED <<apiVars, entry, phase, draft, undoVars, lapsed, resumed>>

(* cache.get or cache.delete raises; neither is guarded, so the job is     *)
(* tried again, in the second case with the mail sent and the entry there. *)
CacheFails(w) ==
    /\ run[w].step \in {"get", "delete"}
    /\ Fault("cache")
    /\ Retry(w)
    /\ RepeatIf(run[w].step = "delete" /\ HasRetry(w), run[w].msg.mail)
    /\ UNCHANGED <<apiVars, entry, phase, delivered, draft, undoVars, lapsed, resumed>>

(* Mutant: an error of the Sent folder escapes and the job is retried. *)
JobBooksRaises(w) ==
    LET m == run[w].msg IN
    /\ run[w].step = "books"
    /\ \/ /\ draft' = draft \ {m.mail}
          /\ run' = [run EXCEPT ![w].step = "delete"]
          /\ UNCHANGED <<queue, budget>>
       \/ /\ Fault("imap")
          /\ Publish([m EXCEPT !.eta = FALSE])
          /\ run' = [run EXCEPT ![w] = IdleRun]
          /\ UNCHANGED draft
    /\ UNCHANGED <<apiVars, entry, phase, delivered, undoVars, ghosts>>

(* The Sent folder and the draft, best effort. *)
JobBooks(w) ==
    /\ run[w].step = "books"
    /\ \/ draft' = draft \ {run[w].msg.mail} /\ UNCHANGED budget
       \/ Fault("imap") /\ UNCHANGED draft
    /\ run' = [run EXCEPT ![w].step = "delete"]
    /\ UNCHANGED <<apiVars, entry, phase, queue, delivered, undoVars, ghosts>>

(* A message that is handed out again from here on finds no entry. *)
DeleteEntry(w) ==
    /\ run[w].step = "delete"
    /\ entry' = entry \ {run[w].msg.mail}
    /\ run' = [run EXCEPT ![w] = IdleRun]
    /\ UNCHANGED <<apiVars, phase, queue, delivered, draft, undoVars, ghosts, budget>>

Ack(w) ==
    /\ run[w].step = "ack"
    /\ run' = [run EXCEPT ![w] = IdleRun]
    /\ UNCHANGED <<apiVars, entry, phase, queue, delivered, draft, undoVars, ghosts, budget>>

(* The worker dies; its message was not acknowledged and comes back, after *)
(* a delivery or a published retry as one more.                            *)
Crash(w) ==
    /\ run[w].step # "idle"
    /\ Fault("crash")
    /\ Publish(run[w].msg)
    /\ run' = [run EXCEPT ![w] = IdleRun]
    /\ RepeatIf(run[w].step \in {"books", "delete", "ack"}, run[w].msg.mail)
    /\ UNCHANGED <<apiVars, entry, phase, delivered, draft, undoVars, lapsed, failed, resumed>>

(* Only the child process is lost (killed, hard time limit): the worker    *)
(* acknowledges the message and the job has failed, not to be run again.   *)
BodyLost(w) ==
    /\ run[w].step \notin {"idle", "ack"}
    /\ Fault("lost")
    /\ failed' = failed \cup {run[w].msg.mail}
    /\ run' = [run EXCEPT ![w] = IdleRun]
    /\ UNCHANGED <<apiVars, entry, phase, queue, delivered, draft, undoVars, lapsed, resumed, repeats>>

(* A worker boots and its sweep publishes the unfinished job again.        *)
Resumed(s) ==
    /\ Queued(s) \/ Executing(s)
    /\ Fault("resume")
    /\ Publish([mail |-> s, retries |-> 0, eta |-> FALSE])
    /\ resumed' = resumed \cup {s}
    /\ RepeatIf(TRUE, s)
    /\ UNCHANGED <<apiVars, entry, phase, run, delivered, draft, undoVars, lapsed, failed>>

-----------------------------------------------------------------------------
(* cancel_pending_send, in a web process *)

UndoGet(s) ==
    /\ undo[s] = "idle" /\ s \in Undone /\ answer[s] = "pending"
    /\ \/ s \in entry /\ undo' = [undo EXCEPT ![s] = "read"] /\ UNCHANGED reply
       \/ /\ s \notin entry
          /\ undo' = [undo EXCEPT ![s] = "over"]
          /\ reply' = [reply EXCEPT ![s] = "not found"]
    /\ UNCHANGED <<apiVars, entry, phase, queue, run, delivered, draft, inTime,
                   ghosts, budget>>

(* Inside the window and its 2 s of grace; or later, when the user has     *)
(* switched Undo Send off in the meantime.                                 *)
UndoDeletes(s) ==
    /\ undo[s] = "read"
    /\ \/ phase[s] # "late" /\ UNCHANGED budget
       \/ phase[s] = "late" /\ Fault("preference")
    /\ entry' = entry \ {s}
    /\ undo' = [undo EXCEPT ![s] = "cleanup"]
    /\ inTime' = IF phase[s] = "window" THEN inTime \cup {s} ELSE inTime
    /\ UNCHANGED <<apiVars, phase, queue, run, delivered, draft, reply, ghosts>>

(* Too late: the entry is deleted all the same. *)
UndoExpired(s) ==
    /\ undo[s] = "read" /\ phase[s] = "late"
    /\ entry' = entry \ {s}
    /\ undo' = [undo EXCEPT ![s] = "over"]
    /\ reply' = [reply EXCEPT ![s] = "expired"]
    /\ UNCHANGED <<apiVars, phase, queue, run, delivered, draft, inTime, ghosts, budget>>

UndoCleanup(s) ==
    /\ undo[s] = "cleanup"
    /\ \/ draft' = draft \ {s} /\ UNCHANGED budget
       \/ Fault("imap") /\ UNCHANGED draft
    /\ undo' = [undo EXCEPT ![s] = "over"]
    /\ reply' = [reply EXCEPT ![s] = "cancelled"]
    /\ UNCHANGED <<apiVars, entry, phase, queue, run, delivered, inTime, ghosts>>

-----------------------------------------------------------------------------
WebStep(s) ==
    \/ Compose(s) \/ Refuse(s)
    \/ ExecuteSend(s) \/ SentBooks(s) \/ Schedule(s) \/ StoreEntry(s) \/ EnqueueUndo(s)

WorkerStep(w) ==
    \/ \E m \in Message : Take(w, m)
    \/ GetEntry(w) \/ Deliver(w) \/ DeliverScheduled(w) \/ DeliverFails(w)
    \/ CacheFails(w) \/ JobBooks(w) \/ DeleteEntry(w) \/ Ack(w)

Next ==
    \/ \E s \in Mails :
        \/ WebStep(s) \/ ExecuteSendFails(s) \/ EnqueueRaises(s)
        \/ TimePasses(s) \/ EntryExpires(s) \/ Resumed(s)
        \/ UndoGet(s) \/ UndoDeletes(s) \/ UndoExpired(s) \/ UndoCleanup(s)
    \/ \E m \in Message : Redelivered(m)
    \/ \E w \in Workers : WorkerStep(w) \/ Crash(w) \/ BodyLost(w)

Spec == Init /\ [][Next]_vars

(* Time passes, and a worker process goes on while there is something to do. *)
Fairness ==
    /\ \A s \in Mails : WF_vars(TimePasses(s))
    /\ \A w \in Workers : WF_vars(WorkerStep(w))

FairSpec == Spec /\ Fairness

-----------------------------------------------------------------------------
(* Properties *)

Accepted(s) == answer[s] \in {"pending", "scheduled"}

(* Nobody is left to deliver the mail and that is known: the sender undid  *)
(* it or tried to too late, its entry expired, or its job reads FAILURE.   *)
GivenUp(s) ==
    undo[s] = "cleanup" \/ reply[s] \in {"expired", "cancelled"} \/ s \in lapsed \cup failed

(* The mail leaves at most once, whatever retries, failed bookkeeping or   *)
(* failed enqueues there are, and once more at most for each of these: a   *)
(* worker that died after the delivery or after publishing the retry, an   *)
(* attempt retried because it raised after the delivery (the server's      *)
(* answer lost, the entry not deleted), a message past the visibility      *)
(* timeout, a job resumed by a sweep.                                      *)
AtMostOnce == \A s \in Mails : delivered[s] <= 1 + repeats[s]

(* An undo that deleted the entry inside the window prevents the delivery, *)
(* unless a sweep resumed the job: it does so without its eta.             *)
UndoneInTimeUnsent == \A s \in inTime \ resumed : delivered[s] = 0

(* A mail that send_mail answered "pending" or "scheduled" for is not      *)
(* lost: until it is delivered, the job exists and, for a held mail, so    *)
(* does the entry the job needs.                                           *)
NotLost ==
    \A s \in Mails : Accepted(s) /\ delivered[s] = 0 /\ ~GivenUp(s) =>
        (Queued(s) \/ Executing(s)) /\ (s \in Held => s \in entry)

(* The draft of a mail that was neither delivered nor undone is kept.      *)
DraftKept ==
    \A s \in Mails : s \in draft \/ delivered[s] > 0 \/ reply[s] = "cancelled"

(* An accepted mail is delivered in the end, unless given up.              *)
EventuallySent == \A s \in Mails : Accepted(s) ~> delivered[s] > 0 \/ GivenUp(s)

(* UndoSendJob: "Delete the pending entry - a retry must not double-send." *)
SentOnce == \A s \in Mails : delivered[s] <= 1

(* cancel_pending_send: "Removes the pending email from Redis so it will   *)
(* never be sent."                                                         *)
CancelledIsUnsent == \A s \in Mails : reply[s] = "cancelled" => delivered[s] = 0

(* "The cancel endpoint enforces the real window": an undo refused because *)
(* the window is over does not stop the mail from being delivered.         *)
RefusedUndoKeepsMail ==
    \A s \in Mails : reply[s] = "expired" =>
        delivered[s] > 0 \/ s \in entry \cup lapsed \cup failed
=============================================================================
