# TLA+ models of the SOGo 6 server

SOGo 6 is a groupware server in Python: a Flask web application (mail, calendars,
contacts, administration), a background agent on top of Celery, and Redis, an SQL
database, LDAP, IMAP and SMTP servers around them. Most of `src/app` is
request-scoped: a handler validates, talks to a database or a mail server and
answers. What is hard is where several of these requests, jobs and processes meet
over shared state without transactions: keys in Redis, rows that are read and
written back, mailboxes that are changed one IMAP command at a time, copies of one
event in several calendars. The modules here are about those meetings.

## Inventory

| part | state it keeps | operations | interacts with |
| --- | --- | --- | --- |
| agent (`agent/Agent.py`, `manager/agent/ClientAgent.py`, `agent/jobs/*`) | `JobState` documents, concurrency locks, broker queue, recovery lock (Redis) | enqueue, five lifecycle hooks, cancel, get with its zombie check, boot sweep | every feature that runs in the background |
| job store (`agent/jobs/JobPersistency.py`) | documents with a TTL, three sorted-set indexes | save, get, list by user / pending / schedule, delete | the agent, in web and worker processes |
| agent entrypoints (`agent/run.py`) | beat singleton lock | worker boot, beat with a heartbeat thread | agent |
| mail sending (`interface/mail/InterfaceApiMailSend.py`, `UndoSendJob`, `ScheduleSendJob`) | `undo_send:` entries with a TTL, tmp_draft rows | send now / after an undo window / at a date, undo | agent, SMTP, IMAP |
| drafts (`module/mail/model/TmpDraftManager.py`, `ModuleMail.py`) | tmp_draft rows with a lock column, IMAP drafts | acquire, release, validate, delete | auto-save against send |
| cache client (`manager/cache/ClientRedis.py`) | connection | Redis commands, reconnect and retry once | everything |
| mailboxes (`module/mail/ModuleMail.py`, `manager/mail/ClientImap.py`) | folders and mails (IMAP) | move, copy, delete, spam, expunge, purge; create, rename, delete folders | requests of one user among themselves |
| audit log (`api/v1/admin/ApiAuditLog.py`) | hash chain in a sorted set | append, trim, verify | every administrative request |
| calendar and contact sync (`SyncEngine.py`, `ContactSyncEngine.py`) | tokened lock with a TTL, sync status, events | fetch, apply diff | agent jobs and manual requests |
| sessions, login limiter, password reset | Redis hashes and counters, SQL tokens | create, refresh, revoke; count, block; issue, use | web requests among themselves |
| calendars (`ModuleCalendar.py`, `calendar/source/*`, `calendar/rrule/*`) | master rows, detached occurrences, EXDATEs, a copy per attendee | edit, cancel, split by scope; answer; propagate | organizer against attendee |
| CalDAV (`ModuleCalDAV.py`, `ApiCalDAV.py`) | per-process events, ETags, change counters, tombstones | GET, PUT, DELETE, sync-collection, MKCALENDAR, PROPPATCH | clients, worker threads and processes |
| shared mailboxes (`ModuleSharedMailbox*.py`) | JSON columns of members and roles, notes, assignments | create, update, add, remove, change role, activity; assign | administrators and members |
| snooze, cleanup | SQL rows, Redis keys, files | insert, remove when due, scan | web requests against periodic jobs |
| iMIP (`module/calendar/imip/*`, `InterfaceApiMailMail.py`) | the organizer's event, the attendee's copy, mails | invite, update, cancel by mail; process a mail when it is opened | calendars and mail of two servers |
| resource booking (`ModuleResourceBooking.py`, `ModuleCalendar.py`) | events with a room as an attendee | book, move, cancel, delete, search for conflicts | requests of all users |
| ACLs, free/busy | SQL rows | pure computations over them | mail, CalDAV |
| CRUD of contacts, shares, administration; CardDAV, ActiveSync, JMAP, SCIM; storage; SQL, LDAP, IMAP clients; settings | databases and servers | request-scoped | - |

`PROJECT.json` lists them one by one with what is and is not modelled. The
properties that make the parts correct:

- agent: the state of a job is on record before anyone can execute it; the
  concurrency lock is given back exactly when its job has ended; a job that was
  accepted ends, through crashes and retries; what a client reads is what happens;
  a cancelled job does not run, a deferred one not before its time.
- job store: the indexes agree with the documents, a listing misses nothing that
  was there all the time.
- mail sending: a mail leaves once, is not lost, does not leave when undone in
  time; its draft is kept as long as it is needed.
- drafts: what was acknowledged is in the draft, the row lock has a holder who
  lives, and nobody waits for ever on it.
- mailboxes: no mail is lost between two folders.
- calendars: what was deleted stays deleted, the attendee's copy misses nothing of
  the organizer's, an answer stands only for the time it was given for.
- iMIP: once the mail of the last change was opened, no older mail takes it back.
- resource booking: a room is booked once (it is not: see the findings); one user does
  not book it twice.
- CalDAV: an ETag names one version; who follows the sync tokens has what the server
  has.
- feeds: one run at a time, a completed run leaves the mirror of what it fetched,
  a status "running" has a run.
- sessions and limiter: a revoked session is not served, a user is blocked only for
  failures; audit log: the chain verifies; beat: one scheduler; shared mailboxes:
  the role granted last, nothing left of a mailbox that was deleted.

The behaviours that are hard to test, each at its line, are under `hazards` in
`PROJECT.json`.

## Modules

### AgentJobs

The life of a job. Variables: `doc` (the `JobState` documents: status, attempts,
and `tracked`, whether `enqueue` wrote it with the request's metadata or
`_on_prerun` made it up), `lock` (the concurrency locks; the code stores "1", the
model the job that took it, so that a property can speak of the owner), `queue`
(copies of each message), `slot` (each worker process: hook, step of the hook, message,
the `JobState` the hook read), `revoked` (ids each worker remembers), `sweepLock`
and `orphans` (the boot sweep), `enq`, `cancel`, `poll` (progress of the web
requests), `due` (etas that have passed); `expired` and `dropped` are ghosts and
`budget` counts the faults left.

Every Redis round trip is an action, in the order of the code:

- `ClientAgent.enqueue`: `AcquireLock`, `SavePending`, `CreateJob`, and on an
  exception `EnqueueRaises`, `EnqueueReleases`; the web process may die in between
  (`EnqueuerDies`). Periodic jobs come from Celery Beat (`BeatFires`).
- worker: `Take` or `TakeRevoked`; `OnPrerunGet`, `OnPrerunSave`; the body
  (`BodySucceeds`, `BodyRetries`, `BodyFails`, `BodyLost`); the hooks after it
  (`HookGet`, `HookSave`, `HookRelease`, with the early returns of `HookIgnores`);
  `Ack`.
- `JobCanceller.cancel`: `CancelStart`, `CancelTerm`, `CancelSettled`, `CancelKill`.
- `ClientAgent.get`: `PollGet`, `PollSave`.
- boot: `Boot` (recovery lock and listing), `SweepResumes` and `SweepPublishes`, or
  `SweepFails` and `SweepReleases`, per orphan; `SweepEnds`; `SweepLockExpires`.
- time and loss: `EtaPasses`, `LockExpires`, `DocExpires`, `Redelivered`, `Crash`.

Celery and the broker are external and modelled from how the code configures them:
`task_acks_late` (a message is acknowledged after `task_postrun`),
`task_reject_on_worker_lost=False` (a lost child is acknowledged and reported as a
failure), `task_retry` sent after the retry is published with a jittered countdown
that may be 0, `task_failure` followed by `task_postrun` for a job that raises, one
`task_revoked` per terminated or skipped request, a visibility timeout after which
an unacknowledged message is handed out again. Simplifications: one pool slot per
worker process (several slots are several workers that die together, which single
deaths cover for everything but `revoked`); a broadcast reaches all running workers
in one step; a sweep takes less than the 60 s of its lock; `DocExpires` waits until
nothing of the job is in progress, as a TTL of days does against steps of minutes.
`JobPersistency.save` and the listing at boot are one step each here; JobStore takes
them apart.

### JobStore and JobTable

JobStore is `JobPersistency` one Redis command at a time: `SaveDocument`,
`SaveUserIndex`, `SavePendingIndex`, `SaveScheduleIndex`; `ListIds`, `ListGet`,
`ListPrune`, `ListReturns`; `DeleteGet`, `DeleteDocument`, `DeletePending`,
`DeleteUser`, `DeleteSchedule`; `Expire`. Two statuses suffice, a terminal and a
non-terminal one, since `save` looks at nothing else. (`delete` has no caller in
`src/app` today.)

JobTable is what its users rely on: a table of statuses and the set of unfinished jobs,
changed together by `Save`; documents `Vanish`; left-over ids are dropped. JobStore
implements it (run services) under the mapping that counts a half-finished save as done.
That holds when no two processes write the same job at once and no job is saved after its
document has gone (`Serial`). AgentJobs shows that the hooks of a job can overlap (a late
`_on_retry`, a sweep, a poll), and then the pending index may end up with the status of the
earlier writer; `Serial = FALSE` is in the module for whoever wants to see it.

### MailSend

Sending a mail. Variables: `api`, `answer` (send_mail), `entry` (the `undo_send:`
entries), `phase` (time since the mail was held: window, the two seconds of grace,
late; for a scheduled mail before and after `send_at`), `queue` and `run` (the
delivery jobs), `delivered` (how often SMTP accepted the mail), `draft`, `undo`,
`reply` (cancel_pending_send), ghosts `inTime`, `lapsed`, `failed` (mails whose job ended
in FAILURE), `resumed`, `repeats` (how often the agent put out a message once more).

`send_mail` is `Refuse` or `Compose`, then `ExecuteSend`/`SentBooks`, `Schedule`, or
`StoreEntry`/`EnqueueUndo`. `UndoSendJob.process` is `GetEntry`, `Deliver` or
`DeliverFails`, `JobBooks`, `DeleteEntry`; `ScheduleSendJob.process` is
`DeliverScheduled` or `DeliverFails`; `Ack` ends a job that may still be run again.
`DeliverFails` leaves open whether the SMTP server had taken the mail, and `CacheFails`
is `cache.get` or `cache.delete` raising, the latter with the mail already delivered:
neither is guarded, so the agent retries both. `cancel_pending_send` is `UndoGet`, then
`UndoDeletes` and `UndoCleanup`, or `UndoExpired`. The agent appears as AgentJobs
describes it: at least once, not before the eta, `MaxTry` tries, redelivery after a crash
of the worker (`Crash`) and of a scheduled mail whose eta is further away than the
visibility timeout (`Redelivered`: 6 hours against up to 30 days), no redelivery when only
the child process is lost (`BodyLost`: the message is acknowledged, the job has failed),
resumption without eta by the sweep of a booting worker (`Resumed`).

The `except RequestException` of the undo branch (fall back to an immediate send) is
not an action: with `max_concurrent = 0` nothing under `enqueue` raises that
exception. A broker or cache error is a different one, leaves `send_mail`, and is
`EnqueueRaises`.

### Drafts

The mail in progress. A composition is a `tmp_draft` row (key, UID of the IMAP draft,
lock column), and every auto-save replaces the IMAP draft: append the new version,
delete the old one, write the new UID. Variables: `row`, `box` (the Drafts folder),
`nextUid`, `req` (each request: operation, step, what it has read), ghosts `acked`
and `marks`. The content of a draft is the set of requests whose work is in it, which
is what the properties have to tell apart.

`TmpDraftManager.acquire` is `Acquire` or `AcquireNew`, `WaitForUnlock`,
`WaitTimesOut`, `LockExisting`; it reads the row, polls and then locks without a
condition, so two requests can hold the lock. `save_draft` and `upload_attachment` are
`Load`, `Append` or `AppendFails`, `DropOld`, `Release` or `Unlock`;
`open_mail_for_edit` and `reply_mail` are `Compose`, `Copy`, `Insert`, `Publish`,
`DeleteSource`; a send is `AttachRow`, `AttachFetch`, `Deliver`, `Cleanup`; a delete
`Look`, `Expunge`, `DeleteRow`; `Die` is the loss of the web process. What the
properties exempt is what the missing ownership costs: `clash` (two holders at once),
`taken` (locked on an outdated UID), `imap` and `died`.

### Mailboxes

The folders of an account and the requests on them, one IMAP command per step:
`UidCopy`, `StoreDeleted`, `ExpungeMails`; `ExpungeOne`; `PurgeOne`, `PurgeExpunges`;
`DestroyOne`, `TrashChild`, `TrashFolder`; `CreateFolder`, `RenameFolder`, each request
begun by opening a connection, which makes the default folders that are missing. The
IMAP server is external. A folder has an identity besides its path: a request knows which
folder its mails were in (`box`), and its next SELECT goes by path, so it may meet another
folder that was renamed to that path. RENAME takes the folders below along (`Under`), and
the server refuses it when one of the new paths is taken. Ghosts: `mbAsked` (what users
deleted for good) and `mbStrayed` (mails a command hit that the request was not about: ham
asked of another folder than Junk, another folder under the path; and the mails of a folder
that was deleted instead of moved to the Trash, since its name starts with that of the Trash).

### CalendarEvents

A recurring event with an organizer and an attendee. `master` and `occ` are the rows of both
calendars, `req` the requests: `Begin` reads, a `Commit...` action writes the own calendar,
a `Spread...` action (`CalendarSources.propagate`) the other one, or it fails, which the
code only logs (`SpreadFails`). The writes are functions of the rows of one calendar, named
after `CalendarSourceDb` (`Realign`, `InsertOccurrence`, `GetOrCreate`, `DeleteOccurrence`,
`SplitEvent`) and `RecurrenceScopeProcessor` (`SplitSeries`). `Continued` is the second half
of a split. `Shown` is what a calendar displays. An override of one date comes with the key
of its detached row, which is then updated, or with the key of the master: then a row is
inserted, also for a date that is detached already or deleted, as nothing looks for either
and no index forbids it. Times are numbers, a rule is an interval with UNTIL or COUNT.

The ghost `marks` names for each series what excuses a difference: `stale` (a request wrote
rows that were changed or removed since it read them), `lost` (the second write failed),
`own` (the attendee removed something from the own copy), `moved` (the series was moved, and
its EXDATEs stay behind), `twin` (`SpreadOverride` inserted the attendee's row for a date
beside one that the attendee's own answer had made), `double` (the organizer's calendar got
a second row for one date). A date may be missing only in a series that was stale, lost,
double or the attendee's own, or both moved and with a twin. A deleted date that such an
override names is shown again and leaves the ghost `gone`.

### CalDav

One collection of `ModuleCalDAV`, which lives in the memory of each web process (`davEv`,
`davTomb`, `davCal` by worker; `Restart` empties them). The worker has several threads, so a
PUT takes three steps (`PutCheck`, `TakeNumber`, `PutStore`) and a DELETE four
(`DeleteCheck`, `TakeNumber`, `DeletePop`, `DeleteBuries`); the calendar may be deleted
between them, and a tombstone written after that waits for the next calendar of the name
(`davStray`). The other requests are one step each, and so is `_bump_change_counter`: its
read and its write (`ModuleCalDAV.py:463`) are taken as atomic, without which two PUTs of
one second could get one ETag. Clients are external: they keep their copies with ETags, and
a token (`davView`). `Sync` is the sync-collection report with its limit.

### SharedMailbox

The row of a shared mailbox with its two columns for members and roles (`smRow`), the
notes and assignments (`smItems`), and requests that read and later write
(`ReadMembers`, `WriteMembers`; `CreateItem`, `InsertItem`; `DeleteMailbox`,
`DeleteListed`, `DeleteRowOf`) and may end between two statements (`SmDies`). The ghost
`smLate` names the notes and assignments that were stored after a deletion at work had
listed what there was. The list `member_roles` is kept as one list of roles for each
user: every operation looks for one user in it, and nothing depends on the order of two
users. `CreateMailbox` is the first request, as all others name the mailbox by
the id it generates: a mailbox created later at the same address is another one.

### FeedSync

A run of `SyncEngine` (calendar) or `ContactSyncEngine` (address book): `SyncBegins`,
`TakeLock`, `SetRunning`, `Fetch`, `ReadMetadata`, one `ApplyOne` per entry,
`SyncCompletes` or `SyncFails`, `ReleaseReads`, `ReleaseDeletes`. `SyncFails` writes
FAILURE, or fails at that too (the write goes to the database that may be what failed) and
leaves the status as it is; `RaisesOutside` is an exception before the `try` or in the
release, which leaves the lock to expire. Around it the feed
changes (`FeedEdit`, `FeedRemove`), the lock expires, the worker dies, and a user's
request rewrites the row the status of a calendar is kept in (`UserReads`,
`UserWrites`). A vCard of an address book has a REV and no SEQUENCE.

### Imip

Scheduling by mail between an organizer and an attendee on two servers. Variables:
`imEvent` (the organizer's row), `imCopies` (the rows ever inserted for the UID in the
attendee's calendar), `imMail` (mails that arrived; they stay and may be opened again),
`imWork` (by person and request: what was read), ghosts `imSeen` and `imAnswers`. A row
is its SEQUENCE, its time, whether its first date is excluded, whether it has a rule,
and the attendee's PARTSTAT.

The organizer's change is `EditReads`, `EditWrites` and `SendOrLose` (`_send_imip` is
best effort); a reply is `ReplyReads`, `ReplyWrites`. The attendee opens a mail with
`OpenReads` (`find_by_uid`), then `UpdateCopy`, `InsertCopy` or `CancelCopy`; the answer
is `AnswerReads`, `AnswerWrites`, and `DropCopy` the removal of the own copy. `Edited`
and `Announced` are what a change does to the row and what is mailed of it: of a change of
a single date an event without a rule, with SEQUENCE 0 and the date's own time, which is
`Elsewhere` when the date was moved, and which an attendee's copy takes over while its
SEQUENCE is 0.

### ResourceBooking

Bookings of one room by several users. Variables: `rbRow` (the event of each booking, with
or without the room), `rbWork` (the request of each worker and the calendars it has still to
search), ghosts `rbMet` and `rbChanged`. `_check_resource_conflicts` is one `Search` per
calendar of the owner (`Searched`; not the event's own when it is updated), after
`BeginCreate` or `BeginUpdate` (another time, the room added or taken off, another status)
and before `Store`; `BeginCancel` and `Cancel` are `cancel_booking`, `Delete` is
`delete_event`. `book_resource` builds the event and calls `create_event`; its own
`check_availability` always answers yes. `OwnerBooksOnce` excepts two bookings whose
requests overlapped (the search and the store are not one transaction) and two in one
calendar of which an update changed one: nothing searches that calendar.

### Sessions, LoginLimiter, AuditLog, BeatLock

Small modules over a few Redis keys, one command per step.

- Sessions: `seHash`, `seIndex`; login (`StoreSession`, `IssueVoucher`), a request
  (`ReadSession`, `TouchSession`, `IndexSession`), revocation by key, by user and by
  activity, listing with its clean-up. A request that refreshes a revoked session
  writes a hash with nothing but `last_seen` (`"part"`), which is not a session.
- LoginLimiter: `llCount`, `llExpires`, `llBlock`; `CountFailure` and `SetExpiry` are
  the two commands of `record_failure`.
- AuditLog: `AuditTakesSeq`, `AuditReadsNewest`, `AuditAppends`, `AuditTrims`; `Broken`
  is `verify_chain`.
- BeatLock: `BeatStarts` (SET NX), `BeatRenews` (SET), `BeatStops` (unconditional
  delete), `BeatDies`; a tick may find a renewal overdue.

## Runs

| run | instance | shows |
| --- | --- | --- |
| agent_faults | 1 job with every feature, 2 workers, any 2 faults | `TypeOK`, `TrackedFromTheStart`, `LockNotLeaked` |
| agent_status | 2 gated jobs, 1 periodic, 2 workers, no restart, 2 faults | `BodyIsStarted`, `TerminalFinal` |
| agent_cancel | 1 deferred, cancelled job, 2 tries, 2 workers, raise/redeliver x 2 | `CanceledNeverRuns`, `EtaRespected` |
| agent_live | 2 jobs behind one gate, 1 worker, crash/raise x 2, fairness | `WorkConserved`, `JobEnds`, `LockFreed` |
| send | an immediate mail, or a scheduled one beside one held and undone; 2 workers, any 2 of 10 kinds of fault, fairness | `TypeOK`, `AtMostOnce`, `UndoneInTimeUnsent`, `NotLost`, `DraftKept`, `EventuallySent` |
| drafts | 3 requests of every kind, 2 rows, 1 fault, fairness | `AckedInDraft`, `LockHasHolder`, `RequestsEnd` |
| groupware | CalendarEvents: 3 requests, 2 at once, 3 dates. CalDav: 2 clients (1 follows), 2 workers, 2 events, 3 changes. Mailboxes: 2 mails, 2 requests at once, 3 in all. SharedMailbox: 2 users, 2 requests at once, 4 in all | `MCTypeOK`, `DeletedStaysDeleted`, `AttendeeMissesNothing`, `AnswerIsCurrent`, `EtagIdentifies`, `SyncComplete`, `NoMailLost`, `RoleAsGranted`, `GoneWithMailbox` |
| services | Sessions: 2 sessions, 1 request, 2 revocations. LoginLimiter: threshold 2, 2 checks at once, 5 in all. AuditLog: 2 callers, 4 calls, 2 entries kept. BeatLock: 3 instances, TTL 4. FeedSync: 1 UID, 2 runs, 2 edits. Imip: 1 request per person at once, 2 edits of the series or of one date, 1 answer. ResourceBooking: 1 owner with 2 calendars, 2 bookings, 2 requests, 2 times that do not touch. JobStore: 2 jobs, 3 processes, 4 operations | `RevokedNeverServed`, `BlockedForCause`, `ChainHolds`, `OneBeat`, `SyncExclusive`, `MirrorFresh`, `RunningIsTrue`, `LatestApplied`, `OwnerBooksOnce`, `IndexComplete`, `ListingComplete`, `ImplementsTable` |

groupware and services check components that share no state. `MCGroupware` and `MCServices`
extend them, choose in the initial state which one moves (`part`), and let the others rest:
CalendarEvents without an event, the others in an initial state. A behaviour of the run is a
behaviour of one component, so an invariant of a component holds in the run exactly if it
holds in that component. The VIEW `MovingPart` identifies two states that differ only in the
resting components, which never move and whose initial states are those of the component's
own part. In services the two runs of a synchronisation are symmetric: no definition names
one of them, and no liveness is checked there. So are two revocations, two requests about a
room, two bookings and two of the processes at the store; the configuration gives all of
them the names `y1` and `y2`, so that one swap reduces every component. `ImplementsTable`
speaks of steps and initial states only, and the store rests in an initial state while
another part moves. `MCMailSend` makes a behaviour either the immediate mail or the mails
left to the workers, since neither reads what the other writes.

Four more runs exhibit disagreements between the code and what its comments say; the
`findings` of `PROJECT.json` quote both sides:

- agent_gate_failure (`GateExclusive`): a job that raises deletes its concurrency
  lock twice, in `_on_failure` and in `_on_postrun`; the second deletion hits the
  lock of the next job.
- folder_delete (`DestroyedIsEmpty`): a folder whose name already stands in the Trash
  is deleted for good with its mails. Renaming the children is enough to make that
  name.
- contact_sync (`ChangesApplied`): a contact changed at its source is never updated;
  each run fails at it.
- booking_owners (`RoomBookedOnce`): the check for conflicts searches the calendars of
  the user who books, so that two users book one room for the same time, one after the
  other.

More configurations are kept beside the runs, each with one property that TLC finds
violated; they document what the passing runs exempt or leave out:

| configuration (module) | property | shortest story |
| --- | --- | --- |
| agent_resume_eta (MCAgentJobs) | `EtaRespected` | the sweep of a booting worker publishes a waiting deferred job again without its eta |
| agent_rolling_boot (MCAgentJobs) | `BodyIsStarted` | the same sweep marks a job FAILURE that another worker is executing |
| send_retry_twice (MailSend) | `SentOnce` | the entry cannot be deleted after the delivery: the job is retried, finds it and sends again ("a retry must not double-send") |
| send_undo_race (MailSend) | `CancelledIsUnsent` | an undo in the two seconds of grace is answered "cancelled" while the mail is delivered |
| send_undo_late (MailSend) | `RefusedUndoKeepsMail` | an undo refused as too late still deletes the entry, and the late worker sends nothing |
| drafts_send (Drafts) | `SentWithItsAttachments` | a send whose row is locked or gone leaves without an acknowledged attachment |
| calendar_cancel (CalendarEvents) | `CopiesAgree` | one date is cancelled that has no detached row: the attendee's calendar keeps it |
| calendar_count (CalendarEvents) | `SplitAddsNothing` | a series with COUNT is split: the new one has the whole count again |
| imip_reply (Imip) | `AnswerIsForThisTime` | a REPLY for a series is taken for its event without a look at its SEQUENCE; here an answer for one date is entered as the one for the series |
| imip_reopen (Imip) | `AnswerIsKept` | an invitation is opened again after it was answered: the attendee's own answer is gone |
| imip_exception (Imip) | `ExceptionIsKept` | the mail that cancels a date is opened before an invitation that is not older by SEQUENCE: the date is back |
| imip_series (Imip) | `SeriesIsKept` | the mail about one changed date turns the attendee's series into that one date |
| imip_removed (Imip) | `RemovedStaysAway` | an event is removed by both, and an old invitation is opened: it is back |
| imip_twice (Imip) | `OneCopy` | two openings of one invitation at the same time insert two events |
| booking_updates (ResourceBooking) | `UpdatesAreChecked` | an update moves a booking onto another one in the same calendar, adds the room beside it or confirms it again: that calendar is not searched |

`drafts_types` and `store_types` check the type invariants of Drafts and JobStore on the
instances of their runs.

`BodyIsStarted` and `EtaRespected` also hold in passing runs, under what the violating
configurations take away: no worker boots while jobs are in progress. `AtMostOnce`
counts what makes a second delivery possible, and allows one for each: a worker that died
after the delivery or after publishing a retry, an attempt that was retried although the
mail had left (the server's answer lost, the entry not deleted), a message handed out again
past the visibility timeout, a resumption. Everything else (an undo, an error of the Sent
folder, an `enqueue` that raises after it published, a try that failed before the delivery)
must not lead to one. `NotLost` ends where the job reads FAILURE: a lost child process
loses the mail, with nothing but that status to tell. `TerminalFinal` and
`BodyIsStarted` are checked with one try per job: after a retry, a slow `_on_retry` may
overwrite the status of the next attempt.

Bounds. One job and two workers suffice for everything that concerns a job and its copies
(redelivered, retried, resumed: at most one per fault); two jobs for one that waits for the
other's lock, three for `GateExclusive`, whose shortest violation needs the failing job, its
successor and the intruder. Two faults allow every pair (crash during recovery from a crash,
a second exception that uses up `MaxTry = 2`). For every property under Proofs the theorems
cover all other sizes. Two mails of a kind do not interact, since they share only the
workers. In JobStore two jobs are needed for `ListPrune` to prune one and keep another,
three processes for a listing during two saves; `Limit = 2` is the boundary at which a
listing still has to be complete. In Drafts three requests are two that race for the lock
and one that finds what they left. In CalendarEvents a series of three dates has one before,
at and after a split, and three requests are an edit, an edit of its result, and a third
that overlaps one of them. In CalDav two events make an answer that is cut by the limit, two
workers a store that starts empty. In Mailboxes two requests interleave and a third comes
after, with the second of two mails counting as one. In SharedMailbox four requests are the
creation, a grant, a removal and a write around them; or the creation, a note or an
assignment, and a deletion that is given up and asked for again. In AuditLog retention drops
entries from the third call on, so four calls append to a trimmed log. In BeatLock three
instances are a holder, its successor, and one that takes what the holder deletes. In
FeedSync an entry is added, changed and removed, by runs that overlap and by runs that
follow each other. In Imip two edits are a change and one that follows or undoes it, with
the mails of both in any order, each of the series or of a single date; one request at a
time of each person leaves the races between the persons, and imip_twice has those within
one. In ResourceBooking two bookings suffice for a property about pairs, two requests for
one that overtakes the other, and the two times are one at which both may be and one to
which a booking can be moved while its place is taken. CHECK_DEADLOCK is off throughout:
requests end, queues drain, and then the system rests.

Ghosts. Several invariants exempt what the design cannot promise, and say so in their
comment. Each exemption is a ghost variable that one named event sets (two holders of
a draft lock, a write of an outdated row, an overlap of two `audit()` calls, a renewal
overdue when the beat lock expires), so that everything else about the property is
still claimed. The exempted event itself is a hazard that no property catches; the notes
under `hazards` in `PROJECT.json` say so where that is the case.

Fairness. `AgentJobs!Fairness`: a web request runs to its end, an eta passes, a worker
that is up takes its next step, and a worker that is down is booted again: the
recovery sweep and the redelivery of unacknowledged messages are written for an agent
that something outside the repository restarts. It is weak fairness throughout; no
fault, cancel or poll is ever forced (a body that may raise may also succeed). With it
`JobEnds` needs acks_late: without redelivery a crashed job would never end.
`MailSend!Fairness` has time passing and the workers going on; no web request is
assumed to finish. `Drafts!FairSpec` has each request that lives take its next step
(one WSGI thread runs it without waiting for another): `RequestsEnd` then rests on the
poll limit of `wait_for_unlock`, since nobody has to unlock.

## Proofs

Eight modules, one per family of components. A theorem holds for any sets of jobs, workers,
requests, mails and so on, and any bounds; what it assumes beyond the named assumptions of
the modules (`JobsAssumption`, `StoreAssumption`, ...) stands in its statement. Those give
the constants their types and tell apart names that have to be different. Each proof has
the same shape: the inductive invariant holds initially, one lemma per conjunct goes through
the actions, and the property follows from it. The invariants are stronger than the
properties since a step writes what an earlier step read: they say what the copies in a
request, a hook or a job have to do with what they were read from.

### AgentJobsProofs

| theorem | property | assumes |
| --- | --- | --- |
| `TypeCorrect` | `TypeOK` | - |
| `TrackedCorrect` | `TrackedFromTheStart` | - |
| `LockCorrect` | `LockNotLeaked` | - |
| `CanceledRunsNoMore` | `CanceledNeverRuns` | `WorkersStay`: no worker boots or crashes |
| `EtaIsEarliest` | `EtaRespected` | `[][EtaHeeded]_vars`: no step is a sweep publishing a job ahead of its eta |
| `BodyRunsStarted` | `BodyIsStarted` | `Steady`: `WorkersStay`, no polls, and one worker or one attempt at each job |
| `WorkIsConserved` | `WorkConserved` | `Unopposed`: one worker, and a broker that can be reached |

The first three rest on `IndInv == TypeOK /\ UnknownBefore /\ CopiesTracked /\ LockHolder`:

- `UnknownBefore`: a job whose enqueue has not begun has left no trace (document,
  message, hook, orphan list, poll). Needed because `AcquireLock` brings a job into
  `LockHolder`, and `SavePending` one into `CopiesTracked`.
- `CopiesTracked`: every copy of a `JobState` in a hook, in the sweep or in a poll is
  `tracked`, and nothing refers to a job without a document. Needed because `HookSave`,
  `SweepResumes`, `SweepFails` and `PollSave` write those copies back, and because
  `HasLock` looks at the copy to decide whether to release.
- `LockHolder`: the owner of a lock is a gated job of that key whose document has not
  expired, and it is pursued: its enqueue runs, a message is queued, or a worker will
  still write its outcome; or one of the two deaths named by the property happened.

The other four assume what their runs take away, and the code needs it: agent_resume_eta
violates `EtaRespected` without `EtaHeeded`, agent_rolling_boot violates `BodyIsStarted`
without `WorkersStay`. `EtaHeeded` is about the steps of a behaviour and not about its
constants: crashes, boots, redeliveries and sweeps of jobs that are due stay in. Their
invariants: `Told` (a revocation reaches every worker before its job is marked CANCELED, and
no worker that knows of it is in a hook of a child process for that job), `Ripe` (a message
without an eta and a body are of jobs that are due), `Published`, `OneHolder` and `OneCopy`
(one message, queued or at one worker), `Settled` (a hook that has yet to write finds no
terminal status but its own), `Tended` (an unended `JobState` has someone behind it, also
while the hooks of its worker go on).

### JobStoreProofs

`StoreTypes` and `ListingIsComplete` hold for any interleaving, two writers of one job
included. `ListInv` says that a job a listing has to find is not being written, has its
document, and was found already or is among the ids still to be read. `StoreAssumption` has
no two jobs with one rank (the score in a sorted set, ties broken by the id): the newest
`Limit` ids are then all there are when there are no more.

`IndexesAreComplete` and `StoreImplementsTable` assume `Serial`. `StoreInv` adds to the
types: one writer per job, jobs that are gone stay gone, indexes and reads name known jobs,
and how far each save and deletion has come (`SaveProgress`, `DeleteProgress`). The
refinement follows from it: `Init` maps to `Table!Init`, and one lemma per command maps it
to `Save`, `Vanish`, the dropping of ids, or no step.

### MailSendProofs

`SendTypes`, `SentAtMostOnce`, `UndoInTimeHolds`, `AcceptedIsNotLost`, `DraftIsKept`, from
one `IndInv`: what the request has done agrees with its answer (`Progress`, `Unpublished`);
the messages queued, the jobs at work that have not delivered and the deliveries are
together at most one more than `repeats` (`Counted`, over cardinalities: no part of the
sum is bounded alone); inside
the window no job runs but a resumed one, and after an undo there no job gets further than
the missing entry (`InWindow`, `Stopped`).

### DraftsProofs

`DraftTypes`, `LocksHaveHolders`, `AcknowledgedIsInDraft`. `Counted` bounds the next UID
by what the requests may still append. `Safe` says of every row without one of the exempted
marks that it has one holder or is free with a mail, and where the acknowledged work is: in
the mail of the row, in what the holder loaded, or in the mail it appended.

### ServicesProofs

| theorem | invariant | its core |
| --- | --- | --- |
| `OneBeatAlways` | `BtInv` | the lock lasts longer than the holder's next renewal is away (`LockCoversWait`); the TTL is even and at least 2, as the interval is half of it |
| `BlocksAreForCause` | `LlInv` | the counter holds no more than the failures of the span (`CountIsReal`), a counter without a TTL has someone about to set it (`ExpiryFollows`) |
| `RevokedAreNotServed` | `SeInv` | every live session that no revocation by activity hid is in the index (`IndexedLive`), a revoked hash is never full again (`Gone`), and what requests and revocations have read is not older than that |
| `ChainIsUnbroken` | `AlInv` | without an overlap one call is at work, it links to the newest entry, and retention drops a prefix |
| `RunsExcludeEachOther`, `StatusTellsTheTruth` | `FsInv` | a run at work holds the lock or lost it; a status "running" was written, or read by a user, while a run was going on |
| `MirrorIsFresh` | `MirrorInv` | while no two runs have overlapped: what a run fetched is no newer than the feed, the rows it has still to handle are no newer than that, and the ones it has handled mirror it |
| `LatestIsApplied` (`OneAtATime`) | `ImInv` | no invitation and no copy is newer than the event, and of two with one SEQUENCE the times agree, but for a single date, which has SEQUENCE 0 |

`OneAtATime`: the requests of one person do not overlap, as in the run; imip_twice shows
what happens otherwise.

### GroupwareProofs

- `NothingOutlivesMailbox` (`SmInv`): for each deletion at work, every note and assignment
  is among those it has listed, or of a kind it has still to list, or late (`Covered`): what
  another request stores behind its back is in `smLate`, and one that is given up or asked
  for twice takes nothing from what the other has listed.
- `RolesAreGranted` (`GrantInv`): a user who is exempt from nothing has at most one entry in
  the roles, and one exactly when a member (`OneEntry`); what a request has read passed its
  checks (`ReadOf`), and where the row has changed since, `WriteMembers` exempts the users
  about whom it had. `OneEntry` is what makes an added entry the one that
  `_get_member_role` finds: it returns the first.
- `EtagsIdentify` (`EtagInv`): in one store a number of the change counter is issued once,
  and every version that a server, a copy or a half-done PUT holds carries its number.
- `SyncIsComplete` (`SyncInv`): the token of a follower that missed nothing is of the past,
  and what differs between its copy and the server has a change or a tombstone after it, or
  is between its removal and its tombstone, of which the number is after it.
- `NoMailIsLost` (`MbInv`): every mail that was neither asked nor strayed has a spare: a
  copy that no request has copied and is about to mark (`Spares`), whatever folders are
  renamed meanwhile: identities of folders and UIDs are not used again (`Numbers`), so in the
  folder of a request its UID is still that of its mail, or of none (`Known`).

### CalendarProofs and CopyProofs

`AnswersAreCurrent` rests on `OwnInv == CalTyped /\ Honest /\ Prepared`:
the rows are of their types; an accepted row is for the time that was accepted, and every
deleted date of a series without trouble is among its EXDATEs; a request splits at a date of
the series it read, into a series that does not exist yet.

`AttendeesMissNothing` rests on `CopyInv`: a series that no mark excuses is settled (the
copy has the rule, no more gaps, and every detached row of the organizer), or exactly
one request has written the organizer's rows and not yet the copy, and `ToDo` says, by the
kind of the request, how the copy stands to them. The proofs take any length of the series
and any number of requests at once; the period and the shift are the module's numbers 2 and
1, since all that matters of them is that a moved occurrence falls between two dates.

`DeletionsLast` rests on `CopyInv /\ Buried`: a series without trouble has at most one
detached row for a date, and none for a deleted one.

`BookedOnceByOwner` rests on `RbInv`: a booking in the way of a search at work is in a
calendar that is left to search, or in the one in which the booking is being changed.

### What the proofs found

Two properties that the runs passed turned out not to be invariants. In both cases the
step at which the proof failed gave a behaviour with more requests than the run's bound, TLC
confirmed it with that bound raised, and the model was corrected:

- `NoMailLost` (four requests): a folder renamed to the path of a request's folder brings
  its own mails under the request's UID. The exemption named paths; requests know the
  identity of their folder since, and `mbStrayed` is what they hit in another one.
- `AttendeeMissesNothing` (four and five requests): an override of a detached row that
  another request had removed, and a second row for one date in the copy of a series that is
  moved later. `marks` names both since (`stale`, `twin`).

### Only model-checked

- `TerminalFinal`: with one try per job and without boots and polls, which are the cases in
  which a late hook, a sweep or a poll does overwrite a terminal status.
- `JobEnds`, `LockFreed`, `EventuallySent`, `RequestsEnd`: liveness under fairness
  (ENABLED) is outside the prover's reach.
- `MCTypeOK`: the types with the bounds of the instance. The proof modules prove type
  invariants of their own (`CalTyped`, `DavTyped`, `MbTyped`, `BtTypeOK`, ...), without them.

## Not modelled

Snoozed mails (`ModuleSnooze.py`: two requests may insert two records of one mail; the
server moves nothing, the client restores a mail when its record disappears). Payloads,
results, timestamps and durations, log lines; building and parsing mail,
iCalendar and vCard; the SMTP and HTTP dialogues beyond success or failure; corrupt
Redis values; `max_concurrent > 1` (raises NotImplementedError); the retry of a Redis
command after a connection error in ClientRedis (a hazard of its own). Of the modelled
components: mail templates, Sieve filters and JMAP; shares, reminders, free/busy
and team calendars; the administration of resources and recurring bookings; the list of
invitations; calendar-query filters and principal discovery of
CalDAV; the sorting indexes of the sessions; groups, users and settings of domains.

Most of the 586 implementation files are schemas of settings, routes that validate and
delegate, clients of external servers, format conversion and cryptography of external
libraries. They keep no state that two parties meet over; the parts are marked
`not_modelled` in `PROJECT.json`, each with its reason. Worth modelling next are the
access control engines.

## Plan

Done: AgentJobs, JobStore with JobTable, MailSend, Drafts, Mailboxes, CalendarEvents,
CalDav, SharedMailbox, FeedSync, Sessions, LoginLimiter, AuditLog, BeatLock, Imip,
ResourceBooking, and the proofs of their safety properties, but for `TerminalFinal`.

1. The access control engines as pure operators against a reference definition.
2. ClientRedis' reconnect-and-retry as a fault of AgentJobs (a SET NX answered twice).
