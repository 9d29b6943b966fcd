----------------------------- MODULE FeedSync ------------------------------
(***************************************************************************)
(* The mirror of an external feed: a calendar filled from an ICS or CalDAV *)
(* address (SyncEngine) or an address book filled from CardDAV             *)
(* (ContactSyncEngine).  The feed changes while it is fetched, the lock in *)
(* the cache expires under a long run, runs die and fail part way, and a   *)
(* user's request rewrites the whole row the status is kept in.            *)
(*                                                                         *)
(* An entry's content is the time of the edit that made it; every edit has *)
(* a time of its own, and both hosts are taken to have the same clock.     *)
(***************************************************************************)
EXTENDS Integers, FiniteSets, Functions

CONSTANTS
    FsUids,    \* UIDs of the feed
    FsSyncers, \* processes that run synchronisations
    FsMaxEdits,\* bound: edits of the feed
    FsMaxRows  \* bound: rows at a time

ASSUME FsAssumption ==
    /\ {FsMaxEdits, FsMaxRows} \subseteq Nat
    /\ FsSyncers \cap {"free", "dead"} = {}

VARIABLES
    fsKind,   \* "calendar" or "contacts": which engine runs
    fsFeed,   \* by UID: the entry's edit, 0 when it is not there, and its SEQUENCE
    fsNow,    \* the time: edits so far
    fsRows,   \* the live rows
    fsStatus, \* sync_status in the row of the calendar or book: "running", or any other
    fsLock,   \* sync_lock: the syncer whose run's token it holds, "dead" when that run died, or "free"
    fsRun,    \* by syncer: its run
    fsUser,   \* the status that a user's update of the row has read, or "none"
    fsLost,   \* ghost: syncers whose run lost its lock: it expired, or one that had lost its own deleted it
    fsMixed,  \* ghost: two runs were at work at once
    fsLate,   \* ghost: edits that kept the SEQUENCE and came while a fetched feed was being written
    fsStuck   \* ghost: a run died or could not write its status, or a user's update overlapped a run

fsVars == <<fsKind, fsFeed, fsNow, fsRows, fsStatus, fsLock, fsRun, fsUser,
            fsLost, fsMixed, fsLate, fsStuck>>

NoRun == [pc |-> "idle"]
There(feed, u) == feed[u].edit # 0
RowsOf(u) == {r \in fsRows : r.uid = u}

(* The stretch the lock is meant for. *)
AtWork(s) == fsRun[s].pc \in {"locked", "running", "fetched", "apply"}
Applying == \E s \in FsSyncers : fsRun[s].pc \in {"fetched", "apply"}

FsInit ==
    /\ fsKind \in {"calendar", "contacts"}
    /\ fsFeed = [u \in FsUids |-> [edit |-> 0, seq |-> 0]]
    /\ fsNow = 0 /\ fsRows = {} /\ fsStatus = "ended" /\ fsLock = "free"
    /\ fsRun = [s \in FsSyncers |-> NoRun] /\ fsUser = "none"
    /\ fsLost = {} /\ fsMixed = FALSE /\ fsLate = {} /\ fsStuck = FALSE

-----------------------------------------------------------------------------
(* The owner of the feed edits or removes an entry.  A vCard has a REV,    *)
(* new with each edit, and no SEQUENCE.                                    *)
FeedEdit(u, bump) ==
    /\ fsNow < FsMaxEdits /\ fsNow' = fsNow + 1
    /\ fsKind = "contacts" => bump = 1
    /\ fsFeed' = [fsFeed EXCEPT ![u] = [edit |-> fsNow + 1, seq |-> @.seq + bump]]
    /\ fsLate' = IF bump = 0 /\ Applying THEN fsLate \cup {fsNow + 1} ELSE fsLate
    /\ UNCHANGED <<fsKind, fsRows, fsStatus, fsLock, fsRun, fsUser, fsLost, fsMixed, fsStuck>>

FeedRemove(u) ==
    /\ There(fsFeed, u) /\ fsFeed' = [fsFeed EXCEPT ![u].edit = 0]
    /\ UNCHANGED <<fsKind, fsNow, fsRows, fsStatus, fsLock, fsRun, fsUser,
                   fsLost, fsMixed, fsLate, fsStuck>>

-----------------------------------------------------------------------------
FsGoes(s, run) == fsRun' = [fsRun EXCEPT ![s] = run]
FsEnds(s) == FsGoes(s, NoRun)

(* A job or request starts on the row it has read.  The periodic sweep     *)
(* passes over a calendar whose status says that a run is going on; the    *)
(* interval is taken to have elapsed.  Books have no sweep.                *)
SyncBegins(s, auto) ==
    /\ fsRun[s] = NoRun
    /\ auto => fsKind = "calendar" /\ fsStatus # "running"
    /\ FsGoes(s, [pc |-> "start"])
    /\ fsStuck' = (fsStuck \/ fsUser # "none")
    /\ UNCHANGED <<fsKind, fsFeed, fsNow, fsRows, fsStatus, fsLock, fsUser, fsLost, fsMixed, fsLate>>

(* SET NX; a run that does not get the lock raises before it has written. *)
TakeLock(s) ==
    /\ fsRun[s].pc = "start"
    /\ IF fsLock # "free" THEN FsEnds(s) /\ UNCHANGED <<fsLock, fsMixed>>
       ELSE /\ fsLock' = s /\ FsGoes(s, [fsRun[s] EXCEPT !.pc = "locked"])
            /\ fsMixed' = (fsMixed \/ \E t \in FsSyncers : AtWork(t))
    /\ UNCHANGED <<fsKind, fsFeed, fsNow, fsRows, fsStatus, fsUser, fsLost, fsLate, fsStuck>>

SetRunning(s) ==
    /\ fsRun[s].pc = "locked" /\ fsStatus' = "running"
    /\ FsGoes(s, [fsRun[s] EXCEPT !.pc = "running"])
    /\ UNCHANGED <<fsKind, fsFeed, fsNow, fsRows, fsLock, fsUser, fsLost, fsMixed, fsLate, fsStuck>>

Fetch(s) ==
    /\ fsRun[s].pc = "running"
    /\ FsGoes(s, [pc |-> "fetched", feed |-> fsFeed])
    /\ UNCHANGED <<fsKind, fsFeed, fsNow, fsRows, fsStatus, fsLock, fsUser,
                   fsLost, fsMixed, fsLate, fsStuck>>

(* get_sync_metadata: of several rows with one UID the dictionary keeps one. *)
ReadMetadata(s) ==
    /\ fsRun[s].pc = "fetched"
    /\ \E local \in [{r.uid : r \in fsRows} -> fsRows] :
          /\ \A u \in DOMAIN local : local[u].uid = u
          /\ FsGoes(s, [pc |-> "apply", feed |-> fsRun[s].feed,
                      local |-> local, todo |-> FsUids])
    /\ UNCHANGED <<fsKind, fsFeed, fsNow, fsRows, fsStatus, fsLock, fsUser,
                   fsLost, fsMixed, fsLate, fsStuck>>

-----------------------------------------------------------------------------
IsModifiedBySequence(local, entry) ==
    IF fsKind = "contacts" THEN entry.edit # local.edit ELSE entry.seq > local.seq

(* _is_modified_meta: SEQUENCE first, and LAST-MODIFIED against the time   *)
(* of the row's last write here; _is_modified: another REV.                *)
IsModified(local, entry) ==
    IF fsKind = "contacts" THEN entry.edit # local.edit
    ELSE \/ entry.seq > local.seq
         \/ entry.seq = local.seq /\ entry.edit > local.written

Written(key, u, entry) == [key |-> key, uid |-> u, edit |-> entry.edit, seq |-> entry.seq, written |-> fsNow]

(* What a run does about one UID: insert, update, delete, or nothing.  A   *)
(* row that another run has deleted meanwhile stays deleted.  Every write  *)
(* is followed by _bump_ctag, which writes the run's copy of the row of    *)
(* the calendar, status and all.                                           *)
ApplyOne(s, u) ==
    LET run == fsRun[s]
        known == u \in DOMAIN run.local
        entry == run.feed[u]
        bumps == fsStatus' = "running"
    IN /\ run.pc = "apply" /\ u \in run.todo
       /\ \/ There(run.feed, u) /\ ~known /\ bumps
             /\ \E key \in 1 .. FsMaxRows \ {r.key : r \in fsRows} :
                   /\ \A k \in 1 .. key - 1 : \E r \in fsRows : r.key = k
                   /\ fsRows' = fsRows \cup {Written(key, u, entry)}
          \/ There(run.feed, u) /\ known /\ IsModified(run.local[u], entry) /\ fsKind = "calendar"
             /\ fsRows' = {IF r.key = run.local[u].key THEN Written(r.key, u, entry) ELSE r : r \in fsRows} /\ bumps
          \/ There(run.feed, u) /\ known /\ ~IsModified(run.local[u], entry)
             /\ UNCHANGED <<fsRows, fsStatus>>
          \/ ~There(run.feed, u) /\ known
             /\ fsRows' = {r \in fsRows : r.key # run.local[u].key} /\ bumps
          \/ ~There(run.feed, u) /\ ~known /\ UNCHANGED <<fsRows, fsStatus>>
       /\ FsGoes(s, [run EXCEPT !.todo = @ \ {u}])
       /\ UNCHANGED <<fsKind, fsFeed, fsNow, fsLock, fsUser, fsLost, fsMixed, fsLate, fsStuck>>

(* The rest of a run: its status is written, then the lock is released. *)
SyncCompletes(s) ==
    /\ fsRun[s].pc = "apply" /\ fsRun[s].todo = {}
    /\ fsStatus' = "ended"
    /\ FsGoes(s, [pc |-> "done", feed |-> fsRun[s].feed, fault |-> FALSE])
    /\ UNCHANGED <<fsKind, fsFeed, fsNow, fsRows, fsLock, fsUser, fsLost, fsMixed, fsLate, fsStuck>>

FailureStatusKept == fsStatus

FailureStatus == "ended"

(* The exception path: the fetch fails, a statement fails, or the update   *)
(* of a contact raises because the contact has no db_id.  Writing the      *)
(* status may fail in turn, then it stays as it was.                       *)
SyncFails(s) ==
    LET run == fsRun[s]
        raises == /\ fsKind = "contacts" /\ run.pc = "apply"
                  /\ \E u \in run.todo \cap DOMAIN run.local :
                        There(run.feed, u) /\ IsModified(run.local[u], run.feed[u])
    IN /\ run.pc \in {"running", "fetched", "apply"}
       /\ \/ FsGoes(s, [pc |-> "failed", fault |-> TRUE])
          \/ raises /\ FsGoes(s, [pc |-> "failed", feed |-> run.feed, fault |-> FALSE])
       /\ \/ fsStatus' = FailureStatus /\ UNCHANGED fsStuck
          \/ UNCHANGED fsStatus /\ fsStuck' = TRUE
       /\ UNCHANGED <<fsKind, fsFeed, fsNow, fsRows, fsLock, fsUser, fsLost, fsMixed, fsLate>>

ReleaseReadsNothing(s) ==
    /\ fsRun[s].pc \in {"done", "failed"}
    /\ FsGoes(s, [pc |-> "release", held |-> fsLock = s])
    /\ UNCHANGED <<fsKind, fsFeed, fsNow, fsRows, fsStatus, fsLock, fsUser,
                   fsLost, fsMixed, fsLate, fsStuck>>

(* finally: the token is read, and compared, *)
ReleaseReads(s) ==
    /\ fsRun[s].pc \in {"done", "failed"}
    /\ IF fsLock = s
       THEN FsGoes(s, [pc |-> "release", held |-> fsLock = s]) /\ UNCHANGED fsLost
       ELSE FsEnds(s) /\ fsLost' = fsLost \ {s}
    /\ UNCHANGED <<fsKind, fsFeed, fsNow, fsRows, fsStatus, fsLock, fsUser, fsMixed, fsLate, fsStuck>>

(* and the key deleted, whosever it is by then. *)
ReleaseDeletes(s) ==
    /\ fsRun[s].pc = "release" /\ fsLock' = "free" /\ FsEnds(s)
    /\ fsLost' = (IF fsRun[s].held THEN fsLost \cup {fsLock} ELSE fsLost) \cap (FsSyncers \ {s})
    /\ UNCHANGED <<fsKind, fsFeed, fsNow, fsRows, fsStatus, fsUser, fsMixed, fsLate, fsStuck>>

-----------------------------------------------------------------------------
(* SYNC_LOCK_TTL_SECONDS pass. *)
LockExpires ==
    /\ fsLock # "free" /\ fsLock' = "free" /\ fsLost' = (fsLost \cup {fsLock}) \cap FsSyncers
    /\ UNCHANGED <<fsKind, fsFeed, fsNow, fsRows, fsStatus, fsRun, fsUser, fsMixed, fsLate, fsStuck>>

(* A run ends and leaves its lock to expire. *)
LeavesLock(s) ==
    /\ FsEnds(s)
    /\ fsLock' = IF fsLock = s THEN "dead" ELSE fsLock
    /\ fsLost' = fsLost \ {s}
    /\ UNCHANGED <<fsKind, fsFeed, fsNow, fsRows, fsStatus, fsUser, fsMixed, fsLate>>

RunDies(s) == fsRun[s] # NoRun /\ LeavesLock(s) /\ fsStuck' = TRUE

(* Outside the try: the status "running" is not written, or the cache      *)
(* raises in the release.                                                  *)
RaisesOutside(s) ==
    /\ fsRun[s].pc \in {"locked", "done", "failed", "release"}
    /\ LeavesLock(s) /\ UNCHANGED fsStuck

(* A user's request reads the row, changes a name or a color, and writes   *)
(* every column of it.  Nothing reads the status of a book.                *)
UserReads ==
    /\ fsKind = "calendar" /\ fsUser = "none"
    /\ ~fsStuck  \* bound: the status is then past judging
    /\ fsUser' = fsStatus /\ fsStuck' = \E s \in FsSyncers : fsRun[s] # NoRun
    /\ UNCHANGED <<fsKind, fsFeed, fsNow, fsRows, fsStatus, fsLock, fsRun,
                   fsLost, fsMixed, fsLate>>

UserWrites ==
    /\ fsUser # "none" /\ fsStatus' = fsUser /\ fsUser' = "none"
    /\ UNCHANGED <<fsKind, fsFeed, fsNow, fsRows, fsLock, fsRun, fsLost, fsMixed, fsLate, fsStuck>>

FsNext ==
    \/ \E u \in FsUids : FeedRemove(u) \/ \E bump \in {0, 1} : FeedEdit(u, bump)
    \/ \E s \in FsSyncers :
          \/ fsRun[s] = NoRun /\ \E auto \in BOOLEAN : SyncBegins(s, auto)
          \/ fsRun[s] # NoRun /\
               (\/ TakeLock(s) \/ SetRunning(s) \/ Fetch(s) \/ ReadMetadata(s)
                \/ \E u \in FsUids : ApplyOne(s, u)
                \/ SyncCompletes(s) \/ SyncFails(s) \/ ReleaseReads(s) \/ ReleaseDeletes(s)
                \/ RunDies(s) \/ RaisesOutside(s))
    \/ LockExpires \/ UserReads \/ UserWrites

FsSpec == FsInit /\ [][FsNext]_fsVars

-----------------------------------------------------------------------------
(* Two runs that both still have the lock they took are never at work      *)
(* together: a run whose lock expired does not, when it ends, take away    *)
(* the lock of the run that followed it, unless it expired between the     *)
(* comparison and the deletion.                                            *)
SyncExclusive ==
    \A s, t \in FsSyncers :
        s # t /\ AtWork(s) /\ AtWork(t) => {s, t} \cap fsLost # {}

Mirrored(s, u) ==
    LET entry == fsRun[s].feed[u]
    IN IF entry.edit = 0 THEN RowsOf(u) = {}
       ELSE Cardinality(RowsOf(u)) = 1 /\ \A r \in RowsOf(u) : r.edit = entry.edit

(* A run that completes, its lock not expired, leaves exactly the entries  *)
(* it fetched, whatever died, failed or was removed before it, unless two  *)
(* runs have overlapped; an edit that kept the SEQUENCE may be missed only *)
(* when it was made while an earlier run was writing what it had fetched.  *)
MirrorFresh ==
    \A s \in FsSyncers :
        fsRun[s].pc = "done" /\ s \notin fsLost /\ ~fsMixed =>
            \A u \in FsUids : fsRun[s].feed[u].edit \in fsLate \/ Mirrored(s, u)

(* The status says "running" only while a run is at work, so that the      *)
(* sweep does not pass over the calendar for ever; the exceptions are a    *)
(* run that died, one that failed and could not write that either, and a   *)
(* user's update of the row that overlapped a run.                         *)
RunningIsTrue ==
    fsStatus = "running" => fsStuck \/ \E s \in FsSyncers : AtWork(s)

(* Inserts, updates and deletes are applied by every run that met no       *)
(* fault of the feed's host or of the database ("Inserts new contacts,     *)
(* updates modified ones, and soft-deletes removed ones").                 *)
ChangesApplied ==
    \A s \in FsSyncers : fsRun[s].pc \in {"done", "failed"} =>
        fsRun[s].fault \/ fsMixed \/ s \in fsLost
        \/ \A u \in FsUids : fsRun[s].feed[u].edit \in fsLate \/ Mirrored(s, u)
=============================================================================
