------------------------------- MODULE Drafts -------------------------------
(***************************************************************************)
(* The mail in progress: a tmp_draft row (a lock column and the UID of an  *)
(* IMAP draft) per open composition, and the requests of one user that     *)
(* meet on it: auto-save, upload and removal of attachments, opening a     *)
(* stored draft, replying, closing, deleting and sending.                  *)
(*                                                                         *)
(* Every SQL statement and every IMAP command is a step.  The content of a *)
(* draft is the set of the requests whose work is in it: an upload adds    *)
(* itself, a save replaces the text of the save before it.                 *)
(***************************************************************************)
EXTENDS Naturals, FiniteSets

CONSTANTS
    MaxKeys,     \* how many tmp_draft keys may be generated
    MaxRequests, \* how many HTTP requests there are
    Ops,         \* what they ask for
    Faults,      \* the kinds of fault that may happen
    MaxFaults    \* how many of them may happen

Keys == 1 .. MaxKeys         \* in the order in which they are generated
Requests == 1 .. MaxRequests \* in the order in which they arrive
NoUid == 0
MaxUid == MaxRequests + 1    \* a request appends at most one message
FaultKinds == {"imap", "died"}
AllOps == {"save", "save and close", "upload", "unattach", "open", "reply",
           "close", "delete", "send"}
Edits == {"save", "save and close", "upload", "unattach"}
Saves == {"save", "save and close"}

ASSUME DraftAssumption ==
    /\ MaxKeys \in Nat \ {0} /\ MaxRequests \in Nat /\ MaxFaults \in Nat
    /\ Ops \subseteq AllOps /\ Faults \subseteq FaultKinds

VARIABLES
    row,     \* tmp_draft rows, by key
    box,     \* the Drafts folder: content by UID
    nextUid, \* the UID the IMAP server gives next
    req,     \* progress of each request
    acked,   \* ghost: for each key, the work its users were told is saved
    marks    \* ghost: what went wrong for a key

vars == <<row, box, nextUid, req, acked, marks>>

Holding == {"load", "drop", "append", "release", "unlock"}
Ended == {"done", "failed", "dead"}
Steps == {"idle", "wait", "lock", "copy", "insert", "publish", "source", "retry",
          "attach", "fetch", "deliver", "cleanup", "expunge", "row"} \cup Holding \cup Ended
Row == [uid: 0 .. MaxUid, locked: BOOLEAN]

(* uid: the UID it read from the row, or appended; src: the draft it opens; *)
(* body: the content it works on, for a send the attachments of the mail;   *)
(* files: the attachment to remove, for a send what was acknowledged when   *)
(* it began.                                                                *)
Request == [op: AllOps, at: Steps, key: Keys, uid: 0 .. MaxUid, src: 0 .. MaxUid,
            body: SUBSET Requests, files: SUBSET Requests]

TypeOK ==
    /\ DOMAIN row \subseteq Keys /\ \A k \in DOMAIN row : row[k] \in Row
    /\ DOMAIN box \subseteq 1 .. MaxUid /\ \A u \in DOMAIN box : box[u] \subseteq Requests
    /\ nextUid \in 1 .. MaxUid + 1
    /\ req \in [Requests -> Request]
    /\ acked \in [Keys -> SUBSET Requests]
    /\ marks \subseteq Keys \X {"clash", "taken", "imap", "died"}

Without(f, x) == [y \in DOMAIN f \ {x} |-> f[y]]
With(f, x, v) == [y \in DOMAIN f \cup {x} |-> IF y = x THEN v ELSE f[y]]
Mark(k, m) == marks' = marks \cup {<<k, m>>}
Fault(k, m) ==
    /\ m \in Faults /\ <<k, m>> \notin marks
    /\ Cardinality(marks \cap (Keys \X FaultKinds)) < MaxFaults
    /\ Mark(k, m)
Go(r, step) == req' = [req EXCEPT ![r].at = step]
At(r, step) == req[r].at = step
Known(r) == req[r].key \in DOMAIN row
Used == {req[r].key : r \in {r \in Requests : req[r].at # "idle"}}
Fresh(k) == k \notin Used /\ 1 .. k - 1 \subseteq Used
Arrives(r) == At(r, "idle") /\ \A s \in 1 .. r - 1 : ~At(s, "idle")

(* A draft that was stored earlier waits in the folder. *)
Init ==
    /\ row = [k \in {} |-> 0]
    /\ box = [u \in {1} |-> {}]
    /\ nextUid = 2
    /\ req = [r \in Requests |-> [op |-> "save", at |-> "idle", key |-> 1,
                                  uid |-> NoUid, src |-> NoUid, body |-> {}, files |-> {}]]
    /\ acked = [k \in Keys |-> {}]
    /\ marks = {}

Start(r, op, k, step, uid, files) ==
    /\ Arrives(r)
    /\ req' = [req EXCEPT ![r] = [@ EXCEPT !.op = op, !.key = k, !.at = step, !.uid = uid,
                                          !.files = files]]

-----------------------------------------------------------------------------
(* TmpDraftManager.acquire and the edits under the lock *)

(* fetch_row: a locked row refuses a save, an upload waits.  The UID of    *)
(* this row is the one the request will work on.  An attachment somebody   *)
(* is removing no longer counts as acknowledged.                           *)
Acquire(r, op, k, files) ==
    /\ op \in Edits /\ k \in DOMAIN row
    /\ IF op = "unattach" THEN \E s \in Requests : req[s].op = "upload" /\ files = {s}
       ELSE files = {}
    /\ Start(r, op, k, IF ~row[k].locked THEN "lock"
                       ELSE IF op = "upload" THEN "wait" ELSE "failed", row[k].uid, files)
    /\ acked' = [acked EXCEPT ![k] = @ \ files]
    /\ UNCHANGED <<row, box, nextUid, marks>>

(* Without a key: insert_locked. *)
AcquireNew(r, op, k) ==
    /\ op \in Edits \ {"unattach"} /\ Fresh(k)
    /\ Start(r, op, k, "load", NoUid, {})
    /\ row' = With(row, k, [uid |-> NoUid, locked |-> TRUE])
    /\ UNCHANGED <<box, nextUid, acked, marks>>

WaitForUnlock(r) ==
    /\ At(r, "wait") /\ Known(r) /\ ~row[req[r].key].locked
    /\ Go(r, "lock")
    /\ UNCHANGED <<row, box, nextUid, acked, marks>>

(* Mutant: polling without a deadline. *)
WaitForEver(r) == FALSE /\ UNCHANGED vars

WaitTimesOut(r) ==
    /\ At(r, "wait") /\ (Known(r) => row[req[r].key].locked)
    /\ Go(r, "failed")
    /\ UNCHANGED <<row, box, nextUid, acked, marks>>

(* lock_existing does not look at the lock, and the UID is not read again. *)
LockExisting(r) ==
    /\ At(r, "lock")
    /\ LET k == req[r].key IN
       IF Known(r)
       THEN /\ row' = [row EXCEPT ![k].locked = TRUE]
            /\ Go(r, "load")
            /\ IF row[k].locked \/ row[k].uid # req[r].uid THEN Mark(k, "clash")
               ELSE UNCHANGED marks
       ELSE Go(r, "failed") /\ UNCHANGED <<row, marks>>
    /\ UNCHANGED <<box, nextUid, acked>>

Edited(r, body) ==
    CASE req[r].op = "upload" -> body \cup {r}
      [] req[r].op = "unattach" -> body \ req[r].files
      [] OTHER -> {s \in body : req[s].op \notin Saves} \cup {r}

(* fetch_mail_raw and the change.  A message that is gone, or an attachment *)
(* that is not there, is an exception: the row is unlocked.                *)
Load(r) ==
    /\ At(r, "load")
    /\ LET u == req[r].uid
           body == IF u = NoUid THEN {} ELSE box[u]
           bad == \/ u # NoUid /\ u \notin DOMAIN box
                  \/ req[r].op = "unattach" /\ (u = NoUid \/ Edited(r, body) = body)
       IN IF bad THEN Go(r, "unlock")
          ELSE req' = [req EXCEPT ![r] = [@ EXCEPT !.body = Edited(r, body),
                                                  !.at = IF u = NoUid THEN "append" ELSE "drop"]]
    /\ UNCHANGED <<row, box, nextUid, acked, marks>>

(* ClientImap.save_draft deletes the old message, or goes on without, then *)
(* appends the new one.                                                    *)
DropOld(r) ==
    /\ At(r, "drop")
    /\ \/ box' = Without(box, req[r].uid) /\ UNCHANGED marks
       \/ Fault(req[r].key, "imap") /\ UNCHANGED box
    /\ Go(r, "append")
    /\ UNCHANGED <<row, nextUid, acked>>

Append(r) ==
    /\ At(r, "append")
    /\ box' = With(box, nextUid, req[r].body)
    /\ nextUid' = nextUid + 1
    /\ req' = [req EXCEPT ![r] = [@ EXCEPT !.uid = nextUid, !.at = "release"]]
    /\ UNCHANGED <<row, acked, marks>>

(* The server refuses the message, or stores it without telling its UID. *)
AppendFails(r) ==
    /\ At(r, "append") /\ Fault(req[r].key, "imap")
    /\ \/ UNCHANGED <<box, nextUid>>
       \/ box' = With(box, nextUid, req[r].body) /\ nextUid' = nextUid + 1
    /\ Go(r, "unlock")
    /\ UNCHANGED <<row, acked>>

(* Mutant: the exception leaves the row locked. *)
NoUnlock(r) == At(r, "unlock") /\ Go(r, "failed") /\ UNCHANGED <<row, box, nextUid, acked, marks>>

Unlock(r) ==
    /\ At(r, "unlock")
    /\ row' = IF Known(r) THEN [row EXCEPT ![req[r].key].locked = FALSE] ELSE row
    /\ Go(r, "failed")
    /\ UNCHANGED <<box, nextUid, acked, marks>>

(* Mutant: the row is unlocked with the UID it had. *)
ReleaseOldUid(r) ==
    /\ At(r, "release") /\ Known(r)
    /\ row' = [row EXCEPT ![req[r].key].locked = FALSE]
    /\ acked' = [acked EXCEPT ![req[r].key] = Edited(r, @)]
    /\ Go(r, "done")
    /\ UNCHANGED <<box, nextUid, marks>>

(* The answer follows: what the request saved is acknowledged. *)
Release(r) ==
    /\ At(r, "release")
    /\ LET k == req[r].key IN
       IF Known(r)
       THEN /\ row' = [row EXCEPT ![k] = [uid |-> req[r].uid, locked |-> FALSE]]
            /\ acked' = [acked EXCEPT ![k] = IF req[r].op = "unattach" THEN @ ELSE Edited(r, @)]
            /\ Go(r, IF req[r].op = "save and close" THEN "row" ELSE "done")
       ELSE Go(r, "unlock") /\ UNCHANGED <<row, acked>>
    /\ UNCHANGED <<box, nextUid, marks>>

-----------------------------------------------------------------------------
(* reply_mail and open_mail_for_edit: the message is appended first, then  *)
(* the row is made; a draft that was opened is deleted from the folder.    *)

Compose(r, op, k, u) ==
    /\ op \in {"reply", "open"} /\ Fresh(k)
    /\ u \in IF op = "open" THEN DOMAIN box ELSE {NoUid}
    /\ Arrives(r)
    /\ req' = [req EXCEPT ![r] = [@ EXCEPT !.op = op, !.key = k, !.at = "copy", !.src = u]]
    /\ UNCHANGED <<row, box, nextUid, acked, marks>>

Copy(r) ==
    /\ At(r, "copy")
    /\ LET u == req[r].src
           body == IF u = NoUid THEN {} ELSE box[u] IN
       IF u \in DOMAIN box \cup {NoUid}
       THEN /\ box' = With(box, nextUid, body)
            /\ nextUid' = nextUid + 1
            /\ req' = [req EXCEPT ![r] = [@ EXCEPT !.at = "insert", !.uid = nextUid, !.body = body]]
       ELSE Go(r, "failed") /\ UNCHANGED <<box, nextUid>>
    /\ UNCHANGED <<row, acked, marks>>

(* reply: insert_with_headers; open: insert_locked, then release. *)
Insert(r) ==
    /\ At(r, "insert")
    /\ IF req[r].op = "reply"
       THEN /\ row' = With(row, req[r].key, [uid |-> req[r].uid, locked |-> FALSE])
            /\ Go(r, "done")
       ELSE /\ row' = With(row, req[r].key, [uid |-> NoUid, locked |-> TRUE])
            /\ Go(r, "publish")
    /\ UNCHANGED <<box, nextUid, acked, marks>>

Publish(r) ==
    /\ At(r, "publish")
    /\ row' = [row EXCEPT ![req[r].key] = [uid |-> req[r].uid, locked |-> FALSE]]
    /\ acked' = [acked EXCEPT ![req[r].key] = req[r].body]
    /\ Go(r, "source")
    /\ UNCHANGED <<box, nextUid, marks>>

(* The draft that was opened may be the one of another open composition. *)
DeleteSource(r) ==
    /\ At(r, "source")
    /\ \/ /\ box' = Without(box, req[r].src)
          /\ marks' = marks \cup
                {<<req[s].key, "taken">> : s \in {s \in Requests \ {r} : req[s].uid = req[r].src}}
       \/ Fault(req[r].key, "imap") /\ UNCHANGED box
    /\ Go(r, "done")
    /\ UNCHANGED <<row, nextUid, acked>>

-----------------------------------------------------------------------------
(* close_draft, delete_draft_and_tmp and send_mail: the lock is looked at  *)
(* but not taken                                                           *)

Look(r, op, k) ==
    /\ op \in {"close", "delete", "send"} /\ k \in DOMAIN row
    /\ Start(r, op, k, CASE op = "send" -> IF row[k].locked THEN "retry" ELSE "attach"
                         [] row[k].locked -> "failed"
                         [] op = "close" -> "row"
                         [] OTHER -> "expunge",
             row[k].uid, IF op = "send" THEN acked[k] ELSE {})
    /\ UNCHANGED <<row, box, nextUid, acked, marks>>

(* validate_tmp_draft_key once more, half a second later. *)
Retry(r) ==
    /\ At(r, "retry")
    /\ Go(r, IF Known(r) /\ ~row[req[r].key].locked THEN "attach" ELSE "failed")
    /\ UNCHANGED <<row, box, nextUid, acked, marks>>

(* get_attachments_from_tmp_draft reads the row, then the message; any     *)
(* failure is logged and the mail goes out without attachments.            *)
AttachRow(r) ==
    /\ At(r, "attach")
    /\ IF Known(r)
       THEN req' = [req EXCEPT ![r] = [@ EXCEPT !.uid = row[req[r].key].uid, !.at = "fetch"]]
       ELSE Go(r, "deliver")
    /\ UNCHANGED <<row, box, nextUid, acked, marks>>

AttachFetch(r) ==
    /\ At(r, "fetch")
    /\ req' = [req EXCEPT ![r] = [@ EXCEPT !.at = "deliver",
                 !.body = IF req[r].uid \in DOMAIN box
                          THEN {s \in box[req[r].uid] : req[s].op = "upload"} ELSE {}]]
    /\ UNCHANGED <<row, box, nextUid, acked, marks>>

(* delete_tmp_draft reads the row again; the lock is not looked at. *)
Deliver(r) ==
    /\ At(r, "deliver")
    /\ Go(r, "cleanup")
    /\ UNCHANGED <<row, box, nextUid, acked, marks>>

Cleanup(r) ==
    /\ At(r, "cleanup")
    /\ IF Known(r)
       THEN req' = [req EXCEPT ![r] = [@ EXCEPT !.uid = row[req[r].key].uid, !.at = "expunge"]]
       ELSE Go(r, "done")
    /\ UNCHANGED <<row, box, nextUid, acked, marks>>

Expunge(r) ==
    /\ At(r, "expunge")
    /\ \/ box' = Without(box, req[r].uid) /\ UNCHANGED marks
       \/ Fault(req[r].key, "imap") /\ UNCHANGED box
    /\ Go(r, "row")
    /\ UNCHANGED <<row, nextUid, acked>>

(* TmpDraftManager.delete; for a send, a row that is gone is only logged. *)
DeleteRow(r) ==
    /\ At(r, "row")
    /\ Go(r, IF Known(r) \/ req[r].op = "send" THEN "done" ELSE "failed")
    /\ row' = Without(row, req[r].key)
    /\ UNCHANGED <<box, nextUid, acked, marks>>

(* The web process dies: nothing is unlocked. *)
Die(r) ==
    /\ req[r].at \notin Ended \cup {"idle"}
    /\ Fault(req[r].key, "died")
    /\ Go(r, "dead")
    /\ UNCHANGED <<row, box, nextUid, acked>>

Step(r) ==
    \/ WaitForUnlock(r) \/ WaitTimesOut(r) \/ LockExisting(r) \/ Load(r) \/ DropOld(r)
    \/ Append(r) \/ AppendFails(r) \/ Unlock(r) \/ Release(r)
    \/ Copy(r) \/ Insert(r) \/ Publish(r) \/ DeleteSource(r)
    \/ Retry(r) \/ AttachRow(r) \/ AttachFetch(r) \/ Deliver(r) \/ Cleanup(r)
    \/ Expunge(r) \/ DeleteRow(r)

Next == \E r \in Requests :
    \/ Step(r) \/ Die(r)
    \/ \E op \in Ops, k \in Keys :
          \/ AcquireNew(r, op, k) \/ Look(r, op, k)
          \/ \E files \in {{}} \cup {{s} : s \in Requests} : Acquire(r, op, k, files)
          \/ \E u \in DOMAIN box \cup {NoUid} : Compose(r, op, k, u)

Spec == Init /\ [][Next]_vars

(* A web process that lives executes its request. *)
FairSpec == Spec /\ \A r \in Requests : WF_vars(Step(r))

-----------------------------------------------------------------------------
Sound(k) == \A m \in {"clash", "taken", "imap", "died"} : <<k, m>> \notin marks
Removing(k) == \E r \in Requests : req[r].key = k /\ req[r].at = "row"

(* What the answers of save_draft and upload_attachment told the user is   *)
(* saved is in the message the free row points to, whatever other requests *)
(* are doing: unless two requests locked the row at the same time or on an *)
(* outdated UID, the draft was opened a second time, the IMAP server       *)
(* failed, a process died, or the draft is being deleted.                  *)
AckedInDraft ==
    \A k \in DOMAIN row :
        Sound(k) /\ ~row[k].locked /\ ~Removing(k) =>
            row[k].uid \in DOMAIN box /\ acked[k] \subseteq box[row[k].uid]

(* A locked row has a request that will unlock it, although unlock and     *)
(* release ask nobody whose lock it is: unless a process died.             *)
LockHasHolder ==
    \A k \in DOMAIN row :
        row[k].locked /\ <<k, "died">> \notin marks =>
            \E r \in Requests : req[r].key = k /\ req[r].at \in Holding \cup {"publish"}

(* Every request is answered: nobody waits for ever on the lock, not even  *)
(* on one left behind by a dead process.                                   *)
RequestsEnd == \A r \in Requests : (req[r].at # "idle") ~> (req[r].at \in Ended)

(* A mail is sent with every attachment whose upload was acknowledged      *)
(* before the send began (InterfaceApiMailSend.send_mail injects the       *)
(* attachments stored in the IMAP draft).                                  *)
SentWithItsAttachments ==
    \A r \in Requests :
        req[r].op = "send" /\ req[r].at \in {"cleanup", "expunge", "row", "done"} =>
            {s \in req[r].files : req[s].op = "upload"} \subseteq req[r].body

=============================================================================
