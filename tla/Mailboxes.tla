----------------------------- MODULE Mailboxes -----------------------------
(***************************************************************************)
(* The folders of a mailbox and the mails in them: what ModuleMail and     *)
(* ClientImap do for the requests that move, copy, delete, purge and       *)
(* expunge mails and that create, rename and delete folders.  Each request *)
(* opens its own IMAP connection and issues several commands, so that two  *)
(* requests of one user interleave.                                        *)
(*                                                                         *)
(* The IMAP server is external: UIDs are numbers of one folder, a selected *)
(* folder is followed through a rename, a rename takes the folders below   *)
(* along and makes the ones above.  A path is the sequence of its names.   *)
(* Of the flags only \Deleted matters.                                     *)
(***************************************************************************)
EXTENDS Integers, Sequences, FiniteSets, SequencesExt, Functions

CONSTANTS
    MbMails,       \* the mails, whatever copies there are of them
    MbRequests,    \* requests at work at the same time
    MbMaxRequests, \* bound: requests in all; one less for each mail but the first
    MbSlips        \* whether ham is asked of other folders than Junk

Inbox == <<"INBOX">>
Junk == <<"Junk">>
Trash == <<"Trash">>
MbDefaults == {Inbox, Junk, Trash}
Work == <<"A">>
Sub == <<"A", "B">>
TrashOld == <<"TrashOld">>

ASSUME MbAssumption ==
    IsFiniteSet(MbMails) /\ MbMails # {} /\ MbMaxRequests \in Nat /\ MbSlips \in BOOLEAN

VARIABLES
    mbBox,     \* by path: the folder, its identity, UIDs and mails
    mbReq,     \* by request: what it has still to do
    mbCount,   \* requests so far, and the mails but the first
    mbIds,     \* numbers the commands that make folders
    mbAsked,   \* ghost: mails the user asked to be deleted for good
    mbStrayed  \* ghost: mails a command met that the request was not about

mbVars == <<mbBox, mbReq, mbCount, mbIds, mbAsked, mbStrayed>>

NoReq == [op |-> "none"]
Paths == DOMAIN mbBox
MailsIn(S) == UNION {{mbBox[p].mails[u].mail : u \in DOMAIN mbBox[p].mails} : p \in S}
NewFolder(id) == [id |-> id, next |-> 1, mails |-> << >>]
With(f, m) == [id |-> f.id, next |-> f.next + 1,
               mails |-> [u \in DOMAIN f.mails \cup {f.next} |->
                            IF u = f.next THEN [mail |-> m, del |-> FALSE] ELSE f.mails[u]]]

(* One mail or all of them, each in the Inbox, in A or in A/B. *)
MbInit ==
    /\ \E S \in {MbMails, {CHOOSE m \in MbMails : TRUE}} : \E at \in [S -> {Inbox, Work, Sub}] :
         LET in(p) == SetToSeq({m \in S : at[m] = p})
         IN /\ mbBox = [p \in MbDefaults \cup {Work, Sub} |->
                          [id |-> <<p, 0>>, next |-> Len(in(p)) + 1,
                           mails |-> [u \in 1 .. Len(in(p)) |-> [mail |-> in(p)[u], del |-> FALSE]]]]
            /\ mbCount = Cardinality(S) - 1
    /\ mbReq = [r \in MbRequests |-> NoReq]
    /\ mbIds = 1 /\ mbAsked = MbMails \ MailsIn(Paths) /\ mbStrayed = {}

-----------------------------------------------------------------------------
(* The commands of the IMAP server. *)

Below(p) == {q \in Paths : IsStrictPrefix(p, q)}
Above(p) == {SubSeq(p, 1, i) : i \in 1 .. Len(p) - 1}

(* A folder is added for each path of S. *)
Made(box, S) ==
    /\ mbBox' = [p \in DOMAIN box \cup S |->
                    IF p \in DOMAIN box THEN box[p] ELSE NewFolder(<<p, mbIds>>)]
    /\ mbIds' = IF DOMAIN box \cup S \subseteq Paths THEN mbIds ELSE mbIds + 1

(* Where x, which is p or below it, is once p is called q. *)
Under(q, p, x) == q \o SubSeq(x, Len(p) + 1, Len(x))

(* RENAME; the mails of the Inbox move, the Inbox stays. *)
Renamed(p, q) ==
    LET moved == {p} \cup Below(p)
        to(x) == Under(q, p, x)
    IN IF p = Inbox
       THEN Made([x \in Paths \cup {q} |->
                    IF x = q THEN [mbBox[p] EXCEPT !.id = <<q, mbIds>>]
                    ELSE IF x = p THEN [mbBox[p] EXCEPT !.mails = << >>] ELSE mbBox[x]],
                 Above(q))
       ELSE Made([y \in (Paths \ moved) \cup {to(x) : x \in moved} |->
                    IF y \in Paths \ moved THEN mbBox[y]
                    ELSE mbBox[CHOOSE x \in moved : to(x) = y]],
                 Above(q))

CanRename(p, q) ==
    /\ p \in Paths /\ ~IsPrefix(p, q)
    /\ \A x \in {p} \cup Below(p) : Under(q, p, x) \notin Paths

Marked(p, U) ==
    LET m == mbBox[p].mails
    IN [mbBox[p] EXCEPT !.mails = [u \in DOMAIN m |-> [m[u] EXCEPT !.del = @ \/ u \in U]]]
Expunged(p, U) == [mbBox[p] EXCEPT !.mails =
                     Restrict(@, {u \in DOMAIN @ : ~(@[u].del /\ u \in U)})]

-----------------------------------------------------------------------------
(* Requests *)

(* The connection is opened: login makes the default folders that are      *)
(* missing (ensure_default_folders).                                       *)
Login == Made(mbBox, MbDefaults \ Paths)

MbBegin(r, req) ==
    /\ mbReq[r] = NoReq /\ mbCount < MbMaxRequests
    /\ mbCount' = mbCount + 1
    /\ mbReq' = [mbReq EXCEPT ![r] = req]
    /\ Login
Goes(r, req) == mbReq' = [mbReq EXCEPT ![r] = req] /\ UNCHANGED mbCount
Ends(r) == Goes(r, NoReq)
Fails(r) == Ends(r) /\ UNCHANGED <<mbBox, mbIds, mbAsked, mbStrayed>>

(* A request about one mail: delete_mails with the user's preference for   *)
(* the Trash and for expunging, move_mails, and the actions on one mail.   *)
MailRequest(r, op, p, u, dest, trash, expunge) ==
    /\ MbBegin(r, [op |-> op, at |-> IF op = "delete" /\ ~trash THEN "store" ELSE "copy",
                 from |-> IF op = "ham" THEN Junk ELSE p, path |-> p, dest |-> dest, uid |-> u,
                 mail |-> mbBox[p].mails[u].mail, box |-> mbBox[p].id, sel |-> << >>, expunge |-> expunge])
    /\ mbAsked' = IF op = "delete" /\ ~trash THEN mbAsked \cup {mbBox[p].mails[u].mail} ELSE mbAsked
    /\ UNCHANGED mbStrayed

DeleteMails(r, p, u) ==
    \E trash, expunge \in BOOLEAN : MailRequest(r, "delete", p, u, Trash, trash, expunge)
MoveMails(r, p, u, dest) == MailRequest(r, "move", p, u, dest, FALSE, TRUE)
ActionMove(r, p, u, dest) == MailRequest(r, "move", p, u, dest, FALSE, FALSE)
ActionCopy(r, p, u, dest) == MailRequest(r, "copy", p, u, dest, FALSE, FALSE)
ActionSpam(r, p, u) == MailRequest(r, "spam", p, u, Junk, FALSE, FALSE)
ActionHam(r, p, u) ==
    /\ p = Junk \/ MbSlips
    /\ MailRequest(r, "ham", p, u, Inbox, FALSE, FALSE)

(* Mutant: the answer of UID COPY is not looked at. *)
UidCopyUnchecked(r) ==
    LET q == mbReq[r] IN
    /\ q.op # "none" /\ q.at = "copy"
    /\ IF q.from \notin Paths THEN Fails(r)
       ELSE /\ Goes(r, IF q.op = "copy" THEN NoReq
                       ELSE [q EXCEPT !.at = "store", !.sel = mbBox[q.from].id])
            /\ IF q.dest \in Paths /\ q.uid \in DOMAIN mbBox[q.from].mails
               THEN mbBox' = [mbBox EXCEPT ![q.dest] = With(@, mbBox[q.from].mails[q.uid].mail)]
               ELSE UNCHANGED mbBox
            /\ UNCHANGED <<mbIds, mbAsked, mbStrayed>>

(* select_mailbox and uid_copy: a UID that is not there is no error.  Spam *)
(* makes the Junk folder if it is not there.                               *)
UidCopy(r) ==
    LET q == mbReq[r] IN
    /\ q.op # "none" /\ q.at = "copy"
    /\ IF q.from \notin Paths \/ (q.dest \notin Paths /\ q.op # "spam") THEN Fails(r)
       ELSE /\ Goes(r, IF q.op = "copy" THEN NoReq
                       ELSE [q EXCEPT !.at = "store", !.sel = mbBox[q.from].id])
            /\ LET m == mbBox[q.from].mails
                   f == IF q.dest \in Paths THEN mbBox[q.dest] ELSE NewFolder(<<q.dest, mbIds>>)
                   filled == IF q.uid \in DOMAIN m THEN With(f, m[q.uid].mail) ELSE f
               IN Made([p \in Paths \cup {q.dest} |-> IF p = q.dest THEN filled ELSE mbBox[p]], {})
            /\ UNCHANGED <<mbAsked, mbStrayed>>

(* uid_store_flags(+\Deleted): delete_mails stays in the folder it has     *)
(* selected, the others select it again by its path.                       *)
StoreDeleted(r) ==
    LET q == mbReq[r]
        S == IF q.op = "delete" /\ q.sel # << >> THEN {p \in Paths : mbBox[p].id = q.sel}
             ELSE {q.path} \cap Paths
    IN /\ q.op # "none" /\ q.at = "store"
       /\ IF S = {} THEN Fails(r)
          ELSE \E p \in S :
               /\ mbBox' = [mbBox EXCEPT ![p] = Marked(p, {q.uid})]
               /\ mbStrayed' = mbStrayed \cup
                     ({mbBox[p].mails[u].mail : u \in {q.uid} \cap DOMAIN mbBox[p].mails}
                        \ IF mbBox[p].id = q.box /\ q.sel \in {<< >>, q.box} THEN {q.mail} ELSE {})
               /\ Goes(r, IF q.expunge THEN [q EXCEPT !.at = "expunge"] ELSE NoReq)
               /\ UNCHANGED <<mbIds, mbAsked>>

(* delete_mails expunges the whole folder, move_mails the UID it moved.    *)
ExpungeMails(r) ==
    LET q == mbReq[r] IN
    /\ q.op \in {"delete", "move"} /\ q.at = "expunge"
    /\ IF q.path \notin Paths THEN Fails(r)
       ELSE /\ mbBox' = [mbBox EXCEPT ![q.path] =
                            Expunged(q.path, IF q.op = "move" THEN {q.uid} ELSE DOMAIN @.mails)]
            /\ Ends(r) /\ UNCHANGED <<mbIds, mbAsked, mbStrayed>>

-----------------------------------------------------------------------------
(* Requests about folders: pend are the folders below that were listed and *)
(* are dealt with first, in the order of the server.                       *)

FolderRequest(r, op, p, children, perm) ==
    /\ MbBegin(r, [op |-> op, at |-> "folders", path |-> p, perm |-> perm, out |-> {},
                 pend |-> IF children THEN Below(p) ELSE {}])
    /\ UNCHANGED <<mbAsked, mbStrayed>>

ExpungeFolder(r, p, children) == FolderRequest(r, "expunge", p, children, FALSE)
PurgeFolder(r, p, children, perm) == FolderRequest(r, "purge", p, children, perm)

(* delete_folder: a path that starts with the name of the Trash is deleted *)
(* for good, any other is moved below the Trash.                           *)
DeleteFolder(r, p) ==
    FolderRequest(r, IF p[1] \in {"Trash", "TrashOld"} THEN "destroy" ELSE "trash", p, TRUE, FALSE)

(* The next folder of a request: one below, or itself in the end.          *)
Turn(r, op, p) ==
    LET q == mbReq[r] IN
    /\ q.op = op /\ q.at = "folders" /\ q.out = {}
    /\ p \in q.pend \/ (q.pend = {} /\ p = q.path)
Done(r, p) == IF p = mbReq[r].path THEN NoReq ELSE [mbReq[r] EXCEPT !.pend = @ \ {p}]

ExpungeOne(r, p) ==
    /\ Turn(r, "expunge", p)
    /\ IF p \notin Paths THEN Fails(r)
       ELSE /\ mbBox' = [mbBox EXCEPT ![p] = Expunged(p, DOMAIN @.mails)]
            /\ Goes(r, Done(r, p)) /\ UNCHANGED <<mbIds, mbAsked, mbStrayed>>

(* purge_folder marks the mails before the date; without any, UID STORE    *)
(* has no UID and the request fails.  When they are to be deleted for      *)
(* good, this folder and the ones below are expunged at once.              *)
PurgeOne(r, p, U) ==
    /\ Turn(r, "purge", p)
    /\ IF p \notin Paths \/ U = {} THEN Fails(r)
       ELSE /\ mbBox' = [mbBox EXCEPT ![p] = Marked(p, U)]
            /\ mbAsked' = mbAsked \cup {mbBox[p].mails[u].mail : u \in U}
            /\ Goes(r, IF mbReq[r].perm
                       THEN [mbReq[r] EXCEPT !.pend = @ \ {p}, !.out = {p} \cup Below(p),
                                             !.at = IF p = mbReq[r].path THEN "last" ELSE @]
                       ELSE Done(r, p))
            /\ UNCHANGED <<mbIds, mbStrayed>>

PurgeExpunges(r, p) ==
    /\ mbReq[r].op = "purge" /\ p \in mbReq[r].out
    /\ IF p \notin Paths THEN Fails(r)
       ELSE /\ mbBox' = [mbBox EXCEPT ![p] = Expunged(p, DOMAIN @.mails)]
            /\ Goes(r, IF mbReq[r].out = {p} /\ mbReq[r].at = "last" THEN NoReq
                       ELSE [mbReq[r] EXCEPT !.out = @ \ {p}])
            /\ UNCHANGED <<mbIds, mbAsked, mbStrayed>>

(* _imap_delete: DELETE of one folder; an error counts for the last only.  *)
DestroyOne(r, p) ==
    /\ Turn(r, "destroy", p)
    /\ IF p \notin Paths \/ p = Inbox THEN UNCHANGED <<mbBox, mbAsked, mbStrayed>>
       ELSE /\ mbBox' = Restrict(mbBox, Paths \ {p})
            /\ IF mbReq[r].path[1] = "Trash" THEN mbAsked' = mbAsked \cup MailsIn({p}) /\ UNCHANGED mbStrayed
               ELSE mbStrayed' = mbStrayed \cup MailsIn({p}) /\ UNCHANGED mbAsked
    /\ Goes(r, Done(r, p)) /\ UNCHANGED mbIds

(* _imap_move_folder_to_trash: the folders below are renamed first, what   *)
(* fails is left.                                                          *)
TrashChild(r, p) ==
    /\ Turn(r, "trash", p) /\ p # mbReq[r].path
    /\ IF CanRename(p, Trash \o p) THEN Renamed(p, Trash \o p) ELSE UNCHANGED <<mbBox, mbIds>>
    /\ Goes(r, Done(r, p)) /\ UNCHANGED <<mbAsked, mbStrayed>>

(* Where the Trash has a folder of that name, the folder is deleted.       *)
TrashFolder(r) ==
    LET p == mbReq[r].path IN
    /\ Turn(r, "trash", p)
    /\ IF Trash \o p \in Paths
       THEN /\ Goes(r, [mbReq[r] EXCEPT !.op = "destroy", !.pend = Below(p)])
            /\ UNCHANGED <<mbBox, mbIds>>
       ELSE /\ Ends(r)
            /\ IF CanRename(p, Trash \o p) THEN Renamed(p, Trash \o p) ELSE UNCHANGED <<mbBox, mbIds>>
    /\ UNCHANGED <<mbAsked, mbStrayed>>

(* create_folder and update_folder are one command that changes anything.  *)
CreateFolder(r, p) ==
    /\ mbReq[r] = NoReq /\ mbCount < MbMaxRequests /\ mbCount' = mbCount + 1
    /\ p \notin Paths
    /\ Made(mbBox, {p} \cup Above(p) \cup MbDefaults)
    /\ UNCHANGED <<mbReq, mbAsked, mbStrayed>>

RenameFolder(r, p, q) ==
    /\ mbReq[r] = NoReq /\ mbCount < MbMaxRequests /\ mbCount' = mbCount + 1
    /\ CanRename(p, q)
    /\ Renamed(p, q)
    /\ UNCHANGED <<mbReq, mbAsked, mbStrayed>>

Begins(r) ==
    \/ \E p \in Paths, dest \in {Inbox, Work, Trash} : \E u \in DOMAIN mbBox[p].mails :
          \/ DeleteMails(r, p, u) \/ MoveMails(r, p, u, dest) \/ ActionMove(r, p, u, dest)
          \/ ActionCopy(r, p, u, dest) \/ ActionSpam(r, p, u) \/ ActionHam(r, p, u)
    \/ \E p \in Paths, children \in BOOLEAN :
          ExpungeFolder(r, p, children) \/ \E perm \in BOOLEAN : PurgeFolder(r, p, children, perm)
    \/ \E p \in Paths : DeleteFolder(r, p)
    \/ \E p \in {Work, Sub} : CreateFolder(r, p)
    \/ \E p \in {Work, Sub}, q \in {Work, TrashOld} : RenameFolder(r, p, q)

Proceeds(r) ==
    \/ UidCopy(r) \/ StoreDeleted(r) \/ ExpungeMails(r)
    \/ mbReq[r].at \in {"folders", "last"} /\
       \E p \in mbReq[r].pend \cup {mbReq[r].path} :
          \/ ExpungeOne(r, p) \/ DestroyOne(r, p) \/ TrashChild(r, p)
          \/ p \notin Paths /\ PurgeOne(r, p, {})
          \/ p \in Paths /\ \E U \in SUBSET {u \in DOMAIN mbBox[p].mails : ~mbBox[p].mails[u].del} :
                PurgeOne(r, p, U)
    \/ mbReq[r].op = "purge" /\ \E p \in mbReq[r].out : PurgeExpunges(r, p)
    \/ mbReq[r].op = "trash" /\ TrashFolder(r)

MbNext ==
    \E r \in MbRequests :
        \/ mbReq[r] = NoReq /\ mbCount < MbMaxRequests /\ Begins(r)
        \/ mbReq[r] # NoReq /\ Proceeds(r)

MbSpec == MbInit /\ [][MbNext]_mbVars

-----------------------------------------------------------------------------
(* No mail is lost: one of which no copy is left was deleted for good by   *)
(* its user, whatever requests overlapped and whichever command failed.    *)
(* Exempt are the mails a command met although the request was not about   *)
(* them (another folder under the path, ham outside Junk) and those of a   *)
(* folder that was deleted instead of moved to the Trash.                  *)
NoMailLost == MbMails \subseteq MailsIn(Paths) \cup mbAsked \cup mbStrayed

(* A folder outside the Trash that delete_folder deletes for good holds no *)
(* mail: "The folder itself is now empty [...] so deleting the folder      *)
(* directly is correct."                                                   *)
DestroyedIsEmpty ==
    \A r \in MbRequests :
        /\ mbReq[r].op = "destroy" /\ mbReq[r].path[1] \notin {"Trash", "TrashOld"}
        => MailsIn({mbReq[r].path} \cap Paths) = {}
=============================================================================
