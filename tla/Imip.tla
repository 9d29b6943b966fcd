-------------------------------- MODULE Imip --------------------------------
(***************************************************************************)
(* Scheduling by mail (iMIP) between an organizer and an attendee on two   *)
(* servers: the organizer's event, the attendee's copies of it, and the    *)
(* mails.  A mail is sent once or lost, stays in its mailbox, and is       *)
(* processed every time it is opened, in any order.                        *)
(*                                                                         *)
(* A request reads one row and writes the whole of it later.  at counts    *)
(* how often the event was moved (or is Elsewhere, for a date that was     *)
(* moved alone), seq is its SEQUENCE, ex tells whether its first date is   *)
(* excluded, series whether it has a recurrence rule and st is the         *)
(* PARTSTAT of the attendee.  Titles are not kept.                         *)
(***************************************************************************)
EXTENDS Integers, Sequences, FiniteSets

CONSTANTS
    ImRequests,   \* requests of one person at work at the same time
    ImMaxEdits,   \* changes of the organizer
    ImMaxAnswers, \* answers of the attendee
    ImMaxCopies,  \* rows that the attendee's calendar ever holds
    ImEdits       \* changes the organizer makes

ASSUME ImipAssumption ==
    ImEdits \subseteq {"retitle", "move", "cancel one", "override", "move one", "delete"}

VARIABLES
    imEvent,   \* the organizer's row, or NoRow once it is deleted
    imCopies,  \* the rows ever inserted for the UID in the attendee's calendar
    imMail,    \* the mails that arrived
    imWork,    \* by person and request: what it has read
    imDone,    \* how many changes and answers there were
    imSeen,    \* ghost: the REQUESTs for the series opened since the attendee last removed the event
    imAnswers  \* ghost: the answers the attendee gave, with the time they were for

imVars == <<imEvent, imCopies, imMail, imWork, imDone, imSeen, imAnswers>>

NoRow == [seq |-> -1]
ImIdle == [pc |-> "idle"]
Asked == "needs action"
Elsewhere == -1   \* a time at which no version of the series starts
SingleDate == {"cancel one", "override", "move one"}
FirstRow == [seq |-> 0, at |-> 0, ex |-> FALSE, series |-> TRUE, st |-> Asked]
Copies == {k \in DOMAIN imCopies : imCopies[k] # NoRow}
Busy(p, r, rec) == imWork' = [imWork EXCEPT ![p][r] = rec]

(* create_event: the event is stored, and its invitation is to be sent. *)
ImInit ==
    /\ imEvent = FirstRow /\ imCopies = <<>> /\ imMail = {}
    /\ \E r \in ImRequests :
          imWork = [organizer |-> [q \in ImRequests |->
                        IF q = r THEN [pc |-> "send", mail |-> [method |-> "REQUEST", one |-> FALSE,
                                                                row |-> FirstRow]] ELSE ImIdle],
                    attendee |-> [q \in ImRequests |-> ImIdle]]
    /\ imDone = [edits |-> 0, answers |-> 0] /\ imSeen = {} /\ imAnswers = {}

(* _send_imip: best effort; the request may also die before it. *)
SendOrLose(p, r) ==
    /\ imWork[p][r].pc = "send" /\ Busy(p, r, ImIdle)
    /\ imMail' \in {imMail, imMail \cup {imWork[p][r].mail}}
    /\ UNCHANGED <<imEvent, imCopies, imDone, imSeen, imAnswers>>

-----------------------------------------------------------------------------
(* The organizer changes the event. *)
EditReads(r, op) ==
    /\ imWork.organizer[r] = ImIdle /\ imEvent # NoRow /\ imDone.edits < ImMaxEdits
    /\ op \in SingleDate => imEvent.series /\ ~imEvent.ex
    /\ imDone' = [imDone EXCEPT !.edits = @ + 1]
    /\ Busy("organizer", r, [pc |-> "edit", op |-> op, row |-> imEvent])
    /\ UNCHANGED <<imEvent, imCopies, imMail, imSeen, imAnswers>>

(* RecurrenceScopeProcessor: all events, or a single date, for which the   *)
(* series gets an EXDATE.                                                  *)
Edited(op, row) ==
    CASE op = "retitle" -> [row EXCEPT !.seq = @ + 1]
      [] op = "move" -> [row EXCEPT !.seq = @ + 1, !.at = @ + 1, !.st = Asked]
      [] op \in SingleDate -> [row EXCEPT !.ex = TRUE]
      [] op = "delete" -> NoRow

(* build_request and build_cancel, of the row the request has changed.     *)
(* That of a single date (split_occurrence) starts with SEQUENCE 0, has no *)
(* rule, and its own time, which has to be confirmed anew when it is not   *)
(* that of its slot.                                                       *)
Announced(op, row) ==
    CASE op \in {"retitle", "move"} -> [method |-> "REQUEST", one |-> FALSE, row |-> Edited(op, row)]
      [] op = "override" -> [method |-> "REQUEST", one |-> TRUE,
                             row |-> [row EXCEPT !.seq = 0, !.series = FALSE]]
      [] op = "move one" -> [method |-> "REQUEST", one |-> TRUE,
                             row |-> [row EXCEPT !.seq = 0, !.series = FALSE, !.at = Elsewhere, !.st = Asked]]
      [] op = "cancel one" -> [method |-> "CANCEL", one |-> TRUE,
                               row |-> [row EXCEPT !.seq = 0, !.series = FALSE]]
      [] op = "delete" -> [method |-> "CANCEL", one |-> FALSE, row |-> row]

EditWrites(r) ==
    LET w == imWork.organizer[r]
    IN /\ w.pc = "edit" /\ imEvent' = IF imEvent = NoRow THEN NoRow ELSE Edited(w.op, w.row)
       /\ Busy("organizer", r, [pc |-> "send", mail |-> Announced(w.op, w.row)])
       /\ UNCHANGED <<imCopies, imMail, imDone, imSeen, imAnswers>>

(* process_reply: only the event has to be there, its SEQUENCE is not      *)
(* compared, and an answer for one date is taken for the series.           *)
ReplyReads(r, m) ==
    /\ imWork.organizer[r] = ImIdle /\ m.method = "REPLY" /\ imEvent # NoRow
    /\ Busy("organizer", r, [pc |-> "reply", row |-> [imEvent EXCEPT !.st = m.row.st]])
    /\ UNCHANGED <<imEvent, imCopies, imMail, imDone, imSeen, imAnswers>>

ReplyWrites(r) ==
    /\ imWork.organizer[r].pc = "reply" /\ Busy("organizer", r, ImIdle)
    /\ imEvent' = IF imEvent = NoRow THEN NoRow ELSE imWork.organizer[r].row
    /\ UNCHANGED <<imCopies, imMail, imDone, imSeen, imAnswers>>

-----------------------------------------------------------------------------
(* The attendee opens a mail: find_by_uid, with any of the rows of the UID *)
(* if there are several, or 0 for none.                                    *)
OpenReads(r, m) ==
    /\ imWork.attendee[r] = ImIdle /\ m.method \in {"REQUEST", "CANCEL"}
    /\ Copies # {} \/ Len(imCopies) < ImMaxCopies
    /\ \E k \in IF Copies = {} THEN {0} ELSE Copies :
          Busy("attendee", r, [pc |-> "open", mail |-> m, k |-> k,
                               row |-> IF k = 0 THEN NoRow ELSE imCopies[k]])
    /\ UNCHANGED <<imEvent, imCopies, imMail, imDone, imSeen, imAnswers>>

(* An UPDATE by id: a row that is deleted stays deleted. *)
WriteCopy(k, row) == imCopies' = [imCopies EXCEPT ![k] = IF @ = NoRow THEN NoRow ELSE row]

NeverStale(m, row) == FALSE
IsStale(m, row) == m.row.seq < row.seq

(* process_request, for an event that is there: apply_organizer_content    *)
(* takes over everything but reminders and conference data, the time and   *)
(* the missing rule of a single date included: the row found is the series. *)
UpdateCopy(r) ==
    LET w == imWork.attendee[r]
    IN /\ w.pc = "open" /\ w.mail.method = "REQUEST" /\ w.k # 0
       /\ IF IsStale(w.mail, w.row) THEN UNCHANGED imCopies ELSE WriteCopy(w.k, w.mail.row)
       /\ imSeen' = (IF w.mail.one THEN imSeen ELSE imSeen \cup {w.mail.row.seq})
       /\ Busy("attendee", r, ImIdle)
       /\ UNCHANGED <<imEvent, imMail, imDone, imAnswers>>

(* process_request, for one that is not: it is inserted.  A single date    *)
(* without its series is refused.                                          *)
InsertCopy(r) ==
    LET w == imWork.attendee[r]
    IN /\ w.pc = "open" /\ w.mail.method = "REQUEST" /\ w.k = 0
       /\ imCopies' = IF w.mail.one THEN imCopies ELSE Append(imCopies, w.mail.row)
       /\ imSeen' = IF w.mail.one THEN imSeen ELSE imSeen \cup {w.mail.row.seq}
       /\ Busy("attendee", r, ImIdle)
       /\ UNCHANGED <<imEvent, imMail, imDone, imAnswers>>

(* process_cancel: an EXDATE, or the removal of the event; nothing for an  *)
(* event that is not there.                                                *)
CancelCopy(r) ==
    LET w == imWork.attendee[r]
    IN /\ w.pc = "open" /\ w.mail.method = "CANCEL" /\ Busy("attendee", r, ImIdle)
       /\ CASE w.k = 0 -> UNCHANGED <<imCopies, imSeen>>
            [] w.k # 0 /\ w.mail.one -> /\ WriteCopy(w.k, [w.row EXCEPT !.ex = TRUE])
                                        /\ UNCHANGED imSeen
            [] OTHER -> imCopies' = [k \in DOMAIN imCopies |-> NoRow] /\ imSeen' = {}
       /\ UNCHANGED <<imEvent, imMail, imDone, imAnswers>>

(* delete_event by the attendee: the own copy, without a mail. *)
DropCopy(r) ==
    /\ imWork.attendee[r] = ImIdle /\ Copies # {}
    /\ imCopies' = [k \in DOMAIN imCopies |-> NoRow] /\ imSeen' = {}
    /\ UNCHANGED <<imEvent, imMail, imWork, imDone, imAnswers>>

(* set_attendance_status, for the series or for one date, which gets a row  *)
(* of its own and an EXDATE in that of the series; and build_reply.        *)
AnswerReads(r, st, one) ==
    /\ imWork.attendee[r] = ImIdle /\ imDone.answers < ImMaxAnswers
    /\ imDone' = [imDone EXCEPT !.answers = @ + 1]
    /\ \E k \in Copies :
          /\ one => imCopies[k].series
          /\ Busy("attendee", r, [pc |-> "answer", k |-> k, row |-> imCopies[k],
                                  mail |-> [method |-> "REPLY", one |-> one,
                                            row |-> [imCopies[k] EXCEPT !.st = st]]])
    /\ UNCHANGED <<imEvent, imCopies, imMail, imSeen, imAnswers>>

AnswerWrites(r) ==
    LET w == imWork.attendee[r]
    IN /\ w.pc = "answer" /\ Busy("attendee", r, [pc |-> "send", mail |-> w.mail])
       /\ IF w.mail.one
          THEN WriteCopy(w.k, [w.row EXCEPT !.ex = TRUE]) /\ UNCHANGED imAnswers
          ELSE /\ WriteCopy(w.k, w.mail.row)
               /\ imAnswers' = imAnswers \cup {[at |-> w.row.at, st |-> w.mail.row.st]}
       /\ UNCHANGED <<imEvent, imMail, imDone, imSeen>>

-----------------------------------------------------------------------------
ImNext ==
    \E r \in ImRequests :
       \/ SendOrLose("organizer", r) \/ SendOrLose("attendee", r)
       \/ \E op \in ImEdits : EditReads(r, op)
       \/ EditWrites(r) \/ ReplyWrites(r)
       \/ \E m \in imMail : ReplyReads(r, m) \/ OpenReads(r, m)
       \/ UpdateCopy(r) \/ InsertCopy(r) \/ CancelCopy(r) \/ DropCopy(r)
       \/ \E st \in {"accepted", "declined"}, one \in BOOLEAN : AnswerReads(r, st, one)
       \/ AnswerWrites(r)

ImSpec == ImInit /\ [][ImNext]_imVars

-----------------------------------------------------------------------------
(* Whatever the order in which mails are opened, how often, and which of   *)
(* them were lost: once the mail of the organizer's last change of the     *)
(* series was opened, the copy is that version and has its time, and older *)
(* mails do not take it back.  Only a copy that has lost its rule to the   *)
(* mail of a single date (see SeriesIsKept) may have that date's time      *)
(* instead, and only before the series is changed for the first time.      *)
LatestApplied ==
    imEvent.seq \in imSeen =>
        \A k \in Copies :
            /\ imCopies[k].seq = imEvent.seq
            /\ imCopies[k].series \/ imEvent.seq # 0 => imCopies[k].at = imEvent.at

(* What the code does not keep (see the README), each with its own config. *)

(* An answer that the organizer's event shows was given for its time. *)
AnswerIsForThisTime ==
    imEvent # NoRow => imEvent.st = Asked \/ [at |-> imEvent.at, st |-> imEvent.st] \in imAnswers

(* A copy forgets no answer that was given for its time. *)
AnswerIsKept ==
    \A k \in Copies : imCopies[k].st = Asked => \A a \in imAnswers : a.at # imCopies[k].at

(* An excluded date does not come back. *)
ExceptionIsKept ==
    [][imCopies # <<>> /\ imCopies[1] # NoRow /\ imCopies[1].ex
        => imCopies'[1] = NoRow \/ imCopies'[1].ex]_imVars

(* A change of one date leaves the copy a series. *)
SeriesIsKept == \A k \in Copies : imCopies[k].series

(* An event that the organizer and the attendee have removed does not come  *)
(* back.                                                                   *)
RemovedStaysAway ==
    [][imEvent = NoRow /\ imCopies # <<>> /\ Copies = {} => Copies' = {}]_imVars

(* A calendar holds a UID once. *)
OneCopy == Cardinality(Copies) <= 1
=============================================================================
