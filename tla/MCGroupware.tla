----------------------------- MODULE MCGroupware -----------------------------
(***************************************************************************)
(* What users keep and share, in one run: the calendar of the REST API,    *)
(* the one of CalDAV, the folders of a mail account and a team mailbox.    *)
(* They share no state, so a behaviour is a behaviour of one of them,      *)
(* chosen in the initial state, while the others rest: the calendar of the *)
(* REST API without an event, the others in one of their initial states.   *)
(***************************************************************************)
EXTENDS CalendarEvents, CalDav, Mailboxes, SharedMailbox

VARIABLE part

NoEvents ==
    /\ master = [p \in People |-> [s \in Series |-> NoEvent]]
    /\ occ = [p \in People |-> [s \in Series |-> {}]]
    /\ req = [r \in Requests |-> Unread]
    /\ answer = [s \in Series |-> NoTime]
    /\ gone = [s \in Series |-> {}]
    /\ marks = {}

MCInit ==
    /\ part \in {"events", "caldav", "folders", "team"}
    /\ IF part = "events" THEN Init ELSE NoEvents
    /\ DavInit
    /\ part = "caldav" \/ ~davOther
    /\ MbInit
    /\ part = "folders" \/ (mbCount = 0 /\ MailsIn({Inbox}) # {})
    /\ SmInit

MCNext ==
    \/ part = "events" /\ Next /\ UNCHANGED <<part, davVars, mbVars, smVars>>
    \/ part = "caldav" /\ DavNext /\ UNCHANGED <<part, vars, mbVars, smVars>>
    \/ part = "folders" /\ MbNext /\ UNCHANGED <<part, vars, davVars, smVars>>
    \/ part = "team" /\ SmNext /\ UNCHANGED <<part, vars, davVars, mbVars>>

MCSpec == MCInit /\ [][MCNext]_<<part, vars, davVars, mbVars, smVars>>

(* Every variable of the two calendars has its type. *)
MCTypeOK == (part = "events" => TypeOK) /\ (part = "caldav" => DavTypeOK)

\* What tells two states apart: the part that moves.
MovingPart ==
    CASE part = "events" -> <<part, vars>>
      [] part = "caldav" -> <<part, davVars>>
      [] part = "folders" -> <<part, mbVars>>
      [] part = "team" -> <<part, smVars>>
=============================================================================
