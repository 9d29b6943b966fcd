--------------------------- MODULE CalendarEvents ---------------------------
(***************************************************************************)
(* A recurring event with an attendee on the same server: the organizer's  *)
(* row and the attendee's copy of it, detached occurrences, EXDATEs, and   *)
(* the scopes of an edit (all events, this event, this and following) with *)
(* their propagation to the other calendar.                                *)
(*                                                                         *)
(* A request reads the row it works on, later writes its own calendar, and *)
(* then the other one (the copy there is read again).  An edit for all     *)
(* events, and an answer, writes the whole row it read.                    *)
(*                                                                         *)
(* Time is a number.  A series has a date every Period from its start, up  *)
(* to UNTIL or COUNT times; st is the PARTSTAT of the attendee in a row.   *)
(* Titles and other content are not kept: an edit of them rewrites the row. *)
(***************************************************************************)
EXTENDS Integers, FiniteSets

CONSTANTS
    Length,      \* occurrences of the series at the beginning
    Counted,     \* whether its rule has a COUNT instead of an UNTIL
    MaxRequests, \* how many requests there are
    MaxActive,   \* how many of them at the same time
    Ops          \* what they may ask for

ASSUME CalendarAssumption ==
    Length \in Nat \ {0} /\ Counted \in BOOLEAN /\ MaxRequests \in Nat /\ MaxActive \in Nat

Period == 2
Shift == 1        \* how far an occurrence or the series is moved
Requests == 1 .. MaxRequests
Series == 1 .. MaxRequests + 1 \* a request splits at most one series
People == {"organizer", "attendee"}
OrganizerOps == {"retitle", "move", "override", "split", "truncate", "cancel", "delete"}
AttendeeOps == {"accept", "accept one", "personal", "drop one", "drop"}
SlotOps == {"override", "split", "truncate", "cancel", "accept one", "drop one"}
NoTime == -9
Times == {NoTime} \cup -1 .. (2 * Length + MaxRequests) * Period + Shift * MaxRequests

ASSUME OpsAssumption == Ops \subseteq OrganizerOps \cup AttendeeOps

VARIABLES
    master, \* the rows without RECURRENCE-ID, by person and series
    occ,    \* the detached occurrences, by person and series
    req,    \* progress of each request
    answer, \* ghost: the time of day the attendee accepted, or NoTime
    gone,   \* ghost: the dates that the organizer deleted, by series
    marks   \* ghost: which kinds of trouble a series has seen

vars == <<master, occ, req, answer, gone, marks>>

NoEvent == [start |-> NoTime]
Exists(p, s) == master[p][s] # NoEvent
Troubles == {"stale", "lost", "moved", "own", "twin", "double"}
Event == [start: Times, until: Times, count: 0 .. Length, ex: SUBSET Times,
          st: {"needs action", "accepted"}]
Occurrence == [id: Requests \X {1, 2}, rid: Times, at: Times,
               st: {"needs action", "accepted"}]
Request == [who: People, op: OrganizerOps \cup AttendeeOps, s: Series, slot: Times,
            moved: BOOLEAN, read: Event, new: Event \cup {NoEvent}, rows: SUBSET Occurrence,
            at: {"idle", "commit", "spread", "done"}]

TypeOK ==
    /\ master \in [People -> [Series -> Event \cup {NoEvent}]]
    /\ \A p \in People, s \in Series : occ[p][s] \subseteq Occurrence
    /\ req \in [Requests -> Request]
    /\ answer \in [Series -> Times]
    /\ gone \in [Series -> SUBSET Times]
    /\ marks \subseteq Series \X Troubles

-----------------------------------------------------------------------------
(* RruleEngine: the dates of a rule, and what a calendar shows *)

Dates(m) ==
    {d \in {m.start + Period * i : i \in 0 .. 2 * Length} :
        /\ m.until # NoTime => d <= m.until
        /\ m.count # 0 => d < m.start + Period * m.count}

(* What a request can be about: a slot of a series, or the series itself.  *)
Slots(p, s) ==
    IF Exists(p, s) THEN Dates(master[p][s]) \cup {master[p][s].start} ELSE {}

(* The dates at which something is shown: a detached row replaces its      *)
(* slot, even one listed in EXDATE.                                        *)
DatesShown(p, s) ==
    IF ~Exists(p, s) THEN {}
    ELSE {d \in Dates(master[p][s]) :
             d \notin master[p][s].ex \/ \E o \in occ[p][s] : o.rid = d}

(* Where two rows claim a slot, either may be shown.                       *)
Shown(p, s) ==
    IF ~Exists(p, s) THEN {}
    ELSE LET m == master[p][s]
             over(d) == {o \in occ[p][s] : o.rid = d} IN
         UNION {IF over(d) # {} THEN {o.at : o \in over(d)}
                ELSE IF d \in m.ex THEN {} ELSE {d} : d \in Dates(m)}

First == [start |-> 0, until |-> IF Counted THEN NoTime ELSE Period * Length - 1,
          count |-> IF Counted THEN Length ELSE 0, ex |-> {}, st |-> "needs action"]
Unread == [who |-> "organizer", op |-> "retitle", s |-> 1, slot |-> 0, moved |-> FALSE,
           read |-> First, new |-> NoEvent, rows |-> {}, at |-> "idle"]

Init ==
    /\ master = [p \in People |-> [s \in Series |-> IF s = 1 THEN First ELSE NoEvent]]
    /\ occ = [p \in People |-> [s \in Series |-> {}]]
    /\ req = [r \in Requests |-> Unread]
    /\ answer = [s \in Series |-> NoTime]
    /\ gone = [s \in Series |-> {}]
    /\ marks = {}

(* require_event: the request works on the row it reads here, the master   *)
(* or the detached row of its key (rows).  One for a single date may name  *)
(* the key of the master together with any date of the series: nobody      *)
(* looks whether that date is deleted, or detached already.                *)
Begin(r, who, op, s, slot, moved) ==
    /\ req[r].at = "idle" /\ \A q \in 1 .. r - 1 : req[q].at # "idle"
    /\ Cardinality({q \in Requests : req[q].at \in {"commit", "spread"}}) < MaxActive
    /\ op \in (IF who = "organizer" THEN OrganizerOps ELSE AttendeeOps)
    /\ Exists(who, s)
    /\ slot \in IF op \in SlotOps THEN Dates(master[who][s]) ELSE {master[who][s].start}
    /\ moved => op = "override"
    /\ \E rows \in {{}} \cup {{o} : o \in {x \in occ[who][s] : op = "override" /\ x.rid = slot}} :
          req' = [req EXCEPT ![r] = [@ EXCEPT !.who = who, !.op = op, !.s = s, !.slot = slot,
                     !.moved = moved, !.read = master[who][s], !.at = "commit", !.rows = rows]]
    /\ UNCHANGED <<master, occ, answer, gone, marks>>

-----------------------------------------------------------------------------
(* CalendarSourceDb: the writes of one calendar, as functions of its rows  *)
(* (m, the master, and os, the detached occurrences)                       *)

Reset(os) == {[o EXCEPT !.st = "needs action"] : o \in os}

(* realign_detached_occurrences *)
Realign(os, delta) ==
    Reset({[id |-> o.id, rid |-> o.rid + delta, at |-> o.at + delta, st |-> o.st] : o \in os})

(* _insert_detached_occurrence: the slot becomes an EXDATE as well. *)
InsertOccurrence(m, os, o) == <<[m EXCEPT !.ex = m.ex \cup {o.rid}], os \cup {o}>>

(* get_or_create_occurrence *)
GetOrCreate(m, os, base, d, id) ==
    IF \E o \in os : o.rid = d THEN <<m, os>>
    ELSE InsertOccurrence(m, os, [id |-> id, rid |-> d, at |-> d, st |-> base.st])

(* delete_occurrence: one row, whichever is found first. *)
DeleteOccurrence(m, os, o) == <<[m EXCEPT !.ex = m.ex \cup {o.rid}], os \ {o}>>

(* Mutant: the series is cut one occurrence too early. *)
SplitTooEarly(m, os, d) ==
    <<[m EXCEPT !.until = d - Period - 1, !.count = 0], {o \in os : o.rid < d}>>

(* split_event: COUNT becomes UNTIL, the later detached rows are deleted. *)
SplitEvent(m, os, d) ==
    <<[m EXCEPT !.until = d - 1, !.count = 0], {o \in os : o.rid < d}>>

(* Mutant: the new master starts without the EXDATEs. *)
SplitForgetsExdate(base, d) == [base EXCEPT !.start = d, !.ex = {}]

(* split_series: the rule of the new master is the one of the whole series. *)
SplitSeries(base, d) ==
    LET start == [base EXCEPT !.start = d] IN
    IF base.count = 0 THEN start
    ELSE [start EXCEPT !.until = d + Period * (base.count - 1), !.count = 0]

Put(p, s, rows) ==
    /\ master' = [master EXCEPT ![p][s] = rows[1]]
    /\ occ' = [occ EXCEPT ![p][s] = rows[2]]
Went(r, step) == req' = [req EXCEPT ![r] = IF step = "done" THEN [Unread EXCEPT !.at = step]
                                           ELSE [@ EXCEPT !.at = step]]
MarkIf(s, m, cond) == marks' = IF cond THEN marks \cup {<<s, m>>} ELSE marks
Ready(r, step, who, ops) == req[r].at = step /\ req[r].who = who /\ req[r].op \in ops

(* The row was changed after the request read it; or another request of    *)
(* the organizer has still to propagate its change of the series.          *)
Outdated(r) == master[req[r].who][req[r].s] # req[r].read
Crossed(r) ==
    \/ Outdated(r)
    \/ \E q \in Requests \ {r} :
          /\ req[q].at = "spread" /\ req[q].who = "organizer"
          /\ req[r].s = req[q].s \/ req[r].s = q + 1

-----------------------------------------------------------------------------
(* Requests of the organizer: RecurrenceScopeProcessor.process,            *)
(* process_delete, and CalendarSources.propagate                           *)

MovedStart(m) == IF m.start % Period = 0 THEN m.start + Shift ELSE m.start - Shift

(* Mutant: a reschedule keeps the answers. *)
KeepAnswer(b, op) == IF op = "retitle" THEN b ELSE [b EXCEPT !.start = MovedStart(b)]

AllEvents(b, op) ==
    IF op = "retitle" THEN b
    ELSE [b EXCEPT !.start = MovedStart(b), !.st = "needs action"]

(* "All events": the row that was read is written back with the change; a  *)
(* reschedule resets the answers and takes the detached rows along.  The   *)
(* UPDATE of a row that was deleted meanwhile shows nowhere.               *)
CommitAll(r) ==
    /\ Ready(r, "commit", "organizer", {"retitle", "move"})
    /\ LET s == req[r].s
           b == req[r].read
           new == AllEvents(b, req[r].op)
           delta == new.start - b.start
       IN /\ IF Exists("organizer", s)
             THEN Put("organizer", s, <<new, IF delta = 0 THEN occ["organizer"][s]
                                             ELSE Realign(occ["organizer"][s], delta)>>)
             ELSE UNCHANGED <<master, occ>>
          /\ req' = [req EXCEPT ![r] = [@ EXCEPT !.read = new, !.slot = delta, !.at = "spread"]]
          /\ gone' = [gone EXCEPT ![s] = {d + delta : d \in @}]
          /\ marks' = marks \cup (IF Crossed(r) THEN {<<s, "stale">>} ELSE {})
                            \cup (IF delta # 0 THEN {<<s, "moved">>} ELSE {})
    /\ UNCHANGED answer

(* Mutant: the detached rows of the attendee are not realigned. *)
SpreadMasterOnly(r) ==
    /\ Ready(r, "spread", "organizer", {"retitle", "move"}) /\ Exists("attendee", req[r].s)
    /\ Put("attendee", req[r].s, <<req[r].read, occ["attendee"][req[r].s]>>)
    /\ MarkIf(req[r].s, "stale", Outdated(r))
    /\ Went(r, "done")
    /\ UNCHANGED <<answer, gone>>

SpreadAll(r) ==
    /\ Ready(r, "spread", "organizer", {"retitle", "move"})
    /\ LET s == req[r].s
           delta == req[r].slot IN
       /\ IF Exists("attendee", s)
          THEN Put("attendee", s, <<req[r].read, IF delta = 0 THEN occ["attendee"][s]
                                                 ELSE Realign(occ["attendee"][s], delta)>>)
          ELSE UNCHANGED <<master, occ>>
       /\ MarkIf(s, "stale", Outdated(r))
    /\ Went(r, "done")
    /\ UNCHANGED <<answer, gone>>

Changed(r, o) ==
    [o EXCEPT !.at = IF req[r].moved THEN req[r].slot + Shift ELSE @,
              !.st = IF req[r].moved THEN "needs action" ELSE @]

(* "This event": the detached row of the key is updated; for the key of    *)
(* the master one is made, beside one that is there already ("double"),    *)
(* and for a deleted date too, which is shown again.                       *)
CommitOverride(r) ==
    /\ Ready(r, "commit", "organizer", {"override"})
    /\ LET s == req[r].s
           m == master["organizer"][s]
           os == occ["organizer"][s]
           b == req[r].read
           new == Changed(r, [id |-> <<r, 1>>, rid |-> req[r].slot, at |-> req[r].slot,
                              st |-> b.st])
           missing == \E o \in req[r].rows : \A x \in os : x.id # o.id
       IN /\ IF req[r].rows # {}
             THEN \E o \in req[r].rows :
                    /\ occ' = [occ EXCEPT !["organizer"][s] =
                                  {IF x.id = o.id THEN Changed(r, o) ELSE x : x \in os}]
                    /\ req' = [req EXCEPT ![r].at = "spread", ![r].rows = {Changed(r, o)}]
                    /\ UNCHANGED <<master, gone>>
             ELSE IF Exists("organizer", s)
             THEN /\ Put("organizer", s, InsertOccurrence(m, os, new))
                  /\ req' = [req EXCEPT ![r].at = "spread", ![r].rows = {new}]
                  /\ gone' = [gone EXCEPT ![s] = @ \ {new.rid}]
             ELSE Went(r, "done") /\ UNCHANGED <<master, occ, gone>>
          /\ marks' = marks \cup (IF Crossed(r) \/ missing THEN {<<s, "stale">>} ELSE {})
                            \cup (IF req[r].rows = {} /\ \E o \in os : o.rid = new.rid
                                  THEN {<<s, "double">>} ELSE {})
    /\ UNCHANGED answer

(* A row that was inserted here is inserted there, beside one the attendee *)
(* may have made; one that was updated here is updated there.              *)
SpreadOverride(r) ==
    /\ Ready(r, "spread", "organizer", {"override"})
    /\ LET s == req[r].s
           m == master["attendee"][s]
           os == occ["attendee"][s]
       IN \E new \in req[r].rows :
          IF new.id[1] = r
          THEN IF Exists("attendee", s)
               THEN /\ Put("attendee", s, InsertOccurrence(m, os, [new EXCEPT !.id = <<r, 2>>]))
                    /\ MarkIf(s, "twin", \E o \in os : o.rid = new.rid)
               ELSE UNCHANGED <<master, occ, marks>>
          ELSE LET found == {o \in os : o.rid = new.rid} IN
               /\ UNCHANGED master
               /\ IF found = {} THEN UNCHANGED occ
                  ELSE \E o \in found : occ' = [occ EXCEPT !["attendee"][s] =
                            (@ \ {o}) \cup {[new EXCEPT !.id = o.id]}]
               /\ UNCHANGED marks
    /\ Went(r, "done")
    /\ UNCHANGED <<answer, gone>>

(* The series of person p once the one of request r has become old, which  *)
(* new continues if the request changes something.                         *)
Continued(r, p, old, new) ==
    [x \in Series |-> IF x = req[r].s THEN old
                      ELSE IF x = r + 1 /\ req[r].op = "split" THEN new
                      ELSE master[p][x]]

(* "This and following": the series is cut, and may continue as a new one. *)
CommitSplit(r) ==
    /\ Ready(r, "commit", "organizer", {"split", "truncate"})
    /\ LET s == req[r].s
           d == req[r].slot
           cut == SplitEvent(master["organizer"][s], occ["organizer"][s], d)
           there == Exists("organizer", s)
           old == IF there THEN cut ELSE <<NoEvent, occ["organizer"][s]>>
           new == SplitSeries(req[r].read, d)
       IN /\ master' = [master EXCEPT !["organizer"] = Continued(r, "organizer", old[1], new)]
          /\ occ' = [occ EXCEPT !["organizer"][s] = old[2]]
          /\ req' = [req EXCEPT ![r].at = "spread", ![r].rows = occ["organizer"][s] \ old[2],
                                ![r].read = IF there THEN cut[1] ELSE @, ![r].new = new]
          /\ gone' = [gone EXCEPT ![s] = {x \in @ : x < d},
                                  ![r + 1] = {x \in gone[s] : x >= d}]
          /\ answer' = [answer EXCEPT ![r + 1] = answer[s]]
          /\ marks' = marks \cup {<<r + 1, m>> : m \in {m \in Troubles : <<s, m>> \in marks}}
                            \cup (IF Crossed(r) THEN {<<s, "stale">>, <<r + 1, "stale">>} ELSE {})

NoMoreThan(X, Y) == \E f \in [X -> Y] : \A a, b \in X : f[a] = f[b] => a = b

(* Every later row that was deleted here deletes one row of its slot there. *)
SpreadSplit(r) ==
    /\ Ready(r, "spread", "organizer", {"split", "truncate"})
    /\ LET s == req[r].s
           os == occ["attendee"][s]
           rids == {o.rid : o \in req[r].rows}
           hit == {o \in os : o.rid \in rids}
           kept == (os \ hit) \cup {o \in hit :
                       NoMoreThan({x \in req[r].rows : x.rid = o.rid},
                                  {x \in hit : x.rid = o.rid /\ x.id[1] < o.id[1]})}
           old == IF Exists("attendee", s)
                  THEN [req[r].read EXCEPT !.ex = @ \cup {o.rid : o \in hit}] ELSE NoEvent
       IN /\ master' = [master EXCEPT !["attendee"] = Continued(r, "attendee", old, req[r].new)]
          /\ occ' = [occ EXCEPT !["attendee"][s] = kept]
          /\ marks' = marks \cup (IF Outdated(r) THEN {<<s, "stale">>} ELSE {})
    /\ Went(r, "done")
    /\ UNCHANGED <<answer, gone>>

(* One occurrence is deleted: get_or_create_occurrence, then               *)
(* delete_occurrence.                                                      *)
CommitCancel(r) ==
    /\ req[r].at = "commit" /\ req[r].op \in {"cancel", "drop one"}
    /\ LET p == req[r].who
           s == req[r].s
           d == req[r].slot
           rows == GetOrCreate(master[p][s], occ[p][s], req[r].read, d, <<r, 1>>)
       IN IF ~Exists(p, s) THEN Went(r, "done") /\ UNCHANGED <<master, occ, gone, marks>>
          ELSE /\ \E o \in {o \in rows[2] : o.rid = d} :
                     Put(p, s, DeleteOccurrence(rows[1], rows[2], o))
               /\ Went(r, IF p = "organizer" THEN "spread" ELSE "done")
               /\ gone' = IF p = "organizer" THEN [gone EXCEPT ![s] = @ \cup {d}] ELSE gone
               /\ marks' = marks \cup (IF p = "attendee" THEN {<<s, "own">>} ELSE {})
                                 \cup (IF Crossed(r) THEN {<<s, "stale">>} ELSE {})
    /\ UNCHANGED answer

(* The attendee's row for the slot is deleted, if there is one. *)
SpreadCancel(r) ==
    /\ Ready(r, "spread", "organizer", {"cancel"})
    /\ LET s == req[r].s
           found == {o \in occ["attendee"][s] : o.rid = req[r].slot} IN
       IF Exists("attendee", s) /\ found # {}
       THEN \E o \in found :
              Put("attendee", s, DeleteOccurrence(master["attendee"][s], occ["attendee"][s], o))
       ELSE UNCHANGED <<master, occ>>
    /\ Went(r, "done")
    /\ UNCHANGED <<answer, gone, marks>>

(* The whole series; an attendee deletes only the own copy. *)
CommitDelete(r) ==
    /\ req[r].at = "commit" /\ req[r].op \in {"delete", "drop"}
    /\ Put(req[r].who, req[r].s, <<NoEvent, {}>>)
    /\ Went(r, IF req[r].who = "organizer" THEN "spread" ELSE "done")
    /\ MarkIf(req[r].s, "own", req[r].who = "attendee")
    /\ UNCHANGED <<answer, gone>>

SpreadDelete(r) ==
    /\ Ready(r, "spread", "organizer", {"delete"})
    /\ Put("attendee", req[r].s, <<NoEvent, {}>>)
    /\ Went(r, "done")
    /\ UNCHANGED <<answer, gone, marks>>

-----------------------------------------------------------------------------
(* Requests of the attendee: set_attendance_status, process_attendee_edit  *)

(* The row that was read is written back with the answer. *)
CommitAccept(r) ==
    /\ Ready(r, "commit", "attendee", {"accept", "personal"})
    /\ LET s == req[r].s
           accept == req[r].op = "accept"
           new == IF accept THEN [req[r].read EXCEPT !.st = "accepted"] ELSE req[r].read
       IN /\ master' = IF Exists("attendee", s) THEN [master EXCEPT !["attendee"][s] = new]
                       ELSE master
          /\ Went(r, IF accept THEN "spread" ELSE "done")
          /\ MarkIf(s, "stale", Outdated(r))
    /\ UNCHANGED <<occ, answer, gone>>

(* propagate_partstat_to_copies changes nothing but the status. *)
SpreadAccept(r) ==
    /\ Ready(r, "spread", "attendee", {"accept"})
    /\ LET s == req[r].s IN
       IF Exists("organizer", s)
       THEN /\ master' = [master EXCEPT !["organizer"][s].st = "accepted"]
            /\ answer' = [answer EXCEPT ![s] = req[r].read.start % Period]
            /\ MarkIf(s, "stale", master["organizer"][s].start # req[r].read.start)
       ELSE UNCHANGED <<master, answer, marks>>
    /\ Went(r, "done")
    /\ UNCHANGED <<occ, gone>>

Accepted(os, d) == {IF o.rid = d THEN [o EXCEPT !.st = "accepted"] ELSE o : o \in os}

(* For one occurrence the attendee gets a detached row of the own. *)
CommitAcceptOne(r) ==
    /\ Ready(r, "commit", "attendee", {"accept one"})
    /\ LET s == req[r].s
           d == req[r].slot
           rows == GetOrCreate(master["attendee"][s], occ["attendee"][s], req[r].read, d, <<r, 1>>)
       IN IF Exists("attendee", s)
          THEN Put("attendee", s, <<rows[1], Accepted(rows[2], d)>>) /\ Went(r, "spread")
          ELSE Went(r, "done") /\ UNCHANGED <<master, occ>>
    /\ UNCHANGED <<answer, gone, marks>>

SpreadAcceptOne(r) ==
    /\ Ready(r, "spread", "attendee", {"accept one"})
    /\ occ' = [occ EXCEPT !["organizer"][req[r].s] = Accepted(@, req[r].slot)]
    /\ Went(r, "done")
    /\ UNCHANGED <<master, answer, gone, marks>>

(* The process dies, or the other calendar refuses: it is only logged. *)
SpreadFails(r) ==
    /\ req[r].at = "spread"
    /\ Went(r, "done")
    /\ marks' = marks \cup {<<req[r].s, "lost">>, <<r + 1, "lost">>}
    /\ UNCHANGED <<master, occ, answer, gone>>

Commits(r) ==
    \/ CommitAll(r) \/ CommitOverride(r) \/ CommitSplit(r) \/ CommitCancel(r)
    \/ CommitDelete(r) \/ CommitAccept(r) \/ CommitAcceptOne(r)
Spreads(r) ==
    \/ SpreadAll(r) \/ SpreadOverride(r) \/ SpreadSplit(r) \/ SpreadCancel(r)
    \/ SpreadDelete(r) \/ SpreadAccept(r) \/ SpreadAcceptOne(r) \/ SpreadFails(r)

Next == \E r \in Requests :
    \/ /\ req[r].at = "idle"
       /\ \E who \in People, s \in Series : \E slot \in Slots(who, s), op \in Ops,
             moved \in BOOLEAN : Begin(r, who, op, s, slot, moved)
    \/ req[r].at = "commit" /\ Commits(r)
    \/ req[r].at = "spread" /\ Spreads(r)

Spec == Init /\ [][Next]_vars

-----------------------------------------------------------------------------
Clean(s, ms) == \A m \in ms : <<s, m>> \notin marks
Quiet == \A r \in Requests : req[r].at \in {"idle", "done"}

(* A date the organizer deleted is not shown again by a later edit, split  *)
(* or override (EXDATE), unless an override by the key of the series names *)
(* that very date (CommitOverride); or an edit wrote an outdated row, the  *)
(* series was moved (its EXDATEs stay behind), or a date had two detached  *)
(* rows, of which a deletion removes one.                                  *)
DeletedStaysDeleted ==
    Quiet => \A s \in Series :
        Clean(s, {"stale", "moved", "double"}) => gone[s] \cap DatesShown("organizer", s) = {}

(* The attendee misses nothing: between two requests every date the        *)
(* organizer sees is in the attendee's calendar too, unless the attendee   *)
(* removed something, a propagation failed or a row was outdated; or one   *)
(* date had two detached rows in the organizer's calendar, which are not   *)
(* told apart in the other; or the attendee has had two rows for one date  *)
(* (SpreadOverride), of which only one is deleted with it, and the series  *)
(* was moved, which takes the other one to another date.                   *)
AttendeeMissesNothing ==
    Quiet => \A s \in Series :
        /\ Clean(s, {"stale", "lost", "own", "double"})
        /\ Clean(s, {"moved"}) \/ Clean(s, {"twin"})
        => Shown("organizer", s) \subseteq Shown("attendee", s)

(* Both calendars show the same dates (propagate replicates every change). *)
CopiesAgree ==
    Quiet => \A s \in Series :
        Clean(s, {"stale", "lost", "own"}) => Shown("organizer", s) = Shown("attendee", s)

(* The organizer's row says "accepted" only for the time of day that the   *)
(* attendee accepted, through edits, splits and moves; and the answer of   *)
(* an attendee whose time did not change since is not lost.                *)
AnswerIsCurrent ==
    Quiet => \A s \in Series :
        Clean(s, {"stale", "lost"}) /\ Exists("organizer", s) =>
            LET m == master["organizer"][s] IN
            /\ m.st = "accepted" => answer[s] = m.start % Period
            /\ <<s, "moved">> \notin marks /\ answer[s] # NoTime => m.st = "accepted"

(* "This and following" leaves as many occurrences as there were: a series *)
(* and the ones split off it never show more than the series had           *)
(* (split_series converts COUNT because "the remaining occurrence count    *)
(* changes after the split").                                              *)
SplitAddsNothing ==
    Cardinality(UNION {Shown("organizer", s) : s \in Series}) <= Length

=============================================================================
