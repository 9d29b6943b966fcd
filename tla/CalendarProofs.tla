--------------------------- MODULE CalendarProofs ---------------------------
(***************************************************************************)
(* Proofs about the calendar: the organizer's series and the copy of the   *)
(* attendee, for any length of the series and any number of requests, and  *)
(* the bookings of a room, for any number of owners, bookings, requests    *)
(* and times.                                                              *)
(***************************************************************************)
EXTENDS CalendarEvents, ResourceBooking, FiniteSetTheorems, TLAPS

-----------------------------------------------------------------------------
(* CalendarEvents: types                                                   *)

Status == {"needs action", "accepted"}
Row == [start: Nat, until: Int, count: Nat, ex: SUBSET Int, st: Status]
Detached == [id: Requests \X {1, 2}, rid: Int, at: Int, st: Status]
Asked == [who: People, op: OrganizerOps \cup AttendeeOps, s: Series, slot: Int, moved: BOOLEAN,
          read: Row, new: Row \cup {NoEvent}, rows: SUBSET Detached,
          at: {"idle", "commit", "spread", "done"}]

CalTyped ==
    /\ master \in [People -> [Series -> Row \cup {NoEvent}]]
    /\ occ \in [People -> [Series -> SUBSET Detached]]
    /\ req \in [Requests -> Asked]
    /\ answer \in [Series -> Int]
    /\ gone \in [Series -> SUBSET Int]
    /\ marks \subseteq Series \X Troubles

LEMMA CalConstants ==
    /\ Length \in Nat \ {0} /\ MaxRequests \in Nat /\ Requests \subseteq Nat /\ Series \subseteq Nat
    /\ \A r \in Requests : r \in Series /\ r + 1 \in Series /\ r + 1 # r
    /\ 1 \in Series /\ "organizer" \in People /\ "attendee" \in People
  BY CalendarAssumption DEF Requests, Series, People

LEMMA RowsAre ==
    /\ NoEvent \notin Row
    /\ First \in Row /\ Unread \in Asked /\ Unread.at = "idle"
<1>1. NoEvent \notin Row
  BY DEF NoEvent, Row
<1>2. First \in Row
  BY CalConstants DEF First, Row, Status, Period, NoTime
<1>3. Unread \in Asked /\ Unread.at = "idle"
  BY <1>2, CalConstants DEF Unread, Asked, OrganizerOps
<1> QED
  BY <1>1, <1>2, <1>3

LEMMA CalStart == Init => CalTyped
<1> SUFFICES ASSUME Init PROVE CalTyped
  OBVIOUS
<1>1. NoTime \in Int
  BY DEF NoTime
<1> QED
  BY <1>1, RowsAre DEF Init, CalTyped

(* One calendar's rows of one series are written. *)
LEMMA PutIs ==
  ASSUME CalTyped, NEW p \in People, NEW s \in Series, NEW m \in Row \cup {NoEvent}, NEW os \in SUBSET Detached,
         Put(p, s, <<m, os>>)
  PROVE  /\ master' \in [People -> [Series -> Row \cup {NoEvent}]] /\ occ' \in [People -> [Series -> SUBSET Detached]]
         /\ master'[p][s] = m /\ occ'[p][s] = os
         /\ \A x \in People, y \in Series :
               x # p \/ y # s => master'[x][y] = master[x][y] /\ occ'[x][y] = occ[x][y]
  BY DEF Put, CalTyped

LEMMA WentIs ==
  ASSUME CalTyped, NEW r \in Requests, NEW step \in {"spread", "done"}, Went(r, step)
  PROVE  /\ req' \in [Requests -> Asked] /\ req'[r].at = step
         /\ step = "done" => req'[r] = [Unread EXCEPT !.at = "done"]
         /\ step = "spread" => req'[r] = [req[r] EXCEPT !.at = "spread"]
         /\ \A q \in Requests \ {r} : req'[q] = req[q]
<1>1. [Unread EXCEPT !.at = step] \in Asked /\ [req[r] EXCEPT !.at = step] \in Asked
  BY RowsAre DEF Asked, CalTyped
<1>2. PICK v : v = IF step = "done" THEN [Unread EXCEPT !.at = step] ELSE [req[r] EXCEPT !.at = step]
  OBVIOUS
<1>3. req' = [req EXCEPT ![r] = v] /\ v \in Asked
  BY <1>1, <1>2 DEF Went
<1>4. v.at = step
  BY <1>2, RowsAre DEF Asked, CalTyped
<1> QED
  BY <1>2, <1>3, <1>4 DEF CalTyped

-----------------------------------------------------------------------------
(* CalendarEvents: the functions of the rows *)

LEMMA DatesAre ==
  ASSUME NEW m \in Row
  PROVE  \A d \in Dates(m) : d \in Nat /\ d % Period = m.start % Period /\ (m.until # NoTime => d <= m.until)
<1>1. ASSUME NEW i \in 0 .. 2 * Length PROVE m.start + Period * i \in Nat /\ (m.start + Period * i) % Period = m.start % Period
  BY CalConstants DEF Row, Period
<1> QED
  BY <1>1 DEF Dates

LEMMA ResetIs ==
  ASSUME NEW os \in SUBSET Detached
  PROVE  /\ Reset(os) \in SUBSET Detached
         /\ \A x \in Reset(os) : \E o \in os : x.id = o.id /\ x.rid = o.rid /\ x.at = o.at
         /\ \A o \in os : \E x \in Reset(os) : x.id = o.id /\ x.rid = o.rid /\ x.at = o.at
<1>1. ASSUME NEW o \in os
      PROVE  LET x == [o EXCEPT !.st = "needs action"]
             IN x \in Detached /\ x.id = o.id /\ x.rid = o.rid /\ x.at = o.at
  BY DEF Detached, Status
<1> QED
  BY <1>1 DEF Reset

LEMMA RealignIs ==
  ASSUME NEW os \in SUBSET Detached, NEW delta \in Int
  PROVE  /\ Realign(os, delta) \in SUBSET Detached
         /\ \A x \in Realign(os, delta) :
               \E o \in os : x.id = o.id /\ x.rid = o.rid + delta /\ x.at = o.at + delta
         /\ \A o \in os :
               \E x \in Realign(os, delta) : x.id = o.id /\ x.rid = o.rid + delta /\ x.at = o.at + delta
<1> DEFINE M == {[id |-> o.id, rid |-> o.rid + delta, at |-> o.at + delta, st |-> o.st] : o \in os}
<1>1. ASSUME NEW o \in os
      PROVE  LET x == [id |-> o.id, rid |-> o.rid + delta, at |-> o.at + delta, st |-> o.st]
             IN x \in Detached /\ x.id = o.id /\ x.rid = o.rid + delta /\ x.at = o.at + delta
  BY DEF Detached
<1>2. /\ M \in SUBSET Detached
      /\ \A x \in M : \E o \in os : x.id = o.id /\ x.rid = o.rid + delta /\ x.at = o.at + delta
      /\ \A o \in os : \E x \in M : x.id = o.id /\ x.rid = o.rid + delta /\ x.at = o.at + delta
  BY <1>1
<1>3. Realign(os, delta) = Reset(M)
  BY DEF Realign
<1> HIDE DEF M
<1>4. Reset(M) \in SUBSET Detached
  BY <1>2, ResetIs
<1>5. ASSUME NEW x \in Reset(M) PROVE \E o \in os : x.id = o.id /\ x.rid = o.rid + delta /\ x.at = o.at + delta
  <2>1. PICK y \in M : x.id = y.id /\ x.rid = y.rid /\ x.at = y.at
    BY <1>2, ResetIs
  <2> QED
    BY <1>2, <2>1
<1>6. ASSUME NEW o \in os PROVE \E x \in Reset(M) : x.id = o.id /\ x.rid = o.rid + delta /\ x.at = o.at + delta
  <2>1. PICK y \in M : y.id = o.id /\ y.rid = o.rid + delta /\ y.at = o.at + delta
    BY <1>2
  <2>2. PICK x \in Reset(M) : x.id = y.id /\ x.rid = y.rid /\ x.at = y.at
    BY <1>2, ResetIs
  <2> QED
    BY <2>1, <2>2
<1> QED
  BY <1>3, <1>4, <1>5, <1>6

LEMMA AllEventsIs ==
  ASSUME NEW b \in Row, NEW op
  PROVE  /\ AllEvents(b, op) \in Row /\ AllEvents(b, op).until = b.until /\ AllEvents(b, op).count = b.count
         /\ AllEvents(b, op).ex = b.ex
         /\ op = "retitle" => AllEvents(b, op) = b
         /\ op # "retitle" => AllEvents(b, op).start # b.start /\ AllEvents(b, op).st = "needs action"
<1>1. MovedStart(b) \in Nat /\ MovedStart(b) # b.start
  BY DEF MovedStart, Row, Period, Shift
<1>2. PICK x : x = MovedStart(b)
  OBVIOUS
<1>3. [b EXCEPT !.start = x, !.st = "needs action"] \in Row
  BY <1>1, <1>2 DEF Row, Status
<1> QED
  BY <1>1, <1>2, <1>3 DEF AllEvents, Row

LEMMA InsertIs ==
  ASSUME NEW m \in Row, NEW os \in SUBSET Detached, NEW o \in Detached
  PROVE  \E w \in Row : /\ InsertOccurrence(m, os, o) = <<w, os \cup {o}>> /\ w.ex = m.ex \cup {o.rid}
                        /\ w.start = m.start /\ w.until = m.until /\ w.count = m.count /\ w.st = m.st
<1>1. PICK x : x = m.ex \cup {o.rid}
  OBVIOUS
<1>2. x \in SUBSET Int
  BY <1>1 DEF Row, Detached
<1>3. PICK w : w = [m EXCEPT !.ex = x]
  OBVIOUS
<1>4. w \in Row /\ w.ex = x /\ w.start = m.start /\ w.until = m.until /\ w.count = m.count /\ w.st = m.st
  BY <1>2, <1>3 DEF Row
<1>5. InsertOccurrence(m, os, o) = <<w, os \cup {o}>>
  BY <1>1, <1>3 DEF InsertOccurrence
<1> QED
  BY <1>1, <1>4, <1>5

LEMMA DeleteIs ==
  ASSUME NEW m \in Row, NEW os \in SUBSET Detached, NEW o \in Detached
  PROVE  \E w \in Row : /\ DeleteOccurrence(m, os, o) = <<w, os \ {o}>> /\ w.ex = m.ex \cup {o.rid}
                        /\ w.start = m.start /\ w.until = m.until /\ w.count = m.count /\ w.st = m.st
<1>1. PICK x : x = m.ex \cup {o.rid}
  OBVIOUS
<1>2. x \in SUBSET Int
  BY <1>1 DEF Row, Detached
<1>3. PICK w : w = [m EXCEPT !.ex = x]
  OBVIOUS
<1>4. w \in Row /\ w.ex = x /\ w.start = m.start /\ w.until = m.until /\ w.count = m.count /\ w.st = m.st
  BY <1>2, <1>3 DEF Row
<1>5. DeleteOccurrence(m, os, o) = <<w, os \ {o}>>
  BY <1>1, <1>3 DEF DeleteOccurrence
<1> QED
  BY <1>1, <1>4, <1>5

(* The rows, w and n, that request r has once there is one for date d.     *)
Gotten(m, os, d, r, rows, w, n) ==
    /\ rows = <<w, n>> /\ \E o \in n : o.rid = d
    /\ w.start = m.start /\ w.until = m.until /\ w.count = m.count /\ w.st = m.st
    /\ \/ w = m /\ n = os
       \/ /\ w.ex = m.ex \cup {d} /\ \A o \in os : o.rid # d
          /\ \E o \in Detached : n = os \cup {o} /\ o.rid = d /\ o.at = d /\ o.id = <<r, 1>>

LEMMA GetOrCreateIs ==
  ASSUME NEW m \in Row, NEW os \in SUBSET Detached, NEW b \in Row, NEW d \in Int, NEW r \in Requests
  PROVE  \E w \in Row, n \in SUBSET Detached : Gotten(m, os, d, r, GetOrCreate(m, os, b, d, <<r, 1>>), w, n)
<1>1. CASE \E o \in os : o.rid = d
  BY <1>1 DEF GetOrCreate, Gotten
<1>2. CASE ~\E o \in os : o.rid = d
  <2>1. PICK o : o = [id |-> <<r, 1>>, rid |-> d, at |-> d, st |-> b.st]
    OBVIOUS
  <2>2. o \in Detached /\ o.rid = d /\ o.at = d /\ o.id = <<r, 1>>
    BY <2>1 DEF Detached, Row
  <2>3. GetOrCreate(m, os, b, d, <<r, 1>>) = InsertOccurrence(m, os, o)
    BY <1>2, <2>1 DEF GetOrCreate
  <2>4. PICK w \in Row : /\ InsertOccurrence(m, os, o) = <<w, os \cup {o}>> /\ w.ex = m.ex \cup {o.rid}
                         /\ w.start = m.start /\ w.until = m.until /\ w.count = m.count /\ w.st = m.st
    BY <2>2, InsertIs
  <2>5. os \cup {o} \in SUBSET Detached /\ o \in os \cup {o}
    BY <2>2
  <2> QED
    BY <1>2, <2>2, <2>3, <2>4, <2>5 DEF Gotten
<1> QED
  BY <1>1, <1>2

-----------------------------------------------------------------------------
(* CalendarEvents: what the steps do                                       *)

(* A step keeps the organizer's series s: its answer and its EXDATEs.      *)
RowKept(s) ==
    /\ Exists("organizer", s)' =>
          /\ Exists("organizer", s)
          /\ master'["organizer"][s].start = master["organizer"][s].start
          /\ master'["organizer"][s].st = master["organizer"][s].st
          /\ master["organizer"][s].ex \subseteq master'["organizer"][s].ex
    /\ answer'[s] = answer[s]
    /\ gone'[s] \subseteq gone[s]

(* The requests change at most by one, which ends up at the given step.    *)
Asking(r) == req' \in [Requests -> Asked] /\ \A q \in Requests \ {r} : req'[q] = req[q]

LEMMA AskedIs ==
  ASSUME NEW x \in Asked, NEW b \in Row, NEW d \in Int, NEW os \in SUBSET Detached, NEW n \in Row \cup {NoEvent}
  PROVE  /\ [x EXCEPT !.read = b, !.slot = d, !.at = "spread"] \in Asked
         /\ [x EXCEPT !.at = "spread", !.rows = os] \in Asked
         /\ [x EXCEPT !.at = "spread", !.rows = os, !.read = b, !.new = n] \in Asked
  BY DEF Asked

LEMMA RowsType ==
  ASSUME CalTyped, NEW p \in People, NEW s \in Series
  PROVE  /\ master[p][s] \in Row \cup {NoEvent} /\ occ[p][s] \in SUBSET Detached
         /\ Exists(p, s) <=> master[p][s] \in Row
         /\ Exists(p, s) <=> master[p][s] # NoEvent
  BY RowsAre DEF CalTyped, Exists

LEMMA CommitAllIs ==
  ASSUME CalTyped, NEW r \in Requests, CommitAll(r)
  PROVE  /\ CalTyped' /\ Asking(r) /\ req'[r].at = "spread"
         /\ marks \subseteq marks'
         /\ \A s \in Series : \/ RowKept(s)
                              \/ s = req[r].s /\ (<<s, "stale">> \in marks' \/ (<<s, "moved">> \in marks' /\ master'["organizer"][s].st = "needs action"))
<1> DEFINE s == req[r].s
           b == req[r].read
           new == AllEvents(b, req[r].op)
           delta == new.start - b.start
<1>1. s \in Series /\ b \in Row /\ req[r] \in Asked /\ req[r].op \in {"retitle", "move"}
  BY DEF CalTyped, Asked, CommitAll, Ready
<1>2. /\ new \in Row /\ delta \in Int
      /\ req[r].op = "retitle" => new = b /\ delta = 0
      /\ req[r].op # "retitle" => delta # 0 /\ new.st = "needs action"
  <2>1. new \in Row
    BY <1>1, AllEventsIs
  <2>2. new.start \in Int /\ b.start \in Int
    BY <1>1, <2>1 DEF Row
  <2> HIDE DEF new
  <2>3. req[r].op = "retitle" => new = b
    BY <1>1, AllEventsIs DEF new
  <2>4. req[r].op # "retitle" => new.start # b.start /\ new.st = "needs action"
    BY <1>1, AllEventsIs DEF new
  <2>5. PICK x, y : x = new.start /\ y = b.start
    OBVIOUS
  <2>6. delta = x - y
    BY <2>5
  <2>7. x \in Int /\ y \in Int
    BY <2>2, <2>5
  <2>8. req[r].op = "retitle" => x = y
    BY <2>3, <2>5
  <2>9. req[r].op # "retitle" => x # y
    BY <2>4, <2>5
  <2> HIDE DEF delta, b
  <2>10. delta \in Int /\ (req[r].op = "retitle" => delta = 0) /\ (req[r].op # "retitle" => delta # 0)
    BY <2>6, <2>7, <2>8, <2>9
  <2> QED
    BY <2>1, <2>3, <2>4, <2>10
<1>3. /\ IF Exists("organizer", s)
         THEN Put("organizer", s, <<new, IF delta = 0 THEN occ["organizer"][s]
                                         ELSE Realign(occ["organizer"][s], delta)>>)
         ELSE UNCHANGED <<master, occ>>
      /\ req' = [req EXCEPT ![r] = [@ EXCEPT !.read = new, !.slot = delta, !.at = "spread"]]
      /\ gone' = [gone EXCEPT ![s] = {d + delta : d \in @}]
      /\ marks' = marks \cup (IF Crossed(r) THEN {<<s, "stale">>} ELSE {})
                        \cup (IF delta # 0 THEN {<<s, "moved">>} ELSE {})
      /\ answer' = answer
  BY DEF CommitAll
<1> HIDE DEF s, b, new, delta
<1>4. req' \in [Requests -> Asked] /\ req'[r].at = "spread" /\ \A q \in Requests \ {r} : req'[q] = req[q]
  <2>1. PICK v : v = [req[r] EXCEPT !.read = new, !.slot = delta, !.at = "spread"]
    OBVIOUS
  <2>2. v \in Asked
    BY <1>1, <1>2, <2>1, AskedIs, RowsAre
  <2>3. v.at = "spread"
    BY <1>1, <2>1 DEF Asked
  <2>4. req' = [req EXCEPT ![r] = v]
    BY <1>3, <2>1
  <2> QED
    BY <2>2, <2>3, <2>4 DEF CalTyped
<1>5. gone' \in [Series -> SUBSET Int] /\ \A x \in Series \ {s} : gone'[x] = gone[x]
  <2>0. gone[s] \subseteq Int
    BY <1>1 DEF CalTyped
  <2>1. {d + delta : d \in gone[s]} \in SUBSET Int
    <3>1. ASSUME NEW d \in gone[s] PROVE d + delta \in Int
      <4>1. d \in Int
        BY <2>0
      <4>2. delta \in Int
        BY <1>2
      <4> QED
        BY <4>1, <4>2
    <3> QED
      BY <3>1
  <2>2. PICK v : v = {d + delta : d \in gone[s]}
    OBVIOUS
  <2>3. gone' = [gone EXCEPT ![s] = v]
    BY <1>3, <2>2
  <2> QED
    BY <2>1, <2>2, <2>3 DEF CalTyped
<1>6. delta = 0 => gone'[s] = gone[s]
  <2> SUFFICES ASSUME delta = 0 PROVE gone'[s] = gone[s]
    OBVIOUS
  <2>1. gone'[s] = {d + delta : d \in gone[s]}
    BY <1>1, <1>3 DEF CalTyped
  <2>2. gone[s] \subseteq Int
    BY <1>1 DEF CalTyped
  <2> QED
    BY <2>1, <2>2
<1>7. marks \subseteq marks' /\ marks' \subseteq Series \X Troubles
  BY <1>1, <1>3 DEF CalTyped, Troubles
<1>8. answer' \in [Series -> Int]
  BY <1>3 DEF CalTyped
<1>9. /\ master' \in [People -> [Series -> Row \cup {NoEvent}]] /\ occ' \in [People -> [Series -> SUBSET Detached]]
      /\ \A y \in Series \ {s} : master'["organizer"][y] = master["organizer"][y]
      /\ Exists("organizer", s) => master'["organizer"][s] = new
      /\ ~Exists("organizer", s) => master'["organizer"][s] = master["organizer"][s]
  <2>1. CASE Exists("organizer", s)
    <3>1. PICK os : os = IF delta = 0 THEN occ["organizer"][s] ELSE Realign(occ["organizer"][s], delta)
      OBVIOUS
    <3>2. os \in SUBSET Detached
      BY <1>1, <1>2, <3>1, RowsType, RealignIs, CalConstants
    <3>3. Put("organizer", s, <<new, os>>)
      BY <1>3, <2>1, <3>1
    <3>4. new \in Row \cup {NoEvent} /\ s \in Series /\ "organizer" \in People
      BY <1>1, <1>2, CalConstants
    <3>5. /\ master' \in [People -> [Series -> Row \cup {NoEvent}]] /\ occ' \in [People -> [Series -> SUBSET Detached]]
          /\ master'["organizer"][s] = new
          /\ \A x \in People, y \in Series :
                x # "organizer" \/ y # s => master'[x][y] = master[x][y] /\ occ'[x][y] = occ[x][y]
      BY <3>2, <3>3, <3>4, PutIs
    <3> QED
      BY <2>1, <3>4, <3>5
  <2>2. CASE ~Exists("organizer", s)
    BY <1>1, <1>3, <2>2 DEF CalTyped
  <2> QED
    BY <2>1, <2>2
<1>10. CalTyped'
  BY <1>4, <1>5, <1>7, <1>8, <1>9 DEF CalTyped
<1>11. ASSUME NEW x \in Series PROVE \/ RowKept(x)
                                     \/ x = s /\ (<<x, "stale">> \in marks' \/ (<<x, "moved">> \in marks' /\ master'["organizer"][x].st = "needs action"))
  <2>1. CASE x # s
    BY <1>3, <1>5, <1>9, <2>1 DEF RowKept, Exists
  <2>2. CASE x = s /\ ~Exists("organizer", s) /\ delta = 0
    BY <1>3, <1>6, <1>9, <2>2 DEF RowKept, Exists
  <2>3. CASE x = s /\ ~Exists("organizer", s) /\ delta # 0
    <3>1. Crossed(r)
      BY <1>1, <2>3, RowsAre DEF Crossed, Outdated, Exists, s, b, CommitAll, Ready
    <3> QED
      BY <1>3, <2>3, <3>1
  <2>4. CASE x = s /\ Exists("organizer", s) /\ req[r].op # "retitle"
    BY <1>2, <1>3, <1>9, <2>4
  <2>5. CASE x = s /\ Exists("organizer", s) /\ req[r].op = "retitle" /\ Crossed(r)
    BY <1>3, <2>5
  <2>6. CASE x = s /\ Exists("organizer", s) /\ req[r].op = "retitle" /\ ~Crossed(r)
    <3>1. master["organizer"][s] = b
      BY <2>6 DEF Crossed, Outdated, s, b, CommitAll, Ready
    <3> QED
      BY <1>2, <1>3, <1>6, <1>9, <2>6, <3>1 DEF RowKept, Exists
  <2> QED
    BY <2>1, <2>2, <2>3, <2>4, <2>5, <2>6
<1> QED
  BY <1>1, <1>4, <1>7, <1>10, <1>11 DEF Asking, s

LEMMA RowsStay ==
  ASSUME CalTyped, answer' = answer, gone' = gone, master'["organizer"] = master["organizer"]
  PROVE  \A s \in Series : RowKept(s)
  BY DEF RowKept, Exists

LEMMA SpreadAllIs ==
  ASSUME CalTyped, NEW r \in Requests, SpreadAll(r)
  PROVE  /\ CalTyped' /\ Asking(r) /\ req'[r].at = "done"
         /\ marks \subseteq marks' /\ \A s \in Series : RowKept(s)
<1> DEFINE s == req[r].s
           delta == req[r].slot
           b == req[r].read
<1>1. s \in Series /\ b \in Row /\ delta \in Int
  BY DEF CalTyped, Asked
<1>2. /\ IF Exists("attendee", s)
         THEN Put("attendee", s, <<b, IF delta = 0 THEN occ["attendee"][s]
                                      ELSE Realign(occ["attendee"][s], delta)>>)
         ELSE UNCHANGED <<master, occ>>
      /\ marks' = (IF Outdated(r) THEN marks \cup {<<s, "stale">>} ELSE marks)
      /\ Went(r, "done") /\ answer' = answer /\ gone' = gone
  BY DEF SpreadAll, MarkIf
<1> HIDE DEF s, delta, b
<1>3. /\ master' \in [People -> [Series -> Row \cup {NoEvent}]] /\ occ' \in [People -> [Series -> SUBSET Detached]]
      /\ \A y \in Series : master'["organizer"][y] = master["organizer"][y]
  <2>1. CASE Exists("attendee", s)
    <3>1. PICK os : os = IF delta = 0 THEN occ["attendee"][s] ELSE Realign(occ["attendee"][s], delta)
      OBVIOUS
    <3>2. os \in SUBSET Detached
      BY <1>1, <3>1, RowsType, RealignIs, CalConstants
    <3>3. Put("attendee", s, <<b, os>>)
      BY <1>2, <2>1, <3>1
    <3>4. b \in Row \cup {NoEvent} /\ s \in Series /\ "attendee" \in People /\ "organizer" \in People /\ "organizer" # "attendee"
      BY <1>1, CalConstants
    <3>5. /\ master' \in [People -> [Series -> Row \cup {NoEvent}]] /\ occ' \in [People -> [Series -> SUBSET Detached]]
          /\ \A x \in People, y \in Series : x # "attendee" \/ y # s => master'[x][y] = master[x][y]
      BY <3>2, <3>3, <3>4, PutIs
    <3> QED
      BY <3>4, <3>5
  <2>2. CASE ~Exists("attendee", s)
    BY <1>1, <1>2, <2>2 DEF CalTyped
  <2> QED
    BY <2>1, <2>2
<1>4. req' \in [Requests -> Asked] /\ req'[r].at = "done" /\ \A q \in Requests \ {r} : req'[q] = req[q]
  BY <1>2, WentIs
<1>5. marks \subseteq marks' /\ marks' \subseteq Series \X Troubles
  BY <1>1, <1>2 DEF CalTyped, Troubles
<1>6. CalTyped'
  BY <1>2, <1>3, <1>4, <1>5 DEF CalTyped
<1>7. \A y \in Series : RowKept(y)
  BY <1>2, <1>3 DEF RowKept, Exists
<1> QED
  BY <1>4, <1>5, <1>6, <1>7 DEF Asking

LEMMA ChangedIs ==
  ASSUME CalTyped, NEW r \in Requests, NEW o \in Detached
  PROVE  Changed(r, o) \in Detached /\ Changed(r, o).id = o.id /\ Changed(r, o).rid = o.rid
<1>1. PICK x, y : /\ x = (IF req[r].moved THEN req[r].slot + Shift ELSE o.at)
                  /\ y = (IF req[r].moved THEN "needs action" ELSE o.st)
  OBVIOUS
<1>2. req[r].slot \in Int
  BY DEF CalTyped, Asked
<1>3. x \in Int /\ y \in Status
  <2>1. o.at \in Int /\ o.st \in Status
    BY DEF Detached
  <2>2. req[r].slot + Shift \in Int
    BY <1>2 DEF Shift
  <2>3. x \in Int
    BY <1>1, <2>1, <2>2
  <2> QED
    BY <1>1, <2>1, <2>3 DEF Status
<1>4. Changed(r, o) = [o EXCEPT !.at = x, !.st = y]
  BY <1>1 DEF Changed
<1> QED
  BY <1>3, <1>4 DEF Detached

LEMMA CommitOverrideIs ==
  ASSUME CalTyped, NEW r \in Requests, CommitOverride(r)
  PROVE  /\ CalTyped' /\ Asking(r) /\ req'[r].at \in {"spread", "done"}
         /\ marks \subseteq marks' /\ \A s \in Series : RowKept(s)
<1> DEFINE s == req[r].s
           m == master["organizer"][s]
           os == occ["organizer"][s]
           made == [id |-> <<r, 1>>, rid |-> req[r].slot, at |-> req[r].slot, st |-> req[r].read.st]
           new == Changed(r, made)
<1>1. /\ s \in Series /\ req[r] \in Asked /\ req[r].rows \in SUBSET Detached
      /\ os \in SUBSET Detached /\ made \in Detached
  <2>1. req[r] \in Asked
    BY DEF CalTyped
  <2>2. s \in Series /\ req[r].rows \in SUBSET Detached /\ req[r].slot \in Int /\ req[r].read.st \in Status
    BY <2>1 DEF Asked, Row
  <2> QED
    BY <2>1, <2>2, RowsType, CalConstants DEF Detached
<1>2. new \in Detached
  BY <1>1, ChangedIs
<1>3. /\ IF req[r].rows # {}
         THEN \E o \in req[r].rows :
                /\ occ' = [occ EXCEPT !["organizer"][s] =
                              {IF x.id = o.id THEN Changed(r, o) ELSE x : x \in os}]
                /\ req' = [req EXCEPT ![r].at = "spread", ![r].rows = {Changed(r, o)}]
                /\ UNCHANGED <<master, gone>>
         ELSE IF Exists("organizer", s)
         THEN /\ Put("organizer", s, InsertOccurrence(m, os, new))
              /\ req' = [req EXCEPT ![r].at = "spread", ![r].rows = {new}]
              /\ gone' = [gone EXCEPT ![s] = @ \ {new.rid}]
         ELSE Went(r, "done") /\ UNCHANGED <<master, occ, gone>>
      /\ \E X, Y : marks' = marks \cup X \cup Y /\ X \subseteq {<<s, "stale">>} /\ Y \subseteq {<<s, "double">>}
      /\ answer' = answer
  <2>1. PICK X, Y : /\ X = IF Crossed(r) \/ \E o \in req[r].rows : \A x \in os : x.id # o.id
                           THEN {<<s, "stale">>} ELSE {}
                    /\ Y = IF req[r].rows = {} /\ \E o \in os : o.rid = new.rid THEN {<<s, "double">>} ELSE {}
    OBVIOUS
  <2>2. marks' = marks \cup X \cup Y
    BY <2>1 DEF CommitOverride
  <2>3. X \subseteq {<<s, "stale">>} /\ Y \subseteq {<<s, "double">>}
    BY <2>1
  <2>4. \E V, W : marks' = marks \cup V \cup W /\ V \subseteq {<<s, "stale">>} /\ W \subseteq {<<s, "double">>}
    BY <2>2, <2>3
  <2> QED
    BY <2>4 DEF CommitOverride
<1> HIDE DEF s, m, os, new, made
<1>4. marks \subseteq marks' /\ marks' \subseteq Series \X Troubles
  BY <1>1, <1>3 DEF CalTyped, Troubles
<1>5. ASSUME NEW x \in Detached, req' = [req EXCEPT ![r].at = "spread", ![r].rows = {x}]
      PROVE  req' \in [Requests -> Asked] /\ req'[r].at = "spread" /\ \A q \in Requests \ {r} : req'[q] = req[q]
  <2>1. PICK v : v = [req[r] EXCEPT !.at = "spread", !.rows = {x}]
    OBVIOUS
  <2>2. v \in Asked /\ v.at = "spread"
    BY <1>1, <2>1 DEF Asked
  <2>3. req' = [req EXCEPT ![r] = v]
    BY <1>5, <2>1 DEF CalTyped
  <2> QED
    BY <2>2, <2>3 DEF CalTyped
<1>6. CASE req[r].rows # {}
  <2>1. PICK o \in req[r].rows :
                /\ occ' = [occ EXCEPT !["organizer"][s] =
                              {IF x.id = o.id THEN Changed(r, o) ELSE x : x \in os}]
                /\ req' = [req EXCEPT ![r].at = "spread", ![r].rows = {Changed(r, o)}]
                /\ UNCHANGED <<master, gone>>
    BY <1>3, <1>6
  <2>2. o \in Detached
    BY <1>1
  <2>3. PICK n : n = Changed(r, o)
    OBVIOUS
  <2>4. n \in Detached
    BY <2>2, <2>3, ChangedIs
  <2>5. PICK v : v = {IF x.id = o.id THEN n ELSE x : x \in os}
    OBVIOUS
  <2>6. v \in SUBSET Detached
    BY <1>1, <2>4, <2>5
  <2>7. occ' = [occ EXCEPT !["organizer"][s] = v]
    BY <2>1, <2>3, <2>5
  <2>8. occ' \in [People -> [Series -> SUBSET Detached]]
    BY <1>1, <2>6, <2>7, CalConstants DEF CalTyped
  <2>9. req' \in [Requests -> Asked] /\ req'[r].at = "spread" /\ \A q \in Requests \ {r} : req'[q] = req[q]
    BY <1>5, <2>1, <2>3, <2>4
  <2>10. master' = master /\ gone' = gone
    BY <2>1
  <2>11. CalTyped'
    BY <1>3, <1>4, <2>8, <2>9, <2>10 DEF CalTyped
  <2> QED
    BY <1>3, <1>4, <2>9, <2>10, <2>11, RowsStay DEF Asking
<1>7. CASE req[r].rows = {} /\ Exists("organizer", s)
  <2>1. /\ Put("organizer", s, InsertOccurrence(m, os, new))
        /\ req' = [req EXCEPT ![r].at = "spread", ![r].rows = {new}]
        /\ gone' = [gone EXCEPT ![s] = @ \ {new.rid}]
    BY <1>3, <1>7
  <2>10. gone' \in [Series -> SUBSET Int] /\ \A y \in Series : gone'[y] \subseteq gone[y]
    BY <1>1, <2>1 DEF CalTyped
  <2>2. m \in Row
    BY <1>1, <1>7, RowsType, CalConstants DEF m
  <2>3. PICK w \in Row : /\ InsertOccurrence(m, os, new) = <<w, os \cup {new}>> /\ w.ex = m.ex \cup {new.rid}
                         /\ w.start = m.start /\ w.until = m.until /\ w.count = m.count /\ w.st = m.st
    BY <1>1, <1>2, <2>2, InsertIs
  <2>4. os \cup {new} \in SUBSET Detached /\ w \in Row \cup {NoEvent}
    BY <1>1, <1>2
  <2>5. Put("organizer", s, <<w, os \cup {new}>>)
    BY <2>1, <2>3
  <2>6. /\ master' \in [People -> [Series -> Row \cup {NoEvent}]] /\ occ' \in [People -> [Series -> SUBSET Detached]]
        /\ master'["organizer"][s] = w
        /\ \A x \in People, y \in Series :
              x # "organizer" \/ y # s => master'[x][y] = master[x][y] /\ occ'[x][y] = occ[x][y]
    BY <1>1, <2>4, <2>5, PutIs, CalConstants
  <2>7. req' \in [Requests -> Asked] /\ req'[r].at = "spread" /\ \A q \in Requests \ {r} : req'[q] = req[q]
    BY <1>2, <1>5, <2>1
  <2>8. CalTyped'
    BY <1>3, <1>4, <2>6, <2>7, <2>10 DEF CalTyped
  <2>9. ASSUME NEW y \in Series PROVE RowKept(y)
    <3>1. CASE y = s
      BY <1>3, <1>7, <2>3, <2>6, <2>10, <3>1 DEF RowKept, m
    <3>2. CASE y # s
      BY <1>3, <2>6, <2>10, <3>2, CalConstants DEF RowKept, Exists
    <3> QED
      BY <3>1, <3>2
  <2> QED
    BY <1>4, <2>7, <2>8, <2>9 DEF Asking
<1>8. CASE req[r].rows = {} /\ ~Exists("organizer", s)
  <2>1. Went(r, "done") /\ master' = master /\ occ' = occ /\ gone' = gone
    BY <1>3, <1>8
  <2>2. req' \in [Requests -> Asked] /\ req'[r].at = "done" /\ \A q \in Requests \ {r} : req'[q] = req[q]
    BY <2>1, WentIs
  <2>3. CalTyped'
    BY <1>3, <1>4, <2>1, <2>2 DEF CalTyped
  <2> QED
    BY <1>3, <1>4, <2>1, <2>2, <2>3, RowsStay DEF Asking
<1> QED
  BY <1>6, <1>7, <1>8

LEMMA SpreadOverrideIs ==
  ASSUME CalTyped, NEW r \in Requests, SpreadOverride(r)
  PROVE  /\ CalTyped' /\ Asking(r) /\ req'[r].at = "done"
         /\ marks \subseteq marks' /\ \A s \in Series : RowKept(s)
<1> DEFINE s == req[r].s
           m == master["attendee"][s]
           os == occ["attendee"][s]
<1>1. /\ s \in Series /\ req[r].rows \in SUBSET Detached /\ os \in SUBSET Detached
      /\ "attendee" \in People /\ "organizer" \in People
  BY RowsType, CalConstants DEF CalTyped, Asked
<1>2. PICK new \in req[r].rows :
          IF new.id[1] = r
          THEN IF Exists("attendee", s)
               THEN /\ Put("attendee", s, InsertOccurrence(m, os, [new EXCEPT !.id = <<r, 2>>]))
                    /\ MarkIf(s, "twin", \E o \in os : o.rid = new.rid)
               ELSE UNCHANGED <<master, occ, marks>>
          ELSE LET found == {o \in os : o.rid = new.rid} IN
               /\ UNCHANGED master
               /\ IF found = {} THEN UNCHANGED occ
                  ELSE \E o \in found : occ' = [occ EXCEPT !["attendee"][s] =
                            (@ \ {o}) \cup {[new EXCEPT !.id = o.id]}]
               /\ UNCHANGED marks
  BY DEF SpreadOverride
<1>3. Went(r, "done") /\ answer' = answer /\ gone' = gone
  BY DEF SpreadOverride
<1> HIDE DEF s, m, os
<1>4. new \in Detached
  BY <1>1
<1>5. ASSUME NEW i \in Requests \X {1, 2} PROVE [new EXCEPT !.id = i] \in Detached
  BY <1>4 DEF Detached
<1>6. /\ master' \in [People -> [Series -> Row \cup {NoEvent}]] /\ occ' \in [People -> [Series -> SUBSET Detached]]
      /\ marks \subseteq marks' /\ marks' \subseteq Series \X Troubles
      /\ \A y \in Series : master'["organizer"][y] = master["organizer"][y]
  <2>1. CASE new.id[1] = r /\ Exists("attendee", s)
    <3>1. PICK n : n = [new EXCEPT !.id = <<r, 2>>]
      OBVIOUS
    <3>2. n \in Detached /\ m \in Row
      <4>1. <<r, 2>> \in Requests \X {1, 2}
        OBVIOUS
      <4>2. n \in Detached
        BY <1>5, <3>1, <4>1
      <4> QED
        BY <1>1, <2>1, <4>2, RowsType DEF m
    <3>3. PICK w \in Row : /\ InsertOccurrence(m, os, n) = <<w, os \cup {n}>> /\ w.ex = m.ex \cup {n.rid}
                           /\ w.start = m.start /\ w.until = m.until /\ w.count = m.count /\ w.st = m.st
      BY <1>1, <3>2, InsertIs
    <3>4. Put("attendee", s, <<w, os \cup {n}>>) /\ w \in Row \cup {NoEvent} /\ os \cup {n} \in SUBSET Detached
      BY <1>1, <1>2, <2>1, <3>1, <3>2, <3>3
    <3>5. /\ master' \in [People -> [Series -> Row \cup {NoEvent}]] /\ occ' \in [People -> [Series -> SUBSET Detached]]
          /\ \A x \in People, y \in Series : x # "attendee" \/ y # s => master'[x][y] = master[x][y]
      BY <1>1, <3>4, PutIs
    <3>6. \E c \in BOOLEAN : marks' = IF c THEN marks \cup {<<s, "twin">>} ELSE marks
      BY <1>2, <2>1 DEF MarkIf
    <3> QED
      BY <1>1, <3>5, <3>6 DEF CalTyped, Troubles
  <2>2. CASE new.id[1] = r /\ ~Exists("attendee", s)
    BY <1>2, <2>2 DEF CalTyped
  <2>3. CASE new.id[1] # r /\ {o \in os : o.rid = new.rid} = {}
    BY <1>2, <2>3 DEF CalTyped
  <2>4. CASE new.id[1] # r /\ {o \in os : o.rid = new.rid} # {}
    <3>1. PICK o \in os : occ' = [occ EXCEPT !["attendee"][s] = (@ \ {o}) \cup {[new EXCEPT !.id = o.id]}]
      BY <1>2, <2>4
    <3>2. PICK n : n = [new EXCEPT !.id = o.id]
      OBVIOUS
    <3>3. n \in Detached
      <4>1. o.id \in Requests \X {1, 2}
        BY <1>1 DEF Detached
      <4> QED
        BY <1>5, <3>2, <4>1
    <3>4. PICK v : v = (os \ {o}) \cup {n}
      OBVIOUS
    <3>5. v \in SUBSET Detached
      BY <1>1, <3>3, <3>4
    <3>6. occ' = [occ EXCEPT !["attendee"][s] = v]
      BY <1>1, <3>1, <3>2, <3>4 DEF CalTyped, os
    <3>7. occ' \in [People -> [Series -> SUBSET Detached]]
      BY <1>1, <3>5, <3>6 DEF CalTyped
    <3>8. master' = master /\ marks' = marks
      BY <1>2, <2>4
    <3> QED
      BY <3>7, <3>8 DEF CalTyped
  <2> QED
    BY <2>1, <2>2, <2>3, <2>4
<1>7. req' \in [Requests -> Asked] /\ req'[r].at = "done" /\ \A q \in Requests \ {r} : req'[q] = req[q]
  BY <1>3, WentIs
<1>8. CalTyped'
  BY <1>3, <1>6, <1>7 DEF CalTyped
<1>9. \A y \in Series : RowKept(y)
  BY <1>3, <1>6 DEF RowKept, Exists
<1> QED
  BY <1>6, <1>7, <1>8, <1>9 DEF Asking

LEMMA CutIs ==
  ASSUME NEW m \in Row, NEW os \in SUBSET Detached, NEW d \in Nat
  PROVE  \E w \in Row : /\ SplitEvent(m, os, d) = <<w, {o \in os : o.rid < d}>>
                        /\ w.start = m.start /\ w.ex = m.ex /\ w.st = m.st /\ w.until = d - 1 /\ w.count = 0
<1>1. PICK u : u = d - 1
  OBVIOUS
<1>2. u \in Int
  BY <1>1
<1>3. PICK w : w = [m EXCEPT !.until = u, !.count = 0]
  OBVIOUS
<1>4. w \in Row /\ w.start = m.start /\ w.ex = m.ex /\ w.st = m.st /\ w.until = u /\ w.count = 0
  BY <1>2, <1>3 DEF Row
<1> QED
  BY <1>1, <1>3, <1>4 DEF SplitEvent

LEMMA NewSeriesIs ==
  ASSUME NEW m \in Row, NEW d \in Nat
  PROVE  /\ SplitSeries(m, d) \in Row
         /\ SplitSeries(m, d).start = d /\ SplitSeries(m, d).ex = m.ex /\ SplitSeries(m, d).st = m.st
<1>1. PICK w : w = [m EXCEPT !.start = d]
  OBVIOUS
<1>2. w \in Row /\ w.start = d /\ w.ex = m.ex /\ w.st = m.st
  BY <1>1 DEF Row
<1>3. PICK u : u = d + Period * (m.count - 1)
  OBVIOUS
<1>4. u \in Int
  BY <1>3 DEF Row, Period
<1>5. PICK v : v = [w EXCEPT !.until = u, !.count = 0]
  OBVIOUS
<1>6. v \in Row /\ v.start = d /\ v.ex = m.ex /\ v.st = m.st
  BY <1>2, <1>4, <1>5 DEF Row
<1>7. SplitSeries(m, d) = IF m.count = 0 THEN w ELSE v
  BY <1>1, <1>3, <1>5 DEF SplitSeries
<1> QED
  BY <1>2, <1>6, <1>7

(* The new series takes over the row, the answer and what was deleted.     *)
Taken(s, n, d) ==
    LET old == master["organizer"][s]
        new == master'["organizer"][n]
    IN \/ <<n, "stale">> \in marks'
       \/ /\ Exists("organizer", s) /\ old \in Row /\ d % Period = old.start % Period
          /\ new.start = d /\ new.st = old.st /\ old.ex \subseteq new.ex
          /\ answer'[n] = answer[s] /\ gone'[n] \subseteq gone[s]
          /\ \A t \in Troubles : <<s, t>> \in marks => <<n, t>> \in marks'

LEMMA CommitSplitIs ==
  ASSUME CalTyped, NEW r \in Requests, CommitSplit(r), req[r].slot \in Nat,
         req[r].slot % Period = req[r].read.start % Period, ~Exists("organizer", r + 1)
  PROVE  /\ CalTyped' /\ Asking(r) /\ req'[r].at = "spread"
         /\ marks \subseteq marks'
         /\ \A s \in Series : \/ RowKept(s)
                              \/ s = r + 1 /\ ~Exists("organizer", s)'
                              \/ s = r + 1 /\ Taken(req[r].s, r + 1, req[r].slot)
<1> DEFINE s == req[r].s
           d == req[r].slot
           b == req[r].read
           there == Exists("organizer", s)
           cut == SplitEvent(master["organizer"][s], occ["organizer"][s], d)
           old == IF there THEN cut ELSE <<NoEvent, occ["organizer"][s]>>
           new == SplitSeries(b, d)
<1>1. /\ s \in Series /\ b \in Row /\ req[r] \in Asked /\ occ["organizer"][s] \in SUBSET Detached
      /\ "organizer" \in People /\ r + 1 \in Series
  BY RowsType, CalConstants DEF CalTyped, Asked
<1>2. new \in Row /\ new.start = d /\ new.ex = b.ex /\ new.st = b.st
  BY <1>1, NewSeriesIs
<1>3. /\ master' = [master EXCEPT !["organizer"] = Continued(r, "organizer", old[1], new)]
      /\ occ' = [occ EXCEPT !["organizer"][s] = old[2]]
      /\ req' = [req EXCEPT ![r].at = "spread", ![r].rows = occ["organizer"][s] \ old[2],
                            ![r].read = IF there THEN cut[1] ELSE @, ![r].new = new]
      /\ gone' = [gone EXCEPT ![s] = {x \in @ : x < d}, ![r + 1] = {x \in gone[s] : x >= d}]
      /\ answer' = [answer EXCEPT ![r + 1] = answer[s]]
      /\ marks' = marks \cup {<<r + 1, m>> : m \in {m \in Troubles : <<s, m>> \in marks}}
                        \cup (IF Crossed(r) THEN {<<s, "stale">>, <<r + 1, "stale">>} ELSE {})
  BY DEF CommitSplit
<1> HIDE DEF s, d, b, there, cut, old, new
<1>4. PICK x, os : x = old[1] /\ os = old[2]
  OBVIOUS
<1>5. /\ x \in Row \cup {NoEvent} /\ os \in SUBSET Detached
      /\ there => /\ x \in Row /\ x = cut[1] /\ x.start = master["organizer"][s].start
                  /\ x.ex = master["organizer"][s].ex /\ x.st = master["organizer"][s].st
      /\ ~there => x = NoEvent
  <2>1. CASE there
    <3>1. master["organizer"][s] \in Row /\ d \in Nat
      BY <1>1, <2>1, RowsType DEF there, d
    <3>2. PICK w \in Row : /\ cut = <<w, {o \in occ["organizer"][s] : o.rid < d}>>
                           /\ w.start = master["organizer"][s].start /\ w.ex = master["organizer"][s].ex
                           /\ w.st = master["organizer"][s].st
      <4>1. \E w \in Row :
               /\ SplitEvent(master["organizer"][s], occ["organizer"][s], d) =
                     <<w, {o \in occ["organizer"][s] : o.rid < d}>>
               /\ w.start = master["organizer"][s].start /\ w.ex = master["organizer"][s].ex
               /\ w.st = master["organizer"][s].st
        <5> DEFINE m == master["organizer"][s]
                   was == occ["organizer"][s]
        <5>1. m \in Row /\ was \in SUBSET Detached /\ d \in Nat
          BY <1>1, <3>1
        <5> HIDE DEF m, was
        <5>2. \E w \in Row : /\ SplitEvent(m, was, d) = <<w, {o \in was : o.rid < d}>>
                             /\ w.start = m.start /\ w.ex = m.ex /\ w.st = m.st
          BY <5>1, CutIs
        <5> QED
          BY <5>2 DEF m, was
      <4> QED
        BY <4>1 DEF cut
    <3>3. x = w /\ os = {o \in occ["organizer"][s] : o.rid < d} /\ x = cut[1]
      BY <1>4, <2>1, <3>2 DEF old
    <3> QED
      BY <1>1, <2>1, <3>2, <3>3
  <2>2. CASE ~there
    <3>1. x = NoEvent /\ os = occ["organizer"][s]
      BY <1>4, <2>2 DEF old
    <3> QED
      BY <1>1, <2>2, <3>1
  <2> QED
    BY <2>1, <2>2
<1>6. /\ master' \in [People -> [Series -> Row \cup {NoEvent}]]
      /\ master'["organizer"][s] = x
      /\ r + 1 # s /\ req[r].op = "split" => master'["organizer"][r + 1] = new
      /\ \A y \in Series : y # s /\ ~(y = r + 1 /\ req[r].op = "split") => master'["organizer"][y] = master["organizer"][y]
  <2>1. PICK f : f = Continued(r, "organizer", x, new)
    OBVIOUS
  <2>2. f = [y \in Series |-> IF y = s THEN x
                              ELSE IF y = r + 1 /\ req[r].op = "split" THEN new
                              ELSE master["organizer"][y]]
    BY <2>1 DEF Continued, s
  <2>3. f \in [Series -> Row \cup {NoEvent}]
    BY <1>1, <1>2, <1>5, <2>2 DEF CalTyped
  <2>4. master' = [master EXCEPT !["organizer"] = f]
    BY <1>3, <1>4, <2>1
  <2>5. master' \in [People -> [Series -> Row \cup {NoEvent}]] /\ master'["organizer"] = f
    BY <1>1, <2>3, <2>4 DEF CalTyped
  <2> QED
    BY <1>1, <2>2, <2>5
<1>7. occ' \in [People -> [Series -> SUBSET Detached]]
  <2>1. occ' = [occ EXCEPT !["organizer"][s] = os]
    BY <1>3, <1>4
  <2> QED
    BY <1>1, <1>5, <2>1 DEF CalTyped
<1>8. req' \in [Requests -> Asked] /\ req'[r].at = "spread" /\ \A q \in Requests \ {r} : req'[q] = req[q]
  <2>1. PICK c : c = IF there THEN cut[1] ELSE b
    OBVIOUS
  <2>2. c \in Row
    BY <1>1, <1>5, <2>1
  <2>3. PICK gap : gap = occ["organizer"][s] \ old[2]
    OBVIOUS
  <2>4. gap \in SUBSET Detached
    BY <1>1, <2>3
  <2>5. PICK v : v = [req[r] EXCEPT !.at = "spread", !.rows = gap, !.read = c, !.new = new]
    OBVIOUS
  <2>6. v \in Asked /\ v.at = "spread"
    BY <1>1, <1>2, <2>2, <2>4, <2>5 DEF Asked
  <2>7. req' = [req EXCEPT ![r] = v]
    BY <1>1, <1>3, <2>1, <2>3, <2>5 DEF CalTyped, Asked, b
  <2> QED
    BY <2>6, <2>7 DEF CalTyped
<1>9. /\ gone' \in [Series -> SUBSET Int] /\ answer' \in [Series -> Int]
      /\ gone'[r + 1] \subseteq gone[s] /\ answer'[r + 1] = answer[s]
      /\ \A y \in Series \ {r + 1} : gone'[y] \subseteq gone[y] /\ answer'[y] = answer[y]
  <2>1. gone[s] \in SUBSET Int /\ answer[s] \in Int
    BY <1>1 DEF CalTyped
  <2>2. PICK g, h : g = {y \in gone[s] : y < d} /\ h = {y \in gone[s] : y >= d}
    OBVIOUS
  <2>3. gone' = [gone EXCEPT ![s] = g, ![r + 1] = h]
    BY <1>3, <2>2
  <2>4. g \in SUBSET gone[s] /\ h \in SUBSET gone[s]
    BY <2>2
  <2>5. g \in SUBSET Int /\ h \in SUBSET Int
    BY <2>1, <2>4
  <2> HIDE <1>3
  <2>6. gone \in [Series -> SUBSET Int] /\ answer \in [Series -> Int]
    BY DEF CalTyped
  <2>7. gone' \in [Series -> SUBSET Int]
    BY <2>3, <2>5, <2>6
  <2>8. gone'[r + 1] = h
    BY <1>1, <2>3, <2>6
  <2>9. \A y \in Series \ {r + 1} : gone'[y] = IF y = s THEN g ELSE gone[y]
    BY <1>1, <2>3, <2>6
  <2>10. answer' \in [Series -> Int] /\ answer'[r + 1] = answer[s] /\ \A y \in Series \ {r + 1} : answer'[y] = answer[y]
    BY <1>1, <1>3, <2>1, <2>6
  <2> QED
    BY <2>4, <2>7, <2>8, <2>9, <2>10
<1>10. /\ marks \subseteq marks' /\ marks' \subseteq Series \X Troubles
       /\ Crossed(r) => <<r + 1, "stale">> \in marks'
       /\ \A t \in Troubles : <<s, t>> \in marks => <<r + 1, t>> \in marks'
  <2>1. PICK T : T = {m \in Troubles : <<s, m>> \in marks}
    OBVIOUS
  <2>2. PICK U : U = {<<r + 1, m>> : m \in T}
    OBVIOUS
  <2>3. U \subseteq Series \X Troubles
    <3>1. ASSUME NEW m \in T PROVE <<r + 1, m>> \in Series \X Troubles
      BY <1>1, <2>1
    <3> QED
      BY <2>2, <3>1
  <2>4. marks' = marks \cup U \cup (IF Crossed(r) THEN {<<s, "stale">>, <<r + 1, "stale">>} ELSE {})
    BY <1>3, <2>1, <2>2
  <2>5. marks \subseteq Series \X Troubles /\ "stale" \in Troubles
    BY DEF CalTyped, Troubles
  <2>6. marks \subseteq marks' /\ marks' \subseteq Series \X Troubles
    BY <1>1, <2>3, <2>4, <2>5
  <2>7. Crossed(r) => <<r + 1, "stale">> \in marks'
    BY <2>4
  <2>8. ASSUME NEW t \in Troubles, <<s, t>> \in marks PROVE <<r + 1, t>> \in marks'
    BY <2>1, <2>2, <2>4, <2>8
  <2> QED
    BY <2>6, <2>7, <2>8
<1>11. CalTyped'
  BY <1>6, <1>7, <1>8, <1>9, <1>10 DEF CalTyped
<1>12. ASSUME NEW y \in Series
       PROVE  RowKept(y) \/ (y = r + 1 /\ ~Exists("organizer", y)') \/ (y = r + 1 /\ Taken(s, r + 1, d))
  <2>1. CASE y = s
    <3>1. answer'[y] = answer[y] /\ gone'[y] \subseteq gone[y]
      BY <1>9, <2>1
    <3>2. CASE there
      BY <1>5, <1>6, <2>1, <3>1, <3>2 DEF RowKept, there
    <3>3. CASE ~there
      BY <1>5, <1>6, <2>1, <3>1, <3>3 DEF RowKept, Exists
    <3> QED
      BY <3>2, <3>3
  <2>2. CASE y # s /\ y # r + 1
    BY <1>6, <1>9, <2>2 DEF RowKept, Exists
  <2>3. CASE y # s /\ y = r + 1 /\ req[r].op # "split"
    BY <1>6, <2>3 DEF Exists
  <2>4. CASE y # s /\ y = r + 1 /\ req[r].op = "split" /\ Crossed(r)
    BY <1>10, <2>4 DEF Taken
  <2>5. CASE y # s /\ y = r + 1 /\ req[r].op = "split" /\ ~Crossed(r)
    <3>1. master["organizer"][s] = b
      BY <2>5 DEF Crossed, Outdated, CommitSplit, Ready, s, b
    <3>2. Exists("organizer", s)
      BY <1>1, <3>1, RowsType
    <3>3. d % Period = b.start % Period
      BY DEF d, b
    <3> QED
      BY <1>1, <1>2, <1>6, <1>9, <1>10, <2>5, <3>1, <3>2, <3>3 DEF Taken
  <2> QED
    BY <2>1, <2>2, <2>3, <2>4, <2>5
<1> QED
  BY <1>8, <1>10, <1>11, <1>12 DEF Asking, s, d

LEMMA SpreadSplitIs ==
  ASSUME CalTyped, NEW r \in Requests, SpreadSplit(r)
  PROVE  /\ CalTyped' /\ Asking(r) /\ req'[r].at = "done"
         /\ marks \subseteq marks' /\ \A s \in Series : RowKept(s)
<1> DEFINE s == req[r].s
           os == occ["attendee"][s]
           rids == {o.rid : o \in req[r].rows}
           hit == {o \in os : o.rid \in rids}
           kept == (os \ hit) \cup {o \in hit :
                       NoMoreThan({x \in req[r].rows : x.rid = o.rid},
                                  {x \in hit : x.rid = o.rid /\ x.id[1] < o.id[1]})}
           old == IF Exists("attendee", s)
                  THEN [req[r].read EXCEPT !.ex = @ \cup {o.rid : o \in hit}] ELSE NoEvent
<1>1. /\ s \in Series /\ req[r].read \in Row /\ req[r].new \in Row \cup {NoEvent} /\ os \in SUBSET Detached
      /\ "attendee" \in People /\ "organizer" \in People
  BY RowsType, CalConstants DEF CalTyped, Asked
<1>2. /\ master' = [master EXCEPT !["attendee"] = Continued(r, "attendee", old, req[r].new)]
      /\ occ' = [occ EXCEPT !["attendee"][s] = kept]
      /\ marks' = marks \cup (IF Outdated(r) THEN {<<s, "stale">>} ELSE {})
      /\ Went(r, "done") /\ answer' = answer /\ gone' = gone
  BY DEF SpreadSplit
<1>3. kept \in SUBSET os /\ hit \in SUBSET os
  OBVIOUS
<1> HIDE DEF kept, hit
<1>4. old \in Row \cup {NoEvent}
  <2>1. PICK e : e = req[r].read.ex \cup {o.rid : o \in hit}
    OBVIOUS
  <2>2. req[r].read.ex \subseteq Int
    BY <1>1 DEF Row
  <2>3. \A o \in hit : o.rid \in Int
    BY <1>1, <1>3 DEF Detached
  <2>4. e \in SUBSET Int
    BY <2>1, <2>2, <2>3
  <2>5. PICK b : b = req[r].read
    OBVIOUS
  <2>6. b \in Row
    BY <1>1, <2>5
  <2>7. [b EXCEPT !.ex = e] \in Row
    BY <2>4, <2>6 DEF Row
  <2>8. old = IF Exists("attendee", s) THEN [b EXCEPT !.ex = e] ELSE NoEvent
    BY <1>1, <2>1, <2>5 DEF Row
  <2> QED
    BY <2>7, <2>8
<1> HIDE DEF s, os, old
<1>5. master' \in [People -> [Series -> Row \cup {NoEvent}]] /\ master'["organizer"] = master["organizer"]
  <2>1. PICK f : f = Continued(r, "attendee", old, req[r].new)
    OBVIOUS
  <2>2. f \in [Series -> Row \cup {NoEvent}]
    BY <1>1, <1>4, <2>1 DEF Continued, CalTyped
  <2>3. master' = [master EXCEPT !["attendee"] = f]
    BY <1>2, <2>1
  <2> QED
    BY <1>1, <2>2, <2>3 DEF CalTyped
<1>6. occ' \in [People -> [Series -> SUBSET Detached]]
  BY <1>1, <1>2, <1>3 DEF CalTyped
<1>7. req' \in [Requests -> Asked] /\ req'[r].at = "done" /\ \A q \in Requests \ {r} : req'[q] = req[q]
  BY <1>2, WentIs
<1>8. marks \subseteq marks' /\ marks' \subseteq Series \X Troubles
  BY <1>1, <1>2 DEF CalTyped, Troubles
<1>9. CalTyped'
  BY <1>2, <1>5, <1>6, <1>7, <1>8 DEF CalTyped
<1> QED
  BY <1>2, <1>5, <1>7, <1>8, <1>9, RowsStay DEF Asking

(* What an organizer's cancel does to the row of its own.                  *)
LEMMA CommitCancelIs ==
  ASSUME CalTyped, NEW r \in Requests, CommitCancel(r)
  PROVE  /\ CalTyped' /\ Asking(r) /\ req'[r].at \in {"spread", "done"}
         /\ marks \subseteq marks'
         /\ \A s \in Series : \/ RowKept(s)
                              \/ /\ Exists("organizer", s) /\ Exists("organizer", s)'
                                 /\ master'["organizer"][s].start = master["organizer"][s].start
                                 /\ master'["organizer"][s].st = master["organizer"][s].st
                                 /\ answer'[s] = answer[s]
                                 /\ \E d \in Int : /\ master["organizer"][s].ex \cup {d} \subseteq master'["organizer"][s].ex
                                                   /\ gone'[s] = gone[s] \cup {d}
<1> DEFINE p == req[r].who
           s == req[r].s
           d == req[r].slot
           b == req[r].read
           m == master[p][s]
           os == occ[p][s]
           rows == GetOrCreate(m, os, b, d, <<r, 1>>)
<1>1. p \in People /\ s \in Series /\ d \in Int /\ b \in Row /\ os \in SUBSET Detached
  BY RowsType DEF CalTyped, Asked
<1>2. /\ answer' = answer
      /\ IF ~Exists(p, s) THEN Went(r, "done") /\ UNCHANGED <<master, occ, gone, marks>>
         ELSE /\ \E o \in {o \in rows[2] : o.rid = d} : Put(p, s, DeleteOccurrence(rows[1], rows[2], o))
              /\ Went(r, IF p = "organizer" THEN "spread" ELSE "done")
              /\ gone' = IF p = "organizer" THEN [gone EXCEPT ![s] = @ \cup {d}] ELSE gone
              /\ marks' = marks \cup (IF p = "attendee" THEN {<<s, "own">>} ELSE {})
                                \cup (IF Crossed(r) THEN {<<s, "stale">>} ELSE {})
  BY DEF CommitCancel
<1> HIDE DEF p, s, d, b, m, os, rows
<1>3. CASE ~Exists(p, s)
  <2>1. Went(r, "done") /\ master' = master /\ occ' = occ /\ gone' = gone /\ marks' = marks
    BY <1>2, <1>3
  <2>2. req' \in [Requests -> Asked] /\ req'[r].at = "done" /\ \A q \in Requests \ {r} : req'[q] = req[q]
    BY <2>1, WentIs
  <2>3. CalTyped'
    BY <1>2, <2>1, <2>2 DEF CalTyped
  <2> QED
    BY <1>2, <2>1, <2>2, <2>3, RowsStay DEF Asking
<1>4. CASE Exists(p, s)
  <2>1. /\ \E o \in {o \in rows[2] : o.rid = d} : Put(p, s, DeleteOccurrence(rows[1], rows[2], o))
        /\ Went(r, IF p = "organizer" THEN "spread" ELSE "done")
        /\ gone' = IF p = "organizer" THEN [gone EXCEPT ![s] = @ \cup {d}] ELSE gone
        /\ marks' = marks \cup (IF p = "attendee" THEN {<<s, "own">>} ELSE {})
                          \cup (IF Crossed(r) THEN {<<s, "stale">>} ELSE {})
    BY <1>2, <1>4
  <2>2. m \in Row
    BY <1>1, <1>4, RowsType DEF m
  <2>3. PICK w \in Row, n \in SUBSET Detached :
            /\ rows = <<w, n>> /\ \E o \in n : o.rid = d
            /\ w.start = m.start /\ w.until = m.until /\ w.count = m.count /\ w.st = m.st
            /\ \/ w = m /\ n = os
               \/ /\ w.ex = m.ex \cup {d} /\ \A o \in os : o.rid # d
                  /\ \E o \in Detached : n = os \cup {o} /\ o.rid = d /\ o.at = d /\ o.id = <<r, 1>>
    <3>1. rows = GetOrCreate(m, os, b, d, <<r, 1>>)
      BY DEF rows
    <3> QED
      <4>1. /\ m \in Row /\ os \in SUBSET Detached /\ b \in Row /\ d \in Int /\ r \in Requests
        BY <1>1, <2>2
      <4>2. \E w \in Row, n \in SUBSET Detached : Gotten(m, os, d, r, GetOrCreate(m, os, b, d, <<r, 1>>), w, n)
        BY ONLY <4>1, GetOrCreateIs
      <4>3. PICK w \in Row, n \in SUBSET Detached : Gotten(m, os, d, r, rows, w, n)
        BY <3>1, <4>2
      <4> QED
        BY <4>3 DEF Gotten
  <2>4. PICK o \in n : o.rid = d /\ Put(p, s, DeleteOccurrence(w, n, o))
    BY <2>1, <2>3
  <2>5. PICK v \in Row : /\ DeleteOccurrence(w, n, o) = <<v, n \ {o}>> /\ v.ex = w.ex \cup {o.rid}
                         /\ v.start = w.start /\ v.until = w.until /\ v.count = w.count /\ v.st = w.st
    BY DeleteIs
  <2>6. Put(p, s, <<v, n \ {o}>>) /\ v \in Row \cup {NoEvent} /\ n \ {o} \in SUBSET Detached
    BY <2>4, <2>5
  <2>7. /\ master' \in [People -> [Series -> Row \cup {NoEvent}]] /\ occ' \in [People -> [Series -> SUBSET Detached]]
        /\ master'[p][s] = v
        /\ \A x \in People, y \in Series : x # p \/ y # s => master'[x][y] = master[x][y]
    BY <1>1, <2>6, PutIs
  <2>8. m.ex \cup {d} \subseteq v.ex /\ v.start = m.start /\ v.st = m.st
    BY <2>3, <2>4, <2>5
  <2>9. /\ req' \in [Requests -> Asked] /\ req'[r].at \in {"spread", "done"} /\ \A q \in Requests \ {r} : req'[q] = req[q]
    <3>1. CASE p = "organizer"
      BY <2>1, <3>1, WentIs
    <3>2. CASE p # "organizer"
      BY <2>1, <3>2, WentIs
    <3> QED
      BY <3>1, <3>2
  <2>10. marks \subseteq marks' /\ marks' \subseteq Series \X Troubles
    BY <1>1, <2>1 DEF CalTyped, Troubles
  <2>11. /\ gone' \in [Series -> SUBSET Int]
         /\ p = "organizer" => gone'[s] = gone[s] \cup {d} /\ \A y \in Series \ {s} : gone'[y] = gone[y]
         /\ p # "organizer" => gone' = gone
    <3>1. PICK g : g = gone[s] \cup {d}
      OBVIOUS
    <3>2. g \in SUBSET Int
      BY <1>1, <3>1 DEF CalTyped
    <3>3. gone' = IF p = "organizer" THEN [gone EXCEPT ![s] = g] ELSE gone
      BY <1>1, <2>1, <3>1 DEF CalTyped
    <3> QED
      BY <1>1, <3>1, <3>2, <3>3 DEF CalTyped
  <2>12. CalTyped'
    BY <1>2, <2>7, <2>9, <2>10, <2>11 DEF CalTyped
  <2>13. CASE p # "organizer"
    <3>1. \A y \in Series : master'["organizer"][y] = master["organizer"][y]
      BY <2>7, <2>13, CalConstants
    <3>2. \A y \in Series : RowKept(y)
      BY <1>2, <2>11, <2>13, <3>1 DEF RowKept, Exists
    <3> QED
      BY <2>9, <2>10, <2>12, <3>2 DEF Asking
  <2>14. CASE p = "organizer"
    <3>1. /\ Exists("organizer", s) /\ master'["organizer"][s] # NoEvent
          /\ master'["organizer"][s].start = master["organizer"][s].start
          /\ master'["organizer"][s].st = master["organizer"][s].st
          /\ answer'[s] = answer[s]
          /\ master["organizer"][s].ex \cup {d} \subseteq master'["organizer"][s].ex
          /\ gone'[s] = gone[s] \cup {d}
      <4>1. m = master["organizer"][s] /\ v = master'["organizer"][s]
        BY <2>7, <2>14 DEF m
      <4>2. Exists("organizer", s) /\ master'["organizer"][s] # NoEvent
        BY <1>4, <2>14, <4>1, RowsAre DEF Exists
      <4> QED
        BY <1>2, <2>8, <2>11, <2>14, <4>1, <4>2
    <3>2. \A y \in Series \ {s} : RowKept(y)
      BY <1>2, <2>7, <2>11, <2>14, CalConstants DEF RowKept, Exists
    <3>3. ASSUME NEW y \in Series
          PROVE  \/ RowKept(y)
                 \/ /\ Exists("organizer", y) /\ Exists("organizer", y)'
                    /\ master'["organizer"][y].start = master["organizer"][y].start
                    /\ master'["organizer"][y].st = master["organizer"][y].st
                    /\ answer'[y] = answer[y]
                    /\ \E c \in Int : /\ master["organizer"][y].ex \cup {c} \subseteq master'["organizer"][y].ex
                                      /\ gone'[y] = gone[y] \cup {c}
      <4>1. CASE y # s
        BY <3>2, <4>1
      <4>2. CASE y = s
        BY <1>1, <3>1, <4>2 DEF Exists
      <4> QED
        BY <4>1, <4>2
    <3> QED
      BY <2>9, <2>10, <2>12, <3>3 DEF Asking
  <2> QED
    BY <2>13, <2>14
<1> QED
  BY <1>3, <1>4

LEMMA SpreadCancelIs ==
  ASSUME CalTyped, NEW r \in Requests, SpreadCancel(r)
  PROVE  /\ CalTyped' /\ Asking(r) /\ req'[r].at = "done"
         /\ marks \subseteq marks' /\ \A s \in Series : RowKept(s)
<1> DEFINE s == req[r].s
           m == master["attendee"][s]
           os == occ["attendee"][s]
           found == {o \in os : o.rid = req[r].slot}
<1>1. s \in Series /\ os \in SUBSET Detached /\ "attendee" \in People /\ "organizer" \in People
  BY RowsType, CalConstants DEF CalTyped, Asked
<1>2. /\ IF Exists("attendee", s) /\ found # {}
         THEN \E o \in found : Put("attendee", s, DeleteOccurrence(m, os, o))
         ELSE UNCHANGED <<master, occ>>
      /\ Went(r, "done") /\ answer' = answer /\ gone' = gone /\ marks' = marks
  BY DEF SpreadCancel
<1>3. found \subseteq os
  OBVIOUS
<1> HIDE DEF s, m, os, found
<1>4. /\ master' \in [People -> [Series -> Row \cup {NoEvent}]] /\ occ' \in [People -> [Series -> SUBSET Detached]]
      /\ \A y \in Series : master'["organizer"][y] = master["organizer"][y]
  <2>1. CASE Exists("attendee", s) /\ found # {}
    <3>1. PICK o \in found : Put("attendee", s, DeleteOccurrence(m, os, o))
      BY <1>2, <2>1
    <3>2. m \in Row /\ o \in Detached
      BY <1>1, <1>3, <2>1, RowsType DEF m
    <3>3. PICK w \in Row : /\ DeleteOccurrence(m, os, o) = <<w, os \ {o}>> /\ w.ex = m.ex \cup {o.rid}
                           /\ w.start = m.start /\ w.until = m.until /\ w.count = m.count /\ w.st = m.st
      BY <1>1, <3>2, DeleteIs
    <3>4. Put("attendee", s, <<w, os \ {o}>>) /\ w \in Row \cup {NoEvent} /\ os \ {o} \in SUBSET Detached
      BY <1>1, <3>1, <3>3
    <3>5. /\ master' \in [People -> [Series -> Row \cup {NoEvent}]] /\ occ' \in [People -> [Series -> SUBSET Detached]]
          /\ \A x \in People, y \in Series : x # "attendee" \/ y # s => master'[x][y] = master[x][y]
      BY <1>1, <3>4, PutIs
    <3> QED
      BY <1>1, <3>5
  <2>2. CASE ~(Exists("attendee", s) /\ found # {})
    BY <1>2, <2>2 DEF CalTyped
  <2> QED
    BY <2>1, <2>2
<1>5. req' \in [Requests -> Asked] /\ req'[r].at = "done" /\ \A q \in Requests \ {r} : req'[q] = req[q]
  BY <1>2, WentIs
<1>6. CalTyped'
  BY <1>2, <1>4, <1>5 DEF CalTyped
<1>7. \A y \in Series : RowKept(y)
  BY <1>2, <1>4 DEF RowKept, Exists
<1> QED
  BY <1>2, <1>5, <1>6, <1>7 DEF Asking

LEMMA DeleteSteps ==
  ASSUME CalTyped, NEW r \in Requests, CommitDelete(r) \/ SpreadDelete(r)
  PROVE  /\ CalTyped' /\ Asking(r) /\ req'[r].at \in {"spread", "done"}
         /\ marks \subseteq marks' /\ \A s \in Series : RowKept(s)
<1>1. PICK s, p : /\ s = req[r].s /\ p \in People /\ Put(p, s, <<NoEvent, {}>>)
                  /\ Went(r, "spread") \/ Went(r, "done")
                  /\ marks' = marks \/ marks' = marks \cup {<<s, "own">>}
                  /\ answer' = answer /\ gone' = gone
  <2>1. req[r].who \in People /\ "attendee" \in People
    BY CalConstants DEF CalTyped, Asked
  <2>2. CASE CommitDelete(r)
    BY <2>1, <2>2 DEF CommitDelete, MarkIf
  <2>3. CASE SpreadDelete(r)
    BY <2>1, <2>3 DEF SpreadDelete
  <2> QED
    BY <2>2, <2>3
<1>2. s \in Series /\ NoEvent \in Row \cup {NoEvent} /\ {} \in SUBSET Detached
  BY <1>1 DEF CalTyped, Asked
<1>3. /\ master' \in [People -> [Series -> Row \cup {NoEvent}]] /\ occ' \in [People -> [Series -> SUBSET Detached]]
      /\ master'[p][s] = NoEvent
      /\ \A x \in People, y \in Series : x # p \/ y # s => master'[x][y] = master[x][y]
  <2>1. p \in People /\ Put(p, s, <<NoEvent, {}>>)
    BY <1>1
  <2> QED
    BY <1>2, <2>1, PutIs
<1>4. req' \in [Requests -> Asked] /\ req'[r].at \in {"spread", "done"} /\ \A q \in Requests \ {r} : req'[q] = req[q]
  <2>1. CASE Went(r, "spread")
    BY <2>1, WentIs
  <2>2. CASE Went(r, "done")
    BY <2>2, WentIs
  <2> QED
    BY <1>1, <2>1, <2>2
<1>5. marks \subseteq marks' /\ marks' \subseteq Series \X Troubles
  BY <1>1, <1>2 DEF CalTyped, Troubles
<1>6. CalTyped'
  BY <1>1, <1>3, <1>4, <1>5 DEF CalTyped
<1>7. ASSUME NEW y \in Series PROVE RowKept(y)
  <2>1. \/ master'["organizer"][y] = NoEvent
        \/ master'["organizer"][y] = master["organizer"][y]
    BY <1>3, CalConstants
  <2> QED
    BY <1>1, <2>1 DEF RowKept, Exists
<1> QED
  BY <1>4, <1>5, <1>6, <1>7 DEF Asking

LEMMA CommitAcceptIs ==
  ASSUME CalTyped, NEW r \in Requests, CommitAccept(r)
  PROVE  /\ CalTyped' /\ Asking(r) /\ req'[r].at \in {"spread", "done"}
         /\ marks \subseteq marks' /\ \A s \in Series : RowKept(s)
<1> DEFINE s == req[r].s
           accept == req[r].op = "accept"
           new == IF accept THEN [req[r].read EXCEPT !.st = "accepted"] ELSE req[r].read
<1>1. s \in Series /\ req[r].read \in Row /\ "attendee" \in People /\ "organizer" \in People
  BY CalConstants DEF CalTyped, Asked
<1>2. new \in Row
  BY <1>1 DEF Row, Status
<1>3. /\ master' = (IF Exists("attendee", s) THEN [master EXCEPT !["attendee"][s] = new] ELSE master)
      /\ Went(r, IF accept THEN "spread" ELSE "done")
      /\ marks' = (IF Outdated(r) THEN marks \cup {<<s, "stale">>} ELSE marks)
      /\ occ' = occ /\ answer' = answer /\ gone' = gone
  BY DEF CommitAccept, MarkIf
<1> HIDE DEF s, accept, new
<1>4. /\ master' \in [People -> [Series -> Row \cup {NoEvent}]]
      /\ master'["organizer"] = master["organizer"]
  BY <1>1, <1>2, <1>3 DEF CalTyped
<1>5. req' \in [Requests -> Asked] /\ req'[r].at \in {"spread", "done"} /\ \A q \in Requests \ {r} : req'[q] = req[q]
  <2>1. CASE accept
    BY <1>3, <2>1, WentIs
  <2>2. CASE ~accept
    BY <1>3, <2>2, WentIs
  <2> QED
    BY <2>1, <2>2
<1>6. marks \subseteq marks' /\ marks' \subseteq Series \X Troubles
  BY <1>1, <1>3 DEF CalTyped, Troubles
<1>7. CalTyped'
  BY <1>3, <1>4, <1>5, <1>6 DEF CalTyped
<1> QED
  BY <1>3, <1>4, <1>5, <1>6, <1>7, RowsStay DEF Asking

(* The organizer's row takes the answer.                                   *)
LEMMA SpreadAcceptIs ==
  ASSUME CalTyped, NEW r \in Requests, SpreadAccept(r)
  PROVE  /\ CalTyped' /\ Asking(r) /\ req'[r].at = "done"
         /\ marks \subseteq marks'
         /\ \A s \in Series : \/ RowKept(s)
                              \/ /\ Exists("organizer", s)
                                 /\ master'["organizer"][s].start = master["organizer"][s].start
                                 /\ master["organizer"][s].ex \subseteq master'["organizer"][s].ex
                                 /\ gone'[s] \subseteq gone[s]
                                 /\ \/ <<s, "stale">> \in marks'
                                    \/ /\ master'["organizer"][s].st = "accepted"
                                       /\ answer'[s] = master'["organizer"][s].start % Period
<1> DEFINE s == req[r].s
           m == master["organizer"][s]
           t == req[r].read.start
<1>1. s \in Series /\ t \in Nat /\ "attendee" \in People /\ "organizer" \in People
  BY CalConstants DEF CalTyped, Asked, Row
<1>2. /\ IF Exists("organizer", s)
         THEN /\ master' = [master EXCEPT !["organizer"][s].st = "accepted"]
              /\ answer' = [answer EXCEPT ![s] = t % Period]
              /\ marks' = (IF m.start # t THEN marks \cup {<<s, "stale">>} ELSE marks)
         ELSE UNCHANGED <<master, answer, marks>>
      /\ Went(r, "done") /\ occ' = occ /\ gone' = gone
  BY DEF SpreadAccept, MarkIf
<1> HIDE DEF s, m, t
<1>3. req' \in [Requests -> Asked] /\ req'[r].at = "done" /\ \A q \in Requests \ {r} : req'[q] = req[q]
  BY <1>2, WentIs
<1>4. CASE ~Exists("organizer", s)
  <2>1. master' = master /\ answer' = answer /\ marks' = marks
    BY <1>2, <1>4
  <2>2. CalTyped'
    BY <1>2, <1>3, <2>1 DEF CalTyped
  <2> QED
    BY <1>2, <1>3, <2>1, <2>2, RowsStay DEF Asking
<1>5. CASE Exists("organizer", s)
  <2>1. m \in Row
    BY <1>1, <1>5, RowsType DEF m
  <2>2. PICK n : n = [m EXCEPT !.st = "accepted"]
    OBVIOUS
  <2>3. n \in Row /\ n.start = m.start /\ n.ex = m.ex /\ n.st = "accepted"
    BY <2>1, <2>2 DEF Row, Status
  <2>4. master' = [master EXCEPT !["organizer"][s] = n]
    BY <1>1, <1>2, <1>5, <2>2 DEF CalTyped, m
  <2>5. /\ master' \in [People -> [Series -> Row \cup {NoEvent}]] /\ master'["organizer"][s] = n
        /\ \A y \in Series \ {s} : master'["organizer"][y] = master["organizer"][y]
    BY <1>1, <2>3, <2>4 DEF CalTyped
  <2>6. t % Period \in Int
    BY <1>1 DEF Period
  <2>7. answer' \in [Series -> Int] /\ answer'[s] = t % Period /\ \A y \in Series \ {s} : answer'[y] = answer[y]
    BY <1>1, <1>2, <1>5, <2>6 DEF CalTyped
  <2>8. marks \subseteq marks' /\ marks' \subseteq Series \X Troubles /\ (m.start # t => <<s, "stale">> \in marks')
    BY <1>1, <1>2, <1>5 DEF CalTyped, Troubles
  <2>9. CalTyped'
    BY <1>2, <1>3, <2>5, <2>7, <2>8 DEF CalTyped
  <2>10. \A y \in Series \ {s} : RowKept(y)
    BY <1>2, <2>5, <2>7 DEF RowKept, Exists
  <2>11. /\ master'["organizer"][s].start = master["organizer"][s].start
         /\ master["organizer"][s].ex \subseteq master'["organizer"][s].ex
         /\ gone'[s] \subseteq gone[s] /\ master'["organizer"][s].st = "accepted"
         /\ m.start = t => answer'[s] = master'["organizer"][s].start % Period
    BY <1>2, <2>3, <2>5, <2>7 DEF m
  <2> QED
    BY <1>3, <1>5, <2>8, <2>9, <2>10, <2>11 DEF Asking
<1> QED
  BY <1>4, <1>5

LEMMA AcceptedIs ==
  ASSUME NEW os \in SUBSET Detached, NEW d
  PROVE  Accepted(os, d) \in SUBSET Detached
<1>1. ASSUME NEW o \in os PROVE [o EXCEPT !.st = "accepted"] \in Detached
  BY DEF Detached, Status
<1> QED
  BY <1>1 DEF Accepted

LEMMA CommitAcceptOneIs ==
  ASSUME CalTyped, NEW r \in Requests, CommitAcceptOne(r)
  PROVE  /\ CalTyped' /\ Asking(r) /\ req'[r].at \in {"spread", "done"}
         /\ marks \subseteq marks' /\ \A s \in Series : RowKept(s)
<1> DEFINE s == req[r].s
           d == req[r].slot
           b == req[r].read
           m == master["attendee"][s]
           os == occ["attendee"][s]
           rows == GetOrCreate(m, os, b, d, <<r, 1>>)
<1>1. /\ s \in Series /\ d \in Int /\ b \in Row /\ os \in SUBSET Detached
      /\ "attendee" \in People /\ "organizer" \in People
  BY RowsType, CalConstants DEF CalTyped, Asked
<1>2. /\ IF Exists("attendee", s)
         THEN Put("attendee", s, <<rows[1], Accepted(rows[2], d)>>) /\ Went(r, "spread")
         ELSE Went(r, "done") /\ UNCHANGED <<master, occ>>
      /\ answer' = answer /\ gone' = gone /\ marks' = marks
  BY DEF CommitAcceptOne
<1> HIDE DEF s, d, b, m, os, rows
<1>3. CASE ~Exists("attendee", s)
  <2>1. Went(r, "done") /\ master' = master /\ occ' = occ
    BY <1>2, <1>3
  <2>2. req' \in [Requests -> Asked] /\ req'[r].at = "done" /\ \A q \in Requests \ {r} : req'[q] = req[q]
    BY <2>1, WentIs
  <2>3. CalTyped'
    BY <1>2, <2>1, <2>2 DEF CalTyped
  <2> QED
    BY <1>2, <2>1, <2>2, <2>3, RowsStay DEF Asking
<1>4. CASE Exists("attendee", s)
  <2>1. m \in Row
    BY <1>1, <1>4, RowsType DEF m
  <2>2. rows = GetOrCreate(m, os, b, d, <<r, 1>>)
    BY DEF rows
  <2>3. \E w \in Row, n \in SUBSET Detached : Gotten(m, os, d, r, GetOrCreate(m, os, b, d, <<r, 1>>), w, n)
    <3>1. /\ m \in Row /\ os \in SUBSET Detached /\ b \in Row /\ d \in Int /\ r \in Requests
      BY <1>1, <2>1
    <3> QED
      BY ONLY <3>1, GetOrCreateIs
  <2>4. PICK w \in Row, n \in SUBSET Detached : rows = <<w, n>>
    BY <2>2, <2>3 DEF Gotten
  <2>5. Put("attendee", s, <<w, Accepted(n, d)>>) /\ w \in Row \cup {NoEvent}
    BY <1>2, <1>4, <2>4
  <2>6. Accepted(n, d) \in SUBSET Detached
    BY AcceptedIs
  <2>7. /\ master' \in [People -> [Series -> Row \cup {NoEvent}]] /\ occ' \in [People -> [Series -> SUBSET Detached]]
        /\ \A x \in People, y \in Series : x # "attendee" \/ y # s => master'[x][y] = master[x][y]
    BY <1>1, <2>5, <2>6, PutIs
  <2>8. \A y \in Series : master'["organizer"][y] = master["organizer"][y]
    BY <1>1, <2>7
  <2>9. req' \in [Requests -> Asked] /\ req'[r].at = "spread" /\ \A q \in Requests \ {r} : req'[q] = req[q]
    BY <1>2, <1>4, WentIs
  <2>10. CalTyped'
    BY <1>2, <2>7, <2>9 DEF CalTyped
  <2>11. \A y \in Series : RowKept(y)
    BY <1>2, <2>8 DEF RowKept, Exists
  <2> QED
    BY <1>2, <2>9, <2>10, <2>11 DEF Asking
<1> QED
  BY <1>3, <1>4

LEMMA SpreadAcceptOneIs ==
  ASSUME CalTyped, NEW r \in Requests, SpreadAcceptOne(r) \/ SpreadFails(r)
  PROVE  /\ CalTyped' /\ Asking(r) /\ req'[r].at = "done"
         /\ marks \subseteq marks' /\ \A s \in Series : RowKept(s)
<1>1. /\ Went(r, "done") /\ master' = master /\ answer' = answer /\ gone' = gone
      /\ marks' = marks \/ marks' = marks \cup {<<req[r].s, "lost">>, <<r + 1, "lost">>}
      /\ occ' = occ \/ occ' = [occ EXCEPT !["organizer"][req[r].s] = Accepted(@, req[r].slot)]
  BY DEF SpreadAcceptOne, SpreadFails
<1>2. req' \in [Requests -> Asked] /\ req'[r].at = "done" /\ \A q \in Requests \ {r} : req'[q] = req[q]
  BY <1>1, WentIs
<1>3. PICK s, d : s = req[r].s /\ d = req[r].slot
  OBVIOUS
<1>4. s \in Series /\ "organizer" \in People
  BY <1>3, CalConstants DEF CalTyped, Asked
<1>5. PICK n : n = Accepted(occ["organizer"][s], d)
  OBVIOUS
<1>6. n \in SUBSET Detached
  BY <1>4, <1>5, RowsType, AcceptedIs
<1>7. occ' = occ \/ occ' = [occ EXCEPT !["organizer"][s] = n]
  BY <1>1, <1>3, <1>4, <1>5 DEF CalTyped
<1>8. occ' \in [People -> [Series -> SUBSET Detached]]
  <2>1. occ \in [People -> [Series -> SUBSET Detached]]
    BY DEF CalTyped
  <2>2. CASE occ' = [occ EXCEPT !["organizer"][s] = n]
    <3>1. [occ["organizer"] EXCEPT ![s] = n] \in [Series -> SUBSET Detached]
      BY <1>4, <1>6, <2>1
    <3> QED
      BY <1>4, <2>1, <2>2, <3>1
  <2> QED
    BY <1>7, <2>1, <2>2
<1>9. marks \subseteq marks' /\ marks' \subseteq Series \X Troubles
  BY <1>1, <1>3, <1>4, CalConstants DEF CalTyped, Troubles
<1>10. CalTyped'
  BY <1>1, <1>2, <1>8, <1>9 DEF CalTyped
<1> QED
  BY <1>1, <1>2, <1>9, <1>10, RowsStay DEF Asking

LEMMA BeginIs ==
  ASSUME CalTyped, NEW r \in Requests, NEW who \in People, NEW op \in Ops, NEW s \in Series,
         NEW slot \in Slots(who, s), NEW moved \in BOOLEAN, Begin(r, who, op, s, slot, moved)
  PROVE  /\ CalTyped' /\ Asking(r) /\ req'[r].at = "commit" /\ req[r].at = "idle"
         /\ marks' = marks /\ \A y \in Series : RowKept(y)
         /\ req'[r].op \in SlotOps => req'[r].slot \in Nat /\ req'[r].slot % Period = req'[r].read.start % Period
<1>0. PICK rows \in {{}} \cup {{o} : o \in {x \in occ[who][s] : op = "override" /\ x.rid = slot}} :
         req' = [req EXCEPT ![r] = [@ EXCEPT !.who = who, !.op = op, !.s = s, !.slot = slot,
                    !.moved = moved, !.read = master[who][s], !.at = "commit", !.rows = rows]]
  BY DEF Begin
<1>1. PICK m : m = master[who][s]
  OBVIOUS
<1>2. /\ m \in Row /\ op \in OrganizerOps \cup AttendeeOps
      /\ slot \in IF op \in SlotOps THEN Dates(m) ELSE {m.start}
      /\ UNCHANGED <<master, occ, answer, gone, marks>>
      /\ req' = [req EXCEPT ![r] = [@ EXCEPT !.who = who, !.op = op, !.s = s, !.slot = slot,
                   !.moved = moved, !.read = m, !.at = "commit", !.rows = rows]]
      /\ req[r].at = "idle"
  BY <1>0, <1>1, RowsType DEF Begin
<1>3. slot \in Nat /\ (op \in SlotOps => slot % Period = m.start % Period)
  BY <1>2, DatesAre DEF Row
<1>4. rows \in SUBSET Detached
  <2>1. occ[who][s] \in SUBSET Detached
    BY RowsType
  <2> QED
    BY <1>0, <2>1
<1>5. PICK v : v = [req[r] EXCEPT !.who = who, !.op = op, !.s = s, !.slot = slot,
                   !.moved = moved, !.read = m, !.at = "commit", !.rows = rows]
  OBVIOUS
<1>6. req[r] \in Asked
  BY DEF CalTyped
<1>7. v \in Asked /\ v.at = "commit" /\ v.op = op /\ v.slot = slot /\ v.read = m
  <2>1. slot \in Int /\ op \in OrganizerOps \cup AttendeeOps
    BY <1>2, <1>3
  <2>2. PICK v1 : v1 = [req[r] EXCEPT !.who = who, !.op = op, !.s = s, !.slot = slot]
    OBVIOUS
  <2>3. v1 \in Asked /\ v1.op = op /\ v1.slot = slot
    BY <1>6, <2>1, <2>2 DEF Asked
  <2>4. v = [v1 EXCEPT !.moved = moved, !.read = m, !.at = "commit", !.rows = rows]
    BY <1>5, <1>6, <2>2 DEF Asked
  <2> QED
    BY <1>2, <1>4, <2>3, <2>4 DEF Asked
<1>8. req' = [req EXCEPT ![r] = v]
  BY <1>2, <1>5
<1>9. req' \in [Requests -> Asked] /\ req'[r] = v /\ \A q \in Requests \ {r} : req'[q] = req[q]
  BY <1>7, <1>8 DEF CalTyped
<1>10. CalTyped'
  BY <1>2, <1>9 DEF CalTyped
<1>11. \A y \in Series : RowKept(y)
  BY <1>2, RowsStay
<1> QED
  BY <1>2, <1>3, <1>7, <1>9, <1>10, <1>11 DEF Asking

-----------------------------------------------------------------------------
(* CalendarEvents: the organizer's answers and deletions                   *)

(* Of every series: an accepted row is accepted for its time of day, and   *)
(* an answer is lost only to a move; what was deleted is in the EXDATEs.   *)
Answered(s) ==
    LET m == master["organizer"][s] IN
    Clean(s, {"stale", "lost"}) =>
        /\ m.st = "accepted" => answer[s] = m.start % Period
        /\ <<s, "moved">> \notin marks /\ answer[s] # NoTime => m.st = "accepted"
Hidden(s) == Clean(s, {"stale", "moved"}) => gone[s] \subseteq master["organizer"][s].ex
Honest(s) == Exists("organizer", s) => Answered(s) /\ Hidden(s)

(* A request to split at a date of the series works on that date, and the  *)
(* series it may start does not exist before.                              *)
Prepared(r) ==
    /\ req[r].at \in {"idle", "commit"} => ~Exists("organizer", r + 1)
    /\ req[r].at = "commit" /\ req[r].op \in SlotOps =>
          req[r].slot \in Nat /\ req[r].slot % Period = req[r].read.start % Period

OwnInv == CalTyped /\ (\A s \in Series : Honest(s)) /\ (\A r \in Requests : Prepared(r))

LEMMA HonestStays ==
  ASSUME marks \subseteq marks', NEW s \in Series, Honest(s), RowKept(s)
  PROVE  Honest(s)'
<1> SUFFICES ASSUME Exists("organizer", s)' PROVE Answered(s)' /\ Hidden(s)'
  BY DEF Honest
<1>1. /\ Exists("organizer", s) /\ master'["organizer"][s].start = master["organizer"][s].start
      /\ master'["organizer"][s].st = master["organizer"][s].st
      /\ master["organizer"][s].ex \subseteq master'["organizer"][s].ex
      /\ answer'[s] = answer[s] /\ gone'[s] \subseteq gone[s]
  BY DEF RowKept
<1>2. Answered(s)'
  BY <1>1 DEF Honest, Answered, Clean
<1>3. Hidden(s)'
  BY <1>1 DEF Honest, Hidden, Clean
<1> QED
  BY <1>2, <1>3

LEMMA OwnMoves ==
  ASSUME OwnInv, NEW r \in Requests, CalTyped', Asking(r), req'[r].at \in {"spread", "done"},
         \A s \in Series : Honest(s)',
         \A s \in Series : Exists("organizer", s)' => Exists("organizer", s) \/ s = r + 1
  PROVE  OwnInv'
<1>1. ASSUME NEW q \in Requests PROVE Prepared(q)'
  <2>1. CASE q = r
    BY <2>1 DEF Prepared
  <2>2. CASE q # r
    <3>1. q + 1 # r + 1 /\ q + 1 \in Series /\ req'[q] = req[q] /\ Prepared(q)
      BY <2>2, CalConstants DEF OwnInv, Asking
    <3>2. Exists("organizer", q + 1)' => Exists("organizer", q + 1)
      BY <3>1
    <3> QED
      BY <3>1, <3>2 DEF Prepared
  <2> QED
    BY <2>1, <2>2
<1> QED
  BY <1>1 DEF OwnInv

(* Most steps keep every row of the organizer.                             *)
LEMMA OwnKept ==
  ASSUME OwnInv, NEW r \in Requests, CalTyped', Asking(r), req'[r].at \in {"spread", "done"},
         marks \subseteq marks', \A s \in Series : RowKept(s)
  PROVE  OwnInv'
<1>1. \A s \in Series : Honest(s)'
  BY HonestStays DEF OwnInv
<1>2. \A s \in Series : Exists("organizer", s)' => Exists("organizer", s)
  BY DEF RowKept
<1> QED
  BY <1>1, <1>2, OwnMoves

LEMMA OwnCommits ==
  ASSUME OwnInv, NEW r \in Requests, req[r].at = "commit", Commits(r)
  PROVE  OwnInv'
<1>1. CalTyped /\ \A s \in Series : Honest(s)
  BY DEF OwnInv
<1>2. CASE CommitAll(r)
  <2>1. /\ CalTyped' /\ Asking(r) /\ req'[r].at = "spread" /\ marks \subseteq marks'
        /\ \A s \in Series : \/ RowKept(s)
                             \/ s = req[r].s /\ (<<s, "stale">> \in marks' \/ (<<s, "moved">> \in marks' /\ master'["organizer"][s].st = "needs action"))
    BY <1>1, <1>2, CommitAllIs
  <2>2. ASSUME NEW s \in Series PROVE Honest(s)'
    <3>1. CASE RowKept(s)
      BY <1>1, <2>1, <3>1, HonestStays
    <3>2. CASE <<s, "stale">> \in marks'
      BY <3>2 DEF Honest, Answered, Hidden, Clean
    <3>3. CASE <<s, "moved">> \in marks' /\ master'["organizer"][s].st = "needs action"
      BY <3>3 DEF Honest, Answered, Hidden, Clean
    <3> QED
      BY <2>1, <3>1, <3>2, <3>3
  <2>3. \A s \in Series : Exists("organizer", s)' => Exists("organizer", s)
    <3>1. CASE Exists("organizer", req[r].s)
      BY <2>1, <3>1 DEF RowKept
    <3>2. CASE ~Exists("organizer", req[r].s)
      BY <1>2, <3>2 DEF CommitAll, Exists
    <3> QED
      BY <3>1, <3>2
  <2> QED
    BY <2>1, <2>2, <2>3, OwnMoves
<1>3. CASE CommitOverride(r)
  BY <1>1, <1>3, CommitOverrideIs, OwnKept
<1>4. CASE CommitSplit(r)
  <2>1. /\ req[r].slot \in Nat /\ req[r].slot % Period = req[r].read.start % Period
        /\ ~Exists("organizer", r + 1) /\ req[r].s \in Series
    BY <1>1, <1>4 DEF OwnInv, Prepared, CommitSplit, Ready, SlotOps, CalTyped, Asked
  <2>2. /\ CalTyped' /\ Asking(r) /\ req'[r].at = "spread" /\ marks \subseteq marks'
        /\ \A s \in Series : \/ RowKept(s)
                             \/ s = r + 1 /\ ~Exists("organizer", s)'
                             \/ s = r + 1 /\ Taken(req[r].s, r + 1, req[r].slot)
    BY <1>1, <1>4, <2>1, CommitSplitIs
  <2>3. ASSUME NEW s \in Series PROVE Honest(s)'
    <3>1. CASE RowKept(s)
      BY <1>1, <2>2, <3>1, HonestStays
    <3>2. CASE ~Exists("organizer", s)'
      BY <3>2 DEF Honest
    <3>3. CASE <<s, "stale">> \in marks'
      BY <3>3 DEF Honest, Answered, Hidden, Clean
    <3>4. CASE s = r + 1 /\ Taken(req[r].s, r + 1, req[r].slot) /\ <<s, "stale">> \notin marks'
      <4>1. PICK p, d : p = req[r].s /\ d = req[r].slot
        OBVIOUS
      <4>2. /\ Exists("organizer", p) /\ d % Period = master["organizer"][p].start % Period
            /\ master'["organizer"][s].start = d /\ master'["organizer"][s].st = master["organizer"][p].st
            /\ master["organizer"][p].ex \subseteq master'["organizer"][s].ex
            /\ answer'[s] = answer[p] /\ gone'[s] \subseteq gone[p]
            /\ \A t \in Troubles : <<p, t>> \in marks => <<s, t>> \in marks'
        BY <3>4, <4>1 DEF Taken
      <4>3. Honest(p) /\ {"stale", "lost", "moved"} \subseteq Troubles
        BY <1>1, <2>1, <4>1 DEF Troubles
      <4>4. Answered(s)'
        BY <4>2, <4>3 DEF Honest, Answered, Clean
      <4>5. Hidden(s)'
        BY <4>2, <4>3 DEF Honest, Hidden, Clean
      <4> QED
        BY <4>4, <4>5 DEF Honest
    <3> QED
      BY <2>2, <3>1, <3>2, <3>3, <3>4
  <2>4. \A s \in Series : Exists("organizer", s)' => Exists("organizer", s) \/ s = r + 1
    BY <2>2 DEF RowKept
  <2> QED
    BY <2>2, <2>3, <2>4, OwnMoves
<1>5. CASE CommitCancel(r)
  <2>1. /\ CalTyped' /\ Asking(r) /\ req'[r].at \in {"spread", "done"} /\ marks \subseteq marks'
        /\ \A s \in Series : \/ RowKept(s)
                             \/ /\ Exists("organizer", s) /\ Exists("organizer", s)'
                                /\ master'["organizer"][s].start = master["organizer"][s].start
                                /\ master'["organizer"][s].st = master["organizer"][s].st
                                /\ answer'[s] = answer[s]
                                /\ \E d \in Int : /\ master["organizer"][s].ex \cup {d} \subseteq master'["organizer"][s].ex
                                                  /\ gone'[s] = gone[s] \cup {d}
    BY <1>1, <1>5, CommitCancelIs
  <2>2. ASSUME NEW s \in Series, ~RowKept(s) PROVE Honest(s)'
    <3>1. PICK d \in Int : /\ master["organizer"][s].ex \cup {d} \subseteq master'["organizer"][s].ex
                           /\ gone'[s] = gone[s] \cup {d}
      BY <2>1, <2>2
    <3>2. /\ Exists("organizer", s)
          /\ master'["organizer"][s].start = master["organizer"][s].start
          /\ master'["organizer"][s].st = master["organizer"][s].st /\ answer'[s] = answer[s]
      BY <2>1, <2>2
    <3>3. Honest(s)
      BY <1>1
    <3>4. Answered(s)'
      BY <2>1, <3>2, <3>3 DEF Honest, Answered, Clean
    <3>5. Hidden(s)'
      BY <2>1, <3>1, <3>2, <3>3 DEF Honest, Hidden, Clean
    <3> QED
      BY <3>4, <3>5 DEF Honest
  <2>3. \A s \in Series : Honest(s)'
    BY <1>1, <2>1, <2>2, HonestStays
  <2>4. \A s \in Series : Exists("organizer", s)' => Exists("organizer", s)
    BY <2>1 DEF RowKept
  <2> QED
    BY <2>1, <2>3, <2>4, OwnMoves
<1>6. CASE CommitDelete(r)
  BY <1>1, <1>6, DeleteSteps, OwnKept
<1>7. CASE CommitAccept(r)
  BY <1>1, <1>7, CommitAcceptIs, OwnKept
<1>8. CASE CommitAcceptOne(r)
  BY <1>1, <1>8, CommitAcceptOneIs, OwnKept
<1> QED
  BY <1>2, <1>3, <1>4, <1>5, <1>6, <1>7, <1>8 DEF Commits

LEMMA OwnSpreads ==
  ASSUME OwnInv, NEW r \in Requests, Spreads(r)
  PROVE  OwnInv'
<1>1. CalTyped /\ \A s \in Series : Honest(s)
  BY DEF OwnInv
<1>2. CASE SpreadAll(r)
  BY <1>1, <1>2, SpreadAllIs, OwnKept
<1>3. CASE SpreadOverride(r)
  BY <1>1, <1>3, SpreadOverrideIs, OwnKept
<1>4. CASE SpreadSplit(r)
  BY <1>1, <1>4, SpreadSplitIs, OwnKept
<1>5. CASE SpreadCancel(r)
  BY <1>1, <1>5, SpreadCancelIs, OwnKept
<1>6. CASE SpreadDelete(r)
  BY <1>1, <1>6, DeleteSteps, OwnKept
<1>7. CASE SpreadAccept(r)
  <2>1. /\ CalTyped' /\ Asking(r) /\ req'[r].at = "done" /\ marks \subseteq marks'
        /\ \A s \in Series : \/ RowKept(s)
                             \/ /\ Exists("organizer", s)
                                /\ master'["organizer"][s].start = master["organizer"][s].start
                                /\ master["organizer"][s].ex \subseteq master'["organizer"][s].ex
                                /\ gone'[s] \subseteq gone[s]
                                /\ \/ <<s, "stale">> \in marks'
                                   \/ /\ master'["organizer"][s].st = "accepted"
                                      /\ answer'[s] = master'["organizer"][s].start % Period
    BY <1>1, <1>7, SpreadAcceptIs
  <2>2. ASSUME NEW s \in Series, ~RowKept(s) PROVE Honest(s)'
    <3>1. /\ Exists("organizer", s) /\ Honest(s)
          /\ master["organizer"][s].ex \subseteq master'["organizer"][s].ex
          /\ gone'[s] \subseteq gone[s]
          /\ \/ <<s, "stale">> \in marks'
             \/ /\ master'["organizer"][s].st = "accepted"
                /\ answer'[s] = master'["organizer"][s].start % Period
      BY <1>1, <2>1, <2>2
    <3>2. Answered(s)'
      BY <3>1 DEF Answered, Clean
    <3>3. Hidden(s)'
      BY <2>1, <3>1 DEF Honest, Hidden, Clean
    <3> QED
      BY <3>2, <3>3 DEF Honest
  <2>3. \A s \in Series : Honest(s)'
    BY <1>1, <2>1, <2>2, HonestStays
  <2>4. \A s \in Series : Exists("organizer", s)' => Exists("organizer", s)
    BY <2>1 DEF RowKept
  <2> QED
    BY <2>1, <2>3, <2>4, OwnMoves
<1>8. CASE SpreadAcceptOne(r) \/ SpreadFails(r)
  BY <1>1, <1>8, SpreadAcceptOneIs, OwnKept
<1> QED
  BY <1>2, <1>3, <1>4, <1>5, <1>6, <1>7, <1>8 DEF Spreads

LEMMA OwnStep == OwnInv /\ [Next]_vars => OwnInv'
<1> SUFFICES ASSUME OwnInv, [Next]_vars PROVE OwnInv'
  OBVIOUS
<1>1. CASE UNCHANGED vars
  <2>1. CalTyped'
    BY <1>1 DEF OwnInv, CalTyped, vars
  <2>2. \A s \in Series : Honest(s)'
    BY <1>1 DEF OwnInv, Honest, Answered, Hidden, Clean, Exists, vars
  <2>3. \A r \in Requests : Prepared(r)'
    BY <1>1 DEF OwnInv, Prepared, Exists, vars
  <2> QED
    BY <2>1, <2>2, <2>3 DEF OwnInv
<1>2. ASSUME NEW r \in Requests, req[r].at = "commit", Commits(r) PROVE OwnInv'
  BY <1>2, OwnCommits
<1>3. ASSUME NEW r \in Requests, Spreads(r) PROVE OwnInv'
  BY <1>3, OwnSpreads
<1>4. ASSUME NEW r \in Requests, NEW who \in People, NEW s \in Series, NEW slot \in Slots(who, s),
             NEW op \in Ops, NEW moved \in BOOLEAN, Begin(r, who, op, s, slot, moved)
      PROVE  OwnInv'
  <2>1. /\ CalTyped' /\ Asking(r) /\ req'[r].at = "commit" /\ req[r].at = "idle"
        /\ marks' = marks /\ \A y \in Series : RowKept(y)
        /\ req'[r].op \in SlotOps => req'[r].slot \in Nat /\ req'[r].slot % Period = req'[r].read.start % Period
    BY <1>4, BeginIs DEF OwnInv
  <2>2. \A y \in Series : Honest(y)'
    BY <2>1, HonestStays DEF OwnInv
  <2>3. ASSUME NEW q \in Requests PROVE Prepared(q)'
    <3>1. q + 1 \in Series /\ (Exists("organizer", q + 1)' => Exists("organizer", q + 1)) /\ Prepared(q)
      BY <2>1, CalConstants DEF RowKept, OwnInv
    <3>2. CASE q = r
      BY <2>1, <3>1, <3>2 DEF Prepared
    <3>3. CASE q # r
      BY <2>1, <3>1, <3>3 DEF Prepared, Asking
    <3> QED
      BY <3>2, <3>3
  <2> QED
    BY <2>1, <2>2, <2>3 DEF OwnInv
<1> QED
  BY <1>1, <1>2, <1>3, <1>4 DEF Next

LEMMA OwnStart == Init => OwnInv
<1> SUFFICES ASSUME Init PROVE OwnInv
  OBVIOUS
<1>1. CalTyped
  BY CalStart
<1>2. \A s \in Series : s # 1 => ~Exists("organizer", s)
  BY CalConstants DEF Init, Exists
<1>3. Honest(1)
  <2>1. master["organizer"][1] = First /\ answer[1] = NoTime /\ gone[1] = {} /\ First.st = "needs action"
    BY CalConstants DEF Init, First
  <2> QED
    BY <2>1 DEF Honest, Answered, Hidden
<1>4. \A s \in Series : Honest(s)
  BY <1>2, <1>3 DEF Honest
<1>5. ASSUME NEW r \in Requests PROVE Prepared(r)
  <2>1. r + 1 \in Series /\ r + 1 # 1 /\ req[r].at = "idle"
    BY CalConstants, RowsAre DEF Init, Requests
  <2> QED
    BY <1>2, <2>1 DEF Prepared
<1> QED
  BY <1>1, <1>4, <1>5 DEF OwnInv

(* AnswerIsCurrent: the organizer's row is "accepted" only for the time of *)
(* day the attendee accepted, whatever is edited, split or moved, and an   *)
(* answer to a series that was not moved is not lost.                      *)
THEOREM AnswersAreCurrent == Spec => []AnswerIsCurrent
<1>1. OwnInv => AnswerIsCurrent
  BY DEF OwnInv, Honest, Answered, AnswerIsCurrent
<1> QED
  BY <1>1, OwnStart, OwnStep, PTL DEF Spec

-----------------------------------------------------------------------------
(* ResourceBooking: the bookings of a room                                 *)

BookingRow == [on : Kinds, cal : Calendars, at : RbTimes]
Searching == [pc : {"search"}, b : RbBookings, todo : SUBSET Calendars, row : BookingRow]
Cancelling == [pc : {"cancel"}, b : RbBookings, row : {r \in BookingRow : r.on = "cancelled"}]

RbTypeOK ==
    /\ rbRow \in [RbBookings -> {NoBooking, [on |-> "deleted"]} \cup BookingRow]
    /\ rbWork \in [RbWorkers -> {RbIdle} \cup Searching \cup Cancelling]

(* Two requests at work at the same time have met. *)
MetWhenTogether ==
    \A v, w \in RbWorkers :
        v # w /\ rbWork[v] # RbIdle /\ rbWork[w] # RbIdle
        => {rbWork[v].b, rbWork[w].b} \in rbMet

(* What a search may still find, or will never look for: the bookings of   *)
(* the owner at the wanted time, in the calendars that are left and, when  *)
(* a booking is updated, in the calendar it is in.                         *)
InTheWay(b, row, c) ==
    /\ row.on = "confirmed" /\ c # b /\ {b, c} \notin rbMet /\ Stands(c)
    /\ Owner(rbRow[c].cal) = Owner(row.cal) /\ rbRow[c].at = row.at

SearchIsSound ==
    \A w \in RbWorkers, c \in RbBookings :
        rbWork[w].pc = "search" /\ InTheWay(rbWork[w].b, rbWork[w].row, c)
        => \/ rbRow[c].cal \in rbWork[w].todo
           \/ rbRow[c].cal = rbWork[w].row.cal /\ rbRow[rbWork[w].b] # NoBooking

RbInv == RbTypeOK /\ MetWhenTogether /\ SearchIsSound /\ OwnerBooksOnce

-----------------------------------------------------------------------------
LEMMA RbStarts == RbInit => RbInv
<1> SUFFICES ASSUME RbInit PROVE RbInv
  OBVIOUS
<1>1. \A b \in RbBookings : rbRow[b] = NoBooking /\ rbRow[b].on = "none"
  BY DEF RbInit, NoBooking
<1>2. \A w \in RbWorkers : rbWork[w] = RbIdle /\ rbWork[w].pc = "idle"
  BY DEF RbInit, RbIdle
<1> QED
  BY <1>1, <1>2 DEF RbInit, RbInv, RbTypeOK, MetWhenTogether, SearchIsSound, OwnerBooksOnce,
                    Doubled, Stands

(* A request about b begins: everything under way has met it. *)
LEMMA BeginsTogether ==
  ASSUME RbTypeOK, MetWhenTogether, NEW w \in RbWorkers, NEW b \in RbBookings,
         NEW rec \in Searching \cup Cancelling, rec.b = b, Does(w, rec), Meets(b)
  PROVE  MetWhenTogether'
<1>1. \A v \in RbWorkers : rbWork'[v] = IF v = w THEN rec ELSE rbWork[v]
  BY DEF RbTypeOK, Does
<1> SUFFICES ASSUME NEW v \in RbWorkers, NEW x \in RbWorkers, v # x,
                    rbWork'[v] # RbIdle, rbWork'[x] # RbIdle
             PROVE  {rbWork'[v].b, rbWork'[x].b} \in rbMet'
  BY DEF MetWhenTogether
<1>2. CASE v # w /\ x # w
  BY <1>1, <1>2 DEF MetWhenTogether, Meets
<1>3. ASSUME NEW u \in RbWorkers, u # w, rbWork[u] # RbIdle
      PROVE  {b, rbWork[u].b} \in rbMet'
  BY <1>3 DEF Meets, UnderWay
<1>4. CASE v = w
  BY <1>1, <1>3, <1>4
<1>5. CASE x = w
  <2>1. {rbWork'[v].b, rbWork'[x].b} = {b, rbWork[v].b}
    BY <1>1, <1>5
  <2> QED
    BY <1>1, <1>3, <1>5, <2>1
<1> QED
  BY <1>2, <1>4, <1>5

(* A request that goes on about its booking, or ends, meets nothing new. *)
LEMMA GoesOnTogether ==
  ASSUME RbTypeOK, MetWhenTogether, NEW w \in RbWorkers, NEW rec, Does(w, rec),
         rbWork[w] # RbIdle, rec = RbIdle \/ rec.b = rbWork[w].b, rbMet' = rbMet
  PROVE  MetWhenTogether'
<1>1. \A v \in RbWorkers : rbWork'[v] = IF v = w THEN rec ELSE rbWork[v]
  BY DEF RbTypeOK, Does
<1> QED
  BY <1>1 DEF MetWhenTogether

(* While nothing is written, a request that begins or goes on is sound for *)
(* itself and leaves the others as they are.                               *)
LEMMA SearchGoesOn ==
  ASSUME RbTypeOK, SearchIsSound, OwnerBooksOnce, NEW w \in RbWorkers, NEW rec, Does(w, rec),
         rbRow' = rbRow, rbMet \subseteq rbMet', rbChanged' = rbChanged,
         rec.pc = "search" =>
            \A c \in RbBookings : InTheWay(rec.b, rec.row, c) =>
               rbRow[c].cal \in rec.todo \/ (rbRow[c].cal = rec.row.cal /\ rbRow[rec.b] # NoBooking)
  PROVE  SearchIsSound' /\ OwnerBooksOnce'
<1>1. \A v \in RbWorkers : rbWork'[v] = IF v = w THEN rec ELSE rbWork[v]
  BY DEF RbTypeOK, Does
<1>2. OwnerBooksOnce'
  BY DEF OwnerBooksOnce, Doubled, Stands
<1> SUFFICES ASSUME NEW v \in RbWorkers, NEW c \in RbBookings, rbWork'[v].pc = "search",
                    InTheWay(rbWork[v].b, rbWork[v].row, c)'
             PROVE  \/ rbRow[c].cal \in rbWork'[v].todo
                    \/ rbRow[c].cal = rbWork'[v].row.cal /\ rbRow[rbWork'[v].b] # NoBooking
  BY <1>2 DEF SearchIsSound
<1>3. InTheWay(rbWork'[v].b, rbWork'[v].row, c)
  BY DEF InTheWay, Stands
<1> QED
  BY <1>1, <1>3 DEF SearchIsSound

(* A request writes its booking and ends: another one that searches has    *)
(* met it, and what it writes stands apart from what was not changed.      *)
LEMMA RowWritten ==
  ASSUME RbInv, NEW w \in RbWorkers, rbWork[w] # RbIdle, NEW row \in BookingRow,
         Writes(rbWork[w].b, row), Does(w, RbIdle),
         rbMet' = rbMet, rbChanged \subseteq rbChanged',
         \A c \in RbBookings : InTheWay(rbWork[w].b, row, c)
            => rbRow[c].cal = row.cal /\ rbWork[w].b \in rbChanged'
  PROVE  SearchIsSound' /\ OwnerBooksOnce'
<1> DEFINE b == rbWork[w].b
<1>1. b \in RbBookings
  BY DEF RbInv, RbTypeOK, Searching, Cancelling
<1>2. \A c \in RbBookings : rbRow'[c] = IF c = b THEN row ELSE rbRow[c]
  BY <1>1 DEF RbInv, RbTypeOK, Writes
<1>3. \A v \in RbWorkers : rbWork'[v] = IF v = w THEN RbIdle ELSE rbWork[v]
  BY DEF RbInv, RbTypeOK, Does
<1>4. row # NoBooking /\ RbIdle.pc = "idle" /\ row.on \in Kinds
  BY DEF BookingRow, NoBooking, RbIdle, Kinds
<1>5. ASSUME NEW v \in RbWorkers, NEW c \in RbBookings, rbWork'[v].pc = "search",
             InTheWay(rbWork[v].b, rbWork[v].row, c)'
      PROVE  \/ rbRow'[c].cal \in rbWork'[v].todo
             \/ rbRow'[c].cal = rbWork'[v].row.cal /\ rbRow'[rbWork'[v].b] # NoBooking
  <2>1. v # w /\ rbWork'[v] = rbWork[v] /\ rbWork[v] # RbIdle
    BY <1>3, <1>4, <1>5
  <2>2. {rbWork[v].b, b} \in rbMet
    BY <2>1 DEF RbInv, MetWhenTogether
  <2>3. c # b
    BY <1>5, <2>1, <2>2 DEF InTheWay
  <2>4. rbRow'[c] = rbRow[c] /\ InTheWay(rbWork[v].b, rbWork[v].row, c)
    BY <1>2, <1>5, <2>1, <2>3 DEF InTheWay, Stands
  <2>5. rbWork[v].b \in RbBookings
    BY <2>1 DEF RbInv, RbTypeOK, Searching, Cancelling
  <2>6. rbRow[rbWork[v].b] # NoBooking => rbRow'[rbWork[v].b] # NoBooking
    BY <1>2, <1>4, <2>5
  <2> QED
    BY <1>5, <2>1, <2>4, <2>6 DEF RbInv, SearchIsSound
<1>6. ASSUME NEW c \in RbBookings, c # b, Stands(c), row.on = "confirmed",
             rbRow[c].at = row.at, Owner(rbRow[c].cal) = Owner(row.cal), {b, c} \notin rbMet
      PROVE  rbRow[c].cal = row.cal /\ b \in rbChanged'
  BY <1>6 DEF InTheWay
<1>7. ASSUME NEW x \in RbBookings, NEW y \in RbBookings, Doubled(x, y)',
             Owner(rbRow'[x].cal) = Owner(rbRow'[y].cal), {x, y} \notin rbMet
      PROVE  rbRow'[x].cal = rbRow'[y].cal /\ {x, y} \cap rbChanged' # {}
  <2> HIDE DEF b
  <2>1. CASE x = b
    <3>1. rbRow'[x] = row /\ rbRow'[y] = rbRow[y] /\ y # b
      BY <1>2, <1>7, <2>1 DEF Doubled
    <3> QED
      BY <1>6, <1>7, <2>1, <3>1 DEF Doubled, Stands
  <2>2. CASE y = b
    <3>1. rbRow'[y] = row /\ rbRow'[x] = rbRow[x] /\ x # b
      BY <1>2, <1>7, <2>2 DEF Doubled
    <3>2. {b, x} \notin rbMet
      <4>1. {b, x} = {x, y}
        BY <2>2
      <4> QED
        BY <1>7, <4>1
    <3> QED
      BY <1>6, <1>7, <2>2, <3>1, <3>2 DEF Doubled, Stands
  <2>3. CASE x # b /\ y # b
    <3>1. rbRow'[y] = rbRow[y] /\ rbRow'[x] = rbRow[x]
      BY <1>2, <2>3
    <3>2. Doubled(x, y)
      BY <1>7, <3>1 DEF Doubled, Stands
    <3> QED
      BY <1>7, <3>1, <3>2 DEF RbInv, OwnerBooksOnce
  <2> QED
    BY <2>1, <2>2, <2>3
<1> QED
  BY <1>5, <1>7 DEF SearchIsSound, OwnerBooksOnce

(* A request ends and writes nothing. *)
LEMMA EndsQuietly ==
  ASSUME RbInv, NEW w \in RbWorkers, rbWork[w] # RbIdle, Does(w, RbIdle),
         UNCHANGED <<rbRow, rbMet, rbChanged>>
  PROVE  RbInv'
<1>1. RbTypeOK'
  BY DEF RbInv, RbTypeOK, Does
<1>2. MetWhenTogether'
  BY GoesOnTogether DEF RbInv
<1>3. RbIdle.pc = "idle"
  BY DEF RbIdle
<1>4. SearchIsSound' /\ OwnerBooksOnce'
  BY <1>3, SearchGoesOn DEF RbInv
<1> QED
  BY <1>1, <1>2, <1>4 DEF RbInv

-----------------------------------------------------------------------------
LEMMA CreateKeeps ==
  ASSUME RbInv, NEW w \in RbWorkers, NEW b \in RbBookings, NEW on \in Kinds,
         NEW cal \in Calendars, NEW at \in RbTimes, BeginCreate(w, b, on, cal, at)
  PROVE  RbInv'
<1> DEFINE row == [on |-> on, cal |-> cal, at |-> at]
           rec == [pc |-> "search", b |-> b, todo |-> ToSearch(on, cal, TRUE), row |-> row]
<1>1. Does(w, rec) /\ Meets(b) /\ UNCHANGED <<rbRow, rbChanged>>
  BY DEF BeginCreate
<1>2. rec \in Searching
  BY DEF Searching, BookingRow, ToSearch, Searched
<1>3. RbTypeOK'
  BY <1>1, <1>2 DEF RbInv, RbTypeOK, Does
<1>4. MetWhenTogether'
  <2>1. rec.b = b
    OBVIOUS
  <2> HIDE DEF rec
  <2> QED
    BY <1>1, <1>2, <2>1, BeginsTogether DEF RbInv
<1>5. ASSUME NEW c \in RbBookings, InTheWay(rec.b, rec.row, c)
      PROVE  rbRow[c].cal \in rec.todo
  <2>1. rbRow[c].cal \in Calendars
    BY <1>5 DEF InTheWay, Stands, RbInv, RbTypeOK, NoBooking, BookingRow
  <2> QED
    BY <1>5, <2>1 DEF InTheWay, ToSearch, Searched
<1>6. SearchIsSound' /\ OwnerBooksOnce'
  <2>1. rbMet \subseteq rbMet'
    BY <1>1 DEF Meets
  <2> HIDE DEF rec
  <2> QED
    BY <1>1, <1>5, <2>1, SearchGoesOn DEF RbInv
<1> QED
  BY <1>3, <1>4, <1>6 DEF RbInv

LEMMA UpdateKeeps ==
  ASSUME RbInv, NEW w \in RbWorkers, NEW b \in RbBookings,
         NEW on \in Kinds, NEW at \in RbTimes, BeginUpdate(w, b, on, at)
  PROVE  RbInv'
<1> DEFINE row == [rbRow[b] EXCEPT !.on = on, !.at = at]
           rec == [pc |-> "search", b |-> b, todo |-> ToSearch(on, rbRow[b].cal, FALSE), row |-> row]
<1>1. Does(w, rec) /\ Meets(b) /\ UNCHANGED <<rbRow, rbChanged>>
  BY DEF BeginUpdate
<1>2. rbRow[b] \in BookingRow /\ rbRow[b] # NoBooking
  BY DEF BeginUpdate, RbInv, RbTypeOK, NoBooking, Kinds
<1>3. row \in BookingRow /\ row.cal = rbRow[b].cal
  BY <1>2 DEF BookingRow
<1>4. rec \in Searching
  BY <1>3 DEF Searching, ToSearch, Searched
<1>5. RbTypeOK'
  BY <1>1, <1>4 DEF RbInv, RbTypeOK, Does
<1>6. /\ rec.b = b /\ rec.todo = ToSearch(on, rbRow[b].cal, FALSE)
      /\ rec.row.cal = rbRow[b].cal /\ rec.row.on = on
  BY <1>2, <1>3 DEF BookingRow
<1> HIDE DEF rec
<1>7. MetWhenTogether'
  BY <1>1, <1>4, <1>6, BeginsTogether DEF RbInv
<1>8. ASSUME NEW c \in RbBookings, InTheWay(rec.b, rec.row, c)
      PROVE  rbRow[c].cal \in rec.todo \/ (rbRow[c].cal = rec.row.cal /\ rbRow[rec.b] # NoBooking)
  <2>1. rbRow[c].cal \in Calendars
    BY <1>8 DEF InTheWay, Stands, RbInv, RbTypeOK, NoBooking, BookingRow
  <2> QED
    BY <1>2, <1>6, <1>8, <2>1 DEF InTheWay, ToSearch, Searched
<1>9. SearchIsSound' /\ OwnerBooksOnce'
  <2>1. rbMet \subseteq rbMet'
    BY <1>1 DEF Meets
  <2> QED
    BY <1>1, <1>8, <2>1, SearchGoesOn DEF RbInv
<1> QED
  BY <1>5, <1>7, <1>9 DEF RbInv

LEMMA BeginCancelKeeps ==
  ASSUME RbInv, NEW w \in RbWorkers, NEW b \in RbBookings, BeginCancel(w, b)
  PROVE  RbInv'
<1> DEFINE row == [rbRow[b] EXCEPT !.on = "cancelled"]
           rec == [pc |-> "cancel", b |-> b, row |-> row]
<1>1. Does(w, rec) /\ Meets(b) /\ UNCHANGED <<rbRow, rbChanged>>
  BY DEF BeginCancel
<1>2. rbRow[b] \in BookingRow
  BY DEF BeginCancel, Stands, RbInv, RbTypeOK, NoBooking
<1>3. row \in BookingRow /\ row.on = "cancelled"
  BY <1>2 DEF BookingRow, Kinds
<1>4. rec \in Cancelling
  BY <1>3 DEF Cancelling
<1>5. RbTypeOK'
  BY <1>1, <1>4 DEF RbInv, RbTypeOK, Does
<1>6. rec.b = b /\ rec.pc = "cancel"
  OBVIOUS
<1> HIDE DEF rec
<1>7. MetWhenTogether'
  BY <1>1, <1>4, <1>6, BeginsTogether DEF RbInv
<1>8. rbMet \subseteq rbMet'
  BY <1>1 DEF Meets
<1>9. SearchIsSound' /\ OwnerBooksOnce'
  BY <1>1, <1>6, <1>8, SearchGoesOn DEF RbInv
<1> QED
  BY <1>5, <1>7, <1>9 DEF RbInv

(* A calendar without a conflict holds nothing that is in the way. *)
LEMMA SearchKeeps ==
  ASSUME RbInv, NEW w \in RbWorkers, NEW k \in Calendars, Search(w, k)
  PROVE  RbInv'
<1>1. rbWork[w] \in Searching /\ rbWork[w] # RbIdle
  BY DEF Search, RbInv, RbTypeOK, RbIdle, Cancelling
<1>2. CASE Conflicts(k, rbWork[w].row, rbWork[w].b) # {}
  BY <1>1, <1>2, EndsQuietly DEF Search
<1>3. CASE Conflicts(k, rbWork[w].row, rbWork[w].b) = {}
  <2> DEFINE rec == [rbWork[w] EXCEPT !.todo = @ \ {k}]
  <2>1. Does(w, rec) /\ UNCHANGED <<rbRow, rbMet, rbChanged>>
    BY <1>3 DEF Search
  <2>2. /\ rec \in Searching /\ rec.b = rbWork[w].b /\ rec.row = rbWork[w].row
        /\ rec.todo = rbWork[w].todo \ {k} /\ rbWork[w].pc = "search"
    BY <1>1 DEF Searching
  <2> HIDE DEF rec
  <2>3. RbTypeOK'
    BY <2>1, <2>2 DEF RbInv, RbTypeOK, Does
  <2>4. MetWhenTogether'
    BY <1>1, <2>1, <2>2, GoesOnTogether DEF RbInv
  <2>5. ASSUME NEW c \in RbBookings, InTheWay(rec.b, rec.row, c)
        PROVE  rbRow[c].cal \in rec.todo \/ (rbRow[c].cal = rec.row.cal /\ rbRow[rec.b] # NoBooking)
    <3>1. rbRow[c].cal # k
      <4>1. c \notin Conflicts(k, rbWork[w].row, rbWork[w].b)
        BY <1>3
      <4>2. rbRow[c].at \in Nat /\ rbRow[c].at = rbWork[w].row.at
        <5>1. rbRow[c] \in BookingRow
          BY <2>5 DEF InTheWay, Stands, RbInv, RbTypeOK, NoBooking
        <5>2. rbRow[c].at \in Nat
          BY <5>1, BookingAssumption DEF BookingRow
        <5> QED
          BY <2>2, <2>5, <5>2 DEF InTheWay
      <4> QED
        BY <2>2, <2>5, <4>1, <4>2 DEF InTheWay, Stands, Conflicts
    <3> QED
      BY <2>2, <2>5, <3>1 DEF RbInv, SearchIsSound
  <2>6. SearchIsSound' /\ OwnerBooksOnce'
    BY <2>1, <2>5, SearchGoesOn DEF RbInv
  <2> QED
    BY <2>3, <2>4, <2>6 DEF RbInv
<1> QED
  BY <1>2, <1>3

LEMMA StoreKeeps ==
  ASSUME RbInv, NEW w \in RbWorkers, Store(w)
  PROVE  RbInv'
<1> DEFINE b == rbWork[w].b
           row == rbWork[w].row
<1>1. /\ rbWork[w] # RbIdle /\ rbWork[w].pc = "search" /\ rbWork[w].todo = {}
      /\ b \in RbBookings /\ row \in BookingRow
  BY DEF Store, RbInv, RbTypeOK, RbIdle, Cancelling, Searching
<1>2. Does(w, RbIdle) /\ rbMet' = rbMet
  BY DEF Store
<1>3. CASE rbRow[b].on = "deleted"
  BY <1>1, <1>2, <1>3, EndsQuietly DEF Store
<1>4. CASE rbRow[b].on # "deleted" /\ rbRow[b] = row
  <2>1. rbRow' = rbRow
    BY <1>1, <1>4 DEF Store, Writes, RbInv, RbTypeOK
  <2>2. rbChanged' = rbChanged
    BY <1>4 DEF Store
  <2> QED
    BY <1>1, <1>2, <2>1, <2>2, EndsQuietly
<1>5. CASE rbRow[b].on # "deleted" /\ rbRow[b] # row
  <2>1. /\ Writes(b, row) /\ rbChanged \subseteq rbChanged'
        /\ rbRow[b] # NoBooking => b \in rbChanged'
    BY <1>5 DEF Store
  <2>2. RbTypeOK'
    BY <1>1, <1>2, <2>1 DEF RbInv, RbTypeOK, Does, Writes
  <2>3. MetWhenTogether'
    BY <1>1, <1>2, GoesOnTogether DEF RbInv
  <2>4. ASSUME NEW c \in RbBookings, InTheWay(b, row, c)
        PROVE  rbRow[c].cal = row.cal /\ b \in rbChanged'
    BY <1>1, <2>1, <2>4 DEF RbInv, SearchIsSound
  <2>5. SearchIsSound' /\ OwnerBooksOnce'
    BY <1>1, <1>2, <2>1, <2>4, RowWritten
  <2> QED
    BY <2>2, <2>3, <2>5 DEF RbInv
<1> QED
  BY <1>3, <1>4, <1>5

LEMMA CancelKeeps ==
  ASSUME RbInv, NEW w \in RbWorkers, Cancel(w)
  PROVE  RbInv'
<1> DEFINE b == rbWork[w].b
           row == rbWork[w].row
<1>1. rbWork[w] # RbIdle /\ b \in RbBookings /\ row \in BookingRow /\ row.on = "cancelled"
  BY DEF Cancel, RbInv, RbTypeOK, RbIdle, Cancelling, Searching
<1>2. Does(w, RbIdle) /\ rbMet' = rbMet /\ rbChanged' = rbChanged
  BY DEF Cancel
<1>3. CASE rbRow[b].on = "deleted"
  BY <1>1, <1>2, <1>3, EndsQuietly DEF Cancel
<1>4. CASE rbRow[b].on # "deleted"
  <2>1. Writes(b, row)
    BY <1>4 DEF Cancel
  <2>2. RbTypeOK'
    BY <1>1, <1>2, <2>1 DEF RbInv, RbTypeOK, Does, Writes
  <2>3. MetWhenTogether'
    BY <1>1, <1>2, GoesOnTogether DEF RbInv
  <2>4. SearchIsSound' /\ OwnerBooksOnce'
    BY <1>1, <1>2, <2>1, RowWritten DEF InTheWay
  <2> QED
    BY <2>2, <2>3, <2>4 DEF RbInv
<1> QED
  BY <1>3, <1>4

LEMMA DeleteKeeps ==
  ASSUME RbInv, NEW b \in RbBookings, Delete(b)
  PROVE  RbInv'
<1>1. \A c \in RbBookings : rbRow'[c] = IF c = b THEN [on |-> "deleted"] ELSE rbRow[c]
  BY DEF Delete, Writes, RbInv, RbTypeOK
<1>2. UNCHANGED <<rbWork, rbMet, rbChanged>>
  BY DEF Delete
<1>3. RbTypeOK'
  BY DEF Delete, Writes, RbInv, RbTypeOK
<1>4. \A c \in RbBookings : Stands(c)' => Stands(c) /\ rbRow'[c] = rbRow[c]
  BY <1>1 DEF Stands
<1>5. \A c \in RbBookings : rbRow[c] # NoBooking => rbRow'[c] # NoBooking
  BY <1>1 DEF NoBooking
<1>6. \A w \in RbWorkers : rbWork[w].pc = "search" => rbWork[w].b \in RbBookings
  BY DEF RbInv, RbTypeOK, RbIdle, Searching, Cancelling
<1>7. MetWhenTogether'
  BY <1>2 DEF RbInv, MetWhenTogether
<1>8. SearchIsSound'
  BY <1>2, <1>4, <1>5, <1>6 DEF RbInv, SearchIsSound, InTheWay
<1>9. OwnerBooksOnce'
  BY <1>2, <1>4 DEF RbInv, OwnerBooksOnce, Doubled
<1> QED
  BY <1>3, <1>7, <1>8, <1>9 DEF RbInv

LEMMA RbKeeps == RbInv /\ [RbNext]_rbVars => RbInv'
<1> SUFFICES ASSUME RbInv, [RbNext]_rbVars PROVE RbInv'
  OBVIOUS
<1>1. CASE UNCHANGED rbVars
  BY <1>1 DEF rbVars, RbInv, RbTypeOK, MetWhenTogether, SearchIsSound, InTheWay, Stands,
              OwnerBooksOnce, Doubled
<1>2. CASE RbNext
  BY <1>2, CreateKeeps, UpdateKeeps, BeginCancelKeeps, SearchKeeps, StoreKeeps, CancelKeeps,
     DeleteKeeps DEF RbNext
<1> QED
  BY <1>1, <1>2

-----------------------------------------------------------------------------
(* Two bookings of one owner stand at the same time only if their requests *)
(* overlapped, or if an update changed one within the calendar that holds  *)
(* both.                                                                   *)
THEOREM BookedOnceByOwner == RbSpec => []OwnerBooksOnce
<1>1. RbInv => OwnerBooksOnce
  BY DEF RbInv
<1> QED
  BY <1>1, RbStarts, RbKeeps, PTL DEF RbSpec
=============================================================================
