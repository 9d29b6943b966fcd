------------------------------ MODULE CopyProofs ------------------------------
(***************************************************************************)
(* Proofs that the attendee of CalendarEvents misses nothing, and that a   *)
(* deleted date is not shown again, for any length of the series and any   *)
(* number of requests at the same time.                                    *)
(*                                                                         *)
(* A series is tidy while no write, failure or choice of the attendee has  *)
(* excused a difference.  The invariant, CopyInv, says of a tidy series    *)
(* that either its copy is settled, or exactly one request has written the *)
(* organizer's rows and not yet the copy, and then how the copy stands to  *)
(* those rows depends on the kind of the request (ToDo).                   *)
(***************************************************************************)
EXTENDS CalendarProofs

-----------------------------------------------------------------------------
(* The organizer's series and the copy                                     *)

(* The organizer's series and the attendee's copy, with their detached     *)
(* occurrences, and the troubles a series has seen.                        *)
Mine(s) == master["organizer"][s]
Copy(s) == master["attendee"][s]
MineOcc(s) == occ["organizer"][s]
CopyOcc(s) == occ["attendee"][s]
Had(s, t) == <<s, t>> \in marks
Tidy(s) ==
    /\ Exists("organizer", s)
    /\ Clean(s, {"stale", "lost", "own", "double"}) /\ (Clean(s, {"moved"}) \/ Clean(s, {"twin"}))

(* Request r has changed the organizer's series s and not the copy yet.    *)
Pending(r, s) ==
    /\ req[r].at = "spread" /\ req[r].who = "organizer"
    /\ req[r].s = s \/ (req[r].op = "split" /\ s = r + 1)

(* How the rows of the copy (c, bs) stand to those of the organizer (m,    *)
(* os) when the organizer's are moved by delta: the same rule; an EXDATE   *)
(* more only where a row stands; every detached row is there as well, but  *)
(* for those of R; and a row of the copy stands at its own date unless one *)
(* of the organizer, or a date of D, explains it.                          *)
SameRule(m, c) == m.start = c.start /\ m.until = c.until /\ m.count = c.count
NoMoreGaps(m, c, bs) ==
    \A d \in c.ex \cap Dates(m) : d \in m.ex \/ \E b \in bs : b.rid = d
Seen(os, bs, delta, R) ==
    \A o \in os : \/ \E n \in R : n.id = o.id /\ n.rid = o.rid /\ n.at = o.at
                  \/ \E b \in bs : o.rid = b.rid + delta /\ o.at = b.at + delta
Placed(os, bs, delta, D) ==
    \A b \in bs : b.at = b.rid \/ (\E o \in os : o.rid = b.rid + delta) \/ b.rid \in D

(* Where a second row of the copy may be left.                             *)
Left(s) == IF Had(s, "twin") THEN Mine(s).ex ELSE {}

Settled(s) ==
    /\ Exists("attendee", s) /\ SameRule(Mine(s), Copy(s)) /\ NoMoreGaps(Mine(s), Copy(s), CopyOcc(s))
    /\ Seen(MineOcc(s), CopyOcc(s), 0, {}) /\ Placed(MineOcc(s), CopyOcc(s), 0, Left(s))

(* What is still to be done, by the kind of request.                       *)
MovePending(r, s) ==
    /\ Exists("attendee", s)
    /\ Seen(MineOcc(s), CopyOcc(s), req[r].slot, {})
    /\ Placed(MineOcc(s), CopyOcc(s), req[r].slot, Left(s))
    /\ req[r].slot # 0 => Had(s, "moved")
OverridePending(r, s) ==
    /\ Exists("attendee", s) /\ SameRule(Mine(s), Copy(s)) /\ NoMoreGaps(Mine(s), Copy(s), CopyOcc(s))
    /\ Seen(MineOcc(s), CopyOcc(s), 0, req[r].rows) /\ Placed(MineOcc(s), CopyOcc(s), 0, Left(s))
    /\ \E n \in req[r].rows :
         /\ req[r].rows = {n} /\ \E o \in MineOcc(s) : n.id = o.id /\ n.rid = o.rid /\ n.at = o.at
         /\ n.id[1] = r \/ \E b \in CopyOcc(s) : b.rid = n.rid
CancelPending(r, s) ==
    /\ Exists("attendee", s) /\ SameRule(Mine(s), Copy(s)) /\ NoMoreGaps(Mine(s), Copy(s), CopyOcc(s))
    /\ Seen(MineOcc(s), CopyOcc(s), 0, {})
    /\ Placed(MineOcc(s), CopyOcc(s), 0, Left(s) \cup {req[r].slot})
    /\ req[r].slot \in Mine(s).ex /\ \A o \in MineOcc(s) : o.rid # req[r].slot
CutPending(r, s) ==
    LET rids == {x.rid : x \in req[r].rows} IN
    /\ Exists("attendee", s) /\ Seen(MineOcc(s), CopyOcc(s), 0, {})
    /\ Placed(MineOcc(s), CopyOcc(s), 0, Left(s) \cup rids)
    /\ rids \cap Dates(Mine(s)) = {} /\ \A o \in MineOcc(s) : o.rid \notin rids
    /\ ~Had(s, "moved") => rids \subseteq Mine(s).ex
NewPending(r, s) ==
    /\ MineOcc(s) = {} /\ CopyOcc(s) = {}
    /\ SameRule(Mine(s), req[r].new) /\ Mine(s).ex = req[r].new.ex
ToDo(r, s) ==
    /\ req[r].op \in {"retitle", "move"} => MovePending(r, s)
    /\ req[r].op = "override" => OverridePending(r, s)
    /\ req[r].op = "cancel" => CancelPending(r, s)
    /\ req[r].op \in {"split", "truncate"} /\ s = req[r].s => CutPending(r, s)
    /\ s # req[r].s => NewPending(r, s)
    /\ req[r].op # "delete"

Distinct(os) == \A o, x \in os : o.rid = x.rid \/ o.id = x.id => o = x
Single(bs) == \A b, x \in bs : b.rid = x.rid => b = x

(* A tidy series is settled, or exactly one request has something to do.   *)
Cover(s) ==
    /\ \A q, r \in Requests : Pending(q, s) /\ Pending(r, s) => q = r
    /\ Distinct(MineOcc(s)) /\ (Had(s, "twin") \/ Single(CopyOcc(s)))
    /\ Had(s, "moved") \/ \A o \in MineOcc(s) : o.rid \in Mine(s).ex
    /\ (\A r \in Requests : ~Pending(r, s)) => Settled(s)
    /\ \A r \in Requests : Pending(r, s) => ToDo(r, s)

(* The row that a request of the organizer read has moved with the series  *)
(* alone: an update meets the row it read.                                 *)
Aims(r) ==
    LET s == req[r].s
        b == req[r].read
    IN \A o \in req[r].rows :
          /\ o.rid = req[r].slot
          /\ \A x \in MineOcc(s) : x.id = o.id => x.rid - Mine(s).start = o.rid - b.start

Past(r) == req[r].at \in {"spread", "done"}

(* A row bears the number of the request that made it.                     *)
Numbered ==
    /\ \A s \in Series : \A o \in MineOcc(s) : Past(o.id[1])
    /\ \A r \in Requests : req[r].at = "commit" /\ req[r].op = "override" =>
          \A o \in req[r].rows : Past(o.id[1])

(* Nobody knows the series that a request may start.                       *)
Unborn(r) ==
    /\ req[r].at \in {"idle", "commit"} =>
         /\ \A p \in People : ~Exists(p, r + 1) /\ occ[p][r + 1] = {}
         /\ \A q \in Requests : req[q].s # r + 1
    /\ req[r].at = "spread" /\ req[r].op = "split" =>
         /\ ~Exists("attendee", r + 1) /\ occ["attendee"][r + 1] = {}
         /\ \A q \in Requests : req[q].who = "attendee" => req[q].s # r + 1
    /\ req[r].s # r + 1
    /\ req[r].op \in AttendeeOps <=> req[r].who = "attendee"

CopyInv ==
    /\ OwnInv
    /\ Numbered /\ \A r \in Requests : Unborn(r)
    /\ \A r \in Requests : req[r].at = "commit" /\ req[r].op = "override" /\ Tidy(req[r].s) => Aims(r)
    /\ \A r \in Requests : req[r].at = "commit" /\ req[r].op \in {"split", "truncate"} =>
          req[r].slot \in Dates(req[r].read)
    /\ \A s \in Series : Tidy(s) => Cover(s)

-----------------------------------------------------------------------------
(* What the rows have to do with each other, as the steps change them      *)

Within(X, Y) == \A x \in X : \E y \in Y : x.id = y.id /\ x.rid = y.rid /\ x.at = y.at
Grown(X, Y) ==
    /\ Within(X, Y)
    /\ \A y \in Y : y.at = y.rid \/ \E x \in X : x.rid = y.rid /\ x.at = y.at

LEMMA SameDates ==
  ASSUME NEW m, NEW c, SameRule(m, c)
  PROVE  Dates(m) = Dates(c) /\ SameRule(c, m)
  BY DEF SameRule, Dates

LEMMA SeenStays ==
  ASSUME NEW os, NEW bs, NEW delta, NEW R, NEW os2, NEW bs2,
         Seen(os, bs, delta, R), Within(os2, os), Within(bs, bs2)
  PROVE  Seen(os2, bs2, delta, R)
<1> SUFFICES ASSUME NEW x \in os2
             PROVE  \/ \E n \in R : n.id = x.id /\ n.rid = x.rid /\ n.at = x.at
                    \/ \E b \in bs2 : x.rid = b.rid + delta /\ x.at = b.at + delta
  BY DEF Seen
<1>1. PICK o \in os : x.id = o.id /\ x.rid = o.rid /\ x.at = o.at
  BY DEF Within
<1>2. CASE \E n \in R : n.id = o.id /\ n.rid = o.rid /\ n.at = o.at
  BY <1>1, <1>2
<1>3. CASE \E b \in bs : o.rid = b.rid + delta /\ o.at = b.at + delta
  BY <1>1, <1>3 DEF Within
<1> QED
  BY <1>2, <1>3 DEF Seen

LEMMA PlacedStays ==
  ASSUME NEW os, NEW bs, NEW delta, NEW D, NEW os2, NEW bs2, NEW D2,
         Placed(os, bs, delta, D), Within(os, os2), D \subseteq D2,
         \A y \in bs2 : y.at = y.rid \/ \E x \in bs : x.rid = y.rid /\ x.at = y.at
  PROVE  Placed(os2, bs2, delta, D2)
<1> SUFFICES ASSUME NEW y \in bs2, y.at # y.rid
             PROVE  (\E o \in os2 : o.rid = y.rid + delta) \/ y.rid \in D2
  BY DEF Placed
<1>1. PICK b \in bs : b.rid = y.rid /\ b.at = y.at
  OBVIOUS
<1>2. CASE \E o \in os : o.rid = b.rid + delta
  BY <1>1, <1>2 DEF Within
<1>3. CASE b.rid \in D
  BY <1>1, <1>3
<1> QED
  BY <1>1, <1>2, <1>3 DEF Placed

LEMMA NoGapComes ==
  ASSUME NEW m, NEW c, NEW bs, NEW m2, NEW c2, NEW bs2,
         NoMoreGaps(m, c, bs), SameRule(m, m2), m.ex \subseteq m2.ex, Within(bs, bs2),
         \A d \in c2.ex \cap Dates(m2) : d \in c.ex \/ d \in m2.ex \/ \E b \in bs2 : b.rid = d
  PROVE  NoMoreGaps(m2, c2, bs2)
<1>1. Dates(m) = Dates(m2)
  BY SameDates
<1> SUFFICES ASSUME NEW d \in c2.ex \cap Dates(m2), d \notin m2.ex
             PROVE  \E b \in bs2 : b.rid = d
  BY DEF NoMoreGaps
<1>2. CASE d \in c.ex
  <2>1. PICK b \in bs : b.rid = d
    BY <1>1, <1>2 DEF NoMoreGaps
  <2> QED
    BY <2>1 DEF Within
<1> QED
  BY <1>2

LEMMA RealignKeeps ==
  ASSUME NEW os \in SUBSET Detached, NEW delta \in Int
  PROVE  /\ Distinct(os) => Distinct(Realign(os, delta))
         /\ Single(os) => Single(Realign(os, delta))
<1> DEFINE f(o) == [id |-> o.id, rid |-> o.rid + delta, at |-> o.at + delta, st |-> "needs action"]
<1>1. ASSUME NEW x \in Realign(os, delta) PROVE \E o \in os : x = f(o)
  <2>1. PICK y : /\ x = [y EXCEPT !.st = "needs action"]
                 /\ \E o \in os : y = [id |-> o.id, rid |-> o.rid + delta, at |-> o.at + delta, st |-> o.st]
    BY DEF Realign, Reset
  <2>2. PICK o \in os : y = [id |-> o.id, rid |-> o.rid + delta, at |-> o.at + delta, st |-> o.st]
    BY <2>1
  <2>3. x = f(o)
    BY <2>1, <2>2
  <2> QED
    BY <2>3
<1>2. ASSUME NEW o \in os, NEW q \in os PROVE f(o).rid = f(q).rid => o.rid = q.rid
  <2>1. o.rid \in Int /\ q.rid \in Int
    BY DEF Detached
  <2>2. f(o).rid = o.rid + delta /\ f(q).rid = q.rid + delta
    OBVIOUS
  <2>3. PICK a, b : a = o.rid /\ b = q.rid
    OBVIOUS
  <2>4. a \in Int /\ b \in Int
    BY <2>1, <2>3
  <2>5. a + delta = b + delta => a = b
    BY <2>4
  <2> HIDE DEF f
  <2> QED
    BY <2>2, <2>3, <2>5
<1>3. \A o \in os : f(o).id = o.id
  OBVIOUS
<1> HIDE DEF f
<1>4. ASSUME Distinct(os), NEW x \in Realign(os, delta), NEW y \in Realign(os, delta),
             x.rid = y.rid \/ x.id = y.id
      PROVE  x = y
  <2>1. PICK o \in os, q \in os : x = f(o) /\ y = f(q)
    BY <1>1
  <2>2. o = q
    BY <1>2, <1>3, <1>4, <2>1 DEF Distinct
  <2> QED
    BY <2>1, <2>2
<1>5. ASSUME Single(os), NEW x \in Realign(os, delta), NEW y \in Realign(os, delta), x.rid = y.rid
      PROVE  x = y
  <2>1. PICK o \in os, q \in os : x = f(o) /\ y = f(q)
    BY <1>1
  <2>2. o = q
    BY <1>2, <1>5, <2>1 DEF Single
  <2> QED
    BY <2>1, <2>2
<1> QED
  BY <1>4, <1>5 DEF Distinct, Single

LEMMA AcceptedKeeps ==
  ASSUME NEW os \in SUBSET Detached, NEW d
  PROVE  /\ Within(os, Accepted(os, d)) /\ Within(Accepted(os, d), os)
         /\ Distinct(os) => Distinct(Accepted(os, d))
         /\ Single(os) => Single(Accepted(os, d))
<1> DEFINE f(o) == IF o.rid = d THEN [o EXCEPT !.st = "accepted"] ELSE o
<1>1. Accepted(os, d) = {f(o) : o \in os}
  BY DEF Accepted
<1>2. \A o \in os : f(o).id = o.id /\ f(o).rid = o.rid /\ f(o).at = o.at
  BY DEF Detached
<1> HIDE DEF f
<1>3. Within(os, Accepted(os, d)) /\ Within(Accepted(os, d), os)
  BY <1>1, <1>2 DEF Within
<1>4. ASSUME NEW x \in Accepted(os, d), NEW y \in Accepted(os, d)
      PROVE  \E o \in os, q \in os : x = f(o) /\ y = f(q) /\ x.rid = o.rid /\ y.rid = q.rid /\ x.id = o.id /\ y.id = q.id
  BY <1>1, <1>2
<1>5. Distinct(os) => Distinct(Accepted(os, d))
  BY <1>4 DEF Distinct
<1>6. Single(os) => Single(Accepted(os, d))
  BY <1>4 DEF Single
<1> QED
  BY <1>3, <1>5, <1>6

-----------------------------------------------------------------------------
(* What a step leaves of a series                                          *)

Alone(y) ==
    /\ \A p \in People : master'[p][y] = master[p][y] /\ occ'[p][y] = occ[p][y]
    /\ Tidy(y)' => \A t \in Troubles : Had(y, t)' <=> Had(y, t)

(* Nothing is pending for the series that was not, and its rows are as     *)
(* they were, but for rows the attendee made.                              *)
Steady(y) ==
    /\ SameRule(Mine(y), Mine(y)') /\ Mine(y)'.ex = Mine(y).ex
    /\ Within(MineOcc(y), MineOcc(y)') /\ Within(MineOcc(y)', MineOcc(y))
    /\ Distinct(MineOcc(y)) => Distinct(MineOcc(y)')
    /\ Exists("attendee", y)' <=> Exists("attendee", y)
    /\ SameRule(Copy(y), Copy(y)')
    /\ \A d \in Copy(y)'.ex : d \in Copy(y).ex \/ \E b \in CopyOcc(y)' : b.rid = d
    /\ Grown(CopyOcc(y), CopyOcc(y)') /\ (Single(CopyOcc(y)) => Single(CopyOcc(y)'))
    /\ Had(y, "twin")' <=> Had(y, "twin")
    /\ Had(y, "moved")' <=> Had(y, "moved")
    /\ \A q \in Requests : (Pending(q, y)' <=> Pending(q, y)) /\ (Pending(q, y) => req'[q] = req[q])
    /\ \A q \in Requests : Pending(q, y) /\ req[q].s # y => CopyOcc(y)' = CopyOcc(y)

LEMMA WithinOnly ==
  ASSUME NEW X, NEW Y, Within(X, Y)
  PROVE  Y = {} => X = {}
  BY DEF Within

LEMMA SteadyParts ==
  ASSUME NEW y \in Series, Steady(y)
  PROVE  /\ SameRule(Mine(y), Copy(y)) => SameRule(Mine(y)', Copy(y)')
         /\ SameRule(Mine(y), Copy(y)) /\ NoMoreGaps(Mine(y), Copy(y), CopyOcc(y)) =>
               NoMoreGaps(Mine(y)', Copy(y)', CopyOcc(y)')
         /\ \A R, delta : Seen(MineOcc(y), CopyOcc(y), delta, R) => Seen(MineOcc(y)', CopyOcc(y)', delta, R)
         /\ \A D, delta : Placed(MineOcc(y), CopyOcc(y), delta, D) => Placed(MineOcc(y)', CopyOcc(y)', delta, D)
         /\ Left(y)' = Left(y) /\ Dates(Mine(y)') = Dates(Mine(y))
<1>1. PICK m, c, os, bs, m2, c2, os2, bs2 :
          /\ m = Mine(y) /\ c = Copy(y) /\ os = MineOcc(y) /\ bs = CopyOcc(y)
          /\ m2 = Mine(y)' /\ c2 = Copy(y)' /\ os2 = MineOcc(y)' /\ bs2 = CopyOcc(y)'
  OBVIOUS
<1>2. /\ SameRule(m, m2) /\ m2.ex = m.ex /\ Within(os, os2) /\ Within(os2, os)
      /\ SameRule(c, c2) /\ (\A d \in c2.ex : d \in c.ex \/ \E b \in bs2 : b.rid = d)
      /\ Grown(bs, bs2)
  BY <1>1 DEF Steady
<1>3. SameRule(m, c) => SameRule(m2, c2)
  BY <1>2 DEF SameRule
<1>4. NoMoreGaps(m, c, bs) => NoMoreGaps(m2, c2, bs2)
  <2>1. m.ex \subseteq m2.ex /\ Within(bs, bs2) /\ \A d \in c2.ex \cap Dates(m2) : d \in c.ex \/ d \in m2.ex \/ \E b \in bs2 : b.rid = d
    BY <1>2 DEF Grown
  <2> QED
    BY <1>2, <2>1, NoGapComes
<1>5. ASSUME NEW R, NEW delta, Seen(os, bs, delta, R) PROVE Seen(os2, bs2, delta, R)
  BY <1>2, <1>5, SeenStays DEF Grown
<1>6. ASSUME NEW D, NEW delta, Placed(os, bs, delta, D) PROVE Placed(os2, bs2, delta, D)
  <2>1. \A x \in bs2 : x.at = x.rid \/ \E b \in bs : b.rid = x.rid /\ b.at = x.at
    BY <1>2 DEF Grown
  <2> QED
    BY <1>2, <1>6, <2>1, PlacedStays
<1>7. Left(y)' = Left(y)
  BY <1>1, <1>2 DEF Left, Steady
<1>8. Dates(m2) = Dates(m)
  BY <1>2, SameDates
<1> QED
  BY <1>1, <1>3, <1>4, <1>5, <1>6, <1>7, <1>8

LEMMA CoverStays ==
  ASSUME NEW y \in Series, Cover(y), Steady(y)
  PROVE  Cover(y)'
<1>1. /\ SameRule(Mine(y), Copy(y)) => SameRule(Mine(y)', Copy(y)')
      /\ SameRule(Mine(y), Copy(y)) /\ NoMoreGaps(Mine(y), Copy(y), CopyOcc(y)) =>
            NoMoreGaps(Mine(y)', Copy(y)', CopyOcc(y)')
      /\ \A R, delta : Seen(MineOcc(y), CopyOcc(y), delta, R) => Seen(MineOcc(y)', CopyOcc(y)', delta, R)
      /\ \A D, delta : Placed(MineOcc(y), CopyOcc(y), delta, D) => Placed(MineOcc(y)', CopyOcc(y)', delta, D)
      /\ Left(y)' = Left(y) /\ Dates(Mine(y)') = Dates(Mine(y))
  BY SteadyParts
<1>2. /\ Exists("attendee", y)' <=> Exists("attendee", y)
      /\ Had(y, "moved")' <=> Had(y, "moved")
      /\ Mine(y)'.ex = Mine(y).ex
      /\ Within(MineOcc(y), MineOcc(y)') /\ Within(MineOcc(y)', MineOcc(y))
      /\ Within(CopyOcc(y), CopyOcc(y)')
      /\ \A q \in Requests : (Pending(q, y)' <=> Pending(q, y)) /\ (Pending(q, y) => req'[q] = req[q])
      /\ \A q \in Requests : Pending(q, y) /\ req[q].s # y => CopyOcc(y)' = CopyOcc(y)
  BY DEF Steady, Grown
<1>3. /\ \A q, r \in Requests : Pending(q, y)' /\ Pending(r, y)' => q = r
      /\ Distinct(MineOcc(y)') /\ (Had(y, "twin")' \/ Single(CopyOcc(y)'))
  BY <1>2 DEF Cover, Steady
<1>4. Had(y, "moved")' \/ \A o \in MineOcc(y)' : o.rid \in Mine(y)'.ex
  BY <1>2 DEF Cover, Within
<1>5. (\A r \in Requests : ~Pending(r, y)') => Settled(y)'
  <2> SUFFICES ASSUME \A r \in Requests : ~Pending(r, y)' PROVE Settled(y)'
    OBVIOUS
  <2>1. Settled(y)
    BY <1>2 DEF Cover
  <2> QED
    BY <1>1, <1>2, <2>1 DEF Settled
<1>6. ASSUME NEW r \in Requests, Pending(r, y)' PROVE ToDo(r, y)'
  <2>1. Pending(r, y) /\ ToDo(r, y) /\ req'[r] = req[r]
    BY <1>2, <1>6 DEF Cover
  <2>2. PICK rec : rec = req[r]
    OBVIOUS
  <2>3. req'[r] = rec /\ req[r] = rec
    BY <2>1, <2>2
  <2>4. MovePending(r, y) => MovePending(r, y)'
    BY <1>1, <1>2, <2>3 DEF MovePending
  <2>5. OverridePending(r, y) => OverridePending(r, y)'
    <3> SUFFICES ASSUME OverridePending(r, y) PROVE OverridePending(r, y)'
      OBVIOUS
    <3>1. PICK n \in rec.rows : /\ rec.rows = {n}
                                /\ \E o \in MineOcc(y) : n.id = o.id /\ n.rid = o.rid /\ n.at = o.at
                                /\ n.id[1] = r \/ \E b \in CopyOcc(y) : b.rid = n.rid
      BY <2>3 DEF OverridePending
    <3>2. \E o \in MineOcc(y)' : n.id = o.id /\ n.rid = o.rid /\ n.at = o.at
      BY <1>2, <3>1 DEF Within
    <3>3. n.id[1] = r \/ \E b \in CopyOcc(y)' : b.rid = n.rid
      BY <1>2, <3>1 DEF Within
    <3> QED
      BY <1>1, <1>2, <2>3, <3>1, <3>2, <3>3 DEF OverridePending
  <2>6. CancelPending(r, y) => CancelPending(r, y)'
    <3>1. (\A o \in MineOcc(y) : o.rid # rec.slot) => (\A o \in MineOcc(y)' : o.rid # rec.slot)
      BY <1>2 DEF Within
    <3> QED
      BY <1>1, <1>2, <2>3, <3>1 DEF CancelPending
  <2>7. CutPending(r, y) => CutPending(r, y)'
    <3> DEFINE rids == {x.rid : x \in rec.rows}
    <3>1. (\A o \in MineOcc(y) : o.rid \notin rids) => (\A o \in MineOcc(y)' : o.rid \notin rids)
      BY <1>2 DEF Within
    <3> QED
      BY <1>1, <1>2, <2>3, <3>1 DEF CutPending
  <2>8. y # rec.s /\ NewPending(r, y) => NewPending(r, y)'
    <3> SUFFICES ASSUME y # rec.s, NewPending(r, y) PROVE NewPending(r, y)'
      OBVIOUS
    <3>1. CopyOcc(y)' = {} /\ MineOcc(y)' = {}
      BY <1>2, <2>1, <2>3, WithinOnly DEF NewPending
    <3>2. SameRule(Mine(y)', rec.new)
      BY <2>3 DEF NewPending, Steady, SameRule
    <3> QED
      BY <1>2, <2>3, <3>1, <3>2 DEF NewPending
  <2> QED
    BY <2>1, <2>3, <2>4, <2>5, <2>6, <2>7, <2>8 DEF ToDo
<1> QED
  BY <1>3, <1>4, <1>5, <1>6 DEF Cover

LEMMA AloneIsSteady ==
  ASSUME NEW y \in Series, Alone(y), Tidy(y)',
         \A q \in Requests : (Pending(q, y)' <=> Pending(q, y)) /\ (Pending(q, y) => req'[q] = req[q])
  PROVE  Steady(y) /\ (Exists("organizer", y)' <=> Exists("organizer", y))
<1>1. /\ Mine(y)' = Mine(y) /\ MineOcc(y)' = MineOcc(y) /\ Copy(y)' = Copy(y) /\ CopyOcc(y)' = CopyOcc(y)
      /\ Exists("organizer", y)' <=> Exists("organizer", y)
      /\ Exists("attendee", y)' <=> Exists("attendee", y)
  BY CalConstants DEF Alone, Mine, MineOcc, Copy, CopyOcc, Exists
<1>2. (Had(y, "twin")' <=> Had(y, "twin")) /\ (Had(y, "moved")' <=> Had(y, "moved"))
  BY DEF Alone, Troubles
<1>3. /\ \A X : Within(X, X) /\ Grown(X, X)
      /\ \A m : SameRule(m, m)
  BY DEF Within, Grown, SameRule
<1> QED
  BY <1>1, <1>2, <1>3 DEF Steady

-----------------------------------------------------------------------------
(* What every step of a request has in common: its series alone, and the   *)
(* one it starts, are written; no other series comes into being; a row of  *)
(* the organizer keeps its number, and moves only with the series.         *)

Step(r) ==
    /\ Asking(r) /\ Past(r)' /\ marks \subseteq marks'
    /\ req'[r].at = "spread" =>
          /\ req[r].at = "commit" /\ req'[r].s = req[r].s
          /\ req'[r].op = req[r].op /\ req'[r].who = req[r].who
    /\ req'[r].at = "done" =>
          req'[r].s = 1 /\ req'[r].op = "retitle" /\ req'[r].who = "organizer"
    /\ \A y \in Series : y # req[r].s /\ ~(req[r].op = "split" /\ y = r + 1) => Alone(y)

Drifts(r, y) ==
    \E delta \in Int :
        /\ Mine(y)'.start = Mine(y).start + delta
        /\ \A x \in MineOcc(y)' :
              \/ \E o \in MineOcc(y) : x.id = o.id /\ x.rid = o.rid + delta
              \/ req[r].at = "commit" /\ x.id[1] = r

Tame(r) ==
    /\ \A y \in Series : y # r + 1 \/ req[r].at = "spread" =>
          /\ Exists("organizer", y)' => Exists("organizer", y)
          /\ Tidy(y)' => Drifts(r, y)
    /\ \A y \in Series \ {r + 1} :
          req[r].who = "organizer" /\ ~Exists("attendee", y) /\ CopyOcc(y) = {} =>
             ~Exists("attendee", y)' /\ CopyOcc(y)' = {}
    /\ req'[r].at = "spread" /\ req[r].op = "split" =>
          Copy(r + 1)' = Copy(r + 1) /\ CopyOcc(r + 1)' = CopyOcc(r + 1)
    /\ \A y \in Series : \A x \in MineOcc(y)' : x.id[1] = r \/ \E o \in MineOcc(y) : o.id = x.id

LEMMA TidyBefore ==
  ASSUME marks \subseteq marks', NEW y \in Series, Exists("organizer", y)' => Exists("organizer", y), Tidy(y)'
  PROVE  Tidy(y) /\ \A t \in {"stale", "lost", "own", "double"} : ~Had(y, t)'
  BY DEF Tidy, Clean, Had

LEMMA AimsStay ==
  ASSUME CalTyped, CalTyped', NEW r \in Requests, NEW q \in Requests, req'[q] = req[q],
         Aims(q), \A o \in req[q].rows : Past(o.id[1]), Drifts(r, req[q].s),
         Exists("organizer", req[q].s), NEW y \in Series, y = req[q].s, Exists("organizer", y)'
  PROVE  Aims(q)'
<1>1. PICK m, m2, os, os2, b, rec :
         /\ m = Mine(y) /\ m2 = Mine(y)' /\ os = MineOcc(y) /\ os2 = MineOcc(y)' /\ rec = req[q] /\ b = rec.read
  OBVIOUS
<1>2. /\ m \in Row /\ m2 \in Row /\ b \in Row /\ rec.slot \in Int
      /\ os \in SUBSET Detached /\ os2 \in SUBSET Detached /\ rec.rows \in SUBSET Detached
  <2>1. m \in Row /\ os \in SUBSET Detached
    BY <1>1, RowsType, CalConstants DEF Mine, MineOcc
  <2>2. master'["organizer"][y] \in Row \cup {NoEvent} /\ master'["organizer"][y] # NoEvent /\ os2 \in SUBSET Detached
    BY <1>1, CalConstants DEF Exists, MineOcc, CalTyped
  <2>3. b \in Row /\ rec.slot \in Int /\ rec.rows \in SUBSET Detached
    BY <1>1 DEF CalTyped, Asked
  <2> QED
    BY <1>1, <2>1, <2>2, <2>3 DEF Mine
<1>3. PICK delta \in Int :
        /\ m2.start = m.start + delta
        /\ \A x \in os2 :
              \/ \E o \in os : x.id = o.id /\ x.rid = o.rid + delta
              \/ req[r].at = "commit" /\ x.id[1] = r
  BY <1>1 DEF Drifts
<1>4. \A o \in rec.rows :
         /\ o.rid = rec.slot
         /\ \A x \in os : x.id = o.id => x.rid - m.start = o.rid - b.start
  BY <1>1 DEF Aims
<1>5. ASSUME NEW x \in os2, NEW o \in os, x.rid = o.rid + delta PROVE x.rid - m2.start = o.rid - m.start
  <2>1. PICK i, j : i = o.rid /\ j = m.start
    OBVIOUS
  <2>2. i \in Int /\ j \in Int
    BY <1>2, <2>1 DEF Detached, Row
  <2>3. (i + delta) - (j + delta) = i - j
    BY <2>2
  <2> QED
    BY <1>3, <1>5, <2>1, <2>3
<1>6. ASSUME NEW o \in rec.rows, NEW x \in os2, x.id = o.id PROVE x.rid - m2.start = o.rid - b.start
  <2>1. ~(req[r].at = "commit" /\ x.id[1] = r)
    BY <1>1, <1>6 DEF Past
  <2>2. PICK z \in os : x.id = z.id /\ x.rid = z.rid + delta
    BY <1>3, <2>1
  <2> QED
    BY <1>4, <1>5, <1>6, <2>2
<1>7. req'[q] = rec /\ rec.s = y
  BY <1>1
<1> QED
  BY <1>1, <1>4, <1>6, <1>7 DEF Aims

LEMMA NumbersStay ==
  ASSUME CopyInv, CalTyped', NEW r \in Requests, Step(r), Tame(r)
  PROVE  Numbered'
<1>1. ASSUME NEW i \in Requests, Past(i) PROVE Past(i)'
  BY <1>1 DEF Past, Step, Asking
<1>2. CalTyped
  BY DEF CopyInv, OwnInv
<1>3. ASSUME NEW o \in Detached PROVE o.id[1] \in Requests
  BY DEF Detached
<1>4. ASSUME NEW y \in Series, NEW x \in MineOcc(y)' PROVE Past(x.id[1])'
  <2>1. CASE x.id[1] = r
    BY <2>1 DEF Step
  <2>2. CASE \E o \in MineOcc(y) : o.id = x.id
    <3>1. PICK o \in MineOcc(y) : o.id = x.id
      BY <2>2
    <3>2. o \in Detached /\ Past(o.id[1])
      BY <1>2, RowsType, CalConstants DEF MineOcc, CopyInv, Numbered
    <3> QED
      BY <1>1, <1>3, <3>1, <3>2
  <2> QED
    BY <2>1, <2>2 DEF Tame
<1>5. ASSUME NEW q \in Requests, req'[q].at = "commit", req'[q].op = "override", NEW o \in req'[q].rows
      PROVE  Past(o.id[1])'
  <2>1. q # r /\ req'[q] = req[q]
    BY <1>5 DEF Step, Past, Asking
  <2>2. Past(o.id[1]) /\ o \in Detached
    BY <1>2, <1>5, <2>1 DEF CopyInv, Numbered, CalTyped, Asked
  <2> QED
    BY <1>1, <1>3, <2>2
<1> QED
  BY <1>4, <1>5 DEF Numbered

LEMMA UnbornStay ==
  ASSUME CopyInv, NEW r \in Requests, Step(r), Tame(r), NEW q \in Requests
  PROVE  Unborn(q)'
<1>1. /\ q \in Series /\ q + 1 \in Series /\ 1 # q + 1 /\ Unborn(q) /\ Unborn(r)
      /\ req[q].at \in {"idle", "commit", "spread", "done"}
      /\ \A x \in Requests \ {r} : req'[x] = req[x]
  <2>1. q \in Series /\ q + 1 \in Series /\ 1 # q + 1
    BY CalConstants DEF Requests
  <2>2. Unborn(q) /\ Unborn(r) /\ req[q] \in Asked
    BY DEF CopyInv, OwnInv, CalTyped
  <2>3. req[q].at \in {"idle", "commit", "spread", "done"}
    BY <2>2 DEF Asked
  <2>4. \A x \in Requests \ {r} : req'[x] = req[x]
    BY DEF Step, Asking
  <2> QED
    BY <2>1, <2>2, <2>3, <2>4
<1>2. CASE q # r
  <2>1. q + 1 # r + 1 /\ req'[q] = req[q]
    BY <1>1, <1>2, CalConstants
  <2>2. ASSUME req[q].at \in {"idle", "commit"}
        PROVE  /\ \A p \in People : ~Exists(p, q + 1)' /\ occ'[p][q + 1] = {}
               /\ \A x \in Requests : req'[x].s # q + 1
    <3>1. /\ \A p \in People : ~Exists(p, q + 1) /\ occ[p][q + 1] = {}
          /\ \A x \in Requests : req[x].s # q + 1
      BY <1>1, <2>2 DEF Unborn
    <3>2. Alone(q + 1)
      BY <1>1, <2>1, <3>1 DEF Step
    <3>3. req'[r].s # q + 1
      BY <1>1, <3>1 DEF Step, Past
    <3> QED
      BY <1>1, <3>1, <3>2, <3>3 DEF Alone, Exists
  <2>3. ASSUME req[q].at = "spread", req[q].op = "split"
        PROVE  /\ ~Exists("attendee", q + 1)' /\ occ'["attendee"][q + 1] = {}
               /\ \A x \in Requests : req'[x].who = "attendee" => req'[x].s # q + 1
    <3>1. /\ ~Exists("attendee", q + 1) /\ CopyOcc(q + 1) = {}
          /\ \A x \in Requests : req[x].who = "attendee" => req[x].s # q + 1
      BY <1>1, <2>3 DEF Unborn, CopyOcc
    <3>2. req'[r].who = "attendee" => req'[r].s # q + 1
      BY <1>1, <3>1 DEF Step, Past
    <3>3. CASE req[r].s # q + 1
      <4>1. Alone(q + 1)
        BY <1>1, <2>1, <3>3 DEF Step
      <4> QED
        BY <1>1, <3>1, <3>2, <4>1, CalConstants DEF Alone, Exists, CopyOcc
    <3>4. CASE req[r].s = q + 1
      <4>1. req[r].who = "organizer"
        BY <3>1, <3>4 DEF CopyInv, OwnInv, CalTyped, Asked, People
      <4>2. ~Exists("attendee", q + 1)' /\ CopyOcc(q + 1)' = {}
        BY <1>1, <2>1, <3>1, <4>1 DEF Tame
      <4> QED
        BY <1>1, <3>1, <3>2, <4>2 DEF CopyOcc
    <3> QED
      BY <3>3, <3>4
  <2> QED
    BY <1>1, <2>1, <2>2, <2>3 DEF Unborn
<1>3. CASE q = r
  <2>1. CASE req'[r].at = "done"
    BY <1>1, <1>3, <2>1 DEF Unborn, Step, AttendeeOps
  <2>2. CASE req'[r].at = "spread"
    <3>1. /\ req[r].at = "commit" /\ req'[r].s = req[r].s /\ req'[r].op = req[r].op /\ req'[r].who = req[r].who
      BY <2>2 DEF Step
    <3>2. /\ ~Exists("attendee", r + 1) /\ occ["attendee"][r + 1] = {}
          /\ \A x \in Requests : req[x].s # r + 1
      BY <1>1, <3>1, CalConstants DEF Unborn
    <3>3. req[r].op = "split" => ~Exists("attendee", r + 1)' /\ occ'["attendee"][r + 1] = {}
      BY <2>2, <3>2 DEF Tame, Copy, CopyOcc, Exists
    <3>4. \A x \in Requests : req'[x].s # r + 1
      BY <1>1, <3>1, <3>2
    <3> QED
      BY <1>1, <1>3, <2>2, <3>1, <3>3, <3>4 DEF Unborn
  <2> QED
    BY <2>1, <2>2 DEF Step, Past
<1> QED
  BY <1>2, <1>3

LEMMA CopyStays ==
  ASSUME CopyInv, OwnInv', NEW r \in Requests, req[r].at \in {"commit", "spread"}, Step(r), Tame(r),
         \A y \in Series : y = req[r].s \/ (req[r].op = "split" /\ y = r + 1) => (Tidy(y)' => Cover(y)')
  PROVE  CopyInv'
<1>1. CalTyped /\ CalTyped' /\ Asking(r) /\ marks \subseteq marks'
  BY DEF CopyInv, OwnInv, Step
<1>2. ASSUME NEW y \in Series, Tidy(y)', y # req[r].s, ~(req[r].op = "split" /\ y = r + 1) PROVE Cover(y)'
  <2>1. Alone(y)
    BY <1>2 DEF Step
  <2>2. \A q \in Requests : (Pending(q, y)' <=> Pending(q, y)) /\ (Pending(q, y) => req'[q] = req[q])
    <3>1. \A q \in Requests \ {r} : req'[q] = req[q]
      BY <1>1 DEF Asking
    <3>2. ~Pending(r, y) /\ ~Pending(r, y)'
      BY <1>2 DEF Pending, Step
    <3> QED
      BY <3>1, <3>2 DEF Pending
  <2>3. Steady(y) /\ (Exists("organizer", y)' <=> Exists("organizer", y))
    BY <1>2, <2>1, <2>2, AloneIsSteady
  <2>4. Cover(y)
    BY <1>1, <1>2, <2>3, TidyBefore DEF CopyInv
  <2> QED
    BY <2>3, <2>4, CoverStays
<1>3. Numbered'
  BY <1>1, NumbersStay
<1>4. \A q \in Requests : Unborn(q)'
  BY UnbornStay
<1>5. ASSUME NEW q \in Requests, req'[q].at = "commit" PROVE q # r /\ req'[q] = req[q]
  BY <1>1, <1>5 DEF Step, Past, Asking
<1>6. ASSUME NEW q \in Requests, NEW y \in Series, y = req'[q].s,
             req'[q].at = "commit", req'[q].op = "override", Tidy(y)'
      PROVE  Aims(q)'
  <2>1. q # r /\ req'[q] = req[q] /\ y = req[q].s
    BY <1>5, <1>6
  <2>2. CASE y # r + 1 \/ req[r].at = "spread"
    <3>1. (Exists("organizer", y)' => Exists("organizer", y)) /\ Drifts(r, y)
      BY <1>6, <2>2 DEF Tame
    <3>2. Tidy(y) /\ Exists("organizer", y) /\ Exists("organizer", y)'
      BY <1>1, <1>6, <3>1, TidyBefore DEF Tidy
    <3>3. Aims(q) /\ \A o \in req[q].rows : Past(o.id[1])
      BY <1>6, <2>1, <3>2 DEF CopyInv, Numbered
    <3> QED
      BY <1>1, <2>1, <3>1, <3>2, <3>3, AimsStay
  <2>3. CASE y = r + 1 /\ req[r].at # "spread"
    <3>1. Unborn(r)
      BY DEF CopyInv
    <3> QED
      BY <2>1, <2>3, <3>1 DEF Unborn
  <2> QED
    BY <2>2, <2>3
<1>7. \A q \in Requests : req'[q].at = "commit" /\ req'[q].op \in {"split", "truncate"} => req'[q].slot \in Dates(req'[q].read)
  BY <1>5 DEF CopyInv
<1>8. \A y \in Series : Tidy(y)' => Cover(y)'
  BY <1>2
<1>9. ASSUME NEW q \in Requests, req'[q].at = "commit", req'[q].op = "override", Tidy(req[q].s)' PROVE Aims(q)'
  <2>1. PICK y : y = req'[q].s
    OBVIOUS
  <2>2. y \in Series /\ Tidy(y)'
    BY <1>1, <1>9, <2>1 DEF CalTyped, Asked, Tidy, Exists, Clean
  <2> QED
    BY <1>6, <1>9, <2>1, <2>2
<1> QED
  BY <1>3, <1>4, <1>7, <1>8, <1>9 DEF CopyInv

-----------------------------------------------------------------------------
(* What the steps have in common                                           *)

LEMMA RequestIs ==
  ASSUME CopyInv, OwnInv', NEW r \in Requests
  PROVE  /\ CalTyped /\ CalTyped' /\ req[r] \in Asked /\ req[r].s \in Series /\ req[r].read \in Row
         /\ req[r].slot \in Int /\ req[r].rows \in SUBSET Detached /\ req[r].new \in Row \cup {NoEvent}
         /\ req[r].who \in People /\ "organizer" \in People /\ "attendee" \in People
         /\ \A s \in Series : MineOcc(s) \in SUBSET Detached /\ CopyOcc(s) \in SUBSET Detached
<1>1. CalTyped /\ CalTyped'
  BY DEF CopyInv, OwnInv
<1>2. req[r] \in Asked
  BY <1>1 DEF CalTyped
<1>3. \A s \in Series : MineOcc(s) \in SUBSET Detached /\ CopyOcc(s) \in SUBSET Detached
  BY <1>1, RowsType, CalConstants DEF MineOcc, CopyOcc
<1> QED
  BY <1>1, <1>2, <1>3, CalConstants DEF Asked

LEMMA OneToDo ==
  ASSUME NEW s \in Series, Cover(s), NEW r \in Requests, Pending(r, s)
  PROVE  ToDo(r, s) /\ \A q \in Requests \ {r} : ~Pending(q, s)
  BY DEF Cover

LEMMA WentStep ==
  ASSUME CalTyped, NEW r \in Requests, NEW step \in {"spread", "done"}, Went(r, step),
         step = "spread" => req[r].at = "commit"
  PROVE  /\ Asking(r) /\ Past(r)' /\ req'[r].at = step
         /\ req'[r].at = "spread" => /\ req[r].at = "commit" /\ req'[r].s = req[r].s
                                     /\ req'[r].op = req[r].op /\ req'[r].who = req[r].who
         /\ req'[r].at = "done" => req'[r].s = 1 /\ req'[r].op = "retitle" /\ req'[r].who = "organizer"
<1>1. /\ req' \in [Requests -> Asked] /\ req'[r].at = step
      /\ step = "done" => req'[r] = [Unread EXCEPT !.at = "done"]
      /\ step = "spread" => req'[r] = [req[r] EXCEPT !.at = "spread"]
      /\ \A q \in Requests \ {r} : req'[q] = req[q]
  BY WentIs
<1>2. req[r] \in Asked
  BY DEF CalTyped
<1>3. step = "spread" => req'[r].s = req[r].s /\ req'[r].op = req[r].op /\ req'[r].who = req[r].who
  BY <1>1, <1>2 DEF Asked
<1>4. step = "done" => req'[r].s = 1 /\ req'[r].op = "retitle" /\ req'[r].who = "organizer"
  BY <1>1 DEF Unread
<1> QED
  BY <1>1, <1>3, <1>4 DEF Asking, Past

LEMMA DriftsNot ==
  ASSUME CalTyped, CalTyped', NEW r \in Requests, NEW y \in Series, Exists("organizer", y),
         Mine(y)'.start = Mine(y).start,
         \A x \in MineOcc(y)' :
            \/ \E o \in MineOcc(y) : x.id = o.id /\ x.rid = o.rid
            \/ req[r].at = "commit" /\ x.id[1] = r
  PROVE  Drifts(r, y)
<1>1. Mine(y) \in Row /\ MineOcc(y) \in SUBSET Detached
  BY RowsType, CalConstants DEF Mine, MineOcc
<1>2. PICK t : t = Mine(y).start
  OBVIOUS
<1>3. t \in Int
  BY <1>1, <1>2 DEF Row
<1>4. Mine(y)'.start = Mine(y).start + 0
  BY <1>2, <1>3
<1>5. ASSUME NEW o \in MineOcc(y) PROVE o.rid = o.rid + 0
  <2>1. PICK i : i = o.rid
    OBVIOUS
  <2>2. i \in Int
    BY <1>1, <2>1 DEF Detached
  <2> QED
    BY <2>1, <2>2
<1>6. \A x \in MineOcc(y)' :
         \/ \E o \in MineOcc(y) : x.id = o.id /\ x.rid = o.rid + 0
         \/ req[r].at = "commit" /\ x.id[1] = r
  BY <1>5
<1> QED
  BY <1>4, <1>6 DEF Drifts

(* A step that leaves the organizer's rows, but for their status.          *)
LEMMA TameCopy ==
  ASSUME CalTyped, CalTyped', NEW r \in Requests,
         \A y \in Series : /\ Exists("organizer", y)' <=> Exists("organizer", y)
                           /\ Exists("organizer", y) =>
                                 Mine(y)'.start = Mine(y).start /\ Mine(y)'.ex = Mine(y).ex
                           /\ \A x \in MineOcc(y)' : \E o \in MineOcc(y) : x.id = o.id /\ x.rid = o.rid,
         \A y \in Series \ {r + 1} :
            req[r].who = "organizer" /\ ~Exists("attendee", y) /\ CopyOcc(y) = {} =>
               ~Exists("attendee", y)' /\ CopyOcc(y)' = {},
         ~(req'[r].at = "spread" /\ req[r].op = "split")
  PROVE  Tame(r)
<1>1. ASSUME NEW y \in Series, Exists("organizer", y)' PROVE Drifts(r, y)
  BY <1>1, DriftsNot
<1>2. \A y \in Series : Tidy(y)' => Drifts(r, y)
  BY <1>1 DEF Tidy
<1> QED
  BY <1>2 DEF Tame

(* The requests pending for a series when only r changes.                  *)
LEMMA OthersPend ==
  ASSUME NEW r \in Requests, Asking(r)
  PROVE  \A q \in Requests \ {r} : \A y \in Series :
            req'[q] = req[q] /\ (Pending(q, y)' <=> Pending(q, y))
  BY DEF Asking, Pending

LEMMA NoneCrosses ==
  ASSUME NEW r \in Requests, ~Crossed(r), NEW s, s = req[r].s
  PROVE  /\ master[req[r].who][s] = req[r].read
         /\ \A q \in Requests \ {r} : ~Pending(q, s)
  BY DEF Crossed, Outdated, Pending

-----------------------------------------------------------------------------
(* The series is edited as a whole                                         *)

Shifted(X, Y, delta) ==
    /\ \A y \in Y : \E x \in X : y.id = x.id /\ y.rid = x.rid + delta /\ y.at = x.at + delta
    /\ \A x \in X : \E y \in Y : y.id = x.id /\ y.rid = x.rid + delta /\ y.at = x.at + delta

LEMMA ShiftIs ==
  ASSUME NEW os \in SUBSET Detached, NEW delta \in Int, NEW os2,
         os2 = IF delta = 0 THEN os ELSE Realign(os, delta)
  PROVE  /\ os2 \in SUBSET Detached /\ Shifted(os, os2, delta)
         /\ Distinct(os) => Distinct(os2)
         /\ Single(os) => Single(os2)
<1>1. CASE delta # 0
  BY <1>1, RealignIs, RealignKeeps DEF Shifted
<1>2. CASE delta = 0
  <2>1. ASSUME NEW x \in os PROVE x.rid = x.rid + 0 /\ x.at = x.at + 0
    <3>1. PICK i, j : i = x.rid /\ j = x.at
      OBVIOUS
    <3>2. i \in Int /\ j \in Int
      BY <3>1 DEF Detached
    <3> QED
      BY <3>1, <3>2
  <2>2. Shifted(os, os, 0)
    BY <2>1 DEF Shifted
  <2> QED
    BY <1>2, <2>2
<1> QED
  BY <1>1, <1>2

LEMMA ShiftMine ==
  ASSUME NEW os \in SUBSET Detached, NEW bs \in SUBSET Detached, NEW delta \in Int, NEW os2, NEW D,
         Shifted(os, os2, delta), Seen(os, bs, 0, {}), Placed(os, bs, 0, D)
  PROVE  Seen(os2, bs, delta, {}) /\ Placed(os2, bs, delta, D)
<1>1. ASSUME NEW o \in os, NEW b \in bs, NEW x, o.rid = b.rid + 0, o.at = b.at + 0,
             x.rid = o.rid + delta, x.at = o.at + delta
      PROVE  x.rid = b.rid + delta /\ x.at = b.at + delta
  <2>1. b.rid \in Int /\ b.at \in Int
    BY DEF Detached
  <2>2. b.rid + 0 = b.rid /\ b.at + 0 = b.at
    BY <2>1
  <2> QED
    BY <1>1, <2>2
<1>2. ASSUME NEW x \in os2 PROVE \E b \in bs : x.rid = b.rid + delta /\ x.at = b.at + delta
  <2>1. PICK o \in os : x.id = o.id /\ x.rid = o.rid + delta /\ x.at = o.at + delta
    BY DEF Shifted
  <2>2. PICK b \in bs : o.rid = b.rid + 0 /\ o.at = b.at + 0
    BY DEF Seen
  <2> QED
    BY <1>1, <2>1, <2>2
<1>3. ASSUME NEW b \in bs, NEW o \in os, o.rid = b.rid + 0 PROVE \E x \in os2 : x.rid = b.rid + delta
  <2>1. PICK x \in os2 : x.id = o.id /\ x.rid = o.rid + delta /\ x.at = o.at + delta
    BY DEF Shifted
  <2>2. b.rid \in Int
    BY DEF Detached
  <2>3. b.rid + 0 = b.rid
    BY <2>2
  <2> QED
    BY <1>3, <2>1, <2>3
<1> QED
  BY <1>2, <1>3 DEF Seen, Placed

LEMMA ShiftCopy ==
  ASSUME NEW os \in SUBSET Detached, NEW bs \in SUBSET Detached, NEW delta \in Int, NEW bs2, NEW D,
         bs2 \in SUBSET Detached, Shifted(bs, bs2, delta), Seen(os, bs, delta, {}), Placed(os, bs, delta, D),
         delta = 0 \/ D = {}
  PROVE  Seen(os, bs2, 0, {}) /\ Placed(os, bs2, 0, D)
<1>1. ASSUME NEW x \in bs2 PROVE x.rid + 0 = x.rid /\ x.at + 0 = x.at
  <2>1. x.rid \in Int /\ x.at \in Int
    BY DEF Detached
  <2> QED
    BY <2>1
<1>2. ASSUME NEW o \in os PROVE \E x \in bs2 : o.rid = x.rid + 0 /\ o.at = x.at + 0
  <2>1. PICK b \in bs : o.rid = b.rid + delta /\ o.at = b.at + delta
    BY DEF Seen
  <2>2. PICK x \in bs2 : x.id = b.id /\ x.rid = b.rid + delta /\ x.at = b.at + delta
    BY DEF Shifted
  <2> QED
    BY <1>1, <2>1, <2>2
<1>3. ASSUME NEW x \in bs2 PROVE x.at = x.rid \/ (\E o \in os : o.rid = x.rid + 0) \/ x.rid \in D
  <2>1. PICK b \in bs : x.id = b.id /\ x.rid = b.rid + delta /\ x.at = b.at + delta
    BY DEF Shifted
  <2>2. CASE b.at = b.rid
    BY <2>1, <2>2
  <2>3. CASE \E o \in os : o.rid = b.rid + delta
    BY <1>1, <2>1, <2>3
  <2>4. CASE b.rid \in D
    <3>1. delta = 0
      BY <2>4
    <3>2. b.rid \in Int
      BY DEF Detached
    <3>3. b.rid + delta = b.rid
      BY <3>1, <3>2
    <3> QED
      BY <2>1, <2>4, <3>3
  <2> QED
    BY <2>2, <2>3, <2>4 DEF Placed
<1> QED
  BY <1>2, <1>3 DEF Seen, Placed

LEMMA CommitAllCovers ==
  ASSUME CopyInv, OwnInv', NEW r \in Requests, req[r].at = "commit", CommitAll(r)
  PROVE  CopyInv'
<1>1. PICK s, b, new, delta :
         s = req[r].s /\ b = req[r].read /\ new = AllEvents(b, req[r].op) /\ delta = new.start - b.start
  OBVIOUS
<1>2. PICK os, os2 : os = MineOcc(s) /\ os2 = IF delta = 0 THEN os ELSE Realign(os, delta)
  OBVIOUS
<1>3. /\ CalTyped /\ CalTyped' /\ s \in Series /\ b \in Row /\ req[r] \in Asked
      /\ req[r].op \in {"retitle", "move"} /\ req[r].who = "organizer"
      /\ os \in SUBSET Detached /\ "organizer" \in People /\ "attendee" \in People
  <2>1. req[r].op \in {"retitle", "move"} /\ req[r].who = "organizer"
    BY DEF CommitAll, Ready
  <2>2. /\ CalTyped /\ CalTyped' /\ req[r] \in Asked /\ req[r].s \in Series /\ req[r].read \in Row
        /\ "organizer" \in People /\ "attendee" \in People
        /\ \A y \in Series : MineOcc(y) \in SUBSET Detached
    BY RequestIs
  <2>3. s \in Series /\ b \in Row
    BY <1>1, <2>2
  <2>4. os \in SUBSET Detached
    BY <1>2, <2>2, <2>3
  <2> QED
    BY <2>1, <2>2, <2>3, <2>4
<1>4. new \in Row /\ new.ex = b.ex /\ new.start \in Int /\ b.start \in Int
  <2>1. AllEvents(b, req[r].op) \in Row /\ AllEvents(b, req[r].op).ex = b.ex
    BY <1>3, AllEventsIs
  <2>2. new \in Row /\ new.ex = b.ex /\ b \in Row
    BY <1>1, <1>3, <2>1
  <2> QED
    BY <2>2 DEF Row
<1>5. delta \in Int /\ new.start = b.start + delta
  <2>1. PICK i, j : i = new.start /\ j = b.start
    OBVIOUS
  <2>2. i \in Int /\ j \in Int
    BY <1>4, <2>1
  <2>3. i - j \in Int /\ i = j + (i - j)
    BY <2>2
  <2> QED
    BY <1>1, <2>1, <2>3
<1>6. /\ os2 \in SUBSET Detached /\ Shifted(os, os2, delta) /\ (Distinct(os) => Distinct(os2))
  BY <1>2, <1>3, <1>5, ShiftIs
<1>7. /\ IF Exists("organizer", s) THEN Put("organizer", s, <<new, os2>>) ELSE UNCHANGED <<master, occ>>
      /\ req' = [req EXCEPT ![r] = [@ EXCEPT !.read = new, !.slot = delta, !.at = "spread"]]
      /\ marks' = marks \cup (IF Crossed(r) THEN {<<s, "stale">>} ELSE {})
                        \cup (IF delta # 0 THEN {<<s, "moved">>} ELSE {})
  BY <1>1, <1>2 DEF CommitAll, MineOcc
<1>8. /\ Asking(r) /\ req'[r].at = "spread" /\ req'[r].slot = delta
      /\ req'[r].s = s /\ req'[r].op = req[r].op /\ req'[r].who = req[r].who
  <2>1. PICK v : v = [req[r] EXCEPT !.read = new, !.slot = delta, !.at = "spread"]
    OBVIOUS
  <2>2. v.at = "spread" /\ v.slot = delta /\ v.s = s /\ v.op = req[r].op /\ v.who = req[r].who
    BY <1>1, <1>3, <2>1 DEF Asked
  <2>3. req' = [req EXCEPT ![r] = v]
    BY <1>7, <2>1
  <2>4. req'[r] = v /\ \A q \in Requests \ {r} : req'[q] = req[q]
    BY <1>3, <2>3 DEF CalTyped
  <2> QED
    BY <1>3, <2>2, <2>4 DEF Asking, CalTyped
<1>9. /\ \A p \in People, y \in Series : p # "organizer" \/ y # s => master'[p][y] = master[p][y] /\ occ'[p][y] = occ[p][y]
      /\ Exists("organizer", s) => Mine(s)' = new /\ MineOcc(s)' = os2
      /\ ~Exists("organizer", s) => Mine(s)' = Mine(s) /\ MineOcc(s)' = os
  <2>1. CASE Exists("organizer", s)
    <3>1. Put("organizer", s, <<new, os2>>) /\ new \in Row \cup {NoEvent}
      BY <1>4, <1>7, <2>1
    <3>2. /\ master'["organizer"][s] = new /\ occ'["organizer"][s] = os2
          /\ \A x \in People, y \in Series :
                x # "organizer" \/ y # s => master'[x][y] = master[x][y] /\ occ'[x][y] = occ[x][y]
      BY <1>3, <1>6, <3>1, PutIs
    <3> QED
      BY <2>1, <3>2 DEF Mine, MineOcc
  <2>2. CASE ~Exists("organizer", s)
    BY <1>2, <1>7, <2>2 DEF Mine, MineOcc
  <2> QED
    BY <2>1, <2>2
<1>10. Exists("organizer", s)' => Exists("organizer", s)
  BY <1>9 DEF Exists, Mine
<1>11. \A t : \A y \in Series : (y # s \/ t \notin {"stale", "moved"}) => (Had(y, t)' <=> Had(y, t))
  BY <1>7 DEF Had
<1>12. ASSUME NEW y \in Series, y # s PROVE Alone(y)
  BY <1>3, <1>9, <1>11, <1>12 DEF Alone
<1>13. Step(r)
  BY <1>1, <1>3, <1>7, <1>8, <1>12 DEF Step, Past
<1>14. ASSUME Tidy(s)'
       PROVE  /\ ~Crossed(r) /\ Exists("organizer", s) /\ Tidy(s) /\ Mine(s) = b /\ Cover(s) /\ Settled(s)
              /\ \A q \in Requests \ {r} : ~Pending(q, s)
  <2>1. Tidy(s) /\ ~Had(s, "stale")' /\ Exists("organizer", s)
    BY <1>10, <1>13, <1>14, <1>3, TidyBefore DEF Step, Tidy
  <2>2. ~Crossed(r)
    BY <1>7, <2>1 DEF Had
  <2>3. Mine(s) = b /\ \A q \in Requests \ {r} : ~Pending(q, s)
    BY <1>1, <1>3, <2>2, NoneCrosses DEF Mine
  <2>4. Cover(s) /\ ~Pending(r, s)
    BY <1>3, <2>1 DEF CopyInv, Pending
  <2> QED
    BY <2>1, <2>2, <2>3, <2>4 DEF Cover
<1>15. Tame(r)
  <2>1. ASSUME NEW y \in Series PROVE Exists("organizer", y)' => Exists("organizer", y)
    BY <1>3, <1>9, <1>10 DEF Exists
  <2>2. ASSUME NEW y \in Series, Tidy(y)' PROVE Drifts(r, y)
    <3>1. CASE y = s
      <4>1. Mine(s)' = new /\ MineOcc(s)' = os2 /\ Mine(s) = b
        BY <1>9, <1>14, <2>2, <3>1
      <4>2. \A x \in os2 : \E o \in os : x.id = o.id /\ x.rid = o.rid + delta
        BY <1>6 DEF Shifted
      <4> QED
        BY <1>2, <1>4, <1>5, <3>1, <4>1, <4>2 DEF Drifts
    <3>2. CASE y # s
      <4>1. Mine(y)' = Mine(y) /\ MineOcc(y)' = MineOcc(y) /\ Exists("organizer", y)
        BY <1>3, <1>9, <2>1, <2>2, <3>2 DEF Mine, MineOcc, Tidy
      <4> QED
        BY <1>3, <4>1, DriftsNot
    <3> QED
      BY <3>1, <3>2
  <2>3. \A y \in Series : Copy(y)' = Copy(y) /\ CopyOcc(y)' = CopyOcc(y) /\ (Exists("attendee", y)' <=> Exists("attendee", y))
    BY <1>3, <1>9 DEF Copy, CopyOcc, Exists
  <2>4. \A y \in Series : \A x \in MineOcc(y)' : \E o \in MineOcc(y) : o.id = x.id
    BY <1>2, <1>3, <1>6, <1>9 DEF Shifted, MineOcc
  <2>5. req[r].op # "split"
    BY <1>3
  <2> QED
    BY <2>1, <2>2, <2>3, <2>4, <2>5 DEF Tame
<1>16. ASSUME Tidy(s)' PROVE Cover(s)'
  <2>1. /\ Mine(s) = b /\ Cover(s) /\ Settled(s) /\ \A q \in Requests \ {r} : ~Pending(q, s)
        /\ Mine(s)' = new /\ MineOcc(s)' = os2
    BY <1>9, <1>14, <1>16
  <2>2. Copy(s)' = Copy(s) /\ CopyOcc(s)' = CopyOcc(s) /\ (Exists("attendee", s)' <=> Exists("attendee", s))
    BY <1>3, <1>9 DEF Copy, CopyOcc, Exists
  <2>3. Pending(r, s)' /\ \A q \in Requests \ {r} : ~Pending(q, s)'
    BY <1>3, <1>8, <2>1, OthersPend DEF Pending
  <2>4. (Had(s, "twin")' <=> Had(s, "twin")) /\ (delta # 0 => Had(s, "moved")') /\ (Had(s, "moved") => Had(s, "moved")')
    BY <1>3, <1>7, <1>11 DEF Had
  <2>5. Distinct(os2) /\ (Had(s, "twin")' \/ Single(CopyOcc(s)'))
    BY <1>2, <1>6, <2>1, <2>2, <2>4 DEF Cover
  <2>6. Had(s, "moved")' \/ \A o \in os2 : o.rid \in new.ex
    BY <1>2, <1>4, <2>1, <2>4 DEF Cover
  <2>7. Left(s)' = Left(s)
    BY <1>4, <2>1, <2>4 DEF Left
  <2>8. CopyOcc(s) \in SUBSET Detached
    BY <1>3, RowsType DEF CopyOcc
  <2>9. Seen(os2, CopyOcc(s), delta, {}) /\ Placed(os2, CopyOcc(s), delta, Left(s))
    BY <1>2, <1>3, <1>5, <1>6, <2>1, <2>8, ShiftMine DEF Settled
  <2>10. MovePending(r, s)'
    BY <1>8, <2>1, <2>2, <2>4, <2>7, <2>9 DEF MovePending, Settled
  <2>11. ToDo(r, s)'
    BY <1>3, <1>8, <2>10 DEF ToDo
  <2> QED
    BY <2>1, <2>3, <2>5, <2>6, <2>11 DEF Cover
<1>17. \A y \in Series : y = req[r].s \/ (req[r].op = "split" /\ y = r + 1) => (Tidy(y)' => Cover(y)')
  BY <1>1, <1>3, <1>16
<1> QED
  BY <1>13, <1>15, <1>17, CopyStays

LEMMA SpreadAllCovers ==
  ASSUME CopyInv, OwnInv', NEW r \in Requests, req[r].at = "spread", SpreadAll(r)
  PROVE  CopyInv'
<1>1. PICK s, b, delta : s = req[r].s /\ b = req[r].read /\ delta = req[r].slot
  OBVIOUS
<1>2. PICK bs, bs2 : bs = CopyOcc(s) /\ bs2 = IF delta = 0 THEN bs ELSE Realign(bs, delta)
  OBVIOUS
<1>3. /\ CalTyped /\ CalTyped' /\ s \in Series /\ b \in Row /\ req[r] \in Asked /\ delta \in Int
      /\ req[r].op \in {"retitle", "move"} /\ req[r].who = "organizer"
      /\ bs \in SUBSET Detached /\ "organizer" \in People /\ "attendee" \in People
  BY <1>1, <1>2, RequestIs DEF SpreadAll, Ready
<1>4. bs2 \in SUBSET Detached /\ Shifted(bs, bs2, delta) /\ (Single(bs) => Single(bs2))
  BY <1>2, <1>3, ShiftIs
<1>5. /\ IF Exists("attendee", s) THEN Put("attendee", s, <<b, bs2>>) ELSE UNCHANGED <<master, occ>>
      /\ marks' = (IF Outdated(r) THEN marks \cup {<<s, "stale">>} ELSE marks)
      /\ Went(r, "done")
  BY <1>1, <1>2 DEF SpreadAll, CopyOcc, MarkIf
<1>6. /\ Asking(r) /\ Past(r)' /\ req'[r].at = "done"
      /\ req'[r].s = 1 /\ req'[r].op = "retitle" /\ req'[r].who = "organizer"
  BY <1>3, <1>5, WentStep
<1>7. /\ \A p \in People, y \in Series : p # "attendee" \/ y # s => master'[p][y] = master[p][y] /\ occ'[p][y] = occ[p][y]
      /\ Exists("attendee", s) => Copy(s)' = b /\ CopyOcc(s)' = bs2 /\ Exists("attendee", s)'
      /\ ~Exists("attendee", s) => Copy(s)' = Copy(s) /\ CopyOcc(s)' = bs /\ ~Exists("attendee", s)'
  <2>1. CASE Exists("attendee", s)
    <3>1. Put("attendee", s, <<b, bs2>>) /\ b \in Row \cup {NoEvent}
      BY <1>3, <1>5, <2>1
    <3>2. /\ master'["attendee"][s] = b /\ occ'["attendee"][s] = bs2
          /\ \A x \in People, y \in Series :
                x # "attendee" \/ y # s => master'[x][y] = master[x][y] /\ occ'[x][y] = occ[x][y]
      BY <1>3, <1>4, <3>1, PutIs
    <3> QED
      BY <1>3, <2>1, <3>2, RowsAre DEF Copy, CopyOcc, Exists
  <2>2. CASE ~Exists("attendee", s)
    BY <1>2, <1>5, <2>2 DEF Copy, CopyOcc, Exists
  <2> QED
    BY <2>1, <2>2
<1>8. \A y \in Series : Mine(y)' = Mine(y) /\ MineOcc(y)' = MineOcc(y) /\ (Exists("organizer", y)' <=> Exists("organizer", y))
  BY <1>3, <1>7 DEF Mine, MineOcc, Exists
<1>9. /\ \A t : \A y \in Series : (y # s \/ t # "stale") => (Had(y, t)' <=> Had(y, t))
      /\ marks \subseteq marks'
  BY <1>5 DEF Had
<1>10. ASSUME NEW y \in Series, y # s PROVE Alone(y)
  BY <1>3, <1>7, <1>9, <1>10 DEF Alone
<1>11. Step(r)
  BY <1>1, <1>6, <1>9, <1>10 DEF Step
<1>12. Tame(r)
  <2>1. \A y \in Series \ {r + 1} :
            req[r].who = "organizer" /\ ~Exists("attendee", y) /\ CopyOcc(y) = {} =>
               ~Exists("attendee", y)' /\ CopyOcc(y)' = {}
    BY <1>2, <1>3, <1>7 DEF Exists, CopyOcc
  <2>2. \A y \in Series : \A x \in MineOcc(y)' : \E o \in MineOcc(y) : x.id = o.id /\ x.rid = o.rid
    BY <1>8
  <2> QED
    BY <1>3, <1>6, <1>8, <2>1, <2>2, TameCopy
<1>13. ASSUME Tidy(s)' PROVE Cover(s)'
  <2>1. Tidy(s) /\ ~Had(s, "stale")'
    BY <1>3, <1>8, <1>9, <1>13, TidyBefore
  <2>2. Mine(s) = b
    BY <1>1, <1>3, <1>5, <2>1 DEF Had, Outdated, Mine
  <2>3. Pending(r, s) /\ Cover(s)
    BY <1>1, <1>3, <2>1 DEF Pending, CopyInv
  <2>4. MovePending(r, s) /\ \A q \in Requests \ {r} : ~Pending(q, s)
    <3>1. ToDo(r, s) /\ \A q \in Requests \ {r} : ~Pending(q, s)
      BY <1>3, <2>3, OneToDo
    <3>2. req[r].op \in {"retitle", "move"}
      BY <1>3
    <3> QED
      BY <3>1, <3>2 DEF ToDo
  <2>5. \A q \in Requests : ~Pending(q, s)'
    <3>1. ~Pending(r, s)'
      BY <1>6 DEF Pending
    <3>2. \A q \in Requests \ {r} : ~Pending(q, s)'
      BY <1>3, <1>6, <2>4, OthersPend
    <3> QED
      BY <3>1, <3>2
  <2>6. Copy(s)' = b /\ CopyOcc(s)' = bs2 /\ Exists("attendee", s)'
    BY <1>7, <2>4 DEF MovePending
  <2>7. (Had(s, "twin")' <=> Had(s, "twin")) /\ (Had(s, "moved")' <=> Had(s, "moved"))
    BY <1>3, <1>9
  <2>8. Had(s, "twin")' \/ Single(bs2)
    BY <1>2, <1>4, <2>3, <2>7 DEF Cover
  <2>9. delta = 0 \/ Left(s) = {}
    BY <1>1, <2>1, <2>4 DEF MovePending, Left, Tidy, Clean, Had
  <2>10. MineOcc(s) \in SUBSET Detached
    BY <1>3, RowsType DEF MineOcc
  <2>11. Seen(MineOcc(s), bs2, 0, {}) /\ Placed(MineOcc(s), bs2, 0, Left(s))
    BY <1>1, <1>2, <1>3, <1>4, <2>4, <2>9, <2>10, ShiftCopy DEF MovePending
  <2>12. SameRule(b, b) /\ NoMoreGaps(b, b, bs2)
    BY DEF SameRule, NoMoreGaps
  <2>13. Left(s)' = Left(s)
    BY <1>3, <1>8, <2>7 DEF Left
  <2>14. Settled(s)'
    BY <1>3, <1>8, <2>2, <2>6, <2>11, <2>12, <2>13 DEF Settled
  <2> QED
    BY <1>3, <1>8, <2>3, <2>5, <2>6, <2>7, <2>8, <2>14 DEF Cover
<1>14. \A y \in Series : y = req[r].s \/ (req[r].op = "split" /\ y = r + 1) => (Tidy(y)' => Cover(y)')
  BY <1>1, <1>3, <1>13
<1> QED
  BY <1>11, <1>12, <1>14, CopyStays

-----------------------------------------------------------------------------
(* The organizer's rows are written, and the copy's are still to be.       *)

LEMMA MineWritten ==
  ASSUME CopyInv, OwnInv', NEW r \in Requests, NEW s \in Series, s = req[r].s,
         req[r].at = "commit", req[r].who = "organizer", req[r].op # "split",
         Asking(r), req'[r].at = "spread", req'[r].s = s, req'[r].op = req[r].op, req'[r].who = "organizer",
         \A p \in People, y \in Series :
            p # "organizer" \/ y # s => master'[p][y] = master[p][y] /\ occ'[p][y] = occ[p][y],
         marks \subseteq marks',
         \A t : \A y \in Series : (y # s \/ t \notin {"stale", "double"}) => (Had(y, t)' <=> Had(y, t)),
         Crossed(r) => Had(s, "stale")',
         Exists("organizer", s)' => Exists("organizer", s),
         \A x \in MineOcc(s)' : x.id[1] = r \/ \E o \in MineOcc(s) : o.id = x.id,
         Tidy(s) /\ Tidy(s)' /\ Cover(s) /\ Settled(s) /\ Mine(s) = req[r].read =>
            /\ Drifts(r, s) /\ Distinct(MineOcc(s)')
            /\ Had(s, "moved") \/ \A o \in MineOcc(s)' : o.rid \in Mine(s)'.ex
            /\ ToDo(r, s)'
  PROVE  CopyInv'
<1>1. CalTyped /\ CalTyped' /\ "organizer" \in People /\ "attendee" \in People
  BY RequestIs
<1>2. ASSUME NEW y \in Series, y # s PROVE Alone(y)
  BY <1>1, <1>2 DEF Alone
<1>3. Step(r)
  BY <1>2 DEF Step, Past
<1>4. ASSUME Tidy(s)'
      PROVE  /\ Tidy(s) /\ Cover(s) /\ Settled(s) /\ Mine(s) = req[r].read
             /\ \A q \in Requests \ {r} : ~Pending(q, s)
             /\ Drifts(r, s) /\ Distinct(MineOcc(s)')
             /\ Had(s, "moved") \/ \A o \in MineOcc(s)' : o.rid \in Mine(s)'.ex
             /\ ToDo(r, s)'
  <2>1. Tidy(s) /\ ~Had(s, "stale")'
    BY <1>4, TidyBefore
  <2>2. ~Crossed(r)
    BY <2>1
  <2>3. Mine(s) = req[r].read /\ \A q \in Requests \ {r} : ~Pending(q, s)
    BY <2>2, NoneCrosses DEF Mine
  <2>4. Cover(s) /\ ~Pending(r, s)
    BY <2>1 DEF CopyInv, Pending
  <2>5. Settled(s)
    BY <2>3, <2>4 DEF Cover
  <2> QED
    BY <1>4, <2>1, <2>3, <2>4, <2>5
<1>5. \A y \in Series : /\ Copy(y)' = Copy(y) /\ CopyOcc(y)' = CopyOcc(y)
                        /\ Exists("attendee", y)' <=> Exists("attendee", y)
  BY <1>1 DEF Copy, CopyOcc, Exists
<1>6. \A y \in Series \ {s} : /\ Mine(y)' = Mine(y) /\ MineOcc(y)' = MineOcc(y)
                              /\ Exists("organizer", y)' <=> Exists("organizer", y)
  BY <1>1 DEF Mine, MineOcc, Exists
<1>7. Tame(r)
  <2>1. ASSUME NEW y \in Series, Tidy(y)' PROVE Drifts(r, y)
    <3>1. CASE y = s
      BY <1>4, <2>1, <3>1
    <3>2. CASE y # s
      BY <1>1, <1>6, <2>1, <3>2, DriftsNot DEF Tidy
    <3> QED
      BY <3>1, <3>2
  <2>2. \A y \in Series : \A x \in MineOcc(y)' : x.id[1] = r \/ \E o \in MineOcc(y) : o.id = x.id
    BY <1>6
  <2>3. \A y \in Series : Exists("organizer", y)' => Exists("organizer", y)
    BY <1>6
  <2> QED
    BY <1>5, <2>1, <2>2, <2>3 DEF Tame
<1>8. ASSUME Tidy(s)' PROVE Cover(s)'
  <2>1. Pending(r, s)' /\ \A q \in Requests \ {r} : ~Pending(q, s)'
    BY <1>4, <1>8, OthersPend DEF Pending
  <2>2. (Had(s, "twin")' <=> Had(s, "twin")) /\ (Had(s, "moved")' <=> Had(s, "moved"))
    OBVIOUS
  <2>3. Distinct(MineOcc(s)') /\ (Had(s, "twin")' \/ Single(CopyOcc(s)'))
    BY <1>4, <1>5, <1>8, <2>2 DEF Cover
  <2> QED
    BY <1>4, <1>8, <2>1, <2>2, <2>3 DEF Cover
<1>9. \A y \in Series : y = req[r].s \/ (req[r].op = "split" /\ y = r + 1) => (Tidy(y)' => Cover(y)')
  BY <1>8
<1> QED
  BY <1>3, <1>7, <1>9, CopyStays

(* The copy's rows are written, which was all there was to do.             *)
LEMMA CopyWritten ==
  ASSUME CopyInv, OwnInv', NEW r \in Requests, NEW s \in Series, s = req[r].s,
         req[r].at = "spread", req[r].who = "organizer", req[r].op \notin {"split", "truncate"},
         Asking(r), req'[r].at = "done", req'[r].s = 1, req'[r].op = "retitle", req'[r].who = "organizer",
         \A p \in People, y \in Series :
            p # "attendee" \/ y # s => master'[p][y] = master[p][y] /\ occ'[p][y] = occ[p][y],
         marks \subseteq marks',
         \A t : \A y \in Series : (y # s \/ t \notin {"stale", "twin"}) => (Had(y, t)' <=> Had(y, t)),
         ~Exists("attendee", s) /\ CopyOcc(s) = {} => ~Exists("attendee", s)' /\ CopyOcc(s)' = {},
         Tidy(s) /\ Tidy(s)' /\ Cover(s) /\ ToDo(r, s) =>
            Settled(s)' /\ (Had(s, "twin")' \/ Single(CopyOcc(s)'))
  PROVE  CopyInv'
<1>1. CalTyped /\ CalTyped' /\ "organizer" \in People /\ "attendee" \in People
  BY RequestIs
<1>2. ASSUME NEW y \in Series, y # s PROVE Alone(y)
  BY <1>1, <1>2 DEF Alone
<1>3. Step(r)
  BY <1>2 DEF Step, Past
<1>4. \A y \in Series : /\ Mine(y)' = Mine(y) /\ MineOcc(y)' = MineOcc(y)
                        /\ Exists("organizer", y)' <=> Exists("organizer", y)
  BY <1>1 DEF Mine, MineOcc, Exists
<1>5. \A y \in Series \ {s} : CopyOcc(y)' = CopyOcc(y) /\ (Exists("attendee", y)' <=> Exists("attendee", y))
  BY <1>1 DEF CopyOcc, Exists
<1>6. Tame(r)
  <2>1. \A y \in Series \ {r + 1} :
            req[r].who = "organizer" /\ ~Exists("attendee", y) /\ CopyOcc(y) = {} =>
               ~Exists("attendee", y)' /\ CopyOcc(y)' = {}
    BY <1>5
  <2>2. \A y \in Series : \A x \in MineOcc(y)' : \E o \in MineOcc(y) : x.id = o.id /\ x.rid = o.rid
    BY <1>4
  <2>3. \A y \in Series : /\ Exists("organizer", y)' <=> Exists("organizer", y)
                          /\ Mine(y)'.start = Mine(y).start /\ Mine(y)'.ex = Mine(y).ex
    BY <1>4
  <2> QED
    BY <1>1, <2>1, <2>2, <2>3, TameCopy
<1>7. ASSUME Tidy(s)' PROVE Cover(s)'
  <2>1. Tidy(s)
    BY <1>4, <1>7, TidyBefore
  <2>2. Pending(r, s) /\ Cover(s)
    BY <2>1 DEF Pending, CopyInv
  <2>3. ToDo(r, s) /\ \A q \in Requests \ {r} : ~Pending(q, s)
    BY <2>2, OneToDo
  <2>4. Settled(s)' /\ (Had(s, "twin")' \/ Single(CopyOcc(s)'))
    BY <1>7, <2>1, <2>2, <2>3
  <2>5. \A q \in Requests : ~Pending(q, s)'
    <3>1. ~Pending(r, s)'
      BY DEF Pending
    <3> QED
      BY <2>3, <3>1, OthersPend
  <2>6. Had(s, "moved")' <=> Had(s, "moved")
    OBVIOUS
  <2> QED
    BY <1>4, <2>2, <2>4, <2>5, <2>6 DEF Cover
<1>8. \A y \in Series : y = req[r].s \/ (req[r].op = "split" /\ y = r + 1) => (Tidy(y)' => Cover(y)')
  BY <1>7
<1> QED
  BY <1>3, <1>6, <1>8, CopyStays

(* A step that nothing is pending for, before or after.                    *)
LEMMA NothingPends ==
  ASSUME CopyInv, OwnInv', NEW r \in Requests, req[r].at \in {"commit", "spread"}, NEW s \in Series, s = req[r].s,
         Step(r), Tame(r), req[r].op # "split", ~Pending(r, s), ~Pending(r, s)',
         Tidy(s)' =>
            /\ Exists("organizer", s)
            /\ SameRule(Mine(s), Mine(s)') /\ Mine(s)'.ex = Mine(s).ex
            /\ Within(MineOcc(s), MineOcc(s)') /\ Within(MineOcc(s)', MineOcc(s))
            /\ Distinct(MineOcc(s)) => Distinct(MineOcc(s)')
            /\ Exists("attendee", s)' <=> Exists("attendee", s)
            /\ SameRule(Copy(s), Copy(s)')
            /\ \A d \in Copy(s)'.ex : d \in Copy(s).ex \/ \E b \in CopyOcc(s)' : b.rid = d
            /\ Grown(CopyOcc(s), CopyOcc(s)') /\ (Single(CopyOcc(s)) => Single(CopyOcc(s)'))
            /\ Had(s, "twin")' <=> Had(s, "twin")
            /\ Had(s, "moved")' <=> Had(s, "moved"),
         req[r].who = "attendee" \/ CopyOcc(s)' = CopyOcc(s)
  PROVE  CopyInv'
<1>1. ASSUME Tidy(s)' PROVE Cover(s)'
  <2>1. \A q \in Requests : (Pending(q, s)' <=> Pending(q, s)) /\ (Pending(q, s) => req'[q] = req[q])
    BY OthersPend DEF Step
  <2>2. ASSUME NEW q \in Requests, Pending(q, s), req[q].s # s PROVE CopyOcc(s)' = CopyOcc(s)
    <3>1. Unborn(q) /\ s = q + 1 /\ req[q].at = "spread" /\ req[q].op = "split"
      BY <2>2 DEF Pending, CopyInv
    <3>2. req[r].who # "attendee"
      BY <3>1 DEF Unborn
    <3> QED
      BY <3>2
  <2>3. Steady(s)
    BY <1>1, <2>1, <2>2 DEF Steady
  <2>4. Tidy(s)
    BY <1>1, TidyBefore DEF Step
  <2>5. Cover(s)
    BY <2>4 DEF CopyInv
  <2> QED
    BY <2>3, <2>5, CoverStays
<1>2. \A y \in Series : y = req[r].s \/ (req[r].op = "split" /\ y = r + 1) => (Tidy(y)' => Cover(y)')
  BY <1>1
<1> QED
  BY <1>2, CopyStays

LEMMA NothingWritten ==
  ASSUME CopyInv, OwnInv', NEW r \in Requests, req[r].at = "commit",
         master' = master, occ' = occ, Went(r, "done"),
         marks \subseteq marks',
         \A t : \A y \in Series : (y # req[r].s \/ t \notin {"stale", "double"}) => (Had(y, t)' <=> Had(y, t))
  PROVE  CopyInv'
<1>1. PICK s \in Series : s = req[r].s
  BY RequestIs
<1>2. CalTyped /\ CalTyped' /\ "organizer" \in People /\ "attendee" \in People
  BY RequestIs
<1>3. /\ Asking(r) /\ Past(r)' /\ req'[r].at = "done"
      /\ req'[r].s = 1 /\ req'[r].op = "retitle" /\ req'[r].who = "organizer"
  BY <1>2, WentStep
<1>4. \A y \in Series : /\ Mine(y)' = Mine(y) /\ MineOcc(y)' = MineOcc(y) /\ Copy(y)' = Copy(y) /\ CopyOcc(y)' = CopyOcc(y)
                        /\ Exists("organizer", y)' <=> Exists("organizer", y)
                        /\ Exists("attendee", y)' <=> Exists("attendee", y)
  BY DEF Mine, MineOcc, Copy, CopyOcc, Exists
<1>5. ASSUME NEW y \in Series, y # req[r].s PROVE Alone(y)
  BY <1>5 DEF Alone
<1>6. Step(r)
  BY <1>3, <1>5 DEF Step
<1>7. Tame(r)
  BY <1>2, <1>3, <1>4, TameCopy
<1>8. ASSUME NEW y \in Series, y = req[r].s \/ (req[r].op = "split" /\ y = r + 1), Tidy(y)' PROVE Cover(y)'
  <2>1. Tidy(y)
    BY <1>4, <1>8, TidyBefore
  <2>2. ~Pending(r, y) /\ ~Pending(r, y)'
    BY <1>3 DEF Pending
  <2>3. \A q \in Requests : (Pending(q, y)' <=> Pending(q, y)) /\ (Pending(q, y) => req'[q] = req[q])
    BY <1>3, <2>2, OthersPend
  <2>4. (Had(y, "twin")' <=> Had(y, "twin")) /\ (Had(y, "moved")' <=> Had(y, "moved"))
    OBVIOUS
  <2>5. /\ \A X : Within(X, X) /\ Grown(X, X)
        /\ \A m : SameRule(m, m)
    BY DEF Within, Grown, SameRule
  <2>6. Steady(y)
    BY <1>4, <2>3, <2>4, <2>5 DEF Steady
  <2>7. Cover(y)
    BY <2>1 DEF CopyInv
  <2> QED
    BY <2>6, <2>7, CoverStays
<1> QED
  BY <1>6, <1>7, <1>8, CopyStays

-----------------------------------------------------------------------------
(* One occurrence is edited                                                *)

LEMMA RowSent ==
  ASSUME CalTyped, NEW r \in Requests, NEW x \in Detached,
         req' = [req EXCEPT ![r].at = "spread", ![r].rows = {x}]
  PROVE  /\ Asking(r) /\ req'[r].at = "spread" /\ req'[r].rows = {x} /\ req'[r].s = req[r].s
         /\ req'[r].op = req[r].op /\ req'[r].who = req[r].who /\ req'[r].slot = req[r].slot
<1>1. req[r] \in Asked
  BY DEF CalTyped
<1>2. PICK v : v = [req[r] EXCEPT !.at = "spread", !.rows = {x}]
  OBVIOUS
<1>3. /\ v \in Asked /\ v.at = "spread" /\ v.rows = {x} /\ v.s = req[r].s
      /\ v.op = req[r].op /\ v.who = req[r].who /\ v.slot = req[r].slot
  BY <1>1, <1>2 DEF Asked
<1>4. req' = [req EXCEPT ![r] = v]
  BY <1>2 DEF CalTyped
<1>5. req'[r] = v
  BY <1>4 DEF CalTyped
<1>6. req' \in [Requests -> Asked] /\ \A q \in Requests \ {r} : req'[q] = req[q]
  BY <1>3, <1>4 DEF CalTyped
<1> QED
  BY <1>3, <1>5, <1>6 DEF Asking

(* The row with the number of o becomes n. *)
Replaced(os, o, n) == {IF x.id = o.id THEN n ELSE x : x \in os}

LEMMA ReplacedIs ==
  ASSUME NEW os \in SUBSET Detached, NEW o \in Detached, NEW n \in Detached, n.id = o.id
  PROVE  /\ Replaced(os, o, n) \in SUBSET Detached
         /\ \A x \in Replaced(os, o, n) : x = n \/ x \in os
         /\ \A x \in Replaced(os, o, n) : \E y \in os : y.id = x.id
  BY DEF Replaced

LEMMA ReplacedKeeps ==
  ASSUME NEW os \in SUBSET Detached, NEW o \in Detached, NEW n \in Detached, n.id = o.id, n.rid = o.rid,
         NEW z \in os, z.id = o.id, z.rid = o.rid, Distinct(os)
  PROVE  /\ n \in Replaced(os, o, n) /\ Distinct(Replaced(os, o, n))
         /\ \A x \in Replaced(os, o, n) : \E y \in os : x.id = y.id /\ x.rid = y.rid
         /\ \A y \in os : \E x \in Replaced(os, o, n) : x.id = y.id /\ x.rid = y.rid
<1> DEFINE f(x) == IF x.id = o.id THEN n ELSE x
<1>1. Replaced(os, o, n) = {f(x) : x \in os}
  BY DEF Replaced
<1>2. \A x \in os : (f(x) = n \/ f(x) = x) /\ f(x).id = x.id /\ (x.id # o.id => f(x) = x) /\ (x.id = o.id => f(x) = n)
  OBVIOUS
<1> HIDE DEF f
<1>3. \A x \in os : x.id = o.id => x = z
  BY DEF Distinct
<1>4. \A x \in os : f(x).id = x.id /\ f(x).rid = x.rid
  BY <1>2, <1>3
<1>5. ASSUME NEW x \in Replaced(os, o, n), NEW y \in Replaced(os, o, n), x.rid = y.rid \/ x.id = y.id
      PROVE  x = y
  <2>1. PICK u \in os, v \in os : x = f(u) /\ y = f(v)
    BY <1>1
  <2>2. u = v
    BY <1>4, <1>5, <2>1 DEF Distinct
  <2> QED
    BY <2>1, <2>2
<1>6. Distinct(Replaced(os, o, n))
  BY <1>5 DEF Distinct
<1> QED
  BY <1>1, <1>2, <1>4, <1>6

LEMMA CommitOverrideCovers ==
  ASSUME CopyInv, OwnInv', NEW r \in Requests, req[r].at = "commit", CommitOverride(r)
  PROVE  CopyInv'
<1>1. PICK s, b, d, m, os :
         /\ s = req[r].s /\ b = req[r].read /\ d = req[r].slot /\ m = Mine(s) /\ os = MineOcc(s)
  OBVIOUS
<1>2. /\ CalTyped /\ CalTyped' /\ req[r] \in Asked /\ req[r].s \in Series /\ req[r].read \in Row
      /\ req[r].slot \in Int /\ req[r].rows \in SUBSET Detached
      /\ "organizer" \in People /\ "attendee" \in People
      /\ \A y \in Series : MineOcc(y) \in SUBSET Detached /\ CopyOcc(y) \in SUBSET Detached
  BY RequestIs
<1>3. s \in Series /\ b \in Row /\ d \in Int /\ os \in SUBSET Detached /\ CopyOcc(s) \in SUBSET Detached
  <2>1. s \in Series /\ b \in Row /\ d \in Int
    BY <1>1, <1>2
  <2> QED
    BY <1>1, <1>2, <2>1
<1>4. req[r].op = "override" /\ req[r].who = "organizer"
  BY DEF CommitOverride, Ready
<1>5. PICK new : new = Changed(r, [id |-> <<r, 1>>, rid |-> d, at |-> d, st |-> b.st])
  OBVIOUS
<1>6. /\ IF req[r].rows # {}
         THEN \E o \in req[r].rows :
                /\ occ' = [occ EXCEPT !["organizer"][s] = Replaced(os, o, Changed(r, o))]
                /\ req' = [req EXCEPT ![r].at = "spread", ![r].rows = {Changed(r, o)}]
                /\ UNCHANGED master
         ELSE IF Exists("organizer", s)
         THEN /\ Put("organizer", s, InsertOccurrence(m, os, new))
              /\ req' = [req EXCEPT ![r].at = "spread", ![r].rows = {new}]
         ELSE Went(r, "done") /\ UNCHANGED <<master, occ>>
      /\ marks' = marks \cup (IF Crossed(r) \/ \E o \in req[r].rows : \A x \in os : x.id # o.id
                              THEN {<<s, "stale">>} ELSE {})
                        \cup (IF req[r].rows = {} /\ \E o \in os : o.rid = new.rid
                              THEN {<<s, "double">>} ELSE {})
  BY <1>1, <1>5 DEF CommitOverride, Replaced, Mine, MineOcc
<1>7. /\ marks \subseteq marks'
      /\ \A t : \A y \in Series : (y # s \/ t \notin {"stale", "double"}) => (Had(y, t)' <=> Had(y, t))
      /\ Crossed(r) => Had(s, "stale")'
      /\ (\E o \in req[r].rows : \A x \in os : x.id # o.id) => Had(s, "stale")'
      /\ req[r].rows = {} /\ (\E o \in os : o.rid = new.rid) => Had(s, "double")'
  BY <1>3, <1>6 DEF Had
<1>8. ASSUME Tidy(s), Tidy(s)', Mine(s) = b
      PROVE  /\ m = b /\ m \in Row /\ Exists("organizer", s) /\ ~Had(s, "stale")'
             /\ \A o \in req[r].rows : /\ \A x \in os : x.id = o.id => x.rid = o.rid
                                       /\ \E x \in os : x.id = o.id
  <2>1. Aims(r)
    BY <1>1, <1>4, <1>8 DEF CopyInv
  <2>2. m = b /\ m \in Row /\ Exists("organizer", s) /\ ~Had(s, "stale")'
    BY <1>1, <1>3, <1>8 DEF Tidy, Clean, Had
  <2>3. \A o \in req[r].rows : \A x \in os : x.id = o.id => x.rid - b.start = o.rid - b.start
    BY <1>1, <1>8, <2>1 DEF Aims
  <2>4. ASSUME NEW x \in Detached, NEW i \in Int, x.rid - b.start = i - b.start PROVE x.rid = i
    <3>1. PICK j, k : j = x.rid /\ k = b.start
      OBVIOUS
    <3>2. j \in Int /\ k \in Int
      BY <1>3, <3>1 DEF Detached, Row
    <3>3. j - k = i - k => j = i
      BY <3>2
    <3> QED
      BY <2>4, <3>1, <3>3
  <2>5. ASSUME NEW o \in req[r].rows, NEW x \in os, x.id = o.id PROVE x.rid = o.rid
    <3>1. x \in Detached /\ o.rid \in Int
      BY <1>2, <1>3 DEF Detached
    <3> QED
      BY <2>3, <2>4, <2>5, <3>1
  <2>6. \A o \in req[r].rows : \E x \in os : x.id = o.id
    BY <1>7, <2>2
  <2> QED
    BY <2>2, <2>5, <2>6
<1>9. CASE req[r].rows # {}
  <2>1. PICK o \in req[r].rows :
                /\ occ' = [occ EXCEPT !["organizer"][s] = Replaced(os, o, Changed(r, o))]
                /\ req' = [req EXCEPT ![r].at = "spread", ![r].rows = {Changed(r, o)}]
                /\ master' = master
    BY <1>6, <1>9
  <2>2. PICK n : n = Changed(r, o)
    OBVIOUS
  <2>3. o \in Detached /\ n \in Detached /\ n.id = o.id /\ n.rid = o.rid
    <3>1. o \in Detached
      BY <1>2
    <3> QED
      BY <1>2, <2>2, <3>1, ChangedIs
  <2>4. PICK os2 : os2 = Replaced(os, o, n)
    OBVIOUS
  <2>5. os2 \in SUBSET Detached /\ (\A x \in os2 : x = n \/ x \in os) /\ (\A x \in os2 : \E y \in os : y.id = x.id)
    BY <1>3, <2>3, <2>4, ReplacedIs
  <2>6. occ' = [occ EXCEPT !["organizer"][s] = os2]
    BY <2>1, <2>2, <2>4
  <2>7. /\ \A p \in People, y \in Series : p # "organizer" \/ y # s => master'[p][y] = master[p][y] /\ occ'[p][y] = occ[p][y]
        /\ MineOcc(s)' = os2 /\ Mine(s)' = m /\ (Exists("organizer", s)' <=> Exists("organizer", s))
    <3>1. \A p \in People, y \in Series : p # "organizer" \/ y # s => occ'[p][y] = occ[p][y]
      BY <1>2, <2>6 DEF CalTyped
    <3>2. occ'["organizer"][s] = os2
      BY <1>2, <1>3, <2>6 DEF CalTyped
    <3> QED
      BY <1>1, <2>1, <3>1, <3>2 DEF MineOcc, Mine, Exists
  <2>8. /\ Asking(r) /\ req'[r].at = "spread" /\ req'[r].rows = {n} /\ req'[r].s = s
        /\ req'[r].op = "override" /\ req'[r].who = "organizer"
    <3>1. req' = [req EXCEPT ![r].at = "spread", ![r].rows = {n}]
      BY <2>1, <2>2
    <3> QED
      BY <1>1, <1>2, <1>4, <2>3, <3>1, RowSent
  <2>9. ASSUME Tidy(s), Tidy(s)', Cover(s), Settled(s), Mine(s) = b
        PROVE  /\ Drifts(r, s) /\ Distinct(MineOcc(s)')
               /\ Had(s, "moved") \/ \A x \in MineOcc(s)' : x.rid \in Mine(s)'.ex
               /\ ToDo(r, s)'
    <3>1. PICK z \in os : z.id = o.id /\ z.rid = o.rid
      BY <1>8, <2>9
    <3>2. Distinct(os) /\ (Had(s, "moved") \/ \A x \in os : x.rid \in m.ex)
      BY <1>1, <2>9 DEF Cover
    <3>3. /\ n \in os2 /\ Distinct(os2)
          /\ \A x \in os2 : \E y \in os : x.id = y.id /\ x.rid = y.rid
          /\ \A y \in os : \E x \in os2 : x.id = y.id /\ x.rid = y.rid
      <4>1. /\ n \in Replaced(os, o, n) /\ Distinct(Replaced(os, o, n))
            /\ \A x \in Replaced(os, o, n) : \E y \in os : x.id = y.id /\ x.rid = y.rid
            /\ \A y \in os : \E x \in Replaced(os, o, n) : x.id = y.id /\ x.rid = y.rid
        BY <1>3, <2>3, <3>1, <3>2, ReplacedKeeps
      <4> QED
        BY <2>4, <4>1
    <3>4. Drifts(r, s)
      BY <1>1, <1>2, <1>3, <1>8, <2>7, <2>9, <3>3, DriftsNot
    <3>5. Had(s, "moved") \/ \A x \in os2 : x.rid \in m.ex
      BY <3>2, <3>3
    <3>6. /\ Exists("attendee", s) /\ SameRule(m, Copy(s)) /\ NoMoreGaps(m, Copy(s), CopyOcc(s))
          /\ Seen(os, CopyOcc(s), 0, {}) /\ Placed(os, CopyOcc(s), 0, Left(s))
      BY <1>1, <2>9 DEF Settled
    <3>7. Seen(os2, CopyOcc(s), 0, {n})
      BY <2>5, <3>6 DEF Seen
    <3>8. Placed(os2, CopyOcc(s), 0, Left(s))
      BY <3>3, <3>6 DEF Placed
    <3>9. \E c \in CopyOcc(s) : c.rid = n.rid
      <4>1. PICK c \in CopyOcc(s) : z.rid = c.rid + 0
        BY <3>1, <3>6 DEF Seen
      <4>2. c.rid \in Int
        BY <1>3 DEF Detached
      <4>3. c.rid + 0 = c.rid
        BY <4>2
      <4> QED
        BY <2>3, <3>1, <4>1, <4>3
    <3>10. Copy(s)' = Copy(s) /\ CopyOcc(s)' = CopyOcc(s) /\ (Exists("attendee", s)' <=> Exists("attendee", s))
      BY <1>2, <1>3, <2>7 DEF Copy, CopyOcc, Exists
    <3>11. Left(s)' = Left(s)
      BY <1>1, <1>3, <1>7, <2>7 DEF Left
    <3>12. OverridePending(r, s)'
      BY <2>7, <2>8, <3>3, <3>6, <3>7, <3>8, <3>9, <3>10, <3>11 DEF OverridePending
    <3>13. ToDo(r, s)'
      BY <2>8, <3>12 DEF ToDo
    <3> QED
      BY <2>7, <3>3, <3>4, <3>5, <3>13
  <2>10. \A x \in MineOcc(s)' : x.id[1] = r \/ \E y \in MineOcc(s) : y.id = x.id
    BY <1>1, <2>5, <2>7
  <2> QED
    BY <1>1, <1>3, <1>4, <1>7, <2>7, <2>8, <2>9, <2>10, MineWritten
<1>10. CASE req[r].rows = {} /\ Exists("organizer", s)
  <2>1. Put("organizer", s, InsertOccurrence(m, os, new)) /\ req' = [req EXCEPT ![r].at = "spread", ![r].rows = {new}]
    BY <1>6, <1>10
  <2>2. m \in Row
    BY <1>1, <1>2, <1>3, <1>10, RowsType DEF Mine
  <2>3. new \in Detached /\ new.id = <<r, 1>> /\ new.rid = d
    <3>1. PICK made : made = [id |-> <<r, 1>>, rid |-> d, at |-> d, st |-> b.st]
      OBVIOUS
    <3>2. made \in Detached /\ made.id = <<r, 1>> /\ made.rid = d
      BY <1>3, <3>1 DEF Detached, Row
    <3> QED
      BY <1>2, <1>5, <3>1, <3>2, ChangedIs
  <2>4. PICK w \in Row : /\ InsertOccurrence(m, os, new) = <<w, os \cup {new}>> /\ w.ex = m.ex \cup {new.rid}
                         /\ w.start = m.start /\ w.until = m.until /\ w.count = m.count /\ w.st = m.st
    BY <1>3, <2>2, <2>3, InsertIs
  <2>5. os \cup {new} \in SUBSET Detached /\ w \in Row \cup {NoEvent} /\ Put("organizer", s, <<w, os \cup {new}>>)
    BY <1>3, <2>1, <2>3, <2>4
  <2>6. /\ \A p \in People, y \in Series : p # "organizer" \/ y # s => master'[p][y] = master[p][y] /\ occ'[p][y] = occ[p][y]
        /\ MineOcc(s)' = os \cup {new} /\ Mine(s)' = w
    <3>1. /\ master'["organizer"][s] = w /\ occ'["organizer"][s] = os \cup {new}
          /\ \A x \in People, y \in Series :
                x # "organizer" \/ y # s => master'[x][y] = master[x][y] /\ occ'[x][y] = occ[x][y]
      BY <1>2, <1>3, <2>5, PutIs
    <3> QED
      BY <3>1 DEF Mine, MineOcc
  <2>7. /\ Asking(r) /\ req'[r].at = "spread" /\ req'[r].rows = {new} /\ req'[r].s = s
        /\ req'[r].op = "override" /\ req'[r].who = "organizer"
    BY <1>1, <1>2, <1>4, <2>1, <2>3, RowSent
  <2>8. ASSUME Tidy(s), Tidy(s)', Cover(s), Settled(s), Mine(s) = b
        PROVE  /\ Drifts(r, s) /\ Distinct(MineOcc(s)')
               /\ Had(s, "moved") \/ \A x \in MineOcc(s)' : x.rid \in Mine(s)'.ex
               /\ ToDo(r, s)'
    <3>1. \A x \in os : x.rid # d
      <4>1. ~Had(s, "double")'
        BY <2>8 DEF Tidy, Clean, Had
      <4> QED
        BY <1>7, <1>10, <2>3, <4>1
    <3>2. Distinct(os) /\ (Had(s, "moved") \/ \A x \in os : x.rid \in m.ex)
      BY <1>1, <2>8 DEF Cover
    <3>3. \A x \in os : x.id # <<r, 1>>
      <4>1. \A x \in os : Past(x.id[1])
        BY <1>1, <1>3 DEF CopyInv, Numbered
      <4>2. ~Past(r) /\ <<r, 1>>[1] = r
        BY DEF Past
      <4> QED
        BY <4>1, <4>2
    <3>4. Distinct(os \cup {new})
      BY <2>3, <3>1, <3>2, <3>3 DEF Distinct
    <3>5. w.ex = m.ex \cup {d} /\ new.id[1] = r
      BY <2>3, <2>4
    <3>6. Drifts(r, s)
      <4>1. \A x \in MineOcc(s)' :
                \/ \E o \in MineOcc(s) : x.id = o.id /\ x.rid = o.rid
                \/ req[r].at = "commit" /\ x.id[1] = r
        BY <1>1, <2>6, <3>5
      <4>2. Mine(s)'.start = Mine(s).start
        BY <1>1, <2>4, <2>6
      <4> QED
        BY <1>2, <1>3, <1>10, <4>1, <4>2, DriftsNot
    <3>7. Had(s, "moved") \/ \A x \in os \cup {new} : x.rid \in w.ex
      BY <2>3, <3>2, <3>5
    <3>8. /\ Exists("attendee", s) /\ SameRule(m, Copy(s)) /\ NoMoreGaps(m, Copy(s), CopyOcc(s))
          /\ Seen(os, CopyOcc(s), 0, {}) /\ Placed(os, CopyOcc(s), 0, Left(s))
      BY <1>1, <2>8 DEF Settled
    <3>9. SameRule(m, w) /\ SameRule(w, Copy(s)) /\ m.ex \subseteq w.ex
      BY <2>4, <3>8 DEF SameRule
    <3>10. NoMoreGaps(w, Copy(s), CopyOcc(s))
      <4>1. Within(CopyOcc(s), CopyOcc(s))
        BY DEF Within
      <4>2. \A x \in Copy(s).ex \cap Dates(w) : x \in Copy(s).ex \/ x \in w.ex \/ \E c \in CopyOcc(s) : c.rid = x
        OBVIOUS
      <4> QED
        BY <3>8, <3>9, <4>1, <4>2, NoGapComes
    <3>11. Seen(os \cup {new}, CopyOcc(s), 0, {new})
      BY <3>8 DEF Seen
    <3>12. /\ Copy(s)' = Copy(s) /\ CopyOcc(s)' = CopyOcc(s) /\ (Exists("attendee", s)' <=> Exists("attendee", s))
           /\ Left(s) \subseteq Left(s)'
      <4>1. Had(s, "twin")' <=> Had(s, "twin")
        BY <1>3, <1>7
      <4>2. Left(s) \subseteq Left(s)'
        BY <1>1, <2>6, <3>9, <4>1 DEF Left
      <4> QED
        BY <1>2, <1>3, <2>6, <4>2 DEF Copy, CopyOcc, Exists
    <3>13. Placed(os \cup {new}, CopyOcc(s), 0, Left(s)')
      BY <3>8, <3>12 DEF Placed
    <3>14. OverridePending(r, s)'
      BY <2>6, <2>7, <3>5, <3>8, <3>9, <3>10, <3>11, <3>12, <3>13 DEF OverridePending
    <3>15. ToDo(r, s)'
      BY <2>7, <3>14 DEF ToDo
    <3> QED
      BY <2>6, <3>4, <3>6, <3>7, <3>15
  <2>9. \A x \in MineOcc(s)' : x.id[1] = r \/ \E y \in MineOcc(s) : y.id = x.id
    BY <1>1, <2>3, <2>6
  <2>10. Exists("organizer", s)' => Exists("organizer", s)
    BY <1>10
  <2> QED
    BY <1>1, <1>3, <1>4, <1>7, <2>6, <2>7, <2>8, <2>9, <2>10, MineWritten
<1>11. CASE req[r].rows = {} /\ ~Exists("organizer", s)
  <2>1. Went(r, "done") /\ master' = master /\ occ' = occ
    BY <1>6, <1>11
  <2> QED
    BY <1>1, <1>7, <2>1, NothingWritten
<1> QED
  BY <1>9, <1>10, <1>11

LEMMA OverrideArrives ==
  ASSUME NEW m \in Row, NEW c \in Row, NEW os \in SUBSET Detached, NEW bs \in SUBSET Detached, NEW D,
         NEW n \in Detached, NEW n2 \in Detached, n2.rid = n.rid, n2.at = n.at, NEW c2 \in Row,
         SameRule(m, c), NoMoreGaps(m, c, bs), Seen(os, bs, 0, {n}), Placed(os, bs, 0, D), Distinct(os),
         \E o \in os : n.id = o.id /\ n.rid = o.rid /\ n.at = o.at,
         SameRule(c, c2), c2.ex \subseteq c.ex \cup {n.rid}, NEW bs2,
         bs2 = bs \cup {n2} \/ \E o \in bs : o.rid = n.rid /\ bs2 = (bs \ {o}) \cup {n2}
  PROVE  /\ SameRule(m, c2) /\ NoMoreGaps(m, c2, bs2) /\ Seen(os, bs2, 0, {}) /\ Placed(os, bs2, 0, D)
         /\ Single(bs) /\ (bs2 = bs \cup {n2} => \A o \in bs : o.rid # n.rid) => Single(bs2)
<1>1. \A x \in Detached : x.rid + 0 = x.rid /\ x.at + 0 = x.at
  <2>1. ASSUME NEW x \in Detached PROVE x.rid + 0 = x.rid /\ x.at + 0 = x.at
    <3>1. PICK i, j : i = x.rid /\ j = x.at
      OBVIOUS
    <3>2. i \in Int /\ j \in Int
      BY <3>1 DEF Detached
    <3>3. i + 0 = i /\ j + 0 = j
      BY <3>2
    <3> QED
      BY <3>1, <3>3
  <2> QED
    BY <2>1
<1>2. n2 \in bs2 /\ \A b \in bs2 : b = n2 \/ b \in bs
  OBVIOUS
<1>3. \A b \in bs : b \in bs2 \/ b.rid = n2.rid
  OBVIOUS
<1>4. SameRule(m, c2)
  BY DEF SameRule
<1>5. NoMoreGaps(m, c2, bs2)
  <2> SUFFICES ASSUME NEW d \in c2.ex \cap Dates(m), d \notin m.ex PROVE \E b \in bs2 : b.rid = d
    BY DEF NoMoreGaps
  <2>1. CASE d = n.rid
    BY <1>2, <2>1
  <2>2. CASE d # n.rid
    <3>1. d \in c.ex
      BY <2>2
    <3>2. PICK b \in bs : b.rid = d
      BY <3>1 DEF NoMoreGaps
    <3> QED
      BY <1>3, <2>2, <3>2
  <2> QED
    BY <2>1, <2>2
<1>6. PICK u \in os : n.id = u.id /\ n.rid = u.rid /\ n.at = u.at
  OBVIOUS
<1>7. n2.rid + 0 = u.rid /\ n2.at + 0 = u.at
  BY <1>1, <1>6
<1>8. ASSUME NEW x \in os PROVE \E b \in bs2 : x.rid = b.rid + 0 /\ x.at = b.at + 0
  <2>1. CASE n.id = x.id /\ n.rid = x.rid /\ n.at = x.at
    BY <1>2, <1>6, <1>7, <2>1
  <2>2. CASE \E b \in bs : x.rid = b.rid + 0 /\ x.at = b.at + 0
    <3>1. PICK b \in bs : x.rid = b.rid + 0 /\ x.at = b.at + 0
      BY <2>2
    <3>2. CASE b \in bs2
      BY <3>1, <3>2
    <3>3. CASE b.rid = n2.rid
      <4>1. x.rid = u.rid
        BY <1>1, <1>6, <3>1, <3>3
      <4>2. x = u
        BY <4>1 DEF Distinct
      <4> QED
        BY <1>2, <1>7, <4>2
    <3> QED
      BY <1>3, <3>2, <3>3
  <2> QED
    BY <2>1, <2>2 DEF Seen
<1>9. Seen(os, bs2, 0, {})
  BY <1>8 DEF Seen
<1>10. Placed(os, bs2, 0, D)
  BY <1>2, <1>7 DEF Placed
<1>11. ASSUME Single(bs), bs2 = bs \cup {n2} => \A o \in bs : o.rid # n.rid PROVE Single(bs2)
  <2>1. CASE bs2 = bs \cup {n2}
    BY <1>11, <2>1 DEF Single
  <2>2. CASE \E o \in bs : o.rid = n.rid /\ bs2 = (bs \ {o}) \cup {n2}
    BY <1>11, <2>2 DEF Single
  <2> QED
    BY <2>1, <2>2
<1> QED
  BY <1>4, <1>5, <1>9, <1>10, <1>11

LEMMA SpreadOverrideCovers ==
  ASSUME CopyInv, OwnInv', NEW r \in Requests, req[r].at = "spread", SpreadOverride(r)
  PROVE  CopyInv'
<1>1. PICK s, m, c, os, bs, rows :
         /\ s = req[r].s /\ m = Mine(s) /\ c = Copy(s) /\ os = MineOcc(s) /\ bs = CopyOcc(s) /\ rows = req[r].rows
  OBVIOUS
<1>2. /\ CalTyped /\ CalTyped' /\ req[r] \in Asked /\ req[r].s \in Series
      /\ req[r].rows \in SUBSET Detached
      /\ "organizer" \in People /\ "attendee" \in People
      /\ \A y \in Series : MineOcc(y) \in SUBSET Detached /\ CopyOcc(y) \in SUBSET Detached
  BY RequestIs
<1>3. s \in Series /\ rows \in SUBSET Detached /\ os \in SUBSET Detached /\ bs \in SUBSET Detached
  BY <1>1, <1>2
<1>4. req[r].op = "override" /\ req[r].who = "organizer"
  BY DEF SpreadOverride, Ready
<1>5. PICK new \in rows :
          IF new.id[1] = r
          THEN IF Exists("attendee", s)
               THEN /\ Put("attendee", s, InsertOccurrence(c, bs, [new EXCEPT !.id = <<r, 2>>]))
                    /\ MarkIf(s, "twin", \E o \in bs : o.rid = new.rid)
               ELSE UNCHANGED <<master, occ, marks>>
          ELSE LET found == {o \in bs : o.rid = new.rid} IN
               /\ UNCHANGED master
               /\ IF found = {} THEN UNCHANGED occ
                  ELSE \E o \in found : occ' = [occ EXCEPT !["attendee"][s] =
                            (@ \ {o}) \cup {[new EXCEPT !.id = o.id]}]
               /\ UNCHANGED marks
  BY <1>1 DEF SpreadOverride, Copy, CopyOcc
<1>6. /\ Asking(r) /\ req'[r].at = "done"
      /\ req'[r].s = 1 /\ req'[r].op = "retitle" /\ req'[r].who = "organizer"
  <2>1. Went(r, "done")
    BY DEF SpreadOverride
  <2> QED
    BY <1>2, <2>1, WentStep
<1>7. new \in Detached
  BY <1>3
<1>8. ASSUME NEW i \in Requests \X {1, 2}, NEW n, n = [new EXCEPT !.id = i]
      PROVE  n \in Detached /\ n.rid = new.rid /\ n.at = new.at
  BY <1>7, <1>8 DEF Detached
<1>9. ASSUME Cover(s), ToDo(r, s), Exists("organizer", s)
      PROVE  /\ Exists("attendee", s) /\ m \in Row /\ c \in Row
             /\ SameRule(m, c) /\ NoMoreGaps(m, c, bs) /\ Seen(os, bs, 0, {new}) /\ Placed(os, bs, 0, Left(s)) /\ Distinct(os)
             /\ \E o \in os : new.id = o.id /\ new.rid = o.rid /\ new.at = o.at
             /\ new.id[1] = r \/ \E b \in bs : b.rid = new.rid
             /\ Had(s, "twin") \/ Single(bs)
  <2>1. OverridePending(r, s)
    BY <1>4, <1>9 DEF ToDo
  <2>2. rows = {new}
    BY <1>1, <2>1 DEF OverridePending
  <2>3. Exists("attendee", s) /\ m \in Row /\ c \in Row
    <3>1. Exists("attendee", s)
      BY <2>1 DEF OverridePending
    <3> QED
      BY <1>1, <1>2, <1>3, <1>9, <3>1, RowsType DEF Mine, Copy
  <2>4. /\ SameRule(m, c) /\ NoMoreGaps(m, c, bs) /\ Seen(os, bs, 0, {new}) /\ Placed(os, bs, 0, Left(s))
    BY <1>1, <2>1, <2>2 DEF OverridePending
  <2>5. /\ \E o \in os : new.id = o.id /\ new.rid = o.rid /\ new.at = o.at
        /\ new.id[1] = r \/ \E b \in bs : b.rid = new.rid
    <3>1. PICK n \in rows : /\ \E o \in os : n.id = o.id /\ n.rid = o.rid /\ n.at = o.at
                            /\ n.id[1] = r \/ \E b \in bs : b.rid = n.rid
      BY <1>1, <2>1 DEF OverridePending
    <3>2. n = new
      BY <2>2
    <3> QED
      BY <3>1, <3>2
  <2>6. Distinct(os) /\ (Had(s, "twin") \/ Single(bs))
    BY <1>1, <1>9 DEF Cover
  <2> QED
    BY <2>3, <2>4, <2>5, <2>6
<1>10. CASE new.id[1] = r /\ Exists("attendee", s)
  <2>1. PICK n : n = [new EXCEPT !.id = <<r, 2>>]
    OBVIOUS
  <2>2. n \in Detached /\ n.rid = new.rid /\ n.at = new.at /\ c \in Row
    <3>1. <<r, 2>> \in Requests \X {1, 2}
      OBVIOUS
    <3>2. n \in Detached /\ n.rid = new.rid /\ n.at = new.at
      BY <1>8, <2>1, <3>1
    <3> QED
      BY <1>1, <1>2, <1>3, <1>10, <3>2, RowsType DEF Copy
  <2>3. PICK w \in Row : /\ InsertOccurrence(c, bs, n) = <<w, bs \cup {n}>> /\ w.ex = c.ex \cup {n.rid}
                         /\ w.start = c.start /\ w.until = c.until /\ w.count = c.count /\ w.st = c.st
    BY <1>3, <2>2, InsertIs
  <2>4. Put("attendee", s, <<w, bs \cup {n}>>) /\ w \in Row \cup {NoEvent} /\ bs \cup {n} \in SUBSET Detached
    BY <1>3, <1>5, <1>10, <2>1, <2>2, <2>3
  <2>5. /\ \A p \in People, y \in Series : p # "attendee" \/ y # s => master'[p][y] = master[p][y] /\ occ'[p][y] = occ[p][y]
        /\ Copy(s)' = w /\ CopyOcc(s)' = bs \cup {n} /\ Exists("attendee", s)'
    <3>1. /\ master'["attendee"][s] = w /\ occ'["attendee"][s] = bs \cup {n}
          /\ \A x \in People, y \in Series : x # "attendee" \/ y # s => master'[x][y] = master[x][y] /\ occ'[x][y] = occ[x][y]
      BY <1>2, <1>3, <2>4, PutIs
    <3> QED
      BY <3>1, RowsAre DEF Copy, CopyOcc, Exists
  <2>6. marks' = IF \E o \in bs : o.rid = new.rid THEN marks \cup {<<s, "twin">>} ELSE marks
    BY <1>5, <1>10 DEF MarkIf
  <2>7. /\ marks \subseteq marks' /\ \A t : \A y \in Series : (y # s \/ t \notin {"stale", "twin"}) => (Had(y, t)' <=> Had(y, t))
        /\ Had(s, "twin") => Had(s, "twin")'
        /\ (\E o \in bs : o.rid = new.rid) => Had(s, "twin")'
    BY <2>6 DEF Had
  <2>8. ASSUME Tidy(s), Tidy(s)', Cover(s), ToDo(r, s) PROVE Settled(s)' /\ (Had(s, "twin")' \/ Single(CopyOcc(s)'))
    <3>1. /\ Exists("attendee", s) /\ m \in Row /\ c \in Row
          /\ SameRule(m, c) /\ NoMoreGaps(m, c, bs) /\ Seen(os, bs, 0, {new}) /\ Placed(os, bs, 0, Left(s)) /\ Distinct(os)
          /\ \E o \in os : new.id = o.id /\ new.rid = o.rid /\ new.at = o.at
          /\ Had(s, "twin") \/ Single(bs)
      BY <1>9, <2>8 DEF Tidy
    <3>2. SameRule(c, w) /\ w.ex \subseteq c.ex \cup {new.rid}
      BY <2>2, <2>3 DEF SameRule
    <3>3. PICK bs2 : bs2 = bs \cup {n}
      OBVIOUS
    <3>4. /\ SameRule(m, w) /\ NoMoreGaps(m, w, bs2) /\ Seen(os, bs2, 0, {}) /\ Placed(os, bs2, 0, Left(s))
          /\ Single(bs) /\ (bs2 = bs \cup {n} => \A o \in bs : o.rid # new.rid) => Single(bs2)
      BY <1>3, <1>7, <2>2, <3>1, <3>2, <3>3, OverrideArrives
    <3>5. Mine(s)' = m /\ MineOcc(s)' = os
      BY <1>1, <1>2, <1>3, <2>5 DEF Mine, MineOcc
    <3>6. Left(s) \subseteq Left(s)'
      BY <1>1, <2>7, <3>5 DEF Left
    <3>7. Placed(os, bs2, 0, Left(s)')
      BY <3>4, <3>6 DEF Placed
    <3>8. Settled(s)'
      BY <2>5, <3>3, <3>4, <3>5, <3>7 DEF Settled
    <3>9. Had(s, "twin")' \/ Single(bs2)
      BY <2>7, <3>1, <3>4
    <3> QED
      BY <2>5, <3>3, <3>8, <3>9
  <2> QED
    BY <1>1, <1>3, <1>4, <1>6, <1>10, <2>5, <2>7, <2>8, CopyWritten
<1>11. CASE new.id[1] # r /\ \E o \in bs : o.rid = new.rid
  <2>1. PICK o \in bs : o.rid = new.rid /\ occ' = [occ EXCEPT !["attendee"][s] = (@ \ {o}) \cup {[new EXCEPT !.id = o.id]}]
    BY <1>5, <1>11
  <2>2. PICK n : n = [new EXCEPT !.id = o.id]
    OBVIOUS
  <2>3. n \in Detached /\ n.rid = new.rid /\ n.at = new.at
    <3>1. o.id \in Requests \X {1, 2}
      BY <1>3 DEF Detached
    <3> QED
      BY <1>8, <2>2, <3>1
  <2>4. PICK bs2 : bs2 = (bs \ {o}) \cup {n}
    OBVIOUS
  <2>5. occ' = [occ EXCEPT !["attendee"][s] = bs2] /\ master' = master /\ marks' = marks
    <3>1. bs = occ["attendee"][s]
      BY <1>1 DEF CopyOcc
    <3>2. occ' = [occ EXCEPT !["attendee"][s] = bs2]
      BY <1>2, <1>3, <2>1, <2>2, <2>4, <3>1 DEF CalTyped
    <3> QED
      BY <1>5, <1>11, <3>2
  <2>6. /\ \A p \in People, y \in Series : p # "attendee" \/ y # s => master'[p][y] = master[p][y] /\ occ'[p][y] = occ[p][y]
        /\ Copy(s)' = c /\ CopyOcc(s)' = bs2 /\ (Exists("attendee", s)' <=> Exists("attendee", s))
    <3>1. \A p \in People, y \in Series : p # "attendee" \/ y # s => occ'[p][y] = occ[p][y]
      BY <1>2, <2>5 DEF CalTyped
    <3>2. occ'["attendee"][s] = bs2
      BY <1>2, <1>3, <2>5 DEF CalTyped
    <3> QED
      BY <1>1, <2>5, <3>1, <3>2 DEF CopyOcc, Copy, Exists
  <2>7. /\ marks \subseteq marks' /\ \A t : \A y \in Series : Had(y, t)' <=> Had(y, t)
    BY <2>5 DEF Had
  <2>8. ASSUME Tidy(s), Tidy(s)', Cover(s), ToDo(r, s) PROVE Settled(s)' /\ (Had(s, "twin")' \/ Single(CopyOcc(s)'))
    <3>1. /\ Exists("attendee", s) /\ m \in Row /\ c \in Row
          /\ SameRule(m, c) /\ NoMoreGaps(m, c, bs) /\ Seen(os, bs, 0, {new}) /\ Placed(os, bs, 0, Left(s)) /\ Distinct(os)
          /\ \E x \in os : new.id = x.id /\ new.rid = x.rid /\ new.at = x.at
          /\ Had(s, "twin") \/ Single(bs)
      BY <1>9, <2>8 DEF Tidy
    <3>2. SameRule(c, c) /\ c.ex \subseteq c.ex \cup {new.rid}
      BY DEF SameRule
    <3>3. (bs2 = bs \cup {n} \/ \E x \in bs : x.rid = new.rid /\ bs2 = (bs \ {x}) \cup {n})
      BY <2>1, <2>4
    <3>4. /\ SameRule(m, c) /\ NoMoreGaps(m, c, bs2) /\ Seen(os, bs2, 0, {}) /\ Placed(os, bs2, 0, Left(s))
      BY <1>3, <1>7, <2>3, <3>1, <3>2, <3>3, OverrideArrives
    <3>5. Mine(s)' = m /\ MineOcc(s)' = os
      BY <1>1, <1>2, <1>3, <2>6 DEF Mine, MineOcc
    <3>6. Left(s)' = Left(s)
      BY <1>1, <1>3, <2>7, <3>5 DEF Left
    <3>7. Settled(s)'
      BY <2>6, <3>1, <3>4, <3>5, <3>6 DEF Settled
    <3>8. Single(bs) => Single(bs2)
      BY <2>1, <2>3, <2>4 DEF Single
    <3> QED
      BY <1>3, <2>6, <2>7, <3>1, <3>7, <3>8
  <2>9. ~Exists("attendee", s) /\ CopyOcc(s) = {} => ~Exists("attendee", s)' /\ CopyOcc(s)' = {}
    BY <1>1, <1>11
  <2> QED
    BY <1>1, <1>3, <1>4, <1>6, <2>6, <2>7, <2>8, <2>9, CopyWritten
<1>12. CASE (new.id[1] = r /\ ~Exists("attendee", s)) \/ (new.id[1] # r /\ ~\E o \in bs : o.rid = new.rid)
  <2>1. master' = master /\ occ' = occ /\ marks' = marks
    BY <1>5, <1>12
  <2>2. ~(Tidy(s) /\ Cover(s) /\ ToDo(r, s))
    BY <1>9, <1>12 DEF Tidy
  <2>3. /\ \A p \in People, y \in Series : p # "attendee" \/ y # s => master'[p][y] = master[p][y] /\ occ'[p][y] = occ[p][y]
        /\ marks \subseteq marks' /\ \A t : \A y \in Series : (y # s \/ t \notin {"stale", "twin"}) => (Had(y, t)' <=> Had(y, t))
        /\ ~Exists("attendee", s) /\ CopyOcc(s) = {} => ~Exists("attendee", s)' /\ CopyOcc(s)' = {}
    BY <2>1 DEF Had, Exists, CopyOcc
  <2> QED
    BY <1>1, <1>3, <1>4, <1>6, <2>2, <2>3, CopyWritten
<1> QED
  BY <1>10, <1>11, <1>12

-----------------------------------------------------------------------------
(* The attendee's requests leave nothing to do on the copy                 *)

LEMMA AttendeeWrites ==
  ASSUME CopyInv, OwnInv', NEW r \in Requests, req[r].at \in {"commit", "spread"}, NEW s \in Series, s = req[r].s,
         req[r].who = "attendee", NEW step \in {"spread", "done"}, Went(r, step), step = "spread" => req[r].at = "commit",
         \A p \in People, y \in Series \ {s} : master'[p][y] = master[p][y] /\ occ'[p][y] = occ[p][y],
         marks \subseteq marks',
         \A t : \A y \in Series \ {s} : Had(y, t)' <=> Had(y, t),
         Exists("organizer", s)' <=> Exists("organizer", s),
         Exists("organizer", s) => Mine(s)'.start = Mine(s).start /\ Mine(s)'.ex = Mine(s).ex,
         \A x \in MineOcc(s)' : \E o \in MineOcc(s) : x.id = o.id /\ x.rid = o.rid,
         Tidy(s)' =>
            /\ SameRule(Mine(s), Mine(s)')
            /\ Within(MineOcc(s), MineOcc(s)') /\ Within(MineOcc(s)', MineOcc(s))
            /\ Distinct(MineOcc(s)) => Distinct(MineOcc(s)')
            /\ Exists("attendee", s)' <=> Exists("attendee", s)
            /\ SameRule(Copy(s), Copy(s)')
            /\ \A d \in Copy(s)'.ex : d \in Copy(s).ex \/ \E b \in CopyOcc(s)' : b.rid = d
            /\ Grown(CopyOcc(s), CopyOcc(s)') /\ (Single(CopyOcc(s)) => Single(CopyOcc(s)'))
            /\ Had(s, "twin")' <=> Had(s, "twin")
            /\ Had(s, "moved")' <=> Had(s, "moved")
  PROVE  CopyInv'
<1>1. CalTyped /\ CalTyped' /\ "organizer" \in People /\ "attendee" \in People
  BY RequestIs
<1>2. /\ Asking(r) /\ Past(r)' /\ req'[r].at = step
      /\ req'[r].at = "spread" => /\ req[r].at = "commit" /\ req'[r].s = req[r].s
                                  /\ req'[r].op = req[r].op /\ req'[r].who = req[r].who
      /\ req'[r].at = "done" => req'[r].s = 1 /\ req'[r].op = "retitle" /\ req'[r].who = "organizer"
  BY <1>1, WentStep
<1>3. Unborn(r) /\ req[r].op # "split"
  BY DEF CopyInv, Unborn, AttendeeOps
<1>4. ASSUME NEW y \in Series, y # s PROVE Alone(y)
  BY <1>4 DEF Alone
<1>5. Step(r)
  BY <1>2, <1>4 DEF Step
<1>6. \A y \in Series \ {s} : /\ Mine(y)' = Mine(y) /\ MineOcc(y)' = MineOcc(y)
                              /\ Exists("organizer", y)' <=> Exists("organizer", y)
  BY <1>1 DEF Mine, MineOcc, Exists
<1>7. \A y \in Series : /\ Exists("organizer", y)' <=> Exists("organizer", y)
                        /\ Exists("organizer", y) => Mine(y)'.start = Mine(y).start /\ Mine(y)'.ex = Mine(y).ex
                        /\ \A x \in MineOcc(y)' : \E o \in MineOcc(y) : x.id = o.id /\ x.rid = o.rid
  BY <1>6
<1>8. Tame(r)
  BY <1>1, <1>3, <1>7, TameCopy
<1>9. ~Pending(r, s) /\ ~Pending(r, s)'
  BY <1>2 DEF Pending
<1>10. Tidy(s)' => Exists("organizer", s) /\ Mine(s)'.ex = Mine(s).ex
  BY DEF Tidy
<1> QED
  BY <1>3, <1>5, <1>8, <1>9, <1>10, NothingPends

LEMMA StaysSame ==
    /\ \A X : Within(X, X) /\ Grown(X, X)
    /\ \A m : SameRule(m, m)
  BY DEF Within, Grown, SameRule

-----------------------------------------------------------------------------
(* One occurrence is deleted                                               *)

LEMMA CommitCancelCovers ==
  ASSUME CopyInv, OwnInv', NEW r \in Requests, req[r].at = "commit", CommitCancel(r)
  PROVE  CopyInv'
<1>1. PICK p, s, d, b, m, os, rows :
         /\ p = req[r].who /\ s = req[r].s /\ d = req[r].slot /\ b = req[r].read
         /\ m = master[p][s] /\ os = occ[p][s] /\ rows = GetOrCreate(m, os, b, d, <<r, 1>>)
  OBVIOUS
<1>2. /\ CalTyped /\ CalTyped' /\ req[r] \in Asked /\ req[r].s \in Series /\ req[r].read \in Row
      /\ req[r].slot \in Int /\ req[r].who \in People
      /\ "organizer" \in People /\ "attendee" \in People
      /\ \A y \in Series : MineOcc(y) \in SUBSET Detached /\ CopyOcc(y) \in SUBSET Detached
  BY RequestIs
<1>3. p \in People /\ s \in Series /\ d \in Int /\ b \in Row /\ os \in SUBSET Detached /\ CopyOcc(s) \in SUBSET Detached
  <2>1. p \in People /\ s \in Series /\ d \in Int /\ b \in Row
    BY <1>1, <1>2
  <2> QED
    BY <1>1, <1>2, <2>1, RowsType
<1>4. req[r].op \in {"cancel", "drop one"}
  BY DEF CommitCancel
<1>5. IF ~Exists(p, s) THEN Went(r, "done") /\ UNCHANGED <<master, occ, gone, marks>>
         ELSE /\ \E o \in {o \in rows[2] : o.rid = d} : Put(p, s, DeleteOccurrence(rows[1], rows[2], o))
              /\ Went(r, IF p = "organizer" THEN "spread" ELSE "done")
              /\ marks' = marks \cup (IF p = "attendee" THEN {<<s, "own">>} ELSE {})
                                \cup (IF Crossed(r) THEN {<<s, "stale">>} ELSE {})
  BY <1>1 DEF CommitCancel
<1>6. CASE ~Exists(p, s)
  BY <1>5, <1>6, NothingWritten DEF Had
<1>7. CASE Exists(p, s)
  <2>1. m \in Row
    BY <1>1, <1>2, <1>3, <1>7, RowsType
  <2>2. PICK w \in Row, n \in SUBSET Detached :
            /\ rows = <<w, n>> /\ \E o \in n : o.rid = d
            /\ w.start = m.start /\ w.until = m.until /\ w.count = m.count /\ w.st = m.st
            /\ \/ w = m /\ n = os
               \/ /\ w.ex = m.ex \cup {d} /\ \A o \in os : o.rid # d
                  /\ \E o \in Detached : n = os \cup {o} /\ o.rid = d /\ o.at = d /\ o.id = <<r, 1>>
    <3>1. /\ m \in Row /\ os \in SUBSET Detached /\ b \in Row /\ d \in Int /\ r \in Requests
      BY <1>3, <2>1
    <3>2. \E w \in Row, n \in SUBSET Detached : Gotten(m, os, d, r, GetOrCreate(m, os, b, d, <<r, 1>>), w, n)
      BY ONLY <3>1, GetOrCreateIs
    <3>3. PICK w \in Row, n \in SUBSET Detached : Gotten(m, os, d, r, rows, w, n)
      BY <1>1, <3>2
    <3> QED
      BY <3>3 DEF Gotten
  <2>3. PICK o \in n : o.rid = d /\ Put(p, s, DeleteOccurrence(w, n, o))
    BY <1>5, <1>7, <2>2
  <2>4. PICK v \in Row : /\ DeleteOccurrence(w, n, o) = <<v, n \ {o}>> /\ v.ex = w.ex \cup {o.rid}
                         /\ v.start = w.start /\ v.until = w.until /\ v.count = w.count /\ v.st = w.st
    BY DeleteIs
  <2>5. Put(p, s, <<v, n \ {o}>>) /\ v \in Row \cup {NoEvent} /\ n \ {o} \in SUBSET Detached
    BY <2>3, <2>4
  <2>6. /\ master'[p][s] = v /\ occ'[p][s] = n \ {o}
        /\ \A x \in People, y \in Series : x # p \/ y # s => master'[x][y] = master[x][y] /\ occ'[x][y] = occ[x][y]
    BY <1>2, <1>3, <2>5, PutIs
  <2>7. /\ SameRule(m, v) /\ v.ex = m.ex \cup {d} /\ v.start = m.start
        /\ n \ {o} \subseteq os /\ (Distinct(os) => \A x \in n \ {o} : x.rid # d)
    <3>1. SameRule(m, v) /\ v.start = m.start
      BY <2>2, <2>4 DEF SameRule
    <3>2. v.ex = m.ex \cup {d}
      BY <2>2, <2>3, <2>4
    <3>3. CASE n = os
      BY <2>3, <3>1, <3>2, <3>3 DEF Distinct
    <3>4. CASE (\A x \in os : x.rid # d) /\ \E x \in Detached : n = os \cup {x} /\ x.rid = d
      <4>1. n \ {o} \subseteq os
        BY <2>3, <3>4
      <4> QED
        BY <3>1, <3>2, <3>4, <4>1
    <3> QED
      BY <2>2, <3>3, <3>4
  <2>8. /\ marks' = marks \cup (IF p = "attendee" THEN {<<s, "own">>} ELSE {})
                          \cup (IF Crossed(r) THEN {<<s, "stale">>} ELSE {})
        /\ Went(r, IF p = "organizer" THEN "spread" ELSE "done")
    BY <1>5, <1>7
  <2>9. CASE p = "attendee"
    <3>1. marks \subseteq marks' /\ (\A t : \A y \in Series \ {s} : Had(y, t)' <=> Had(y, t)) /\ Had(s, "own")'
      BY <2>8, <2>9 DEF Had
    <3>2. ~Tidy(s)'
      BY <3>1 DEF Tidy, Clean, Had
    <3>3. /\ Exists("organizer", s)' <=> Exists("organizer", s)
          /\ Mine(s)' = Mine(s) /\ MineOcc(s)' = MineOcc(s)
      BY <1>2, <1>3, <2>6, <2>9 DEF Exists, Mine, MineOcc
    <3>4. \A x \in People, y \in Series \ {s} : master'[x][y] = master[x][y] /\ occ'[x][y] = occ[x][y]
      BY <2>6
    <3>5. Went(r, "done")
      BY <2>8, <2>9
    <3> QED
      BY <1>1, <1>3, <2>9, <3>1, <3>2, <3>3, <3>4, <3>5, AttendeeWrites
  <2>10. CASE p = "organizer"
    <3>1. m = Mine(s) /\ os = MineOcc(s) /\ Mine(s)' = v /\ MineOcc(s)' = n \ {o}
      BY <1>1, <2>6, <2>10 DEF Mine, MineOcc
    <3>2. /\ marks \subseteq marks' /\ \A t : \A y \in Series : (y # s \/ t # "stale") => (Had(y, t)' <=> Had(y, t))
          /\ Crossed(r) => Had(s, "stale")'
      BY <2>8, <2>10 DEF Had
    <3>3. /\ Asking(r) /\ req'[r].at = "spread" /\ req'[r].s = s /\ req'[r].op = req[r].op /\ req'[r].who = "organizer"
          /\ req'[r].slot = d
      <4>1. Went(r, "spread")
        BY <2>8, <2>10
      <4>2. req'[r] = [req[r] EXCEPT !.at = "spread"]
        BY <1>2, <4>1, WentIs
      <4>3. req'[r].slot = d
        BY <1>1, <1>2, <4>2 DEF Asked
      <4> QED
        BY <1>1, <1>2, <2>10, <4>1, <4>3, WentStep
    <3>4. req[r].op = "cancel"
      <4>1. Unborn(r)
        BY DEF CopyInv
      <4> QED
        BY <1>1, <1>4, <2>10, <4>1 DEF Unborn, AttendeeOps
    <3>5. ASSUME Tidy(s), Tidy(s)', Cover(s), Settled(s), Mine(s) = b
          PROVE  /\ Drifts(r, s) /\ Distinct(MineOcc(s)')
                 /\ Had(s, "moved") \/ \A x \in MineOcc(s)' : x.rid \in Mine(s)'.ex
                 /\ ToDo(r, s)'
      <4>1. Distinct(os) /\ (Had(s, "moved") \/ \A x \in os : x.rid \in m.ex)
        BY <3>1, <3>5 DEF Cover
      <4>2. PICK os2 : os2 = n \ {o}
        OBVIOUS
      <4>3. os2 \subseteq os /\ MineOcc(s)' = os2 /\ \A x \in os2 : x.rid # d
        BY <2>7, <3>1, <4>1, <4>2
      <4>4. Distinct(os2) /\ (Had(s, "moved") \/ \A x \in os2 : x.rid \in v.ex)
        BY <2>7, <4>1, <4>3 DEF Distinct
      <4>5. Drifts(r, s)
        <5>1. \A x \in MineOcc(s)' : \E y \in MineOcc(s) : x.id = y.id /\ x.rid = y.rid
          BY <3>1, <4>3
        <5>2. Mine(s)'.start = Mine(s).start /\ Mine(s).ex \subseteq Mine(s)'.ex
          BY <2>7, <3>1
        <5> QED
          BY <1>2, <1>3, <1>7, <2>10, <5>1, <5>2, DriftsNot
      <4>6. /\ Exists("attendee", s) /\ SameRule(m, Copy(s)) /\ NoMoreGaps(m, Copy(s), CopyOcc(s))
            /\ Seen(os, CopyOcc(s), 0, {}) /\ Placed(os, CopyOcc(s), 0, Left(s))
        BY <3>1, <3>5 DEF Settled
      <4>7. SameRule(v, Copy(s))
        BY <2>7, <4>6 DEF SameRule
      <4>8. NoMoreGaps(v, Copy(s), CopyOcc(s))
        <5>1. Within(CopyOcc(s), CopyOcc(s)) /\ m.ex \subseteq v.ex
          BY <2>7 DEF Within
        <5>2. \A x \in Copy(s).ex \cap Dates(v) : x \in Copy(s).ex \/ x \in v.ex \/ \E c \in CopyOcc(s) : c.rid = x
          OBVIOUS
        <5> QED
          BY <2>7, <4>6, <5>1, <5>2, NoGapComes
      <4>9. Seen(os2, CopyOcc(s), 0, {})
        BY <4>3, <4>6 DEF Seen
      <4>10. /\ Copy(s)' = Copy(s) /\ CopyOcc(s)' = CopyOcc(s) /\ (Exists("attendee", s)' <=> Exists("attendee", s))
             /\ Left(s) \subseteq Left(s)'
        <5>1. Had(s, "twin")' <=> Had(s, "twin")
          BY <1>3, <3>2
        <5>2. Left(s) \subseteq Left(s)'
          BY <2>7, <3>1, <5>1 DEF Left
        <5> QED
          BY <1>2, <1>3, <2>6, <2>10, <5>2 DEF Copy, CopyOcc, Exists
      <4>11. Placed(os2, CopyOcc(s), 0, Left(s)' \cup {d})
        <5> SUFFICES ASSUME NEW c \in CopyOcc(s), c.at # c.rid, c.rid \notin Left(s)', c.rid # d
                     PROVE  \E x \in os2 : x.rid = c.rid + 0
          BY DEF Placed
        <5>1. PICK x \in os : x.rid = c.rid + 0
          BY <4>6, <4>10 DEF Placed
        <5>2. c.rid \in Int
          BY <1>3 DEF Detached
        <5>3. x.rid # d
          BY <5>1, <5>2
        <5>4. x # o
          BY <2>3, <5>3
        <5>5. x \in n
          BY <2>2
        <5> QED
          BY <4>2, <5>1, <5>4, <5>5
      <4>12. d \in v.ex
        BY <2>7
      <4>13. CancelPending(r, s)'
        BY <3>1, <3>3, <4>3, <4>6, <4>7, <4>8, <4>9, <4>10, <4>11, <4>12 DEF CancelPending
      <4>14. ToDo(r, s)'
        BY <3>3, <3>4, <4>13 DEF ToDo
      <4> QED
        BY <3>1, <4>3, <4>4, <4>5, <4>14
    <3>6. \A x \in MineOcc(s)' : x.id[1] = r \/ \E y \in MineOcc(s) : y.id = x.id
      BY <2>7, <3>1
    <3>7. Exists("organizer", s)' => Exists("organizer", s)
      BY <1>7, <2>10
    <3>8. \A x \in People, y \in Series : x # "organizer" \/ y # s => master'[x][y] = master[x][y] /\ occ'[x][y] = occ[x][y]
      BY <2>6, <2>10
    <3> QED
      BY <1>1, <1>3, <2>10, <3>2, <3>3, <3>4, <3>5, <3>6, <3>7, <3>8, MineWritten
  <2> QED
    BY <1>3, <2>9, <2>10 DEF People
<1> QED
  BY <1>6, <1>7

LEMMA SpreadCancelCovers ==
  ASSUME CopyInv, OwnInv', NEW r \in Requests, req[r].at = "spread", SpreadCancel(r)
  PROVE  CopyInv'
<1>1. PICK s, m, c, os, bs, d :
         /\ s = req[r].s /\ m = Mine(s) /\ c = Copy(s) /\ os = MineOcc(s) /\ bs = CopyOcc(s) /\ d = req[r].slot
  OBVIOUS
<1>2. /\ CalTyped /\ CalTyped' /\ req[r] \in Asked /\ req[r].s \in Series /\ req[r].slot \in Int
      /\ "organizer" \in People /\ "attendee" \in People
      /\ \A y \in Series : MineOcc(y) \in SUBSET Detached /\ CopyOcc(y) \in SUBSET Detached
  BY RequestIs
<1>3. s \in Series /\ d \in Int /\ os \in SUBSET Detached /\ bs \in SUBSET Detached
  <2>1. s \in Series /\ d \in Int
    BY <1>1, <1>2
  <2> QED
    BY <1>1, <1>2, <2>1
<1>4. req[r].op = "cancel" /\ req[r].who = "organizer"
  BY DEF SpreadCancel, Ready
<1>5. /\ IF Exists("attendee", s) /\ {o \in bs : o.rid = d} # {}
         THEN \E o \in {o \in bs : o.rid = d} : Put("attendee", s, DeleteOccurrence(c, bs, o))
         ELSE UNCHANGED <<master, occ>>
      /\ Went(r, "done") /\ marks' = marks
  BY <1>1 DEF SpreadCancel, Copy, CopyOcc
<1>6. /\ Asking(r) /\ req'[r].at = "done"
      /\ req'[r].s = 1 /\ req'[r].op = "retitle" /\ req'[r].who = "organizer"
  BY <1>2, <1>5, WentStep
<1>7. marks \subseteq marks' /\ \A t : \A y \in Series : Had(y, t)' <=> Had(y, t)
  BY <1>5 DEF Had
<1>8. ASSUME Cover(s), ToDo(r, s)
      PROVE  /\ Exists("attendee", s) /\ SameRule(m, c) /\ NoMoreGaps(m, c, bs) /\ Seen(os, bs, 0, {})
             /\ Placed(os, bs, 0, Left(s) \cup {d}) /\ d \in m.ex /\ (\A o \in os : o.rid # d)
             /\ Had(s, "twin") \/ Single(bs)
  <2>1. CancelPending(r, s)
    BY <1>4, <1>8 DEF ToDo
  <2> QED
    BY <1>1, <1>8, <2>1 DEF CancelPending, Cover
<1>9. CASE Exists("attendee", s) /\ \E o \in bs : o.rid = d
  <2>1. PICK o \in bs : o.rid = d /\ Put("attendee", s, DeleteOccurrence(c, bs, o))
    BY <1>5, <1>9
  <2>2. c \in Row /\ o \in Detached
    BY <1>1, <1>2, <1>3, <1>9, RowsType DEF Copy
  <2>3. PICK w \in Row : /\ DeleteOccurrence(c, bs, o) = <<w, bs \ {o}>> /\ w.ex = c.ex \cup {o.rid}
                         /\ w.start = c.start /\ w.until = c.until /\ w.count = c.count /\ w.st = c.st
    BY <1>3, <2>2, DeleteIs
  <2>4. Put("attendee", s, <<w, bs \ {o}>>) /\ w \in Row \cup {NoEvent} /\ bs \ {o} \in SUBSET Detached
    BY <1>3, <2>1, <2>3
  <2>5. /\ \A p \in People, y \in Series : p # "attendee" \/ y # s => master'[p][y] = master[p][y] /\ occ'[p][y] = occ[p][y]
        /\ Copy(s)' = w /\ CopyOcc(s)' = bs \ {o} /\ Exists("attendee", s)'
    <3>1. /\ master'["attendee"][s] = w /\ occ'["attendee"][s] = bs \ {o}
          /\ \A x \in People, y \in Series : x # "attendee" \/ y # s => master'[x][y] = master[x][y] /\ occ'[x][y] = occ[x][y]
      BY <1>2, <1>3, <2>4, PutIs
    <3> QED
      BY <3>1, RowsAre DEF Copy, CopyOcc, Exists
  <2>6. ASSUME Tidy(s), Tidy(s)', Cover(s), ToDo(r, s) PROVE Settled(s)' /\ (Had(s, "twin")' \/ Single(CopyOcc(s)'))
    <3>1. /\ Exists("attendee", s) /\ SameRule(m, c) /\ NoMoreGaps(m, c, bs) /\ Seen(os, bs, 0, {})
          /\ Placed(os, bs, 0, Left(s) \cup {d}) /\ d \in m.ex /\ (\A x \in os : x.rid # d)
          /\ Had(s, "twin") \/ Single(bs)
      BY <1>8, <2>6
    <3>2. PICK bs2 : bs2 = bs \ {o}
      OBVIOUS
    <3>3. SameRule(m, w)
      BY <2>3, <3>1 DEF SameRule
    <3>4. NoMoreGaps(m, w, bs2)
      BY <2>1, <2>3, <3>1, <3>2 DEF NoMoreGaps
    <3>5. \A x \in bs : x.rid \in Int /\ x.rid + 0 = x.rid
      <4>1. ASSUME NEW x \in bs PROVE x.rid \in Int /\ x.rid + 0 = x.rid
        <5>1. x.rid \in Int
          BY <1>3 DEF Detached
        <5> QED
          BY <5>1
      <4> QED
        BY <4>1
    <3>6. Seen(os, bs2, 0, {})
      <4>1. ASSUME NEW x \in os PROVE \E y \in bs2 : x.rid = y.rid + 0 /\ x.at = y.at + 0
        <5>1. PICK y \in bs : x.rid = y.rid + 0 /\ x.at = y.at + 0
          BY <3>1 DEF Seen
        <5>2. y # o
          BY <2>1, <3>1, <3>5, <5>1
        <5> QED
          BY <3>2, <5>1, <5>2
      <4> QED
        BY <4>1 DEF Seen
    <3>7. Mine(s)' = m /\ MineOcc(s)' = os
      BY <1>1, <1>2, <1>3, <2>5 DEF Mine, MineOcc
    <3>8. Left(s)' = Left(s)
      BY <1>1, <1>3, <1>7, <3>7 DEF Left
    <3>9. Placed(os, bs2, 0, Left(s))
      <4> SUFFICES ASSUME NEW y \in bs2, y.at # y.rid, ~\E x \in os : x.rid = y.rid + 0
                   PROVE  y.rid \in Left(s)
        BY DEF Placed
      <4>1. y \in bs /\ y # o /\ y.rid \in Left(s) \cup {d}
        BY <3>1, <3>2 DEF Placed
      <4>2. CASE y.rid = d
        <5>1. Had(s, "twin")
          BY <2>1, <3>1, <4>1, <4>2 DEF Single
        <5> QED
          BY <1>1, <3>1, <4>2, <5>1 DEF Left
      <4> QED
        BY <4>1, <4>2
    <3>10. Settled(s)'
      BY <2>5, <3>2, <3>3, <3>4, <3>6, <3>7, <3>8, <3>9 DEF Settled
    <3>11. Single(bs) => Single(bs2)
      BY <3>2 DEF Single
    <3> QED
      BY <1>3, <1>7, <2>5, <3>1, <3>2, <3>10, <3>11
  <2> QED
    BY <1>1, <1>3, <1>4, <1>6, <1>7, <1>9, <2>5, <2>6, CopyWritten
<1>10. CASE ~(Exists("attendee", s) /\ \E o \in bs : o.rid = d)
  <2>1. master' = master /\ occ' = occ
    BY <1>5, <1>10
  <2>2. /\ \A p \in People, y \in Series : p # "attendee" \/ y # s => master'[p][y] = master[p][y] /\ occ'[p][y] = occ[p][y]
        /\ ~Exists("attendee", s) /\ CopyOcc(s) = {} => ~Exists("attendee", s)' /\ CopyOcc(s)' = {}
        /\ Mine(s)' = m /\ Copy(s)' = c /\ MineOcc(s)' = os /\ CopyOcc(s)' = bs /\ (Exists("attendee", s)' <=> Exists("attendee", s))
    BY <1>1, <2>1 DEF Exists, CopyOcc, Mine, Copy, MineOcc
  <2>3. ASSUME Tidy(s), Tidy(s)', Cover(s), ToDo(r, s) PROVE Settled(s)' /\ (Had(s, "twin")' \/ Single(CopyOcc(s)'))
    <3>1. /\ Exists("attendee", s) /\ SameRule(m, c) /\ NoMoreGaps(m, c, bs) /\ Seen(os, bs, 0, {})
          /\ Placed(os, bs, 0, Left(s) \cup {d})
          /\ Had(s, "twin") \/ Single(bs)
      BY <1>8, <2>3
    <3>2. Placed(os, bs, 0, Left(s))
      BY <1>10, <3>1 DEF Placed
    <3>3. Left(s)' = Left(s)
      BY <1>1, <1>3, <1>7, <2>2 DEF Left
    <3> QED
      BY <1>3, <1>7, <2>2, <3>1, <3>2, <3>3 DEF Settled
  <2> QED
    BY <1>1, <1>3, <1>4, <1>6, <1>7, <2>2, <2>3, CopyWritten
<1> QED
  BY <1>9, <1>10

-----------------------------------------------------------------------------
(* The series is deleted; a propagation fails                              *)

LEMMA CommitDeleteCovers ==
  ASSUME CopyInv, OwnInv', NEW r \in Requests, req[r].at = "commit", CommitDelete(r)
  PROVE  CopyInv'
<1>1. PICK p, s : p = req[r].who /\ s = req[r].s
  OBVIOUS
<1>2. /\ CalTyped /\ CalTyped' /\ req[r] \in Asked /\ req[r].s \in Series /\ req[r].who \in People
      /\ "organizer" \in People /\ "attendee" \in People
  BY RequestIs
<1>3. p \in People /\ s \in Series /\ NoEvent \in Row \cup {NoEvent} /\ {} \in SUBSET Detached
  BY <1>1, <1>2
<1>4. /\ req[r].op \in {"delete", "drop"} /\ Put(p, s, <<NoEvent, {}>>)
      /\ Went(r, IF p = "organizer" THEN "spread" ELSE "done")
      /\ marks' = IF p = "attendee" THEN marks \cup {<<s, "own">>} ELSE marks
  BY <1>1 DEF CommitDelete, MarkIf
<1>5. /\ master'[p][s] = NoEvent /\ occ'[p][s] = {}
      /\ \A x \in People, y \in Series : x # p \/ y # s => master'[x][y] = master[x][y] /\ occ'[x][y] = occ[x][y]
  BY <1>2, <1>3, <1>4, PutIs
<1>6. /\ marks \subseteq marks' /\ \A t : \A y \in Series \ {s} : Had(y, t)' <=> Had(y, t)
      /\ p = "attendee" => Had(s, "own")'
  BY <1>4 DEF Had
<1>7. CASE p = "attendee"
  <2>1. ~Tidy(s)'
    BY <1>6, <1>7 DEF Tidy, Clean, Had
  <2>2. /\ Exists("organizer", s)' <=> Exists("organizer", s)
        /\ Mine(s)' = Mine(s) /\ MineOcc(s)' = MineOcc(s)
    BY <1>2, <1>3, <1>5, <1>7 DEF Exists, Mine, MineOcc
  <2>3. \A x \in People, y \in Series \ {s} : master'[x][y] = master[x][y] /\ occ'[x][y] = occ[x][y]
    BY <1>5
  <2>4. Went(r, "done")
    BY <1>4, <1>7
  <2> QED
    BY <1>1, <1>3, <1>6, <1>7, <2>1, <2>2, <2>3, <2>4, AttendeeWrites
<1>8. CASE p = "organizer"
  <2>1. /\ Asking(r) /\ Past(r)' /\ req'[r].at = "spread" /\ req'[r].s = req[r].s
        /\ req'[r].op = req[r].op /\ req'[r].who = req[r].who
    <3>1. Went(r, "spread")
      BY <1>4, <1>8
    <3> QED
      BY <1>2, <3>1, WentStep
  <2>2. ASSUME NEW y \in Series, y # s PROVE Alone(y)
    BY <1>5, <1>6, <2>2 DEF Alone
  <2>3. Step(r)
    BY <1>1, <1>6, <2>1, <2>2 DEF Step
  <2>4. ~Exists("organizer", s)'
    BY <1>5, <1>8 DEF Exists
  <2>5. \A y \in Series \ {s} : /\ Mine(y)' = Mine(y) /\ MineOcc(y)' = MineOcc(y)
                                /\ Exists("organizer", y)' <=> Exists("organizer", y)
    BY <1>2, <1>5 DEF Mine, MineOcc, Exists
  <2>6. \A y \in Series : CopyOcc(y)' = CopyOcc(y) /\ (Exists("attendee", y)' <=> Exists("attendee", y))
    BY <1>2, <1>5, <1>8 DEF CopyOcc, Exists
  <2>7. ASSUME NEW y \in Series, Tidy(y)' PROVE Drifts(r, y)
    <3>1. y # s /\ Exists("organizer", y)
      BY <2>4, <2>5, <2>7 DEF Tidy
    <3> QED
      BY <1>2, <2>5, <3>1, DriftsNot
  <2>8. \A y \in Series : \A x \in MineOcc(y)' : \E o \in MineOcc(y) : o.id = x.id
    <3>1. MineOcc(s)' = {}
      BY <1>5, <1>8 DEF MineOcc
    <3> QED
      BY <2>5, <3>1
  <2>9. \A y \in Series : Exists("organizer", y)' => Exists("organizer", y)
    BY <2>4, <2>5
  <2>10. Tame(r)
    BY <1>4, <2>6, <2>7, <2>8, <2>9 DEF Tame
  <2>11. ~Tidy(s)'
    BY <2>4 DEF Tidy
  <2>12. \A y \in Series : y = req[r].s \/ (req[r].op = "split" /\ y = r + 1) => (Tidy(y)' => Cover(y)')
    BY <1>1, <1>4, <2>11
  <2> QED
    BY <2>3, <2>10, <2>12, CopyStays
<1> QED
  BY <1>3, <1>7, <1>8 DEF People

LEMMA SpreadDeleteCovers ==
  ASSUME CopyInv, OwnInv', NEW r \in Requests, req[r].at = "spread", SpreadDelete(r)
  PROVE  CopyInv'
<1>1. PICK s : s = req[r].s
  OBVIOUS
<1>2. /\ CalTyped /\ CalTyped' /\ req[r].s \in Series /\ "organizer" \in People /\ "attendee" \in People
  BY RequestIs
<1>3. s \in Series /\ NoEvent \in Row \cup {NoEvent} /\ {} \in SUBSET Detached
  BY <1>1, <1>2
<1>4. /\ req[r].op = "delete" /\ req[r].who = "organizer" /\ Put("attendee", s, <<NoEvent, {}>>)
      /\ Went(r, "done") /\ marks' = marks
  BY <1>1 DEF SpreadDelete, Ready
<1>5. /\ master'["attendee"][s] = NoEvent /\ occ'["attendee"][s] = {}
      /\ \A x \in People, y \in Series : x # "attendee" \/ y # s => master'[x][y] = master[x][y] /\ occ'[x][y] = occ[x][y]
  BY <1>2, <1>3, <1>4, PutIs
<1>6. ~Exists("attendee", s)' /\ CopyOcc(s)' = {}
  BY <1>5 DEF Exists, CopyOcc
<1>7. /\ Asking(r) /\ req'[r].at = "done"
      /\ req'[r].s = 1 /\ req'[r].op = "retitle" /\ req'[r].who = "organizer"
  BY <1>2, <1>4, WentStep
<1>8. marks \subseteq marks' /\ \A t : \A y \in Series : Had(y, t)' <=> Had(y, t)
  BY <1>4 DEF Had
<1>9. ~ToDo(r, s)
  BY <1>4 DEF ToDo
<1> QED
  BY <1>1, <1>3, <1>4, <1>5, <1>6, <1>7, <1>8, <1>9, CopyWritten

LEMMA SpreadFailsCovers ==
  ASSUME CopyInv, OwnInv', NEW r \in Requests, req[r].at = "spread", SpreadFails(r)
  PROVE  CopyInv'
<1>1. /\ CalTyped /\ CalTyped' /\ req[r].s \in Series /\ r + 1 \in Series /\ "organizer" \in People /\ "attendee" \in People
  BY RequestIs, CalConstants
<1>2. /\ Went(r, "done") /\ marks' = marks \cup {<<req[r].s, "lost">>, <<r + 1, "lost">>}
      /\ master' = master /\ occ' = occ
  BY DEF SpreadFails
<1>3. /\ Asking(r) /\ Past(r)' /\ req'[r].at = "done"
      /\ req'[r].s = 1 /\ req'[r].op = "retitle" /\ req'[r].who = "organizer"
  BY <1>1, <1>2, WentStep
<1>4. /\ \A y \in Series : /\ Mine(y)' = Mine(y) /\ MineOcc(y)' = MineOcc(y) /\ CopyOcc(y)' = CopyOcc(y)
                           /\ Exists("organizer", y)' <=> Exists("organizer", y)
                           /\ Exists("attendee", y)' <=> Exists("attendee", y)
  BY <1>2 DEF Mine, MineOcc, CopyOcc, Exists
<1>5. PICK s \in Series : s = req[r].s
  BY <1>1
<1>6. ASSUME NEW y \in Series, Had(y, "lost")' PROVE ~Tidy(y)'
  BY <1>6 DEF Tidy, Clean, Had
<1>7. Had(s, "lost")' /\ Had(r + 1, "lost")'
  BY <1>2, <1>5 DEF Had
<1>8. ASSUME NEW y \in Series, y # s PROVE Alone(y)
  <2>1. CASE y = r + 1
    BY <1>2, <1>6, <1>7, <2>1 DEF Alone
  <2>2. CASE y # r + 1
    BY <1>2, <1>5, <1>8, <2>2 DEF Alone, Had
  <2> QED
    BY <2>1, <2>2
<1>9. Step(r)
  BY <1>2, <1>3, <1>5, <1>8 DEF Step
<1>10. Tame(r)
  BY <1>1, <1>3, <1>4, TameCopy
<1>11. \A y \in Series : y = req[r].s \/ (req[r].op = "split" /\ y = r + 1) => (Tidy(y)' => Cover(y)')
  BY <1>5, <1>6, <1>7
<1> QED
  BY <1>9, <1>10, <1>11, CopyStays

-----------------------------------------------------------------------------
(* The attendee's answers                                                  *)

LEMMA CommitAcceptCovers ==
  ASSUME CopyInv, OwnInv', NEW r \in Requests, req[r].at = "commit", CommitAccept(r)
  PROVE  CopyInv'
<1>1. PICK s, b, new :
         /\ s = req[r].s /\ b = req[r].read
         /\ new = IF req[r].op = "accept" THEN [b EXCEPT !.st = "accepted"] ELSE b
  OBVIOUS
<1>2. /\ CalTyped /\ CalTyped' /\ req[r] \in Asked /\ req[r].s \in Series /\ req[r].read \in Row
      /\ "organizer" \in People /\ "attendee" \in People
  BY RequestIs
<1>3. s \in Series /\ b \in Row
  BY <1>1, <1>2
<1>4. new \in Row /\ SameRule(b, new) /\ new.ex = b.ex
  BY <1>1, <1>3 DEF Row, Status, SameRule
<1>5. /\ req[r].who = "attendee"
      /\ master' = IF Exists("attendee", s) THEN [master EXCEPT !["attendee"][s] = new] ELSE master
      /\ Went(r, IF req[r].op = "accept" THEN "spread" ELSE "done")
      /\ marks' = IF Outdated(r) THEN marks \cup {<<s, "stale">>} ELSE marks
      /\ occ' = occ
  BY <1>1 DEF CommitAccept, Ready, MarkIf
<1>6. PICK step \in {"spread", "done"} : Went(r, step)
  BY <1>5
<1>7. /\ \A p \in People, y \in Series : p # "attendee" \/ y # s => master'[p][y] = master[p][y]
      /\ Exists("attendee", s) => master'["attendee"][s] = new
      /\ ~Exists("attendee", s) => master' = master
  BY <1>2, <1>3, <1>5 DEF CalTyped
<1>8. /\ Exists("organizer", s)' <=> Exists("organizer", s)
      /\ Mine(s)' = Mine(s) /\ MineOcc(s)' = MineOcc(s) /\ CopyOcc(s)' = CopyOcc(s)
      /\ Exists("attendee", s)' <=> Exists("attendee", s)
  BY <1>2, <1>3, <1>4, <1>5, <1>7, RowsAre DEF Exists, Mine, MineOcc, CopyOcc
<1>9. /\ marks \subseteq marks' /\ \A t : \A y \in Series : (y # s \/ t # "stale") => (Had(y, t)' <=> Had(y, t))
      /\ Outdated(r) => Had(s, "stale")'
  BY <1>5 DEF Had
<1>10. ASSUME Tidy(s)' PROVE SameRule(Copy(s), Copy(s)') /\ Copy(s)'.ex = Copy(s).ex
  <2>1. ~Outdated(r)
    BY <1>9, <1>10 DEF Tidy, Clean, Had
  <2>2. Copy(s) = b
    BY <1>1, <1>5, <2>1 DEF Outdated, Copy
  <2> QED
    BY <1>4, <1>7, <2>2, StaysSame DEF Copy
<1>11. /\ SameRule(Mine(s), Mine(s)') /\ Within(MineOcc(s), MineOcc(s)') /\ Within(MineOcc(s)', MineOcc(s))
       /\ Distinct(MineOcc(s)) => Distinct(MineOcc(s)')
       /\ Grown(CopyOcc(s), CopyOcc(s)') /\ (Single(CopyOcc(s)) => Single(CopyOcc(s)'))
       /\ (Had(s, "twin")' <=> Had(s, "twin")) /\ (Had(s, "moved")' <=> Had(s, "moved"))
       /\ Exists("attendee", s)' <=> Exists("attendee", s)
  BY <1>3, <1>8, <1>9, StaysSame
<1>12. \A p \in People, y \in Series \ {s} : master'[p][y] = master[p][y] /\ occ'[p][y] = occ[p][y]
  BY <1>5, <1>7
<1>13. /\ \A t : \A y \in Series \ {s} : Had(y, t)' <=> Had(y, t)
       /\ Mine(s)'.start = Mine(s).start /\ Mine(s)'.ex = Mine(s).ex
       /\ \A x \in MineOcc(s)' : \E o \in MineOcc(s) : x.id = o.id /\ x.rid = o.rid
  BY <1>8, <1>9
<1>14. req[r].who = "attendee" /\ s = req[r].s /\ marks \subseteq marks' /\ (Exists("organizer", s)' <=> Exists("organizer", s))
  BY <1>1, <1>5, <1>8, <1>9
<1> QED
  BY <1>3, <1>6, <1>10, <1>11, <1>12, <1>13, <1>14, AttendeeWrites

LEMMA SpreadAcceptCovers ==
  ASSUME CopyInv, OwnInv', NEW r \in Requests, req[r].at = "spread", SpreadAccept(r)
  PROVE  CopyInv'
<1>1. PICK s, m, n : s = req[r].s /\ m = Mine(s) /\ n = [m EXCEPT !.st = "accepted"]
  OBVIOUS
<1>2. /\ CalTyped /\ CalTyped' /\ req[r] \in Asked /\ req[r].s \in Series
      /\ "organizer" \in People /\ "attendee" \in People
  BY RequestIs
<1>3. s \in Series
  BY <1>1, <1>2
<1>4. /\ req[r].who = "attendee" /\ Went(r, "done") /\ occ' = occ
      /\ IF Exists("organizer", s) THEN master' = [master EXCEPT !["organizer"][s] = n] ELSE master' = master
      /\ marks' = marks \/ marks' = marks \cup {<<s, "stale">>}
  BY <1>1, <1>2, <1>3 DEF SpreadAccept, Ready, MarkIf, Mine, CalTyped
<1>5. ASSUME Exists("organizer", s) PROVE n \in Row /\ SameRule(m, n) /\ n.ex = m.ex /\ n.start = m.start
  <2>1. m \in Row
    BY <1>1, <1>2, <1>3, <1>5, RowsType DEF Mine
  <2> QED
    BY <1>1, <2>1 DEF Row, Status, SameRule
<1>6. /\ \A p \in People, y \in Series : p # "organizer" \/ y # s => master'[p][y] = master[p][y]
      /\ Exists("organizer", s) => master'["organizer"][s] = n
      /\ ~Exists("organizer", s) => master' = master
  BY <1>2, <1>3, <1>4 DEF CalTyped
<1>7. /\ Exists("organizer", s)' <=> Exists("organizer", s)
      /\ Copy(s)' = Copy(s) /\ MineOcc(s)' = MineOcc(s) /\ CopyOcc(s)' = CopyOcc(s)
      /\ Exists("attendee", s)' <=> Exists("attendee", s)
  BY <1>2, <1>3, <1>4, <1>5, <1>6, RowsAre DEF Exists, Copy, MineOcc, CopyOcc
<1>8. SameRule(Mine(s), Mine(s)') /\ Mine(s)'.start = Mine(s).start /\ Mine(s)'.ex = Mine(s).ex
  BY <1>1, <1>5, <1>6, StaysSame DEF Mine
<1>9. marks \subseteq marks' /\ \A t : \A y \in Series : (y # s \/ t # "stale") => (Had(y, t)' <=> Had(y, t))
  BY <1>4 DEF Had
<1>10. \A p \in People, y \in Series \ {s} : master'[p][y] = master[p][y] /\ occ'[p][y] = occ[p][y]
  BY <1>4, <1>6
<1>11. /\ Within(MineOcc(s), MineOcc(s)') /\ Within(MineOcc(s)', MineOcc(s))
       /\ SameRule(Copy(s), Copy(s)')
       /\ Grown(CopyOcc(s), CopyOcc(s)')
  BY <1>7, StaysSame
<1>12. \A x \in MineOcc(s)' : \E o \in MineOcc(s) : x.id = o.id /\ x.rid = o.rid
  BY <1>7
<1>13. (Had(s, "twin")' <=> Had(s, "twin")) /\ (Had(s, "moved")' <=> Had(s, "moved"))
  BY <1>3, <1>9
<1>14. \A d \in Copy(s)'.ex : d \in Copy(s).ex \/ \E x \in CopyOcc(s)' : x.rid = d
  BY <1>7
<1>15. (Distinct(MineOcc(s)) => Distinct(MineOcc(s)')) /\ (Single(CopyOcc(s)) => Single(CopyOcc(s)'))
  BY <1>7
<1> QED
  BY <1>1, <1>3, <1>4, <1>7, <1>8, <1>9, <1>10, <1>11, <1>12, <1>13, <1>14, <1>15, AttendeeWrites

LEMMA CommitAcceptOneCovers ==
  ASSUME CopyInv, OwnInv', NEW r \in Requests, req[r].at = "commit", CommitAcceptOne(r)
  PROVE  CopyInv'
<1>1. PICK s, d, b, m, os, rows :
         /\ s = req[r].s /\ d = req[r].slot /\ b = req[r].read
         /\ m = Copy(s) /\ os = CopyOcc(s) /\ rows = GetOrCreate(m, os, b, d, <<r, 1>>)
  OBVIOUS
<1>2. /\ CalTyped /\ CalTyped' /\ req[r] \in Asked /\ req[r].s \in Series /\ req[r].read \in Row
      /\ req[r].slot \in Int
      /\ "organizer" \in People /\ "attendee" \in People
      /\ \A y \in Series : MineOcc(y) \in SUBSET Detached /\ CopyOcc(y) \in SUBSET Detached
  BY RequestIs
<1>3. s \in Series /\ d \in Int /\ b \in Row /\ os \in SUBSET Detached
  <2>1. s \in Series /\ d \in Int /\ b \in Row
    BY <1>1, <1>2
  <2> QED
    BY <1>1, <1>2, <2>1
<1>4. /\ req[r].who = "attendee" /\ marks' = marks
      /\ IF Exists("attendee", s)
         THEN Put("attendee", s, <<rows[1], Accepted(rows[2], d)>>) /\ Went(r, "spread")
         ELSE Went(r, "done") /\ UNCHANGED <<master, occ>>
  BY <1>1 DEF CommitAcceptOne, Ready, Copy, CopyOcc
<1>5. CASE ~Exists("attendee", s)
  BY <1>4, <1>5, NothingWritten DEF Had
<1>6. CASE Exists("attendee", s)
  <2>1. m \in Row
    BY <1>1, <1>2, <1>3, <1>6, RowsType DEF Copy
  <2>2. PICK w \in Row, n \in SUBSET Detached :
            /\ rows = <<w, n>> /\ \E o \in n : o.rid = d
            /\ w.start = m.start /\ w.until = m.until /\ w.count = m.count /\ w.st = m.st
            /\ \/ w = m /\ n = os
               \/ /\ w.ex = m.ex \cup {d} /\ \A o \in os : o.rid # d
                  /\ \E o \in Detached : n = os \cup {o} /\ o.rid = d /\ o.at = d /\ o.id = <<r, 1>>
    <3>1. /\ m \in Row /\ os \in SUBSET Detached /\ b \in Row /\ d \in Int /\ r \in Requests
      BY <1>3, <2>1
    <3>2. \E w \in Row, n \in SUBSET Detached : Gotten(m, os, d, r, GetOrCreate(m, os, b, d, <<r, 1>>), w, n)
      BY ONLY <3>1, GetOrCreateIs
    <3>3. PICK w \in Row, n \in SUBSET Detached : Gotten(m, os, d, r, rows, w, n)
      BY <1>1, <3>2
    <3> QED
      BY <3>3 DEF Gotten
  <2>3. PICK n2 : n2 = Accepted(n, d)
    OBVIOUS
  <2>4. /\ n2 \in SUBSET Detached /\ Within(n, n2) /\ Within(n2, n) /\ (Single(n) => Single(n2))
    BY <2>3, AcceptedIs, AcceptedKeeps
  <2>5. Put("attendee", s, <<w, n2>>) /\ w \in Row \cup {NoEvent} /\ Went(r, "spread")
    BY <1>4, <1>6, <2>2, <2>3
  <2>6. /\ master'["attendee"][s] = w /\ occ'["attendee"][s] = n2
        /\ \A x \in People, y \in Series : x # "attendee" \/ y # s => master'[x][y] = master[x][y] /\ occ'[x][y] = occ[x][y]
    BY <1>2, <1>3, <2>4, <2>5, PutIs
  <2>7. /\ Exists("organizer", s)' <=> Exists("organizer", s)
        /\ Mine(s)' = Mine(s) /\ MineOcc(s)' = MineOcc(s) /\ Copy(s)' = w /\ CopyOcc(s)' = n2
        /\ Exists("attendee", s)' <=> Exists("attendee", s)
    BY <1>2, <1>3, <1>6, <2>6, RowsAre DEF Exists, Mine, MineOcc, Copy, CopyOcc
  <2>8. SameRule(m, w)
    BY <2>2 DEF SameRule
  <2>9. os \subseteq n /\ (\A x \in n : x \in os \/ x.at = x.rid) /\ (Single(os) => Single(n))
        /\ \A e \in w.ex : e \in m.ex \/ \E x \in n : x.rid = e
    <3>1. CASE w = m /\ n = os
      BY <3>1
    <3>2. CASE /\ w.ex = m.ex \cup {d} /\ \A o \in os : o.rid # d
               /\ \E o \in Detached : n = os \cup {o} /\ o.rid = d /\ o.at = d /\ o.id = <<r, 1>>
      BY <3>2 DEF Single
    <3> QED
      BY <2>2, <3>1, <3>2
  <2>10. Grown(os, n2)
    BY <2>4, <2>9 DEF Grown, Within
  <2>11. \A e \in w.ex : e \in m.ex \/ \E x \in n2 : x.rid = e
    BY <2>4, <2>9 DEF Within
  <2>12. marks \subseteq marks' /\ \A t : \A y \in Series : Had(y, t)' <=> Had(y, t)
    BY <1>4 DEF Had
  <2>13. \A p \in People, y \in Series \ {s} : master'[p][y] = master[p][y] /\ occ'[p][y] = occ[p][y]
    BY <2>6
  <2>14. /\ SameRule(Mine(s), Mine(s)') /\ Within(MineOcc(s), MineOcc(s)') /\ Within(MineOcc(s)', MineOcc(s))
         /\ Mine(s)'.start = Mine(s).start /\ Mine(s)'.ex = Mine(s).ex
         /\ \A x \in MineOcc(s)' : \E o \in MineOcc(s) : x.id = o.id /\ x.rid = o.rid
         /\ Distinct(MineOcc(s)) => Distinct(MineOcc(s)')
    BY <2>7, StaysSame
  <2>15. /\ SameRule(Copy(s), Copy(s)') /\ Grown(CopyOcc(s), CopyOcc(s)')
         /\ \A e \in Copy(s)'.ex : e \in Copy(s).ex \/ \E x \in CopyOcc(s)' : x.rid = e
         /\ Single(CopyOcc(s)) => Single(CopyOcc(s)')
    BY <1>1, <2>4, <2>7, <2>8, <2>9, <2>10, <2>11
  <2>16. (Had(s, "twin")' <=> Had(s, "twin")) /\ (Had(s, "moved")' <=> Had(s, "moved"))
    BY <1>3, <2>12
  <2> QED
    BY <1>1, <1>3, <1>4, <2>5, <2>7, <2>12, <2>13, <2>14, <2>15, <2>16, AttendeeWrites
<1> QED
  BY <1>5, <1>6

LEMMA SpreadAcceptOneCovers ==
  ASSUME CopyInv, OwnInv', NEW r \in Requests, req[r].at = "spread", SpreadAcceptOne(r)
  PROVE  CopyInv'
<1>1. PICK s, d, os, n : s = req[r].s /\ d = req[r].slot /\ os = MineOcc(s) /\ n = Accepted(os, d)
  OBVIOUS
<1>2. /\ CalTyped /\ CalTyped' /\ req[r].s \in Series
      /\ "organizer" \in People /\ "attendee" \in People
      /\ \A y \in Series : MineOcc(y) \in SUBSET Detached
  BY RequestIs
<1>3. s \in Series /\ os \in SUBSET Detached
  BY <1>1, <1>2
<1>4. /\ n \in SUBSET Detached /\ Within(os, n) /\ Within(n, os) /\ (Distinct(os) => Distinct(n))
  BY <1>1, <1>3, AcceptedIs, AcceptedKeeps
<1>5. /\ req[r].who = "attendee" /\ Went(r, "done") /\ master' = master /\ marks' = marks
      /\ occ' = [occ EXCEPT !["organizer"][s] = n]
  BY <1>1, <1>2, <1>3 DEF SpreadAcceptOne, Ready, MineOcc, CalTyped
<1>6. /\ occ'["organizer"][s] = n
      /\ \A p \in People, y \in Series : p # "organizer" \/ y # s => occ'[p][y] = occ[p][y]
  BY <1>2, <1>3, <1>5 DEF CalTyped
<1>7. /\ Exists("organizer", s)' <=> Exists("organizer", s)
      /\ Mine(s)' = Mine(s) /\ MineOcc(s)' = n /\ Copy(s)' = Copy(s) /\ CopyOcc(s)' = CopyOcc(s)
      /\ Exists("attendee", s)' <=> Exists("attendee", s)
  BY <1>2, <1>3, <1>5, <1>6 DEF Exists, Mine, MineOcc, Copy, CopyOcc
<1>8. marks \subseteq marks' /\ \A t : \A y \in Series : Had(y, t)' <=> Had(y, t)
  BY <1>5 DEF Had
<1>9. \A p \in People, y \in Series \ {s} : master'[p][y] = master[p][y] /\ occ'[p][y] = occ[p][y]
  BY <1>5, <1>6
<1>10. /\ SameRule(Mine(s), Mine(s)') /\ Mine(s)'.start = Mine(s).start /\ Mine(s)'.ex = Mine(s).ex
       /\ SameRule(Copy(s), Copy(s)') /\ Grown(CopyOcc(s), CopyOcc(s)')
       /\ \A e \in Copy(s)'.ex : e \in Copy(s).ex \/ \E x \in CopyOcc(s)' : x.rid = e
       /\ Single(CopyOcc(s)) => Single(CopyOcc(s)')
  BY <1>7, StaysSame
<1>11. /\ Within(MineOcc(s), MineOcc(s)') /\ Within(MineOcc(s)', MineOcc(s))
       /\ Distinct(MineOcc(s)) => Distinct(MineOcc(s)')
  BY <1>1, <1>4, <1>7
<1>12. \A x \in MineOcc(s)' : \E o \in MineOcc(s) : x.id = o.id /\ x.rid = o.rid
  BY <1>11 DEF Within
<1>13. (Had(s, "twin")' <=> Had(s, "twin")) /\ (Had(s, "moved")' <=> Had(s, "moved"))
  BY <1>3, <1>8
<1> QED
  BY <1>1, <1>3, <1>5, <1>7, <1>8, <1>9, <1>10, <1>11, <1>12, <1>13, AttendeeWrites

-----------------------------------------------------------------------------
(* The series is split                                                     *)

LEMMA SplitWrites ==
  ASSUME CalTyped, NEW r \in Requests, CommitSplit(r), req[r].slot \in Nat, NEW s \in Series, s = req[r].s,
         s # r + 1
  PROVE  /\ Exists("organizer", s)' <=> Exists("organizer", s)
         /\ Exists("organizer", s) =>
               /\ Mine(s)' \in Row /\ Mine(s)'.start = Mine(s).start /\ Mine(s)'.ex = Mine(s).ex
               /\ Mine(s)'.until = req[r].slot - 1
               /\ MineOcc(s)' = {o \in MineOcc(s) : o.rid < req[r].slot}
         /\ MineOcc(s)' \subseteq MineOcc(s)
         /\ req[r].op = "split" => Mine(r + 1)' = SplitSeries(req[r].read, req[r].slot)
         /\ \A y \in Series : y # s /\ ~(y = r + 1 /\ req[r].op = "split") => Mine(y)' = Mine(y)
         /\ \A y \in Series \ {s} : MineOcc(y)' = MineOcc(y)
         /\ \A y \in Series : Copy(y)' = Copy(y) /\ CopyOcc(y)' = CopyOcc(y)
<1> DEFINE d == req[r].slot
           b == req[r].read
           there == Exists("organizer", s)
           cut == SplitEvent(Mine(s), MineOcc(s), d)
           old == IF there THEN cut ELSE <<NoEvent, MineOcc(s)>>
           new == SplitSeries(b, d)
<1>1. /\ s \in Series /\ b \in Row /\ d \in Nat /\ MineOcc(s) \in SUBSET Detached
      /\ "organizer" \in People /\ "attendee" \in People /\ r + 1 \in Series
  BY RowsType, CalConstants DEF CalTyped, Asked, MineOcc
<1>2. /\ master' = [master EXCEPT !["organizer"] = Continued(r, "organizer", old[1], new)]
      /\ occ' = [occ EXCEPT !["organizer"][s] = old[2]]
  BY DEF CommitSplit, Mine, MineOcc
<1> HIDE DEF d, b, there, cut, old, new
<1>3. PICK x, os : x = old[1] /\ os = old[2]
  OBVIOUS
<1>4. /\ there => /\ x \in Row /\ x.start = Mine(s).start /\ x.ex = Mine(s).ex /\ x.until = d - 1
                  /\ os = {o \in MineOcc(s) : o.rid < d}
      /\ ~there => x = NoEvent /\ os = MineOcc(s)
  <2>1. CASE there
    <3>1. Mine(s) \in Row
      BY <1>1, <2>1, RowsType DEF there, Mine
    <3>2. PICK w \in Row : /\ cut = <<w, {o \in MineOcc(s) : o.rid < d}>>
                           /\ w.start = Mine(s).start /\ w.ex = Mine(s).ex /\ w.until = d - 1
      BY <1>1, <3>1, CutIs DEF cut
    <3>3. x = w /\ os = {o \in MineOcc(s) : o.rid < d}
      BY <1>3, <2>1, <3>2 DEF old
    <3> QED
      BY <2>1, <3>2, <3>3
  <2>2. CASE ~there
    BY <1>3, <2>2 DEF old
  <2> QED
    BY <2>1, <2>2
<1>5. /\ master'["organizer"][s] = x /\ master'["attendee"] = master["attendee"]
      /\ req[r].op = "split" => master'["organizer"][r + 1] = new
      /\ \A y \in Series : y # s /\ ~(y = r + 1 /\ req[r].op = "split") => master'["organizer"][y] = master["organizer"][y]
  <2>1. PICK f : f = Continued(r, "organizer", x, new)
    OBVIOUS
  <2>2. f = [y \in Series |-> IF y = s THEN x
                              ELSE IF y = r + 1 /\ req[r].op = "split" THEN new
                              ELSE master["organizer"][y]]
    BY <2>1 DEF Continued
  <2>3. master' = [master EXCEPT !["organizer"] = f]
    BY <1>2, <1>3, <2>1
  <2>4. master'["organizer"] = f /\ master'["attendee"] = master["attendee"]
    BY <1>1, <2>3 DEF CalTyped
  <2> QED
    BY <1>1, <2>2, <2>4
<1>6. /\ occ'["organizer"][s] = os /\ occ'["attendee"] = occ["attendee"]
      /\ \A y \in Series \ {s} : occ'["organizer"][y] = occ["organizer"][y]
  <2>1. occ' = [occ EXCEPT !["organizer"][s] = os]
    BY <1>2, <1>3
  <2> QED
    BY <1>1, <2>1 DEF CalTyped
<1>7. Mine(s)' = x /\ MineOcc(s)' = os
  BY <1>5, <1>6 DEF Mine, MineOcc
<1>8. Exists("organizer", s)' <=> Exists("organizer", s)
  <2>1. CASE there
    BY <1>4, <1>5, <2>1, RowsAre DEF Exists, there
  <2>2. CASE ~there
    BY <1>4, <1>5, <2>2 DEF Exists, there
  <2> QED
    BY <2>1, <2>2
<1>9. Exists("organizer", s) =>
               /\ Mine(s)' \in Row /\ Mine(s)'.start = Mine(s).start /\ Mine(s)'.ex = Mine(s).ex
               /\ Mine(s)'.until = d - 1
               /\ MineOcc(s)' = {o \in MineOcc(s) : o.rid < d}
  BY <1>4, <1>7 DEF there
<1>10. MineOcc(s)' \subseteq MineOcc(s)
  BY <1>4, <1>7
<1>11. /\ req[r].op = "split" => Mine(r + 1)' = new
       /\ \A y \in Series : y # s /\ ~(y = r + 1 /\ req[r].op = "split") => Mine(y)' = Mine(y)
       /\ \A y \in Series \ {s} : MineOcc(y)' = MineOcc(y)
       /\ \A y \in Series : Copy(y)' = Copy(y) /\ CopyOcc(y)' = CopyOcc(y)
  BY <1>5, <1>6 DEF Mine, MineOcc, Copy, CopyOcc
<1> QED
  BY <1>8, <1>9, <1>10, <1>11 DEF d, b, new

LEMMA SplitAsks ==
  ASSUME CalTyped, CalTyped', NEW r \in Requests, CommitSplit(r), NEW s \in Series, s = req[r].s
  PROVE  /\ Asking(r) /\ req'[r].at = "spread" /\ req'[r].s = s /\ req'[r].op = req[r].op /\ req'[r].who = "organizer"
         /\ req'[r].rows = MineOcc(s) \ MineOcc(s)' /\ req'[r].new = SplitSeries(req[r].read, req[r].slot)
         /\ req[r].who = "organizer" /\ req[r].op \in {"split", "truncate"}
         /\ marks \subseteq marks'
         /\ Crossed(r) => Had(s, "stale")' /\ Had(r + 1, "stale")'
         /\ \A y \in Series \ {r + 1} : \A t : y # s \/ t # "stale" => (Had(y, t)' <=> Had(y, t))
<1> DEFINE cut == SplitEvent(Mine(s), MineOcc(s), req[r].slot)
           old == IF Exists("organizer", s) THEN cut ELSE <<NoEvent, MineOcc(s)>>
           back == IF Exists("organizer", s) THEN cut[1] ELSE req[r].read
<1>1. /\ occ' = [occ EXCEPT !["organizer"][s] = old[2]]
      /\ req' = [req EXCEPT ![r].at = "spread", ![r].rows = MineOcc(s) \ old[2],
                            ![r].read = IF Exists("organizer", s) THEN cut[1] ELSE @,
                            ![r].new = SplitSeries(req[r].read, req[r].slot)]
      /\ marks' = marks \cup {<<r + 1, m>> : m \in {m \in Troubles : <<s, m>> \in marks}}
                        \cup (IF Crossed(r) THEN {<<s, "stale">>, <<r + 1, "stale">>} ELSE {})
      /\ req[r].at = "commit" /\ req[r].who = "organizer" /\ req[r].op \in {"split", "truncate"}
  BY DEF CommitSplit, Ready, Mine, MineOcc
<1>2. req[r] \in Asked /\ "organizer" \in People
  BY CalConstants DEF CalTyped
<1> HIDE DEF cut
<1>3. PICK os, b, gap, n : /\ os = old[2] /\ b = back /\ gap = MineOcc(s) \ os
                           /\ n = SplitSeries(req[r].read, req[r].slot)
  OBVIOUS
<1> HIDE DEF old
<1>4. MineOcc(s)' = os
  BY <1>1, <1>2, <1>3 DEF CalTyped, MineOcc
<1>5. PICK v : v = [req[r] EXCEPT !.at = "spread", !.rows = gap, !.read = b, !.new = n]
  OBVIOUS
<1>6. req' = [req EXCEPT ![r] = v]
  <2>1. req \in [Requests -> Asked]
    BY DEF CalTyped
  <2> QED
    BY <1>1, <1>2, <1>3, <1>5, <2>1 DEF Asked
<1>7. req'[r] = v /\ \A q \in Requests \ {r} : req'[q] = req[q]
  BY <1>6 DEF CalTyped
<1>8. v.at = "spread" /\ v.s = s /\ v.op = req[r].op /\ v.who = req[r].who /\ v.rows = gap /\ v.new = n
  BY <1>2, <1>5 DEF Asked
<1>9. PICK T, U : T = {m \in Troubles : <<s, m>> \in marks} /\ U = {<<r + 1, m>> : m \in T}
  OBVIOUS
<1>10. marks' = marks \cup U \cup (IF Crossed(r) THEN {<<s, "stale">>, <<r + 1, "stale">>} ELSE {})
  BY <1>1, <1>9
<1>11. Crossed(r) => Had(s, "stale")' /\ Had(r + 1, "stale")'
  BY <1>10 DEF Had
<1>12. ASSUME NEW y \in Series \ {r + 1}, NEW t, y # s \/ t # "stale" PROVE Had(y, t)' <=> Had(y, t)
  <2>1. <<y, t>> \notin U
    BY <1>9
  <2> QED
    BY <1>10, <1>12, <2>1 DEF Had
<1>13. marks \subseteq marks'
  BY <1>10
<1>14. Asking(r)
  BY <1>7 DEF Asking, CalTyped
<1> QED
  BY <1>1, <1>3, <1>4, <1>7, <1>8, <1>11, <1>12, <1>13, <1>14

LEMMA CommitSplitCovers ==
  ASSUME CopyInv, OwnInv', NEW r \in Requests, req[r].at = "commit", CommitSplit(r)
  PROVE  CopyInv'
<1>1. PICK s, d : s = req[r].s /\ d = req[r].slot
  OBVIOUS
<1>2. /\ CalTyped /\ CalTyped' /\ req[r] \in Asked /\ req[r].s \in Series /\ req[r].read \in Row
      /\ \A y \in Series : MineOcc(y) \in SUBSET Detached /\ CopyOcc(y) \in SUBSET Detached
      /\ r + 1 \in Series /\ "organizer" \in People /\ "attendee" \in People
  BY RequestIs, CalConstants
<1>3. /\ Unborn(r) /\ req[r].op \in {"split", "truncate"} /\ req[r].who = "organizer"
  BY DEF CopyInv, CommitSplit, Ready
<1>4. /\ s \in Series /\ s # r + 1 /\ d \in Dates(req[r].read)
      /\ \A p \in People : ~Exists(p, r + 1) /\ occ[p][r + 1] = {}
      /\ \A q \in Requests : req[q].s # r + 1
  BY <1>1, <1>2, <1>3 DEF Unborn, CopyInv
<1>5. d \in Nat
  BY <1>2, <1>4, DatesAre
<1>6. /\ Exists("organizer", s)' <=> Exists("organizer", s)
      /\ Exists("organizer", s) =>
            /\ Mine(s)' \in Row /\ Mine(s)'.start = Mine(s).start /\ Mine(s)'.ex = Mine(s).ex
            /\ Mine(s)'.until = d - 1
            /\ MineOcc(s)' = {o \in MineOcc(s) : o.rid < d}
      /\ MineOcc(s)' \subseteq MineOcc(s)
      /\ req[r].op = "split" => Mine(r + 1)' = SplitSeries(req[r].read, d)
      /\ \A y \in Series : y # s /\ ~(y = r + 1 /\ req[r].op = "split") => Mine(y)' = Mine(y)
      /\ \A y \in Series \ {s} : MineOcc(y)' = MineOcc(y)
      /\ \A y \in Series : Copy(y)' = Copy(y) /\ CopyOcc(y)' = CopyOcc(y)
  BY <1>1, <1>2, <1>4, <1>5, SplitWrites
<1>7. /\ Asking(r) /\ req'[r].at = "spread" /\ req'[r].s = s /\ req'[r].op = req[r].op /\ req'[r].who = "organizer"
      /\ req'[r].rows = MineOcc(s) \ MineOcc(s)' /\ req'[r].new = SplitSeries(req[r].read, d)
      /\ marks \subseteq marks'
      /\ Crossed(r) => Had(s, "stale")' /\ Had(r + 1, "stale")'
      /\ \A y \in Series \ {r + 1} : \A t : y # s \/ t # "stale" => (Had(y, t)' <=> Had(y, t))
  BY <1>1, <1>2, <1>4, SplitAsks
<1>8. /\ \A y \in Series : Exists("attendee", y)' <=> Exists("attendee", y)
      /\ \A y \in Series : y # s /\ ~(y = r + 1 /\ req[r].op = "split") =>
             (Exists("organizer", y)' <=> Exists("organizer", y))
  BY <1>6 DEF Exists, Mine, Copy
<1>9. ASSUME NEW y \in Series, y # s, ~(req[r].op = "split" /\ y = r + 1) PROVE Alone(y)
  <2>1. \A p \in People : master'[p][y] = master[p][y] /\ occ'[p][y] = occ[p][y]
    BY <1>6, <1>9 DEF Mine, MineOcc, Copy, CopyOcc, People
  <2>2. Tidy(y)' => \A t \in Troubles : Had(y, t)' <=> Had(y, t)
    <3>1. CASE y = r + 1
      <4>1. ~Exists("organizer", y)'
        BY <1>2, <1>4, <1>8, <1>9, <3>1
      <4> QED
        BY <4>1 DEF Tidy
    <3>2. CASE y # r + 1
      BY <1>7, <1>9, <3>2
    <3> QED
      BY <3>1, <3>2
  <2> QED
    BY <2>1, <2>2 DEF Alone
<1>10. Step(r)
  BY <1>1, <1>3, <1>7, <1>9 DEF Step, Past
<1>11. Tame(r)
  <2>1. ASSUME NEW y \in Series, y # r + 1, Exists("organizer", y)'
        PROVE  Exists("organizer", y) /\ Drifts(r, y)
    <3>1. Exists("organizer", y)
      BY <1>6, <1>8, <2>1
    <3>2. Mine(y)'.start = Mine(y).start /\ Mine(y).ex \subseteq Mine(y)'.ex
      BY <1>6, <2>1, <3>1
    <3>3. \A x \in MineOcc(y)' : \E o \in MineOcc(y) : x.id = o.id /\ x.rid = o.rid
      BY <1>6
    <3> QED
      BY <1>2, <3>1, <3>2, <3>3, DriftsNot
  <2>2. \A y \in Series : y # r + 1 \/ req[r].at = "spread" =>
          /\ Exists("organizer", y)' => Exists("organizer", y)
          /\ Tidy(y)' => Drifts(r, y)
    BY <2>1 DEF Tidy
  <2>3. \A y \in Series : \A x \in MineOcc(y)' : x.id[1] = r \/ \E o \in MineOcc(y) : o.id = x.id
    BY <1>6
  <2> QED
    BY <1>2, <1>6, <1>8, <2>2, <2>3 DEF Tame
<1>12. ASSUME Tidy(s)' PROVE Cover(s)'
  <2>1. Tidy(s) /\ ~Crossed(r)
    BY <1>4, <1>6, <1>7, <1>12, TidyBefore
  <2>2. Mine(s) = req[r].read /\ \A q \in Requests \ {r} : ~Pending(q, s)
    BY <1>1, <1>3, <2>1, NoneCrosses DEF Mine
  <2>3. Cover(s) /\ ~Pending(r, s) /\ Exists("organizer", s)
    BY <1>4, <2>1 DEF CopyInv, Pending, Tidy
  <2>4. Settled(s)
    BY <2>2, <2>3 DEF Cover
  <2>5. PICK os, os2, bs, m2 : os = MineOcc(s) /\ os2 = MineOcc(s)' /\ bs = CopyOcc(s) /\ m2 = Mine(s)'
    OBVIOUS
  <2>6. /\ m2 \in Row /\ m2.ex = Mine(s).ex /\ m2.until = d - 1 /\ os2 = {o \in os : o.rid < d}
        /\ os \in SUBSET Detached /\ bs \in SUBSET Detached /\ CopyOcc(s)' = bs
    BY <1>2, <1>4, <1>6, <2>3, <2>5
  <2>7. (Had(s, "twin")' <=> Had(s, "twin")) /\ (Had(s, "moved")' <=> Had(s, "moved"))
    BY <1>4, <1>7
  <2>8. Left(s)' = Left(s)
    BY <2>5, <2>6, <2>7 DEF Left
  <2>9. PICK gap, rids : gap = os \ os2 /\ rids = {x.rid : x \in gap}
    OBVIOUS
  <2>10. \A x \in gap : x.rid \in Int /\ x.rid >= d
    BY <1>5, <2>6, <2>9 DEF Detached
  <2>11. rids \cap Dates(m2) = {}
    <3>1. m2.until # NoTime
      BY <1>5, <2>6 DEF NoTime
    <3>2. \A t \in Dates(m2) : t \in Nat /\ t <= d - 1
      BY <2>6, <3>1, DatesAre
    <3>3. \A t \in rids : t \in Int /\ t >= d
      BY <2>9, <2>10
    <3> QED
      BY <1>5, <3>2, <3>3
  <2>12. \A o \in os2 : o.rid \notin rids
    <3>1. \A o \in os2 : o.rid \in Int /\ o.rid < d
      BY <2>6 DEF Detached
    <3>2. \A t \in rids : t \in Int /\ t >= d
      BY <2>9, <2>10
    <3> QED
      BY <1>5, <3>1, <3>2
  <2>13. Seen(os2, bs, 0, {})
    BY <2>4, <2>5, <2>6 DEF Seen, Settled
  <2>14. Placed(os2, bs, 0, Left(s) \cup rids)
    <3> SUFFICES ASSUME NEW b \in bs, b.at # b.rid, b.rid \notin Left(s), NEW o \in os, o.rid = b.rid + 0
                 PROVE  (\E x \in os2 : x.rid = b.rid + 0) \/ b.rid \in rids
      BY <2>4, <2>5 DEF Settled, Placed
    <3>1. b.rid \in Int
      BY <2>6 DEF Detached
    <3>2. b.rid + 0 = b.rid
      BY <3>1
    <3>3. CASE o \in os2
      BY <3>3
    <3>4. CASE o \notin os2
      BY <2>9, <3>2, <3>4
    <3> QED
      BY <3>3, <3>4
  <2>15. ~Had(s, "moved") => rids \subseteq m2.ex
    BY <2>3, <2>5, <2>6, <2>9 DEF Cover
  <2>16. req'[r].rows = gap /\ Exists("attendee", s)'
    BY <1>4, <1>7, <1>8, <2>4, <2>5, <2>9 DEF Settled
  <2>17. CutPending(r, s)'
    BY <2>5, <2>6, <2>7, <2>8, <2>9, <2>11, <2>12, <2>13, <2>14, <2>15, <2>16 DEF CutPending
  <2>18. ToDo(r, s)'
    BY <1>3, <1>7, <2>17 DEF ToDo
  <2>19. Distinct(os2) /\ (Had(s, "twin") \/ Single(bs)) /\ (Had(s, "moved") \/ \A o \in os2 : o.rid \in m2.ex)
    BY <2>3, <2>5, <2>6 DEF Cover, Distinct
  <2>20. Pending(r, s)' /\ \A q \in Requests \ {r} : ~Pending(q, s)'
    BY <1>4, <1>7, <2>2, OthersPend DEF Pending
  <2> QED
    BY <2>5, <2>6, <2>7, <2>18, <2>19, <2>20 DEF Cover
<1>13. ASSUME req[r].op = "split" PROVE Cover(r + 1)'
  <2>1. MineOcc(r + 1)' = {} /\ CopyOcc(r + 1)' = {}
    BY <1>2, <1>4, <1>6 DEF MineOcc, CopyOcc
  <2>2. Mine(r + 1)' = req'[r].new
    BY <1>6, <1>7, <1>13
  <2>3. NewPending(r, r + 1)'
    BY <2>1, <2>2, StaysSame DEF NewPending
  <2>4. ToDo(r, r + 1)'
    BY <1>4, <1>7, <1>13, <2>3 DEF ToDo
  <2>5. Pending(r, r + 1)'
    BY <1>7, <1>13 DEF Pending
  <2>6. ASSUME NEW q \in Requests \ {r} PROVE ~Pending(q, r + 1)'
    <3>1. q + 1 # r + 1 /\ req[q].s # r + 1 /\ req'[q] = req[q]
      BY <1>4, <1>7, <2>6, CalConstants DEF Asking
    <3> QED
      BY <3>1 DEF Pending
  <2> QED
    BY <2>1, <2>4, <2>5, <2>6 DEF Cover, Distinct, Single
<1>14. \A y \in Series : y = req[r].s \/ (req[r].op = "split" /\ y = r + 1) => (Tidy(y)' => Cover(y)')
  BY <1>1, <1>12, <1>13
<1> QED
  BY <1>10, <1>11, <1>14, CopyStays

(* The rows of the copy for the slots of the organizer's deleted rows, and *)
(* what is left of the copy's rows.                                        *)
Hit(r, s) == {b \in CopyOcc(s) : b.rid \in {o.rid : o \in req[r].rows}}
Elder(r, s, b) == {x \in Hit(r, s) : x.rid = b.rid /\ x.id[1] < b.id[1]}
Kept(r, s) ==
    (CopyOcc(s) \ Hit(r, s)) \cup
        {b \in Hit(r, s) : NoMoreThan({x \in req[r].rows : x.rid = b.rid}, Elder(r, s, b))}

LEMMA KeptIs ==
  ASSUME NEW r, NEW s
  PROVE  /\ Kept(r, s) \subseteq CopyOcc(s) /\ CopyOcc(s) \ Hit(r, s) \subseteq Kept(r, s)
         /\ \A b \in Kept(r, s) \cap Hit(r, s) : \E x \in Hit(r, s) : x.rid = b.rid /\ x.id[1] < b.id[1]
<1>1. Kept(r, s) \subseteq CopyOcc(s) /\ CopyOcc(s) \ Hit(r, s) \subseteq Kept(r, s)
  BY DEF Kept, Hit
<1>2. ASSUME NEW b \in Kept(r, s) \cap Hit(r, s)
      PROVE  \E x \in Hit(r, s) : x.rid = b.rid /\ x.id[1] < b.id[1]
  <2>1. PICK X, Y : X = {x \in req[r].rows : x.rid = b.rid} /\ Y = Elder(r, s, b)
    OBVIOUS
  <2>2. NoMoreThan(X, Y)
    BY <2>1 DEF Kept
  <2>3. PICK f : f \in [X -> Y]
    BY <2>2 DEF NoMoreThan
  <2>4. PICK o \in X : TRUE
    BY <2>1 DEF Hit
  <2>5. f[o] \in Y
    BY <2>3
  <2> QED
    BY <2>1, <2>5 DEF Elder
<1> QED
  BY <1>1, <1>2

LEMMA SplitSpreads ==
  ASSUME CalTyped, NEW r \in Requests, SpreadSplit(r), NEW s \in Series, s = req[r].s, s # r + 1
  PROVE  /\ master'["organizer"] = master["organizer"] /\ occ'["organizer"] = occ["organizer"]
         /\ Exists("attendee", s)' <=> Exists("attendee", s)
         /\ Exists("attendee", s) =>
               SameRule(req[r].read, Copy(s)') /\ Copy(s)'.ex = req[r].read.ex \cup {b.rid : b \in Hit(r, s)}
         /\ CopyOcc(s)' = Kept(r, s)
         /\ req[r].op = "split" => Copy(r + 1)' = req[r].new
         /\ \A y \in Series : y # s /\ ~(y = r + 1 /\ req[r].op = "split") => Copy(y)' = Copy(y)
         /\ \A y \in Series \ {s} : CopyOcc(y)' = CopyOcc(y)
<1> DEFINE hit == Hit(r, s)
           kept == Kept(r, s)
           old == IF Exists("attendee", s) THEN [req[r].read EXCEPT !.ex = @ \cup {b.rid : b \in hit}] ELSE NoEvent
<1>1. /\ s \in Series /\ req[r].read \in Row /\ CopyOcc(s) \in SUBSET Detached
      /\ "attendee" \in People /\ "organizer" \in People /\ r + 1 \in Series
  BY RowsType, CalConstants DEF CalTyped, Asked, CopyOcc
<1>2. /\ master' = [master EXCEPT !["attendee"] = Continued(r, "attendee", old, req[r].new)]
      /\ occ' = [occ EXCEPT !["attendee"][s] = kept]
  BY DEF SpreadSplit, CopyOcc, Hit, Kept, Elder
<1>3. kept \in SUBSET CopyOcc(s) /\ hit \in SUBSET CopyOcc(s)
  BY KeptIs DEF Hit
<1> HIDE DEF hit, kept
<1>4. PICK b, e : b = req[r].read /\ e = b.ex \cup {x.rid : x \in hit}
  OBVIOUS
<1>5. b \in Row /\ e \in SUBSET Int
  <2>1. b \in Row
    BY <1>1, <1>4
  <2>2. b.ex \subseteq Int
    BY <2>1 DEF Row
  <2>3. \A x \in hit : x.rid \in Int
    BY <1>1, <1>3 DEF Detached
  <2> QED
    BY <1>4, <2>1, <2>2, <2>3
<1>6. PICK w : w = [b EXCEPT !.ex = e]
  OBVIOUS
<1>7. w \in Row /\ w.ex = e /\ w.start = b.start /\ w.until = b.until /\ w.count = b.count
  BY <1>5, <1>6 DEF Row
<1>8. old = IF Exists("attendee", s) THEN w ELSE NoEvent
  BY <1>1, <1>4, <1>6 DEF Row
<1> HIDE DEF old
<1>9. PICK f : f = Continued(r, "attendee", old, req[r].new)
  OBVIOUS
<1>10. master'["attendee"] = f /\ master'["organizer"] = master["organizer"]
  <2>1. master' = [master EXCEPT !["attendee"] = f]
    BY <1>2, <1>9
  <2> QED
    BY <1>1, <2>1 DEF CalTyped
<1>11. f = [y \in Series |-> IF y = s THEN old
                             ELSE IF y = r + 1 /\ req[r].op = "split" THEN req[r].new
                             ELSE master["attendee"][y]]
  BY <1>9 DEF Continued
<1>12. /\ Copy(s)' = old
       /\ req[r].op = "split" => Copy(r + 1)' = req[r].new
       /\ \A y \in Series : y # s /\ ~(y = r + 1 /\ req[r].op = "split") => Copy(y)' = Copy(y)
  BY <1>1, <1>10, <1>11 DEF Copy
<1>13. /\ occ'["organizer"] = occ["organizer"] /\ CopyOcc(s)' = kept
       /\ \A y \in Series \ {s} : CopyOcc(y)' = CopyOcc(y)
  BY <1>1, <1>2 DEF CopyOcc, CalTyped
<1>14. CASE Exists("attendee", s)
  <2>1. Copy(s)' = w
    BY <1>8, <1>12, <1>14
  <2>2. Exists("attendee", s)'
    BY <1>7, <2>1, RowsAre DEF Exists, Copy
  <2>3. SameRule(b, Copy(s)') /\ Copy(s)'.ex = e
    BY <1>7, <2>1 DEF SameRule
  <2> QED
    BY <1>4, <1>10, <1>12, <1>13, <1>14, <2>2, <2>3 DEF hit, kept
<1>15. CASE ~Exists("attendee", s)
  <2>1. Copy(s)' = NoEvent
    BY <1>8, <1>12, <1>15
  <2>2. ~Exists("attendee", s)'
    BY <2>1 DEF Exists, Copy
  <2> QED
    BY <1>10, <1>12, <1>13, <1>15, <2>2 DEF hit, kept
<1> QED
  BY <1>14, <1>15

LEMMA SpreadSplitCovers ==
  ASSUME CopyInv, OwnInv', NEW r \in Requests, req[r].at = "spread", SpreadSplit(r)
  PROVE  CopyInv'
<1>1. PICK s : s = req[r].s
  OBVIOUS
<1>2. /\ CalTyped /\ CalTyped' /\ req[r] \in Asked /\ req[r].s \in Series /\ req[r].rows \in SUBSET Detached
      /\ \A y \in Series : MineOcc(y) \in SUBSET Detached /\ CopyOcc(y) \in SUBSET Detached
      /\ r + 1 \in Series /\ "organizer" \in People /\ "attendee" \in People
  BY RequestIs, CalConstants
<1>3. /\ Unborn(r) /\ req[r].op \in {"split", "truncate"} /\ req[r].who = "organizer"
      /\ Went(r, "done") /\ marks' = marks \cup (IF Outdated(r) THEN {<<s, "stale">>} ELSE {})
  BY <1>1 DEF CopyInv, SpreadSplit, Ready
<1>4. s \in Series /\ s # r + 1
  BY <1>1, <1>2, <1>3 DEF Unborn
<1>5. PICK rids, bs, hit : /\ rids = {o.rid : o \in req[r].rows} /\ bs = CopyOcc(s)
                           /\ hit = {b \in bs : b.rid \in rids}
  OBVIOUS
<1>6. /\ master'["organizer"] = master["organizer"] /\ occ'["organizer"] = occ["organizer"]
      /\ Exists("attendee", s)' <=> Exists("attendee", s)
      /\ Exists("attendee", s) =>
            SameRule(req[r].read, Copy(s)') /\ Copy(s)'.ex = req[r].read.ex \cup {b.rid : b \in hit}
      /\ CopyOcc(s)' \subseteq bs /\ bs \ hit \subseteq CopyOcc(s)'
      /\ \A b \in CopyOcc(s)' \cap hit : \E x \in hit : x.rid = b.rid /\ x.id[1] < b.id[1]
      /\ req[r].op = "split" => Copy(r + 1)' = req[r].new
      /\ \A y \in Series : y # s /\ ~(y = r + 1 /\ req[r].op = "split") => Copy(y)' = Copy(y)
      /\ \A y \in Series \ {s} : CopyOcc(y)' = CopyOcc(y)
  <2>1. hit = Hit(r, s)
    BY <1>5 DEF Hit
  <2>2. CalTyped /\ s \in Series /\ s = req[r].s /\ s # r + 1 /\ SpreadSplit(r)
    BY <1>1, <1>2, <1>4
  <2>3. /\ master'["organizer"] = master["organizer"] /\ occ'["organizer"] = occ["organizer"]
        /\ Exists("attendee", s)' <=> Exists("attendee", s)
        /\ Exists("attendee", s) =>
              SameRule(req[r].read, Copy(s)') /\ Copy(s)'.ex = req[r].read.ex \cup {b.rid : b \in Hit(r, s)}
        /\ CopyOcc(s)' = Kept(r, s)
        /\ req[r].op = "split" => Copy(r + 1)' = req[r].new
        /\ \A y \in Series : y # s /\ ~(y = r + 1 /\ req[r].op = "split") => Copy(y)' = Copy(y)
        /\ \A y \in Series \ {s} : CopyOcc(y)' = CopyOcc(y)
    BY ONLY <2>2, r \in Requests, SplitSpreads
  <2> QED
    BY <1>5, <2>1, <2>3, KeptIs
<1>7. /\ Asking(r) /\ Past(r)' /\ req'[r].at = "done"
      /\ req'[r].s = 1 /\ req'[r].op = "retitle" /\ req'[r].who = "organizer"
  BY <1>2, <1>3, WentStep
<1>8. /\ marks \subseteq marks' /\ (Outdated(r) => Had(s, "stale")')
      /\ \A y \in Series : \A t : y # s \/ t # "stale" => (Had(y, t)' <=> Had(y, t))
  BY <1>3 DEF Had
<1>9. \A y \in Series : /\ Mine(y)' = Mine(y) /\ MineOcc(y)' = MineOcc(y)
                        /\ Exists("organizer", y)' <=> Exists("organizer", y)
  BY <1>6 DEF Mine, MineOcc, Exists
<1>10. \A y \in Series : y # s /\ ~(y = r + 1 /\ req[r].op = "split") =>
          (Exists("attendee", y)' <=> Exists("attendee", y))
  BY <1>6 DEF Exists, Copy
<1>11. ASSUME NEW y \in Series, y # s, ~(req[r].op = "split" /\ y = r + 1) PROVE Alone(y)
  <2>1. \A p \in People : master'[p][y] = master[p][y] /\ occ'[p][y] = occ[p][y]
    BY <1>6, <1>9, <1>11 DEF Mine, MineOcc, Copy, CopyOcc, People
  <2> QED
    BY <1>8, <1>11, <2>1 DEF Alone
<1>12. Step(r)
  BY <1>1, <1>7, <1>8, <1>11 DEF Step
<1>13. Tame(r)
  <2>1. \A y \in Series \ {r + 1} :
            req[r].who = "organizer" /\ ~Exists("attendee", y) /\ CopyOcc(y) = {} =>
               ~Exists("attendee", y)' /\ CopyOcc(y)' = {}
    <3>1. CopyOcc(s)' \subseteq CopyOcc(s)
      BY <1>5, <1>6
    <3> QED
      BY <1>6, <1>10, <3>1
  <2>2. \A y \in Series : /\ Exists("organizer", y)' <=> Exists("organizer", y)
                          /\ Exists("organizer", y) =>
                                Mine(y)'.start = Mine(y).start /\ Mine(y)'.ex = Mine(y).ex
                          /\ \A x \in MineOcc(y)' : \E o \in MineOcc(y) : x.id = o.id /\ x.rid = o.rid
    BY <1>9
  <2> QED
    BY <1>2, <1>7, <2>1, <2>2, TameCopy
<1>14. ASSUME Tidy(s)' PROVE Cover(s)'
  <2>1. Tidy(s) /\ ~Outdated(r)
    BY <1>4, <1>8, <1>9, <1>14, TidyBefore
  <2>2. Mine(s) = req[r].read
    BY <1>1, <1>3, <2>1 DEF Outdated, Mine
  <2>3. Cover(s) /\ Pending(r, s)
    BY <1>1, <1>3, <1>4, <2>1 DEF CopyInv, Pending
  <2>4. ToDo(r, s) /\ \A q \in Requests \ {r} : ~Pending(q, s)
    BY <1>4, <2>3, OneToDo
  <2>5. CutPending(r, s)
    BY <1>1, <1>3, <2>4 DEF ToDo
  <2>6. PICK m, os, kept, c2 : m = Mine(s) /\ os = MineOcc(s) /\ kept = CopyOcc(s)' /\ c2 = Copy(s)'
    OBVIOUS
  <2>7. /\ Exists("attendee", s) /\ Seen(os, bs, 0, {}) /\ Placed(os, bs, 0, Left(s) \cup rids)
        /\ rids \cap Dates(m) = {} /\ \A o \in os : o.rid \notin rids
        /\ ~Had(s, "moved") => rids \subseteq m.ex
    BY <1>5, <2>5, <2>6 DEF CutPending
  <2>8. /\ SameRule(m, c2) /\ c2.ex = m.ex \cup {b.rid : b \in hit} /\ hit \subseteq bs
        /\ kept \subseteq bs /\ bs \ hit \subseteq kept
        /\ \A b \in kept \cap hit : \E x \in hit : x.rid = b.rid /\ x.id[1] < b.id[1]
        /\ Exists("attendee", s)' /\ Mine(s)' = m /\ MineOcc(s)' = os
        /\ bs \in SUBSET Detached /\ os \in SUBSET Detached
    BY <1>2, <1>4, <1>5, <1>6, <1>9, <2>2, <2>6, <2>7
  <2>9. (Had(s, "twin")' <=> Had(s, "twin")) /\ (Had(s, "moved")' <=> Had(s, "moved"))
    BY <1>4, <1>8
  <2>10. Left(s)' = Left(s)
    BY <2>6, <2>8, <2>9 DEF Left
  <2>11. NoMoreGaps(m, c2, kept)
    BY <1>5, <2>7, <2>8 DEF NoMoreGaps
  <2>12. Seen(os, kept, 0, {})
    <3> SUFFICES ASSUME NEW o \in os PROVE \E b \in kept : o.rid = b.rid + 0 /\ o.at = b.at + 0
      BY DEF Seen
    <3>1. PICK b \in bs : o.rid = b.rid + 0 /\ o.at = b.at + 0
      BY <2>7 DEF Seen
    <3>2. b.rid \in Int
      BY <2>8 DEF Detached
    <3>3. b.rid + 0 = b.rid
      BY <3>2
    <3>4. b \notin hit
      BY <1>5, <2>7, <3>1, <3>3
    <3> QED
      BY <2>8, <3>1, <3>4
  <2>13. Placed(os, kept, 0, Left(s))
    <3> SUFFICES ASSUME NEW b \in kept, b.at # b.rid, ~\E o \in os : o.rid = b.rid + 0
                 PROVE  b.rid \in Left(s)
      BY DEF Placed
    <3>1. b \in bs /\ b.rid \in Left(s) \cup rids
      BY <2>7, <2>8 DEF Placed
    <3>2. CASE b.rid \in rids
      <4>1. PICK x \in hit : x.rid = b.rid /\ x.id[1] < b.id[1]
        BY <1>5, <2>8, <3>1, <3>2
      <4>2. x \in bs /\ x.id[1] \in Nat /\ b.id[1] \in Nat
        BY <2>8, <3>1, CalConstants DEF Detached
      <4>3. x # b
        BY <4>1, <4>2
      <4>4. Had(s, "twin")
        BY <1>5, <2>3, <3>1, <4>1, <4>2, <4>3 DEF Cover, Single
      <4>5. ~Had(s, "moved")
        BY <2>1, <4>4 DEF Tidy, Clean, Had
      <4> QED
        BY <2>6, <2>7, <3>2, <4>4, <4>5 DEF Left
    <3> QED
      BY <3>1, <3>2
  <2>14. Settled(s)'
    BY <2>6, <2>8, <2>10, <2>11, <2>12, <2>13 DEF Settled
  <2>15. Single(bs) => Single(kept)
    BY <2>8 DEF Single
  <2>16. \A q \in Requests : ~Pending(q, s)'
    <3>1. ~Pending(r, s)'
      BY <1>7 DEF Pending
    <3> QED
      BY <1>4, <1>7, <2>4, <3>1, OthersPend
  <2> QED
    BY <1>5, <2>3, <2>6, <2>8, <2>9, <2>14, <2>15, <2>16 DEF Cover
<1>15. ASSUME req[r].op = "split", NEW y \in Series, y = r + 1, Tidy(y)' PROVE Cover(y)'
  <2>1. Tidy(y)
    BY <1>8, <1>9, <1>15, TidyBefore
  <2>2. Cover(y) /\ Pending(r, y)
    BY <1>3, <1>15, <2>1 DEF CopyInv, Pending
  <2>3. ToDo(r, y) /\ \A q \in Requests \ {r} : ~Pending(q, y)
    BY <2>2, OneToDo
  <2>4. NewPending(r, y)
    BY <1>1, <1>4, <1>15, <2>3 DEF ToDo
  <2>5. Mine(y)' = Mine(y) /\ MineOcc(y)' = {} /\ CopyOcc(y)' = {} /\ Copy(y)' = req[r].new
    BY <1>4, <1>6, <1>9, <1>15, <2>4 DEF NewPending
  <2>6. SameRule(Mine(y), req[r].new) /\ Mine(y).ex = req[r].new.ex
    BY <2>4 DEF NewPending
  <2>7. Exists("attendee", y)'
    <3>1. Mine(y) \in Row
      BY <1>2, <2>1, RowsType DEF Tidy, Mine
    <3>2. req[r].new.start \in Nat
      BY <2>6, <3>1 DEF SameRule, Row
    <3>3. req[r].new # NoEvent
      BY <3>2 DEF NoEvent, NoTime
    <3> QED
      BY <2>5, <3>3 DEF Exists, Copy
  <2>8. Settled(y)'
    BY <2>5, <2>6, <2>7 DEF Settled, NoMoreGaps, Seen, Placed
  <2>9. \A q \in Requests : ~Pending(q, y)'
    <3>1. ~Pending(r, y)'
      BY <1>7 DEF Pending
    <3> QED
      BY <1>7, <2>3, <3>1, OthersPend
  <2> QED
    BY <2>5, <2>8, <2>9 DEF Cover, Distinct, Single
<1>16. \A y \in Series : y = req[r].s \/ (req[r].op = "split" /\ y = r + 1) => (Tidy(y)' => Cover(y)')
  BY <1>1, <1>14, <1>15
<1> QED
  BY <1>3, <1>12, <1>13, <1>16, CopyStays

-----------------------------------------------------------------------------
(* A request begins                                                        *)

LEMMA RowsUntouched ==
  ASSUME CopyInv, master' = master, occ' = occ, marks' = marks, NEW y \in Series, Tidy(y)',
         \A q \in Requests : (Pending(q, y)' <=> Pending(q, y)) /\ (Pending(q, y) => req'[q] = req[q])
  PROVE  Cover(y)'
<1>1. Alone(y)
  BY DEF Alone, Had
<1>2. Steady(y) /\ (Exists("organizer", y)' <=> Exists("organizer", y))
  BY <1>1, AloneIsSteady
<1>3. Tidy(y)
  BY <1>2, TidyBefore
<1>4. Cover(y)
  BY <1>3 DEF CopyInv
<1> QED
  BY <1>2, <1>4, CoverStays

LEMMA BeginAsks ==
  ASSUME CalTyped, NEW r \in Requests, NEW who \in People, NEW op \in Ops, NEW s \in Series,
         NEW slot \in Slots(who, s), NEW moved \in BOOLEAN, Begin(r, who, op, s, slot, moved)
  PROVE  /\ req[r].at = "idle" /\ req'[r].at = "commit" /\ req'[r].who = who /\ req'[r].op = op /\ req'[r].s = s
         /\ req'[r].slot = slot /\ req'[r].read = master[who][s]
         /\ \A o \in req'[r].rows : op = "override" /\ o \in occ[who][s] /\ o.rid = slot
         /\ \A q \in Requests \ {r} : req'[q] = req[q]
<1>1. PICK rows \in {{}} \cup {{o} : o \in {x \in occ[who][s] : op = "override" /\ x.rid = slot}} :
         /\ req' = [req EXCEPT ![r] = [@ EXCEPT !.who = who, !.op = op, !.s = s, !.slot = slot,
                      !.moved = moved, !.read = master[who][s], !.at = "commit", !.rows = rows]]
         /\ req[r].at = "idle" /\ req[r] \in Asked
  BY DEF Begin, CalTyped
<1>2. PICK m, os : m = master[who][s] /\ os = rows
  OBVIOUS
<1>3. PICK v : v = [req[r] EXCEPT !.who = who, !.op = op, !.s = s, !.slot = slot,
                   !.moved = moved, !.read = m, !.at = "commit", !.rows = os]
  OBVIOUS
<1>4. req' = [req EXCEPT ![r] = v]
  BY <1>1, <1>2, <1>3
<1>5. req'[r] = v /\ \A q \in Requests \ {r} : req'[q] = req[q]
  BY <1>4 DEF CalTyped
<1>6. /\ v.at = "commit" /\ v.who = who /\ v.op = op /\ v.s = s
      /\ v.slot = slot /\ v.read = m /\ v.rows = os
  BY <1>1, <1>3 DEF Asked
<1> QED
  BY <1>1, <1>2, <1>5, <1>6

LEMMA BeginCovers ==
  ASSUME CopyInv, OwnInv', NEW r \in Requests, NEW who \in People, NEW op \in Ops, NEW s \in Series,
         NEW slot \in Slots(who, s), NEW moved \in BOOLEAN, Begin(r, who, op, s, slot, moved)
  PROVE  CopyInv'
<1>1. /\ CalTyped /\ CalTyped' /\ "organizer" \in People /\ "attendee" \in People
      /\ \A y \in Series : MineOcc(y) \in SUBSET Detached
      /\ r + 1 \in Series
  BY RequestIs, CalConstants
<1>2. PICK rows : rows = req'[r].rows
  OBVIOUS
<1>3. /\ req[r].at = "idle" /\ req'[r].at = "commit" /\ req'[r].who = who /\ req'[r].op = op /\ req'[r].s = s
      /\ req'[r].slot = slot /\ req'[r].read = master[who][s]
      /\ \A o \in rows : op = "override" /\ o \in occ[who][s] /\ o.rid = slot
      /\ \A q \in Requests \ {r} : req'[q] = req[q]
  BY <1>1, <1>2, BeginAsks
<1>4. /\ master' = master /\ occ' = occ /\ marks' = marks
      /\ op \in (IF who = "organizer" THEN OrganizerOps ELSE AttendeeOps)
      /\ Exists(who, s)
      /\ slot \in IF op \in SlotOps THEN Dates(master[who][s]) ELSE {master[who][s].start}
  BY DEF Begin
<1>5. /\ op \in AttendeeOps <=> who = "attendee"
      /\ op = "override" => who = "organizer"
  BY <1>4 DEF OrganizerOps, AttendeeOps, People
<1>6. ASSUME NEW i \in Requests, Past(i) PROVE Past(i)'
  BY <1>3, <1>6 DEF Past
<1>7. Numbered'
  <2>1. ASSUME NEW y \in Series, NEW o \in MineOcc(y) PROVE Past(o.id[1]) /\ Past(o.id[1])'
    <3>1. o.id[1] \in Requests
      BY <1>1 DEF Detached
    <3> QED
      BY <1>6, <3>1 DEF CopyInv, Numbered
  <2>2. ASSUME NEW q \in Requests, req'[q].at = "commit", req'[q].op = "override", NEW o \in req'[q].rows
        PROVE  Past(o.id[1])'
    <3>1. CASE q = r
      <4>1. o \in MineOcc(s)
        BY <1>2, <1>3, <1>5, <2>2, <3>1 DEF MineOcc
      <4> QED
        BY <2>1, <4>1
    <3>2. CASE q # r
      <4>1. req'[q] = req[q]
        BY <1>3, <3>2
      <4>2. Past(o.id[1]) /\ o \in Detached
        BY <1>1, <2>2, <4>1 DEF CopyInv, Numbered, CalTyped, Asked
      <4> QED
        BY <1>6, <4>2 DEF Detached
    <3> QED
      BY <3>1, <3>2
  <2>3. \A y \in Series : MineOcc(y)' = MineOcc(y)
    BY <1>4 DEF MineOcc
  <2> QED
    BY <2>1, <2>2, <2>3 DEF Numbered
<1>8. ASSUME NEW q \in Requests PROVE Unborn(q)'
  <2>1. Unborn(q) /\ q + 1 \in Series
    BY CalConstants DEF CopyInv
  <2>2. \A p \in People, y \in Series : Exists(p, y)' <=> Exists(p, y)
    BY <1>4 DEF Exists
  <2>3. ASSUME req[q].at \in {"idle", "commit"}
        PROVE  /\ \A p \in People : ~Exists(p, q + 1)' /\ occ'[p][q + 1] = {}
               /\ \A x \in Requests : req'[x].s # q + 1
    <3>1. /\ \A p \in People : ~Exists(p, q + 1) /\ occ[p][q + 1] = {}
          /\ \A x \in Requests : req[x].s # q + 1
      BY <2>1, <2>3 DEF Unborn
    <3>2. s # q + 1
      BY <1>4, <3>1
    <3> QED
      BY <1>3, <1>4, <2>1, <2>2, <3>1, <3>2
  <2>4. ASSUME req[q].at = "spread", req[q].op = "split"
        PROVE  /\ ~Exists("attendee", q + 1)' /\ occ'["attendee"][q + 1] = {}
               /\ \A x \in Requests : req'[x].who = "attendee" => req'[x].s # q + 1
    <3>1. /\ ~Exists("attendee", q + 1) /\ occ["attendee"][q + 1] = {}
          /\ \A x \in Requests : req[x].who = "attendee" => req[x].s # q + 1
      BY <2>1, <2>4 DEF Unborn
    <3>2. who = "attendee" => s # q + 1
      BY <1>4, <3>1
    <3> QED
      BY <1>1, <1>3, <1>4, <2>1, <2>2, <3>1, <3>2
  <2>5. CASE q = r
    BY <1>3, <1>5, <2>3, <2>5 DEF Unborn
  <2>6. CASE q # r
    <3>1. req'[q] = req[q]
      BY <1>3, <2>6
    <3> QED
      BY <2>1, <2>3, <2>4, <3>1 DEF Unborn
  <2> QED
    BY <2>5, <2>6
<1>9. \A y \in Series : Tidy(y)' <=> Tidy(y)
  BY <1>4 DEF Tidy, Exists, Clean
<1>10. ASSUME NEW y \in Series, Tidy(y)' PROVE Cover(y)'
  <2>1. \A q \in Requests : (Pending(q, y)' <=> Pending(q, y)) /\ (Pending(q, y) => req'[q] = req[q])
    <3>1. ~Pending(r, y) /\ ~Pending(r, y)'
      BY <1>3 DEF Pending
    <3> QED
      BY <1>3, <3>1 DEF Pending
  <2> QED
    BY <1>4, <1>10, <2>1, RowsUntouched
<1>11. ASSUME op = "override", Tidy(s) PROVE Aims(r)'
  <2>1. PICK m, os : m = Mine(s) /\ os = MineOcc(s)
    OBVIOUS
  <2>2. /\ Mine(s)' = m /\ MineOcc(s)' = os /\ master[who][s] = m /\ occ[who][s] = os
        /\ \A o \in rows : o \in os /\ o.rid = slot
    BY <1>3, <1>4, <1>5, <1>11, <2>1 DEF Mine, MineOcc
  <2>3. Distinct(os)
    BY <1>11, <2>1 DEF CopyInv, Cover
  <2>4. \A o \in rows : o.rid = slot /\ \A x \in os : x.id = o.id => x = o
    BY <2>2, <2>3 DEF Distinct
  <2>5. \A o \in rows : o.rid = slot /\ \A x \in os : x.id = o.id => x.rid - m.start = o.rid - m.start
    BY <2>4
  <2> QED
    BY <1>2, <1>3, <2>2, <2>5 DEF Aims
<1>12. ASSUME NEW q \in Requests, req'[q].at = "commit", req'[q].op = "override", Tidy(req[q].s)' PROVE Aims(q)'
  <2>1. CASE q = r
    <3>1. Tidy(s)
      <4>1. Tidy(s)'
        BY <1>3, <1>12, <2>1 DEF Tidy, Exists, Clean
      <4> QED
        BY <1>9, <4>1
    <3> QED
      BY <1>3, <1>11, <1>12, <2>1, <3>1
  <2>2. CASE q # r
    <3>1. req'[q] = req[q]
      BY <1>3, <2>2
    <3>2. Tidy(req[q].s)
      BY <1>4, <1>12, <3>1 DEF Tidy, Exists, Clean
    <3>3. Aims(q)
      BY <1>12, <3>1, <3>2 DEF CopyInv
    <3> QED
      BY <1>4, <3>1, <3>3 DEF Aims, Mine, MineOcc
  <2> QED
    BY <2>1, <2>2
<1>13. ASSUME NEW q \in Requests, req'[q].at = "commit", req'[q].op \in {"split", "truncate"}
       PROVE  req'[q].slot \in Dates(req'[q].read)
  <2>1. CASE q = r
    BY <1>3, <1>4, <1>13, <2>1 DEF SlotOps
  <2>2. CASE q # r
    BY <1>3, <1>13, <2>2 DEF CopyInv
  <2> QED
    BY <2>1, <2>2
<1> QED
  BY <1>7, <1>8, <1>10, <1>12, <1>13 DEF CopyInv

-----------------------------------------------------------------------------
(* The attendee misses nothing                                             *)

LEMMA CopyStart == Init => CopyInv
<1> SUFFICES ASSUME Init PROVE CopyInv
  OBVIOUS
<1>1. OwnInv
  BY OwnStart
<1>2. /\ \A p \in People, y \in Series : occ[p][y] = {} /\ (y # 1 => ~Exists(p, y))
      /\ \A p \in People : master[p][1] = First
      /\ \A r \in Requests : req[r] = Unread
      /\ "organizer" \in People /\ "attendee" \in People
  BY CalConstants DEF Init, Exists
<1>3. /\ Unread.at = "idle" /\ Unread.s = 1 /\ Unread.who = "organizer" /\ Unread.op = "retitle"
  BY DEF Unread
<1>4. Numbered
  BY <1>2, <1>3 DEF Numbered, MineOcc
<1>5. ASSUME NEW r \in Requests PROVE Unborn(r)
  <2>1. r + 1 \in Series /\ r + 1 # 1
    BY CalConstants DEF Requests
  <2> QED
    BY <1>2, <1>3, <2>1 DEF Unborn, AttendeeOps
<1>6. ASSUME NEW s \in Series, Tidy(s) PROVE Cover(s)
  <2>1. s = 1
    BY <1>2, <1>6 DEF Tidy
  <2>2. Mine(s) = First /\ Copy(s) = First /\ MineOcc(s) = {} /\ CopyOcc(s) = {}
    BY <1>2, <2>1 DEF Mine, Copy, MineOcc, CopyOcc
  <2>3. Exists("attendee", s)
    BY <1>2, <2>1, RowsAre DEF Exists
  <2>4. Settled(s)
    BY <2>2, <2>3 DEF Settled, SameRule, NoMoreGaps, Seen, Placed
  <2>5. \A r \in Requests : ~Pending(r, s)
    BY <1>2, <1>3 DEF Pending
  <2> QED
    BY <2>2, <2>4, <2>5 DEF Cover, Distinct, Single
<1> QED
  BY <1>1, <1>2, <1>3, <1>4, <1>5, <1>6 DEF CopyInv

LEMMA CopyCommits ==
  ASSUME CopyInv, OwnInv', NEW r \in Requests, req[r].at = "commit", Commits(r)
  PROVE  CopyInv'
  BY CommitAllCovers, CommitOverrideCovers, CommitSplitCovers, CommitCancelCovers, CommitDeleteCovers,
     CommitAcceptCovers, CommitAcceptOneCovers DEF Commits

LEMMA CopySpreads ==
  ASSUME CopyInv, OwnInv', NEW r \in Requests, req[r].at = "spread", Spreads(r)
  PROVE  CopyInv'
  BY SpreadAllCovers, SpreadOverrideCovers, SpreadSplitCovers, SpreadCancelCovers, SpreadDeleteCovers,
     SpreadAcceptCovers, SpreadAcceptOneCovers, SpreadFailsCovers DEF Spreads

LEMMA CopyStep == CopyInv /\ [Next]_vars => CopyInv'
<1> SUFFICES ASSUME CopyInv, [Next]_vars PROVE CopyInv'
  OBVIOUS
<1>1. OwnInv'
  BY OwnStep DEF CopyInv
<1>2. CASE UNCHANGED vars
  <2>1. master' = master /\ occ' = occ /\ req' = req /\ marks' = marks
    BY <1>2 DEF vars
  <2>2. Numbered' /\ \A r \in Requests : Unborn(r)'
    BY <2>1 DEF CopyInv, Numbered, Unborn, Past, MineOcc, Exists
  <2>3. ASSUME NEW r \in Requests, req[r].at = "commit", req[r].op = "override", Tidy(req[r].s)' PROVE Aims(r)'
    <3>1. Tidy(req[r].s)
      BY <2>1, <2>3 DEF Tidy, Exists, Clean
    <3>2. Aims(r)
      BY <2>3, <3>1 DEF CopyInv
    <3> QED
      BY <2>1, <3>2 DEF Aims, Mine, MineOcc
  <2>4. ASSUME NEW y \in Series, Tidy(y)' PROVE Cover(y)'
    <3>1. \A q \in Requests : (Pending(q, y)' <=> Pending(q, y)) /\ (Pending(q, y) => req'[q] = req[q])
      BY <2>1 DEF Pending
    <3> QED
      BY <2>1, <2>4, <3>1, RowsUntouched
  <2> QED
    BY <1>1, <2>1, <2>2, <2>3, <2>4 DEF CopyInv
<1>3. ASSUME NEW r \in Requests, req[r].at = "commit", Commits(r) PROVE CopyInv'
  BY <1>1, <1>3, CopyCommits
<1>4. ASSUME NEW r \in Requests, req[r].at = "spread", Spreads(r) PROVE CopyInv'
  BY <1>1, <1>4, CopySpreads
<1>5. ASSUME NEW r \in Requests, NEW who \in People, NEW s \in Series, NEW slot \in Slots(who, s),
             NEW op \in Ops, NEW moved \in BOOLEAN, Begin(r, who, op, s, slot, moved)
      PROVE  CopyInv'
  BY <1>1, <1>5, BeginCovers
<1> QED
  BY <1>2, <1>3, <1>4, <1>5 DEF Next

(* What the organizer sees of a settled series the attendee sees as well.  *)
LEMMA SettledIsShown ==
  ASSUME CalTyped, NEW s \in Series, Exists("organizer", s), Settled(s)
  PROVE  Shown("organizer", s) \subseteq Shown("attendee", s)
<1>1. PICK m, c, os, bs : m = Mine(s) /\ c = Copy(s) /\ os = MineOcc(s) /\ bs = CopyOcc(s)
  OBVIOUS
<1>2. /\ Exists("attendee", s) /\ SameRule(m, c) /\ NoMoreGaps(m, c, bs)
      /\ Seen(os, bs, 0, {}) /\ Placed(os, bs, 0, Left(s)) /\ Left(s) \subseteq m.ex
  BY <1>1 DEF Settled, Left
<1>3. \A b \in bs : b.rid + 0 = b.rid /\ b.at + 0 = b.at
  <2>1. bs \in SUBSET Detached
    BY <1>1, RowsType, CalConstants DEF CopyOcc
  <2>2. ASSUME NEW b \in bs PROVE b.rid + 0 = b.rid /\ b.at + 0 = b.at
    <3>1. b.rid \in Int /\ b.at \in Int
      BY <2>1 DEF Detached
    <3> QED
      BY <3>1
  <2> QED
    BY <2>2
<1>4. Dates(m) = Dates(c)
  BY <1>2, SameDates
<1> DEFINE Here(d, rows, r) ==
             LET over == {o \in rows : o.rid = d} IN
             IF over # {} THEN {o.at : o \in over} ELSE IF d \in r.ex THEN {} ELSE {d}
<1>5. /\ Shown("organizer", s) = UNION {Here(d, os, m) : d \in Dates(m)}
      /\ Shown("attendee", s) = UNION {Here(d, bs, c) : d \in Dates(c)}
  BY <1>1, <1>2 DEF Shown, Mine, Copy, MineOcc, CopyOcc
<1>6. ASSUME NEW d \in Dates(m) PROVE Here(d, os, m) \subseteq Here(d, bs, c)
  <2>1. CASE \E o \in os : o.rid = d
    <3> SUFFICES ASSUME NEW x \in Here(d, os, m) PROVE x \in Here(d, bs, c)
      OBVIOUS
    <3>1. PICK o \in os : o.rid = d /\ x = o.at
      BY <2>1
    <3>2. PICK b \in bs : o.rid = b.rid + 0 /\ o.at = b.at + 0
      BY <1>2 DEF Seen
    <3>3. b.rid = d /\ x = b.at
      BY <1>3, <3>1, <3>2
    <3> QED
      BY <3>3
  <2>2. CASE (\A o \in os : o.rid # d) /\ d \in m.ex
    BY <2>2
  <2>3. CASE (\A o \in os : o.rid # d) /\ d \notin m.ex
    <3>1. Here(d, os, m) = {d}
      BY <2>3
    <3>2. CASE \E b \in bs : b.rid = d
      <4>1. PICK b \in bs : b.rid = d
        BY <3>2
      <4>2. b.at = d
        BY <1>2, <1>3, <2>3, <4>1 DEF Placed
      <4> QED
        BY <3>1, <4>1, <4>2
    <3>3. CASE \A b \in bs : b.rid # d
      <4>1. d \notin c.ex
        BY <1>2, <2>3, <3>3 DEF NoMoreGaps
      <4> QED
        BY <3>1, <3>3, <4>1
    <3> QED
      BY <3>2, <3>3
  <2> QED
    BY <2>1, <2>2, <2>3
<1> QED
  BY <1>4, <1>5, <1>6

(* AttendeeMissesNothing: whatever is edited, moved, split, answered or    *)
(* deleted, and in whatever order the requests write, between two requests *)
(* the attendee's copy shows every date that the organizer's series shows. *)
THEOREM AttendeesMissNothing == Spec => []AttendeeMissesNothing
<1>1. ASSUME CopyInv PROVE AttendeeMissesNothing
  <2> SUFFICES ASSUME Quiet, NEW s \in Series, Clean(s, {"stale", "lost", "own", "double"}),
                      Clean(s, {"moved"}) \/ Clean(s, {"twin"})
               PROVE  Shown("organizer", s) \subseteq Shown("attendee", s)
    BY DEF AttendeeMissesNothing
  <2>1. CASE ~Exists("organizer", s)
    BY <2>1 DEF Shown
  <2>2. CASE Exists("organizer", s)
    <3>1. Cover(s) /\ CalTyped
      BY <1>1, <2>2 DEF CopyInv, OwnInv, Tidy
    <3>2. \A r \in Requests : ~Pending(r, s)
      BY DEF Quiet, Pending
    <3>3. Settled(s)
      BY <3>1, <3>2 DEF Cover
    <3> QED
      BY <2>2, <3>1, <3>3, SettledIsShown
  <2> QED
    BY <2>1, <2>2
<1> QED
  BY <1>1, CopyStart, CopyStep, PTL DEF Spec
-----------------------------------------------------------------------------
(* Deleted dates stay deleted                                              *)

(* Nothing has excused a deleted date of the organizer's series. *)
Bare(s) == Exists("organizer", s) /\ Clean(s, {"stale", "moved", "double"})

(* A date has one detached row at most, a deleted one none; and a request  *)
(* still finds the row it read at its slot.                                *)
Buried ==
    /\ \A s \in Series :
          Bare(s) => Distinct(MineOcc(s)) /\ \A o \in MineOcc(s) : o.rid \notin gone[s]
    /\ \A r \in Requests : req[r].at = "commit" /\ req[r].op = "override" /\ Bare(req[r].s) =>
          \A o \in req[r].rows, x \in MineOcc(req[r].s) : x.id = o.id => x.rid = o.rid

(* What a step of request r may do to the rows of series y.                *)
Burying(r, y) ==
    Bare(y)' => \/ MineOcc(y)' = {}
                \/ /\ Bare(y) /\ Distinct(MineOcc(y)') /\ \A x \in MineOcc(y)' : x.rid \notin gone'[y]
                   /\ \A x \in MineOcc(y)' : \/ req[r].at = "commit" /\ x.id[1] = r
                                             \/ \E o \in MineOcc(y) : o.id = x.id /\ o.rid = x.rid

LEMMA BuriedStays ==
  ASSUME CopyInv, Buried, NEW r \in Requests, Asking(r), Past(r)',
         \A y \in Series : Burying(r, y)
  PROVE  Buried'
<1>1. ASSUME NEW y \in Series, Bare(y)'
      PROVE  Distinct(MineOcc(y)') /\ \A o \in MineOcc(y)' : o.rid \notin gone'[y]
  BY <1>1 DEF Burying, Distinct
<1>2. ASSUME NEW q \in Requests, req'[q].at = "commit", req'[q].op = "override", NEW y \in Series,
             y = req'[q].s, Bare(y)', NEW o \in req'[q].rows, NEW x \in MineOcc(y)', x.id = o.id
      PROVE  x.rid = o.rid
  <2>1. q # r /\ req'[q] = req[q]
    BY <1>2 DEF Asking, Past
  <2>2. Past(o.id[1])
    BY <1>2, <2>1 DEF CopyInv, Numbered
  <2>3. ~(req[r].at = "commit" /\ x.id[1] = r)
    BY <1>2, <2>2 DEF Past
  <2>4. Bare(y) /\ \E z \in MineOcc(y) : z.id = x.id /\ z.rid = x.rid
    BY <1>2, <2>3 DEF Burying
  <2> QED
    BY <1>2, <2>1, <2>4 DEF Buried
<1>3. \A q \in Requests : req'[q].s \in Series
  BY DEF Asking, Asked
<1>4. ASSUME NEW q \in Requests, req'[q].at = "commit", req'[q].op = "override", Bare(req[q].s)'
      PROVE  \A o \in req'[q].rows, x \in MineOcc(req[q].s)' : x.id = o.id => x.rid = o.rid
  <2>1. PICK y : y = req'[q].s
    OBVIOUS
  <2>2. y \in Series /\ Bare(y)' /\ MineOcc(y)' = MineOcc(req[q].s)'
    BY <1>3, <1>4, <2>1 DEF Bare, Exists, Clean, MineOcc
  <2> QED
    BY <1>2, <1>4, <2>1, <2>2
<1> QED
  BY <1>1, <1>4 DEF Buried

(* Most steps leave the organizer's rows of a series, or take some away.   *)
LEMMA LeavesBuried ==
  ASSUME Buried, NEW r \in Requests, NEW y \in Series, marks \subseteq marks',
         Exists("organizer", y)' => Exists("organizer", y), gone'[y] \subseteq gone[y],
         \A x \in MineOcc(y)' : \E o \in MineOcc(y) : o.id = x.id /\ o.rid = x.rid,
         Distinct(MineOcc(y)) => Distinct(MineOcc(y)')
  PROVE  Burying(r, y)
<1> SUFFICES ASSUME Bare(y)'
             PROVE  /\ Bare(y) /\ Distinct(MineOcc(y)') /\ \A x \in MineOcc(y)' : x.rid \notin gone'[y]
                    /\ \A x \in MineOcc(y)' : \E o \in MineOcc(y) : o.id = x.id /\ o.rid = x.rid
  BY DEF Burying
<1>1. Bare(y)
  BY DEF Bare, Clean
<1>2. Distinct(MineOcc(y)) /\ \A o \in MineOcc(y) : o.rid \notin gone[y]
  BY <1>1 DEF Buried
<1> QED
  BY <1>1, <1>2

LEMMA RowsLeftBuried ==
  ASSUME CopyInv, Buried, NEW r \in Requests, Asking(r), req'[r].at \in {"spread", "done"},
         marks \subseteq marks', occ'["organizer"] = occ["organizer"],
         \A y \in Series : (Exists("organizer", y)' => Exists("organizer", y)) /\ gone'[y] \subseteq gone[y]
  PROVE  Buried'
<1>1. ASSUME NEW y \in Series PROVE Burying(r, y)
  <2>1. MineOcc(y)' = MineOcc(y)
    BY DEF MineOcc
  <2> QED
    BY <2>1, LeavesBuried
<1> QED
  BY <1>1, BuriedStays DEF Past

LEMMA OverrideBuries ==
  ASSUME CopyInv, OwnInv', Buried, NEW r \in Requests, req[r].at = "commit", CommitOverride(r)
  PROVE  Buried'
<1>1. PICK s, b, d, m, os :
         /\ s = req[r].s /\ b = req[r].read /\ d = req[r].slot /\ m = Mine(s) /\ os = MineOcc(s)
  OBVIOUS
<1>2. /\ CalTyped /\ s \in Series /\ b \in Row /\ d \in Int /\ req[r].rows \in SUBSET Detached
      /\ os \in SUBSET Detached /\ "organizer" \in People /\ req[r].op = "override"
  BY <1>1, RequestIs DEF CommitOverride, Ready
<1>3. /\ Asking(r) /\ req'[r].at \in {"spread", "done"} /\ marks \subseteq marks'
      /\ \A y \in Series : RowKept(y)
  BY <1>2, CommitOverrideIs
<1>4. \A y \in Series : (Exists("organizer", y)' => Exists("organizer", y)) /\ gone'[y] \subseteq gone[y]
  BY <1>3 DEF RowKept
<1>5. PICK new : new = Changed(r, [id |-> <<r, 1>>, rid |-> d, at |-> d, st |-> b.st])
  OBVIOUS
<1>6. new \in Detached /\ new.id = <<r, 1>> /\ new.rid = d
  <2>1. PICK made : made = [id |-> <<r, 1>>, rid |-> d, at |-> d, st |-> b.st]
    OBVIOUS
  <2>2. made \in Detached /\ made.id = <<r, 1>> /\ made.rid = d
    BY <1>2, <2>1 DEF Detached, Row
  <2> QED
    BY <1>2, <1>5, <2>1, <2>2, ChangedIs
<1>7. /\ IF req[r].rows # {}
         THEN \E o \in req[r].rows :
                occ' = [occ EXCEPT !["organizer"][s] = Replaced(os, o, Changed(r, o))]
         ELSE IF Exists("organizer", s)
         THEN /\ Put("organizer", s, InsertOccurrence(m, os, new))
              /\ gone' = [gone EXCEPT ![s] = @ \ {new.rid}]
         ELSE occ' = occ
      /\ (\E o \in req[r].rows : \A x \in os : x.id # o.id) => Had(s, "stale")'
      /\ req[r].rows = {} /\ (\E o \in os : o.rid = new.rid) => Had(s, "double")'
  BY <1>1, <1>5 DEF CommitOverride, Replaced, Mine, MineOcc, Had
<1>8. ASSUME NEW y \in Series, MineOcc(y)' = MineOcc(y) PROVE Burying(r, y)
  BY <1>3, <1>4, <1>8, LeavesBuried
<1>9. ASSUME req[r].rows # {} PROVE Buried'
  <2>1. PICK o \in req[r].rows : occ' = [occ EXCEPT !["organizer"][s] = Replaced(os, o, Changed(r, o))]
    BY <1>7, <1>9
  <2>2. PICK n : n = Changed(r, o)
    OBVIOUS
  <2>3. o \in Detached /\ n \in Detached /\ n.id = o.id /\ n.rid = o.rid
    <3>1. o \in Detached
      BY <1>2
    <3> QED
      BY <1>2, <2>2, <3>1, ChangedIs
  <2>4. PICK os2 : os2 = Replaced(os, o, n)
    OBVIOUS
  <2>5. MineOcc(s)' = os2 /\ \A y \in Series \ {s} : MineOcc(y)' = MineOcc(y)
    BY <1>2, <2>1, <2>2, <2>4 DEF MineOcc, CalTyped
  <2>6. ASSUME Bare(s)' PROVE Distinct(os) => Distinct(os2) /\ \A x \in os2 : \E y \in os : x.id = y.id /\ x.rid = y.rid
    <3>1. Bare(s)
      BY <1>2, <1>3, <1>4, <2>6 DEF Bare, Clean
    <3>2. \A x \in os : x.id = o.id => x.rid = o.rid
      BY <1>1, <1>2, <3>1 DEF Buried
    <3>3. ~Had(s, "stale")'
      BY <2>6 DEF Bare, Clean, Had
    <3>4. PICK z \in os : z.id = o.id /\ z.rid = o.rid
      BY <1>7, <3>2, <3>3
    <3>5. Distinct(os) => /\ Distinct(Replaced(os, o, n))
                          /\ \A x \in Replaced(os, o, n) : \E y \in os : x.id = y.id /\ x.rid = y.rid
      BY <1>2, <2>3, <3>4, ReplacedKeeps
    <3> QED
      BY <2>4, <3>5
  <2>7. Burying(r, s)
    <3> SUFFICES ASSUME Bare(s)' PROVE Burying(r, s)
      BY DEF Burying
    <3>1. Distinct(os)
      <4>1. Bare(s)
        BY <1>2, <1>3, <1>4 DEF Bare, Clean
      <4> QED
        BY <1>1, <1>2, <4>1 DEF Buried
    <3> QED
      BY <1>1, <1>2, <1>3, <1>4, <2>5, <2>6, <3>1, LeavesBuried
  <2> QED
    BY <1>3, <1>8, <2>5, <2>7, BuriedStays DEF Past
<1>10. ASSUME req[r].rows = {}, Exists("organizer", s) PROVE Buried'
  <2>1. Put("organizer", s, InsertOccurrence(m, os, new)) /\ gone' = [gone EXCEPT ![s] = @ \ {new.rid}]
    BY <1>7, <1>10
  <2>2. m \in Row
    BY <1>1, <1>2, <1>10, RowsType DEF Mine
  <2>3. PICK w \in Row : /\ InsertOccurrence(m, os, new) = <<w, os \cup {new}>> /\ w.ex = m.ex \cup {new.rid}
                         /\ w.start = m.start /\ w.until = m.until /\ w.count = m.count /\ w.st = m.st
    BY <1>2, <1>6, <2>2, InsertIs
  <2>4. os \cup {new} \in SUBSET Detached /\ w \in Row \cup {NoEvent} /\ Put("organizer", s, <<w, os \cup {new}>>)
    BY <1>2, <1>6, <2>1, <2>3
  <2>5. /\ occ'["organizer"][s] = os \cup {new}
        /\ \A x \in People, y \in Series : x # "organizer" \/ y # s => occ'[x][y] = occ[x][y]
    BY <1>2, <2>4, PutIs
  <2>6. MineOcc(s)' = os \cup {new} /\ \A y \in Series \ {s} : MineOcc(y)' = MineOcc(y)
    BY <1>2, <2>5 DEF MineOcc
  <2>7. gone'[s] = gone[s] \ {d}
    BY <1>2, <1>6, <2>1 DEF CalTyped
  <2>8. Burying(r, s)
    <3> SUFFICES ASSUME Bare(s)'
                 PROVE  /\ Bare(s) /\ Distinct(os \cup {new}) /\ \A x \in os \cup {new} : x.rid \notin gone'[s]
                        /\ \A x \in os \cup {new} : \/ req[r].at = "commit" /\ x.id[1] = r
                                                    \/ \E o \in MineOcc(s) : o.id = x.id /\ o.rid = x.rid
      BY <2>6 DEF Burying
    <3>1. Bare(s) /\ ~Had(s, "double")'
      BY <1>2, <1>3, <1>4 DEF Bare, Clean, Had
    <3>2. Distinct(os) /\ \A o \in os : o.rid \notin gone[s]
      BY <1>1, <1>2, <3>1 DEF Buried
    <3>3. \A x \in os : x.rid # d
      BY <1>6, <1>7, <1>10, <3>1
    <3>4. \A x \in os : x.id # <<r, 1>>
      <4>1. \A x \in os : Past(x.id[1])
        BY <1>1, <1>2 DEF CopyInv, Numbered
      <4>2. ~Past(r) /\ <<r, 1>>[1] = r
        BY DEF Past
      <4> QED
        BY <4>1, <4>2
    <3>5. Distinct(os \cup {new})
      BY <1>6, <3>2, <3>3, <3>4 DEF Distinct
    <3>6. \A x \in os \cup {new} : x.rid \notin gone'[s]
      BY <1>6, <2>7, <3>2
    <3> QED
      BY <1>1, <1>6, <3>1, <3>5, <3>6
  <2> QED
    BY <1>3, <1>8, <2>6, <2>8, BuriedStays DEF Past
<1>11. ASSUME req[r].rows = {}, ~Exists("organizer", s) PROVE Buried'
  <2>1. occ' = occ
    BY <1>7, <1>11
  <2> QED
    BY <1>3, <1>4, <2>1, RowsLeftBuried
<1> QED
  BY <1>9, <1>10, <1>11

LEMMA CancelBuries ==
  ASSUME CopyInv, OwnInv', Buried, NEW r \in Requests, req[r].at = "commit", CommitCancel(r)
  PROVE  Buried'
<1>1. PICK p, s, d, b, m, os, rows :
         /\ p = req[r].who /\ s = req[r].s /\ d = req[r].slot /\ b = req[r].read
         /\ m = master[p][s] /\ os = occ[p][s] /\ rows = GetOrCreate(m, os, b, d, <<r, 1>>)
  OBVIOUS
<1>2. /\ CalTyped /\ p \in People /\ s \in Series /\ d \in Int /\ b \in Row /\ os \in SUBSET Detached
      /\ "organizer" \in People /\ "attendee" \in People
  BY <1>1, RequestIs, RowsType
<1>3. IF ~Exists(p, s) THEN UNCHANGED <<master, occ, gone, marks>>
      ELSE /\ \E o \in {o \in rows[2] : o.rid = d} : Put(p, s, DeleteOccurrence(rows[1], rows[2], o))
           /\ gone' = IF p = "organizer" THEN [gone EXCEPT ![s] = @ \cup {d}] ELSE gone
  BY <1>1 DEF CommitCancel
<1>4. /\ Asking(r) /\ req'[r].at \in {"spread", "done"} /\ marks \subseteq marks'
      /\ \A y \in Series : Exists("organizer", y)' => Exists("organizer", y)
  BY <1>2, CommitCancelIs DEF RowKept
<1>5. CASE ~Exists(p, s)
  BY <1>3, <1>4, <1>5, RowsLeftBuried
<1>6. CASE Exists(p, s)
  <2>1. m \in Row
    BY <1>1, <1>2, <1>6, RowsType
  <2>2. PICK w \in Row, n \in SUBSET Detached :
            /\ rows = <<w, n>> /\ \E o \in n : o.rid = d
            /\ \/ n = os
               \/ /\ \A o \in os : o.rid # d
                  /\ \E o \in Detached : n = os \cup {o} /\ o.rid = d
    <3>1. /\ m \in Row /\ os \in SUBSET Detached /\ b \in Row /\ d \in Int /\ r \in Requests
      BY <1>2, <2>1
    <3>2. \E w \in Row, n \in SUBSET Detached : Gotten(m, os, d, r, GetOrCreate(m, os, b, d, <<r, 1>>), w, n)
      BY ONLY <3>1, GetOrCreateIs
    <3>3. PICK w \in Row, n \in SUBSET Detached : Gotten(m, os, d, r, rows, w, n)
      BY <1>1, <3>2
    <3> QED
      BY <3>3 DEF Gotten
  <2>3. PICK o \in n : o.rid = d /\ Put(p, s, DeleteOccurrence(w, n, o))
    BY <1>3, <1>6, <2>2
  <2>4. PICK v \in Row : /\ DeleteOccurrence(w, n, o) = <<v, n \ {o}>> /\ v.ex = w.ex \cup {o.rid}
                         /\ v.start = w.start /\ v.until = w.until /\ v.count = w.count /\ v.st = w.st
    BY DeleteIs
  <2>5. Put(p, s, <<v, n \ {o}>>) /\ v \in Row \cup {NoEvent} /\ n \ {o} \in SUBSET Detached
    BY <2>3, <2>4
  <2>6. /\ occ'[p][s] = n \ {o}
        /\ \A x \in People, y \in Series : x # p \/ y # s => occ'[x][y] = occ[x][y]
    BY <1>2, <2>5, PutIs
  <2>7. n \ {o} \subseteq os /\ (Distinct(os) => \A x \in n \ {o} : x.rid # d)
    <3>1. CASE n = os
      BY <2>3, <3>1 DEF Distinct
    <3>2. CASE (\A x \in os : x.rid # d) /\ \E x \in Detached : n = os \cup {x} /\ x.rid = d
      <4>1. n \ {o} \subseteq os
        BY <2>3, <3>2
      <4> QED
        BY <3>2, <4>1
    <3> QED
      BY <2>2, <3>1, <3>2
  <2>8. ASSUME NEW y \in Series, p = "attendee" \/ y # s PROVE Burying(r, y)
    <3>1. MineOcc(y)' = MineOcc(y)
      BY <1>2, <2>6, <2>8 DEF MineOcc
    <3>2. gone'[y] \subseteq gone[y]
      BY <1>2, <1>3, <1>6, <2>8 DEF CalTyped
    <3> QED
      BY <1>4, <3>1, <3>2, LeavesBuried
  <2>9. ASSUME p = "organizer" PROVE Burying(r, s)
    <3> SUFFICES ASSUME Bare(s)'
                 PROVE  /\ Bare(s) /\ Distinct(n \ {o}) /\ \A x \in n \ {o} : x.rid \notin gone'[s]
                        /\ \A x \in n \ {o} : \E y \in MineOcc(s) : y.id = x.id /\ y.rid = x.rid
      BY <2>6, <2>9 DEF Burying, MineOcc
    <3>1. os = MineOcc(s) /\ gone'[s] = gone[s] \cup {d}
      BY <1>1, <1>2, <1>3, <1>6, <2>9 DEF MineOcc, CalTyped
    <3>2. Bare(s)
      BY <1>2, <1>4 DEF Bare, Clean
    <3>3. Distinct(os) /\ \A x \in os : x.rid \notin gone[s]
      BY <1>2, <3>1, <3>2 DEF Buried
    <3>4. Distinct(n \ {o})
      BY <2>7, <3>3 DEF Distinct
    <3> QED
      BY <2>7, <3>1, <3>2, <3>3, <3>4
  <2>10. \A y \in Series : Burying(r, y)
    BY <1>2, <2>8, <2>9 DEF People
  <2> QED
    BY <1>4, <2>10, BuriedStays DEF Past
<1> QED
  BY <1>5, <1>6

LEMMA SplitBuries ==
  ASSUME CopyInv, OwnInv', Buried, NEW r \in Requests, req[r].at = "commit", CommitSplit(r)
  PROVE  Buried'
<1>1. PICK s, d, os : s = req[r].s /\ d = req[r].slot /\ os = MineOcc(s)
  OBVIOUS
<1>2. /\ CalTyped /\ s \in Series /\ os \in SUBSET Detached /\ "organizer" \in People
      /\ r + 1 \in Series /\ Unborn(r) /\ Prepared(r)
  BY <1>1, RequestIs, CalConstants DEF CopyInv, OwnInv
<1>3. /\ s # r + 1 /\ ~Exists("organizer", r + 1) /\ MineOcc(r + 1) = {}
      /\ req[r].slot \in Nat /\ req[r].slot % Period = req[r].read.start % Period
  <2>1. req[r].op \in SlotOps
    BY DEF CommitSplit, Ready, SlotOps
  <2> QED
    BY <1>1, <1>2, <2>1 DEF Unborn, Prepared, MineOcc
<1>4. /\ Asking(r) /\ req'[r].at = "spread" /\ marks \subseteq marks'
      /\ \A y \in Series \ {r + 1} : RowKept(y)
  BY <1>2, <1>3, CommitSplitIs
<1>5. \A y \in Series \ {r + 1} : (Exists("organizer", y)' => Exists("organizer", y)) /\ gone'[y] \subseteq gone[y]
  BY <1>4 DEF RowKept
<1>6. MineOcc(s)' \subseteq os /\ \A y \in Series \ {s} : MineOcc(y)' = MineOcc(y)
  <2>1. PICK n : /\ n = (IF Exists("organizer", s) THEN SplitEvent(master["organizer"][s], occ["organizer"][s], d)
                         ELSE <<NoEvent, occ["organizer"][s]>>)[2]
    OBVIOUS
  <2>2. n \subseteq os
    BY <1>1, <2>1 DEF SplitEvent, MineOcc
  <2>3. occ' = [occ EXCEPT !["organizer"][s] = n]
    BY <1>1, <2>1 DEF CommitSplit
  <2> QED
    BY <1>2, <2>2, <2>3 DEF MineOcc, CalTyped
<1>7. ASSUME NEW y \in Series \ {r + 1} PROVE Burying(r, y)
  <2>1. MineOcc(y)' \subseteq MineOcc(y)
    BY <1>1, <1>6
  <2>2. Distinct(MineOcc(y)) => Distinct(MineOcc(y)')
    BY <2>1 DEF Distinct
  <2> QED
    BY <1>4, <1>5, <2>1, <2>2, LeavesBuried
<1>8. Burying(r, r + 1)
  BY <1>2, <1>3, <1>6 DEF Burying
<1> QED
  BY <1>2, <1>4, <1>7, <1>8, BuriedStays DEF Past

LEMMA AllBuries ==
  ASSUME CopyInv, OwnInv', Buried, NEW r \in Requests, req[r].at = "commit", CommitAll(r)
  PROVE  Buried'
<1>1. PICK s, b, new, delta :
         /\ s = req[r].s /\ b = req[r].read /\ new = AllEvents(b, req[r].op) /\ delta = new.start - b.start
  OBVIOUS
<1>2. CalTyped /\ s \in Series /\ "organizer" \in People
  BY <1>1, RequestIs
<1>3. Asking(r) /\ req'[r].at = "spread" /\ marks \subseteq marks'
  BY <1>2, CommitAllIs
<1>4. /\ IF Exists("organizer", s)
         THEN Put("organizer", s, <<new, IF delta = 0 THEN occ["organizer"][s]
                                         ELSE Realign(occ["organizer"][s], delta)>>)
         ELSE UNCHANGED <<master, occ>>
      /\ gone' = [gone EXCEPT ![s] = {x + delta : x \in @}]
      /\ delta # 0 => Had(s, "moved")'
  BY <1>1 DEF CommitAll, Had
<1>5. \A y \in Series \ {s} : /\ MineOcc(y)' = MineOcc(y) /\ gone'[y] = gone[y]
                              /\ Exists("organizer", y)' <=> Exists("organizer", y)
  BY <1>2, <1>4 DEF Put, MineOcc, Exists, CalTyped
<1>6. ASSUME NEW y \in Series \ {s} PROVE Burying(r, y)
  BY <1>3, <1>5, LeavesBuried
<1>7. Burying(r, s)
  <2> SUFFICES ASSUME Bare(s)' PROVE Burying(r, s)
    BY DEF Burying
  <2>1. delta = 0
    BY <1>4 DEF Bare, Clean, Had
  <2>2. MineOcc(s)' = MineOcc(s)
    BY <1>2, <1>4, <2>1 DEF Put, MineOcc, CalTyped
  <2>3. Exists("organizer", s)
    BY <1>4 DEF Bare, Exists
  <2>4. gone'[s] \subseteq gone[s]
    <3>1. gone[s] \subseteq Int
      BY <1>2 DEF CalTyped
    <3>2. gone'[s] = {x + delta : x \in gone[s]}
      BY <1>2, <1>4 DEF CalTyped
    <3>3. \A x \in gone[s] : x + 0 = x
      BY <3>1
    <3> QED
      BY <2>1, <3>2, <3>3
  <2> QED
    BY <1>2, <1>3, <2>2, <2>3, <2>4, LeavesBuried
<1> QED
  BY <1>3, <1>6, <1>7, BuriedStays DEF Past

LEMMA CommitsBury ==
  ASSUME CopyInv, OwnInv', Buried, NEW r \in Requests, req[r].at = "commit", Commits(r)
  PROVE  Buried'
<1>1. CalTyped /\ req[r].s \in Series /\ req[r].who \in People /\ "organizer" \in People /\ "attendee" \in People
  BY RequestIs
<1>2. CASE CommitDelete(r)
  <2>1. /\ Asking(r) /\ req'[r].at \in {"spread", "done"} /\ marks \subseteq marks'
        /\ \A y \in Series : (Exists("organizer", y)' => Exists("organizer", y)) /\ gone'[y] \subseteq gone[y]
    BY <1>1, <1>2, DeleteSteps DEF RowKept
  <2>2. PICK p, s : p = req[r].who /\ s = req[r].s
    OBVIOUS
  <2>3. occ' = [occ EXCEPT ![p][s] = {}]
    BY <1>2, <2>2 DEF CommitDelete, Put
  <2>4. \A y \in Series : MineOcc(y)' = MineOcc(y) \/ MineOcc(y)' = {}
    BY <1>1, <2>2, <2>3 DEF MineOcc, CalTyped
  <2>5. \A y \in Series : Burying(r, y)
    BY <2>1, <2>4, LeavesBuried DEF Burying
  <2> QED
    BY <2>1, <2>5, BuriedStays DEF Past
<1>3. CASE CommitAccept(r)
  <2>1. occ'["organizer"] = occ["organizer"]
    BY <1>3 DEF CommitAccept
  <2> QED
    BY <1>1, <1>3, <2>1, CommitAcceptIs, RowsLeftBuried DEF RowKept
<1>4. CASE CommitAcceptOne(r)
  <2>1. occ'["organizer"] = occ["organizer"]
    BY <1>1, <1>4 DEF CommitAcceptOne, Put, CalTyped
  <2> QED
    BY <1>1, <1>4, <2>1, CommitAcceptOneIs, RowsLeftBuried DEF RowKept
<1> QED
  BY <1>2, <1>3, <1>4, AllBuries, OverrideBuries, SplitBuries, CancelBuries DEF Commits

LEMMA SpreadsBury ==
  ASSUME CopyInv, OwnInv', Buried, NEW r \in Requests, Spreads(r)
  PROVE  Buried'
<1>1. CalTyped /\ req[r].s \in Series /\ "organizer" \in People /\ "attendee" \in People
  BY RequestIs
<1>2. ASSUME SpreadAll(r) \/ SpreadOverride(r) \/ SpreadSplit(r) \/ SpreadCancel(r) \/ SpreadDelete(r)
      PROVE  Buried'
  <2>1. /\ Asking(r) /\ req'[r].at \in {"spread", "done"} /\ marks \subseteq marks'
        /\ \A y \in Series : RowKept(y)
    BY <1>1, <1>2, SpreadAllIs, SpreadOverrideIs, SpreadSplitIs, SpreadCancelIs, DeleteSteps
  <2>2. occ'["organizer"] = occ["organizer"]
    <3>1. CASE SpreadAll(r) \/ SpreadCancel(r) \/ SpreadDelete(r)
      BY <1>1, <3>1 DEF SpreadAll, SpreadCancel, SpreadDelete, Put, CalTyped
    <3>2. CASE SpreadOverride(r)
      BY <1>1, <3>2 DEF SpreadOverride, Put, CalTyped
    <3>3. CASE SpreadSplit(r)
      BY <1>1, <3>3 DEF SpreadSplit, CalTyped
    <3> QED
      BY <1>2, <3>1, <3>2, <3>3
  <2> QED
    BY <2>1, <2>2, RowsLeftBuried DEF RowKept
<1>3. CASE SpreadAccept(r)
  <2>1. occ' = occ
    BY <1>3 DEF SpreadAccept
  <2>2. /\ Asking(r) /\ req'[r].at = "done" /\ marks \subseteq marks'
        /\ \A y \in Series : (Exists("organizer", y)' => Exists("organizer", y)) /\ gone'[y] \subseteq gone[y]
    BY <1>1, <1>3, SpreadAcceptIs DEF RowKept
  <2> QED
    BY <2>1, <2>2, RowsLeftBuried
<1>4. CASE SpreadAcceptOne(r) \/ SpreadFails(r)
  <2>1. /\ Asking(r) /\ req'[r].at = "done" /\ marks \subseteq marks'
        /\ \A y \in Series : (Exists("organizer", y)' => Exists("organizer", y)) /\ gone'[y] \subseteq gone[y]
    BY <1>1, <1>4, SpreadAcceptOneIs DEF RowKept
  <2>2. CASE SpreadFails(r)
    BY <2>1, <2>2, RowsLeftBuried DEF SpreadFails
  <2>3. CASE SpreadAcceptOne(r)
    <3>1. PICK s, d : s = req[r].s /\ d = req[r].slot
      OBVIOUS
    <3>2. PICK n : n = Accepted(MineOcc(s), d)
      OBVIOUS
    <3>3. occ' = [occ EXCEPT !["organizer"][s] = n]
      BY <2>3, <3>1, <3>2 DEF SpreadAcceptOne, MineOcc
    <3>4. MineOcc(s)' = n /\ \A y \in Series \ {s} : MineOcc(y)' = MineOcc(y)
      BY <1>1, <3>1, <3>3 DEF MineOcc, CalTyped
    <3>5. MineOcc(s) \in SUBSET Detached
      BY <1>1, <3>1, RequestIs
    <3>6. Within(n, MineOcc(s)) /\ (Distinct(MineOcc(s)) => Distinct(n))
      BY <3>2, <3>5, AcceptedKeeps
    <3>7. \A y \in Series : Burying(r, y)
      <4>1. \A y \in Series \ {s} : Burying(r, y)
        BY <2>1, <3>4, LeavesBuried
      <4>2. Burying(r, s)
        BY <1>1, <2>1, <3>1, <3>4, <3>6, LeavesBuried DEF Within
      <4> QED
        BY <4>1, <4>2
    <3> QED
      BY <2>1, <3>7, BuriedStays DEF Past
  <2> QED
    BY <1>4, <2>2, <2>3
<1> QED
  BY <1>2, <1>3, <1>4 DEF Spreads

LEMMA BeginBuries ==
  ASSUME CopyInv, Buried, NEW r \in Requests, NEW who \in People, NEW op \in Ops, NEW s \in Series,
         NEW slot \in Slots(who, s), NEW moved \in BOOLEAN, Begin(r, who, op, s, slot, moved)
  PROVE  Buried'
<1>1. CalTyped
  BY DEF CopyInv, OwnInv
<1>2. /\ req'[r].who = who /\ req'[r].op = op /\ req'[r].s = s
      /\ \A o \in req'[r].rows : op = "override" /\ o \in occ[who][s] /\ o.rid = slot
      /\ \A q \in Requests \ {r} : req'[q] = req[q]
  BY <1>1, BeginAsks
<1>3. /\ UNCHANGED <<master, occ, gone, marks>>
      /\ op \in (IF who = "organizer" THEN OrganizerOps ELSE AttendeeOps)
  BY DEF Begin
<1>4. \A y \in Series : MineOcc(y)' = MineOcc(y) /\ (Bare(y)' <=> Bare(y)) /\ gone'[y] = gone[y]
  BY <1>3 DEF MineOcc, Bare, Exists, Clean
<1>5. ASSUME op = "override", Bare(s), NEW o \in req'[r].rows, NEW x \in MineOcc(s), x.id = o.id PROVE x.rid = o.rid
  <2>1. who = "organizer"
    BY <1>3, <1>5 DEF AttendeeOps, People
  <2>2. o \in MineOcc(s)
    BY <1>2, <1>5, <2>1 DEF MineOcc
  <2> QED
    BY <1>5, <2>2 DEF Buried, Distinct
<1>6. ASSUME NEW q \in Requests, req'[q].at = "commit", req'[q].op = "override", Bare(req[q].s)'
      PROVE  \A o \in req'[q].rows, x \in MineOcc(req[q].s)' : x.id = o.id => x.rid = o.rid
  <2>1. CASE q = r
    <3>1. Bare(s) /\ MineOcc(req[q].s)' = MineOcc(s)
      BY <1>2, <1>3, <1>6, <2>1 DEF Bare, Exists, Clean, MineOcc
    <3> QED
      BY <1>2, <1>5, <1>6, <2>1, <3>1
  <2>2. CASE q # r
    <3>1. req'[q] = req[q]
      BY <1>2, <2>2
    <3>2. Bare(req[q].s) /\ MineOcc(req[q].s)' = MineOcc(req[q].s)
      BY <1>3, <1>6, <3>1 DEF Bare, Exists, Clean, MineOcc
    <3> QED
      BY <1>6, <3>1, <3>2 DEF Buried
  <2> QED
    BY <2>1, <2>2
<1> QED
  BY <1>4, <1>6 DEF Buried

LEMMA BuriedStart == Init => Buried
  BY CalConstants, RowsAre DEF Init, Buried, MineOcc, Distinct

LEMMA BuriedStep == CopyInv /\ Buried /\ [Next]_vars => Buried'
<1> SUFFICES ASSUME CopyInv, Buried, [Next]_vars PROVE Buried'
  OBVIOUS
<1>1. OwnInv'
  BY OwnStep DEF CopyInv
<1>2. CASE UNCHANGED vars
  <2>1. master' = master /\ occ' = occ /\ req' = req /\ marks' = marks /\ gone' = gone
    BY <1>2 DEF vars
  <2> QED
    BY <2>1 DEF Buried, Bare, Exists, Clean, MineOcc, Distinct
<1>3. ASSUME NEW r \in Requests, req[r].at = "commit", Commits(r) PROVE Buried'
  BY <1>1, <1>3, CommitsBury
<1>4. ASSUME NEW r \in Requests, Spreads(r) PROVE Buried'
  BY <1>1, <1>4, SpreadsBury
<1>5. ASSUME NEW r \in Requests, NEW who \in People, NEW s \in Series, NEW slot \in Slots(who, s),
             NEW op \in Ops, NEW moved \in BOOLEAN, Begin(r, who, op, s, slot, moved)
      PROVE  Buried'
  BY <1>5, BeginBuries
<1> QED
  BY <1>2, <1>3, <1>4, <1>5 DEF Next

(* DeletedStaysDeleted: a date that the organizer deleted is not shown     *)
(* again, whatever is edited, split or detached, unless an override by the *)
(* key of the series names that date; in a series without outdated writes, *)
(* moves and second rows for one date.                                     *)
THEOREM DeletionsLast == Spec => []DeletedStaysDeleted
<1>1. ASSUME CopyInv, Buried PROVE DeletedStaysDeleted
  <2> SUFFICES ASSUME NEW s \in Series, Clean(s, {"stale", "moved", "double"})
               PROVE  gone[s] \cap DatesShown("organizer", s) = {}
    BY DEF DeletedStaysDeleted
  <2>1. CASE ~Exists("organizer", s)
    BY <2>1 DEF DatesShown
  <2>2. CASE Exists("organizer", s)
    <3>1. gone[s] \subseteq master["organizer"][s].ex
      BY <1>1, <2>2 DEF CopyInv, OwnInv, Honest, Hidden, Clean
    <3>2. \A o \in occ["organizer"][s] : o.rid \notin gone[s]
      BY <1>1, <2>2 DEF Buried, Bare, MineOcc
    <3> QED
      BY <3>1, <3>2 DEF DatesShown
  <2> QED
    BY <2>1, <2>2
<1>2. CopyInv /\ Buried /\ [Next]_vars => (CopyInv /\ Buried)'
  BY CopyStep, BuriedStep
<1>3. Init => CopyInv /\ Buried
  BY CopyStart, BuriedStart
<1> QED
  BY <1>1, <1>2, <1>3, PTL DEF Spec
=============================================================================
