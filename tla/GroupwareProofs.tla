--------------------------- MODULE GroupwareProofs --------------------------
(***************************************************************************)
(* Proofs about the parts of the groupware that users share or reach from  *)
(* several places: the team mailbox, the calendar of the CalDAV clients    *)
(* and the folders of a mailbox.  Each is proved for any number of         *)
(* requests, clients, workers, events and mails.                           *)
(***************************************************************************)
EXTENDS CalDav, Mailboxes, SharedMailbox, FiniteSetTheorems, SequenceTheorems, TLAPS

-----------------------------------------------------------------------------
(* SharedMailbox: the notes and assignments                                *)

(* What a deletion has listed, or is still going to list: all there is but *)
(* what came too late for some deletion.                                   *)
Covered(q, i) ==
    \/ i.id \in smLate
    \/ i.id \in q.ids /\ i.kind = q.kind
    \/ i.kind = "assignment" /\ q.kind = "note"

SmTyped ==
    /\ DOMAIN smReq = SmRequests /\ \A r \in SmRequests : "op" \in DOMAIN smReq[r]
    /\ \A r \in SmRequests : smReq[r].op = "item" => smReq[r].kind \in {"note", "assignment"}
    /\ \A r \in SmRequests : smReq[r].op = "delete" =>
          /\ DOMAIN smReq[r] = {"op", "kind", "ids"}
          /\ smReq[r].kind \in {"note", "assignment", "row"}
    /\ \A i \in smItems : DOMAIN i = {"id", "kind", "st"} /\ i.kind \in {"note", "assignment"}
    /\ smRow = NoRow \/ DOMAIN smRow = {"uids", "roles"}

SmInv ==
    /\ SmTyped
    /\ \A r \in SmRequests : smReq[r].op = "delete" => \A i \in smItems : Covered(smReq[r], i)
    /\ GoneWithMailbox

LEMMA SmStarts == SmInit => SmInv
  BY DEF SmInit, SmInv, SmTyped, GoneWithMailbox, SmIdle

(* Where no item is stored, no deletion begins or moves, and no row goes.  *)
LEMMA StoresNothing ==
  ASSUME SmInv, DOMAIN smReq' = SmRequests, \A r \in SmRequests : "op" \in DOMAIN smReq'[r],
         smLate' = smLate, smItems' \subseteq smItems,
         smRow' = smRow \/ DOMAIN smRow' = {"uids", "roles"},
         \A r \in SmRequests : smReq'[r].op = "item" => smReq'[r].kind \in {"note", "assignment"},
         \A r \in SmRequests : smReq'[r].op = "delete" => smReq'[r] = smReq[r]
  PROVE  SmInv'
<1>1. SmTyped'
  BY DEF SmInv, SmTyped
<1>2. \A r \in SmRequests : smReq'[r].op = "delete" => \A i \in smItems' : Covered(smReq[r], i)'
  BY DEF SmInv, Covered
<1>3. GoneWithMailbox'
  <2>1. smRow' = NoRow => smRow = NoRow
    BY DEF NoRow
  <2> QED
    BY <2>1 DEF SmInv, GoneWithMailbox
<1> QED
  BY <1>1, <1>2, <1>3 DEF SmInv, Covered

LEMMA SmStep == SmInv /\ [SmNext]_smVars => SmInv'
<1> SUFFICES ASSUME SmInv, [SmNext]_smVars PROVE SmInv'
  OBVIOUS
<1>0. DOMAIN smReq = SmRequests /\ SmTyped /\ SmIdle.op = "none" /\ "op" \in DOMAIN SmIdle
  BY DEF SmInv, SmTyped, SmIdle
<1>1. CASE UNCHANGED smVars
  BY <1>1, StoresNothing, <1>0 DEF smVars, SmTyped
<1>2. ASSUME NEW r \in SmRequests, NEW S, CreateMailbox(r, S) \/ PutMembers(r, S) PROVE SmInv'
  <2>1. DOMAIN smRow' = {"uids", "roles"}
    BY <1>0, <1>2 DEF CreateMailbox, PutMembers, SmTyped
  <2> QED
    BY <1>0, <1>2, <2>1, StoresNothing DEF CreateMailbox, PutMembers, SmAtOnce, SmTyped
<1>3. ASSUME NEW r \in SmRequests, NEW op \in {"add", "remove", "role", "activity"}, NEW u, NEW role,
             ReadMembers(r, op, u, role)
      PROVE  SmInv'
  <2>1. smReq' = [smReq EXCEPT ![r] = [op |-> op, u |-> u, role |-> role, row |-> smRow]]
        /\ UNCHANGED <<smRow, smItems, smLate>>
    BY <1>3 DEF ReadMembers, SmBegin
  <2>2. smReq'[r].op = op /\ "op" \in DOMAIN smReq'[r] /\ \A q \in SmRequests \ {r} : smReq'[q] = smReq[q]
    BY <1>0, <2>1
  <2> QED
    BY <1>0, <2>1, <2>2, StoresNothing DEF SmTyped
<1>4. ASSUME NEW r \in SmRequests, WriteMembers(r) \/ SmDies(r) PROVE SmInv'
  <2>1. smReq' = [smReq EXCEPT ![r] = SmIdle] /\ UNCHANGED <<smItems, smLate>>
    BY <1>4 DEF WriteMembers, SmDies, SmEnds
  <2>2. smRow' = smRow \/ DOMAIN smRow' = {"uids", "roles"}
    BY <1>4 DEF WriteMembers, SmDies, NewRow
  <2> QED
    BY <1>0, <2>1, <2>2, StoresNothing DEF SmTyped
<1>5. ASSUME NEW r \in SmRequests, NEW kind \in {"note", "assignment"}, CreateItem(r, kind) PROVE SmInv'
  <2>1. /\ smReq' = [smReq EXCEPT ![r] = [op |-> "item", kind |-> kind, id |-> smCount + 1]]
        /\ UNCHANGED <<smRow, smItems, smLate>>
    BY <1>5 DEF CreateItem, SmBegin
  <2>2. /\ smReq'[r].op = "item" /\ smReq'[r].kind = kind /\ "op" \in DOMAIN smReq'[r]
        /\ \A q \in SmRequests \ {r} : smReq'[q] = smReq[q]
    BY <1>0, <2>1
  <2> QED
    BY <1>0, <2>1, <2>2, StoresNothing DEF SmTyped
<1>6. ASSUME NEW r \in SmRequests, InsertItem(r) PROVE SmInv'
  <2> DEFINE i == [id |-> smReq[r].id, kind |-> smReq[r].kind,
                   st |-> IF smReq[r].kind = "note" THEN "note" ELSE "pending"]
  <2>1. /\ smItems' = smItems \cup {i} /\ smReq[r].op = "item" /\ smRow' = smRow
        /\ smReq' = [smReq EXCEPT ![r] = SmIdle]
        /\ smLate \subseteq smLate'
        /\ TooLate(i.kind) => i.id \in smLate'
    BY <1>6 DEF InsertItem, SmEnds
  <2>2. i.kind \in {"note", "assignment"} /\ DOMAIN i = {"id", "kind", "st"}
    BY <1>0, <2>1 DEF SmTyped
  <2> HIDE DEF i
  <2>3. \A q \in SmRequests : smReq'[q].op # "none" => smReq'[q] = smReq[q]
    BY <1>0, <2>1
  <2>4. SmTyped'
    BY <1>0, <2>1, <2>2, <2>3 DEF SmTyped
  <2>5. ASSUME NEW q \in SmRequests, smReq'[q].op = "delete", NEW j \in smItems'
        PROVE  Covered(smReq[q], j)'
    <3>1. smReq'[q] = smReq[q]
      BY <2>3, <2>5
    <3>2. CASE j \in smItems
      BY <2>1, <2>5, <3>1, <3>2 DEF SmInv, Covered
    <3>3. CASE j = i
      <4>1. (smReq[q].kind = "note" /\ i.kind = "assignment") \/ TooLate(i.kind)
        BY <2>2, <2>5, <3>1 DEF TooLate
      <4> QED
        BY <2>1, <3>1, <3>3, <4>1 DEF Covered
    <3> QED
      BY <2>1, <3>2, <3>3
  <2>6. GoneWithMailbox'
    BY <2>1 DEF SmInv, GoneWithMailbox, TooLate
  <2> QED
    BY <2>4, <2>5, <2>6 DEF SmInv
<1>7. ASSUME NEW r \in SmRequests, NEW i \in smItems, DeleteItem(r, i) PROVE SmInv'
  BY <1>0, <1>7, StoresNothing DEF DeleteItem, SmAtOnce, SmTyped
<1>8. ASSUME NEW r \in SmRequests, NEW i \in smItems, NEW st, SetStatus(r, i, st) PROVE SmInv'
  <2> DEFINE j == [i EXCEPT !.st = st]
  <2>1. smItems' = (smItems \ {i}) \cup {j} /\ UNCHANGED <<smReq, smRow, smLate>>
    BY <1>8 DEF SetStatus, SmAtOnce
  <2>2. j.id = i.id /\ j.kind = i.kind /\ DOMAIN j = DOMAIN i
    BY <1>0 DEF SmTyped
  <2> HIDE DEF j
  <2>3. SmTyped'
    BY <1>0, <2>1, <2>2 DEF SmTyped
  <2>4. \A q \in SmRequests : smReq[q].op = "delete" => \A x \in smItems' : Covered(smReq[q], x)
    BY <2>1, <2>2 DEF SmInv, Covered
  <2>5. GoneWithMailbox'
    BY <2>1, <2>2 DEF SmInv, GoneWithMailbox
  <2> QED
    BY <2>1, <2>3, <2>4, <2>5 DEF SmInv, Covered
<1>9. ASSUME NEW r \in SmRequests, DeleteMailbox(r) PROVE SmInv'
  <2> DEFINE ids == {i.id : i \in {x \in smItems : x.kind = "note"}}
             q == [op |-> "delete", kind |-> "note", ids |-> ids]
  <2>1. smReq' = [smReq EXCEPT ![r] = q] /\ UNCHANGED <<smRow, smItems, smLate>>
    BY <1>9 DEF DeleteMailbox, SmBegin
  <2>2. /\ q.op = "delete" /\ q.kind = "note" /\ DOMAIN q = {"op", "kind", "ids"}
        /\ \A i \in smItems : Covered(q, i)
    BY <1>0 DEF SmTyped, Covered
  <2> HIDE DEF q
  <2>3. smReq'[r] = q /\ DOMAIN smReq' = SmRequests /\ \A x \in SmRequests \ {r} : smReq'[x] = smReq[x]
    BY <1>0, <2>1
  <2>4. SmTyped'
    BY <1>0, <2>1, <2>2, <2>3 DEF SmTyped
  <2>5. GoneWithMailbox'
    BY <2>1 DEF SmInv, GoneWithMailbox
  <2> QED
    BY <2>1, <2>2, <2>3, <2>4, <2>5 DEF SmInv, Covered
<1>10. ASSUME NEW r \in SmRequests, DeleteListed(r) PROVE SmInv'
  <2> DEFINE q == smReq[r]
  <2>1. /\ q.op = "delete" /\ q.kind \in {"note", "assignment"} /\ DOMAIN q = {"op", "kind", "ids"}
        /\ smLate' = smLate /\ smRow' = smRow /\ smItems' \subseteq smItems
        /\ \A i \in smItems : Covered(q, i)
    BY <1>0, <1>10 DEF DeleteListed, SmInv, SmTyped
  <2>2. \E new : /\ smReq' = [smReq EXCEPT ![r] = new]
                 /\ new.op = "delete" /\ new.kind \in {"note", "assignment", "row"}
                 /\ DOMAIN new = {"op", "kind", "ids"}
                 /\ \A i \in smItems' : Covered(new, i)
    <3>1. CASE q.ids # {}
      <4>1. PICK n \in q.ids : /\ smItems' = {i \in smItems : i.id # n}
                               /\ smReq' = [smReq EXCEPT ![r].ids = @ \ {n}]
        BY <1>10, <3>1 DEF DeleteListed
      <4> DEFINE new == [q EXCEPT !.ids = q.ids \ {n}]
      <4>2. new.op = "delete" /\ new.kind = q.kind /\ new.ids = q.ids \ {n} /\ DOMAIN new = {"op", "kind", "ids"}
        BY <2>1
      <4>3. smReq' = [smReq EXCEPT ![r] = new]
        BY <1>0, <2>1, <4>1
      <4> HIDE DEF new
      <4>4. \A i \in smItems' : Covered(new, i)
        BY <2>1, <4>1, <4>2 DEF Covered
      <4> QED
        BY <2>1, <4>2, <4>3, <4>4
    <3>2. CASE q.ids = {} /\ q.kind = "note"
      <4> DEFINE ids == {i.id : i \in {x \in smItems : x.kind = "assignment"}}
                 new == [q EXCEPT !.kind = "assignment", !.ids = ids]
      <4>1. smReq' = [smReq EXCEPT ![r] = new] /\ smItems' = smItems
        BY <1>0, <1>10, <3>2 DEF DeleteListed
      <4>2. new.op = "delete" /\ new.kind = "assignment" /\ new.ids = ids /\ DOMAIN new = {"op", "kind", "ids"}
        BY <2>1
      <4> HIDE DEF new
      <4>3. \A i \in smItems' : Covered(new, i)
        BY <1>0, <2>1, <3>2, <4>1, <4>2 DEF Covered, SmTyped
      <4> QED
        BY <4>1, <4>2, <4>3
    <3>3. CASE q.ids = {} /\ q.kind = "assignment"
      <4> DEFINE new == [q EXCEPT !.kind = "row"]
      <4>1. smReq' = [smReq EXCEPT ![r] = new] /\ smItems' = smItems
        BY <1>0, <1>10, <2>1, <3>3 DEF DeleteListed
      <4>2. new.op = "delete" /\ new.kind = "row" /\ new.ids = q.ids /\ DOMAIN new = {"op", "kind", "ids"}
        BY <2>1
      <4> HIDE DEF new
      <4>3. \A i \in smItems' : Covered(new, i)
        BY <1>0, <2>1, <3>3, <4>1, <4>2 DEF Covered, SmTyped
      <4> QED
        BY <4>1, <4>2, <4>3
    <3> QED
      BY <2>1, <3>1, <3>2, <3>3
  <2>3. PICK new : /\ smReq' = [smReq EXCEPT ![r] = new]
                   /\ new.op = "delete" /\ new.kind \in {"note", "assignment", "row"}
                   /\ DOMAIN new = {"op", "kind", "ids"}
                   /\ \A i \in smItems' : Covered(new, i)
    BY <2>2
  <2>4. smReq'[r] = new /\ DOMAIN smReq' = SmRequests /\ \A x \in SmRequests \ {r} : smReq'[x] = smReq[x]
    BY <1>0, <2>3
  <2>5. SmTyped'
    BY <1>0, <2>1, <2>3, <2>4 DEF SmTyped
  <2>6. ASSUME NEW x \in SmRequests, smReq'[x].op = "delete", NEW i \in smItems'
        PROVE  Covered(smReq[x], i)'
    <3>1. Covered(smReq'[x], i)
      BY <2>1, <2>3, <2>4, <2>6 DEF SmInv
    <3> QED
      BY <2>1, <3>1 DEF Covered
  <2>7. GoneWithMailbox'
    BY <2>1 DEF SmInv, GoneWithMailbox
  <2> QED
    BY <2>5, <2>6, <2>7 DEF SmInv
<1>11. ASSUME NEW r \in SmRequests, DeleteRowOf(r) PROVE SmInv'
  <2>1. /\ smReq[r].op = "delete" /\ smReq[r].kind = "row"
        /\ smReq' = [smReq EXCEPT ![r] = SmIdle] /\ UNCHANGED <<smItems, smLate>>
    BY <1>11 DEF DeleteRowOf, SmEnds
  <2>2. \A i \in smItems : i.id \in smLate
    BY <1>0, <2>1 DEF SmInv, SmTyped, Covered
  <2>3. \A q \in SmRequests : smReq'[q].op # "none" => smReq'[q] = smReq[q]
    BY <1>0, <2>1
  <2>4. SmTyped'
    BY <1>0, <1>11, <2>1, <2>3 DEF SmTyped, DeleteRowOf
  <2>5. \A q \in SmRequests : smReq'[q].op = "delete" => \A i \in smItems' : Covered(smReq[q], i)'
    BY <2>1, <2>2 DEF Covered
  <2> QED
    BY <2>1, <2>2, <2>4, <2>5 DEF SmInv, GoneWithMailbox
<1> QED
  BY <1>1, <1>2, <1>3, <1>4, <1>5, <1>6, <1>7, <1>8, <1>9, <1>10, <1>11 DEF SmNext

(* Of a mailbox that is gone only that is left which was stored after a    *)
(* deletion had listed what there was.                                     *)
THEOREM NothingOutlivesMailbox == SmSpec => []GoneWithMailbox
<1>1. SmInv => GoneWithMailbox
  BY DEF SmInv
<1> QED
  BY <1>1, SmStarts, SmStep, PTL DEF SmSpec

-----------------------------------------------------------------------------
(* SharedMailbox: the members and their roles                              *)

(* A user who is exempt from nothing has one entry in the roles or, when   *)
(* not a member, none.                                                     *)
OneEntry(row, u) == Len(row.roles[u]) <= 1 /\ (u \in row.uids <=> row.roles[u] # << >>)

(* What a request has read is a row, and its checks held of it.            *)
ReadOf(q) ==
    /\ "op" \in DOMAIN q
    /\ q.op \in {"add", "remove", "role", "activity"} =>
          /\ q.row \in Row /\ q.u \in SmUsers /\ q.role \in Role
          /\ q.op = "add" => q.u \notin q.row.uids
          /\ q.op = "role" => q.row.roles[q.u] # << >>

GrantInv ==
    /\ DOMAIN smReq = SmRequests /\ \A r \in SmRequests : ReadOf(smReq[r])
    /\ DOMAIN smGrant = SmUsers
    /\ smRow # NoRow => smRow \in Row /\ \A u \in SmUsers \ smOff : OneEntry(smRow, u)
    /\ RoleAsGranted

LEMMA RowThere == \A row \in Row : row # NoRow
<1> SUFFICES ASSUME NEW row \in Row PROVE row # NoRow
  OBVIOUS
<1>1. "uids" \in DOMAIN row /\ "uids" \notin DOMAIN NoRow
  BY DEF Row, NoRow
<1> QED
  BY <1>1

(* The entry of a user gets another role.                                  *)
LEMMA FirstChanged ==
  ASSUME NEW s \in Seq(Role), s # << >>, NEW x \in Role
  PROVE  LET t == [s EXCEPT ![1] = x]
         IN  t \in Seq(Role) /\ t # << >> /\ Len(t) = Len(s) /\ Head(t) = x
<1>1. Len(s) \in Nat /\ 1 \in 1 .. Len(s)
  BY EmptySeq
<1>2. /\ [s EXCEPT ![1] = x] \in Seq(Role) /\ Len([s EXCEPT ![1] = x]) = Len(s)
      /\ [s EXCEPT ![1] = x][1] = x
  BY <1>1, ExceptSeq
<1> QED
  BY <1>1, <1>2, EmptySeq

(* Nothing of the row, the grants and the exempt changes.                  *)
LEMMA GrantKept ==
  ASSUME GrantInv, UNCHANGED <<smRow, smGrant, smOff>>,
         DOMAIN smReq' = SmRequests, \A r \in SmRequests : ReadOf(smReq'[r])
  PROVE  GrantInv'
  BY DEF GrantInv, RoleAsGranted

(* A new row, in which each user who is still told of has the entry that   *)
(* goes with the role that was granted.                                    *)
LEMMA GrantMoved ==
  ASSUME GrantInv, smRow' \in Row, DOMAIN smGrant' = SmUsers,
         DOMAIN smReq' = SmRequests, \A r \in SmRequests : ReadOf(smReq'[r]),
         \A u \in SmUsers \ smOff' :
            OneEntry(smRow', u) /\ RoleIn(smRow', u) = smGrant'[u]
  PROVE  GrantInv'
  BY RowThere DEF GrantInv, RoleAsGranted

LEMMA GrantStarts == SmInit => GrantInv
  BY DEF SmInit, GrantInv, RoleAsGranted, RoleIn, ReadOf, SmIdle

LEMMA WriteTyped ==
  ASSUME GrantInv, NEW r \in SmRequests, WriteMembers(r), smRow # NoRow
  PROVE  smRow' \in Row /\ DOMAIN smGrant' = SmUsers
<1> DEFINE q == smReq[r]
<1>1. /\ q.op \in {"add", "remove", "role", "activity"} /\ ReadOf(q)
      /\ smRow' = NewRow(q, smRow)
  BY DEF WriteMembers, GrantInv
<1>2. DOMAIN smGrant' = SmUsers
  BY DEF WriteMembers, GrantInv
<1> HIDE DEF q
<1>3. /\ q.row \in Row /\ q.u \in SmUsers /\ q.role \in Role /\ smRow \in Row
      /\ q.op = "role" => q.row.roles[q.u] # << >>
  BY <1>1 DEF ReadOf, GrantInv
<1>4. /\ q.row.roles \in [SmUsers -> Seq(Role)] /\ q.row.uids \subseteq SmUsers
      /\ smRow.uids \subseteq SmUsers /\ q.row.roles[q.u] \in Seq(Role)
  BY <1>3 DEF Row
<1>5. ASSUME NEW s \in Seq(Role) PROVE [q.row.roles EXCEPT ![q.u] = s] \in [SmUsers -> Seq(Role)]
  BY <1>3, <1>4
<1>6. CASE q.op = "add"
  <2>1. Append(q.row.roles[q.u], q.role) \in Seq(Role)
    BY <1>3, <1>4
  <2> QED
    BY <1>1, <1>2, <1>3, <1>4, <1>5, <1>6, <2>1 DEF NewRow, Row
<1>7. CASE q.op = "remove"
  <2>1. << >> \in Seq(Role)
    OBVIOUS
  <2> QED
    BY <1>1, <1>2, <1>3, <1>4, <1>5, <1>7, <2>1 DEF NewRow, Row
<1>8. CASE q.op = "role"
  <2>1. [q.row.roles[q.u] EXCEPT ![1] = q.role] \in Seq(Role)
    BY <1>3, <1>4, <1>8, FirstChanged
  <2> QED
    BY <1>1, <1>2, <1>3, <1>4, <1>5, <1>8, <2>1 DEF NewRow, Row
<1>9. CASE q.op = "activity"
  BY <1>1, <1>2, <1>4, <1>9 DEF NewRow, Row
<1> QED
  BY <1>1, <1>6, <1>7, <1>8, <1>9

(* What a write leaves: each request is checked against the row it read,   *)
(* which agrees with the present one about the users who are told of.      *)
LEMMA WriteGrants ==
  ASSUME GrantInv, NEW r \in SmRequests, WriteMembers(r), smRow # NoRow,
         NEW u \in SmUsers \ smOff'
  PROVE  OneEntry(smRow', u) /\ RoleIn(smRow', u) = smGrant'[u] /\ smRow' \in Row
<1> DEFINE q == smReq[r]
<1>1. /\ q.op \in {"add", "remove", "role", "activity"} /\ ReadOf(q)
      /\ smRow' = NewRow(q, smRow)
  BY DEF WriteMembers, GrantInv
<1>2. /\ q.row \in Row /\ q.u \in SmUsers /\ q.role \in Role
      /\ q.op = "add" => q.u \notin q.row.uids
      /\ q.op = "role" => q.row.roles[q.u] # << >>
  BY <1>1 DEF ReadOf
<1>3. /\ u \notin smOff /\ q.row.roles[u] = smRow.roles[u]
      /\ (u \in q.row.uids) = (u \in smRow.uids)
  BY DEF WriteMembers
<1>4. /\ smRow \in Row /\ OneEntry(smRow, u) /\ RoleIn(smRow, u) = smGrant[u]
      /\ DOMAIN smGrant = SmUsers
  BY <1>3 DEF GrantInv, RoleAsGranted
<1>5. smGrant' = CASE q.op = "remove" -> [smGrant EXCEPT ![q.u] = "none"]
                   [] q.op = "activity" -> smGrant
                   [] OTHER -> [smGrant EXCEPT ![q.u] = q.role]
  BY DEF WriteMembers
<1> HIDE DEF q
<1>6. /\ q.row.roles \in [SmUsers -> Seq(Role)] /\ q.row.uids \subseteq SmUsers
      /\ smRow.roles \in [SmUsers -> Seq(Role)] /\ smRow.uids \subseteq SmUsers
      /\ q.row.roles[u] \in Seq(Role) /\ q.row.roles[q.u] \in Seq(Role)
  BY <1>2, <1>4 DEF Row
<1>7. CASE q.op = "add"
  <2> DEFINE roles == [q.row.roles EXCEPT ![q.u] = Append(@, q.role)]
             row == [uids |-> q.row.uids \cup {q.u}, roles |-> roles]
  <2>1. smRow' = row /\ smGrant' = [smGrant EXCEPT ![q.u] = q.role]
    BY <1>1, <1>5, <1>7 DEF NewRow
  <2>2. roles \in [SmUsers -> Seq(Role)]
    BY <1>2, <1>6
  <2>3. row \in Row /\ row.roles = roles /\ row.uids = q.row.uids \cup {q.u}
    BY <1>2, <1>6, <2>2 DEF Row
  <2>4. CASE u = q.u
    <3>1. q.row.roles[u] = << >>
      BY <1>2, <1>3, <1>4, <1>7, <2>4 DEF OneEntry
    <3>2. roles[u] = <<q.role>>
      BY <1>2, <1>6, <2>4, <3>1
    <3>3. Len(roles[u]) = 1 /\ roles[u] # << >> /\ Head(roles[u]) = q.role
      <4> HIDE DEF roles
      <4>1. Len(<<q.role>>) = 1 /\ <<q.role>> # << >> /\ <<q.role>>[1] = q.role
        OBVIOUS
      <4> QED
        BY <3>2, <4>1
    <3>4. u \in row.uids /\ row # NoRow
      BY <2>3, <2>4, RowThere
    <3>5. smGrant'[u] = q.role
      BY <1>2, <1>4, <2>1, <2>4
    <3> HIDE DEF roles, row
    <3> QED
      BY <2>1, <2>3, <3>3, <3>4, <3>5 DEF OneEntry, RoleIn
  <2>5. CASE u # q.u
    <3>1. roles[u] = smRow.roles[u] /\ smGrant'[u] = smGrant[u]
      BY <1>2, <1>3, <1>4, <1>6, <2>1, <2>5
    <3> QED
      BY <1>3, <1>4, <2>1, <2>3, <2>5, <3>1, RowThere DEF OneEntry, RoleIn
  <2> QED
    BY <2>4, <2>5
<1>8. CASE q.op = "remove"
  <2> DEFINE roles == [q.row.roles EXCEPT ![q.u] = << >>]
             row == [uids |-> q.row.uids \ {q.u}, roles |-> roles]
  <2>1. smRow' = row /\ smGrant' = [smGrant EXCEPT ![q.u] = "none"]
    BY <1>1, <1>5, <1>8 DEF NewRow
  <2>2. roles \in [SmUsers -> Seq(Role)]
    BY <1>2, <1>6
  <2>3. row \in Row /\ row.roles = roles /\ row.uids = q.row.uids \ {q.u}
    BY <1>2, <1>6, <2>2 DEF Row
  <2>4. CASE u = q.u
    <3>1. roles[u] = << >> /\ Len(<< >>) = 0
      BY <1>2, <1>6, <2>4
    <3> QED
      BY <1>2, <1>4, <2>1, <2>3, <2>4, <3>1, RowThere DEF OneEntry, RoleIn
  <2>5. CASE u # q.u
    <3>1. roles[u] = smRow.roles[u] /\ smGrant'[u] = smGrant[u]
      BY <1>2, <1>3, <1>4, <1>6, <2>1, <2>5
    <3> QED
      BY <1>3, <1>4, <2>1, <2>3, <2>5, <3>1, RowThere DEF OneEntry, RoleIn
  <2> QED
    BY <2>4, <2>5
<1>9. CASE q.op = "role"
  <2> DEFINE roles == [q.row.roles EXCEPT ![q.u][1] = q.role]
             row == [uids |-> smRow.uids, roles |-> roles]
  <2>1. smRow' = row /\ smGrant' = [smGrant EXCEPT ![q.u] = q.role]
    BY <1>1, <1>5, <1>9 DEF NewRow
  <2>2. roles \in [SmUsers -> Seq(Role)]
    <3>1. [q.row.roles[q.u] EXCEPT ![1] = q.role] \in Seq(Role)
      BY <1>2, <1>6, <1>9, FirstChanged
    <3> QED
      BY <1>2, <1>6, <3>1
  <2>3. row \in Row /\ row.roles = roles /\ row.uids = smRow.uids
    BY <1>6, <2>2 DEF Row
  <2>4. CASE u = q.u
    <3>1. /\ roles[u] = [q.row.roles[u] EXCEPT ![1] = q.role]
          /\ q.row.roles[u] # << >> /\ Len(q.row.roles[u]) <= 1 /\ u \in smRow.uids
      BY <1>2, <1>3, <1>4, <1>6, <1>9, <2>4 DEF OneEntry
    <3>2. roles[u] # << >> /\ Len(roles[u]) <= 1 /\ Head(roles[u]) = q.role
      BY <1>2, <1>6, <3>1, FirstChanged
    <3>3. smGrant'[u] = q.role /\ row # NoRow
      BY <1>2, <1>4, <2>1, <2>3, <2>4, RowThere
    <3> HIDE DEF roles, row
    <3> QED
      BY <2>1, <2>3, <3>1, <3>2, <3>3 DEF OneEntry, RoleIn
  <2>5. CASE u # q.u
    <3>1. roles[u] = smRow.roles[u] /\ smGrant'[u] = smGrant[u]
      BY <1>2, <1>3, <1>4, <1>6, <2>1, <2>5
    <3> QED
      BY <1>3, <1>4, <2>1, <2>3, <2>5, <3>1, RowThere DEF OneEntry, RoleIn
  <2> QED
    BY <2>4, <2>5
<1>10. CASE q.op = "activity"
  <2> DEFINE row == [uids |-> smRow.uids, roles |-> q.row.roles]
  <2>1. smRow' = row /\ smGrant' = smGrant
    BY <1>1, <1>5, <1>10 DEF NewRow
  <2>2. row \in Row
    BY <1>6 DEF Row
  <2> QED
    BY <1>3, <1>4, <2>1, <2>2, RowThere DEF OneEntry, RoleIn
<1> QED
  BY <1>1, <1>7, <1>8, <1>9, <1>10

(* What a request that ends or begins leaves of the requests.              *)
LEMMA RequestSet ==
  ASSUME GrantInv, NEW r \in SmRequests, NEW q, ReadOf(q), smReq' = [smReq EXCEPT ![r] = q]
  PROVE  DOMAIN smReq' = SmRequests /\ \A x \in SmRequests : ReadOf(smReq'[x])
<1>1. DOMAIN smReq = SmRequests /\ \A x \in SmRequests : ReadOf(smReq[x])
  BY DEF GrantInv
<1>2. DOMAIN smReq' = SmRequests /\ \A x \in SmRequests : smReq'[x] = IF x = r THEN q ELSE smReq[x]
  BY <1>1
<1> QED
  BY <1>1, <1>2

LEMMA GrantStep == GrantInv /\ [SmNext]_smVars => GrantInv'
<1> SUFFICES ASSUME GrantInv, [SmNext]_smVars PROVE GrantInv'
  OBVIOUS
<1>0. /\ DOMAIN smReq = SmRequests /\ \A r \in SmRequests : ReadOf(smReq[r])
      /\ ReadOf(SmIdle)
  BY DEF GrantInv, ReadOf, SmIdle
<1>1. ASSUME UNCHANGED <<smRow, smGrant, smOff, smReq>> PROVE GrantInv'
  BY <1>0, <1>1, GrantKept
<1>2. ASSUME NEW r \in SmRequests, NEW q, ReadOf(q), UNCHANGED <<smRow, smGrant, smOff>>,
             smReq' = [smReq EXCEPT ![r] = q]
      PROVE  GrantInv'
  BY <1>2, RequestSet, GrantKept
<1>3. ASSUME NEW r \in SmRequests, NEW S \in SUBSET SmUsers, CreateMailbox(r, S) PROVE GrantInv'
  <2> DEFINE roles == [u \in SmUsers |-> IF u \in S THEN <<"member">> ELSE << >>]
             row == [uids |-> S, roles |-> roles]
  <2>1. /\ smRow' = row /\ smReq' = smReq
        /\ smGrant' = [u \in SmUsers |-> IF u \in S THEN "member" ELSE "none"]
    BY <1>3 DEF CreateMailbox, SmAtOnce
  <2>2. <<"member">> \in Seq(Role) /\ << >> \in Seq(Role)
    BY DEF Role
  <2>3. row \in Row
    BY <2>2 DEF Row
  <2>4. /\ Len(<<"member">>) = 1 /\ <<"member">> # << >> /\ Head(<<"member">>) = "member"
        /\ Len(<< >>) = 0
    OBVIOUS
  <2>5. ASSUME NEW u \in SmUsers PROVE OneEntry(row, u) /\ RoleIn(row, u) = smGrant'[u]
    <3>1. CASE u \in S
      BY <2>1, <2>3, <2>4, <3>1, RowThere DEF OneEntry, RoleIn
    <3>2. CASE u \notin S
      BY <2>1, <2>3, <2>4, <3>2, RowThere DEF OneEntry, RoleIn
    <3> QED
      BY <3>1, <3>2
  <2> HIDE DEF row
  <2> QED
    BY <1>0, <2>1, <2>3, <2>5, GrantMoved
<1>4. ASSUME NEW r \in SmRequests, NEW S \in SUBSET SmUsers, PutMembers(r, S) PROVE GrantInv'
  <2>1. /\ smRow # NoRow /\ smRow' = [smRow EXCEPT !.uids = S] /\ UNCHANGED <<smReq, smGrant>>
        /\ smOff' = smOff \cup {u \in SmUsers : (u \in S) # (u \in smRow.uids)}
    BY <1>4 DEF PutMembers, SmAtOnce
  <2>2. smRow \in Row /\ DOMAIN smGrant = SmUsers
    BY <2>1 DEF GrantInv
  <2>3. smRow' \in Row /\ smRow'.roles = smRow.roles /\ smRow'.uids = S
    BY <2>1, <2>2 DEF Row
  <2>4. ASSUME NEW u \in SmUsers \ smOff' PROVE OneEntry(smRow', u) /\ RoleIn(smRow', u) = smGrant'[u]
    <3>1. u \notin smOff /\ (u \in S <=> u \in smRow.uids)
      BY <2>1
    <3>2. OneEntry(smRow, u) /\ RoleIn(smRow, u) = smGrant[u]
      BY <2>1, <3>1 DEF GrantInv, RoleAsGranted
    <3>3. smRow' # NoRow
      BY <2>3, RowThere
    <3> QED
      BY <2>1, <2>3, <3>1, <3>2, <3>3 DEF OneEntry, RoleIn
  <2> QED
    BY <1>0, <2>1, <2>2, <2>3, <2>4, GrantMoved
<1>5. ASSUME NEW r \in SmRequests, NEW op \in {"add", "remove", "role", "activity"}, NEW u \in SmUsers,
             NEW role \in Role, ReadMembers(r, op, u, role)
      PROVE  GrantInv'
  <2> DEFINE q == [op |-> op, u |-> u, role |-> role, row |-> smRow]
  <2>1. smReq' = [smReq EXCEPT ![r] = q] /\ UNCHANGED <<smRow, smGrant, smOff>>
    BY <1>5 DEF ReadMembers, SmBegin
  <2>2. smRow \in Row
    BY <1>5 DEF ReadMembers, GrantInv
  <2>3. (op = "add" => u \notin smRow.uids) /\ (op = "role" => smRow.roles[u] # << >>)
    BY <1>5 DEF ReadMembers
  <2>4. ReadOf(q)
    BY <2>2, <2>3 DEF ReadOf
  <2> HIDE DEF q
  <2> QED
    BY <1>2, <2>1, <2>4
<1>6. ASSUME NEW r \in SmRequests, WriteMembers(r) PROVE GrantInv'
  <2>1. smReq' = [smReq EXCEPT ![r] = SmIdle]
    BY <1>6 DEF WriteMembers, SmEnds
  <2>2. CASE smRow = NoRow
    BY <1>0, <1>2, <1>6, <2>1, <2>2 DEF WriteMembers
  <2>3. CASE smRow # NoRow
    <3>1. \A u \in SmUsers \ smOff' :
             OneEntry(smRow', u) /\ RoleIn(smRow', u) = smGrant'[u] /\ smRow' \in Row
      BY <1>6, <2>3, WriteGrants
    <3>2. smRow' \in Row /\ DOMAIN smGrant' = SmUsers
      BY <1>6, <2>3, WriteTyped
    <3>3. DOMAIN smReq' = SmRequests /\ \A x \in SmRequests : ReadOf(smReq'[x])
      BY <1>0, <2>1, RequestSet
    <3> QED
      BY <3>1, <3>2, <3>3, GrantMoved
  <2> QED
    BY <2>2, <2>3
<1>7. ASSUME NEW r \in SmRequests, NEW kind \in {"note", "assignment"}, CreateItem(r, kind) PROVE GrantInv'
  <2> DEFINE q == [op |-> "item", kind |-> kind, id |-> smCount + 1]
  <2>1. smReq' = [smReq EXCEPT ![r] = q] /\ UNCHANGED <<smRow, smGrant, smOff>>
    BY <1>7 DEF CreateItem, SmBegin
  <2>2. ReadOf(q)
    BY DEF ReadOf
  <2> HIDE DEF q
  <2> QED
    BY <1>2, <2>1, <2>2
<1>8. ASSUME NEW r \in SmRequests, InsertItem(r) \/ SmDies(r) PROVE GrantInv'
  BY <1>0, <1>2, <1>8 DEF InsertItem, SmDies, SmEnds
<1>9. ASSUME NEW r \in SmRequests, NEW i, DeleteItem(r, i) \/ \E st : SetStatus(r, i, st) PROVE GrantInv'
  BY <1>1, <1>9 DEF DeleteItem, SetStatus, SmAtOnce
<1>10. ASSUME NEW r \in SmRequests, DeleteMailbox(r) PROVE GrantInv'
  <2> DEFINE q == [op |-> "delete", kind |-> "note", ids |-> {i.id : i \in {x \in smItems : x.kind = "note"}}]
  <2>1. smReq' = [smReq EXCEPT ![r] = q] /\ UNCHANGED <<smRow, smGrant, smOff>>
    BY <1>10 DEF DeleteMailbox, SmBegin
  <2>2. ReadOf(q)
    BY DEF ReadOf
  <2> HIDE DEF q
  <2> QED
    BY <1>2, <2>1, <2>2
<1>11. ASSUME NEW r \in SmRequests, DeleteListed(r) PROVE GrantInv'
  <2>1. smReq[r].op = "delete" /\ UNCHANGED <<smRow, smGrant, smOff>>
    BY <1>11 DEF DeleteListed
  <2>2. \/ \E ids : smReq' = [smReq EXCEPT ![r] = [@ EXCEPT !.ids = ids]]
        \/ \E kind, ids : smReq' = [smReq EXCEPT ![r] = [@ EXCEPT !.kind = kind, !.ids = ids]]
        \/ \E kind : smReq' = [smReq EXCEPT ![r] = [@ EXCEPT !.kind = kind]]
    BY <1>11 DEF DeleteListed
  <2>3. DOMAIN smReq' = SmRequests /\ \A x \in SmRequests \ {r} : smReq'[x] = smReq[x]
    BY <1>0, <2>2
  <2>4. smReq'[r].op = "delete" /\ "op" \in DOMAIN smReq'[r]
    BY <1>0, <2>1, <2>2 DEF ReadOf
  <2>5. ReadOf(smReq'[r])
    BY <2>4 DEF ReadOf
  <2> QED
    BY <1>0, <2>1, <2>3, <2>5, GrantKept
<1>12. ASSUME NEW r \in SmRequests, DeleteRowOf(r) PROVE GrantInv'
  <2>1. /\ smReq' = [smReq EXCEPT ![r] = SmIdle] /\ smRow' = NoRow
        /\ smGrant' = [u \in SmUsers |-> "none"]
    BY <1>12 DEF DeleteRowOf, SmEnds
  <2>2. DOMAIN smReq' = SmRequests /\ \A x \in SmRequests : ReadOf(smReq'[x])
    BY <1>0, <2>1, RequestSet
  <2>3. RoleAsGranted'
    BY <2>1 DEF RoleAsGranted, RoleIn
  <2> QED
    BY <2>1, <2>2, <2>3 DEF GrantInv
<1>13. CASE UNCHANGED smVars
  BY <1>1, <1>13 DEF smVars
<1>14. CASE SmNext
  BY <1>3, <1>4, <1>5, <1>6, <1>7, <1>8, <1>9, <1>10, <1>11, <1>12, <1>14 DEF SmNext
<1> QED
  BY <1>13, <1>14

(* A user has the role that was granted last, and none once removed, where *)
(* no outdated write and no list of members put in whole touched the user: *)
(* the two columns never disagree about it.                                *)
THEOREM RolesAreGranted == SmSpec => []RoleAsGranted
<1>1. GrantInv => RoleAsGranted
  BY DEF GrantInv
<1> QED
  BY <1>1, GrantStarts, GrantStep, PTL DEF SmSpec

-----------------------------------------------------------------------------
(* CalDav: the ETags and the sync tokens                                   *)

DavEvent == [seq: Nat, etag: Nat \X Nat, val: Nat, from: DavWorkers \X Nat]
DavHome == {<<>>} \cup (DavWorkers \X Nat)
DavCopies == [DavUids -> DavEvent \cup {NoEv}]
DavView == [token: Nat, home: DavHome, missed: BOOLEAN, agrees: BOOLEAN, copy: DavCopies]
Put == [step: {"bump", "store", "pop", "bury"}, kind: {"store", "pop"}, w: DavWorkers, u: DavUids, val: Nat, new: BOOLEAN,
        seq: Nat, at: Nat, from: DavHome]

(* A PUT or DELETE that has counted and is not yet done. *)
HasNumber(c) == davPut[c].step \in {"store", "pop", "bury"}

DavTyped ==
    /\ davCal \in [DavWorkers -> Nat \cup {NoCalendar}]
    /\ davGen \in [DavWorkers -> Nat]
    /\ davEv \in [DavWorkers -> DavCopies]
    /\ davTomb \in [DavWorkers -> [DavUids -> Nat]]
    /\ davPut \in [DavClients -> Put \cup {NoPut}]
    /\ \A c \in DavClients : HasNumber(c) => davPut[c].from \in {davPut[c].w} \X Nat
    /\ davView \in [DavFollowers -> DavView]
    /\ davNow \in Nat /\ davCount \in Nat

LEMMA DavRecords ==
    /\ NoEv \notin DavEvent /\ NoPut \notin Put /\ NoPut.step = "none"
    /\ NewView \in DavView
    /\ \A a \in DavWorkers \X Nat : a # <<>>
  BY DEF DavEvent, NoEv, Put, NoPut, NewView, DavView, DavHome, DavCopies

(* What an answer does to the counter of a worker. *)
LEMMA DavCounts ==
  ASSUME DavTyped, NEW w \in DavWorkers
  PROVE  /\ Counter(w) \in Nat /\ Gen(w) \in Nat /\ Gen(w) >= davGen[w]
         /\ davCal[w] # NoCalendar => Counter(w) = davCal[w] /\ Gen(w) = davGen[w]
         /\ davCal[w] = NoCalendar => Counter(w) = 0 /\ Gen(w) = davGen[w] + 1
  BY DEF DavTyped, Counter, Gen, NoCalendar

LEMMA DavStarts == DavInit => DavTyped
  BY DavRecords, DavAssumption DEF DavInit, DavTyped, DavCopies, NoCalendar, HasNumber

LEMMA BumpTypes ==
  ASSUME DavTyped, NEW w \in DavWorkers, Bump(w) \/ Kept(w)
  PROVE  davCal' \in [DavWorkers -> Nat \cup {NoCalendar}] /\ davGen' \in [DavWorkers -> Nat]
<1>1. Counter(w) \in Nat /\ Counter(w) + 1 \in Nat /\ Gen(w) \in Nat
  BY DavCounts
<1>2. davGen' = [davGen EXCEPT ![w] = Gen(w)]
  BY DEF Bump, Kept
<1>3. \E n \in Nat : davCal' = [davCal EXCEPT ![w] = n]
  BY <1>1 DEF Bump, Kept
<1> QED
  BY <1>1, <1>2, <1>3 DEF DavTyped

LEMMA ViewTypes ==
  ASSUME NEW v \in DavView, NEW from \in DavWorkers \X Nat, NEW u \in DavUids, NEW e \in DavEvent \cup {NoEv}
  PROVE  /\ Meets(v, from) \in DavView
         /\ [Meets(v, from) EXCEPT !.copy[u] = e] \in DavView
  BY DEF DavView, Meets, DavHome, DavCopies

LEMMA DavTypesKept == DavTyped /\ [DavNext]_davVars => DavTyped'
<1> SUFFICES ASSUME DavTyped, [DavNext]_davVars PROVE DavTyped'
  OBVIOUS
<1>1. CASE UNCHANGED davVars
  BY <1>1 DEF davVars, DavTyped, HasNumber
<1>2. ASSUME NEW c \in DavClients, NEW w \in DavWorkers, NEW u \in DavUids, NEW cond,
             PutCheck(c, w, u, cond) \/ DeleteCheck(c, w, u, cond)
      PROVE  DavTyped'
  <2>0. PICK kind \in {"store", "pop"} : DavRequest(c, w, u, kind)
    BY <1>2 DEF PutCheck, DeleteCheck
  <2> DEFINE p == [step |-> "bump", kind |-> kind, w |-> w, u |-> u, val |-> davCount + 1,
                   new |-> davEv[w][u] = NoEv, seq |-> 0, at |-> 0, from |-> <<>>]
  <2>1. davPut' = [davPut EXCEPT ![c] = p] /\ davCount' = davCount + 1
        /\ Kept(w) /\ UNCHANGED <<davEv, davTomb, davView, davNow>>
    BY <1>2, <2>0 DEF PutCheck, DeleteCheck, Changes, DavRequest
  <2>2. p \in Put /\ p.step = "bump"
    BY DEF Put, DavHome, DavTyped
  <2> HIDE DEF p
  <2> QED
    BY <2>1, <2>2, BumpTypes DEF DavTyped, HasNumber
<1>3. ASSUME NEW c \in DavClients, TakeNumber(c) PROVE DavTyped'
  <2> DEFINE w == davPut[c].w
  <2>1. davPut[c] \in Put
    BY <1>3, DavRecords DEF TakeNumber, DavTyped
  <2>2. w \in DavWorkers
    BY <2>1 DEF Put
  <2>3. CASE davCal[w] = NoCalendar
    BY <1>3, <2>3, DavRecords DEF TakeNumber, DavTyped, HasNumber
  <2>4. CASE davCal[w] # NoCalendar
    <3> DEFINE p == [davPut[c] EXCEPT !.step = davPut[c].kind, !.seq = davCal[w] + 1, !.at = davNow,
                                      !.from = <<w, davGen[w]>>]
    <3>1. davPut' = [davPut EXCEPT ![c] = p] /\ Bump(w)
          /\ UNCHANGED <<davEv, davTomb, davView, davNow, davCount>>
      BY <1>3, <2>4 DEF TakeNumber, DavTyped
    <3>2. davCal[w] + 1 \in Nat /\ davNow \in Nat /\ davGen[w] \in Nat
      BY <2>2, <2>4 DEF DavTyped
    <3>3. <<w, davGen[w]>> \in {w} \X Nat /\ <<w, davGen[w]>> \in DavHome
      BY <2>2, <3>2 DEF DavHome
    <3>4. p \in Put /\ p.from = <<w, davGen[w]>> /\ p.w = w
      BY <2>1, <3>2, <3>3 DEF Put
    <3> HIDE DEF p
    <3> QED
      BY <2>2, <3>1, <3>3, <3>4, BumpTypes DEF DavTyped, HasNumber
  <2> QED
    BY <2>3, <2>4
<1>4. ASSUME NEW c \in DavClients, PutStore(c) PROVE DavTyped'
  <2> DEFINE p == davPut[c]
             e == [seq |-> p.seq, etag |-> Etag(p.seq, p.at), val |-> p.val, from |-> p.from]
  <2>1. p \in Put /\ p.from \in DavWorkers \X Nat /\ p.w \in DavWorkers /\ p.u \in DavUids
    BY <1>4, DavRecords DEF PutStore, DavTyped, Put, HasNumber
  <2>2. e \in DavEvent
    BY <2>1 DEF DavEvent, Put, Etag
  <2>3. /\ davEv' = [davEv EXCEPT ![p.w][p.u] = e]
        /\ davTomb' = IF p.new THEN [davTomb EXCEPT ![p.w][p.u] = 0] ELSE davTomb
        /\ davView' = TellAll(p.w, p.seq, Noted(c, p.u, e, p.from))
        /\ davPut' = [davPut EXCEPT ![c] = NoPut]
        /\ UNCHANGED <<davCal, davGen, davNow, davCount>>
    BY <1>4 DEF PutStore
  <2> HIDE DEF p, e
  <2>4. davEv' \in [DavWorkers -> DavCopies] /\ davTomb' \in [DavWorkers -> [DavUids -> Nat]]
    BY <2>1, <2>2, <2>3 DEF DavTyped, DavCopies
  <2>5. Noted(c, p.u, e, p.from) \in [DavFollowers -> DavView]
    BY <2>1, <2>2, ViewTypes DEF Noted, DavTyped
  <2>6. davView' \in [DavFollowers -> DavView]
    BY <2>3, <2>5 DEF TellAll, DavView
  <2> QED
    BY <2>3, <2>4, <2>6, DavRecords DEF DavTyped, HasNumber
<1>5. ASSUME NEW c \in DavClients, DeletePop(c) PROVE DavTyped'
  <2> DEFINE p == davPut[c]
  <2>1. p \in Put /\ p.w \in DavWorkers /\ p.u \in DavUids /\ p.from \in {p.w} \X Nat
    BY <1>5, DavRecords DEF DeletePop, DavTyped, Put, HasNumber
  <2>2. UNCHANGED <<davCal, davGen, davTomb, davNow, davCount>>
    BY <1>5 DEF DeletePop
  <2>3. CASE davEv[p.w][p.u] = NoEv
    BY <1>5, <2>2, <2>3, DavRecords DEF DeletePop, DavTyped, HasNumber
  <2>4. CASE davEv[p.w][p.u] # NoEv
    <3>1. /\ davEv' = [davEv EXCEPT ![p.w][p.u] = NoEv] /\ davView' = TellAll(p.w, p.seq, davView)
          /\ davPut' = [davPut EXCEPT ![c] = [p EXCEPT !.step = "bury"]]
      BY <1>5, <2>4 DEF DeletePop
    <3>2. [p EXCEPT !.step = "bury"] \in Put /\ [p EXCEPT !.step = "bury"].from = p.from
          /\ [p EXCEPT !.step = "bury"].w = p.w
      BY <2>1 DEF Put
    <3>3. davPut' \in [DavClients -> Put \cup {NoPut}]
      BY <3>1, <3>2 DEF DavTyped
    <3>4. \A x \in DavClients : HasNumber(x)' => davPut'[x].from \in {davPut'[x].w} \X Nat
      BY <2>1, <3>1, <3>2 DEF DavTyped, HasNumber
    <3>5. davEv' \in [DavWorkers -> DavCopies] /\ davView' \in [DavFollowers -> DavView]
      BY <2>1, <3>1 DEF DavTyped, DavCopies, TellAll, DavView
    <3> QED
      BY <2>2, <3>3, <3>4, <3>5 DEF DavTyped
  <2> QED
    BY <2>3, <2>4
<1>13. ASSUME NEW c \in DavClients, DeleteBuries(c) PROVE DavTyped'
  <2> DEFINE p == davPut[c]
  <2>1. p \in Put /\ p.w \in DavWorkers /\ p.u \in DavUids /\ p.from \in DavWorkers \X Nat /\ p.seq \in Nat
    BY <1>13, DavRecords DEF DeleteBuries, DavTyped, Put, HasNumber
  <2>2. /\ davTomb' = [davTomb EXCEPT ![p.w][p.u] = p.seq]
        /\ davView' = TellAll(p.w, p.seq, Noted(c, p.u, NoEv, p.from))
        /\ davPut' = [davPut EXCEPT ![c] = NoPut]
        /\ UNCHANGED <<davCal, davGen, davEv, davNow, davCount>>
    BY <1>13 DEF DeleteBuries
  <2> HIDE DEF p
  <2>3. Noted(c, p.u, NoEv, p.from) \in [DavFollowers -> DavView]
    BY <2>1, ViewTypes DEF Noted, DavTyped
  <2>4. davView' \in [DavFollowers -> DavView]
    BY <2>2, <2>3 DEF TellAll, DavView
  <2>5. davTomb' \in [DavWorkers -> [DavUids -> Nat]]
    BY <2>1, <2>2 DEF DavTyped
  <2> QED
    BY <2>2, <2>4, <2>5, DavRecords DEF DavTyped, HasNumber
<1>6. ASSUME NEW c \in DavClients, NEW w \in DavWorkers, Proppatch(c, w) PROVE DavTyped'
  BY <1>6, BumpTypes DEF Proppatch, Changes, DavTyped, HasNumber
<1>7. ASSUME NEW c \in DavClients, NEW w \in DavWorkers, DeleteCalendar(c, w) PROVE DavTyped'
  <2>1. davView' \in [DavFollowers -> DavView]
    BY <1>7, DavRecords DEF DeleteCalendar, DavTyped
  <2>2. davEv' \in [DavWorkers -> DavCopies] /\ davTomb' \in [DavWorkers -> [DavUids -> Nat]]
    BY <1>7 DEF DeleteCalendar, DavTyped, DavCopies
  <2> QED
    BY <1>7, <2>1, <2>2, DavCounts DEF DeleteCalendar, Changes, DavTyped, HasNumber
<1>8. ASSUME NEW c \in DavClients, NEW w \in DavWorkers, Mkcalendar(c, w) PROVE DavTyped'
  BY <1>8 DEF Mkcalendar, DavTyped, HasNumber
<1>9. ASSUME NEW c \in DavFollowers, NEW w \in DavWorkers, Propfind(c, w) PROVE DavTyped'
  <2> DEFINE v == [token |-> Counter(w), home |-> <<w, Gen(w)>>, agrees |-> TRUE, copy |-> davEv[w],
                   missed |-> \E p \in DavClients : davPut[p].step = "store" /\ davPut[p].w = w]
  <2>1. v \in DavView
    BY DavCounts DEF DavView, DavHome, DavTyped
  <2>2. davView' = [davView EXCEPT ![c] = v] /\ Kept(w)
        /\ UNCHANGED <<davEv, davTomb, davPut, davNow, davCount>>
    BY <1>9 DEF Propfind
  <2> HIDE DEF v
  <2> QED
    BY <2>1, <2>2, BumpTypes DEF DavTyped, HasNumber
<1>10. ASSUME NEW c \in DavFollowers, NEW w \in DavWorkers, NEW limit, Sync(c, w, limit) PROVE DavTyped'
  <2>1. PICK copy \in DavCopies, missed \in BOOLEAN :
          davView' = [davView EXCEPT ![c] =
               [Meets(davView[c], <<w, Gen(w)>>) EXCEPT !.token = NextToken(w, davView[c].token), !.copy = copy,
                                               !.agrees = copy = davEv[w], !.missed = missed]]
    <3> DEFINE v == davView[c]
               gone == Deleted(w, v.token)
               new == DavChanged(w, v.token)
               out == FirstOf(gone, limit)
               in == FirstOf(new, limit - Cardinality(gone))
               copy == [u \in DavUids |-> IF u \in in THEN davEv[w][u]
                                          ELSE IF u \in out THEN NoEv ELSE v.copy[u]]
               missed == Meets(v, <<w, Gen(w)>>).missed \/ out # gone \/ in # new \/ Unburied(w)
    <3>1. copy \in DavCopies
      BY DEF DavCopies, DavTyped, DavView
    <3>2. missed \in BOOLEAN
      OBVIOUS
    <3>3. davView' = [davView EXCEPT ![c] =
               [Meets(v, <<w, Gen(w)>>) EXCEPT !.token = NextToken(w, v.token), !.copy = copy,
                                               !.agrees = copy = davEv[w], !.missed = missed]]
      BY <1>10, Zenon DEF Sync
    <3> HIDE DEF copy, missed
    <3> QED
      BY <3>1, <3>2, <3>3, Zenon
  <2>2. Meets(davView[c], <<w, Gen(w)>>) \in DavView /\ NextToken(w, davView[c].token) \in Nat
    <3>1. davView[c] \in DavView /\ davView[c].token \in Nat /\ <<w, Gen(w)>> \in DavWorkers \X Nat
      BY DavCounts DEF DavTyped, DavView
    <3> QED
      BY <3>1, DavCounts DEF Meets, DavView, DavHome, NextToken
  <2>3. davView' \in [DavFollowers -> DavView]
    BY <2>1, <2>2 DEF DavView, DavTyped
  <2> QED
    BY <1>10, <2>3, BumpTypes DEF Sync, DavTyped, HasNumber
<1>11. ASSUME NEW w \in DavWorkers, Restart(w) PROVE DavTyped'
  <2>1. davEv' \in [DavWorkers -> DavCopies] /\ davTomb' \in [DavWorkers -> [DavUids -> Nat]]
    BY <1>11 DEF Restart, DavTyped, DavCopies
  <2> QED
    BY <1>11, <2>1, DavRecords DEF Restart, DavTyped, HasNumber
<1>12. CASE DavTick
  BY <1>12 DEF DavTick, DavTyped, HasNumber
<1> QED
  BY <1>1, <1>2, <1>3, <1>4, <1>5, <1>6, <1>7, <1>8, <1>9, <1>10, <1>11, <1>12, <1>13, DavAssumption DEF DavNext

(* The versions that have a number: on the servers, at the clients and in  *)
(* the hands of a PUT; and a deletion, which is one for its number.        *)
Stored == {davEv[w][u] : w \in DavWorkers, u \in DavUids}
Copied == {davView[c].copy[u] : c \in DavFollowers, u \in DavUids}
Coming == {[seq |-> davPut[c].seq, etag |-> Etag(davPut[c].seq, davPut[c].at),
            val |-> davPut[c].val, from |-> davPut[c].from] : c \in {x \in DavClients : HasNumber(x)}}
Issued == (Stored \cup Copied \cup Coming) \ {NoEv}

(* Its number is no later than the counter of the calendar it is of, and   *)
(* in its ETag.                                                            *)
Numbered(e) ==
    /\ e.seq > 0 /\ e.etag[1] = e.seq
    /\ e.from[2] <= davGen[e.from[1]]
    /\ e.from[2] = davGen[e.from[1]] /\ davCal[e.from[1]] # NoCalendar => e.seq <= davCal[e.from[1]]

EtagInv ==
    /\ \A e \in Issued : Numbered(e)
    /\ \A e, f \in Issued : e.from = f.from /\ e.seq = f.seq => e = f

(* A calendar that is made again has another number, any other one counts  *)
(* on.                                                                     *)
CountsOn(w) ==
    /\ davGen'[w] >= davGen[w]
    /\ davGen'[w] = davGen[w] /\ davCal'[w] # NoCalendar
       => davCal[w] # NoCalendar /\ davCal'[w] >= davCal[w]

LEMMA IssuedTypes == DavTyped => Issued \subseteq DavEvent
<1> SUFFICES ASSUME DavTyped PROVE Issued \subseteq DavEvent
  OBVIOUS
<1>1. Stored \subseteq DavEvent \cup {NoEv}
  BY DEF Stored, DavTyped, DavCopies
<1>2. Copied \subseteq DavEvent \cup {NoEv}
  BY DEF Copied, DavTyped, DavCopies, DavView
<1>3. ASSUME NEW c \in DavClients, HasNumber(c)
      PROVE  [seq |-> davPut[c].seq, etag |-> Etag(davPut[c].seq, davPut[c].at),
              val |-> davPut[c].val, from |-> davPut[c].from] \in DavEvent
  <2>1. davPut[c] \in Put /\ davPut[c].from \in DavWorkers \X Nat
    BY <1>3, DavRecords DEF HasNumber, DavTyped, Put
  <2> QED
    BY <2>1 DEF DavEvent, Etag, Put
<1>4. Coming \subseteq DavEvent
  BY <1>3 DEF Coming
<1> QED
  BY <1>1, <1>2, <1>4 DEF Issued

LEMMA CountersCountOn ==
  ASSUME DavTyped, [DavNext]_davVars, NEW x \in DavWorkers PROVE CountsOn(x)
<1> USE DEF CountsOn
<1>0. davCal[x] \in Nat \cup {NoCalendar} /\ davGen[x] \in Nat /\ NoCalendar \notin Nat
  BY DEF DavTyped, NoCalendar
<1>1. ASSUME NEW w \in DavWorkers, Bump(w) \/ Kept(w) PROVE CountsOn(x)
  <2>1. CASE w = x
    <3>1. davCal'[x] \in {Counter(x), Counter(x) + 1} /\ davGen'[x] = Gen(x)
      BY <1>1, <2>1 DEF Bump, Kept, DavTyped
    <3> QED
      BY <1>0, <3>1, DavCounts
  <2>2. CASE w # x
    BY <1>0, <1>1, <2>2 DEF Bump, Kept, DavTyped
  <2> QED
    BY <2>1, <2>2
<1>2. CASE UNCHANGED <<davCal, davGen>>
  BY <1>0, <1>2
<1>3. ASSUME NEW c \in DavClients, TakeNumber(c) PROVE CountsOn(x)
  <2>1. davPut[c] \in Put
    BY <1>3, DavRecords DEF TakeNumber, DavTyped
  <2> QED
    BY <1>1, <1>2, <1>3, <2>1 DEF TakeNumber, Put
<1>4. ASSUME NEW c \in DavClients, NEW w \in DavWorkers, DeleteCalendar(c, w) \/ Mkcalendar(c, w)
      PROVE  CountsOn(x)
  <2>1. CASE w = x
    BY <1>0, <1>4, <2>1, DavCounts DEF DeleteCalendar, Mkcalendar, DavTyped
  <2>2. CASE w # x
    BY <1>0, <1>4, <2>2 DEF DeleteCalendar, Mkcalendar, DavTyped
  <2> QED
    BY <2>1, <2>2
<1>5. ASSUME NEW w \in DavWorkers, Restart(w) PROVE CountsOn(x)
  BY <1>0, <1>5 DEF Restart, DavTyped
<1>6. ASSUME NEW c, NEW w \in DavWorkers, NEW u, NEW cond, PutCheck(c, w, u, cond) \/ DeleteCheck(c, w, u, cond)
      PROVE  CountsOn(x)
  BY <1>1, <1>6 DEF PutCheck, DeleteCheck
<1>7. ASSUME NEW c, NEW w \in DavWorkers, NEW limit, Proppatch(c, w) \/ Propfind(c, w) \/ Sync(c, w, limit)
      PROVE  CountsOn(x)
  BY <1>1, <1>7, Zenon DEF Proppatch, Propfind, Sync
<1>8. ASSUME NEW c, PutStore(c) \/ DeletePop(c) \/ DeleteBuries(c) \/ DavTick PROVE CountsOn(x)
  BY <1>2, <1>8 DEF PutStore, DeletePop, DeleteBuries, DavTick
<1>9. UNCHANGED davVars => CountsOn(x)
  BY <1>2 DEF davVars
<1> HIDE DEF CountsOn
<1>10. CASE \E c \in DavClients, w \in DavWorkers :
               \/ \E u \in DavUids, cond \in {"If-Match", "If-None-Match", "none"} : PutCheck(c, w, u, cond)
               \/ \E u \in DavUids, cond \in {"If-Match", "none"} : DeleteCheck(c, w, u, cond)
               \/ Proppatch(c, w) \/ DeleteCalendar(c, w) \/ Mkcalendar(c, w)
  BY <1>4, <1>6, <1>7, <1>10, Zenon
<1>11. CASE \E c \in DavFollowers, w \in DavWorkers :
               Propfind(c, w) \/ \E limit \in {1, 1000} : Sync(c, w, limit)
  <2>1. PICK c \in DavFollowers, w \in DavWorkers : Propfind(c, w) \/ \E limit \in {1, 1000} : Sync(c, w, limit)
    BY <1>11
  <2>2. CASE Propfind(c, w)
    BY <1>7, <2>2
  <2>3. ASSUME NEW limit, Sync(c, w, limit) PROVE CountsOn(x)
    BY <1>7, <2>3
  <2> QED
    BY <2>1, <2>2, <2>3
<1>12. CASE \E c \in DavClients : TakeNumber(c) \/ PutStore(c) \/ DeletePop(c) \/ DeleteBuries(c)
  BY <1>3, <1>8, <1>12, Zenon
<1>13. CASE \E w \in DavWorkers : Restart(w)
  BY <1>5, <1>13, Zenon
<1>14. CASE DavTick
  BY <1>8, <1>14
<1>15. CASE DavNext
  <2>1. CASE /\ davCount < DavMaxRequests
             /\ \E c \in DavClients, w \in DavWorkers :
                /\ davPut[c] = NoPut
                /\ \/ \E u \in DavUids, cond \in {"If-Match", "If-None-Match", "none"} : PutCheck(c, w, u, cond)
                   \/ \E u \in DavUids, cond \in {"If-Match", "none"} : DeleteCheck(c, w, u, cond)
                   \/ Proppatch(c, w) \/ DeleteCalendar(c, w) \/ Mkcalendar(c, w)
    BY <1>10, <2>1, Zenon
  <2> QED
    BY <1>11, <1>12, <1>13, <1>14, <1>15, <2>1, Zenon DEF DavNext
<1> QED
  BY <1>9, <1>15

LEMMA EtagStep == DavTyped /\ DavTyped' /\ EtagInv /\ [DavNext]_davVars => EtagInv'
<1> SUFFICES ASSUME DavTyped, DavTyped', EtagInv, [DavNext]_davVars PROVE EtagInv'
  OBVIOUS
<1>0. Issued \subseteq DavEvent
  BY IssuedTypes
<1>a. ASSUME NEW e \in Issued PROVE Numbered(e)'
  <2>1. e \in DavEvent /\ Numbered(e)
    BY <1>0, <1>a DEF EtagInv
  <2>2. e.from[1] \in DavWorkers /\ e.from[2] \in Nat /\ e.seq \in Nat
    BY <2>1 DEF DavEvent
  <2>3. CountsOn(e.from[1])
    BY <2>2, CountersCountOn
  <2>4. /\ davGen[e.from[1]] \in Nat /\ davGen'[e.from[1]] \in Nat
        /\ davCal[e.from[1]] \in Nat \cup {NoCalendar} /\ davCal'[e.from[1]] \in Nat \cup {NoCalendar}
    BY <2>2 DEF DavTyped
  <2> QED
    BY <2>1, <2>2, <2>3, <2>4 DEF Numbered, CountsOn, NoCalendar
<1>b. ASSUME Issued' \subseteq Issued PROVE EtagInv'
  BY <1>a, <1>b DEF EtagInv
<1>c. /\ Stored' \subseteq Stored \cup {NoEv} /\ Copied' \subseteq Copied \cup Stored \cup {NoEv}
      /\ Coming' \subseteq Coming
      => EtagInv'
  BY <1>b DEF Issued
<1>d. /\ \A w \in DavWorkers, u \in DavUids : davEv[w][u] \in Stored
      /\ \A c \in DavFollowers, u \in DavUids : davView[c].copy[u] \in Copied
  BY DEF Stored, Copied
<1>e. ASSUME \A w \in DavWorkers, u \in DavUids : davEv'[w][u] \in {davEv[w][u], NoEv}
      PROVE  Stored' \subseteq Stored \cup {NoEv}
  BY <1>e, <1>d DEF Stored
<1>f. ASSUME \A c \in DavClients : davPut'[c] = davPut[c] \/ ~HasNumber(c)'
      PROVE  Coming' \subseteq Coming
  BY <1>f DEF Coming, HasNumber
<1>g. UNCHANGED davEv => Stored' = Stored
  BY DEF Stored
<1>h. UNCHANGED davView => Copied' = Copied
  BY DEF Copied
<1>i. UNCHANGED davPut => Coming' = Coming
  BY DEF Coming, HasNumber
<1>j. ASSUME NEW c, NEW u, NEW from, NEW x \in DavFollowers, NEW y \in DavUids, NEW e
      PROVE  Noted(c, u, e, from)[x].copy[y] \in {davView[x].copy[y], e}
  BY DEF Noted, Meets, DavTyped, DavView, DavCopies
<1>1. CASE UNCHANGED davVars
  BY <1>1, <1>c, <1>g, <1>h, <1>i DEF davVars
<1>2. ASSUME NEW c \in DavClients, NEW w \in DavWorkers, NEW u \in DavUids, NEW cond,
             PutCheck(c, w, u, cond) \/ DeleteCheck(c, w, u, cond)
      PROVE  EtagInv'
  <2>1. \A x \in DavClients : davPut'[x] = davPut[x] \/ ~HasNumber(x)'
    BY <1>2 DEF PutCheck, DeleteCheck, DavRequest, DavTyped, HasNumber
  <2> QED
    BY <1>2, <2>1, <1>c, <1>f, <1>g, <1>h DEF PutCheck, DeleteCheck
<1>3. ASSUME NEW c \in DavClients, TakeNumber(c) PROVE EtagInv'
  <2> DEFINE w == davPut[c].w
  <2>1. davPut[c] \in Put /\ w \in DavWorkers
    BY <1>3, DavRecords DEF TakeNumber, DavTyped, Put
  <2>2. UNCHANGED <<davEv, davView>>
    BY <1>3 DEF TakeNumber
  <2>3. CASE davCal[w] = NoCalendar
    <3>1. \A x \in DavClients : davPut'[x] = davPut[x] \/ ~HasNumber(x)'
      BY <1>3, <2>3, DavRecords DEF TakeNumber, DavTyped, HasNumber
    <3> QED
      BY <2>2, <3>1, <1>c, <1>f, <1>g, <1>h
  <2>4. CASE davCal[w] # NoCalendar
    <3> DEFINE p == [davPut[c] EXCEPT !.step = davPut[c].kind, !.seq = davCal[w] + 1, !.at = davNow,
                                      !.from = <<w, davGen[w]>>]
    <3>0. PICK e : e = [seq |-> davCal[w] + 1, etag |-> Etag(davCal[w] + 1, davNow), val |-> davPut[c].val,
                        from |-> <<w, davGen[w]>>]
      OBVIOUS
    <3>1. davPut' = [davPut EXCEPT ![c] = p] /\ Bump(w)
      BY <1>3, <2>4 DEF TakeNumber, DavTyped
    <3>2. /\ p.seq = davCal[w] + 1 /\ p.at = davNow /\ p.val = davPut[c].val /\ p.from = <<w, davGen[w]>>
      BY <2>1 DEF Put
    <3>3. davPut'[c] = p /\ \A x \in DavClients \ {c} : davPut'[x] = davPut[x]
      BY <3>1 DEF DavTyped
    <3>4. davCal[w] \in Nat /\ Counter(w) = davCal[w] /\ Gen(w) = davGen[w] /\ davGen[w] \in Nat
      BY <2>1, <2>4 DEF DavTyped, Counter, Gen
    <3>5. davCal'[w] = davCal[w] + 1 /\ davGen'[w] = davGen[w]
      BY <2>1, <3>1, <3>4 DEF Bump, DavTyped
    <3>6. /\ e.seq = davCal[w] + 1 /\ e.etag[1] = davCal[w] + 1 /\ e.from[1] = w /\ e.from[2] = davGen[w]
          /\ e.from = <<w, davGen[w]>>
      BY <3>0 DEF Etag
    <3>7. Coming' \subseteq Coming \cup {e}
      <4>1. [seq |-> p.seq, etag |-> Etag(p.seq, p.at), val |-> p.val, from |-> p.from] = e
        BY <3>0, <3>2
      <4> HIDE DEF p
      <4> QED
        BY <3>3, <4>1 DEF Coming, HasNumber, Etag
    <3>8. \A f \in Issued : ~(f.from = <<w, davGen[w]>> /\ f.seq = davCal[w] + 1)
      BY <1>0, <2>4, <3>4 DEF EtagInv, Numbered, DavEvent
    <3>9. Numbered(e)'
      BY <3>4, <3>5, <3>6 DEF Numbered
    <3> HIDE DEF p
    <3>10. Issued' \subseteq Issued \cup {e}
      BY <2>2, <3>7, <1>g, <1>h DEF Issued
    <3> QED
      BY <3>6, <3>8, <3>9, <3>10, <1>a DEF EtagInv
  <2> QED
    BY <2>3, <2>4
<1>4. ASSUME NEW c \in DavClients, PutStore(c) PROVE EtagInv'
  <2> DEFINE p == davPut[c]
             e == [seq |-> p.seq, etag |-> Etag(p.seq, p.at), val |-> p.val, from |-> p.from]
  <2>1. e \in Coming
    BY <1>4 DEF Coming, PutStore, HasNumber
  <2>2. /\ davEv' = [davEv EXCEPT ![p.w][p.u] = e]
        /\ davView' = TellAll(p.w, p.seq, Noted(c, p.u, e, p.from))
        /\ davPut' = [davPut EXCEPT ![c] = NoPut]
    BY <1>4 DEF PutStore
  <2> HIDE DEF p, e
  <2>3. Stored' \subseteq Stored \cup {e}
    <3>1. \A w \in DavWorkers, u \in DavUids : davEv'[w][u] \in {davEv[w][u], e}
      BY <2>2 DEF DavTyped, DavCopies
    <3> QED
      BY <3>1, <1>d DEF Stored
  <2>4. Copied' \subseteq Copied \cup {e}
    <3>1. \A x \in DavFollowers, y \in DavUids : davView'[x].copy[y] = Noted(c, p.u, e, p.from)[x].copy[y]
      <4>1. \A x \in DavFollowers : Noted(c, p.u, e, p.from)[x] = davView[x] \/ x = c
        BY DEF Noted, DavTyped
      <4>2. ASSUME NEW v, NEW b PROVE [v EXCEPT !.missed = b].copy = v.copy
        OBVIOUS
      <4> QED
        BY <2>2, <4>2 DEF TellAll
    <3>2. \A x \in DavFollowers, y \in DavUids : davView'[x].copy[y] \in {davView[x].copy[y], e}
      BY <3>1, <1>j
    <3> QED
      BY <3>2, <1>d DEF Copied
  <2>5. Coming' \subseteq Coming
    BY <2>2, <1>f, DavRecords DEF DavTyped, HasNumber
  <2> QED
    BY <2>1, <2>3, <2>4, <2>5, <1>b DEF Issued
<1>k. ASSUME NEW w, NEW seq, NEW views, NEW x \in DavFollowers
      PROVE  TellAll(w, seq, views)[x].copy = views[x].copy
  <2>1. ASSUME NEW v, NEW b PROVE [v EXCEPT !.missed = b].copy = v.copy
    OBVIOUS
  <2> QED
    BY <2>1 DEF TellAll
<1>5. ASSUME NEW c \in DavClients, DeletePop(c) PROVE EtagInv'
  <2> DEFINE p == davPut[c]
  <2>1. p \in Put
    BY <1>5, DavRecords DEF DeletePop, DavTyped
  <2>2. CASE davEv[p.w][p.u] = NoEv
    <3>1. \A x \in DavClients : davPut'[x] = davPut[x] \/ ~HasNumber(x)'
      BY <1>5, <2>2, DavRecords DEF DeletePop, DavTyped, HasNumber
    <3> QED
      BY <1>5, <2>2, <3>1, <1>c, <1>f, <1>g, <1>h DEF DeletePop
  <2>3. CASE davEv[p.w][p.u] # NoEv
    <3>1. /\ davEv' = [davEv EXCEPT ![p.w][p.u] = NoEv] /\ davView' = TellAll(p.w, p.seq, davView)
          /\ davPut' = [davPut EXCEPT ![c] = [p EXCEPT !.step = "bury"]]
      BY <1>5, <2>3 DEF DeletePop
    <3>2. \A v \in DavWorkers, y \in DavUids : davEv'[v][y] \in {davEv[v][y], NoEv}
      BY <3>1 DEF DavTyped, DavCopies
    <3>3. \A x \in DavFollowers : davView'[x].copy = davView[x].copy
      BY <3>1, <1>k
    <3>4. Copied' \subseteq Copied
      BY <3>3 DEF Copied
    <3>5. Coming' \subseteq Coming
      <4>1. HasNumber(c) /\ \A x \in DavClients \ {c} : davPut'[x] = davPut[x]
        BY <1>5, <3>1 DEF DeletePop, HasNumber, DavTyped
      <4>2. /\ davPut'[c].seq = p.seq /\ davPut'[c].at = p.at /\ davPut'[c].val = p.val
            /\ davPut'[c].from = p.from
        BY <2>1, <3>1 DEF Put, DavTyped
      <4>3. \A x \in DavClients :
              /\ davPut'[x].seq = davPut[x].seq /\ davPut'[x].at = davPut[x].at
              /\ davPut'[x].val = davPut[x].val /\ davPut'[x].from = davPut[x].from
              /\ HasNumber(x)' => HasNumber(x)
        BY <4>1, <4>2 DEF HasNumber
      <4> QED
        BY <4>3 DEF Coming, Etag
    <3> QED
      BY <3>2, <3>4, <3>5, <1>c, <1>e
  <2> QED
    BY <2>2, <2>3
<1>13. ASSUME NEW c \in DavClients, DeleteBuries(c) PROVE EtagInv'
  <2> DEFINE p == davPut[c]
  <2>1. /\ davView' = TellAll(p.w, p.seq, Noted(c, p.u, NoEv, p.from))
        /\ davPut' = [davPut EXCEPT ![c] = NoPut] /\ UNCHANGED davEv
    BY <1>13 DEF DeleteBuries
  <2> HIDE DEF p
  <2>2. \A x \in DavFollowers, y \in DavUids : davView'[x].copy[y] \in {davView[x].copy[y], NoEv}
    BY <2>1, <1>j, <1>k
  <2>3. Copied' \subseteq Copied \cup {NoEv}
    BY <2>2, <1>d DEF Copied
  <2>4. \A x \in DavClients : davPut'[x] = davPut[x] \/ ~HasNumber(x)'
    BY <2>1, DavRecords DEF DavTyped, HasNumber
  <2> QED
    BY <2>1, <2>3, <2>4, <1>c, <1>f, <1>g
<1>6. ASSUME NEW c \in DavClients, NEW w \in DavWorkers, Proppatch(c, w) PROVE EtagInv'
  BY <1>6, <1>c, <1>g, <1>h, <1>i DEF Proppatch
<1>7. ASSUME NEW c \in DavClients, NEW w \in DavWorkers, DeleteCalendar(c, w) PROVE EtagInv'
  <2>1. \A v \in DavWorkers, y \in DavUids : davEv'[v][y] \in {davEv[v][y], NoEv}
    BY <1>7 DEF DeleteCalendar, DavTyped, DavCopies
  <2>2. \A x \in DavFollowers, y \in DavUids : davView'[x].copy[y] \in {davView[x].copy[y], NoEv}
    BY <1>7 DEF DeleteCalendar, DavTyped, NewView
  <2>3. Copied' \subseteq Copied \cup {NoEv}
    BY <2>2, <1>d DEF Copied
  <2> QED
    BY <1>7, <2>1, <2>3, <1>c, <1>e, <1>i DEF DeleteCalendar
<1>8. ASSUME NEW c \in DavClients, NEW w \in DavWorkers, Mkcalendar(c, w) PROVE EtagInv'
  BY <1>8, <1>c, <1>g, <1>h, <1>i DEF Mkcalendar
<1>9. ASSUME NEW c \in DavFollowers, NEW w \in DavWorkers, Propfind(c, w) PROVE EtagInv'
  <2>1. \A x \in DavFollowers, y \in DavUids : davView'[x].copy[y] \in {davView[x].copy[y], davEv[w][y]}
    BY <1>9 DEF Propfind, DavTyped
  <2>2. Copied' \subseteq Copied \cup Stored
    BY <2>1, <1>d DEF Copied
  <2> QED
    BY <1>9, <2>2, <1>c, <1>g, <1>i DEF Propfind
<1>10. ASSUME NEW c \in DavFollowers, NEW w \in DavWorkers, NEW limit, Sync(c, w, limit) PROVE EtagInv'
  <2>1. \A x \in DavFollowers, y \in DavUids : davView'[x].copy[y] \in {davView[x].copy[y], davEv[w][y], NoEv}
    BY <1>10 DEF Sync, Meets, DavTyped, DavView
  <2>2. Copied' \subseteq Copied \cup Stored \cup {NoEv}
    BY <2>1, <1>d DEF Copied
  <2> QED
    BY <1>10, <2>2, <1>c, <1>g, <1>i DEF Sync
<1>11. ASSUME NEW w \in DavWorkers, Restart(w) PROVE EtagInv'
  <2>1. \A v \in DavWorkers, y \in DavUids : davEv'[v][y] \in {davEv[v][y], NoEv}
    BY <1>11 DEF Restart, DavTyped, DavCopies
  <2>2. \A x \in DavClients : davPut'[x] = davPut[x] \/ ~HasNumber(x)'
    BY <1>11, DavRecords DEF Restart, HasNumber
  <2> QED
    BY <1>11, <2>1, <2>2, <1>c, <1>e, <1>f, <1>h DEF Restart
<1>12. CASE DavTick
  BY <1>12, <1>c, <1>g, <1>h, <1>i DEF DavTick
<1> QED
  BY <1>1, <1>2, <1>3, <1>4, <1>5, <1>6, <1>7, <1>8, <1>9, <1>10, <1>11, <1>12, <1>13, DavAssumption DEF DavNext

LEMMA EtagStarts == DavInit => EtagInv
<1> SUFFICES ASSUME DavInit PROVE Issued = {}
  BY DEF EtagInv
<1>1. Stored \subseteq {NoEv} /\ Copied \subseteq {NoEv}
  BY DEF DavInit, Stored, Copied, NewView
<1>2. Coming = {}
  BY DEF DavInit, Coming, HasNumber, NoPut
<1> QED
  BY <1>1, <1>2 DEF Issued

(* Where the ETag of a copy is the one of the event on the server, the     *)
(* copy is that version: If-Match never lets a client overwrite a version  *)
(* it has not seen.                                                        *)
THEOREM EtagsIdentify == DavSpec => []EtagIdentifies
<1>1. DavTyped /\ EtagInv => EtagIdentifies
  <2> SUFFICES ASSUME DavTyped, EtagInv, NEW c \in DavFollowers, NEW w \in DavWorkers, NEW u \in DavUids,
                      davView[c].copy[u] # NoEv, davEv[w][u] # NoEv,
                      davView[c].copy[u].etag = davEv[w][u].etag, davView[c].copy[u].from = davEv[w][u].from
               PROVE  davView[c].copy[u] = davEv[w][u]
    BY DEF EtagIdentifies
  <2>1. davView[c].copy[u] \in Issued /\ davEv[w][u] \in Issued
    BY DEF Issued, Stored, Copied
  <2>2. davView[c].copy[u].seq = davEv[w][u].seq
    BY <2>1 DEF EtagInv, Numbered
  <2> QED
    BY <2>1, <2>2 DEF EtagInv
<1> QED
  BY <1>1, DavStarts, DavTypesKept, EtagStarts, EtagStep, PTL DEF DavSpec

(* The numbers of the last deletion of an event, and of those that have    *)
(* not left their tombstone yet.                                           *)
BuriesAt(c, w) == davPut[c].step = "bury" /\ davPut[c].w = w
Unwritten(w, u) == {davPut[c].seq : c \in {x \in DavClients : BuriesAt(x, w) /\ davPut[x].u = u}}
Deletions(w, u) == {davTomb[w][u]} \cup Unwritten(w, u)

(* What a follower with this token is told of event u by its next sync     *)
(* with worker w, when the tombstones are there, is what it lacks.         *)
Told(v, w, u) ==
    /\ v.copy[u] # davEv[w][u] =>
          IF davEv[w][u] = NoEv THEN \E t \in Deletions(w, u) : t > v.token ELSE davEv[w][u].seq > v.token
    /\ davEv[w][u] # NoEv /\ (\E t \in Deletions(w, u) : t > v.token) => davEv[w][u].seq > v.token

(* Every deletion, its tombstone written or not, is of this calendar. *)
Clean(w) == w \notin davStray /\ \A c \in DavClients : BuriesAt(c, w) => davPut[c].from = <<w, davGen[w]>>

Current(v, w) == v.home = <<w, davGen[w]>> /\ davCal[w] # NoCalendar /\ Clean(w)

(* A follower that missed nothing: it has no copies before it meets a      *)
(* calendar, and while it stays with that one its token is of the past and *)
(* the next sync tells it the rest.                                        *)
Follows(v) ==
    /\ v.agrees
    /\ v.home = <<>> => v.token = 0 /\ \A u \in DavUids : v.copy[u] = NoEv
    /\ v.home # <<>> => v.home[2] <= davGen[v.home[1]]
    /\ \A w \in DavWorkers : Current(v, w) =>
          v.token <= davCal[w] /\ \A u \in DavUids : Told(v, w, u)

SyncInv ==
    /\ \A w \in DavWorkers \ davStray, u \in DavUids : davTomb[w][u] <= Counter(w)
    /\ \A c \in DavFollowers : davView[c].missed \/ Follows(davView[c])

LEMMA NewFollows == Follows(NewView) /\ Follows(NewView)'
<1>1. \A a, b : <<>> # <<a, b>>
  OBVIOUS
<1>2. /\ NewView.agrees /\ NewView.home = <<>> /\ NewView.token = 0
      /\ \A u \in DavUids : NewView.copy[u] = NoEv
  BY DEF NewView
<1> QED
  BY <1>1, <1>2 DEF Follows, Current

LEMMA SyncStarts == DavInit => SyncInv
<1> SUFFICES ASSUME DavInit PROVE SyncInv
  OBVIOUS
<1>1. \A w \in DavWorkers, u \in DavUids : davTomb[w][u] <= Counter(w)
  BY DEF DavInit, Counter, NoCalendar
<1>2. \A c \in DavFollowers : davView[c] = NewView
  BY DEF DavInit
<1> QED
  BY <1>1, <1>2, NewFollows DEF SyncInv

(* The steps of a request that does not come to the tombstone. *)
LEMMA QuietTurns ==
  ASSUME DavTyped, NEW b \in DavClients,
         \/ \E w, u, cond : PutCheck(b, w, u, cond) \/ DeleteCheck(b, w, u, cond)
         \/ TakeNumber(b) \/ PutStore(b)
  PROVE  \A c \in DavClients : davPut'[c] = davPut[c] \/ (davPut[c].step # "bury" /\ davPut'[c].step # "bury")
<1>1. ASSUME NEW w, NEW u, NEW cond, PutCheck(b, w, u, cond) \/ DeleteCheck(b, w, u, cond)
      PROVE  davPut[b].step # "bury" /\ \E p : davPut' = [davPut EXCEPT ![b] = p] /\ p.step # "bury"
  <2>1. davPut[b].step = "none"
    BY <1>1, DavRecords DEF PutCheck, DeleteCheck, Changes, Asks
  <2>2. PICK kind : DavRequest(b, w, u, kind)
    BY <1>1 DEF PutCheck, DeleteCheck
  <2> DEFINE p == [step |-> "bump", kind |-> kind, w |-> w, u |-> u, val |-> davCount + 1,
                   new |-> davEv[w][u] = NoEv, seq |-> 0, at |-> 0, from |-> <<>>]
  <2>3. davPut' = [davPut EXCEPT ![b] = p] /\ p.step = "bump"
    BY <2>2 DEF DavRequest
  <2> HIDE DEF p
  <2> QED
    BY <2>1, <2>3
<1>2. ASSUME TakeNumber(b)
      PROVE  davPut[b].step # "bury" /\ \E p : davPut' = [davPut EXCEPT ![b] = p] /\ p.step # "bury"
  <2>1. davPut[b] \in Put /\ davPut[b].step = "bump"
    BY <1>2, DavRecords DEF TakeNumber, DavTyped
  <2>2. CASE davCal[davPut[b].w] = NoCalendar
    BY <1>2, <2>1, <2>2, DavRecords DEF TakeNumber
  <2>3. CASE davCal[davPut[b].w] # NoCalendar
    <3> DEFINE p == [davPut[b] EXCEPT !.step = davPut[b].kind, !.seq = davCal[davPut[b].w] + 1, !.at = davNow,
                                      !.from = <<davPut[b].w, davGen[davPut[b].w]>>]
    <3>1. davPut' = [davPut EXCEPT ![b] = p]
      BY <1>2, <2>3 DEF TakeNumber, DavTyped
    <3>2. p.step \in {"store", "pop"}
      BY <2>1 DEF Put
    <3> HIDE DEF p
    <3> QED
      BY <2>1, <3>1, <3>2
  <2> QED
    BY <2>2, <2>3
<1>3. ASSUME PutStore(b)
      PROVE  davPut[b].step # "bury" /\ \E p : davPut' = [davPut EXCEPT ![b] = p] /\ p.step # "bury"
  BY <1>3, DavRecords DEF PutStore
<1>4. davPut[b].step # "bury" /\ \E p : davPut' = [davPut EXCEPT ![b] = p] /\ p.step # "bury"
  BY <1>1, <1>2, <1>3
<1> QED
  BY <1>4 DEF DavTyped

(* How a step changes the request of a client. *)
LEMMA PutTurns ==
  ASSUME DavTyped, [DavNext]_davVars, NEW c \in DavClients
  PROVE  \/ davPut'[c] = davPut[c]
         \/ davPut[c].step # "bury" /\ davPut'[c].step # "bury"
         \/ DeletePop(c) \/ DeleteBuries(c)
         \/ \E w \in DavWorkers : Restart(w) /\ davPut[c].w = w
<1> DEFINE Turns == \/ davPut'[c] = davPut[c]
                    \/ davPut[c].step # "bury" /\ davPut'[c].step # "bury"
                    \/ DeletePop(c) \/ DeleteBuries(c)
                    \/ \E w \in DavWorkers : Restart(w) /\ davPut[c].w = w
<1>1. UNCHANGED davPut => Turns
  OBVIOUS
<1>2. ASSUME NEW b \in DavClients,
             \/ \E w, u, cond : PutCheck(b, w, u, cond) \/ DeleteCheck(b, w, u, cond)
             \/ TakeNumber(b) \/ PutStore(b)
      PROVE  Turns
  BY <1>2, QuietTurns
<1>3. ASSUME NEW b \in DavClients, DeletePop(b) PROVE Turns
  BY <1>3 DEF DeletePop, DavTyped
<1>4. ASSUME NEW b \in DavClients, DeleteBuries(b) PROVE Turns
  BY <1>4 DEF DeleteBuries, DavTyped
<1>5. ASSUME NEW w \in DavWorkers, Restart(w) PROVE Turns
  BY <1>5 DEF Restart, DavTyped
<1>6. ASSUME NEW b, NEW w, NEW limit,
             Proppatch(b, w) \/ DeleteCalendar(b, w) \/ Mkcalendar(b, w) \/ Propfind(b, w) \/ Sync(b, w, limit)
      PROVE  Turns
  <2>1. UNCHANGED davPut
    BY <1>6, Zenon DEF Proppatch, DeleteCalendar, Mkcalendar, Propfind, Sync
  <2> QED
    BY <1>1, <2>1
<1>7. (DavTick \/ UNCHANGED davVars) => Turns
  BY <1>1 DEF DavTick, davVars
<1> HIDE DEF Turns
<1>8. Turns
  BY <1>2, <1>3, <1>4, <1>5, <1>6, <1>7 DEF DavNext
<1> QED
  BY <1>8 DEF Turns

(* Requests that do not come to the tombstone, or are of another worker.   *)
LEMMA UnwrittenStays ==
  ASSUME NEW w, \A c \in DavClients : davPut'[c] = davPut[c] \/ (~BuriesAt(c, w) /\ ~BuriesAt(c, w)')
  PROVE  \A u \in DavUids : Unwritten(w, u)' = Unwritten(w, u)
<1>1. \A c \in DavClients : BuriesAt(c, w) = BuriesAt(c, w)' /\ (BuriesAt(c, w) => davPut'[c] = davPut[c])
  BY DEF BuriesAt
<1> QED
  BY <1>1 DEF Unwritten

LEMMA StrayStays ==
  ASSUME DavTyped, [DavNext]_davVars, NEW w \in DavWorkers, w \in davStray
  PROVE  w \in davStray' \/ Restart(w) \/ \E b \in DavClients : DeleteCalendar(b, w)
<1>1. ASSUME NEW v \in DavWorkers, Restart(v) PROVE w \in davStray' \/ v = w
  BY <1>1 DEF Restart
<1>2. ASSUME NEW b, NEW v \in DavWorkers, DeleteCalendar(b, v) PROVE w \in davStray' \/ v = w
  BY <1>2 DEF DeleteCalendar
<1>3. ASSUME NEW b, DeleteBuries(b) PROVE w \in davStray'
  BY <1>3 DEF DeleteBuries
<1>4. ASSUME NEW b, TakeNumber(b) \/ PutStore(b) \/ DeletePop(b) PROVE w \in davStray'
  BY <1>4 DEF TakeNumber, PutStore, DeletePop
<1>5. ASSUME NEW b, NEW v, NEW u, NEW cond, PutCheck(b, v, u, cond) \/ DeleteCheck(b, v, u, cond)
      PROVE  w \in davStray'
  BY <1>5 DEF PutCheck, DeleteCheck
<1>6. ASSUME NEW b, NEW v, NEW limit, Proppatch(b, v) \/ Mkcalendar(b, v) \/ Propfind(b, v) \/ Sync(b, v, limit)
      PROVE  w \in davStray'
  BY <1>6, Zenon DEF Proppatch, Mkcalendar, Propfind, Sync
<1>7. (DavTick \/ UNCHANGED davVars) => w \in davStray'
  BY DEF DavTick, davVars
<1> QED
  BY <1>1, <1>2, <1>3, <1>4, <1>5, <1>6, <1>7 DEF DavNext

(* What is not of this calendar does not become so while it is there.      *)
LEMMA CleanBefore ==
  ASSUME DavTyped, [DavNext]_davVars, NEW w \in DavWorkers, davGen'[w] = davGen[w],
         davCal[w] # NoCalendar, davCal'[w] # NoCalendar, Clean(w)'
  PROVE  Clean(w)
<1>1. ASSUME NEW v \in DavWorkers, Restart(v) PROVE v # w
  BY <1>1 DEF Restart, DavTyped
<1>2. ASSUME NEW c \in DavClients, BuriesAt(c, w) PROVE davPut[c].from = <<w, davGen[w]>>
  <2>1. CASE davPut'[c] = davPut[c]
    BY <1>2, <2>1 DEF Clean, BuriesAt
  <2>2. CASE DeleteBuries(c)
    BY <1>2, <2>2 DEF DeleteBuries, BuriesAt, Clean
  <2>3. ~DeletePop(c)
    BY <1>2 DEF DeletePop, BuriesAt
  <2> QED
    BY <1>1, <1>2, <2>1, <2>2, <2>3, PutTurns DEF BuriesAt
<1>3. w \in davStray => w \in davStray'
  BY <1>1, StrayStays DEF DeleteCalendar, DavTyped
<1> QED
  BY <1>2, <1>3 DEF Clean

(* The number of a deletion that has not left its tombstone.               *)
LEMMA DeletionCounts ==
  ASSUME DavTyped, EtagInv, NEW c \in DavClients, davPut[c].step = "bury"
  PROVE  /\ davPut[c] \in Put /\ davPut[c].w \in DavWorkers /\ davPut[c].u \in DavUids /\ davPut[c].seq \in Nat
         /\ \E g \in Nat : davPut[c].from = <<davPut[c].w, g>> /\ g <= davGen[davPut[c].w]
         /\ davPut[c].from = <<davPut[c].w, davGen[davPut[c].w]>> /\ davCal[davPut[c].w] # NoCalendar
            => davPut[c].seq <= davCal[davPut[c].w]
<1>0. PICK p : p = davPut[c]
  OBVIOUS
<1>1. p \in Put /\ p.w \in DavWorkers /\ p.u \in DavUids /\ p.from \in {p.w} \X Nat /\ p.seq \in Nat
  BY <1>0, DavRecords DEF DavTyped, Put, HasNumber
<1>2. PICK e : e = [seq |-> p.seq, etag |-> Etag(p.seq, p.at), val |-> p.val, from |-> p.from]
  OBVIOUS
<1>3. e \in Coming /\ e # NoEv
  BY <1>0, <1>2 DEF Coming, HasNumber, NoEv
<1>4. Numbered(e)
  BY <1>3 DEF EtagInv, Issued
<1>5. p.from[1] = p.w /\ p.from[2] \in Nat /\ p.from = <<p.w, p.from[2]>>
  BY <1>1
<1>6. p.from[2] <= davGen[p.w] /\ (p.from[2] = davGen[p.w] /\ davCal[p.w] # NoCalendar => p.seq <= davCal[p.w])
  BY <1>2, <1>4, <1>5 DEF Numbered
<1> QED
  BY <1>0, <1>1, <1>5, <1>6

(* Tombstones are no later than the counter.                               *)
LEMMA TombsStay ==
  ASSUME DavTyped, DavTyped', EtagInv, SyncInv, [DavNext]_davVars, NEW w \in DavWorkers, NEW u \in DavUids,
         w \notin davStray, w \notin davStray'
  PROVE  davTomb'[w][u] <= Counter(w)'
<1>0. /\ davTomb[w][u] \in Nat /\ davTomb'[w][u] \in Nat /\ davTomb[w][u] <= Counter(w)
      /\ Counter(w) \in Nat /\ Counter(w)' \in Nat
  BY DavCounts DEF SyncInv, DavTyped, Counter, NoCalendar
<1>1. ASSUME NEW v \in DavWorkers, Bump(v) \/ Kept(v) PROVE Counter(w)' >= Counter(w)
  <2>1. CASE v = w
    BY <1>1, <2>1, DavCounts DEF Bump, Kept, Counter, DavTyped, NoCalendar
  <2>2. CASE v # w
    BY <1>0, <1>1, <2>2 DEF Bump, Kept, Counter, DavTyped
  <2> QED
    BY <2>1, <2>2
<1>2. UNCHANGED davCal => Counter(w)' = Counter(w)
  BY DEF Counter
<1>3. ASSUME Counter(w)' >= Counter(w), davTomb'[w][u] \in {davTomb[w][u], 0} PROVE davTomb'[w][u] <= Counter(w)'
  BY <1>0, <1>3
<1>4. ASSUME davTomb'[w][u] = 0 PROVE davTomb'[w][u] <= Counter(w)'
  BY <1>0, <1>4
<1>5. ASSUME NEW c \in DavClients, TakeNumber(c) PROVE davTomb'[w][u] <= Counter(w)'
  <2>1. davPut[c] \in Put
    BY <1>5, DavRecords DEF TakeNumber, DavTyped
  <2> QED
    BY <1>0, <1>1, <1>2, <1>3, <1>5, <2>1 DEF TakeNumber, Put
<1>6. ASSUME NEW c \in DavClients, PutStore(c) PROVE davTomb'[w][u] <= Counter(w)'
  <2>1. davTomb'[w][u] \in {davTomb[w][u], 0}
    BY <1>6 DEF PutStore, DavTyped
  <2>2. UNCHANGED davCal
    BY <1>6 DEF PutStore
  <2> QED
    BY <1>0, <1>2, <1>3, <2>1, <2>2
<1>7. ASSUME NEW c \in DavClients, DeleteBuries(c) PROVE davTomb'[w][u] <= Counter(w)'
  <2> DEFINE p == davPut[c]
  <2>1. /\ davTomb' = [davTomb EXCEPT ![p.w][p.u] = p.seq] /\ UNCHANGED davCal
        /\ p.w = w => davCal[w] # NoCalendar /\ p.from = <<w, davGen[w]>>
    BY <1>7 DEF DeleteBuries
  <2>2. p \in Put /\ p.seq \in Nat /\ (p.w = w => p.seq <= davCal[w])
    BY <1>7, <2>1, DeletionCounts DEF DeleteBuries
  <2>3. davTomb'[w][u] = davTomb[w][u] \/ (p.w = w /\ davTomb'[w][u] = p.seq)
    BY <2>1 DEF DavTyped
  <2>4. p.w = w => Counter(w) = davCal[w]
    BY <2>1, DavCounts
  <2> HIDE DEF p
  <2> QED
    BY <1>0, <1>2, <1>3, <2>1, <2>2, <2>3, <2>4
<1>8. ASSUME NEW c, NEW v \in DavWorkers, NEW y, NEW cond, PutCheck(c, v, y, cond) \/ DeleteCheck(c, v, y, cond)
      PROVE  davTomb'[w][u] <= Counter(w)'
  BY <1>1, <1>3, <1>8 DEF PutCheck, DeleteCheck
<1>9. ASSUME NEW c, NEW v \in DavWorkers, NEW limit, Proppatch(c, v) \/ Propfind(c, v) \/ Sync(c, v, limit)
      PROVE  davTomb'[w][u] <= Counter(w)'
  <2>1. (Bump(v) \/ Kept(v)) /\ UNCHANGED davTomb
    BY <1>9, Zenon DEF Proppatch, Propfind, Sync
  <2> QED
    BY <2>1, <1>1, <1>3
<1>10. ASSUME NEW c, NEW v \in DavWorkers, DeleteCalendar(c, v) \/ Mkcalendar(c, v) \/ Restart(v)
       PROVE  davTomb'[w][u] <= Counter(w)'
  <2>1. CASE v # w
    <3>1. davTomb'[w][u] = davTomb[w][u] /\ davCal'[w] = davCal[w]
      BY <1>10, <2>1 DEF DeleteCalendar, Mkcalendar, Restart, DavTyped
    <3> QED
      BY <1>0, <3>1 DEF Counter
  <2>2. CASE v = w
    <3>1. CASE Mkcalendar(c, v)
      <4>1. UNCHANGED davTomb /\ davCal[w] = NoCalendar
        BY <2>2, <3>1 DEF Mkcalendar
      <4> QED
        BY <1>0, <1>3, <4>1, DavCounts
    <3>2. CASE DeleteCalendar(c, v) \/ Restart(v)
      <4>1. davTomb'[w][u] = 0
        BY <2>2, <3>2 DEF DeleteCalendar, Restart, DavTyped
      <4> QED
        BY <4>1, <1>4
    <3> QED
      BY <1>10, <3>1, <3>2
  <2> QED
    BY <2>1, <2>2
<1>15. ASSUME NEW c \in DavClients, DeletePop(c) PROVE davTomb'[w][u] <= Counter(w)'
  BY <1>0, <1>2, <1>15 DEF DeletePop
<1>11. (DavTick \/ UNCHANGED davVars) => davTomb'[w][u] <= Counter(w)'
  BY <1>0, <1>2 DEF DavTick, davVars
<1>12. CASE \E c \in DavClients, v \in DavWorkers :
               \/ \E y \in DavUids, cond \in {"If-Match", "If-None-Match", "none"} : PutCheck(c, v, y, cond)
               \/ \E y \in DavUids, cond \in {"If-Match", "none"} : DeleteCheck(c, v, y, cond)
               \/ Proppatch(c, v) \/ DeleteCalendar(c, v) \/ Mkcalendar(c, v)
  BY <1>8, <1>9, <1>10, <1>12, Zenon
<1>13. CASE \E c \in DavFollowers, v \in DavWorkers :
               Propfind(c, v) \/ \E limit \in {1, 1000} : Sync(c, v, limit)
  <2>1. PICK c \in DavFollowers, v \in DavWorkers : Propfind(c, v) \/ \E limit \in {1, 1000} : Sync(c, v, limit)
    BY <1>13
  <2>2. CASE Propfind(c, v)
    BY <1>9, <2>2
  <2>3. ASSUME NEW limit, Sync(c, v, limit) PROVE davTomb'[w][u] <= Counter(w)'
    BY <1>9, <2>3
  <2> QED
    BY <2>1, <2>2, <2>3
<1>14. CASE DavNext
  <2>1. CASE /\ davCount < DavMaxRequests
             /\ \E c \in DavClients, v \in DavWorkers :
                /\ davPut[c] = NoPut
                /\ \/ \E y \in DavUids, cond \in {"If-Match", "If-None-Match", "none"} : PutCheck(c, v, y, cond)
                   \/ \E y \in DavUids, cond \in {"If-Match", "none"} : DeleteCheck(c, v, y, cond)
                   \/ Proppatch(c, v) \/ DeleteCalendar(c, v) \/ Mkcalendar(c, v)
    BY <1>12, <2>1, Zenon
  <2>2. CASE \E c \in DavClients : TakeNumber(c) \/ PutStore(c) \/ DeletePop(c) \/ DeleteBuries(c)
    BY <1>5, <1>6, <1>7, <1>15, <2>2, Zenon
  <2>3. CASE \E v \in DavWorkers : Restart(v)
    BY <1>10, <2>3, Zenon
  <2>4. CASE DavTick
    BY <1>11, <2>4
  <2> QED
    BY <1>13, <1>14, <2>1, <2>2, <2>3, <2>4 DEF DavNext
<1> QED
  BY <1>11, <1>14

LEMMA TombsCount ==
  ASSUME DavTyped, DavTyped', EtagInv, SyncInv, [DavNext]_davVars, NEW w \in DavWorkers, NEW u \in DavUids,
         w \notin davStray'
  PROVE  davTomb'[w][u] <= Counter(w)'
<1>1. CASE w \notin davStray
  BY <1>1, TombsStay
<1>2. CASE w \in davStray
  <2>1. Restart(w) \/ \E b \in DavClients : DeleteCalendar(b, w)
    BY <1>2, StrayStays
  <2>2. davTomb'[w][u] = 0 /\ davCal'[w] = NoCalendar
    BY <2>1 DEF Restart, DeleteCalendar, DavTyped
  <2> QED
    BY <2>2 DEF Counter
<1> QED
  BY <1>1, <1>2

(* A view that stays is still told what it lacks, where the events it is   *)
(* told of stay or are told anew.                                          *)
LEMMA ViewStays ==
  ASSUME DavTyped, DavTyped', [DavNext]_davVars, NEW v \in DavView, Follows(v),
         \A w \in DavWorkers : Current(v, w) /\ Current(v, w)' => \A u \in DavUids : Told(v, w, u)'
  PROVE  Follows(v)'
<1>1. CASE v.home = <<>>
  <2>1. \A a, b : <<>> # <<a, b>>
    OBVIOUS
  <2> QED
    BY <1>1, <2>1 DEF Follows, Current
<1>2. CASE v.home # <<>>
  <2>1. v.home \in DavWorkers \X Nat /\ v.home[2] <= davGen[v.home[1]] /\ v.token \in Nat
    BY <1>2 DEF DavView, DavHome, Follows
  <2>2. \A w \in DavWorkers : CountsOn(w)
    BY CountersCountOn
  <2>3. ASSUME NEW w \in DavWorkers
        PROVE  /\ davGen[w] \in Nat /\ davGen'[w] \in Nat /\ davCal[w] \in Nat \cup {NoCalendar}
               /\ davCal'[w] \in Nat \cup {NoCalendar}
    BY DEF DavTyped
  <2>4. v.home[2] <= davGen'[v.home[1]]
    BY <2>1, <2>2, <2>3 DEF CountsOn
  <2>5. ASSUME NEW w \in DavWorkers, Current(v, w)' PROVE Current(v, w) /\ v.token <= davCal'[w]
    <3>1. v.home[1] = w /\ v.home[2] = davGen'[w] /\ davCal'[w] # NoCalendar
      BY <2>5 DEF Current
    <3>2. davGen'[w] = davGen[w] /\ davCal[w] # NoCalendar /\ davCal'[w] >= davCal[w]
      BY <2>1, <2>2, <2>3, <3>1 DEF CountsOn
    <3>3. Current(v, w)
      BY <2>5, <3>2, CleanBefore DEF Current
    <3>4. v.token <= davCal[w]
      BY <3>3 DEF Follows
    <3> QED
      BY <2>1, <2>3, <3>2, <3>3, <3>4 DEF NoCalendar
  <2> QED
    BY <1>2, <2>4, <2>5 DEF Follows
<1> QED
  BY <1>1, <1>2

(* A view that a calendar has just answered.                               *)
LEMMA ViewAnswered ==
  ASSUME DavTyped', NEW n, NEW w \in DavWorkers, NEW g \in Nat, n.home = <<w, g>>, n.agrees, g <= davGen'[w],
         g = davGen'[w] /\ davCal'[w] # NoCalendar /\ Clean(w)'
            => n.token <= davCal'[w] /\ \A u \in DavUids : Told(n, w, u)'
  PROVE  Follows(n)'
<1>1. n.home # <<>> /\ n.home[1] = w /\ n.home[2] = g
  OBVIOUS
<1>2. ASSUME NEW z \in DavWorkers, Current(n, z)' PROVE z = w /\ g = davGen'[w] /\ davCal'[w] # NoCalendar /\ Clean(w)'
  <2>1. n.home = <<z, davGen'[z]>> /\ davCal'[z] # NoCalendar /\ Clean(z)'
    BY <1>2 DEF Current
  <2>2. z = w
    BY <1>1, <2>1
  <2> QED
    BY <1>1, <2>1, <2>2
<1> QED
  BY <1>1, <1>2 DEF Follows

(* A view that meets its own calendar, or its first.                       *)
LEMMA ViewMeets ==
  ASSUME DavTyped, EtagInv, NEW v \in DavView, Follows(v), NEW w \in DavWorkers, v.home \in {<<>>, <<w, Gen(w)>>},
         Clean(w)
  PROVE  v.token <= Counter(w) /\ \A u \in DavUids : Told(v, w, u)
<1>1. CASE v.home = <<>>
  <2>1. v.token = 0 /\ \A u \in DavUids : v.copy[u] = NoEv
    BY <1>1 DEF Follows
  <2>2. \A u \in DavUids : davEv[w][u] # NoEv => davEv[w][u].seq > 0
    BY DEF EtagInv, Numbered, Issued, Stored
  <2>3. 0 <= Counter(w)
    BY DavCounts
  <2> QED
    BY <2>1, <2>2, <2>3 DEF Told
<1>2. CASE v.home = <<w, Gen(w)>>
  <2>1. v.home # <<>> /\ v.home[1] = w /\ v.home[2] = Gen(w)
    BY <1>2
  <2>2. davGen[w] \in Nat /\ Gen(w) <= davGen[w]
    BY <2>1 DEF Follows, DavTyped
  <2>3. davCal[w] # NoCalendar /\ Gen(w) = davGen[w] /\ Counter(w) = davCal[w]
    BY <2>2, DavCounts
  <2>4. Current(v, w)
    BY <1>2, <2>3 DEF Current
  <2> QED
    BY <2>3, <2>4 DEF Follows
<1> QED
  BY <1>1, <1>2

(* What is not touched is told as before.                                  *)
LEMMA ToldStays ==
  ASSUME NEW v, NEW w \in DavWorkers, davEv'[w] = davEv[w], davTomb'[w] = davTomb[w],
         \A c \in DavClients : davPut'[c] = davPut[c] \/ (~BuriesAt(c, w) /\ ~BuriesAt(c, w)')
  PROVE  (\A u \in DavUids : Told(v, w, u)) => (\A u \in DavUids : Told(v, w, u)')
<1>1. \A u \in DavUids : Deletions(w, u)' = Deletions(w, u)
  BY UnwrittenStays DEF Deletions
<1> QED
  BY <1>1 DEF Told

LEMMA SyncStep ==
  ASSUME DavTyped, DavTyped', EtagInv, SyncInv, [DavNext]_davVars, NEW c \in DavFollowers, ~davView'[c].missed
  PROVE  Follows(davView[c])'
<1>0. PICK v, n : v = davView[c] /\ n = davView'[c]
  OBVIOUS
<1>a. v \in DavView /\ n \in DavView /\ ~n.missed
  BY <1>0 DEF DavTyped
<1>b. SUFFICES Follows(n)'
  BY <1>0, <1>b DEF Follows, Current, Told
<1>c. ~v.missed => Follows(v)
  BY <1>0 DEF SyncInv
<1>d. ASSUME n = v, \A w \in DavWorkers : Current(v, w) /\ Current(v, w)' => \A u \in DavUids : Told(v, w, u)'
      PROVE  Follows(n)'
  BY <1>a, <1>c, <1>d, ViewStays
<1>e. ASSUME n = v, NEW w \in DavWorkers, Current(v, w), davEv'[w] = davEv[w], davTomb'[w] = davTomb[w],
             \A x \in DavClients : davPut'[x] = davPut[x] \/ (~BuriesAt(x, w) /\ ~BuriesAt(x, w)')
      PROVE  \A u \in DavUids : Told(v, w, u)'
  <2>1. \A u \in DavUids : Told(v, w, u)
    BY <1>a, <1>c, <1>e DEF Follows
  <2> QED
    BY <1>e, <2>1, ToldStays
<1>1. ASSUME UNCHANGED <<davEv, davTomb, davView>>,
             \A x \in DavClients : davPut'[x] = davPut[x] \/ (davPut[x].step # "bury" /\ davPut'[x].step # "bury")
      PROVE  Follows(n)'
  BY <1>0, <1>1, <1>d, <1>e DEF BuriesAt
<1>2. ASSUME NEW w \in DavWorkers, Restart(w) PROVE Follows(n)'
  <2>1. n = v /\ davCal'[w] = NoCalendar
    BY <1>0, <1>2 DEF Restart, DavTyped
  <2>2. \A x \in DavWorkers \ {w} : davEv'[x] = davEv[x] /\ davTomb'[x] = davTomb[x]
    BY <1>2 DEF Restart, DavTyped
  <2>3. ~Current(v, w)'
    BY <2>1 DEF Current
  <2>4. \A z \in DavWorkers \ {w}, x \in DavClients : davPut'[x] = davPut[x] \/ (~BuriesAt(x, z) /\ ~BuriesAt(x, z)')
    BY <1>2, DavRecords DEF Restart, BuriesAt
  <2> QED
    BY <1>d, <1>e, <2>1, <2>2, <2>3, <2>4
<1>3. ASSUME NEW b \in DavClients, NEW w \in DavWorkers, DeleteCalendar(b, w) PROVE Follows(n)'
  <2>1. davCal'[w] = NoCalendar /\ n = IF c = b THEN NewView ELSE v
    BY <1>0, <1>3 DEF DeleteCalendar, DavTyped
  <2>2. \A x \in DavWorkers \ {w} : davEv'[x] = davEv[x] /\ davTomb'[x] = davTomb[x]
    BY <1>3 DEF DeleteCalendar, DavTyped
  <2>3. ~Current(v, w)'
    BY <2>1 DEF Current
  <2>4. CASE c = b
    BY <2>1, <2>4, NewFollows DEF Follows, Current, Told
  <2>5. CASE c # b
    <3>1. UNCHANGED davPut
      BY <1>3 DEF DeleteCalendar
    <3> QED
      BY <1>d, <1>e, <2>1, <2>2, <2>3, <2>5, <3>1
  <2> QED
    BY <2>4, <2>5
<1>4. ASSUME NEW b \in DavClients, PutStore(b) PROVE Follows(n)'
  <2>0. PICK p : p = davPut[b]
    OBVIOUS
  <2>1. /\ p \in Put /\ p.from \in {p.w} \X Nat /\ p.w \in DavWorkers /\ p.u \in DavUids /\ p.seq \in Nat
        /\ HasNumber(b)
    BY <1>4, <2>0, DavRecords DEF PutStore, DavTyped, Put, HasNumber
  <2>2. PICK e : e = [seq |-> p.seq, etag |-> Etag(p.seq, p.at), val |-> p.val, from |-> p.from]
    OBVIOUS
  <2>3. /\ davEv' = [davEv EXCEPT ![p.w][p.u] = e]
        /\ davTomb' = IF p.new THEN [davTomb EXCEPT ![p.w][p.u] = 0] ELSE davTomb
        /\ davView' = TellAll(p.w, p.seq, Noted(b, p.u, e, p.from))
        /\ UNCHANGED <<davCal, davGen>>
    BY <1>4, <2>0, <2>2 DEF PutStore
  <2>4. e \in Issued /\ e.seq = p.seq /\ e.from = p.from
    <3>1. e \in Coming
      BY <2>0, <2>1, <2>2 DEF Coming
    <3>2. e # NoEv
      BY <2>2 DEF NoEv
    <3> QED
      BY <2>2, <3>1, <3>2 DEF Issued
  <2>5. e.seq > 0 /\ p.from[2] <= davGen[p.w] /\ e # NoEv /\ davEv'[p.w][p.u] = e
    <3>1. Numbered(e)
      BY <2>4 DEF EtagInv
    <3>2. davEv'[p.w][p.u] = e
      BY <2>1, <2>3 DEF DavTyped, DavCopies
    <3>3. p.from[1] = p.w
      BY <2>1
    <3> QED
      BY <2>2, <2>4, <3>1, <3>2, <3>3 DEF Numbered, NoEv
  <2>6. /\ \A x \in DavWorkers \ {p.w} : davEv'[x] = davEv[x] /\ davTomb'[x] = davTomb[x]
        /\ \A y \in DavUids \ {p.u} : davEv'[p.w][y] = davEv[p.w][y] /\ davTomb'[p.w][y] = davTomb[p.w][y]
    BY <2>1, <2>3 DEF DavTyped, DavCopies
  <2>12. \A w : \A x \in DavClients : davPut'[x] = davPut[x] \/ (~BuriesAt(x, w) /\ ~BuriesAt(x, w)')
    BY <1>4, QuietTurns DEF BuriesAt
  <2>13. \A y \in DavUids \ {p.u} : Deletions(p.w, y)' = Deletions(p.w, y)
    BY <2>6, <2>12, UnwrittenStays DEF Deletions
  <2>7. PICK m : /\ m = Noted(b, p.u, e, p.from)[c]
                 /\ n = IF m.home # <<>> /\ m.home[1] = p.w /\ m.token >= p.seq
                        THEN [m EXCEPT !.missed = TRUE] ELSE m
    BY <1>0, <2>3 DEF TellAll
  <2>8. m \in DavView
    <3>1. m = IF c = b THEN [Meets(v, p.from) EXCEPT !.copy[p.u] = e] ELSE v
      BY <1>0, <2>7 DEF Noted, DavTyped
    <3>2. e \in DavEvent /\ p.from \in DavWorkers \X Nat
      BY <2>1, <2>4, IssuedTypes
    <3> QED
      BY <1>a, <2>1, <3>1, <3>2, ViewTypes
  <2>9. n = m /\ ~(m.home # <<>> /\ m.home[1] = p.w /\ m.token >= p.seq)
    BY <1>a, <2>7, <2>8 DEF DavView
  <2>10. CASE c # b
    <3>1. n = v
      BY <1>0, <2>7, <2>9, <2>10 DEF Noted, DavTyped
    <3>2. ASSUME Current(v, p.w) PROVE \A u \in DavUids : Told(v, p.w, u)'
      <4>1. v.token < p.seq
        <5>1. v.home # <<>> /\ v.home[1] = p.w
          BY <3>2 DEF Current
        <5>2. v.token \in Nat
          BY <1>a DEF DavView
        <5> QED
          BY <2>1, <2>9, <3>1, <5>1, <5>2
      <4>2. Told(v, p.w, p.u)'
        BY <2>4, <2>5, <4>1 DEF Told
      <4>3. \A u \in DavUids : Told(v, p.w, u)
        BY <1>a, <1>c, <2>1, <3>1, <3>2 DEF Follows
      <4>4. \A u \in DavUids \ {p.u} : Told(v, p.w, u)'
        BY <2>6, <2>13, <4>3 DEF Told
      <4> QED
        BY <4>2, <4>4
    <3> QED
      BY <1>d, <1>e, <2>6, <2>12, <3>1, <3>2
  <2>11. CASE c = b
    <3>1. n = [Meets(v, p.from) EXCEPT !.copy[p.u] = e]
      BY <1>0, <2>7, <2>9, <2>11 DEF Noted, DavTyped
    <3>2. /\ n.home = p.from /\ n.token = v.token /\ n.agrees = v.agrees
          /\ n.missed = (v.missed \/ v.home \notin {<<>>, p.from})
          /\ n.copy[p.u] = e /\ \A y \in DavUids \ {p.u} : n.copy[y] = v.copy[y]
      BY <1>a, <2>1, <3>1 DEF Meets, DavView, DavCopies
    <3>3. Follows(v) /\ v.home \in {<<>>, p.from}
      BY <1>a, <1>c, <3>2
    <3>4. PICK g \in Nat : p.from = <<p.w, g>> /\ g <= davGen'[p.w]
      BY <2>1, <2>3, <2>5
    <3>5. v.token < p.seq /\ v.token \in Nat
      BY <1>a, <2>1, <2>9, <3>2, <3>4 DEF DavView
    <3>6. ASSUME g = davGen'[p.w], davCal'[p.w] # NoCalendar, Clean(p.w)'
          PROVE  n.token <= davCal'[p.w] /\ \A u \in DavUids : Told(n, p.w, u)'
      <4>1. Gen(p.w) = g /\ Counter(p.w) = davCal'[p.w]
        BY <2>3, <3>6 DEF Gen, Counter
      <4>5. Clean(p.w)
        BY <2>1, <2>3, <3>6, CleanBefore
      <4>2. v.token <= davCal'[p.w] /\ \A u \in DavUids : Told(v, p.w, u)
        BY <1>a, <2>1, <3>3, <3>4, <4>1, <4>5, ViewMeets
      <4>3. Told(n, p.w, p.u)'
        BY <2>4, <2>5, <3>2, <3>5 DEF Told
      <4>4. \A u \in DavUids \ {p.u} : Told(n, p.w, u)'
        BY <2>6, <2>13, <3>2, <4>2 DEF Told
      <4> QED
        BY <3>2, <4>2, <4>3, <4>4
    <3>7. n.agrees
      BY <3>2, <3>3 DEF Follows
    <3> QED
      BY <2>1, <3>2, <3>4, <3>6, <3>7, ViewAnswered
  <2> QED
    BY <2>10, <2>11
<1>5. ASSUME NEW b \in DavClients, DeletePop(b) PROVE Follows(n)'
  <2>0. PICK p : p = davPut[b]
    OBVIOUS
  <2>1. p \in Put /\ p.step = "pop" /\ p.w \in DavWorkers /\ p.u \in DavUids /\ p.seq \in Nat
    BY <1>5, <2>0, DavRecords DEF DeletePop, DavTyped, Put
  <2>2. CASE davEv[p.w][p.u] = NoEv
    <3>1. UNCHANGED <<davEv, davTomb, davView>> /\ davPut' = [davPut EXCEPT ![b] = NoPut]
      BY <1>5, <2>0, <2>2 DEF DeletePop
    <3> QED
      BY <1>1, <2>0, <2>1, <3>1, DavRecords DEF DavTyped
  <2>3. CASE davEv[p.w][p.u] # NoEv
    <3>1. /\ davEv' = [davEv EXCEPT ![p.w][p.u] = NoEv] /\ davView' = TellAll(p.w, p.seq, davView)
          /\ davPut' = [davPut EXCEPT ![b] = [p EXCEPT !.step = "bury"]] /\ UNCHANGED davTomb
      BY <1>5, <2>0, <2>3 DEF DeletePop
    <3>2. n = v /\ ~(v.home # <<>> /\ v.home[1] = p.w /\ v.token >= p.seq)
      BY <1>0, <1>a, <3>1 DEF TellAll, DavView
    <3>3. /\ davEv'[p.w][p.u] = NoEv /\ \A x \in DavWorkers \ {p.w} : davEv'[x] = davEv[x]
          /\ \A u \in DavUids \ {p.u} : davEv'[p.w][u] = davEv[p.w][u]
      BY <2>1, <3>1 DEF DavTyped, DavCopies
    <3>4. /\ davPut'[b].step = "bury" /\ davPut'[b].w = p.w /\ davPut'[b].u = p.u /\ davPut'[b].seq = p.seq
          /\ \A x \in DavClients \ {b} : davPut'[x] = davPut[x]
      BY <2>1, <3>1 DEF DavTyped, Put
    <3>5. p.seq \in Deletions(p.w, p.u)'
      BY <3>4 DEF Deletions, Unwritten, BuriesAt
    <3>6. \A u \in DavUids \ {p.u} : Deletions(p.w, u)' = Deletions(p.w, u)
      <4>1. \A u \in DavUids \ {p.u} : Unwritten(p.w, u)' = Unwritten(p.w, u)
        BY <2>0, <2>1, <3>4 DEF Unwritten, BuriesAt
      <4> QED
        BY <3>1, <4>1 DEF Deletions
    <3>7. ASSUME Current(v, p.w) PROVE \A u \in DavUids : Told(v, p.w, u)'
      <4>1. p.seq > v.token
        <5>1. v.home # <<>> /\ v.home[1] = p.w
          BY <3>7 DEF Current
        <5>2. v.token \in Nat
          BY <1>a DEF DavView
        <5> QED
          BY <2>1, <3>2, <5>1, <5>2
      <4>2. Told(v, p.w, p.u)'
        BY <3>3, <3>5, <4>1 DEF Told
      <4>3. \A u \in DavUids : Told(v, p.w, u)
        BY <1>a, <1>c, <2>1, <3>2, <3>7 DEF Follows
      <4>4. \A u \in DavUids \ {p.u} : Told(v, p.w, u)'
        BY <3>3, <3>6, <4>3 DEF Told
      <4> QED
        BY <4>2, <4>4
    <3>8. \A x \in DavWorkers \ {p.w}, z \in DavClients :
             davPut'[z] = davPut[z] \/ (~BuriesAt(z, x) /\ ~BuriesAt(z, x)')
      BY <2>0, <3>4 DEF BuriesAt
    <3> QED
      BY <1>d, <1>e, <3>1, <3>2, <3>3, <3>7, <3>8
  <2> QED
    BY <2>2, <2>3
<1>11. ASSUME NEW b \in DavClients, DeleteBuries(b) PROVE Follows(n)'
  <2>0. PICK p : p = davPut[b]
    OBVIOUS
  <2>1. /\ p \in Put /\ p.step = "bury" /\ p.w \in DavWorkers /\ p.u \in DavUids /\ p.seq \in Nat
        /\ \E g \in Nat : p.from = <<p.w, g>> /\ g <= davGen[p.w]
    BY <1>11, <2>0, DeletionCounts DEF DeleteBuries
  <2>2. /\ davTomb' = [davTomb EXCEPT ![p.w][p.u] = p.seq]
        /\ davView' = TellAll(p.w, p.seq, Noted(b, p.u, NoEv, p.from))
        /\ davPut' = [davPut EXCEPT ![b] = NoPut] /\ UNCHANGED <<davCal, davGen, davEv>>
    BY <1>11, <2>0 DEF DeleteBuries
  <2>3. /\ davTomb'[p.w][p.u] = p.seq /\ \A x \in DavWorkers \ {p.w} : davTomb'[x] = davTomb[x]
        /\ \A u \in DavUids \ {p.u} : davTomb'[p.w][u] = davTomb[p.w][u]
    BY <2>1, <2>2 DEF DavTyped
  <2>4. davPut'[b] = NoPut /\ \A x \in DavClients \ {b} : davPut'[x] = davPut[x]
    BY <2>2 DEF DavTyped
  <2>5. /\ p.seq \in Deletions(p.w, p.u) /\ Deletions(p.w, p.u)' \subseteq Deletions(p.w, p.u)
        /\ p.seq \in Deletions(p.w, p.u)'
    <3>1. p.seq \in Unwritten(p.w, p.u) /\ Unwritten(p.w, p.u)' \subseteq Unwritten(p.w, p.u)
      BY <2>0, <2>1, <2>4, DavRecords DEF Unwritten, BuriesAt
    <3> QED
      BY <2>3, <3>1 DEF Deletions
  <2>6. \A u \in DavUids \ {p.u} : Deletions(p.w, u)' = Deletions(p.w, u)
    <3>1. \A u \in DavUids \ {p.u} : Unwritten(p.w, u)' = Unwritten(p.w, u)
      BY <2>0, <2>1, <2>4, DavRecords DEF Unwritten, BuriesAt
    <3> QED
      BY <2>3, <3>1 DEF Deletions
  <2>7. PICK m : /\ m = Noted(b, p.u, NoEv, p.from)[c]
                 /\ n = IF m.home # <<>> /\ m.home[1] = p.w /\ m.token >= p.seq
                        THEN [m EXCEPT !.missed = TRUE] ELSE m
    BY <1>0, <2>2 DEF TellAll
  <2>8. m \in DavView
    <3>1. m = IF c = b THEN [Meets(v, p.from) EXCEPT !.copy[p.u] = NoEv] ELSE v
      BY <1>0, <2>7 DEF Noted, DavTyped
    <3>2. p.from \in DavWorkers \X Nat
      BY <2>1
    <3> QED
      BY <1>a, <2>1, <3>1, <3>2, ViewTypes
  <2>9. n = m /\ ~(m.home # <<>> /\ m.home[1] = p.w /\ m.token >= p.seq)
    BY <1>a, <2>7, <2>8 DEF DavView
  <2>10. ASSUME n.token = v.token, v.token < p.seq, \A u \in DavUids : Told(v, p.w, u),
                \A u \in DavUids \ {p.u} : n.copy[u] = v.copy[u], n.copy[p.u] \in {v.copy[p.u], NoEv}
         PROVE  \A u \in DavUids : Told(n, p.w, u)'
    <3>1. Told(n, p.w, p.u)'
      BY <2>1, <2>2, <2>5, <2>10 DEF Told
    <3>2. \A u \in DavUids \ {p.u} : Told(n, p.w, u)'
      BY <2>2, <2>6, <2>10 DEF Told
    <3> QED
      BY <3>1, <3>2
  <2>11. CASE c # b
    <3>1. n = v
      BY <1>0, <2>7, <2>9, <2>11 DEF Noted, DavTyped
    <3>2. ASSUME Current(v, p.w) PROVE \A u \in DavUids : Told(v, p.w, u)'
      <4>1. v.token < p.seq
        <5>1. v.home # <<>> /\ v.home[1] = p.w
          BY <3>2 DEF Current
        <5>2. v.token \in Nat
          BY <1>a DEF DavView
        <5> QED
          BY <2>1, <2>9, <3>1, <5>1, <5>2
      <4>2. \A u \in DavUids : Told(v, p.w, u)
        BY <1>a, <1>c, <2>1, <3>1, <3>2 DEF Follows
      <4> QED
        BY <2>10, <3>1, <4>1, <4>2
    <3>3. \A x \in DavWorkers \ {p.w}, z \in DavClients :
             davPut'[z] = davPut[z] \/ (~BuriesAt(z, x) /\ ~BuriesAt(z, x)')
      BY <2>0, <2>4, DavRecords DEF BuriesAt
    <3> QED
      BY <1>d, <1>e, <2>2, <2>3, <3>1, <3>2, <3>3
  <2>12. CASE c = b
    <3>1. n = [Meets(v, p.from) EXCEPT !.copy[p.u] = NoEv]
      BY <1>0, <2>7, <2>9, <2>12 DEF Noted, DavTyped
    <3>2. /\ n.home = p.from /\ n.token = v.token /\ n.agrees = v.agrees
          /\ n.missed = (v.missed \/ v.home \notin {<<>>, p.from})
          /\ n.copy[p.u] = NoEv /\ \A y \in DavUids \ {p.u} : n.copy[y] = v.copy[y]
      BY <1>a, <2>1, <3>1 DEF Meets, DavView, DavCopies
    <3>3. Follows(v) /\ v.home \in {<<>>, p.from}
      BY <1>a, <1>c, <3>2
    <3>4. PICK g \in Nat : p.from = <<p.w, g>> /\ g <= davGen'[p.w]
      BY <2>1, <2>2
    <3>5. v.token < p.seq /\ v.token \in Nat
      BY <1>a, <2>1, <2>9, <3>2, <3>4 DEF DavView
    <3>6. ASSUME g = davGen'[p.w], davCal'[p.w] # NoCalendar, Clean(p.w)'
          PROVE  n.token <= davCal'[p.w] /\ \A u \in DavUids : Told(n, p.w, u)'
      <4>1. Gen(p.w) = g /\ Counter(p.w) = davCal'[p.w]
        BY <2>2, <3>6 DEF Gen, Counter
      <4>2. Clean(p.w)
        BY <2>1, <2>2, <3>6, CleanBefore
      <4>3. v.token <= davCal'[p.w] /\ \A u \in DavUids : Told(v, p.w, u)
        BY <1>a, <2>1, <3>3, <3>4, <4>1, <4>2, ViewMeets
      <4> QED
        BY <2>10, <3>2, <3>5, <4>3
    <3>7. n.agrees
      BY <3>2, <3>3 DEF Follows
    <3> QED
      BY <2>1, <3>2, <3>4, <3>6, <3>7, ViewAnswered
  <2> QED
    BY <2>11, <2>12
<1>6. ASSUME NEW b \in DavFollowers, NEW w \in DavWorkers, Propfind(b, w) PROVE Follows(n)'
  <2>1. UNCHANGED <<davEv, davTomb, davPut>> /\ Kept(w) /\ (c # b => n = v)
    BY <1>0, <1>6 DEF Propfind, DavTyped
  <2>2. CASE c # b
    BY <1>d, <1>e, <2>1, <2>2
  <2>3. CASE c = b
    <3>1. n.token = Counter(w) /\ n.home = <<w, Gen(w)>> /\ n.agrees /\ n.copy = davEv[w]
      BY <1>0, <1>6, <2>3 DEF Propfind, DavTyped
    <3>2. davCal'[w] = Counter(w) /\ davGen'[w] = Gen(w) /\ Counter(w) \in Nat /\ Gen(w) \in Nat
      BY <2>1, DavCounts DEF Kept, DavTyped
    <3>3. ASSUME Clean(w)' PROVE \A u \in DavUids : Told(n, w, u)'
      <4>1. ASSUME NEW u \in DavUids, NEW t \in Deletions(w, u) PROVE t <= Counter(w)
        <5>1. CASE t = davTomb[w][u]
          BY <1>6, <3>3, <5>1 DEF Clean, SyncInv, Propfind
        <5>2. ASSUME NEW x \in DavClients, BuriesAt(x, w), t = davPut[x].seq PROVE t <= Counter(w)
          <6>1. davPut[x].step = "bury" /\ davPut[x].w = w /\ davPut[x].from = <<w, Gen(w)>>
            BY <2>1, <3>2, <3>3, <5>2 DEF Clean, BuriesAt
          <6>2. PICK g \in Nat : davPut[x].from = <<w, g>> /\ g <= davGen[w]
            BY <6>1, DeletionCounts
          <6>3. g = Gen(w) /\ davGen[w] \in Nat
            BY <6>1, <6>2 DEF DavTyped
          <6>4. davCal[w] # NoCalendar /\ Gen(w) = davGen[w]
            BY <6>2, <6>3, DavCounts
          <6>5. davPut[x].seq <= davCal[w]
            BY <6>1, <6>4, DeletionCounts
          <6> QED
            BY <5>2, <6>4, <6>5, DavCounts
        <5> QED
          BY <4>1, <5>1, <5>2 DEF Deletions, Unwritten
      <4>2. \A u \in DavUids : Deletions(w, u)' = Deletions(w, u) /\ Deletions(w, u) \subseteq Nat
        <5>1. \A u \in DavUids : Deletions(w, u)' = Deletions(w, u)
          BY <2>1 DEF Deletions, Unwritten, BuriesAt
        <5>2. \A x \in DavClients : BuriesAt(x, w) => davPut[x].seq \in Nat
          BY DeletionCounts DEF BuriesAt
        <5>3. \A u \in DavUids : davTomb[w][u] \in Nat
          BY DEF DavTyped
        <5> QED
          BY <5>1, <5>2, <5>3 DEF Deletions, Unwritten
      <4> QED
        BY <2>1, <3>1, <3>2, <4>1, <4>2 DEF Told
    <3>5. PICK g \in Nat : g = Gen(w)
      BY <3>2
    <3> QED
      BY <3>1, <3>2, <3>3, <3>5, ViewAnswered
  <2> QED
    BY <2>2, <2>3
<1>7. ASSUME NEW b \in DavFollowers, NEW w \in DavWorkers, NEW limit, Sync(b, w, limit) PROVE Follows(n)'
  <2>1. UNCHANGED <<davEv, davTomb, davPut>> /\ Kept(w) /\ (c # b => n = v)
    BY <1>0, <1>7 DEF Sync, DavTyped
  <2>2. CASE c # b
    BY <1>d, <1>e, <2>1, <2>2
  <2>3. CASE c = b
    <3>1. davCal'[w] = Counter(w) /\ davGen'[w] = Gen(w) /\ Counter(w) \in Nat /\ Gen(w) \in Nat
      BY <2>1, DavCounts DEF Kept, DavTyped
    <3> DEFINE V == davView[b]
               gone == Deleted(w, V.token)
               new == DavChanged(w, V.token)
               out == FirstOf(gone, limit)
               in == FirstOf(new, limit - Cardinality(gone))
               copy == [u \in DavUids |-> IF u \in in THEN davEv[w][u]
                                          ELSE IF u \in out THEN NoEv ELSE V.copy[u]]
               W == [Meets(V, <<w, Gen(w)>>) EXCEPT
                       !.token = NextToken(w, V.token), !.copy = copy, !.agrees = copy = davEv[w],
                       !.missed = @ \/ out # gone \/ in # new \/ Unburied(w)]
    <3>a. davView' = [davView EXCEPT ![b] = W]
      BY <1>7, Zenon DEF Sync
    <3>b. copy = [u \in DavUids |-> IF u \in in THEN davEv[w][u] ELSE IF u \in out THEN NoEv ELSE V.copy[u]]
      OBVIOUS
    <3>c. V = v
      BY <1>0, <2>3
    <3> HIDE DEF W, copy, in, out, gone, new, V
    <3>2. n = W
      BY <1>0, <2>3, <3>a DEF DavTyped
    <3>3. /\ n.home = <<w, Gen(w)>> /\ n.token = NextToken(w, v.token) /\ n.copy = copy
          /\ n.agrees = (copy = davEv[w])
          /\ n.missed = (v.missed \/ v.home \notin {<<>>, <<w, Gen(w)>>} \/ out # gone \/ in # new \/ Unburied(w))
      BY <1>a, <3>c, <3>2 DEF Meets, DavView, W
    <3>4. Follows(v) /\ v.home \in {<<>>, <<w, Gen(w)>>} /\ out = gone /\ in = new /\ ~Unburied(w)
      BY <1>a, <1>c, <3>3
    <3>12. Clean(w) /\ \A u \in DavUids : Deletions(w, u) = {davTomb[w][u]} /\ Deletions(w, u)' = {davTomb[w][u]}
      <4>1. \A x \in DavClients : ~BuriesAt(x, w) /\ ~BuriesAt(x, w)'
        BY <2>1, <3>4 DEF Unburied, BuriesAt
      <4> QED
        BY <2>1, <3>4, <4>1 DEF Clean, Unburied, Deletions, Unwritten
    <3>5. v.token <= Counter(w) /\ v.token \in Nat /\ \A u \in DavUids : Told(v, w, u)
      BY <1>a, <3>4, <3>12, ViewMeets DEF DavView
    <3>6. n.token = Counter(w)
      BY <3>1, <3>3, <3>5 DEF NextToken
    <3>7. \A u \in DavUids : copy[u] = davEv[w][u]
      BY <3>b, <3>c, <3>4, <3>5, <3>12 DEF Told, Deleted, DavChanged, gone, new
    <3>8. copy = davEv[w]
      BY <3>b, <3>7 DEF DavTyped, DavCopies
    <3>9. \A u \in DavUids : davTomb[w][u] <= Counter(w) /\ davTomb[w][u] \in Nat
      BY <3>4 DEF SyncInv, DavTyped, Unburied
    <3>10. \A u \in DavUids : Told(n, w, u)'
      BY <2>1, <3>1, <3>3, <3>6, <3>7, <3>9, <3>12 DEF Told
    <3>11. PICK g \in Nat : g = Gen(w)
      BY <3>1
    <3> QED
      <4>1. n.token <= davCal'[w] /\ Gen(w) <= davGen'[w]
        BY <3>1, <3>6
      <4>2. n.agrees /\ n.home = <<w, Gen(w)>>
        BY <3>3, <3>8, Zenon
      <4> QED
        BY <3>10, <3>11, <4>1, <4>2, ViewAnswered
  <2> QED
    BY <2>2, <2>3
<1>8. ASSUME NEW b \in DavClients,
             (\E w, u, cond : PutCheck(b, w, u, cond) \/ DeleteCheck(b, w, u, cond)) \/ TakeNumber(b)
      PROVE  Follows(n)'
  <2>1. UNCHANGED <<davEv, davTomb, davView>>
    BY <1>8 DEF PutCheck, DeleteCheck, TakeNumber
  <2> QED
    BY <1>1, <1>8, <2>1, QuietTurns
<1>9. ASSUME NEW b, NEW w, Proppatch(b, w) \/ Mkcalendar(b, w) PROVE Follows(n)'
  BY <1>1, <1>9 DEF Proppatch, Mkcalendar
<1>10. (DavTick \/ UNCHANGED davVars) => Follows(n)'
  BY <1>1 DEF DavTick, davVars
<1> QED
  BY <1>2, <1>3, <1>4, <1>5, <1>6, <1>7, <1>8, <1>9, <1>10, <1>11, DavAssumption DEF DavNext

(* Unless it missed something for one of the reasons named there, a        *)
(* follower of the sync tokens has after each sync what the server has.    *)
THEOREM SyncIsComplete == DavSpec => []SyncComplete
<1>1. DavInit => DavTyped /\ EtagInv /\ SyncInv
  BY DavStarts, EtagStarts, SyncStarts
<1>2. DavTyped /\ EtagInv /\ SyncInv /\ [DavNext]_davVars => (DavTyped /\ EtagInv /\ SyncInv)'
  <2> SUFFICES ASSUME DavTyped, EtagInv, SyncInv, [DavNext]_davVars PROVE (DavTyped /\ EtagInv /\ SyncInv)'
    OBVIOUS
  <2>1. DavTyped' /\ EtagInv'
    BY DavTypesKept, EtagStep
  <2>2. \A c \in DavFollowers : ~davView'[c].missed => Follows(davView[c])'
    BY <2>1, SyncStep
  <2>3. \A w \in DavWorkers \ davStray', u \in DavUids : davTomb'[w][u] <= Counter(w)'
    BY <2>1, TombsCount
  <2> QED
    BY <2>1, <2>2, <2>3 DEF SyncInv
<1>3. SyncInv => SyncComplete
  BY DEF SyncInv, Follows, SyncComplete
<1> QED
  BY <1>1, <1>2, <1>3, PTL DEF DavSpec

-----------------------------------------------------------------------------
(* Mailboxes: no mail is lost                                              *)
(*                                                                         *)
(* That a mail has a copy somewhere is not inductive: the copy may be one  *)
(* a request is about to mark.  The invariant is that every mail has a     *)
(* copy that is not marked and that no request, having copied it, is about *)
(* to mark (Spares).  It holds because a request and its mail are tied by  *)
(* the folder's identity and the UID, which the server gives once          *)
(* (Numbers, Known).                                                       *)

MbNames == {"INBOX", "Junk", "Trash", "TrashOld", "A", "B"}
MbPath == Seq(MbNames)
FolderId == MbPath \X Nat
Mail == [mail: MbMails, del: BOOLEAN]
MailsByUid == UNION {[D -> Mail] : D \in SUBSET Nat}
Folder == [id: FolderId, next: Nat, mails: MailsByUid]
IsMailbox(box) == DOMAIN box \subseteq MbPath /\ box \in [DOMAIN box -> Folder]

(* A renamed folder has a path again.                                      *)
LEMMA UnderTypes ==
  ASSUME NEW p \in MbPath, NEW q \in MbPath, NEW x \in MbPath
  PROVE  Under(q, p, x) \in MbPath
<1>1. SubSeq(x, Len(p) + 1, Len(x)) \in MbPath
  <2>1. Len(p) \in Nat /\ Len(x) \in Nat /\ \A i \in 1 .. Len(x) : x[i] \in MbNames
    BY DEF MbPath
  <2> QED
    BY <2>1, SubSeqProperties DEF MbPath
<1> QED
  BY <1>1, ConcatProperties DEF MbPath, Under

(* A folder below p is known by what follows p in its path.                *)
LEMMA UnderInjective ==
  ASSUME NEW p \in MbPath, NEW q \in MbPath, NEW x \in MbPath, NEW y \in MbPath, IsPrefix(p, x), IsPrefix(p, y),
         Under(q, p, x) = Under(q, p, y)
  PROVE  x = y
<1> DEFINE rest(z) == SubSeq(z, Len(p) + 1, Len(z))
<1>1. ASSUME NEW z \in MbPath, IsPrefix(p, z) PROVE z = p \o rest(z) /\ rest(z) \in MbPath
  <2>1. Len(p) \in Nat /\ Len(z) \in Nat /\ Len(p) <= Len(z) /\ \A i \in 1 .. Len(z) : z[i] \in MbNames
    BY <1>1 DEF IsPrefix, MbPath
  <2>2. SubSeq(z, 1, Len(p)) \o rest(z) = SubSeq(z, 1, Len(z))
    <3>1. 1 \in 1 .. Len(z) + 1 /\ Len(p) \in (1 - 1) .. Len(z) /\ Len(z) \in Len(p) .. Len(z)
      BY <2>1
    <3>2. z \in Seq(MbNames)
      BY DEF MbPath
    <3> QED
      BY <3>1, <3>2, ConcatAdjacentSubSeq
  <2>3. SubSeq(z, 1, Len(p)) = SubSeq(p, 1, Len(p))
    BY <1>1 DEF IsPrefix
  <2>4. SubSeq(p, 1, Len(p)) = p /\ SubSeq(z, 1, Len(z)) = z
    BY SubSeqFull DEF MbPath
  <2>5. rest(z) \in MbPath
    BY <2>1, SubSeqProperties DEF MbPath
  <2> QED
    BY <2>2, <2>3, <2>4, <2>5
<1>2. q \o rest(x) = q \o rest(y)
  BY DEF Under
<1>3. /\ rest(x) \in MbPath /\ rest(y) \in MbPath /\ x = p \o rest(x) /\ y = p \o rest(y)
  BY <1>1
<1> HIDE DEF rest
<1>4. rest(x) = rest(y)
  <2>1. \A s, t, v \in Seq(MbNames) : s \o t = s \o v => t = v
    BY ConcatSimplifications, Zenon
  <2> QED
    BY <1>2, <1>3, <2>1, Zenon DEF MbPath
<1> QED
  BY <1>3, <1>4

(* What a request is while it is about a mail, and while it is about       *)
(* folders.                                                                *)
MailOps == {"delete", "move", "copy", "spam", "ham"}
OfMails == [op: MailOps, at: {"copy", "store", "expunge"}, from: MbPath, path: MbPath, dest: MbPath,
            uid: Nat, mail: MbMails, box: FolderId, sel: FolderId \cup {<< >>}, expunge: BOOLEAN]
OfFolders == [op: {"expunge", "purge", "destroy", "trash"}, at: {"folders", "last"}, path: MbPath,
              perm: BOOLEAN, out: SUBSET MbPath, pend: SUBSET MbPath]

MbTyped ==
    /\ IsMailbox(mbBox)
    /\ mbReq \in [MbRequests -> OfMails \cup OfFolders \cup {NoReq}]
    /\ mbIds \in Nat

(* Folders are told apart by their ids, and UIDs are not used again.       *)
Numbers ==
    /\ \A p, q \in Paths : mbBox[p].id = mbBox[q].id => p = q
    /\ \A p \in Paths : mbBox[p].id[2] < mbIds
    /\ \A p \in Paths : \A u \in DOMAIN mbBox[p].mails : u < mbBox[p].next

AboutMail(r) == mbReq[r] \in OfMails

(* In the folder a request is about, its UID is still that of its mail, or *)
(* of none.                                                                *)
KnowsItsMail(q) ==
    \A p \in Paths : mbBox[p].id = q.box =>
        /\ q.uid < mbBox[p].next
        /\ q.uid \in DOMAIN mbBox[p].mails => mbBox[p].mails[q.uid].mail = q.mail

KnownRequest(q) ==
    /\ q.box[2] < mbIds
    /\ KnowsItsMail(q)
    /\ q.at = "store" /\ q.sel = << >> => q.mail \in mbAsked

Known == \A r \in MbRequests : AboutMail(r) => KnownRequest(mbReq[r])

(* The mail a request has copied and is about to mark.                     *)
Targets(r, id, u) ==
    /\ AboutMail(r) /\ mbReq[r].at = "store"
    /\ mbReq[r].box = id /\ mbReq[r].sel = id /\ mbReq[r].uid = u

Spare(p, u, m) ==
    /\ mbBox[p].mails[u] = [mail |-> m, del |-> FALSE]
    /\ \A r \in MbRequests : ~Targets(r, mbBox[p].id, u)

(* Every mail has a copy that no request is about to mark.                 *)
Spares ==
    \A m \in MbMails \ (mbAsked \cup mbStrayed) :
        \E p \in Paths : \E u \in DOMAIN mbBox[p].mails : Spare(p, u, m)

MbInv == MbTyped /\ Numbers /\ Known /\ Spares

(* The kinds of requests are told apart, and a new folder is one.          *)
LEMMA MbRecords ==
    /\ NoReq \notin OfMails /\ NoReq \notin OfFolders /\ OfMails \cap OfFolders = {}
    /\ \A id \in FolderId : << >> # id /\ NewFolder(id) \in Folder
                            /\ DOMAIN NewFolder(id).mails = {} /\ NewFolder(id).id = id
<1>1. NoReq \notin OfMails /\ NoReq \notin OfFolders /\ OfMails \cap OfFolders = {}
  BY DEF NoReq, OfMails, OfFolders, MailOps
<1>2. << >> \in MailsByUid /\ DOMAIN << >> = {}
  <2>1. << >> \in [{} -> Mail] /\ {} \in SUBSET Nat
    OBVIOUS
  <2> QED
    BY <2>1 DEF MailsByUid
<1>3. \A id \in FolderId : << >> # id
  BY DEF FolderId
<1> QED
  BY <1>1, <1>2, <1>3 DEF NewFolder, Folder

(* What is put in the place of a folder, or added.                         *)
Fits(box, S) ==
    /\ IsMailbox(box) /\ S \subseteq MbPath
    /\ \A p, q \in DOMAIN box : box[p].id = box[q].id => p = q
    /\ \A p \in DOMAIN box : box[p].id[2] < mbIds \/ box[p].id = <<p, mbIds>>
    /\ \A p \in DOMAIN box : \A u \in DOMAIN box[p].mails : u < box[p].next
    /\ \/ \E p \in DOMAIN box \cup S : p \notin Paths
       \/ S \subseteq DOMAIN box /\ \A p \in DOMAIN box : box[p].id[2] < mbIds

(* Folders made next to those of box: ids stay unique, the others stay.    *)
LEMMA MadeIs ==
  ASSUME MbTyped, NEW box, NEW S, Made(box, S), Fits(box, S)
  PROVE  /\ Numbers' /\ IsMailbox(mbBox)' /\ mbIds' \in Nat /\ mbIds' >= mbIds
         /\ Paths' = DOMAIN box \cup S
         /\ \A p \in DOMAIN box : mbBox'[p] = box[p]
         /\ \A p \in Paths' \ DOMAIN box : mbBox'[p] = NewFolder(<<p, mbIds>>)
<1>1. /\ mbBox' = [p \in DOMAIN box \cup S |-> IF p \in DOMAIN box THEN box[p] ELSE NewFolder(<<p, mbIds>>)]
      /\ mbIds' = IF DOMAIN box \cup S \subseteq Paths THEN mbIds ELSE mbIds + 1
  BY DEF Made
<1>2. mbIds \in Nat /\ mbIds' \in {mbIds, mbIds + 1}
  BY <1>1 DEF MbTyped
<1>3. /\ Paths' = DOMAIN box \cup S /\ \A p \in DOMAIN box : mbBox'[p] = box[p]
      /\ \A p \in Paths' \ DOMAIN box : mbBox'[p] = NewFolder(<<p, mbIds>>)
  BY <1>1 DEF Paths
<1>4. \A p \in S : <<p, mbIds>> \in FolderId
  BY <1>2 DEF Fits, FolderId
<1>5. IsMailbox(mbBox)'
  <2>1. ASSUME NEW p \in DOMAIN box \cup S PROVE mbBox'[p] \in Folder
    <3>1. CASE p \in DOMAIN box
      <4>1. box \in [DOMAIN box -> Folder]
        BY DEF Fits, IsMailbox
      <4> QED
        BY <1>3, <3>1, <4>1
    <3>2. CASE p \notin DOMAIN box
      <4>1. mbBox'[p] = NewFolder(<<p, mbIds>>)
        BY <1>3, <2>1, <3>2
      <4>2. <<p, mbIds>> \in FolderId
        BY <1>4, <2>1, <3>2
      <4> QED
        BY <4>1, <4>2, MbRecords
    <3> QED
      BY <3>1, <3>2
  <2>2. DOMAIN mbBox' = DOMAIN box \cup S /\ DOMAIN box \cup S \subseteq MbPath
    BY <1>1 DEF Fits, IsMailbox
  <2>3. mbBox' = [p \in DOMAIN mbBox' |-> mbBox'[p]]
    BY <1>1
  <2> QED
    BY <2>1, <2>2, <2>3 DEF IsMailbox
<1>6. \A p \in DOMAIN box : box[p].id \in FolderId
  BY DEF Fits, IsMailbox, Folder
<1>7. ASSUME NEW p \in Paths' PROVE mbBox'[p].id[2] < mbIds \/ mbBox'[p].id = <<p, mbIds>>
  BY <1>3, <1>4, MbRecords DEF Fits
<1>a. \A p \in Paths' \ DOMAIN box : mbBox'[p].id = <<p, mbIds>>
  BY <1>3, <1>4, MbRecords
<1>8. ASSUME NEW p \in Paths', NEW q \in Paths', mbBox'[p].id = mbBox'[q].id PROVE p = q
  <2>1. CASE mbBox'[p].id[2] < mbIds
    <3>1. p \in DOMAIN box /\ q \in DOMAIN box
      BY <1>2, <1>8, <1>a, <2>1
    <3> QED
      BY <1>3, <1>8, <3>1 DEF Fits
  <2>2. CASE mbBox'[p].id = <<p, mbIds>>
    <3>1. mbBox'[q].id = <<p, mbIds>> /\ mbBox'[q].id[2] = mbIds
      BY <1>8, <2>2
    <3>2. mbBox'[q].id = <<q, mbIds>>
      BY <1>2, <1>7, <3>1
    <3> QED
      BY <3>1, <3>2
  <2> QED
    BY <1>7, <2>1, <2>2
<1>9. ASSUME NEW p \in Paths' PROVE mbBox'[p].id[2] < mbIds'
  <2>1. CASE DOMAIN box \cup S \subseteq Paths
    <3>1. S \subseteq DOMAIN box /\ \A x \in DOMAIN box : box[x].id[2] < mbIds
      BY <2>1 DEF Fits
    <3> QED
      BY <1>1, <1>3, <2>1, <3>1
  <2>2. CASE ~(DOMAIN box \cup S \subseteq Paths)
    <3>1. mbIds' = mbIds + 1
      BY <1>1, <2>2
    <3>2. CASE mbBox'[p].id = <<p, mbIds>>
      BY <1>2, <3>1, <3>2
    <3>3. CASE mbBox'[p].id[2] < mbIds
      <4>1. mbBox'[p].id[2] \in Nat
        BY <1>5 DEF IsMailbox, Folder, FolderId, Paths
      <4> QED
        BY <1>2, <3>1, <3>3, <4>1
    <3> QED
      BY <1>7, <3>2, <3>3
  <2> QED
    BY <2>1, <2>2
<1>10. ASSUME NEW p \in Paths', NEW u \in DOMAIN mbBox'[p].mails PROVE u < mbBox'[p].next
  <2>1. CASE p \in DOMAIN box
    <3>1. mbBox'[p] = box[p]
      BY <1>3, <2>1
    <3> QED
      BY <1>10, <2>1, <3>1 DEF Fits
  <2>2. CASE p \notin DOMAIN box
    <3>1. mbBox'[p] = NewFolder(<<p, mbIds>>) /\ <<p, mbIds>> \in FolderId
      BY <1>3, <1>4, <1>10, <2>2
    <3>2. DOMAIN mbBox'[p].mails = {}
      BY <3>1, MbRecords
    <3> QED
      BY <1>10, <3>2
  <2> QED
    BY <2>1, <2>2
<1> QED
  BY <1>2, <1>3, <1>5, <1>8, <1>9, <1>10 DEF Numbers

(* What a command leaves: a folder is new or one that was there, with the  *)
(* mails it had and new UIDs; and the mails of p are kept together.        *)
Descends(p, x) ==
    /\ mbBox'[x].id = mbBox[p].id /\ mbBox'[x].next >= mbBox[p].next
    /\ \A u \in DOMAIN mbBox'[x].mails :
          u >= mbBox[p].next \/ (u \in DOMAIN mbBox[p].mails /\ mbBox'[x].mails[u].mail = mbBox[p].mails[u].mail)
FoldersDescend == \A x \in Paths' : mbBox'[x].id[2] = mbIds \/ \E p \in Paths : Descends(p, x)
Holds(x, p) ==
    /\ mbBox'[x].id = mbBox[p].id \/ mbBox'[x].id[2] = mbIds
    /\ \A u \in DOMAIN mbBox[p].mails : u \in DOMAIN mbBox'[x].mails /\ mbBox'[x].mails[u] = mbBox[p].mails[u]
MailsStay(p) == \E x \in Paths' : Holds(x, p)
Sound == Numbers' /\ IsMailbox(mbBox)' /\ mbIds' \in Nat /\ mbIds' >= mbIds /\ FoldersDescend

(* What is known of one folder of a mailbox.                               *)
LEMMA FolderFacts ==
  ASSUME MbTyped, NEW p \in Paths
  PROVE  /\ p \in MbPath /\ mbBox[p] \in Folder /\ mbBox[p].id \in FolderId /\ mbBox[p].next \in Nat
         /\ DOMAIN mbBox[p].mails \subseteq Nat /\ mbBox[p].mails \in [DOMAIN mbBox[p].mails -> Mail]
         /\ \A u \in DOMAIN mbBox[p].mails : mbBox[p].mails[u] \in Mail
<1>1. p \in MbPath /\ mbBox[p] \in Folder
  BY DEF MbTyped, IsMailbox, Paths
<1>2. \E D \in SUBSET Nat : mbBox[p].mails \in [D -> Mail]
  BY <1>1 DEF Folder, MailsByUid
<1> QED
  BY <1>1, <1>2 DEF Folder

LEMMA MailsByUidIs == ASSUME NEW f, DOMAIN f \subseteq Nat, f \in [DOMAIN f -> Mail] PROVE f \in MailsByUid
  BY DEF MailsByUid

LEMMA NewFolderIs == \A x : NewFolder(<<x, mbIds>>).id = <<x, mbIds>> /\ <<x, mbIds>>[2] = mbIds
  BY DEF NewFolder

(* Login and the creation of folders.                                      *)
LEMMA AddsFolders ==
  ASSUME MbTyped, Numbers, NEW S, S \subseteq MbPath, Made(mbBox, S)
  PROVE  Sound /\ \A p \in Paths : p \in Paths' /\ mbBox'[p] = mbBox[p] /\ MailsStay(p)
<1>1. Fits(mbBox, S)
  BY DEF Fits, MbTyped, Numbers, Paths
<1>2. /\ Numbers' /\ IsMailbox(mbBox)' /\ mbIds' \in Nat /\ mbIds' >= mbIds
      /\ Paths' = Paths \cup S
      /\ \A p \in Paths : mbBox'[p] = mbBox[p]
      /\ \A p \in Paths' \ Paths : mbBox'[p] = NewFolder(<<p, mbIds>>)
  BY <1>1, MadeIs DEF Paths
<1>3. \A p \in S : mbIds = NewFolder(<<p, mbIds>>).id[2]
  BY DEF NewFolder
<1>4. \A p \in Paths : Descends(p, p)
  BY <1>2, FolderFacts DEF Descends
<1>5. FoldersDescend
  BY <1>2, <1>3, <1>4 DEF FoldersDescend
<1>6. \A p \in Paths : Holds(p, p)
  BY <1>2 DEF Holds
<1> QED
  BY <1>2, <1>5, <1>6 DEF Sound, MailsStay

(* Flags are set or mails expunged in one folder.                          *)
LEMMA ChangesFolder ==
  ASSUME MbTyped, Numbers, NEW p \in Paths, NEW f \in Folder, mbBox' = [mbBox EXCEPT ![p] = f], mbIds' = mbIds,
         f.id = mbBox[p].id, f.next = mbBox[p].next,
         \A u \in DOMAIN f.mails : u \in DOMAIN mbBox[p].mails /\ f.mails[u].mail = mbBox[p].mails[u].mail
  PROVE  /\ Sound /\ Paths' = Paths /\ mbBox'[p] = f
         /\ \A x \in Paths \ {p} : mbBox'[x] = mbBox[x] /\ MailsStay(x)
<1>1. /\ Paths' = Paths /\ mbBox'[p] = f /\ \A x \in Paths \ {p} : mbBox'[x] = mbBox[x]
  BY DEF Paths, MbTyped, IsMailbox
<1>2. IsMailbox(mbBox)'
  BY <1>1 DEF MbTyped, IsMailbox, Paths
<1>3. \A x \in Paths : Descends(x, x)
  BY <1>1, FolderFacts DEF Descends
<1>4. \A x \in Paths \ {p} : Holds(x, x)
  BY <1>1 DEF Holds
<1>5. Numbers'
  <2>1. \A x \in Paths : mbBox'[x].id = mbBox[x].id /\ mbBox'[x].next = mbBox[x].next
    BY <1>1
  <2>2. \A x \in Paths : DOMAIN mbBox'[x].mails \subseteq DOMAIN mbBox[x].mails
    BY <1>1
  <2> QED
    BY <1>1, <2>1, <2>2 DEF Numbers
<1> QED
  BY <1>1, <1>2, <1>3, <1>4, <1>5 DEF Sound, FoldersDescend, MailsStay, MbTyped

(* A mark changes no mail and no UID, and no flag but those of U.          *)
LEMMA MarkedIs ==
  ASSUME MbTyped, NEW p \in Paths, NEW U
  PROVE  /\ Marked(p, U) \in Folder /\ Marked(p, U).id = mbBox[p].id /\ Marked(p, U).next = mbBox[p].next
         /\ DOMAIN Marked(p, U).mails = DOMAIN mbBox[p].mails
         /\ \A u \in DOMAIN mbBox[p].mails :
               /\ Marked(p, U).mails[u].mail = mbBox[p].mails[u].mail
               /\ u \notin U => Marked(p, U).mails[u] = mbBox[p].mails[u]
<1> DEFINE old == mbBox[p].mails
           new == [u \in DOMAIN old |-> [old[u] EXCEPT !.del = @ \/ u \in U]]
<1>1. mbBox[p] \in Folder /\ DOMAIN old \subseteq Nat /\ \A u \in DOMAIN old : old[u] \in Mail
  BY FolderFacts
<1>2. \A u \in DOMAIN old : new[u] \in Mail /\ new[u].mail = old[u].mail /\ (u \notin U => new[u] = old[u])
  BY <1>1 DEF Mail
<1>3. new \in [DOMAIN new -> Mail] /\ DOMAIN new = DOMAIN old
  BY <1>2
<1>4. Marked(p, U) = [mbBox[p] EXCEPT !.mails = new]
  BY DEF Marked
<1> HIDE DEF new
<1>5. new \in MailsByUid
  BY <1>1, <1>3, MailsByUidIs
<1> QED
  BY <1>1, <1>2, <1>3, <1>4, <1>5 DEF Folder

(* An expunge takes marked mails only.                                     *)
LEMMA ExpungedIs ==
  ASSUME MbTyped, NEW p \in Paths, NEW U
  PROVE  /\ Expunged(p, U) \in Folder /\ Expunged(p, U).id = mbBox[p].id /\ Expunged(p, U).next = mbBox[p].next
         /\ \A u \in DOMAIN Expunged(p, U).mails :
               u \in DOMAIN mbBox[p].mails /\ Expunged(p, U).mails[u] = mbBox[p].mails[u]
         /\ \A u \in DOMAIN mbBox[p].mails : ~mbBox[p].mails[u].del => u \in DOMAIN Expunged(p, U).mails
<1> DEFINE old == mbBox[p].mails
           left == {u \in DOMAIN old : ~(old[u].del /\ u \in U)}
           new == [u \in left |-> old[u]]
<1>1. mbBox[p] \in Folder /\ DOMAIN old \subseteq Nat /\ \A u \in DOMAIN old : old[u] \in Mail
  BY FolderFacts
<1>2. new \in [DOMAIN new -> Mail] /\ DOMAIN new = left
  BY <1>1
<1>3. Expunged(p, U) = [mbBox[p] EXCEPT !.mails = new]
  BY DEF Expunged, Restrict
<1>4. \A u \in left : new[u] = old[u]
  OBVIOUS
<1> HIDE DEF new
<1>5. new \in MailsByUid
  BY <1>1, <1>2, MailsByUidIs
<1> QED
  BY <1>1, <1>2, <1>3, <1>4, <1>5 DEF Folder

(* DELETE of one folder.                                                   *)
LEMMA DropsFolder ==
  ASSUME MbTyped, Numbers, NEW p, mbBox' = Restrict(mbBox, Paths \ {p}), mbIds' = mbIds
  PROVE  Sound /\ \A x \in Paths \ {p} : x \in Paths' /\ mbBox'[x] = mbBox[x] /\ MailsStay(x)
<1>1. Paths' = Paths \ {p} /\ \A x \in Paths \ {p} : mbBox'[x] = mbBox[x]
  BY DEF Paths, Restrict
<1>2. IsMailbox(mbBox)'
  <2>1. \A x \in Paths' : x \in MbPath /\ mbBox'[x] \in Folder
    BY <1>1, FolderFacts
  <2>2. mbBox' = [x \in Paths' |-> mbBox'[x]]
    BY <1>1 DEF Restrict
  <2> QED
    BY <2>1, <2>2 DEF IsMailbox, Paths
<1>3. ASSUME NEW x \in Paths \ {p} PROVE Descends(x, x)
  <2>1. mbBox'[x] = mbBox[x] /\ mbBox[x].next \in Nat
    BY <1>1, FolderFacts
  <2> QED
    BY <2>1 DEF Descends
<1>4. \A x \in Paths \ {p} : Holds(x, x)
  BY <1>1 DEF Holds
<1>5. Numbers'
  <2>1. ASSUME NEW x \in Paths', NEW y \in Paths', mbBox'[x].id = mbBox'[y].id PROVE x = y
    <3>1. x \in Paths /\ y \in Paths /\ mbBox'[x] = mbBox[x] /\ mbBox'[y] = mbBox[y]
      BY <1>1
    <3> QED
      BY <2>1, <3>1 DEF Numbers
  <2>2. \A x \in Paths' : mbBox'[x].id[2] < mbIds'
    BY <1>1 DEF Numbers
  <2>3. \A x \in Paths' : \A u \in DOMAIN mbBox'[x].mails : u < mbBox'[x].next
    BY <1>1 DEF Numbers
  <2> QED
    BY <2>1, <2>2, <2>3 DEF Numbers
<1> QED
  BY <1>1, <1>2, <1>3, <1>4, <1>5 DEF Sound, FoldersDescend, MailsStay, MbTyped

LEMMA UnderItself == ASSUME NEW p \in MbPath, NEW q \in MbPath PROVE Under(q, p, p) = q /\ IsPrefix(p, p)
<1>1. Len(p) \in Nat /\ Len(p) < Len(p) + 1
  BY DEF MbPath
<1>2. SubSeq(p, Len(p) + 1, Len(p)) = << >>
  BY <1>1, SubSeqEmpty
<1> QED
  BY <1>1, <1>2, ConcatEmptySeq DEF Under, IsPrefix, MbPath

(* The folders above a folder have paths.                                  *)
LEMMA AboveTypes == ASSUME NEW q \in MbPath PROVE Above(q) \subseteq MbPath
<1> SUFFICES ASSUME NEW i \in 1 .. Len(q) - 1 PROVE SubSeq(q, 1, i) \in MbPath
  BY DEF Above
<1>1. Len(q) \in Nat /\ \A j \in 1 .. Len(q) : q[j] \in MbNames
  BY DEF MbPath
<1>2. \A j \in 1 .. i : q[j] \in MbNames
  BY <1>1
<1> QED
  BY <1>2, SubSeqProperties DEF MbPath

(* A folder is renamed with the folders below it, or its mails move.       *)
LEMMA RenamesFolder ==
  ASSUME MbTyped, Numbers, NEW p, NEW q \in MbPath, CanRename(p, q), Renamed(p, q)
  PROVE  Sound /\ \A x \in Paths : MailsStay(x)
<1>1. p \in Paths /\ p \in MbPath /\ q \notin Paths
  <2>1. p \in Paths /\ p \in MbPath
    BY FolderFacts DEF CanRename
  <2> QED
    BY <2>1, UnderItself DEF CanRename
<1>2. Above(q) \subseteq MbPath
  BY AboveTypes
<1>3. CASE p = Inbox
  <2> DEFINE box == [x \in Paths \cup {q} |->
                       IF x = q THEN [mbBox[p] EXCEPT !.id = <<q, mbIds>>]
                       ELSE IF x = p THEN [mbBox[p] EXCEPT !.mails = << >>] ELSE mbBox[x]]
  <2>1. Made(box, Above(q))
    BY <1>3, Zenon DEF Renamed
  <2>2. /\ DOMAIN box = Paths \cup {q} /\ box = [x \in DOMAIN box |-> box[x]]
        /\ box[q] = [mbBox[p] EXCEPT !.id = <<q, mbIds>>]
        /\ box[p] = [mbBox[p] EXCEPT !.mails = << >>]
        /\ \A x \in Paths \ {p} : box[x] = mbBox[x]
    BY <1>1
  <2> HIDE DEF box
  <2>3. mbBox[p] \in Folder /\ <<q, mbIds>> \in FolderId /\ << >> \in MailsByUid /\ DOMAIN << >> = {}
    <3>1. << >> \in [{} -> Mail] /\ {} \in SUBSET Nat
      OBVIOUS
    <3> QED
      BY <1>1, <3>1, FolderFacts DEF FolderId, MbTyped, MailsByUid
  <2>4. /\ box[q] \in Folder /\ box[q].id = <<q, mbIds>> /\ box[q].next = mbBox[p].next /\ box[q].mails = mbBox[p].mails
        /\ box[p] \in Folder /\ box[p].id = mbBox[p].id /\ box[p].next = mbBox[p].next /\ box[p].mails = << >>
    BY <2>2, <2>3 DEF Folder
  <2>5. \A x \in Paths : box[x].id = mbBox[x].id /\ box[x].id[2] < mbIds
    BY <2>2, <2>4 DEF Numbers
  <2>6. Fits(box, Above(q))
    <3>1. IsMailbox(box)
      <4>1. \A x \in DOMAIN box : box[x] \in Folder /\ x \in MbPath
        BY <2>2, <2>4, FolderFacts
      <4> QED
        BY <2>2, <4>1 DEF IsMailbox
    <3>2. \A x, y \in DOMAIN box : box[x].id = box[y].id => x = y
      <4>1. mbIds \in Nat /\ box[q].id[2] = mbIds
        BY <2>4 DEF MbTyped
      <4>2. \A x \in Paths : box[x].id # box[q].id
        BY <2>5, <4>1
      <4>3. \A x, y \in Paths : box[x].id = box[y].id => x = y
        BY <2>5 DEF Numbers
      <4> QED
        BY <2>2, <4>2, <4>3
    <3>3. \A x \in DOMAIN box : box[x].id[2] < mbIds \/ box[x].id = <<x, mbIds>>
      BY <2>2, <2>4, <2>5
    <3>4. \A x \in DOMAIN box : \A u \in DOMAIN box[x].mails : u < box[x].next
      BY <1>1, <2>2, <2>3, <2>4 DEF Numbers
    <3> QED
      BY <1>1, <1>2, <2>2, <3>1, <3>2, <3>3, <3>4 DEF Fits
  <2>7. /\ Numbers' /\ IsMailbox(mbBox)' /\ mbIds' \in Nat /\ mbIds' >= mbIds
        /\ Paths' = DOMAIN box \cup Above(q)
        /\ \A x \in DOMAIN box : mbBox'[x] = box[x]
        /\ \A x \in Paths' \ DOMAIN box : mbBox'[x] = NewFolder(<<x, mbIds>>)
    BY <2>1, <2>6, MadeIs
  <2>8. FoldersDescend
    <3>1. \A x \in Paths : Descends(x, x)
      <4>1. ASSUME NEW x \in Paths \ {p} PROVE Descends(x, x)
        <5>1. mbBox'[x] = mbBox[x] /\ mbBox[x].next \in Nat
          BY <2>2, <2>7, <4>1, FolderFacts
        <5> QED
          BY <5>1 DEF Descends
      <4>2. Descends(p, p)
        <5>1. mbBox'[p] = box[p] /\ mbBox[p].next \in Nat
          BY <1>1, <2>2, <2>7, FolderFacts
        <5> QED
          BY <2>3, <2>4, <5>1 DEF Descends
      <4> QED
        BY <4>1, <4>2
    <3>2. ASSUME NEW x \in Paths' \ Paths PROVE mbBox'[x].id[2] = mbIds
      <4>1. CASE x = q
        <5>1. mbBox'[x] = box[q]
          BY <2>2, <2>7, <4>1
        <5> QED
          BY <2>4, <4>1, <5>1
      <4>2. CASE x # q
        <5>1. mbBox'[x] = NewFolder(<<x, mbIds>>)
          BY <2>2, <2>7, <3>2, <4>2
        <5> QED
          BY <5>1, NewFolderIs
      <4> QED
        BY <4>1, <4>2
    <3> QED
      BY <3>1, <3>2 DEF FoldersDescend
  <2>9. Holds(q, p) /\ \A x \in Paths \ {p} : Holds(x, x)
    <3>1. Holds(q, p)
      <4>1. mbBox'[q] = box[q]
        BY <2>2, <2>7
      <4> QED
        BY <2>4, <4>1, NewFolderIs DEF Holds
    <3>2. ASSUME NEW x \in Paths \ {p} PROVE Holds(x, x)
      <4>1. mbBox'[x] = mbBox[x]
        BY <2>2, <2>7
      <4> QED
        BY <4>1 DEF Holds
    <3> QED
      BY <3>1, <3>2
  <2> QED
    BY <1>1, <2>2, <2>7, <2>8, <2>9 DEF Sound, MailsStay
<1>4. CASE p # Inbox
  <2> DEFINE moved == {p} \cup Below(p)
             to(x) == Under(q, p, x)
             Rest == Paths \ moved
             from(y) == CHOOSE x \in moved : to(x) = y
             box == [y \in Rest \cup {to(x) : x \in moved} |-> IF y \in Rest THEN mbBox[y] ELSE mbBox[from(y)]]
  <2>1. Made(box, Above(q))
    BY <1>4, Zenon DEF Renamed
  <2>2. /\ moved \subseteq Paths
        /\ \A x \in moved : x \in MbPath /\ IsPrefix(p, x) /\ to(x) \notin Paths /\ to(x) \in MbPath
    <3>1. moved \subseteq Paths /\ \A x \in moved : x \in MbPath /\ IsPrefix(p, x)
      BY <1>1, FolderFacts, UnderItself DEF Below, IsStrictPrefix
    <3>2. \A x \in moved : to(x) \notin Paths
      BY DEF CanRename
    <3> QED
      BY <1>1, <3>1, <3>2, UnderTypes
  <2>3. \A x, y \in moved : to(x) = to(y) => x = y
    BY <1>1, <2>2, UnderInjective
  <2>4. p \in moved /\ to(p) = q
    BY <1>1, UnderItself
  <2>5. \A x \in moved : from(to(x)) = x
    BY <2>3
  <2>6. DOMAIN box = Rest \cup {to(x) : x \in moved} /\ box = [y \in DOMAIN box |-> box[y]]
    OBVIOUS
  <2>7. \A y \in Rest : box[y] = mbBox[y]
    OBVIOUS
  <2>8. \A x \in moved : box[to(x)] = mbBox[x]
    BY <2>2, <2>5
  <2>9. \A y \in DOMAIN box :
           y \in MbPath /\ \E x \in Paths : box[y] = mbBox[x] /\ y = (IF x \in moved THEN to(x) ELSE x)
    <3>1. ASSUME NEW y \in Rest
          PROVE  y \in MbPath /\ \E x \in Paths : box[y] = mbBox[x] /\ y = (IF x \in moved THEN to(x) ELSE x)
      BY <2>7, FolderFacts
    <3>2. ASSUME NEW x \in moved
          PROVE  to(x) \in MbPath /\ \E z \in Paths : box[to(x)] = mbBox[z] /\ to(x) = (IF z \in moved THEN to(z) ELSE z)
      BY <2>2, <2>8
    <3> HIDE DEF box, from, to, moved
    <3> QED
      BY <2>6, <3>1, <3>2
  <2> HIDE DEF box, from, to, moved
  <2>10. Fits(box, Above(q))
    <3>1. IsMailbox(box)
      <4>1. \A y \in DOMAIN box : box[y] \in Folder /\ y \in MbPath
        BY <2>9, FolderFacts
      <4> QED
        BY <2>6, <4>1 DEF IsMailbox
    <3>2. \A y, z \in DOMAIN box : box[y].id = box[z].id => y = z
      BY <2>9 DEF Numbers
    <3>3. \A y \in DOMAIN box : box[y].id[2] < mbIds /\ \A u \in DOMAIN box[y].mails : u < box[y].next
      BY <2>9 DEF Numbers
    <3>4. q \in DOMAIN box
      BY <2>4, <2>6
    <3> QED
      BY <1>1, <1>2, <3>1, <3>2, <3>3, <3>4 DEF Fits
  <2>11. /\ Numbers' /\ IsMailbox(mbBox)' /\ mbIds' \in Nat /\ mbIds' >= mbIds
         /\ Paths' = DOMAIN box \cup Above(q)
         /\ \A x \in DOMAIN box : mbBox'[x] = box[x]
         /\ \A x \in Paths' \ DOMAIN box : mbBox'[x] = NewFolder(<<x, mbIds>>)
    BY <2>1, <2>10, MadeIs
  <2>12. FoldersDescend
    <3>1. ASSUME NEW y \in DOMAIN box PROVE \E x \in Paths : Descends(x, y)
      <4>1. PICK x \in Paths : box[y] = mbBox[x]
        BY <2>9
      <4> QED
        BY <2>11, <4>1, FolderFacts DEF Descends
    <3>2. ASSUME NEW x \in Paths' \ DOMAIN box PROVE mbBox'[x].id[2] = mbIds
      <4>1. mbBox'[x].id = <<x, mbIds>>
        BY <2>11, <3>2, NewFolderIs
      <4> QED
        BY <4>1
    <3> QED
      BY <3>1, <3>2 DEF FoldersDescend
  <2>13. ASSUME NEW x \in Paths PROVE MailsStay(x)
    <3>1. CASE x \in moved
      <4>1. to(x) \in Paths' /\ mbBox'[to(x)] = mbBox[x]
        BY <2>6, <2>8, <2>11, <3>1
      <4> QED
        BY <4>1 DEF MailsStay, Holds
    <3>2. CASE x \notin moved
      <4>1. x \in Paths' /\ mbBox'[x] = mbBox[x]
        BY <2>6, <2>7, <2>11, <3>2
      <4> QED
        BY <4>1 DEF MailsStay, Holds
    <3> QED
      BY <3>1, <3>2
  <2> QED
    BY <2>11, <2>12, <2>13 DEF Sound
<1> QED
  BY <1>3, <1>4

(* A mail is added with the next UID, which nothing has.                   *)
LEMMA WithIs ==
  ASSUME NEW f \in Folder, NEW m \in MbMails
  PROVE  /\ With(f, m) \in Folder /\ With(f, m).id = f.id /\ With(f, m).next = f.next + 1
         /\ DOMAIN With(f, m).mails = DOMAIN f.mails \cup {f.next}
         /\ With(f, m).mails[f.next] = [mail |-> m, del |-> FALSE]
         /\ \A u \in DOMAIN f.mails : u # f.next => With(f, m).mails[u] = f.mails[u]
<1> DEFINE new == [u \in DOMAIN f.mails \cup {f.next} |->
                     IF u = f.next THEN [mail |-> m, del |-> FALSE] ELSE f.mails[u]]
<1>1. \E D \in SUBSET Nat : f.mails \in [D -> Mail]
  BY DEF Folder, MailsByUid
<1>2. f.next \in Nat /\ [mail |-> m, del |-> FALSE] \in Mail
  BY DEF Folder, Mail
<1>3. DOMAIN new \subseteq Nat /\ new \in [DOMAIN new -> Mail]
  BY <1>1, <1>2
<1>4. /\ DOMAIN new = DOMAIN f.mails \cup {f.next} /\ new[f.next] = [mail |-> m, del |-> FALSE]
      /\ \A u \in DOMAIN f.mails : u # f.next => new[u] = f.mails[u]
  OBVIOUS
<1>5. With(f, m) = [id |-> f.id, next |-> f.next + 1, mails |-> new]
  BY DEF With
<1> HIDE DEF new
<1>6. new \in MailsByUid
  BY <1>3, MailsByUidIs
<1>7. f.id \in FolderId
  BY DEF Folder
<1> HIDE DEF With
<1>8. With(f, m) \in Folder
  BY <1>2, <1>5, <1>6, <1>7 DEF Folder
<1> QED
  BY <1>4, <1>5, <1>8

(* A mail is copied to folder d, which is made if it is not there.         *)
LEMMA CopiesMail ==
  ASSUME MbTyped, Numbers, NEW d \in MbPath, NEW f, NEW g,
         f = IF d \in Paths THEN mbBox[d] ELSE NewFolder(<<d, mbIds>>),
         g = f \/ \E m \in MbMails : g = With(f, m),
         Made([p \in Paths \cup {d} |-> IF p = d THEN g ELSE mbBox[p]], {})
  PROVE  Sound /\ (\A p \in Paths : MailsStay(p)) /\ d \in Paths' /\ mbBox'[d] = g
<1> DEFINE box == [p \in Paths \cup {d} |-> IF p = d THEN g ELSE mbBox[p]]
<1>1. f \in Folder /\ (d \notin Paths => f.id = <<d, mbIds>> /\ DOMAIN f.mails = {})
  <2>1. <<d, mbIds>> \in FolderId
    BY DEF FolderId, MbTyped
  <2> QED
    BY <2>1, FolderFacts, MbRecords
<1>2. /\ g \in Folder /\ g.id = f.id /\ g.next \in Nat /\ f.next \in Nat /\ g.next >= f.next
      /\ \A u \in DOMAIN g.mails :
            (u = f.next /\ g.next = f.next + 1) \/ (u \in DOMAIN f.mails /\ g.mails[u] = f.mails[u])
  <2>1. f.next \in Nat
    BY <1>1 DEF Folder
  <2>2. CASE g = f
    BY <1>1, <2>1, <2>2
  <2>3. ASSUME NEW m \in MbMails, g = With(f, m)
        PROVE  /\ g \in Folder /\ g.id = f.id /\ g.next \in Nat /\ g.next >= f.next
               /\ \A u \in DOMAIN g.mails :
                    (u = f.next /\ g.next = f.next + 1) \/ (u \in DOMAIN f.mails /\ g.mails[u] = f.mails[u])
    <3>1. g \in Folder /\ g.id = f.id /\ g.next = f.next + 1
      BY <1>1, <2>3, WithIs
    <3>2. /\ DOMAIN g.mails = DOMAIN f.mails \cup {f.next}
          /\ \A u \in DOMAIN f.mails : u # f.next => g.mails[u] = f.mails[u]
      BY <1>1, <2>3, WithIs
    <3> QED
      BY <2>1, <3>1, <3>2
  <2> QED
    BY <2>1, <2>2, <2>3
<1>a. DOMAIN f.mails \subseteq Nat
  BY <1>1, FolderFacts
<1>3. d \in Paths => \A u \in DOMAIN f.mails : u < f.next
  BY DEF Numbers
<1>4. \A u \in DOMAIN f.mails : u \in DOMAIN g.mails /\ (u # f.next => g.mails[u] = f.mails[u])
  <2>1. ASSUME NEW m \in MbMails, g = With(f, m)
        PROVE  \A u \in DOMAIN f.mails : u \in DOMAIN g.mails /\ (u # f.next => g.mails[u] = f.mails[u])
    <3>1. DOMAIN With(f, m).mails = DOMAIN f.mails \cup {f.next}
      BY <1>1, WithIs
    <3>2. \A u \in DOMAIN f.mails : u # f.next => With(f, m).mails[u] = f.mails[u]
      BY <1>1, WithIs
    <3> QED
      BY <2>1, <3>1, <3>2
  <2> QED
    BY <2>1
<1>5. \A u \in DOMAIN f.mails : u # f.next /\ u < f.next
  BY <1>1, <1>2, <1>3
<1>6. /\ DOMAIN box = Paths \cup {d} /\ box[d] = g /\ \A p \in Paths \ {d} : box[p] = mbBox[p]
      /\ box = [p \in DOMAIN box |-> box[p]]
  OBVIOUS
<1>7. Made(box, {})
  OBVIOUS
<1> HIDE DEF box
<1>8. Fits(box, {})
  <2>1. IsMailbox(box)
    <3>1. \A p \in DOMAIN box : box[p] \in Folder /\ p \in MbPath
      BY <1>2, <1>6, FolderFacts
    <3> QED
      BY <1>6, <3>1 DEF IsMailbox
  <2>2. \A p \in Paths : box[p].id = mbBox[p].id /\ box[p].id[2] < mbIds
    <3>1. \A p \in Paths : box[p].id = mbBox[p].id
      BY <1>2, <1>6
    <3> QED
      BY <3>1 DEF Numbers
  <2>3. d \notin Paths => box[d].id = <<d, mbIds>> /\ box[d].id[2] = mbIds
    BY <1>1, <1>2, <1>6
  <2>4. ASSUME NEW p \in DOMAIN box, NEW q \in DOMAIN box, box[p].id = box[q].id PROVE p = q
    <3>1. mbIds \in Nat
      BY DEF MbTyped
    <3>2. p \in Paths <=> q \in Paths
      BY <1>6, <2>2, <2>3, <2>4, <3>1
    <3>3. CASE p \in Paths
      BY <2>2, <2>4, <3>2, <3>3 DEF Numbers
    <3> QED
      BY <1>6, <3>2, <3>3
  <2>5. \A p \in DOMAIN box : \A u \in DOMAIN box[p].mails : u < box[p].next
    <3>1. \A u \in DOMAIN g.mails : u < g.next
      <4>1. ASSUME NEW u \in DOMAIN g.mails PROVE u < g.next
        <5>1. CASE u = f.next /\ g.next = f.next + 1
          BY <1>2, <5>1
        <5>2. CASE u \in DOMAIN f.mails
          <6>1. u < f.next /\ u \in Int
            BY <1>1, <1>2, <1>5, <5>2, <1>a
          <6> QED
            BY <1>2, <6>1
        <5> QED
          BY <1>2, <5>1, <5>2
      <4> QED
        BY <4>1
    <3> QED
      BY <1>6, <3>1 DEF Numbers
  <2> QED
    BY <1>6, <2>1, <2>2, <2>3, <2>4, <2>5 DEF Fits
<1>9. /\ Numbers' /\ IsMailbox(mbBox)' /\ mbIds' \in Nat /\ mbIds' >= mbIds
      /\ Paths' = Paths \cup {d} /\ \A p \in Paths \cup {d} : mbBox'[p] = box[p]
  BY <1>6, <1>7, <1>8, MadeIs
<1>10. FoldersDescend
  <2>1. ASSUME NEW p \in Paths \ {d} PROVE Descends(p, p)
    <3>1. mbBox'[p] = mbBox[p] /\ mbBox[p].next \in Nat
      BY <1>6, <1>9, <2>1, FolderFacts
    <3> QED
      BY <3>1 DEF Descends
  <2>2. CASE d \in Paths
    <3>1. mbBox'[d] = g /\ mbBox[d] = f
      BY <1>6, <1>9, <2>2
    <3>2. \A u \in DOMAIN g.mails : u >= f.next \/ (u \in DOMAIN f.mails /\ g.mails[u].mail = f.mails[u].mail)
      BY <1>2
    <3>3. Descends(d, d)
      BY <1>2, <3>1, <3>2 DEF Descends
    <3> QED
      BY <1>9, <2>1, <2>2, <3>3 DEF FoldersDescend
  <2>3. CASE d \notin Paths
    <3>1. mbBox'[d].id = <<d, mbIds>>
      BY <1>1, <1>2, <1>6, <1>9, <2>3
    <3>2. mbBox'[d].id[2] = mbIds
      BY <3>1
    <3> QED
      BY <1>9, <2>1, <2>3, <3>2 DEF FoldersDescend
  <2> QED
    BY <2>2, <2>3
<1>11. ASSUME NEW p \in Paths PROVE Holds(p, p)
  <2>1. CASE p = d
    <3>1. mbBox'[p] = g /\ mbBox[p] = f
      BY <1>6, <1>9, <2>1
    <3> QED
      BY <1>2, <1>4, <1>5, <3>1 DEF Holds
  <2>2. CASE p # d
    <3>1. mbBox'[p] = mbBox[p]
      BY <1>6, <1>9, <2>2
    <3> QED
      BY <3>1 DEF Holds
  <2> QED
    BY <2>1, <2>2
<1> QED
  BY <1>6, <1>9, <1>10, <1>11 DEF Sound, MailsStay

(* A step that leaves the folders alone.                                   *)
LEMMA NothingChanges ==
  ASSUME MbTyped, Numbers, UNCHANGED <<mbBox, mbIds>> PROVE Sound /\ \A p \in Paths : MailsStay(p)
<1>1. Paths' = Paths /\ mbBox' = mbBox /\ mbIds' = mbIds
  BY DEF Paths
<1>2. Numbers' /\ IsMailbox(mbBox)' /\ mbIds \in Nat
  BY <1>1 DEF Numbers, MbTyped, IsMailbox
<1>3. ASSUME NEW p \in Paths PROVE Descends(p, p) /\ Holds(p, p)
  BY <1>1, FolderFacts DEF Descends, Holds
<1> QED
  BY <1>1, <1>2, <1>3 DEF Sound, FoldersDescend, MailsStay

(* A request is still known after a step.                                  *)
LEMMA KnownKept ==
  ASSUME MbTyped, Sound, mbAsked \subseteq mbAsked', NEW q \in OfMails, KnownRequest(q),
         NEW s \in OfMails, s.box = q.box, s.uid = q.uid, s.mail = q.mail,
         s.at = "store" /\ s.sel = << >> => q.at = "store" /\ q.sel = << >>
  PROVE  KnownRequest(s)'
<1>1. s.box \in FolderId /\ s.box[2] \in Nat /\ s.uid \in Nat /\ mbIds \in Nat /\ mbIds' \in Nat /\ mbIds' >= mbIds
  BY DEF OfMails, FolderId, MbTyped, Sound
<1>2. s.box[2] < mbIds /\ s.box[2] < mbIds'
  BY <1>1 DEF KnownRequest
<1>3. ASSUME NEW x \in Paths', mbBox'[x].id = s.box
      PROVE  /\ s.uid < mbBox'[x].next
             /\ s.uid \in DOMAIN mbBox'[x].mails => mbBox'[x].mails[s.uid].mail = s.mail
  <2>1. PICK p \in Paths : Descends(p, x)
    BY <1>1, <1>2, <1>3 DEF Sound, FoldersDescend
  <2>2. mbBox[p].next \in Nat /\ mbBox'[x].next \in Nat
    <3>1. mbBox'[x] \in Folder
      BY DEF Sound, IsMailbox, Paths
    <3> QED
      BY <3>1, FolderFacts DEF Folder
  <2>3. /\ s.uid < mbBox[p].next
        /\ s.uid \in DOMAIN mbBox[p].mails => mbBox[p].mails[s.uid].mail = s.mail
    BY <1>3, <2>1 DEF Descends, KnownRequest, KnowsItsMail
  <2> QED
    BY <1>1, <2>1, <2>2, <2>3 DEF Descends
<1> QED
  BY <1>2, <1>3 DEF KnownRequest, KnowsItsMail

(* The ghosts only grow.                                                   *)
Grows == mbAsked \subseteq mbAsked' /\ mbStrayed \subseteq mbStrayed'

(* The mail of UID u in folder p is still there. *)
Carried(p, u) ==
    \E x \in Paths' :
        /\ mbBox'[x].id = mbBox[p].id \/ mbBox'[x].id[2] = mbIds
        /\ u \in DOMAIN mbBox'[x].mails /\ mbBox'[x].mails[u] = mbBox[p].mails[u]

(* The mails of a folder that stays are carried.                           *)
LEMMA StayCarries == ASSUME NEW p, MailsStay(p), NEW u \in DOMAIN mbBox[p].mails PROVE Carried(p, u)
  BY DEF MailsStay, Holds, Carried

(* The requests of the others are still known, and the one that moved is.  *)
LEMMA RequestsKept ==
  ASSUME MbTyped, Known, Sound, Grows, NEW r \in MbRequests, NEW s \in OfMails \cup OfFolders \cup {NoReq},
         mbReq' = [mbReq EXCEPT ![r] = s], s \in OfMails => KnownRequest(s)'
  PROVE  MbTyped' /\ Known' /\ mbReq'[r] = s /\ \A t \in MbRequests \ {r} : mbReq'[t] = mbReq[t]
<1>1. /\ mbReq' \in [MbRequests -> OfMails \cup OfFolders \cup {NoReq}] /\ mbReq'[r] = s
      /\ \A t \in MbRequests \ {r} : mbReq'[t] = mbReq[t]
  BY DEF MbTyped
<1>2. MbTyped'
  BY <1>1 DEF MbTyped, Sound
<1>3. ASSUME NEW t \in MbRequests, AboutMail(t)' PROVE KnownRequest(mbReq[t])' 
  <2>1. PICK q : q = mbReq'[t]
    OBVIOUS
  <2>2. q \in OfMails
    BY <1>3, <2>1 DEF AboutMail
  <2>3. KnownRequest(q)'
    <3>1. CASE t = r
      BY <1>1, <2>1, <2>2, <3>1
    <3>2. CASE t # r
      <4>1. q = mbReq[t]
        BY <1>1, <2>1, <3>2
      <4>2. KnownRequest(q)
        BY <2>2, <4>1 DEF Known, AboutMail
      <4> QED
        BY <2>2, <4>2, KnownKept DEF Grows
    <3> QED
      BY <3>1, <3>2
  <2> QED
    BY <2>1, <2>3, Zenon DEF KnownRequest, KnowsItsMail
<1>4. Known'
  BY <1>3, Zenon DEF Known
<1> QED
  BY <1>1, <1>2, <1>4

(* A mail that is still there is spare if no request has come to target it. *)
LEMMA SpareCarried ==
  ASSUME MbTyped, MbTyped', Known, NEW p \in Paths, NEW u \in DOMAIN mbBox[p].mails, NEW m, Spare(p, u, m),
         Carried(p, u),
         NEW id, id = mbBox[p].id, \A t \in MbRequests : Targets(t, id, u)' => Targets(t, id, u),
         \A t \in MbRequests : AboutMail(t)' => mbReq'[t].box[2] < mbIds
  PROVE  \E x \in Paths' : \E v \in DOMAIN mbBox'[x].mails : Spare(x, v, m)'
<1>1. PICK x \in Paths' :
        /\ mbBox'[x].id = mbBox[p].id \/ mbBox'[x].id[2] = mbIds
        /\ u \in DOMAIN mbBox'[x].mails /\ mbBox'[x].mails[u] = mbBox[p].mails[u]
  BY DEF Carried
<1>2. ASSUME NEW t \in MbRequests PROVE ~Targets(t, mbBox[x].id, u)'
  <2>1. SUFFICES ASSUME Targets(t, mbBox[x].id, u)' PROVE FALSE
    OBVIOUS
  <2>2. AboutMail(t)' /\ mbReq'[t].box = mbBox'[x].id
    BY <2>1 DEF Targets
  <2>3. mbBox'[x].id = mbBox[p].id
    <3>1. mbReq'[t].box[2] < mbIds /\ mbIds \in Nat
      BY <2>2 DEF MbTyped
    <3>2. mbBox'[x].id[2] # mbIds
      BY <2>2, <3>1
    <3> QED
      BY <1>1, <3>2
  <2>4. Targets(t, id, u)'
    BY <2>1, <2>3 DEF Targets
  <2> QED
    BY <2>4 DEF Spare
<1>3. mbBox'[x].mails[u] = [mail |-> m, del |-> FALSE]
  BY <1>1 DEF Spare
<1>4. Spare(x, u, m)'
  BY <1>2, <1>3, Zenon DEF Spare
<1> QED
  BY <1>1, <1>4

(* Each spare mail that is still owed is carried.                          *)
SparesCarried ==
    \A m \in MbMails : m \notin mbAsked' /\ m \notin mbStrayed' =>
        \A p \in Paths : \A u \in DOMAIN mbBox[p].mails : Spare(p, u, m) => Carried(p, u)

(* A step of a request that has not just copied its mail.                  *)
LEMMA StepKeeps ==
  ASSUME MbInv, Sound, Grows, NEW r \in MbRequests, NEW s \in OfMails \cup OfFolders \cup {NoReq},
         mbReq' = [mbReq EXCEPT ![r] = s], s \in OfMails => KnownRequest(s)' /\ s.box[2] < mbIds,
         s \in OfMails /\ s.at = "store" => s.sel # s.box,
         SparesCarried
  PROVE  MbInv'
<1>1. MbTyped /\ Known /\ Numbers' /\ Spares
  BY DEF MbInv, Sound
<1>2. MbTyped' /\ Known' /\ mbReq'[r] = s /\ \A t \in MbRequests \ {r} : mbReq'[t] = mbReq[t]
  BY <1>1, RequestsKept
<1>3. \A t \in MbRequests : AboutMail(t)' => mbReq'[t].box[2] < mbIds
  BY <1>1, <1>2 DEF AboutMail, Known, KnownRequest
<1>4. \A t \in MbRequests : \A id, u : Targets(t, id, u)' => Targets(t, id, u)
  <2>1. ASSUME NEW t \in MbRequests, NEW id, NEW u, Targets(t, id, u)' PROVE Targets(t, id, u)
    <3>1. CASE t = r
      BY <1>2, <2>1, <3>1 DEF Targets, AboutMail
    <3>2. CASE t # r
      BY <1>2, <2>1, <3>2 DEF Targets, AboutMail
    <3> QED
      BY <3>1, <3>2
  <2> QED
    BY <2>1
<1>5. ASSUME NEW m \in MbMails, m \notin mbAsked', m \notin mbStrayed'
      PROVE  \E x \in Paths' : \E v \in DOMAIN mbBox'[x].mails : Spare(x, v, m)'
  <2>1. PICK p \in Paths : \E u \in DOMAIN mbBox[p].mails : Spare(p, u, m)
    BY <1>1, <1>5 DEF Spares, Grows
  <2>2. PICK u \in DOMAIN mbBox[p].mails : Spare(p, u, m)
    BY <2>1
  <2>3. Carried(p, u)
    BY <1>5, <2>2 DEF SparesCarried
  <2>4. PICK id : id = mbBox[p].id
    OBVIOUS
  <2>5. \A t \in MbRequests : Targets(t, id, u)' => Targets(t, id, u)
    BY <1>4
  <2> QED
    BY <1>1, <1>2, <1>3, <2>2, <2>3, <2>4, <2>5, SpareCarried
<1>6. Spares'
  BY <1>5 DEF Spares
<1> QED
  BY <1>1, <1>2, <1>6 DEF MbInv

(* The paths the requests name are paths.                                  *)
LEMMA ShortSequences == ASSUME NEW S, NEW a \in S, NEW b \in S PROVE <<a>> \in Seq(S) /\ <<a, b>> \in Seq(S)
  OBVIOUS

LEMMA PathTypes == Inbox \in MbPath /\ Junk \in MbPath /\ Trash \in MbPath /\ Work \in MbPath /\ Sub \in MbPath
                   /\ TrashOld \in MbPath /\ MbDefaults \subseteq MbPath
<1>1. \A a, b \in MbNames : <<a>> \in MbPath /\ <<a, b>> \in MbPath
  BY ShortSequences, Zenon DEF MbPath
<1>2. /\ "INBOX" \in MbNames /\ "Junk" \in MbNames /\ "Trash" \in MbNames /\ "A" \in MbNames /\ "B" \in MbNames
      /\ "TrashOld" \in MbNames
  BY DEF MbNames
<1> QED
  BY <1>1, <1>2, Zenon DEF Inbox, Junk, Trash, Work, Sub, TrashOld, MbDefaults

(* What stays is carried.                                                  *)
LEMMA AllStay == ASSUME \A p \in Paths : MailsStay(p) PROVE SparesCarried
  BY StayCarries DEF SparesCarried

(* A new request about a mail knows the mail by its folder and UID; one    *)
(* that marks it without a copy has asked for it.                          *)
LEMMA MailRequestKeeps ==
  ASSUME MbInv, NEW r \in MbRequests, NEW op \in MailOps, NEW p \in Paths, NEW u \in DOMAIN mbBox[p].mails,
         NEW dest \in MbPath, NEW trash \in BOOLEAN, NEW expunge \in BOOLEAN,
         MailRequest(r, op, p, u, dest, trash, expunge)
  PROVE  MbInv'
<1> DEFINE new == [op |-> op, at |-> IF op = "delete" /\ ~trash THEN "store" ELSE "copy",
                   from |-> IF op = "ham" THEN Junk ELSE p, path |-> p, dest |-> dest, uid |-> u,
                   mail |-> mbBox[p].mails[u].mail, box |-> mbBox[p].id, sel |-> << >>, expunge |-> expunge]
<1>1. MbTyped /\ Numbers /\ Known /\ Spares
  BY DEF MbInv
<1>2. /\ mbReq' = [mbReq EXCEPT ![r] = new] /\ Made(mbBox, MbDefaults \ Paths)
      /\ mbAsked' = IF op = "delete" /\ ~trash THEN mbAsked \cup {mbBox[p].mails[u].mail} ELSE mbAsked
      /\ mbStrayed' = mbStrayed
  BY DEF MailRequest, MbBegin, Login
<1>3. Sound /\ \A x \in Paths : x \in Paths' /\ mbBox'[x] = mbBox[x] /\ MailsStay(x)
  BY <1>1, <1>2, PathTypes, AddsFolders
<1>4. Grows
  BY <1>2 DEF Grows
<1>5. PICK s : s = new
  OBVIOUS
<1>6. /\ s.mail = mbBox[p].mails[u].mail /\ s.box = mbBox[p].id /\ s.uid = u /\ s.sel = << >>
      /\ s.at = (IF op = "delete" /\ ~trash THEN "store" ELSE "copy")
  BY <1>5
<1>7. s \in OfMails
  <2>1. p \in MbPath /\ u \in Nat /\ mbBox[p].id \in FolderId /\ mbBox[p].mails[u].mail \in MbMails
    BY <1>1, FolderFacts DEF Mail
  <2> QED
    BY <1>5, <2>1, PathTypes DEF OfMails
<1> HIDE DEF new
<1>8. KnownRequest(s)' /\ s.box[2] < mbIds
  <2>1. s.box[2] < mbIds /\ s.box[2] < mbIds'
    <3>1. mbIds \in Nat /\ mbIds' \in Nat /\ mbIds' >= mbIds /\ s.box[2] \in Nat
      BY <1>1, <1>3, <1>7 DEF MbTyped, Sound, OfMails, FolderId
    <3>2. s.box[2] < mbIds
      BY <1>1, <1>6 DEF Numbers
    <3> QED
      BY <3>1, <3>2
  <2>2. ASSUME NEW x \in Paths', mbBox'[x].id = s.box
        PROVE  /\ s.uid < mbBox'[x].next
               /\ s.uid \in DOMAIN mbBox'[x].mails => mbBox'[x].mails[s.uid].mail = s.mail
    <3>1. x = p /\ mbBox'[p] = mbBox[p]
      BY <1>3, <1>6, <2>2 DEF Sound, Numbers
    <3> QED
      BY <1>1, <1>6, <3>1 DEF Numbers
  <2>3. s.at = "store" => s.mail \in mbAsked'
    BY <1>2, <1>6
  <2> QED
    BY <2>1, <2>2, <2>3 DEF KnownRequest, KnowsItsMail
<1>9. s.sel # s.box
  BY <1>6, <1>7, MbRecords DEF OfMails
<1>10. SparesCarried
  BY <1>3, AllStay
<1> QED
  BY <1>2, <1>3, <1>4, <1>5, <1>7, <1>8, <1>9, <1>10, StepKeeps

(* delete_mails, move_mails and the actions on one mail.                   *)
LEMMA MailRequestsKeep ==
  ASSUME MbInv, NEW r \in MbRequests, NEW p \in Paths, NEW u \in DOMAIN mbBox[p].mails, NEW dest \in MbPath,
         \/ DeleteMails(r, p, u) \/ MoveMails(r, p, u, dest) \/ ActionMove(r, p, u, dest)
         \/ ActionCopy(r, p, u, dest) \/ ActionSpam(r, p, u) \/ ActionHam(r, p, u)
  PROVE  MbInv'
<1>1. ASSUME NEW trash \in BOOLEAN, NEW expunge \in BOOLEAN, NEW op \in MailOps, NEW d \in MbPath,
             MailRequest(r, op, p, u, d, trash, expunge)
      PROVE  MbInv'
  BY <1>1, MailRequestKeeps
<1>2. CASE DeleteMails(r, p, u)
  <2>1. PICK trash, expunge \in BOOLEAN : MailRequest(r, "delete", p, u, Trash, trash, expunge)
    BY <1>2 DEF DeleteMails
  <2> QED
    BY <1>1, <2>1, PathTypes DEF MailOps
<1>3. CASE MoveMails(r, p, u, dest)
  BY <1>1, <1>3 DEF MailOps, MoveMails
<1>4. CASE ActionMove(r, p, u, dest)
  BY <1>1, <1>4 DEF MailOps, ActionMove
<1>5. CASE ActionCopy(r, p, u, dest)
  BY <1>1, <1>5 DEF MailOps, ActionCopy
<1>6. CASE ActionSpam(r, p, u)
  BY <1>1, <1>6, PathTypes DEF MailOps, ActionSpam
<1>7. CASE ActionHam(r, p, u)
  BY <1>1, <1>7, PathTypes DEF MailOps, ActionHam
<1> QED
  BY <1>2, <1>3, <1>4, <1>5, <1>6, <1>7

(* A step that makes a request one about folders, or ends it.              *)
LEMMA FolderStep ==
  ASSUME MbInv, Sound, Grows, NEW r \in MbRequests, NEW s \in OfFolders \cup {NoReq}, mbReq' = [mbReq EXCEPT ![r] = s],
         SparesCarried
  PROVE  MbInv'
<1>1. s \notin OfMails
  BY MbRecords
<1> QED
  BY <1>1, StepKeeps

(* The folders below a folder have paths.                                  *)
LEMMA BelowTypes == ASSUME MbTyped, NEW p PROVE Below(p) \subseteq MbPath
  BY FolderFacts DEF Below

(* A new request about folders is about no mail.                           *)
LEMMA FolderRequestKeeps ==
  ASSUME MbInv, NEW r \in MbRequests, NEW op \in {"expunge", "purge", "destroy", "trash"}, NEW p \in Paths,
         NEW children \in BOOLEAN, NEW perm \in BOOLEAN, FolderRequest(r, op, p, children, perm)
  PROVE  MbInv'
<1> DEFINE new == [op |-> op, at |-> "folders", path |-> p, perm |-> perm, out |-> {},
                   pend |-> IF children THEN Below(p) ELSE {}]
<1>1. MbTyped /\ Numbers
  BY DEF MbInv
<1>2. mbReq' = [mbReq EXCEPT ![r] = new] /\ Made(mbBox, MbDefaults \ Paths) /\ Grows
  BY DEF FolderRequest, MbBegin, Login, Grows
<1>3. Sound /\ \A x \in Paths : MailsStay(x)
  BY <1>1, <1>2, PathTypes, AddsFolders
<1>4. PICK s : s = new
  OBVIOUS
<1>5. s \in OfFolders
  BY <1>1, <1>4, FolderFacts, BelowTypes DEF OfFolders
<1> QED
  BY <1>2, <1>3, <1>4, <1>5, AllStay, FolderStep

(* expunge_folder, purge_folder and delete_folder.                         *)
LEMMA FolderRequestsKeep ==
  ASSUME MbInv, NEW r \in MbRequests, NEW p \in Paths, NEW children \in BOOLEAN, NEW perm \in BOOLEAN,
         ExpungeFolder(r, p, children) \/ PurgeFolder(r, p, children, perm) \/ DeleteFolder(r, p)
  PROVE  MbInv'
<1>1. ASSUME NEW op \in {"expunge", "purge", "destroy", "trash"}, NEW c \in BOOLEAN, NEW d \in BOOLEAN,
             FolderRequest(r, op, p, c, d)
      PROVE  MbInv'
  BY <1>1, FolderRequestKeeps
<1>2. CASE ExpungeFolder(r, p, children)
  BY <1>1, <1>2 DEF ExpungeFolder
<1>3. CASE PurgeFolder(r, p, children, perm)
  BY <1>1, <1>3 DEF PurgeFolder
<1>4. CASE DeleteFolder(r, p)
  BY <1>1, <1>4 DEF DeleteFolder
<1> QED
  BY <1>2, <1>3, <1>4

(* create_folder and update_folder *)
LEMMA FolderNamesKeep ==
  ASSUME MbInv, NEW r \in MbRequests, NEW p \in MbPath, NEW q \in MbPath, CreateFolder(r, p) \/ RenameFolder(r, p, q)
  PROVE  MbInv'
<1>1. MbTyped /\ Numbers
  BY DEF MbInv
<1>2. mbReq' = [mbReq EXCEPT ![r] = NoReq] /\ Grows
  BY <1>1 DEF CreateFolder, RenameFolder, Grows, MbTyped
<1>3. Sound /\ \A x \in Paths : MailsStay(x)
  <2>1. CASE CreateFolder(r, p)
    <3>1. {p} \cup Above(p) \cup MbDefaults \subseteq MbPath
      BY AboveTypes, PathTypes
    <3>2. Made(mbBox, {p} \cup Above(p) \cup MbDefaults)
      BY <2>1 DEF CreateFolder
    <3> QED
      BY <1>1, <3>1, <3>2, AddsFolders
  <2>2. CASE RenameFolder(r, p, q)
    BY <1>1, <2>2, RenamesFolder DEF RenameFolder
  <2> QED
    BY <2>1, <2>2
<1> QED
  BY <1>2, <1>3, AllStay, FolderStep

(* A request that fails loses nothing: it only ends.                       *)
LEMMA FailsKeeps == ASSUME MbInv, NEW r \in MbRequests, Fails(r) PROVE MbInv'
<1>1. mbReq' = [mbReq EXCEPT ![r] = NoReq] /\ Grows /\ MbTyped /\ Numbers /\ UNCHANGED <<mbBox, mbIds>>
  BY DEF Fails, Ends, Goes, Grows, MbInv
<1> QED
  BY <1>1, NothingChanges, AllStay, FolderStep

(* A request that copies, marks or expunges is about a known mail.         *)
LEMMA MailTurn ==
  ASSUME MbInv, NEW r \in MbRequests, mbReq[r].op # "none", mbReq[r].at \in {"copy", "store", "expunge"}
  PROVE  mbReq[r] \in OfMails /\ KnownRequest(mbReq[r])
<1>1. mbReq[r] \in OfMails \cup OfFolders \cup {NoReq}
  BY DEF MbInv, MbTyped
<1>2. mbReq[r] # NoReq
  BY DEF NoReq
<1>3. mbReq[r] \notin OfFolders
  BY DEF OfFolders
<1>4. mbReq[r] \in OfMails
  BY <1>1, <1>2, <1>3
<1> QED
  BY <1>4 DEF MbInv, Known, AboutMail

(* The copy that was just made is spare in the place of the one that will  *)
(* be marked: no request can be about a UID that was free until now.       *)
LEMMA UidCopyKeeps == ASSUME MbInv, NEW r \in MbRequests, UidCopy(r) PROVE MbInv'
<1>1. MbTyped /\ Numbers /\ Known /\ Spares
  BY DEF MbInv
<1>2. PICK q : q = mbReq[r]
  OBVIOUS
<1>3. q.op # "none" /\ q.at = "copy" /\ q \in OfMails /\ KnownRequest(q)
  BY <1>2, MailTurn DEF UidCopy
<1>4. CASE q.from \notin Paths \/ (q.dest \notin Paths /\ q.op # "spam")
  BY <1>2, <1>4, FailsKeeps DEF UidCopy
<1>5. CASE ~(q.from \notin Paths \/ (q.dest \notin Paths /\ q.op # "spam"))
  <2> DEFINE m0 == mbBox[q.from].mails
             f0 == IF q.dest \in Paths THEN mbBox[q.dest] ELSE NewFolder(<<q.dest, mbIds>>)
             s0 == IF q.op = "copy" THEN NoReq ELSE [q EXCEPT !.at = "store", !.sel = mbBox[q.from].id]
  <2>1. PICK m : m = m0
    OBVIOUS
  <2>2. PICK f : f = f0
    OBVIOUS
  <2>3. PICK s : s = s0
    OBVIOUS
  <2>4. PICK g : g = IF q.uid \in DOMAIN m THEN With(f, m[q.uid].mail) ELSE f
    OBVIOUS
  <2>5. /\ mbReq' = [mbReq EXCEPT ![r] = s]
        /\ Made([p \in Paths \cup {q.dest} |-> IF p = q.dest THEN g ELSE mbBox[p]], {})
        /\ UNCHANGED <<mbAsked, mbStrayed>>
    BY <1>2, <1>5, <2>1, <2>2, <2>3, <2>4, Zenon DEF UidCopy, Goes
  <2>6. /\ q.from \in Paths /\ q.dest \in MbPath /\ q.uid \in Nat /\ mbBox[q.from].id \in FolderId
        /\ \A u \in DOMAIN m : m[u].mail \in MbMails
    BY <1>1, <1>3, <1>5, <2>1, FolderFacts DEF OfMails, Mail
  <2>7. g = f \/ \E x \in MbMails : g = With(f, x)
    BY <2>4, <2>6
  <2>8. Sound /\ (\A p \in Paths : MailsStay(p)) /\ q.dest \in Paths' /\ mbBox'[q.dest] = g
    BY <1>1, <2>2, <2>5, <2>6, <2>7, CopiesMail
  <2>9. Grows
    BY <2>5 DEF Grows
  <2>10. /\ s \in OfMails \cup {NoReq}
         /\ s \in OfMails => s.box = q.box /\ s.uid = q.uid /\ s.mail = q.mail /\ s.at = "store"
                             /\ s.sel = mbBox[q.from].id
    BY <1>3, <2>3, <2>6, MbRecords DEF OfMails
  <2>11. s \in OfMails => KnownRequest(s)'
    <3>1. s \in OfMails => s.sel # << >>
      BY <2>6, <2>10, MbRecords
    <3> QED
      BY <1>1, <1>3, <2>8, <2>9, <2>10, <3>1, KnownKept DEF Grows
  <2>12. MbTyped' /\ Known' /\ mbReq'[r] = s /\ \A t \in MbRequests \ {r} : mbReq'[t] = mbReq[t]
    BY <1>1, <2>5, <2>8, <2>9, <2>10, <2>11, RequestsKept
  <2>13. ASSUME NEW t \in MbRequests, AboutMail(t)'
         PROVE  \E k \in OfMails : KnownRequest(k) /\ mbReq'[t].box = k.box /\ mbReq'[t].uid = k.uid
    <3>1. CASE t = r
      BY <1>3, <2>10, <2>12, <2>13, <3>1 DEF AboutMail
    <3>2. CASE t # r
      BY <1>1, <2>12, <2>13, <3>2 DEF AboutMail, Known
    <3> QED
      BY <3>1, <3>2
  <2>14. \A t \in MbRequests : AboutMail(t)' => mbReq'[t].box[2] < mbIds
    BY <2>13 DEF KnownRequest
  <2> HIDE DEF m0, f0, s0
  <2>15. ASSUME NEW mail \in MbMails, mail \notin mbAsked', mail \notin mbStrayed'
         PROVE  \E x \in Paths' : \E v \in DOMAIN mbBox'[x].mails : Spare(x, v, mail)'
    <3>1. PICK p \in Paths : \E u \in DOMAIN mbBox[p].mails : Spare(p, u, mail)
      BY <1>1, <2>5, <2>15 DEF Spares
    <3>2. PICK u \in DOMAIN mbBox[p].mails : Spare(p, u, mail)
      BY <3>1
    <3>3. PICK id : id = mbBox[p].id
      OBVIOUS
    <3>4. CASE Targets(r, id, u)'
      <4>1. s \in OfMails /\ s.sel = id /\ s.uid = u
        BY <2>12, <3>4 DEF Targets, AboutMail
      <4>2. p = q.from /\ u = q.uid
        BY <1>1, <2>6, <2>10, <3>3, <4>1 DEF Numbers
      <4>3. g = With(f, mail) /\ mail \in MbMails
        <5>1. m[u] = [mail |-> mail, del |-> FALSE] /\ u \in DOMAIN m /\ m[u].mail = mail
          BY <2>1, <3>2, <4>2 DEF Spare, m0
        <5> QED
          BY <2>4, <4>2, <5>1
      <4>4. /\ f \in Folder /\ f.id \in FolderId /\ f.next \in Nat
            /\ IF q.dest \in Paths THEN f = mbBox[q.dest] ELSE f.id = <<q.dest, mbIds>>
        <5>1. <<q.dest, mbIds>> \in FolderId
          BY <1>1, <2>6 DEF FolderId, MbTyped
        <5> QED
          BY <1>1, <2>2, <2>6, <5>1, FolderFacts, MbRecords DEF f0, Folder
      <4>5. /\ mbBox'[q.dest].id = f.id /\ f.next \in DOMAIN mbBox'[q.dest].mails
            /\ mbBox'[q.dest].mails[f.next] = [mail |-> mail, del |-> FALSE]
        BY <2>8, <4>3, <4>4, WithIs
      <4>6. ASSUME NEW t \in MbRequests, AboutMail(t)', mbReq'[t].box = f.id, mbReq'[t].uid = f.next PROVE FALSE
        <5>1. PICK k \in OfMails : KnownRequest(k) /\ k.box = f.id /\ k.uid = f.next
          BY <2>13, <4>6
        <5>2. CASE q.dest \in Paths
          <6>1. f.next < f.next
            BY <4>4, <5>1, <5>2 DEF KnownRequest, KnowsItsMail
          <6> QED
            BY <4>4, <6>1
        <5>3. CASE q.dest \notin Paths
          <6>1. mbIds < mbIds /\ mbIds \in Nat
            BY <1>1, <4>4, <5>1, <5>3 DEF KnownRequest, MbTyped
          <6> QED
            BY <6>1
        <5> QED
          BY <5>2, <5>3
      <4>7. PICK x : x = q.dest
        OBVIOUS
      <4>8. PICK v : v = f.next
        OBVIOUS
      <4>9. Spare(x, v, mail)'
        <5>1. ASSUME NEW t \in MbRequests PROVE ~Targets(t, mbBox[x].id, v)'
          BY <4>5, <4>6, <4>7, <4>8, <5>1 DEF Targets
        <5> QED
          BY <4>5, <4>7, <4>8, <5>1 DEF Spare
      <4> QED
        BY <2>8, <4>5, <4>7, <4>8, <4>9
    <3>5. CASE ~Targets(r, id, u)'
      <4>1. \A t \in MbRequests : Targets(t, id, u)' => Targets(t, id, u)
        <5>1. ASSUME NEW t \in MbRequests, Targets(t, id, u)' PROVE Targets(t, id, u)
          <6>1. t # r
            BY <3>5, <5>1
          <6> QED
            BY <2>12, <5>1, <6>1 DEF Targets, AboutMail
        <5> QED
          BY <5>1
      <4>2. Carried(p, u)
        BY <2>8, StayCarries
      <4> QED
        BY <1>1, <2>12, <2>14, <3>2, <3>3, <4>1, <4>2, SpareCarried
    <3> QED
      BY <3>4, <3>5
  <2>16. Spares'
    BY <2>15 DEF Spares
  <2> QED
    BY <2>8, <2>12, <2>16 DEF MbInv, Sound
<1> QED
  BY <1>4, <1>5

(* The mail that is marked was asked for, was copied first or has strayed. *)
LEMMA StoreDeletedKeeps == ASSUME MbInv, NEW r \in MbRequests, StoreDeleted(r) PROVE MbInv'
<1>1. MbTyped /\ Numbers /\ Known /\ Spares
  BY DEF MbInv
<1>2. PICK q : q = mbReq[r]
  OBVIOUS
<1>3. q.op # "none" /\ q.at = "store" /\ q \in OfMails /\ KnownRequest(q)
  BY <1>2, MailTurn DEF StoreDeleted
<1> DEFINE S == IF q.op = "delete" /\ q.sel # << >> THEN {p \in Paths : mbBox[p].id = q.sel} ELSE {q.path} \cap Paths
<1>4. CASE S = {}
  BY <1>2, <1>4, FailsKeeps DEF StoreDeleted
<1>5. CASE S # {}
  <2>1. PICK p \in S :
          /\ mbBox' = [mbBox EXCEPT ![p] = Marked(p, {q.uid})]
          /\ mbStrayed' = mbStrayed \cup
                ({mbBox[p].mails[u].mail : u \in {q.uid} \cap DOMAIN mbBox[p].mails}
                   \ IF mbBox[p].id = q.box /\ q.sel \in {<< >>, q.box} THEN {q.mail} ELSE {})
          /\ mbReq' = [mbReq EXCEPT ![r] = IF q.expunge THEN [q EXCEPT !.at = "expunge"] ELSE NoReq]
          /\ mbIds' = mbIds /\ mbAsked' = mbAsked
    BY <1>2, <1>5 DEF StoreDeleted, Goes
  <2>2. p \in Paths
    BY <2>1
  <2> HIDE DEF S
  <2>3. PICK s : s = IF q.expunge THEN [q EXCEPT !.at = "expunge"] ELSE NoReq
    OBVIOUS
  <2>4. PICK f : f = Marked(p, {q.uid})
    OBVIOUS
  <2>5. /\ f \in Folder /\ f.id = mbBox[p].id /\ f.next = mbBox[p].next /\ DOMAIN f.mails = DOMAIN mbBox[p].mails
        /\ \A u \in DOMAIN mbBox[p].mails :
               f.mails[u].mail = mbBox[p].mails[u].mail /\ (u # q.uid => f.mails[u] = mbBox[p].mails[u])
    BY <1>1, <2>2, <2>4, MarkedIs
  <2>6. Sound /\ Paths' = Paths /\ mbBox'[p] = f /\ \A x \in Paths \ {p} : MailsStay(x)
    BY <1>1, <2>1, <2>2, <2>4, <2>5, ChangesFolder
  <2>7. Grows
    BY <2>1 DEF Grows
  <2>8. /\ s \in OfMails \cup {NoReq}
        /\ s \in OfMails => s.box = q.box /\ s.uid = q.uid /\ s.mail = q.mail /\ s.at = "expunge"
    BY <1>3, <2>3, MbRecords DEF OfMails
  <2>9. s \in OfMails => KnownRequest(s)' /\ s.box[2] < mbIds
    <3>1. s \in OfMails => KnownRequest(s)'
      BY <1>1, <1>3, <2>6, <2>7, <2>8, KnownKept DEF Grows
    <3> QED
      BY <1>3, <2>8, <3>1 DEF KnownRequest
  <2>10. SparesCarried
    <3>1. ASSUME NEW m \in MbMails, m \notin mbAsked', m \notin mbStrayed', NEW x \in Paths,
                 NEW u \in DOMAIN mbBox[x].mails, Spare(x, u, m)
          PROVE  Carried(x, u)
      <4>1. CASE x # p
        BY <2>6, <4>1, StayCarries
      <4>2. CASE x = p /\ u # q.uid
        BY <2>2, <2>5, <2>6, <4>2 DEF Carried
      <4>3. CASE x = p /\ u = q.uid
        <5>1. mbBox[p].mails[q.uid].mail = m /\ q.uid \in DOMAIN mbBox[p].mails
          BY <3>1, <4>3 DEF Spare
        <5>2. mbBox[p].id = q.box /\ q.sel \in {<< >>, q.box} /\ m = q.mail
          <6>1. m \in {mbBox[p].mails[v].mail : v \in {q.uid} \cap DOMAIN mbBox[p].mails}
            BY <5>1
          <6> QED
            BY <2>1, <3>1, <6>1
        <5>3. q.sel = q.box
          BY <1>3, <2>1, <3>1, <5>2 DEF KnownRequest
        <5>4. Targets(r, mbBox[x].id, u)
          BY <1>2, <1>3, <4>3, <5>2, <5>3 DEF Targets, AboutMail
        <5> QED
          BY <3>1, <5>4 DEF Spare
      <4> QED
        BY <4>1, <4>2, <4>3
    <3> QED
      BY <3>1 DEF SparesCarried
  <2> QED
    BY <2>1, <2>3, <2>6, <2>7, <2>8, <2>9, <2>10, StepKeeps
<1> QED
  BY <1>4, <1>5

(* What is expunged was marked, and a spare mail is not.                   *)
LEMMA ExpungeCarries ==
  ASSUME MbTyped, Numbers, NEW p \in Paths, NEW U, mbBox' = [mbBox EXCEPT ![p] = Expunged(p, U)], mbIds' = mbIds
  PROVE  Sound /\ SparesCarried
<1>1. PICK f : f = Expunged(p, U)
  OBVIOUS
<1>2. /\ f \in Folder /\ f.id = mbBox[p].id /\ f.next = mbBox[p].next
      /\ \A u \in DOMAIN f.mails : u \in DOMAIN mbBox[p].mails /\ f.mails[u] = mbBox[p].mails[u]
      /\ \A u \in DOMAIN mbBox[p].mails : ~mbBox[p].mails[u].del => u \in DOMAIN f.mails
  BY <1>1, ExpungedIs
<1>3. Sound /\ Paths' = Paths /\ mbBox'[p] = f /\ \A x \in Paths \ {p} : MailsStay(x)
  BY <1>1, <1>2, ChangesFolder
<1>4. ASSUME NEW m, NEW x \in Paths, NEW u \in DOMAIN mbBox[x].mails, Spare(x, u, m) PROVE Carried(x, u)
  <2>1. CASE x # p
    BY <1>3, <2>1, StayCarries
  <2>2. CASE x = p
    <3>1. ~mbBox[p].mails[u].del
      BY <1>4, <2>2 DEF Spare
    <3> QED
      BY <1>2, <1>3, <2>2, <3>1 DEF Carried
  <2> QED
    BY <2>1, <2>2
<1> QED
  BY <1>3, <1>4 DEF SparesCarried

(* delete_mails and move_mails expunge.                                    *)
LEMMA ExpungeMailsKeeps == ASSUME MbInv, NEW r \in MbRequests, ExpungeMails(r) PROVE MbInv'
<1>1. PICK q : q = mbReq[r]
  OBVIOUS
<1>2. CASE q.path \notin Paths
  BY <1>1, <1>2, FailsKeeps DEF ExpungeMails
<1>3. CASE q.path \in Paths
  <2>1. \E U : mbBox' = [mbBox EXCEPT ![q.path] = Expunged(q.path, U)]
    BY <1>1, <1>3 DEF ExpungeMails
  <2>2. mbReq' = [mbReq EXCEPT ![r] = NoReq] /\ mbIds' = mbIds /\ Grows
    BY <1>1, <1>3 DEF ExpungeMails, Ends, Goes, Grows
  <2>3. Sound /\ SparesCarried
    BY <1>3, <2>1, <2>2, ExpungeCarries DEF MbInv
  <2> QED
    BY <2>2, <2>3, FolderStep
<1> QED
  BY <1>2, <1>3

(* A request about folders stays one.                                      *)
LEMMA FolderTurn ==
  ASSUME MbInv, NEW r \in MbRequests, mbReq[r].op \in {"expunge", "purge", "destroy", "trash"}
  PROVE  /\ mbReq[r] \in OfFolders /\ mbReq[r].path \in MbPath
         /\ \A p : Done(r, p) \in OfFolders \cup {NoReq}
         /\ \A p : [mbReq[r] EXCEPT !.op = "destroy", !.pend = Below(p)] \in OfFolders
         /\ \A p \in Paths, at \in {mbReq[r].at, "last"} :
                [mbReq[r] EXCEPT !.pend = @ \ {p}, !.out = {p} \cup Below(p), !.at = at] \in OfFolders
         /\ \A p : [mbReq[r] EXCEPT !.out = @ \ {p}] \in OfFolders
<1>1. mbReq[r] \in OfMails \cup OfFolders \cup {NoReq} /\ MbTyped
  BY DEF MbInv, MbTyped
<1>2. mbReq[r] # NoReq
  BY DEF NoReq
<1>3. mbReq[r] \notin OfMails
  BY DEF OfMails, MailOps
<1>4. PICK q : q = mbReq[r]
  OBVIOUS
<1>5. q \in OfFolders
  BY <1>1, <1>2, <1>3, <1>4
<1>6. /\ q.path \in MbPath
      /\ \A p : [q EXCEPT !.pend = @ \ {p}] \in OfFolders /\ [q EXCEPT !.out = @ \ {p}] \in OfFolders
  BY <1>5 DEF OfFolders
<1>7. ASSUME NEW p PROVE [q EXCEPT !.op = "destroy", !.pend = Below(p)] \in OfFolders
  BY <1>1, <1>5, BelowTypes DEF OfFolders
<1>8. ASSUME NEW p \in Paths, NEW at \in {q.at, "last"}
      PROVE  [q EXCEPT !.pend = @ \ {p}, !.out = {p} \cup Below(p), !.at = at] \in OfFolders
  <2>1. {p} \cup Below(p) \subseteq MbPath
    BY <1>1, BelowTypes, FolderFacts
  <2> QED
    BY <1>5, <2>1 DEF OfFolders
<1> QED
  BY <1>4, <1>5, <1>6, <1>7, <1>8 DEF Done

(* expunge_folder, one folder of it.                                       *)
LEMMA ExpungeOneKeeps == ASSUME MbInv, NEW r \in MbRequests, NEW p, ExpungeOne(r, p) PROVE MbInv'
<1>1. CASE p \notin Paths
  BY <1>1, FailsKeeps DEF ExpungeOne
<1>2. CASE p \in Paths
  <2>1. \E U : mbBox' = [mbBox EXCEPT ![p] = Expunged(p, U)]
    BY <1>2 DEF ExpungeOne
  <2>2. mbReq' = [mbReq EXCEPT ![r] = Done(r, p)] /\ mbIds' = mbIds /\ Grows
    BY <1>2 DEF ExpungeOne, Goes, Grows
  <2>3. Done(r, p) \in OfFolders \cup {NoReq}
    BY FolderTurn DEF ExpungeOne, Turn
  <2>4. Sound /\ SparesCarried
    BY <1>2, <2>1, <2>2, ExpungeCarries DEF MbInv
  <2>5. PICK s : s = Done(r, p)
    OBVIOUS
  <2> QED
    BY <2>2, <2>3, <2>4, <2>5, FolderStep
<1> QED
  BY <1>1, <1>2

(* The expunge of purge_folder.                                            *)
LEMMA PurgeExpungesKeeps == ASSUME MbInv, NEW r \in MbRequests, NEW p, PurgeExpunges(r, p) PROVE MbInv'
<1>1. CASE p \notin Paths
  BY <1>1, FailsKeeps DEF PurgeExpunges
<1>2. CASE p \in Paths
  <2>1. \E U : mbBox' = [mbBox EXCEPT ![p] = Expunged(p, U)]
    BY <1>2 DEF PurgeExpunges
  <2>2. PICK s : s = IF mbReq[r].out = {p} /\ mbReq[r].at = "last" THEN NoReq ELSE [mbReq[r] EXCEPT !.out = @ \ {p}]
    OBVIOUS
  <2>3. mbReq' = [mbReq EXCEPT ![r] = s] /\ mbIds' = mbIds /\ Grows
    BY <1>2, <2>2 DEF PurgeExpunges, Goes, Grows
  <2>4. s \in OfFolders \cup {NoReq}
    BY <2>2, FolderTurn DEF PurgeExpunges
  <2>5. Sound /\ SparesCarried
    BY <1>2, <2>1, <2>3, ExpungeCarries DEF MbInv
  <2> QED
    BY <2>3, <2>4, <2>5, FolderStep
<1> QED
  BY <1>1, <1>2

(* purge_folder marks what the user asked to be deleted.                   *)
LEMMA PurgeOneKeeps == ASSUME MbInv, NEW r \in MbRequests, NEW p, NEW U, PurgeOne(r, p, U) PROVE MbInv'
<1>1. CASE p \notin Paths \/ U = {}
  BY <1>1, FailsKeeps DEF PurgeOne
<1>2. CASE ~(p \notin Paths \/ U = {})
  <2> DEFINE next == IF mbReq[r].perm
                     THEN [mbReq[r] EXCEPT !.pend = @ \ {p}, !.out = {p} \cup Below(p),
                                           !.at = IF p = mbReq[r].path THEN "last" ELSE @]
                     ELSE Done(r, p)
  <2>1. /\ mbReq' = [mbReq EXCEPT ![r] = next] /\ mbBox' = [mbBox EXCEPT ![p] = Marked(p, U)]
        /\ mbAsked' = mbAsked \cup {mbBox[p].mails[u].mail : u \in U} /\ mbIds' = mbIds /\ Grows
    BY <1>2 DEF PurgeOne, Goes, Grows
  <2>2. next \in OfFolders \cup {NoReq}
    <3>1. mbReq[r].op = "purge"
      BY DEF PurgeOne, Turn
    <3>2. mbReq[r] \in OfFolders
      BY <3>1, FolderTurn
    <3>3. PICK at : at = IF p = mbReq[r].path THEN "last" ELSE mbReq[r].at
      OBVIOUS
    <3>4. [mbReq[r] EXCEPT !.pend = @ \ {p}, !.out = {p} \cup Below(p), !.at = IF p = mbReq[r].path THEN "last" ELSE @]
            = [mbReq[r] EXCEPT !.pend = @ \ {p}, !.out = {p} \cup Below(p), !.at = at]
      BY <3>2, <3>3 DEF OfFolders
    <3>5. at \in {mbReq[r].at, "last"}
      BY <3>3
    <3> QED
      BY <1>2, <3>1, <3>4, <3>5, FolderTurn
  <2>3. PICK s : s = next
    OBVIOUS
  <2> HIDE DEF next
  <2>4. PICK f : f = Marked(p, U)
    OBVIOUS
  <2>5. /\ f \in Folder /\ f.id = mbBox[p].id /\ f.next = mbBox[p].next /\ DOMAIN f.mails = DOMAIN mbBox[p].mails
        /\ \A u \in DOMAIN mbBox[p].mails :
               f.mails[u].mail = mbBox[p].mails[u].mail /\ (u \notin U => f.mails[u] = mbBox[p].mails[u])
    BY <1>2, <2>4, MarkedIs DEF MbInv
  <2>6. Sound /\ Paths' = Paths /\ mbBox'[p] = f /\ \A x \in Paths \ {p} : MailsStay(x)
    BY <1>2, <2>1, <2>4, <2>5, ChangesFolder DEF MbInv
  <2>7. ASSUME NEW m \in MbMails, m \notin mbAsked', NEW x \in Paths, NEW u \in DOMAIN mbBox[x].mails, Spare(x, u, m)
        PROVE  Carried(x, u)
    <3>1. CASE x # p
      BY <2>6, <3>1, StayCarries
    <3>2. CASE x = p
      <4>1. mbBox[p].mails[u].mail = m
        BY <2>7, <3>2 DEF Spare
      <4>2. u \notin U
        BY <2>1, <2>7, <4>1
      <4> QED
        BY <2>5, <2>6, <2>7, <3>2, <4>2 DEF Carried
    <3> QED
      BY <3>1, <3>2
  <2>8. SparesCarried
    BY <2>7 DEF SparesCarried
  <2> QED
    BY <2>1, <2>2, <2>3, <2>6, <2>8, FolderStep
<1> QED
  BY <1>1, <1>2

(* The mails of a folder that is deleted were asked for or have strayed.   *)
LEMMA DestroyOneKeeps == ASSUME MbInv, NEW r \in MbRequests, NEW p, DestroyOne(r, p) PROVE MbInv'
<1>1. PICK s : s = Done(r, p)
  OBVIOUS
<1>2. mbReq' = [mbReq EXCEPT ![r] = s] /\ mbIds' = mbIds
  BY <1>1 DEF DestroyOne, Goes
<1>3. s \in OfFolders \cup {NoReq}
  BY <1>1, FolderTurn DEF DestroyOne, Turn
<1>4. MbTyped /\ Numbers
  BY DEF MbInv
<1>5. CASE p \notin Paths \/ p = Inbox
  <2>1. UNCHANGED <<mbBox, mbIds>> /\ Grows
    BY <1>2, <1>5 DEF DestroyOne, Grows
  <2> QED
    BY <1>2, <1>3, <1>4, <2>1, NothingChanges, AllStay, FolderStep
<1>6. CASE ~(p \notin Paths \/ p = Inbox)
  <2>1. /\ mbBox' = Restrict(mbBox, Paths \ {p})
        /\ \/ mbAsked' = mbAsked \cup MailsIn({p}) /\ mbStrayed' = mbStrayed
           \/ mbStrayed' = mbStrayed \cup MailsIn({p}) /\ mbAsked' = mbAsked
    BY <1>6 DEF DestroyOne
  <2>2. Grows
    BY <2>1 DEF Grows
  <2>3. Sound /\ \A x \in Paths \ {p} : MailsStay(x)
    BY <1>2, <1>4, <2>1, DropsFolder
  <2>4. ASSUME NEW m \in MbMails, m \notin mbAsked', m \notin mbStrayed', NEW x \in Paths,
               NEW u \in DOMAIN mbBox[x].mails, Spare(x, u, m)
        PROVE  Carried(x, u)
    <3>1. m \notin MailsIn({p})
      BY <2>1, <2>4
    <3>2. x # p
      BY <2>4, <3>1 DEF Spare, MailsIn
    <3> QED
      BY <2>3, <3>2, StayCarries
  <2>5. SparesCarried
    BY <2>4 DEF SparesCarried
  <2> QED
    BY <1>2, <1>3, <2>2, <2>3, <2>5, FolderStep
<1> QED
  BY <1>5, <1>6

(* A folder is moved below the Trash, or it stays where it is.             *)
LEMMA TrashRenames ==
  ASSUME MbInv, NEW p \in MbPath,
         IF CanRename(p, Trash \o p) THEN Renamed(p, Trash \o p) ELSE UNCHANGED <<mbBox, mbIds>>
  PROVE  Sound /\ SparesCarried
<1>1. MbTyped /\ Numbers
  BY DEF MbInv
<1>2. CASE CanRename(p, Trash \o p)
  <2>1. Trash \o p \in MbPath
    BY PathTypes, ConcatProperties DEF MbPath
  <2> QED
    BY <1>1, <1>2, <2>1, RenamesFolder, AllStay
<1>3. CASE ~CanRename(p, Trash \o p)
  BY <1>1, <1>3, NothingChanges, AllStay
<1> QED
  BY <1>2, <1>3

(* _imap_move_folder_to_trash, a folder below.                             *)
LEMMA TrashChildKeeps == ASSUME MbInv, NEW r \in MbRequests, NEW p \in MbPath, TrashChild(r, p) PROVE MbInv'
<1>1. PICK s : s = Done(r, p)
  OBVIOUS
<1>2. mbReq' = [mbReq EXCEPT ![r] = s] /\ Grows
  BY <1>1 DEF TrashChild, Goes, Grows
<1>3. s \in OfFolders \cup {NoReq}
  BY <1>1, FolderTurn DEF TrashChild, Turn
<1>4. Sound /\ SparesCarried
  BY TrashRenames DEF TrashChild
<1> QED
  BY <1>2, <1>3, <1>4, FolderStep

(* _imap_move_folder_to_trash, the folder itself.                          *)
LEMMA TrashFolderKeeps == ASSUME MbInv, NEW r \in MbRequests, TrashFolder(r) PROVE MbInv'
<1>1. PICK p : p = mbReq[r].path
  OBVIOUS
<1>2. mbReq[r].op = "trash" /\ p \in MbPath /\ MbTyped /\ Numbers /\ Grows
  BY <1>1, FolderTurn DEF TrashFolder, Turn, Grows, MbInv
<1>3. CASE Trash \o p \in Paths
  <2>1. PICK s : s = [mbReq[r] EXCEPT !.op = "destroy", !.pend = Below(p)]
    OBVIOUS
  <2>2. mbReq' = [mbReq EXCEPT ![r] = s] /\ UNCHANGED <<mbBox, mbIds>>
    BY <1>1, <1>3, <2>1 DEF TrashFolder, Goes
  <2>3. s \in OfFolders
    BY <1>2, <2>1, FolderTurn
  <2> QED
    BY <1>2, <2>2, <2>3, NothingChanges, AllStay, FolderStep
<1>4. CASE Trash \o p \notin Paths
  <2>1. mbReq' = [mbReq EXCEPT ![r] = NoReq]
    BY <1>1, <1>4 DEF TrashFolder, Ends, Goes
  <2>2. Sound /\ SparesCarried
    BY <1>1, <1>2, <1>4, TrashRenames DEF TrashFolder
  <2> QED
    BY <1>2, <2>1, <2>2, FolderStep
<1> QED
  BY <1>3, <1>4

(* No step, of whichever request, breaks the invariant.                    *)
LEMMA MbStep == ASSUME MbInv, [MbNext]_mbVars PROVE MbInv'
<1>1. CASE UNCHANGED mbVars
  BY <1>1 DEF mbVars, MbInv, MbTyped, IsMailbox, Numbers, Known, KnownRequest, KnowsItsMail, AboutMail, Spares,
              Spare, Targets, Paths
<1>2. ASSUME NEW r \in MbRequests, Begins(r) PROVE MbInv'
  <2>1. ASSUME NEW p \in Paths, NEW u \in DOMAIN mbBox[p].mails, NEW dest \in {Inbox, Work, Trash},
               \/ DeleteMails(r, p, u) \/ MoveMails(r, p, u, dest) \/ ActionMove(r, p, u, dest)
               \/ ActionCopy(r, p, u, dest) \/ ActionSpam(r, p, u) \/ ActionHam(r, p, u)
        PROVE  MbInv'
    <3>1. dest \in MbPath
      BY PathTypes
    <3> QED
      BY <2>1, <3>1, MailRequestsKeep
  <2>2. ASSUME NEW p \in Paths, NEW children \in BOOLEAN, NEW perm \in BOOLEAN,
               ExpungeFolder(r, p, children) \/ PurgeFolder(r, p, children, perm) \/ DeleteFolder(r, p)
        PROVE  MbInv'
    BY <2>2, FolderRequestsKeep
  <2>3. ASSUME NEW p \in {Work, Sub}, NEW q \in {Work, TrashOld}, CreateFolder(r, p) \/ RenameFolder(r, p, q)
        PROVE  MbInv'
    <3>1. p \in MbPath /\ q \in MbPath
      BY PathTypes
    <3> QED
      BY <2>3, <3>1, FolderNamesKeep
  <2>4. CASE \E p \in Paths, dest \in {Inbox, Work, Trash} : \E u \in DOMAIN mbBox[p].mails :
               \/ DeleteMails(r, p, u) \/ MoveMails(r, p, u, dest) \/ ActionMove(r, p, u, dest)
               \/ ActionCopy(r, p, u, dest) \/ ActionSpam(r, p, u) \/ ActionHam(r, p, u)
    BY <2>1, <2>4
  <2>5. CASE \E p \in Paths, children \in BOOLEAN :
               ExpungeFolder(r, p, children) \/ \E perm \in BOOLEAN : PurgeFolder(r, p, children, perm)
    BY <2>2, <2>5
  <2>6. CASE \E p \in Paths : DeleteFolder(r, p)
    BY <2>2, <2>6
  <2>7. CASE \E p \in {Work, Sub} : CreateFolder(r, p)
    BY <2>3, <2>7
  <2>8. CASE \E p \in {Work, Sub}, q \in {Work, TrashOld} : RenameFolder(r, p, q)
    BY <2>3, <2>8
  <2> QED
    BY <1>2, <2>4, <2>5, <2>6, <2>7, <2>8 DEF Begins
<1>3. ASSUME NEW r \in MbRequests, Proceeds(r), mbReq[r] # NoReq PROVE MbInv'
  <2>1. CASE UidCopy(r) \/ StoreDeleted(r) \/ ExpungeMails(r)
    BY <2>1, UidCopyKeeps, StoreDeletedKeeps, ExpungeMailsKeeps
  <2>2. ASSUME NEW p, ExpungeOne(r, p) \/ DestroyOne(r, p) \/ PurgeExpunges(r, p) PROVE MbInv'
    BY <2>2, ExpungeOneKeeps, DestroyOneKeeps, PurgeExpungesKeeps
  <2>3. ASSUME NEW p, NEW U, PurgeOne(r, p, U) PROVE MbInv'
    BY <2>3, PurgeOneKeeps
  <2>4. ASSUME NEW p \in mbReq[r].pend \cup {mbReq[r].path}, TrashChild(r, p) PROVE MbInv'
    <3>1. mbReq[r] \in OfFolders
      BY <2>4, FolderTurn DEF TrashChild, Turn
    <3>2. p \in MbPath
      BY <3>1 DEF OfFolders
    <3> QED
      BY <2>4, <3>2, TrashChildKeeps
  <2>5. CASE TrashFolder(r)
    BY <2>5, TrashFolderKeeps
  <2> QED
    BY <1>3, <2>1, <2>2, <2>3, <2>4, <2>5 DEF Proceeds
<1> QED
  BY <1>1, <1>2, <1>3 DEF MbNext

(* The mails of a finite set in some order.                                *)
LEMMA SetToSeqIs ==
  ASSUME NEW S, IsFiniteSet(S)
  PROVE  SetToSeq(S) \in [1 .. Cardinality(S) -> S] /\ Cardinality(S) \in Nat
<1>1. Cardinality(S) \in Nat /\ \E f \in [1 .. Cardinality(S) -> S] : IsInjective(f)
  BY FS_CardinalityType DEF ExistsBijection, Bijection, Injection
<1> QED
  BY <1>1 DEF SetToSeq

(* At the beginning no request is about a mail, and every mail that is     *)
(* there is spare.                                                         *)
LEMMA MbStart == MbInit => MbInv
<1> SUFFICES ASSUME MbInit PROVE MbInv
  OBVIOUS
<1>1. IsFiniteSet(MbMails) /\ MbMails # {}
  BY MbAssumption
<1>2. PICK S \in {MbMails, {CHOOSE m \in MbMails : TRUE}} : \E at \in [S -> {Inbox, Work, Sub}] :
         LET in(p) == SetToSeq({m \in S : at[m] = p})
         IN mbBox = [p \in MbDefaults \cup {Work, Sub} |->
                       [id |-> <<p, 0>>, next |-> Len(in(p)) + 1,
                        mails |-> [u \in 1 .. Len(in(p)) |-> [mail |-> in(p)[u], del |-> FALSE]]]]
  BY DEF MbInit
<1>3. S \subseteq MbMails
  BY <1>1, <1>2
<1>4. PICK at \in [S -> {Inbox, Work, Sub}] :
         LET in(p) == SetToSeq({m \in S : at[m] = p})
         IN mbBox = [p \in MbDefaults \cup {Work, Sub} |->
                       [id |-> <<p, 0>>, next |-> Len(in(p)) + 1,
                        mails |-> [u \in 1 .. Len(in(p)) |-> [mail |-> in(p)[u], del |-> FALSE]]]]
  BY <1>2
<1> DEFINE in(p) == SetToSeq({m \in S : at[m] = p})
           filled(p) == [u \in 1 .. Len(in(p)) |-> [mail |-> in(p)[u], del |-> FALSE]]
<1>5. /\ mbReq = [r \in MbRequests |-> NoReq] /\ mbIds = 1 /\ mbAsked = MbMails \ MailsIn(Paths) /\ mbStrayed = {}
  BY DEF MbInit
<1>6. ASSUME NEW p PROVE Len(in(p)) \in Nat /\ \A u \in 1 .. Len(in(p)) : in(p)[u] \in MbMails
  <2>1. IsFiniteSet({m \in S : at[m] = p})
    BY <1>1, <1>3, FS_Subset
  <2>2. in(p) \in [1 .. Cardinality({m \in S : at[m] = p}) -> {m \in S : at[m] = p}]
        /\ Cardinality({m \in S : at[m] = p}) \in Nat
    BY <2>1, SetToSeqIs
  <2> HIDE DEF in
  <2>3. Len(in(p)) = Cardinality({m \in S : at[m] = p})
    BY <2>2
  <2> QED
    BY <1>3, <2>2, <2>3
<1>7. /\ Paths = MbDefaults \cup {Work, Sub} /\ Paths \subseteq MbPath /\ mbBox = [p \in Paths |-> mbBox[p]]
      /\ \A p \in Paths : mbBox[p] = [id |-> <<p, 0>>, next |-> Len(in(p)) + 1, mails |-> filled(p)]
  BY <1>4, PathTypes DEF Paths
<1>8. ASSUME NEW p PROVE /\ filled(p) \in MailsByUid /\ DOMAIN filled(p) = 1 .. Len(in(p))
                         /\ \A u \in DOMAIN filled(p) : ~filled(p)[u].del /\ filled(p)[u] \in Mail
  <2> HIDE DEF in
  <2>1. /\ DOMAIN filled(p) = 1 .. Len(in(p)) /\ \A u \in DOMAIN filled(p) : ~filled(p)[u].del /\ filled(p)[u] \in Mail
        /\ filled(p) \in [DOMAIN filled(p) -> Mail] /\ DOMAIN filled(p) \subseteq Nat
    BY <1>6 DEF Mail
  <2> HIDE DEF filled
  <2> QED
    BY <2>1, MailsByUidIs
<1> HIDE DEF in, filled
<1>9. ASSUME NEW p \in Paths
      PROVE  /\ mbBox[p] \in Folder /\ mbBox[p].id = <<p, 0>>
             /\ \A u \in DOMAIN mbBox[p].mails :
                   u < mbBox[p].next /\ ~mbBox[p].mails[u].del /\ mbBox[p].mails[u] \in Mail
  <2>1. mbBox[p] = [id |-> <<p, 0>>, next |-> Len(in(p)) + 1, mails |-> filled(p)]
    BY <1>7
  <2>2. <<p, 0>> \in FolderId
    BY <1>7 DEF FolderId
  <2>3. Len(in(p)) \in Nat
    BY <1>6
  <2>4. /\ filled(p) \in MailsByUid /\ DOMAIN filled(p) = 1 .. Len(in(p))
        /\ \A u \in DOMAIN filled(p) : ~filled(p)[u].del /\ filled(p)[u] \in Mail
    BY <1>8, Zenon
  <2>5. mbBox[p] \in Folder
    BY <2>1, <2>2, <2>3, <2>4 DEF Folder
  <2>6. mbBox[p].id = <<p, 0>> /\ mbBox[p].next = Len(in(p)) + 1 /\ mbBox[p].mails = filled(p)
    BY <2>1
  <2> QED
    BY <2>3, <2>4, <2>5, <2>6
<1>a. MbTyped
  <2>1. IsMailbox(mbBox)
    BY <1>7, <1>9 DEF IsMailbox, Paths
  <2> QED
    BY <1>5, <2>1 DEF MbTyped
<1>10. Numbers
  <2>1. ASSUME NEW p \in Paths
        PROVE  mbBox[p].id = <<p, 0>> /\ mbBox[p].id[2] < mbIds /\ \A u \in DOMAIN mbBox[p].mails : u < mbBox[p].next
    BY <1>5, <1>9
  <2> QED
    BY <2>1 DEF Numbers
<1>11. Known
  BY <1>5, MbRecords DEF Known, AboutMail
<1>12. Spares
  <2>1. ASSUME NEW m \in MbMails, m \notin mbAsked
        PROVE  \E p \in Paths : \E u \in DOMAIN mbBox[p].mails : Spare(p, u, m)
    <3>1. PICK p \in Paths : \E u \in DOMAIN mbBox[p].mails : mbBox[p].mails[u].mail = m
      BY <1>5, <2>1 DEF MailsIn
    <3>2. PICK u \in DOMAIN mbBox[p].mails : mbBox[p].mails[u].mail = m
      BY <3>1
    <3>3. mbBox[p].mails[u] = [mail |-> m, del |-> FALSE]
      BY <1>9, <3>2 DEF Mail
    <3>4. \A r \in MbRequests : ~Targets(r, mbBox[p].id, u)
      BY <1>5, MbRecords DEF Targets, AboutMail
    <3> QED
      BY <3>3, <3>4 DEF Spare
  <2> QED
    BY <2>1 DEF Spares
<1> QED
  BY <1>a, <1>10, <1>11, <1>12 DEF MbInv

(* A mail that nobody asked to delete for good and that did not stray has  *)
(* a copy in some folder, whatever requests overlap and whichever of their *)
(* commands fail.                                                          *)
THEOREM NoMailIsLost == MbSpec => []NoMailLost
<1>1. MbInv => NoMailLost
  <2> SUFFICES ASSUME MbInv, NEW m \in MbMails, m \notin mbAsked, m \notin mbStrayed PROVE m \in MailsIn(Paths)
    BY DEF NoMailLost
  <2>1. PICK p \in Paths : \E u \in DOMAIN mbBox[p].mails : Spare(p, u, m)
    BY DEF MbInv, Spares
  <2>2. PICK u \in DOMAIN mbBox[p].mails : Spare(p, u, m)
    BY <2>1
  <2>3. mbBox[p].mails[u].mail = m
    BY <2>2 DEF Spare
  <2> QED
    BY <2>3 DEF MailsIn
<1> QED
  BY <1>1, MbStart, MbStep, PTL DEF MbSpec
=============================================================================
