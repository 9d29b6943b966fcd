---------------------------- MODULE DraftsProofs ----------------------------
(***************************************************************************)
(* Proofs about the mail in progress, for any number of compositions,      *)
(* requests and faults: a locked row has a request that will unlock it,    *)
(* and what was acknowledged is in the message the free row points to.     *)
(***************************************************************************)
EXTENDS Drafts, FiniteSetTheorems, TLAPS

(* At most one message is appended by a request: those that may still do   *)
(* so and the numbers given to messages never exceed the number of UIDs.   *)
MayAppend == {"idle", "wait", "lock", "load", "drop", "append", "copy"}
Appending(q) == {r \in Requests : q[r].at \in MayAppend}
Counted == nextUid + Cardinality(Appending(req)) <= MaxUid + 1

-----------------------------------------------------------------------------
(* Types *)

LEMMA Shapes ==
  ASSUME TypeOK
  PROVE  /\ DOMAIN req = Requests
         /\ \A r \in Requests :
               /\ req[r] \in Request
               /\ req[r].op \in AllOps /\ req[r].at \in Steps /\ req[r].key \in Keys
               /\ req[r].uid \in Nat /\ req[r].src \in Nat
               /\ req[r].body \subseteq Requests /\ req[r].files \subseteq Requests
               /\ DOMAIN req[r] = {"op", "at", "key", "uid", "src", "body", "files"}
         /\ DOMAIN acked = Keys /\ \A k \in Keys : acked[k] \subseteq Requests
         /\ DOMAIN row \subseteq Keys
         /\ \A k \in DOMAIN row : row[k].uid \in Nat /\ row[k].locked \in BOOLEAN
         /\ \A k \in DOMAIN row : DOMAIN row[k] = {"uid", "locked"}
         /\ \A u \in DOMAIN box : u \in Nat \ {0} /\ box[u] \subseteq Requests
         /\ nextUid \in Nat \ {0}
<1>1. MaxUid \in Nat
  BY DraftAssumption DEF MaxUid
<1>2. req \in [Requests -> Request] /\ acked \in [Keys -> SUBSET Requests]
  BY DEF TypeOK
<1>3. DOMAIN row \subseteq Keys /\ \A k \in DOMAIN row : row[k] \in Row
  BY DEF TypeOK
<1>4. DOMAIN box \subseteq 1 .. MaxUid /\ \A u \in DOMAIN box : box[u] \subseteq Requests
  BY DEF TypeOK
<1>5. nextUid \in 1 .. MaxUid + 1
  BY DEF TypeOK
<1>6. /\ DOMAIN req = Requests
      /\ \A r \in Requests :
            /\ req[r] \in Request
            /\ req[r].op \in AllOps /\ req[r].at \in Steps /\ req[r].key \in Keys
            /\ req[r].uid \in Nat /\ req[r].src \in Nat
            /\ req[r].body \subseteq Requests /\ req[r].files \subseteq Requests
            /\ DOMAIN req[r] = {"op", "at", "key", "uid", "src", "body", "files"}
  BY <1>1, <1>2 DEF Request
<1>7. \A k \in DOMAIN row : row[k].uid \in Nat /\ row[k].locked \in BOOLEAN
                            /\ DOMAIN row[k] = {"uid", "locked"}
  BY <1>1, <1>3 DEF Row
<1> QED
  BY <1>1, <1>2, <1>3, <1>4, <1>5, <1>6, <1>7

(* The number of requests that may still append a message. *)
LEMMA AppendingFinite ==
  ASSUME NEW q
  PROVE  IsFiniteSet(Appending(q)) /\ Cardinality(Appending(q)) \in Nat
<1>1. IsFiniteSet(Requests)
  BY DraftAssumption, FS_Interval DEF Requests
<1> QED
  BY <1>1, FS_Subset, FS_CardinalityType DEF Appending

(* A request that appends has been among them, and is not any more. *)
LEMMA OneFewer ==
  ASSUME NEW q, NEW p, NEW r \in Requests,
         \A s \in Requests \ {r} : p[s].at = q[s].at,
         q[r].at \in MayAppend, p[r].at \notin MayAppend
  PROVE  Cardinality(Appending(p)) = Cardinality(Appending(q)) - 1
<1>1. Appending(p) = Appending(q) \ {r} /\ r \in Appending(q)
  BY DEF Appending
<1> QED
  BY <1>1, AppendingFinite, FS_RemoveElement

LEMMA NoMore ==
  ASSUME NEW q, NEW p,
         \A s \in Requests : p[s].at \in MayAppend => q[s].at \in MayAppend
  PROVE  Cardinality(Appending(p)) <= Cardinality(Appending(q))
<1>1. Appending(p) \subseteq Appending(q)
  BY DEF Appending
<1> QED
  BY <1>1, AppendingFinite, FS_Subset

LEMMA CountedNumber == TypeOK /\ Counted => nextUid <= MaxUid + 1
<1> SUFFICES ASSUME TypeOK, Counted PROVE nextUid <= MaxUid + 1
  OBVIOUS
<1> QED
  BY AppendingFinite, Shapes, DraftAssumption DEF Counted, MaxUid

LEMMA Filed ==
  ASSUME NEW f, NEW x, NEW v
  PROVE  /\ DOMAIN With(f, x, v) = DOMAIN f \cup {x}
         /\ With(f, x, v)[x] = v
         /\ \A y \in DOMAIN f \ {x} : With(f, x, v)[y] = f[y]
         /\ DOMAIN Without(f, x) = DOMAIN f \ {x}
         /\ \A y \in DOMAIN f \ {x} : Without(f, x)[y] = f[y]
  BY DEF With, Without

(* A request that only takes its next step keeps the types. *)
LEMMA GoTyped ==
  ASSUME TypeOK, NEW r \in Requests, NEW step \in Steps, Go(r, step)
  PROVE  req' \in [Requests -> Request]
  BY DEF TypeOK, Go, Request

LEMMA BoxGrows ==
  ASSUME TypeOK, NEW body \in SUBSET Requests, nextUid <= MaxUid,
         box' = With(box, nextUid, body), nextUid' = nextUid + 1
  PROVE  /\ DOMAIN box' \subseteq 1 .. MaxUid /\ \A u \in DOMAIN box' : box'[u] \subseteq Requests
         /\ nextUid' \in 1 .. MaxUid + 1
<1>1. DOMAIN box \subseteq 1 .. MaxUid /\ \A u \in DOMAIN box : box[u] \subseteq Requests
  BY DEF TypeOK
<1>2. nextUid \in Nat \ {0} /\ MaxUid \in Nat
  BY Shapes, DraftAssumption DEF MaxUid
<1> QED
  BY <1>1, <1>2 DEF With

LEMMA BoxShrinks ==
  ASSUME TypeOK, NEW u, box' = Without(box, u)
  PROVE  DOMAIN box' \subseteq 1 .. MaxUid /\ \A v \in DOMAIN box' : box'[v] \subseteq Requests
  BY DEF TypeOK, Without

LEMMA RowSet ==
  ASSUME TypeOK, NEW k \in Keys, NEW u \in 0 .. MaxUid, NEW l \in BOOLEAN,
         \/ row' = With(row, k, [uid |-> u, locked |-> l])
         \/ row' = [row EXCEPT ![k] = [uid |-> u, locked |-> l]]
         \/ row' = [row EXCEPT ![k].locked = l]
         \/ row' = Without(row, k)
         \/ row' = row
  PROVE  DOMAIN row' \subseteq Keys /\ \A j \in DOMAIN row' : row'[j] \in Row
<1>1. DOMAIN row \subseteq Keys /\ \A j \in DOMAIN row : row[j] \in Row
  BY DEF TypeOK
<1>2. CASE row' = With(row, k, [uid |-> u, locked |-> l])
  BY <1>1, <1>2 DEF Row, With
<1>3. CASE row' = [row EXCEPT ![k] = [uid |-> u, locked |-> l]]
  BY <1>1, <1>3 DEF Row
<1>4. CASE row' = [row EXCEPT ![k].locked = l]
  BY <1>1, <1>4 DEF Row
<1>5. CASE row' = Without(row, k)
  BY <1>1, <1>5 DEF Without
<1> QED
  BY <1>1, <1>2, <1>3, <1>4, <1>5

LEMMA MarkTyped ==
  ASSUME TypeOK, NEW k \in Keys, NEW m \in {"clash", "taken", "imap", "died"},
         Mark(k, m) \/ Fault(k, m) \/ marks' = marks
  PROVE  marks' \subseteq Keys \X {"clash", "taken", "imap", "died"}
  BY DEF TypeOK, Mark, Fault

(* Where a request appends, a UID is left. *)
LEMMA RoomLeft ==
  ASSUME TypeOK, Counted, NEW r \in Requests, req[r].at \in MayAppend
  PROVE  nextUid <= MaxUid
<1> DEFINE q == [req EXCEPT ![r] = [@ EXCEPT !.at = "done"]]
<1>1. Cardinality(Appending(q)) = Cardinality(Appending(req)) - 1
  <2>1. \A s \in Requests \ {r} : q[s].at = req[s].at
    BY Shapes
  <2>2. q[r].at = "done"
    BY Shapes
  <2> QED
    BY <2>1, <2>2, OneFewer DEF MayAppend
<1>2. Cardinality(Appending(q)) \in Nat /\ Cardinality(Appending(req)) \in Nat
  BY AppendingFinite
<1>3. nextUid \in Nat /\ MaxUid \in Nat
  BY Shapes, DraftAssumption DEF MaxUid
<1> QED
  BY <1>1, <1>2, <1>3 DEF Counted

-----------------------------------------------------------------------------
(* Every step keeps the types, one variable after the other. *)

LEMMA Fields ==
  ASSUME NEW q \in Request, NEW a \in Steps
  PROVE  /\ \A op \in AllOps, k \in Keys, u \in 0 .. MaxUid :
               /\ [q EXCEPT !.op = op, !.key = k, !.at = a, !.src = u] \in Request
               /\ \A f \in SUBSET Requests :
                     [q EXCEPT !.op = op, !.key = k, !.at = a, !.uid = u, !.files = f] \in Request
         /\ \A b \in SUBSET Requests :
               /\ [q EXCEPT !.body = b, !.at = a] \in Request
               /\ [q EXCEPT !.at = a, !.body = b] \in Request
         /\ \A u \in 0 .. MaxUid :
               /\ [q EXCEPT !.uid = u, !.at = a] \in Request
               /\ \A b \in SUBSET Requests : [q EXCEPT !.at = a, !.uid = u, !.body = b] \in Request
  BY DEF Request

LEMMA RequestSet ==
  ASSUME TypeOK, NEW r \in Requests, NEW q \in Request, req' = [req EXCEPT ![r] = q]
  PROVE  req' \in [Requests -> Request]
  BY DEF TypeOK

LEMMA StartTyped ==
  ASSUME TypeOK, NEW r \in Requests, NEW op \in AllOps, NEW k \in Keys, NEW step \in Steps,
         NEW uid \in 0 .. MaxUid, NEW files \in SUBSET Requests, Start(r, op, k, step, uid, files)
  PROVE  req' \in [Requests -> Request]
<1> DEFINE q == [req[r] EXCEPT !.op = op, !.key = k, !.at = step, !.uid = uid, !.files = files]
<1>1. req[r] \in Request
  BY Shapes
<1>2. q \in Request
  BY <1>1, Fields
<1>3. req' = [req EXCEPT ![r] = q]
  BY DEF Start
<1> HIDE DEF q
<1> QED
  BY <1>2, <1>3, RequestSet

LEMMA RequestsTyped ==
  ASSUME TypeOK, Counted, [Next]_vars
  PROVE  req' \in [Requests -> Request]
<1>1. \A r \in Requests : req[r] \in Request
  BY Shapes
<1>2. Ops \subseteq AllOps /\ MaxUid \in Nat
  BY DraftAssumption DEF MaxUid
<1>3. \A k \in DOMAIN row : k \in Keys /\ row[k].uid \in 0 .. MaxUid /\ row[k].locked \in BOOLEAN
  BY DEF TypeOK, Row
<1>4. \A u \in DOMAIN box : u \in 0 .. MaxUid /\ box[u] \in SUBSET Requests
  BY <1>2 DEF TypeOK
<1>a. \A k \in Keys : acked[k] \in SUBSET Requests
  BY DEF TypeOK
<1>b. NoUid \in 0 .. MaxUid
  BY <1>2 DEF NoUid
<1>5. ASSUME NEW r \in Requests, NEW op \in Ops, NEW k \in Keys,
             AcquireNew(r, op, k) \/ Look(r, op, k)
             \/ \E files \in {{}} \cup {{s} : s \in Requests} : Acquire(r, op, k, files)
      PROVE  req' \in [Requests -> Request]
  <2>1. CASE AcquireNew(r, op, k)
    BY <2>1, <1>2, <1>b, StartTyped DEF AcquireNew, Steps, Holding
  <2>2. CASE Look(r, op, k)
    <3> DEFINE step == CASE op = "send" -> IF row[k].locked THEN "retry" ELSE "attach"
                         [] row[k].locked -> "failed"
                         [] op = "close" -> "row"
                         [] OTHER -> "expunge"
               files == IF op = "send" THEN acked[k] ELSE {}
    <3>1. step \in Steps
      BY DEF Steps, Ended
    <3>2. files \in SUBSET Requests
      BY <1>a
    <3>3. k \in DOMAIN row /\ Start(r, op, k, step, row[k].uid, files)
      BY <2>2 DEF Look
    <3> HIDE DEF step, files
    <3> QED
      BY <3>1, <3>2, <3>3, <1>2, <1>3, StartTyped
  <2>3. ASSUME NEW files \in {{}} \cup {{s} : s \in Requests}, Acquire(r, op, k, files)
        PROVE  req' \in [Requests -> Request]
    <3> DEFINE step == IF ~row[k].locked THEN "lock" ELSE IF op = "upload" THEN "wait" ELSE "failed"
    <3>1. step \in Steps
      BY DEF Steps, Ended
    <3>2. k \in DOMAIN row /\ Start(r, op, k, step, row[k].uid, files)
      BY <2>3 DEF Acquire
    <3> HIDE DEF step
    <3> QED
      BY <3>1, <3>2, <1>2, <1>3, StartTyped
  <2> QED
    BY <1>5, <2>1, <2>2, <2>3
<1>6. ASSUME NEW r \in Requests, NEW op \in Ops, NEW k \in Keys, NEW u \in DOMAIN box \cup {NoUid},
             Compose(r, op, k, u)
      PROVE  req' \in [Requests -> Request]
  <2> DEFINE q == [req[r] EXCEPT !.op = op, !.key = k, !.at = "copy", !.src = u]
  <2>1. q \in Request
    <3>1. "copy" \in Steps
      BY DEF Steps
    <3>2. u \in 0 .. MaxUid /\ op \in AllOps
      BY <1>2, <1>4, <1>6, <1>b
    <3> QED
      BY <3>1, <3>2, <1>1, <1>6, Fields
  <2>2. req' = [req EXCEPT ![r] = q]
    BY <1>6 DEF Compose
  <2> HIDE DEF q
  <2> QED
    BY <1>6, <2>1, <2>2, RequestSet
<1>7. ASSUME NEW r \in Requests,
             \/ WaitForUnlock(r) \/ WaitTimesOut(r) \/ LockExisting(r) \/ DropOld(r) \/ AppendFails(r)
             \/ Unlock(r) \/ Release(r) \/ Insert(r) \/ Publish(r) \/ DeleteSource(r) \/ Retry(r)
             \/ Deliver(r) \/ Expunge(r) \/ DeleteRow(r) \/ Die(r)
      PROVE  req' \in [Requests -> Request]
  <2>1. \E step \in {"lock", "failed", "load", "append", "unlock", "row", "done", "publish", "source",
                     "attach", "cleanup", "dead"} : Go(r, step)
    BY <1>7, Zenon DEF WaitForUnlock, WaitTimesOut, LockExisting, DropOld, AppendFails, Unlock, Release,
      Insert, Publish, DeleteSource, Retry, Deliver, Expunge, DeleteRow, Die
  <2> QED
    BY <2>1, GoTyped DEF Steps, Holding, Ended
<1>8. ASSUME NEW r \in Requests, Load(r) PROVE req' \in [Requests -> Request]
  <2> DEFINE body == IF req[r].uid = NoUid THEN {} ELSE box[req[r].uid]
  <2>1. CASE Go(r, "unlock")
    BY <2>1, GoTyped DEF Steps, Holding
  <2>2. CASE /\ req[r].uid = NoUid \/ req[r].uid \in DOMAIN box
             /\ req' = [req EXCEPT ![r] = [@ EXCEPT !.body = Edited(r, body),
                                            !.at = IF req[r].uid = NoUid THEN "append" ELSE "drop"]]
    <3>1. body \subseteq Requests
      BY <2>2, <1>4
    <3>2. Edited(r, body) \subseteq Requests
      BY <3>1 DEF Edited
    <3> DEFINE step == IF req[r].uid = NoUid THEN "append" ELSE "drop"
               q == [req[r] EXCEPT !.body = Edited(r, body), !.at = step]
    <3>3. step \in Steps
      BY DEF Steps, Holding
    <3>4. req' = [req EXCEPT ![r] = q]
      BY <2>2
    <3>5. q \in Request
      <4> HIDE DEF body, step
      <4> QED
        BY <3>2, <3>3, <1>1, <1>8, Fields
    <3> HIDE DEF q
    <3> QED
      BY <1>8, <3>4, <3>5, RequestSet
  <2> QED
    BY <1>8, <2>1, <2>2 DEF Load
<1>9. ASSUME NEW r \in Requests, Append(r) PROVE req' \in [Requests -> Request]
  <2>1. nextUid \in 0 .. MaxUid
    BY <1>9, <1>2, RoomLeft, Shapes DEF Append, At, MayAppend
  <2> QED
    <3> DEFINE q == [req[r] EXCEPT !.uid = nextUid, !.at = "release"]
    <3>1. q \in Request
      <4>1. "release" \in Steps
        BY DEF Steps, Holding
      <4> QED
        BY <4>1, <2>1, <1>1, <1>9, Fields
    <3>2. req' = [req EXCEPT ![r] = q]
      BY <1>9 DEF Append
    <3> HIDE DEF q
    <3> QED
      BY <1>9, <3>1, <3>2, RequestSet
<1>10. ASSUME NEW r \in Requests, Copy(r) PROVE req' \in [Requests -> Request]
  <2> DEFINE body == IF req[r].src = NoUid THEN {} ELSE box[req[r].src]
  <2>1. nextUid \in 0 .. MaxUid
    BY <1>10, <1>2, RoomLeft, Shapes DEF Copy, At, MayAppend
  <2>2. CASE Go(r, "failed")
    BY <2>2, GoTyped DEF Steps, Ended
  <2>3. CASE /\ req[r].src \in DOMAIN box \cup {NoUid}
             /\ req' = [req EXCEPT ![r] = [@ EXCEPT !.at = "insert", !.uid = nextUid, !.body = body]]
    <3>1. body \subseteq Requests
      BY <2>3, <1>4
    <3> DEFINE q == [req[r] EXCEPT !.at = "insert", !.uid = nextUid, !.body = body]
    <3>2. req' = [req EXCEPT ![r] = q]
      BY <2>3
    <3>3. q \in Request
      <4> HIDE DEF body
      <4>1. "insert" \in Steps
        BY DEF Steps
      <4> QED
        BY <4>1, <2>1, <3>1, <1>1, <1>10, Fields
    <3> HIDE DEF q
    <3> QED
      BY <1>10, <3>2, <3>3, RequestSet
  <2> QED
    BY <1>10, <2>2, <2>3 DEF Copy
<1>11. ASSUME NEW r \in Requests, AttachRow(r) \/ Cleanup(r) PROVE req' \in [Requests -> Request]
  <2>1. CASE \E step \in {"deliver", "done"} : Go(r, step)
    BY <2>1, GoTyped DEF Steps, Ended
  <2>2. CASE \E step \in {"fetch", "expunge"} :
               /\ req[r].key \in DOMAIN row
               /\ req' = [req EXCEPT ![r] = [@ EXCEPT !.uid = row[req[r].key].uid, !.at = step]]
    <3> PICK step \in {"fetch", "expunge"} :
               req' = [req EXCEPT ![r] = [@ EXCEPT !.uid = row[req[r].key].uid, !.at = step]]
      BY <2>2
    <3> DEFINE q == [req[r] EXCEPT !.uid = row[req[r].key].uid, !.at = step]
    <3>1. q \in Request
      <4>1. step \in Steps
        BY DEF Steps
      <4> QED
        BY <4>1, <2>2, <1>1, <1>3, <1>11, Fields
    <3>2. req' = [req EXCEPT ![r] = q]
      OBVIOUS
    <3> HIDE DEF q
    <3> QED
      BY <1>11, <3>1, <3>2, RequestSet
  <2> QED
    BY <1>11, <2>1, <2>2 DEF AttachRow, Cleanup, Known
<1>12. ASSUME NEW r \in Requests, AttachFetch(r) PROVE req' \in [Requests -> Request]
  <2> DEFINE body == IF req[r].uid \in DOMAIN box
                     THEN {s \in box[req[r].uid] : req[s].op = "upload"} ELSE {}
  <2>1. body \subseteq Requests
    BY <1>4
  <2>2. req' = [req EXCEPT ![r] = [@ EXCEPT !.at = "deliver", !.body = body]]
    BY <1>12 DEF AttachFetch
  <2> DEFINE q == [req[r] EXCEPT !.at = "deliver", !.body = body]
  <2>3. req' = [req EXCEPT ![r] = q]
    BY <2>2
  <2>4. q \in Request
    <3> HIDE DEF body
    <3>1. "deliver" \in Steps
      BY DEF Steps
    <3> QED
      BY <3>1, <2>1, <1>1, <1>12, Fields
  <2> HIDE DEF q
  <2> QED
    BY <1>12, <2>3, <2>4, RequestSet
<1>13. CASE UNCHANGED vars
  BY <1>13 DEF vars, TypeOK
<1> QED
  BY <1>5, <1>6, <1>7, <1>8, <1>9, <1>10, <1>11, <1>12, <1>13 DEF Next, Step

LEMMA RowsTyped ==
  ASSUME TypeOK, [Next]_vars
  PROVE  DOMAIN row' \subseteq Keys /\ \A k \in DOMAIN row' : row'[k] \in Row
<1>1. DOMAIN row \subseteq Keys /\ \A k \in DOMAIN row : row[k] \in Row
  BY DEF TypeOK
<1>2. \A r \in Requests : req[r].key \in Keys /\ req[r].uid \in 0 .. MaxUid
  BY Shapes DEF Request
<1>3. NoUid \in 0 .. MaxUid
  BY DraftAssumption DEF NoUid, MaxUid
<1>4. ASSUME NEW k \in Keys, NEW u \in 0 .. MaxUid, NEW l \in BOOLEAN,
             \/ row' = With(row, k, [uid |-> u, locked |-> l])
             \/ row' = [row EXCEPT ![k] = [uid |-> u, locked |-> l]]
             \/ row' = [row EXCEPT ![k].locked = l]
             \/ row' = Without(row, k)
             \/ row' = row
      PROVE  DOMAIN row' \subseteq Keys /\ \A j \in DOMAIN row' : row'[j] \in Row
  BY <1>4, RowSet
<1>5. ASSUME NEW r \in Requests, NEW op \in Ops, NEW k \in Keys,
             AcquireNew(r, op, k)
      PROVE  DOMAIN row' \subseteq Keys /\ \A j \in DOMAIN row' : row'[j] \in Row
  BY <1>3, <1>4, <1>5 DEF AcquireNew
<1>6. ASSUME NEW r \in Requests, LockExisting(r) \/ Unlock(r) \/ Release(r)
      PROVE  DOMAIN row' \subseteq Keys /\ \A j \in DOMAIN row' : row'[j] \in Row
  BY <1>2, <1>4, <1>6 DEF LockExisting, Unlock, Release
<1>7. ASSUME NEW r \in Requests, Insert(r) \/ Publish(r) \/ DeleteRow(r)
      PROVE  DOMAIN row' \subseteq Keys /\ \A j \in DOMAIN row' : row'[j] \in Row
  BY <1>2, <1>3, <1>4, <1>7 DEF Insert, Publish, DeleteRow
<1>8. ASSUME NEW r \in Requests,
             WaitForUnlock(r) \/ WaitTimesOut(r) \/ Load(r) \/ DropOld(r) \/
             Append(r) \/ AppendFails(r) \/ Copy(r) \/ DeleteSource(r) \/ Retry(r) \/
             AttachRow(r) \/ AttachFetch(r) \/ Deliver(r) \/ Cleanup(r) \/ Expunge(r)
             \/ Die(r)
      PROVE  UNCHANGED row
  BY <1>8, Zenon DEF WaitForUnlock, WaitTimesOut, Load, DropOld, Append, AppendFails, Copy,
    DeleteSource, Retry, AttachRow, AttachFetch, Deliver, Cleanup, Expunge, Die
<1>9. ASSUME NEW r \in Requests, NEW op \in Ops, NEW k \in Keys,
             \/ Look(r, op, k)
             \/ \E files \in {{}} \cup {{s} : s \in Requests} : Acquire(r, op, k, files)
             \/ \E u \in DOMAIN box \cup {NoUid} : Compose(r, op, k, u)
      PROVE  UNCHANGED row
  BY <1>9, Zenon DEF Look, Acquire, Compose
<1>10. CASE UNCHANGED row
  BY <1>1, <1>10
<1> QED
  BY <1>5, <1>6, <1>7, <1>8, <1>9, <1>10 DEF Next, Step, vars

LEMMA BoxTyped ==
  ASSUME TypeOK, Counted, [Next]_vars
  PROVE  /\ DOMAIN box' \subseteq 1 .. MaxUid /\ \A u \in DOMAIN box' : box'[u] \subseteq Requests
         /\ nextUid' \in 1 .. MaxUid + 1
<1>1. /\ DOMAIN box \subseteq 1 .. MaxUid /\ \A u \in DOMAIN box : box[u] \subseteq Requests
      /\ nextUid \in 1 .. MaxUid + 1
  BY DEF TypeOK
<1>2. ASSUME NEW r \in Requests, Append(r) \/ AppendFails(r) \/ Copy(r), UNCHANGED <<box, nextUid>>
      PROVE  /\ DOMAIN box' \subseteq 1 .. MaxUid /\ \A u \in DOMAIN box' : box'[u] \subseteq Requests
             /\ nextUid' \in 1 .. MaxUid + 1
  BY <1>1, <1>2
<1>3. ASSUME NEW r \in Requests, Append(r) \/ AppendFails(r) \/ Copy(r), ~UNCHANGED <<box, nextUid>>
      PROVE  /\ DOMAIN box' \subseteq 1 .. MaxUid /\ \A u \in DOMAIN box' : box'[u] \subseteq Requests
             /\ nextUid' \in 1 .. MaxUid + 1
  <2>1. req[r].at \in MayAppend
    BY <1>3 DEF Append, AppendFails, Copy, At, MayAppend
  <2>2. nextUid <= MaxUid
    BY <2>1, RoomLeft
  <2>3. req[r].body \subseteq Requests
    BY Shapes
  <2>4. req[r].src \in DOMAIN box => box[req[r].src] \subseteq Requests
    BY <1>1
  <2>5. \E body \in SUBSET Requests : box' = With(box, nextUid, body) /\ nextUid' = nextUid + 1
    BY <1>3, <2>3, <2>4 DEF Append, AppendFails, Copy
  <2> QED
    BY <2>2, <2>5, BoxGrows
<1>4. ASSUME NEW r \in Requests, DropOld(r) \/ DeleteSource(r) \/ Expunge(r)
      PROVE  /\ DOMAIN box' \subseteq 1 .. MaxUid /\ \A u \in DOMAIN box' : box'[u] \subseteq Requests
             /\ nextUid' \in 1 .. MaxUid + 1
  <2>1. nextUid' = nextUid /\ (box' = box \/ \E u : box' = Without(box, u))
    BY <1>4 DEF DropOld, DeleteSource, Expunge
  <2> QED
    BY <2>1, <1>1, BoxShrinks
<1>5. ASSUME NEW r \in Requests,
             WaitForUnlock(r) \/ WaitTimesOut(r) \/ LockExisting(r) \/ Load(r) \/
             Unlock(r) \/ Release(r) \/ Insert(r) \/ Publish(r) \/ Retry(r) \/
             AttachRow(r) \/ AttachFetch(r) \/ Deliver(r) \/ Cleanup(r) \/
             DeleteRow(r) \/ Die(r)
      PROVE  UNCHANGED <<box, nextUid>>
  BY <1>5, Zenon DEF WaitForUnlock, WaitTimesOut, LockExisting, Load, Unlock, Release, Insert,
    Publish, Retry, AttachRow, AttachFetch, Deliver, Cleanup, DeleteRow, Die
<1>6. ASSUME NEW r \in Requests, NEW op \in Ops, NEW k \in Keys,
             \/ AcquireNew(r, op, k) \/ Look(r, op, k)
             \/ \E files \in {{}} \cup {{s} : s \in Requests} : Acquire(r, op, k, files)
             \/ \E u \in DOMAIN box \cup {NoUid} : Compose(r, op, k, u)
      PROVE  UNCHANGED <<box, nextUid>>
  BY <1>6, Zenon DEF AcquireNew, Look, Acquire, Compose
<1>7. CASE UNCHANGED <<box, nextUid>>
  BY <1>1, <1>7
<1> QED
  BY <1>2, <1>3, <1>4, <1>5, <1>6, <1>7 DEF Next, Step, vars

LEMMA AckedTyped ==
  ASSUME TypeOK, [Next]_vars
  PROVE  acked' \in [Keys -> SUBSET Requests]
<1>1. acked \in [Keys -> SUBSET Requests]
  BY DEF TypeOK
<1>2. ASSUME NEW r \in Requests, NEW op \in Ops, NEW k \in Keys, NEW files, Acquire(r, op, k, files)
      PROVE  acked' \in [Keys -> SUBSET Requests]
  BY <1>1, <1>2 DEF Acquire
<1>3. ASSUME NEW r \in Requests, Release(r)
      PROVE  acked' \in [Keys -> SUBSET Requests]
  <2> DEFINE k == req[r].key
             S == IF req[r].op = "unattach" THEN acked[k] ELSE Edited(r, acked[k])
  <2>1. k \in Keys /\ acked[k] \subseteq Requests /\ req[r].files \subseteq Requests
    BY Shapes
  <2>2. S \subseteq Requests
    BY <2>1 DEF Edited
  <2>3. acked' = acked \/ acked' = [acked EXCEPT ![k] = S]
    BY <1>3 DEF Release
  <2> HIDE DEF S
  <2> QED
    BY <1>1, <2>1, <2>2, <2>3
<1>4. ASSUME NEW r \in Requests, Publish(r)
      PROVE  acked' \in [Keys -> SUBSET Requests]
  BY <1>1, <1>4, Shapes DEF Publish
<1>5. ASSUME NEW r \in Requests,
             WaitForUnlock(r) \/ WaitTimesOut(r) \/ LockExisting(r) \/ Load(r) \/
             DropOld(r) \/ Append(r) \/ AppendFails(r) \/ Unlock(r) \/ Copy(r) \/
             Insert(r) \/ DeleteSource(r) \/ Retry(r) \/ AttachRow(r) \/
             AttachFetch(r) \/ Deliver(r) \/ Cleanup(r) \/ Expunge(r) \/ DeleteRow(r)
             \/ Die(r)
      PROVE  UNCHANGED acked
  BY <1>5, Zenon DEF WaitForUnlock, WaitTimesOut, LockExisting, Load, DropOld, Append, AppendFails,
    Unlock, Copy, Insert, DeleteSource, Retry, AttachRow, AttachFetch, Deliver,
    Cleanup, Expunge, DeleteRow, Die
<1>6. ASSUME NEW r \in Requests, NEW op \in Ops, NEW k \in Keys,
             \/ AcquireNew(r, op, k) \/ Look(r, op, k)
             \/ \E u \in DOMAIN box \cup {NoUid} : Compose(r, op, k, u)
      PROVE  UNCHANGED acked
  BY <1>6, Zenon DEF AcquireNew, Look, Compose
<1>7. CASE UNCHANGED acked
  BY <1>1, <1>7
<1> QED
  BY <1>2, <1>3, <1>4, <1>5, <1>6, <1>7 DEF Next, Step, vars

LEMMA MarksTyped ==
  ASSUME TypeOK, [Next]_vars
  PROVE  /\ marks' \subseteq Keys \X {"clash", "taken", "imap", "died"}
         /\ marks \subseteq marks'
<1>1. marks \subseteq Keys \X {"clash", "taken", "imap", "died"}
  BY DEF TypeOK
<1>2. \A r \in Requests : req[r].key \in Keys
  BY Shapes
<1>3. Faults \subseteq {"imap", "died"}
  BY DraftAssumption DEF FaultKinds
<1>4. ASSUME NEW r \in Requests, DeleteSource(r)
      PROVE  /\ marks' \subseteq Keys \X {"clash", "taken", "imap", "died"}
             /\ marks \subseteq marks'
  BY <1>1, <1>2, <1>4 DEF DeleteSource, Fault, Mark
<1>5. ASSUME NEW r \in Requests, NEW m \in {"clash", "imap", "died"},
             Mark(req[r].key, m) \/ Fault(req[r].key, m)
      PROVE  /\ marks' \subseteq Keys \X {"clash", "taken", "imap", "died"}
             /\ marks \subseteq marks'
  BY <1>1, <1>2, <1>5 DEF Fault, Mark
<1>6. ASSUME NEW r \in Requests,
             WaitForUnlock(r) \/ WaitTimesOut(r) \/ Load(r) \/ Append(r) \/ Unlock(r)
             \/ Release(r) \/ Copy(r) \/ Insert(r) \/ Publish(r) \/ Retry(r) \/
             AttachRow(r) \/ AttachFetch(r) \/ Deliver(r) \/ Cleanup(r) \/
             DeleteRow(r)
      PROVE  UNCHANGED marks
  BY <1>6, Zenon DEF WaitForUnlock, WaitTimesOut, Load, Append, Unlock, Release, Copy, Insert,
    Publish, Retry, AttachRow, AttachFetch, Deliver, Cleanup, DeleteRow
<1>7. ASSUME NEW r \in Requests, NEW op \in Ops, NEW k \in Keys,
             \/ AcquireNew(r, op, k) \/ Look(r, op, k)
             \/ \E files \in {{}} \cup {{s} : s \in Requests} : Acquire(r, op, k, files)
             \/ \E u \in DOMAIN box \cup {NoUid} : Compose(r, op, k, u)
      PROVE  UNCHANGED marks
  BY <1>7, Zenon DEF AcquireNew, Look, Acquire, Compose
<1>8. CASE UNCHANGED marks
  BY <1>1, <1>8
<1>9. ASSUME NEW r \in Requests,
             LockExisting(r) \/ DropOld(r) \/ AppendFails(r) \/ Expunge(r) \/ Die(r)
      PROVE  /\ marks' \subseteq Keys \X {"clash", "taken", "imap", "died"}
             /\ marks \subseteq marks'
  <2>1. \/ marks' = marks
        \/ \E m \in {"clash", "imap", "died"} : Mark(req[r].key, m) \/ Fault(req[r].key, m)
    BY <1>9 DEF LockExisting, DropOld, AppendFails, Expunge, Die
  <2> QED
    BY <1>1, <1>5, <2>1
<1> QED
  BY <1>4, <1>5, <1>6, <1>7, <1>8, <1>9 DEF Next, Step, vars

(* What a step of one request does to the requests. *)
LEMMA Goes ==
  ASSUME TypeOK, NEW r \in Requests, NEW step, Go(r, step)
  PROVE  /\ \A s \in Requests \ {r} : req'[s] = req[s]
         /\ req'[r].at = step /\ req'[r].op = req[r].op /\ req'[r].key = req[r].key
         /\ req'[r].uid = req[r].uid /\ req'[r].src = req[r].src
         /\ req'[r].body = req[r].body /\ req'[r].files = req[r].files
  BY Shapes DEF Go

LEMMA AppendDoes ==
  ASSUME TypeOK, NEW r \in Requests, Append(r)
  PROVE  /\ req[r].at = "append" /\ req'[r].at = "release" /\ req'[r].uid = nextUid
         /\ req'[r].op = req[r].op /\ req'[r].key = req[r].key /\ req'[r].src = req[r].src
         /\ req'[r].body = req[r].body /\ req'[r].files = req[r].files
  BY Shapes DEF Append, At

LEMMA CopyDoes ==
  ASSUME TypeOK, NEW r \in Requests, Copy(r)
  PROVE  /\ req[r].at = "copy"
         /\ \/ Go(r, "failed") /\ UNCHANGED <<box, nextUid>>
            \/ /\ req'[r].at = "insert" /\ req'[r].uid = nextUid
               /\ req'[r].op = req[r].op /\ req'[r].key = req[r].key /\ req'[r].src = req[r].src
               /\ req'[r].files = req[r].files
               /\ box' = With(box, nextUid, req'[r].body) /\ nextUid' = nextUid + 1
               /\ \/ req'[r].body = {}
                  \/ req[r].src \in DOMAIN box /\ req'[r].body = box[req[r].src]
<1>1. req[r].at = "copy"
  BY DEF Copy, At
<1>2. CASE req[r].src \in DOMAIN box \cup {NoUid}
  <2> DEFINE body == IF req[r].src = NoUid THEN {} ELSE box[req[r].src]
  <2>1. /\ req' = [req EXCEPT ![r] = [@ EXCEPT !.at = "insert", !.uid = nextUid, !.body = body]]
        /\ box' = With(box, nextUid, body) /\ nextUid' = nextUid + 1
    BY <1>2 DEF Copy
  <2>2. body = {} \/ (req[r].src \in DOMAIN box /\ body = box[req[r].src])
    BY <1>2
  <2> HIDE DEF body
  <2>3. /\ req'[r].at = "insert" /\ req'[r].uid = nextUid /\ req'[r].body = body
        /\ req'[r].op = req[r].op /\ req'[r].key = req[r].key /\ req'[r].src = req[r].src
        /\ req'[r].files = req[r].files
    BY <2>1, Shapes
  <2> QED
    BY <1>1, <2>1, <2>2, <2>3
<1>3. CASE req[r].src \notin DOMAIN box \cup {NoUid}
  BY <1>1, <1>3 DEF Copy
<1> QED
  BY <1>2, <1>3

(* A send or a deletion that reads the row. *)
LEMMA ReadsDoes ==
  ASSUME TypeOK, NEW r \in Requests, AttachRow(r) \/ Cleanup(r)
  PROVE  \/ Go(r, "deliver") \/ Go(r, "done")
         \/ /\ req[r].key \in DOMAIN row
            /\ req'[r].at \in {"fetch", "expunge"} /\ req'[r].uid = row[req[r].key].uid
            /\ req'[r].op = req[r].op /\ req'[r].key = req[r].key /\ req'[r].src = req[r].src
            /\ req'[r].body = req[r].body /\ req'[r].files = req[r].files
<1>1. CASE req[r].key \notin DOMAIN row
  BY <1>1 DEF AttachRow, Cleanup, Known
<1>2. CASE req[r].key \in DOMAIN row
  <2>1. \E a \in {"fetch", "expunge"} :
           req' = [req EXCEPT ![r] = [@ EXCEPT !.uid = row[req[r].key].uid, !.at = a]]
    BY <1>2 DEF AttachRow, Cleanup, Known
  <2> QED
    BY <1>2, <2>1, Shapes
<1> QED
  BY <1>1, <1>2

LEMMA FetchDoes ==
  ASSUME TypeOK, NEW r \in Requests, AttachFetch(r)
  PROVE  /\ req[r].at = "fetch" /\ req'[r].at = "deliver" /\ req'[r].uid = req[r].uid
         /\ req'[r].op = req[r].op /\ req'[r].key = req[r].key /\ req'[r].src = req[r].src
         /\ req'[r].files = req[r].files
         /\ req'[r].body = {} \/ (req[r].uid \in DOMAIN box /\ req'[r].body \subseteq box[req[r].uid])
<1> DEFINE body == IF req[r].uid \in DOMAIN box
                   THEN {s \in box[req[r].uid] : req[s].op = "upload"} ELSE {}
<1>1. req' = [req EXCEPT ![r] = [@ EXCEPT !.at = "deliver", !.body = body]]
  BY DEF AttachFetch
<1>2. body = {} \/ (req[r].uid \in DOMAIN box /\ body \subseteq box[req[r].uid])
  OBVIOUS
<1> HIDE DEF body
<1>3. /\ req'[r].at = "deliver" /\ req'[r].uid = req[r].uid /\ req'[r].body = body
      /\ req'[r].op = req[r].op /\ req'[r].key = req[r].key /\ req'[r].src = req[r].src
      /\ req'[r].files = req[r].files
  BY <1>1, Shapes
<1> QED
  BY <1>2, <1>3 DEF AttachFetch, At

LEMMA LoadDoes ==
  ASSUME TypeOK, NEW r \in Requests, Load(r)
  PROVE  LET u == req[r].uid
             body == IF u = NoUid THEN {} ELSE box[u]
         IN /\ req[r].at = "load"
            /\ \/ /\ Go(r, "unlock")
                  /\ \/ u # NoUid /\ u \notin DOMAIN box
                     \/ req[r].op = "unattach" /\ (u = NoUid \/ Edited(r, body) = body)
               \/ /\ u = NoUid \/ u \in DOMAIN box
                  /\ req'[r].at = IF u = NoUid THEN "append" ELSE "drop"
                  /\ req'[r].body = Edited(r, body)
                  /\ req'[r].op = req[r].op /\ req'[r].key = req[r].key /\ req'[r].src = req[r].src
                  /\ req'[r].uid = req[r].uid /\ req'[r].files = req[r].files
<1> DEFINE u == req[r].uid
           body == IF u = NoUid THEN {} ELSE box[u]
           bad == \/ u # NoUid /\ u \notin DOMAIN box
                  \/ req[r].op = "unattach" /\ (u = NoUid \/ Edited(r, body) = body)
           new == Edited(r, body)
           step == IF u = NoUid THEN "append" ELSE "drop"
<1>1. req[r].at = "load"
  BY DEF Load, At
<1>2. CASE bad
  BY <1>1, <1>2 DEF Load
<1>3. CASE ~bad
  <2>1. req' = [req EXCEPT ![r] = [@ EXCEPT !.body = new, !.at = step]]
    BY <1>3 DEF Load
  <2>2. u = NoUid \/ u \in DOMAIN box
    BY <1>3
  <2>3. /\ req'[r].at = step /\ req'[r].body = new
        /\ req'[r].op = req[r].op /\ req'[r].key = req[r].key /\ req'[r].src = req[r].src
        /\ req'[r].uid = req[r].uid /\ req'[r].files = req[r].files
    <3> HIDE DEF new, step
    <3> QED
      BY <2>1, Shapes
  <2> QED
    BY <1>1, <2>2, <2>3
<1> QED
  BY <1>2, <1>3

LEMMA StartDoes ==
  ASSUME TypeOK, NEW r \in Requests, NEW op, NEW k, NEW step, NEW uid, NEW files,
         Start(r, op, k, step, uid, files)
  PROVE  /\ req[r].at = "idle" /\ req'[r].at = step /\ req'[r].op = op /\ req'[r].key = k
         /\ req'[r].uid = uid /\ req'[r].files = files
         /\ req'[r].src = req[r].src /\ req'[r].body = req[r].body
  BY Shapes DEF Start, Arrives, At

LEMMA ComposeDoes ==
  ASSUME TypeOK, NEW r \in Requests, NEW op, NEW k, NEW u, Compose(r, op, k, u)
  PROVE  /\ req[r].at = "idle" /\ req'[r].at = "copy" /\ req'[r].op = op /\ req'[r].key = k
         /\ req'[r].src = u /\ req'[r].files = req[r].files
         /\ req'[r].uid = req[r].uid /\ req'[r].body = req[r].body
  BY Shapes DEF Compose, Arrives, At

LEMMA Others ==
  ASSUME TypeOK, NEW r \in Requests,
         \/ Step(r) \/ Die(r)
         \/ \E op \in Ops, k \in Keys :
               \/ AcquireNew(r, op, k) \/ Look(r, op, k)
               \/ \E files \in {{}} \cup {{s} : s \in Requests} : Acquire(r, op, k, files)
               \/ \E u \in DOMAIN box \cup {NoUid} : Compose(r, op, k, u)
  PROVE  \A s \in Requests \ {r} : req'[s] = req[s]
<1>1. ASSUME NEW step, Go(r, step) PROVE \A s \in Requests \ {r} : req'[s] = req[s]
  BY <1>1, Goes
<1>2. ASSUME NEW q, req' = [req EXCEPT ![r] = q] PROVE \A s \in Requests \ {r} : req'[s] = req[s]
  BY <1>2, Shapes
<1>3. CASE \/ WaitForUnlock(r) \/ WaitTimesOut(r) \/ LockExisting(r) \/ DropOld(r) \/ AppendFails(r)
           \/ Unlock(r) \/ Release(r) \/ Insert(r) \/ Publish(r) \/ DeleteSource(r) \/ Retry(r)
           \/ Deliver(r) \/ Expunge(r) \/ DeleteRow(r) \/ Die(r)
  <2>1. \E step \in {"lock", "failed", "load", "append", "unlock", "row", "done", "publish", "source",
                     "attach", "cleanup", "dead"} : Go(r, step)
    BY <1>3, Zenon DEF WaitForUnlock, WaitTimesOut, LockExisting, DropOld, AppendFails, Unlock, Release,
      Insert, Publish, DeleteSource, Retry, Deliver, Expunge, DeleteRow, Die
  <2> QED
    BY <2>1, <1>1
<1>4. CASE Load(r) \/ Append(r) \/ Copy(r)
  <2>1. (\E step : Go(r, step)) \/ (\E q : req' = [req EXCEPT ![r] = q])
    BY <1>4 DEF Load, Append, Copy
  <2> QED
    BY <2>1, <1>1, <1>2
<1>5. CASE AttachRow(r) \/ AttachFetch(r) \/ Cleanup(r)
  <2>1. (\E step : Go(r, step)) \/ (\E q : req' = [req EXCEPT ![r] = q])
    BY <1>5 DEF AttachRow, AttachFetch, Cleanup
  <2> QED
    BY <2>1, <1>1, <1>2
<1>6. ASSUME NEW op \in Ops, NEW k \in Keys,
             \/ AcquireNew(r, op, k) \/ Look(r, op, k)
             \/ \E files \in {{}} \cup {{s} : s \in Requests} : Acquire(r, op, k, files)
             \/ \E u \in DOMAIN box \cup {NoUid} : Compose(r, op, k, u)
      PROVE  \A s \in Requests \ {r} : req'[s] = req[s]
  <2>1. \E q : req' = [req EXCEPT ![r] = q]
    BY <1>6 DEF AcquireNew, Look, Acquire, Compose, Start
  <2> QED
    BY <2>1, <1>2
<1> QED
  BY <1>3, <1>4, <1>5, <1>6 DEF Step

(* Who may append has not appended yet: no step leads back. *)
LEMMA NoWayBack ==
  ASSUME TypeOK, [Next]_vars
  PROVE  \A s \in Requests : req'[s].at \in MayAppend => req[s].at \in MayAppend
<1>1. ASSUME NEW r \in Requests, Step(r) \/ Die(r), req[r].at \notin MayAppend
      PROVE  req'[r].at \notin MayAppend
  <2>1. CASE Unlock(r) \/ Release(r) \/ Insert(r) \/ Publish(r) \/ DeleteSource(r) \/ Retry(r)
             \/ Deliver(r) \/ Expunge(r) \/ DeleteRow(r) \/ Die(r)
    <3>1. \E step \in {"failed", "row", "done", "unlock", "publish", "source", "attach", "cleanup", "dead"} :
             Go(r, step)
      BY <2>1, Zenon DEF Unlock, Release, Insert, Publish, DeleteSource, Retry, Deliver, Expunge,
         DeleteRow, Die
    <3> QED
      BY <3>1, Goes DEF MayAppend
  <2>2. CASE AttachRow(r) \/ Cleanup(r)
    BY <2>2, ReadsDoes, Goes DEF MayAppend
  <2>3. CASE AttachFetch(r)
    BY <2>3, FetchDoes DEF MayAppend
  <2>4. ~(\/ WaitForUnlock(r) \/ WaitTimesOut(r) \/ LockExisting(r) \/ Load(r) \/ DropOld(r) \/ Append(r)
          \/ AppendFails(r) \/ Copy(r))
    BY <1>1 DEF WaitForUnlock, WaitTimesOut, LockExisting, Load, DropOld, Append, AppendFails, Copy, At,
       MayAppend
  <2> QED
    BY <1>1, <2>1, <2>2, <2>3, <2>4 DEF Step
<1>2. ASSUME NEW r \in Requests, NEW op \in Ops, NEW k \in Keys,
             \/ AcquireNew(r, op, k) \/ Look(r, op, k)
             \/ \E files \in {{}} \cup {{s} : s \in Requests} : Acquire(r, op, k, files)
             \/ \E u \in DOMAIN box \cup {NoUid} : Compose(r, op, k, u)
      PROVE  req[r].at \in MayAppend
  BY <1>2 DEF AcquireNew, Look, Acquire, Compose, Start, Arrives, At, MayAppend
<1>3. CASE UNCHANGED vars
  BY <1>3 DEF vars
<1> QED
  BY <1>1, <1>2, <1>3, Others DEF Next

LEMMA CountedStep ==
  ASSUME TypeOK, Counted, [Next]_vars
  PROVE  Counted'
<1>1. nextUid \in Nat /\ MaxUid \in Nat
  BY Shapes, DraftAssumption DEF MaxUid
<1>2. ASSUME NEW r \in Requests, Append(r) \/ AppendFails(r) \/ Copy(r), nextUid' = nextUid + 1
      PROVE  Counted'
  <2>a. Append(r) => req[r].at = "append" /\ req'[r].at = "release"
    BY AppendDoes
  <2>b. AppendFails(r) => req[r].at = "append" /\ req'[r].at = "unlock"
    BY Goes DEF AppendFails, At
  <2>c. Copy(r) => req[r].at = "copy" /\ req'[r].at = "insert"
    BY <1>1, <1>2, CopyDoes
  <2>1. req[r].at \in {"append", "copy"} /\ req'[r].at \in {"release", "unlock", "insert"}
    BY <1>2, <2>a, <2>b, <2>c
  <2>2. \A s \in Requests \ {r} : req'[s].at = req[s].at
    BY <1>2, Others DEF Step
  <2>3. Cardinality(Appending(req')) = Cardinality(Appending(req)) - 1
    BY <2>1, <2>2, OneFewer DEF MayAppend
  <2> QED
    BY <1>1, <1>2, <2>3, AppendingFinite DEF Counted
<1>3. CASE nextUid' = nextUid
  <2>1. Cardinality(Appending(req')) <= Cardinality(Appending(req))
    BY NoWayBack, NoMore
  <2> QED
    BY <1>1, <1>3, <2>1, AppendingFinite DEF Counted
<1>4. nextUid' = nextUid \/ (nextUid' = nextUid + 1 /\ \E r \in Requests : Append(r) \/ AppendFails(r) \/ Copy(r))
  <2>1. ASSUME NEW r \in Requests, Append(r) \/ AppendFails(r) \/ Copy(r)
        PROVE  nextUid' = nextUid \/ nextUid' = nextUid + 1
    BY <2>1 DEF Append, AppendFails, Copy
  <2>2. ASSUME NEW r \in Requests,
               WaitForUnlock(r) \/ WaitTimesOut(r) \/ LockExisting(r) \/ Load(r) \/ DropOld(r) \/ Unlock(r) \/
               Release(r) \/ Insert(r) \/ Publish(r) \/ DeleteSource(r) \/ Retry(r) \/ AttachRow(r) \/
               AttachFetch(r) \/ Deliver(r) \/ Cleanup(r) \/ Expunge(r) \/ DeleteRow(r) \/ Die(r)
        PROVE  nextUid' = nextUid
    BY <2>2, Zenon DEF WaitForUnlock, WaitTimesOut, LockExisting, Load, DropOld, Unlock, Release, Insert,
      Publish, DeleteSource, Retry, AttachRow, AttachFetch, Deliver, Cleanup, Expunge, DeleteRow, Die
  <2>3. ASSUME NEW r \in Requests, NEW op \in Ops, NEW k \in Keys,
               \/ AcquireNew(r, op, k) \/ Look(r, op, k)
               \/ \E files \in {{}} \cup {{s} : s \in Requests} : Acquire(r, op, k, files)
               \/ \E u \in DOMAIN box \cup {NoUid} : Compose(r, op, k, u)
        PROVE  nextUid' = nextUid
    BY <2>3 DEF AcquireNew, Look, Acquire, Compose
  <2> QED
    BY <2>1, <2>2, <2>3 DEF Next, Step, vars
<1> QED
  BY <1>2, <1>3, <1>4

LEMMA TypeStep == TypeOK /\ Counted /\ [Next]_vars => TypeOK' /\ Counted'
  BY RequestsTyped, RowsTyped, BoxTyped, AckedTyped, MarksTyped, CountedStep DEF TypeOK

LEMMA TypeInit == Init => TypeOK /\ Counted
<1> SUFFICES ASSUME Init PROVE TypeOK /\ Counted
  OBVIOUS
<1>1. MaxRequests \in Nat /\ MaxUid = MaxRequests + 1 /\ MaxKeys \in Nat \ {0}
  BY DraftAssumption DEF MaxUid
<1>2. TypeOK
  BY <1>1 DEF Init, TypeOK, Request, AllOps, Steps, Keys, NoUid
<1>3. Counted
  <2>1. Cardinality(Appending(req)) <= Cardinality(Requests)
    <3>1. IsFiniteSet(Requests) /\ Appending(req) \subseteq Requests
      BY <1>1, FS_Interval DEF Requests, Appending
    <3> QED
      BY <3>1, FS_Subset
  <2>2. Cardinality(Requests) = MaxRequests
    BY <1>1, FS_Interval DEF Requests
  <2>3. nextUid = 2
    BY DEF Init
  <2> QED
    BY <1>1, <2>1, <2>2, <2>3, AppendingFinite DEF Counted
<1> QED
  BY <1>2, <1>3

(* The types; in particular no message is ever given a UID beyond the last. *)
THEOREM DraftTypes == Spec => []TypeOK
<1> QED
  BY TypeInit, TypeStep, PTL DEF Spec

-----------------------------------------------------------------------------
(* A locked row has a request that will unlock it. *)

Holders == Holding \cup {"publish"}

(* Nothing is locked, and a request that holds goes on holding. *)
LEMMA HolderStays ==
  ASSUME TypeOK, LockHasHolder, NEW r \in Requests, marks \subseteq marks',
         \A s \in Requests \ {r} : req'[s] = req[s],
         \A k \in DOMAIN row' : k \in DOMAIN row /\ row'[k].locked = row[k].locked,
         req[r].at \in Holders => req'[r].at \in Holders /\ req'[r].key = req[r].key
  PROVE  LockHasHolder'
  BY DEF LockHasHolder, Holders

(* A step that changes the lock of the request's own row. *)
LEMMA HolderActs ==
  ASSUME TypeOK, LockHasHolder, NEW r \in Requests, marks \subseteq marks',
         \A s \in Requests \ {r} : req'[s] = req[s],
         \A k \in DOMAIN row' \ {req'[r].key} : k \in DOMAIN row /\ row'[k].locked = row[k].locked,
         req[r].at \in Holders => req'[r].key = req[r].key,
         LET k == req'[r].key IN
           \/ k \notin DOMAIN row' \/ row'[k].locked = FALSE
           \/ <<k, "died">> \in marks' \/ req'[r].at \in Holders
  PROVE  LockHasHolder'
  BY DEF LockHasHolder, Holders

LEMMA LockStep ==
  ASSUME TypeOK, Counted, LockHasHolder, [Next]_vars
  PROVE  LockHasHolder'
<1>1. marks \subseteq marks'
  BY MarksTyped
<1>2. ASSUME NEW r \in Requests,
             WaitForUnlock(r) \/ WaitTimesOut(r) \/ DropOld(r) \/ AppendFails(r) \/ DeleteSource(r) \/
             Retry(r) \/ Deliver(r) \/ Expunge(r)
      PROVE  LockHasHolder'
  <2>1. /\ row' = row
        /\ \/ req[r].at \notin Holders /\ \E step : Go(r, step)
           \/ \E step \in Holders : Go(r, step)
    BY <1>2, SMTT(20) DEF WaitForUnlock, WaitTimesOut, DropOld, AppendFails, DeleteSource, Retry, Deliver,
       Expunge, At, Holders, Holding
  <2>2. req[r].at \in Holders => req'[r].at \in Holders /\ req'[r].key = req[r].key
    BY <2>1, Goes
  <2>3. \A s \in Requests \ {r} : req'[s] = req[s]
    BY <1>2, Others DEF Step
  <2> QED
    BY <2>1, <2>2, <2>3, <1>1, HolderStays
<1>3. ASSUME NEW r \in Requests,
             Load(r) \/ Append(r) \/ Copy(r) \/ AttachRow(r) \/ AttachFetch(r) \/ Cleanup(r)
      PROVE  LockHasHolder'
  <2>1. row' = row
    BY <1>3 DEF Load, Append, Copy, AttachRow, AttachFetch, Cleanup
  <2>2. Load(r) \/ Append(r) => req'[r].at \in Holders /\ req'[r].key = req[r].key
    BY LoadDoes, AppendDoes, Goes DEF Holders, Holding
  <2>3. Copy(r) \/ AttachRow(r) \/ AttachFetch(r) \/ Cleanup(r) => req[r].at \notin Holders
    BY DEF Copy, AttachRow, AttachFetch, Cleanup, At, Holders, Holding
  <2>4. \A s \in Requests \ {r} : req'[s] = req[s]
    BY <1>3, Others DEF Step
  <2> QED
    BY <1>3, <2>1, <2>2, <2>3, <2>4, <1>1, HolderStays
<1>4. ASSUME NEW r \in Requests, LockExisting(r) \/ Unlock(r) \/ Release(r)
      PROVE  LockHasHolder'
  <2> DEFINE k == req[r].key
  <2>1. \A s \in Requests \ {r} : req'[s] = req[s]
    BY <1>4, Others DEF Step
  <2>2. \E step : Go(r, step)
    BY <1>4 DEF LockExisting, Unlock, Release
  <2>3. req'[r].key = k
    BY <2>2, Goes
  <2>4. \A j \in DOMAIN row' \ {k} : j \in DOMAIN row /\ row'[j].locked = row[j].locked
    BY <1>4 DEF LockExisting, Unlock, Release
  <2>5. LockExisting(r) => k \notin DOMAIN row' \/ req'[r].at \in Holders
    BY Goes DEF LockExisting, Known, Holders, Holding
  <2>6. Unlock(r) => k \notin DOMAIN row' \/ row'[k].locked = FALSE
    BY Shapes DEF Unlock, Known
  <2>7. Release(r) => k \notin DOMAIN row' \/ row'[k].locked = FALSE
    <3> SUFFICES ASSUME Release(r), k \in DOMAIN row' PROVE row'[k].locked = FALSE
      OBVIOUS
    <3>1. k \in DOMAIN row /\ row' = [row EXCEPT ![k] = [uid |-> req[r].uid, locked |-> FALSE]]
      BY DEF Release, Known
    <3> QED
      BY <3>1
  <2> QED
    BY <1>4, <2>1, <2>3, <2>4, <2>5, <2>6, <2>7, <1>1, HolderActs
<1>5. ASSUME NEW r \in Requests, Insert(r) \/ Publish(r) \/ DeleteRow(r)
      PROVE  LockHasHolder'
  <2> DEFINE k == req[r].key
  <2>1. \A s \in Requests \ {r} : req'[s] = req[s]
    BY <1>5, Others DEF Step
  <2>2. \E step : Go(r, step)
    BY <1>5 DEF Insert, Publish, DeleteRow
  <2>3. req'[r].key = k
    BY <2>2, Goes
  <2>4. \A j \in DOMAIN row' \ {k} : j \in DOMAIN row /\ row'[j].locked = row[j].locked
    BY <1>5 DEF Insert, Publish, DeleteRow, With, Without
  <2>5. Insert(r) => row'[k].locked = FALSE \/ req'[r].at \in Holders
    BY Goes DEF Insert, With, Holders
  <2>6. Publish(r) => k \notin DOMAIN row' \/ row'[k].locked = FALSE
    BY Shapes DEF Publish
  <2>7. DeleteRow(r) => k \notin DOMAIN row'
    BY DEF DeleteRow, Without
  <2> QED
    BY <1>5, <2>1, <2>3, <2>4, <2>5, <2>6, <2>7, <1>1, HolderActs
<1>6. ASSUME NEW r \in Requests, Die(r)
      PROVE  LockHasHolder'
  <2>1. row' = row /\ <<req[r].key, "died">> \in marks' /\ Go(r, "dead")
    BY <1>6 DEF Die, Fault, Mark
  <2> QED
    BY <2>1, <1>1, Goes, HolderActs
<1>7. ASSUME NEW r \in Requests, NEW op \in Ops, NEW k \in Keys,
             \/ Look(r, op, k)
             \/ \E files \in {{}} \cup {{s} : s \in Requests} : Acquire(r, op, k, files)
             \/ \E u \in DOMAIN box \cup {NoUid} : Compose(r, op, k, u)
      PROVE  LockHasHolder'
  <2>1. row' = row /\ req[r].at = "idle"
    BY <1>7 DEF Look, Acquire, Compose, Start, Arrives, At
  <2>2. \A s \in Requests \ {r} : req'[s] = req[s]
    BY <1>7, Others
  <2> QED
    BY <2>1, <2>2, <1>1, HolderStays DEF Holders, Holding
<1>8. ASSUME NEW r \in Requests, NEW op \in Ops, NEW k \in Keys, AcquireNew(r, op, k)
      PROVE  LockHasHolder'
  <2>1. req'[r].key = k /\ req'[r].at = "load" /\ req[r].at = "idle"
    BY <1>8, StartDoes DEF AcquireNew
  <2>2. \A j \in DOMAIN row' \ {k} : j \in DOMAIN row /\ row'[j].locked = row[j].locked
    BY <1>8 DEF AcquireNew, With
  <2>3. \A s \in Requests \ {r} : req'[s] = req[s]
    BY <1>8, Others
  <2> QED
    BY <2>1, <2>2, <2>3, <1>1, HolderActs DEF Holders, Holding
<1>9. CASE UNCHANGED vars
  BY <1>9 DEF vars, LockHasHolder
<1> QED
  BY <1>2, <1>3, <1>4, <1>5, <1>6, <1>7, <1>8, <1>9 DEF Next, Step

(* Whatever requests meet on a row, and although neither unlock nor release *)
(* asks whose lock it is: a row that is locked is going to be unlocked,     *)
(* unless a process died.                                                   *)
THEOREM LocksHaveHolders == Spec => []LockHasHolder
<1> DEFINE Inv == TypeOK /\ Counted /\ LockHasHolder
<1>1. Init => Inv
  BY TypeInit DEF Init, LockHasHolder
<1>2. Inv /\ [Next]_vars => Inv'
  BY TypeStep, LockStep
<1>3. Inv => LockHasHolder
  OBVIOUS
<1> QED
  BY <1>1, <1>2, <1>3, PTL DEF Spec

-----------------------------------------------------------------------------
(* Whose message a UID is.  A request that appended a message and has not  *)
(* written its UID to the row yet (Writing) is the only one to know it; a  *)
(* UID in a row is known to requests about that row only, one of which     *)
(* appended the message; and nobody opens what he copied himself.          *)

Writing == {"release", "insert", "publish"}
Wrote == {"done", "row", "source", "failed", "dead"}

Given ==
    /\ \A r \in Requests : req[r].uid < nextUid /\ req[r].src < nextUid
    /\ \A k \in DOMAIN row : row[k].uid < nextUid
    /\ \A u \in DOMAIN box : u < nextUid

Blank == \A r \in Requests : req[r].at = "idle" => req[r].uid = NoUid

Own ==
    \A h \in Requests : req[h].at \in Writing =>
        /\ req[h].uid # NoUid
        /\ \A s \in Requests \ {h} : req[s].uid # req[h].uid
        /\ \A k \in DOMAIN row : row[k].uid # req[h].uid

RowsApart == \A j, k \in DOMAIN row : row[j].uid = row[k].uid /\ row[j].uid # NoUid => j = k

OfItsKey ==
    \A r \in Requests, j \in DOMAIN row : req[r].uid = row[j].uid /\ row[j].uid # NoUid => j = req[r].key

Writer ==
    \A k \in DOMAIN row : row[k].uid # NoUid =>
        \E s \in Requests : req[s].key = k /\ req[s].uid = row[k].uid /\ req[s].at \in Wrote

Apart == \A r \in Requests : req[r].at \in {"insert", "publish", "source"} => req[r].src # req[r].uid

Numbered == Given /\ Blank /\ Own /\ RowsApart /\ OfItsKey /\ Writer /\ Apart

(* A step that writes no UID to a row and appends nothing it knows of: the *)
(* request keeps its UID, or reads the one of its row.                     *)
LEMMA NumberedQuiet ==
  ASSUME TypeOK, Numbered, NEW r \in Requests,
         \A s \in Requests \ {r} : req'[s] = req[s],
         nextUid' \in Nat, nextUid <= nextUid', \A u \in DOMAIN box' : u < nextUid',
         \A k \in DOMAIN row' : row'[k].uid = NoUid \/ (k \in DOMAIN row /\ row'[k].uid = row[k].uid),
         \/ /\ req'[r].uid = req[r].uid
            /\ req'[r].key = req[r].key \/ req[r].uid = NoUid
         \/ req'[r].key \in DOMAIN row /\ req'[r].uid = row[req'[r].key].uid,
         req'[r].at \in Writing => req[r].at \in Writing /\ req'[r].uid = req[r].uid,
         req'[r].at \in {"insert", "publish", "source"} =>
            req[r].at \in {"insert", "publish", "source"} /\ req'[r].uid = req[r].uid /\ req'[r].src = req[r].src,
         req'[r].src \in 0 .. nextUid - 1,
         req'[r].at # "idle",
         req[r].at \in Wrote => req'[r].at \in Wrote /\ req'[r].uid = req[r].uid /\ req'[r].key = req[r].key
  PROVE  Numbered'
<1>0. /\ \A s \in Requests : req[s].uid \in Nat /\ req[s].src \in Nat
      /\ \A k \in DOMAIN row : row[k].uid \in Nat
      /\ nextUid \in Nat /\ NoUid = 0
  BY Shapes DEF NoUid
<1>a. /\ \A s \in Requests : req[s].uid < nextUid /\ req[s].src < nextUid
      /\ \A k \in DOMAIN row : row[k].uid < nextUid
  BY DEF Numbered, Given
<1>b. req'[r].uid \in Nat /\ req'[r].uid < nextUid
  BY <1>0, <1>a
<1>c. \A s \in Requests : /\ req'[s].uid \in Nat /\ req'[s].uid < nextUid
                         /\ req'[s].src < nextUid
  BY <1>0, <1>a, <1>b
<1>d. \A k \in DOMAIN row' : row'[k].uid \in Nat /\ row'[k].uid < nextUid
  BY <1>0, <1>a
<1>e. \A s \in Requests : req'[s].src \in Int => req'[s].src < nextUid'
  BY <1>0, <1>c
<1>1. Given'
  BY <1>0, <1>c, <1>d, <1>e DEF Given
<1>2. Blank'
  BY DEF Numbered, Blank
<1>3. Own'
  <2> SUFFICES ASSUME NEW h \in Requests, req'[h].at \in Writing
               PROVE  /\ req'[h].uid # NoUid
                      /\ \A s \in Requests \ {h} : req'[s].uid # req'[h].uid
                      /\ \A k \in DOMAIN row' : row'[k].uid # req'[h].uid
    BY DEF Own
  <2>1. req[h].at \in Writing /\ req'[h].uid = req[h].uid
    OBVIOUS
  <2>2. /\ req[h].uid # NoUid
        /\ \A s \in Requests \ {h} : req[s].uid # req[h].uid
        /\ \A k \in DOMAIN row : row[k].uid # req[h].uid
    BY <2>1 DEF Numbered, Own
  <2> QED
    BY <2>1, <2>2
<1>4. RowsApart'
  BY DEF Numbered, RowsApart
<1>5. OfItsKey'
  BY DEF Numbered, OfItsKey, RowsApart
<1>6. Writer'
  BY DEF Numbered, Writer
<1>7. Apart'
  BY DEF Numbered, Apart
<1> QED
  BY <1>1, <1>2, <1>3, <1>4, <1>5, <1>6, <1>7 DEF Numbered

(* A message is appended. *)
LEMMA NumberedAppend ==
  ASSUME TypeOK, Numbered, NEW r \in Requests,
         \A s \in Requests \ {r} : req'[s] = req[s],
         nextUid' = nextUid + 1, DOMAIN box' = DOMAIN box \cup {nextUid}, row' = row,
         req'[r].uid = nextUid, req'[r].key = req[r].key, req'[r].src = req[r].src,
         req'[r].at \in Writing, req[r].at \notin Wrote
  PROVE  Numbered'
<1>0. /\ \A s \in Requests : req[s].uid \in Nat /\ req[s].src \in Nat
      /\ \A k \in DOMAIN row : row[k].uid \in Nat
      /\ \A u \in DOMAIN box : u \in Nat
      /\ nextUid \in Nat \ {0} /\ NoUid = 0
  BY Shapes DEF NoUid
<1>a. /\ \A s \in Requests : req[s].uid < nextUid /\ req[s].src < nextUid
      /\ \A k \in DOMAIN row : row[k].uid < nextUid
      /\ \A u \in DOMAIN box : u < nextUid
  BY DEF Numbered, Given
<1>1. Given'
  BY <1>0, <1>a DEF Given
<1>2. Blank'
  BY DEF Numbered, Blank, Writing
<1>3. Own'
  BY <1>0, <1>a DEF Numbered, Own
<1>4. RowsApart'
  BY DEF Numbered, RowsApart
<1>5. OfItsKey'
  BY <1>0, <1>a DEF Numbered, OfItsKey
<1>6. Writer'
  BY DEF Numbered, Writer
<1>7. Apart'
  BY <1>0, <1>a DEF Numbered, Apart
<1> QED
  BY <1>1, <1>2, <1>3, <1>4, <1>5, <1>6, <1>7 DEF Numbered

(* The UID of the message the request appended is written to its row. *)
LEMMA NumberedWrite ==
  ASSUME TypeOK, Numbered, NEW r \in Requests,
         \A s \in Requests \ {r} : req'[s] = req[s],
         nextUid' = nextUid, box' = box,
         \A j \in DOMAIN row' :
            \/ row'[j].uid = NoUid
            \/ j \in DOMAIN row /\ row'[j].uid = row[j].uid
            \/ j = req[r].key /\ row'[j].uid = req[r].uid,
         req'[r].uid = req[r].uid, req'[r].key = req[r].key, req'[r].src = req[r].src,
         req[r].at \in Writing, req'[r].at \in Wrote,
         req'[r].at = "source" => req[r].at = "publish"
  PROVE  Numbered'
<1>0. /\ \A s \in Requests : req[s].uid < nextUid /\ req[s].src < nextUid
      /\ \A k \in DOMAIN row : row[k].uid < nextUid
      /\ \A u \in DOMAIN box : u < nextUid
      /\ nextUid \in Nat \ {0} /\ NoUid = 0
  BY Shapes DEF Numbered, Given, NoUid
<1>1. Given'
  BY <1>0 DEF Given
<1>2. Blank'
  BY DEF Numbered, Blank, Wrote
<1>a. /\ \A s \in Requests \ {r} : req[s].uid # req[r].uid
      /\ \A k \in DOMAIN row : row[k].uid # req[r].uid
  BY DEF Numbered, Own
<1>3. Own'
  <2> SUFFICES ASSUME NEW h \in Requests, req'[h].at \in Writing
               PROVE  /\ req'[h].uid # NoUid
                      /\ \A s \in Requests \ {h} : req'[s].uid # req'[h].uid
                      /\ \A k \in DOMAIN row' : row'[k].uid # req'[h].uid
    BY DEF Own
  <2>1. h # r
    BY DEF Writing, Wrote
  <2>2. /\ req[h].uid # NoUid /\ req'[h] = req[h]
        /\ \A s \in Requests \ {h} : req[s].uid # req[h].uid
        /\ \A k \in DOMAIN row : row[k].uid # req[h].uid
    BY <2>1 DEF Numbered, Own
  <2> QED
    BY <2>1, <2>2
<1>4. RowsApart'
  BY <1>a DEF Numbered, RowsApart
<1>5. OfItsKey'
  BY <1>a DEF Numbered, OfItsKey
<1>6. Writer'
  BY DEF Numbered, Writer, Wrote, Writing
<1>7. Apart'
  BY DEF Numbered, Apart, Wrote
<1> QED
  BY <1>1, <1>2, <1>3, <1>4, <1>5, <1>6, <1>7 DEF Numbered

LEMMA NumberedGo ==
  ASSUME TypeOK, Numbered, NEW r \in Requests, NEW step, Go(r, step), step # "idle",
         nextUid' \in Nat, nextUid <= nextUid', \A u \in DOMAIN box' : u < nextUid',
         \A k \in DOMAIN row' : row'[k].uid = NoUid \/ (k \in DOMAIN row /\ row'[k].uid = row[k].uid),
         step \in Writing => req[r].at \in Writing,
         step \in {"insert", "publish", "source"} => req[r].at \in {"insert", "publish", "source"},
         req[r].at \in Wrote => step \in Wrote
  PROVE  Numbered'
<1>1. /\ \A s \in Requests \ {r} : req'[s] = req[s]
      /\ req'[r].at = step /\ req'[r].key = req[r].key
      /\ req'[r].uid = req[r].uid /\ req'[r].src = req[r].src
  BY Goes
<1>2. req[r].src \in 0 .. nextUid - 1
  BY Shapes DEF Numbered, Given
<1> QED
  BY <1>1, <1>2, NumberedQuiet

LEMMA NumberedStep ==
  ASSUME TypeOK, Numbered, [Next]_vars
  PROVE  Numbered'
<1>0. /\ \A s \in Requests : req[s].src \in 0 .. nextUid - 1
      /\ \A u \in DOMAIN box : u \in Nat /\ u < nextUid
      /\ nextUid \in Nat \ {0}
  BY Shapes DEF Numbered, Given
<1>1. ASSUME NEW r \in Requests,
             WaitForUnlock(r) \/ WaitTimesOut(r) \/ LockExisting(r) \/ Unlock(r) \/ Retry(r) \/ Deliver(r)
             \/ Die(r)
      PROVE  Numbered'
  <2>1. /\ box' = box /\ nextUid' = nextUid
        /\ row' = row \/ row' = [row EXCEPT ![req[r].key].locked = TRUE]
                      \/ row' = [row EXCEPT ![req[r].key].locked = FALSE]
    BY <1>1, SMTT(20) DEF WaitForUnlock, WaitTimesOut, LockExisting, Unlock, Retry, Deliver, Die
  <2>2. \A k \in DOMAIN row' : k \in DOMAIN row /\ row'[k].uid = row[k].uid
    BY <2>1, Shapes
  <2>3. \E step : /\ Go(r, step)
                  /\ step \in {"lock", "failed", "load", "attach", "cleanup", "dead"}
                  /\ req[r].at \in Wrote => step \in Wrote
    BY <1>1, SMTT(20) DEF WaitForUnlock, WaitTimesOut, LockExisting, Unlock, Retry, Deliver, Die, At, Wrote
  <2> QED
    BY <1>0, <2>1, <2>2, <2>3, NumberedGo DEF Writing
<1>2. ASSUME NEW r \in Requests, DropOld(r) \/ DeleteSource(r) \/ Expunge(r)
      PROVE  Numbered'
  <2>1. /\ row' = row /\ nextUid' = nextUid /\ DOMAIN box' \subseteq DOMAIN box
    BY <1>2 DEF DropOld, DeleteSource, Expunge, Without
  <2>2. \E step : /\ Go(r, step)
                  /\ step \in {"append", "done", "row"}
                  /\ req[r].at \in Wrote => step \in Wrote
    BY <1>2 DEF DropOld, DeleteSource, Expunge, At, Wrote
  <2> QED
    BY <1>0, <2>1, <2>2, NumberedGo DEF Writing
<1>3. ASSUME NEW r \in Requests, AppendFails(r)
      PROVE  Numbered'
  <2>1. /\ row' = row /\ Go(r, "unlock") /\ req[r].at = "append"
        /\ \/ nextUid' = nextUid /\ box' = box
           \/ nextUid' = nextUid + 1 /\ DOMAIN box' = DOMAIN box \cup {nextUid}
    BY <1>3 DEF AppendFails, At, With
  <2>2. nextUid' \in Nat /\ nextUid <= nextUid' /\ \A u \in DOMAIN box' : u < nextUid'
    BY <1>0, <2>1
  <2> QED
    BY <2>1, <2>2, NumberedGo DEF Writing, Wrote
<1>4. ASSUME NEW r \in Requests, Load(r)
      PROVE  Numbered'
  <2>1. /\ box' = box /\ row' = row /\ nextUid' = nextUid
        /\ \A s \in Requests \ {r} : req'[s] = req[s]
    BY <1>4, Others DEF Load, Step
  <2>2. /\ req'[r].at \in {"unlock", "append", "drop"} /\ req[r].at = "load"
        /\ req'[r].uid = req[r].uid /\ req'[r].key = req[r].key /\ req'[r].src = req[r].src
    BY <1>4, LoadDoes, Goes
  <2> QED
    BY <1>0, <2>1, <2>2, NumberedQuiet DEF Writing, Wrote
<1>5. ASSUME NEW r \in Requests, Append(r)
      PROVE  Numbered'
  <2>1. /\ row' = row /\ nextUid' = nextUid + 1 /\ DOMAIN box' = DOMAIN box \cup {nextUid}
        /\ \A s \in Requests \ {r} : req'[s] = req[s]
    BY <1>5, Others DEF Append, Step, With
  <2> QED
    BY <1>5, <2>1, AppendDoes, NumberedAppend DEF Writing, Wrote
<1>6. ASSUME NEW r \in Requests, Copy(r)
      PROVE  Numbered'
  <2>1. row' = row /\ \A s \in Requests \ {r} : req'[s] = req[s]
    BY <1>6, Others DEF Copy, Step
  <2>2. req[r].at = "copy"
    BY <1>6, CopyDoes
  <2>3. CASE Go(r, "failed") /\ UNCHANGED <<box, nextUid>>
    BY <1>0, <2>1, <2>2, <2>3, NumberedGo DEF Writing, Wrote
  <2>4. CASE /\ req'[r].at = "insert" /\ req'[r].uid = nextUid
             /\ req'[r].key = req[r].key /\ req'[r].src = req[r].src
             /\ box' = With(box, nextUid, req'[r].body) /\ nextUid' = nextUid + 1
    <3>1. DOMAIN box' = DOMAIN box \cup {nextUid}
      BY <2>4 DEF With
    <3> QED
      BY <2>1, <2>2, <2>4, <3>1, NumberedAppend DEF Writing, Wrote
  <2> QED
    BY <1>6, <2>3, <2>4, CopyDoes
<1>7. ASSUME NEW r \in Requests, Release(r)
      PROVE  Numbered'
  <2>1. req[r].at = "release" /\ box' = box /\ nextUid' = nextUid
    BY <1>7 DEF Release, At
  <2>2. CASE ~Known(r)
    <3>1. row' = row /\ Go(r, "unlock")
      BY <1>7, <2>2 DEF Release
    <3> QED
      BY <1>0, <2>1, <3>1, NumberedGo DEF Writing, Wrote
  <2>3. CASE Known(r)
    <3>1. /\ row' = [row EXCEPT ![req[r].key] = [uid |-> req[r].uid, locked |-> FALSE]]
          /\ \E step \in {"row", "done"} : Go(r, step)
      BY <1>7, <2>3 DEF Release
    <3>2. \A j \in DOMAIN row' : \/ j \in DOMAIN row /\ row'[j].uid = row[j].uid
                                 \/ j = req[r].key /\ row'[j].uid = req[r].uid
      BY <3>1
    <3> QED
      BY <2>1, <3>1, <3>2, Goes, NumberedWrite DEF Writing, Wrote
  <2> QED
    BY <2>2, <2>3
<1>8. ASSUME NEW r \in Requests, Insert(r) \/ Publish(r)
      PROVE  Numbered'
  <2>1. req[r].at \in {"insert", "publish"} /\ box' = box /\ nextUid' = nextUid
    BY <1>8 DEF Insert, Publish, At
  <2>2. CASE row' = With(row, req[r].key, [uid |-> NoUid, locked |-> TRUE]) /\ Go(r, "publish")
    <3>1. \A k \in DOMAIN row' : row'[k].uid = NoUid \/ (k \in DOMAIN row /\ row'[k].uid = row[k].uid)
      BY <2>2 DEF With
    <3>2. nextUid' \in Nat /\ nextUid <= nextUid' /\ \A u \in DOMAIN box' : u < nextUid'
      BY <1>0, <2>1
    <3>3. req[r].at \in Writing /\ req[r].at \notin Wrote
      BY <2>1 DEF Writing, Wrote
    <3> QED
      BY <2>1, <2>2, <3>1, <3>2, <3>3, NumberedGo
  <2>3. CASE /\ \/ row' = With(row, req[r].key, [uid |-> req[r].uid, locked |-> FALSE])
                \/ row' = [row EXCEPT ![req[r].key] = [uid |-> req[r].uid, locked |-> FALSE]]
             /\ Go(r, "done") \/ (req[r].at = "publish" /\ Go(r, "source"))
    <3>1. \A j \in DOMAIN row' : \/ j \in DOMAIN row /\ row'[j].uid = row[j].uid
                                 \/ j = req[r].key /\ row'[j].uid = req[r].uid
      BY <2>3 DEF With
    <3> QED
      BY <2>1, <2>3, <3>1, Goes, NumberedWrite DEF Writing, Wrote
  <2> QED
    BY <1>8, <2>2, <2>3 DEF Insert, Publish, At
<1>9. ASSUME NEW r \in Requests, AttachRow(r) \/ Cleanup(r)
      PROVE  Numbered'
  <2>1. /\ box' = box /\ row' = row /\ nextUid' = nextUid
        /\ req[r].at \in {"attach", "cleanup"}
        /\ \A s \in Requests \ {r} : req'[s] = req[s]
    BY <1>9, Others DEF AttachRow, Cleanup, Step, At
  <2>2. CASE Go(r, "deliver") \/ Go(r, "done")
    BY <1>0, <2>1, <2>2, NumberedGo DEF Writing, Wrote
  <2>3. CASE /\ req[r].key \in DOMAIN row
             /\ req'[r].at \in {"fetch", "expunge"} /\ req'[r].uid = row[req[r].key].uid
             /\ req'[r].key = req[r].key /\ req'[r].src = req[r].src
    BY <1>0, <2>1, <2>3, NumberedQuiet DEF Writing, Wrote
  <2> QED
    BY <1>9, <2>2, <2>3, ReadsDoes
<1>10. ASSUME NEW r \in Requests, AttachFetch(r)
       PROVE  Numbered'
  <2>1. /\ box' = box /\ row' = row /\ nextUid' = nextUid
        /\ \A s \in Requests \ {r} : req'[s] = req[s]
    BY <1>10, Others DEF AttachFetch, Step
  <2> QED
    BY <1>0, <1>10, <2>1, FetchDoes, NumberedQuiet DEF Writing, Wrote
<1>11. ASSUME NEW r \in Requests, DeleteRow(r)
       PROVE  Numbered'
  <2>1. /\ box' = box /\ nextUid' = nextUid /\ req[r].at = "row"
        /\ \E step \in {"done", "failed"} : Go(r, step)
        /\ \A k \in DOMAIN row' : k \in DOMAIN row /\ row'[k] = row[k]
    BY <1>11 DEF DeleteRow, At, Without
  <2> QED
    BY <1>0, <2>1, NumberedGo DEF Writing, Wrote
<1>12. ASSUME NEW r \in Requests, NEW op \in Ops, NEW k \in Keys, AcquireNew(r, op, k)
       PROVE  Numbered'
  <2>1. /\ box' = box /\ nextUid' = nextUid
        /\ req[r].at = "idle" /\ req'[r].at = "load" /\ req'[r].uid = NoUid /\ req'[r].src = req[r].src
    BY <1>12, StartDoes DEF AcquireNew
  <2>2. \A j \in DOMAIN row' : row'[j].uid = NoUid \/ (j \in DOMAIN row /\ row'[j].uid = row[j].uid)
    BY <1>12 DEF AcquireNew, With
  <2>3. req[r].uid = NoUid
    BY <2>1 DEF Numbered, Blank
  <2>4. \A s \in Requests \ {r} : req'[s] = req[s]
    BY <1>12, Others
  <2> QED
    BY <1>0, <2>1, <2>2, <2>3, <2>4, NumberedQuiet DEF Writing, Wrote
<1>13. ASSUME NEW r \in Requests, NEW op \in Ops, NEW k \in Keys,
              \/ Look(r, op, k)
              \/ \E files \in {{}} \cup {{s} : s \in Requests} : Acquire(r, op, k, files)
       PROVE  Numbered'
  <2>1. \E step \in {"lock", "wait", "failed", "retry", "attach", "row", "expunge"} : \E files :
           Start(r, op, k, step, row[k].uid, files)
    BY <1>13, Zenon DEF Look, Acquire
  <2>2. box' = box /\ row' = row /\ nextUid' = nextUid /\ k \in DOMAIN row
    BY <1>13 DEF Look, Acquire
  <2>3. \A s \in Requests \ {r} : req'[s] = req[s]
    BY <1>13, Others
  <2>4. /\ req[r].at = "idle" /\ req'[r].key = k /\ req'[r].uid = row[k].uid /\ req'[r].src = req[r].src
        /\ req'[r].at \in {"lock", "wait", "failed", "retry", "attach", "row", "expunge"}
    BY <2>1, StartDoes
  <2> QED
    BY <1>0, <2>2, <2>3, <2>4, NumberedQuiet DEF Writing, Wrote
<1>14. ASSUME NEW r \in Requests, NEW op \in Ops, NEW k \in Keys, NEW u \in DOMAIN box \cup {NoUid},
              Compose(r, op, k, u)
       PROVE  Numbered'
  <2>1. /\ req[r].at = "idle" /\ req'[r].at = "copy" /\ req'[r].src = u /\ req'[r].uid = req[r].uid
    BY <1>14, ComposeDoes
  <2>2. box' = box /\ row' = row /\ nextUid' = nextUid
    BY <1>14 DEF Compose
  <2>3. u \in 0 .. nextUid - 1
    BY <1>0 DEF NoUid
  <2>4. req[r].uid = NoUid
    BY <2>1 DEF Numbered, Blank
  <2>5. \A s \in Requests \ {r} : req'[s] = req[s]
    BY <1>14, Others
  <2> QED
    BY <1>0, <2>1, <2>2, <2>3, <2>4, <2>5, NumberedQuiet DEF Writing, Wrote
<1>15. CASE UNCHANGED vars
  BY <1>15 DEF vars, Numbered, Given, Blank, Own, RowsApart, OfItsKey, Writer, Apart
<1> QED
  BY <1>1, <1>2, <1>3, <1>4, <1>5, <1>6, <1>7, <1>8, <1>9, <1>10, <1>11, <1>12, <1>13, <1>14, <1>15
  DEF Next, Step

-----------------------------------------------------------------------------
(* What a step may do to the rows, to what was acknowledged, and to the    *)
(* requests, whichever step it is.                                         *)

Live(r) == req[r].at # "idle"

(* A request that began keeps what it was asked; one that begins has a key *)
(* that is new or that has a row.                                          *)
LEMMA Begins ==
  ASSUME TypeOK, [Next]_vars, NEW s \in Requests
  PROVE  /\ Live(s) => Live(s)' /\ req'[s].op = req[s].op /\ req'[s].key = req[s].key
         /\ ~Live(s) /\ Live(s)' => req'[s].key \notin Used \/ req'[s].key \in DOMAIN row
         /\ req'[s].at \in {"copy", "insert"} =>
               req[s].at \in {"copy", "insert"} \/ (~Live(s) /\ req'[s].key \notin Used)
<1>1. ASSUME NEW r \in Requests,
             WaitForUnlock(r) \/ WaitTimesOut(r) \/ LockExisting(r) \/ DropOld(r) \/ AppendFails(r) \/
             Unlock(r) \/ Release(r) \/ Insert(r) \/ Publish(r) \/ DeleteSource(r) \/ Retry(r) \/
             Deliver(r) \/ Expunge(r) \/ DeleteRow(r) \/ Die(r)
      PROVE  /\ Live(r) /\ req'[r].op = req[r].op /\ req'[r].key = req[r].key
             /\ req'[r].at \notin {"idle", "copy", "insert"}
  <2>1. \E step \in {"lock", "failed", "load", "append", "unlock", "row", "done", "publish", "source",
                     "attach", "cleanup", "dead"} : Go(r, step)
    BY <1>1, Zenon DEF WaitForUnlock, WaitTimesOut, LockExisting, DropOld, AppendFails, Unlock, Release,
      Insert, Publish, DeleteSource, Retry, Deliver, Expunge, DeleteRow, Die
  <2>2. Live(r)
    BY <1>1 DEF WaitForUnlock, WaitTimesOut, LockExisting, DropOld, AppendFails, Unlock, Release,
      Insert, Publish, DeleteSource, Retry, Deliver, Expunge, DeleteRow, Die, At, Live
  <2> QED
    BY <2>1, <2>2, Goes
<1>2. ASSUME NEW r \in Requests,
             Load(r) \/ Append(r) \/ AttachRow(r) \/ AttachFetch(r) \/ Cleanup(r)
      PROVE  /\ Live(r) /\ req'[r].op = req[r].op /\ req'[r].key = req[r].key
             /\ req'[r].at \notin {"idle", "copy", "insert"}
  <2>1. Live(r)
    BY <1>2 DEF Load, Append, AttachRow, AttachFetch, Cleanup, At, Live
  <2> QED
    BY <1>2, <2>1, LoadDoes, AppendDoes, ReadsDoes, FetchDoes, Goes
<1>3. ASSUME NEW r \in Requests, Copy(r)
      PROVE  /\ req[r].at = "copy" /\ req'[r].op = req[r].op /\ req'[r].key = req[r].key
             /\ req'[r].at # "idle"
  BY <1>3, CopyDoes, Goes
<1>4. ASSUME NEW r \in Requests, NEW op \in Ops, NEW k \in Keys,
             \/ AcquireNew(r, op, k) \/ Look(r, op, k)
             \/ \E files \in {{}} \cup {{t} : t \in Requests} : Acquire(r, op, k, files)
             \/ \E u \in DOMAIN box \cup {NoUid} : Compose(r, op, k, u)
      PROVE  /\ ~Live(r) /\ (req'[r].key \notin Used \/ req'[r].key \in DOMAIN row)
             /\ req'[r].at = "copy" => req'[r].key \notin Used
             /\ req'[r].at # "insert"
  <2>1. CASE AcquireNew(r, op, k)
    BY <2>1, StartDoes DEF AcquireNew, Fresh, Live
  <2>2. CASE Look(r, op, k) \/ \E files \in {{}} \cup {{t} : t \in Requests} : Acquire(r, op, k, files)
    <3>1. \E step \in {"lock", "wait", "failed", "retry", "attach", "row", "expunge"} : \E files :
             Start(r, op, k, step, row[k].uid, files)
      BY <2>2, Zenon DEF Look, Acquire
    <3>2. k \in DOMAIN row
      BY <2>2 DEF Look, Acquire
    <3> QED
      BY <3>1, <3>2, StartDoes DEF Live
  <2>3. ASSUME NEW u \in DOMAIN box \cup {NoUid}, Compose(r, op, k, u)
        PROVE  /\ ~Live(r) /\ req'[r].key \notin Used /\ req'[r].at = "copy"
    <3>1. k \notin Used
      BY <2>3 DEF Compose, Fresh
    <3>2. req[r].at = "idle" /\ req'[r].at = "copy" /\ req'[r].key = k
      BY <2>3, ComposeDoes
    <3> QED
      BY <3>1, <3>2 DEF Live
  <2> QED
    BY <1>4, <2>1, <2>2, <2>3
<1>5. CASE UNCHANGED vars
  BY <1>5 DEF vars, Live
<1>6. ASSUME NEW r \in Requests, Step(r) \/ Die(r)
      PROVE  /\ Live(s) => Live(s)' /\ req'[s].op = req[s].op /\ req'[s].key = req[s].key
             /\ ~Live(s) /\ Live(s)' => req'[s].key \notin Used \/ req'[s].key \in DOMAIN row
             /\ req'[s].at \in {"copy", "insert"} =>
                   req[s].at \in {"copy", "insert"} \/ (~Live(s) /\ req'[s].key \notin Used)
  <2>1. CASE s = r
    BY <1>6, <2>1, <1>1, <1>2, <1>3 DEF Step, Live
  <2>2. CASE s # r
    BY <1>6, <2>2, Others DEF Live
  <2> QED
    BY <2>1, <2>2
<1>7. ASSUME NEW r \in Requests, NEW op \in Ops, NEW k \in Keys,
             \/ AcquireNew(r, op, k) \/ Look(r, op, k)
             \/ \E files \in {{}} \cup {{t} : t \in Requests} : Acquire(r, op, k, files)
             \/ \E u \in DOMAIN box \cup {NoUid} : Compose(r, op, k, u)
      PROVE  /\ Live(s) => Live(s)' /\ req'[s].op = req[s].op /\ req'[s].key = req[s].key
             /\ ~Live(s) /\ Live(s)' => req'[s].key \notin Used \/ req'[s].key \in DOMAIN row
             /\ req'[s].at \in {"copy", "insert"} =>
                   req[s].at \in {"copy", "insert"} \/ (~Live(s) /\ req'[s].key \notin Used)
  <2>1. CASE s = r
    BY <1>7, <2>1, <1>4
  <2>2. CASE s # r
    BY <1>7, <2>2, Others DEF Live
  <2> QED
    BY <2>1, <2>2
<1> QED
  BY <1>5, <1>6, <1>7 DEF Next

(* Only one request begins at a time. *)
LEMMA OneBegins ==
  ASSUME TypeOK, [Next]_vars, NEW s \in Requests, NEW t \in Requests,
         ~Live(s) /\ Live(s)', ~Live(t) /\ Live(t)'
  PROVE  s = t
<1>1. CASE UNCHANGED vars
  BY <1>1 DEF vars, Live
<1>2. CASE \E r \in Requests : \A q \in Requests \ {r} : req'[q] = req[q]
  BY <1>2 DEF Live
<1>3. Next => \E r \in Requests : \A q \in Requests \ {r} : req'[q] = req[q]
  BY Others DEF Next
<1> QED
  BY <1>1, <1>2, <1>3

LEMMA RowChange ==
  ASSUME TypeOK, [Next]_vars, NEW k \in DOMAIN row'
  PROVE  \/ k \in DOMAIN row /\ row'[k].uid = row[k].uid
         \/ /\ k \notin Used /\ row'[k].uid = NoUid
            /\ \E r \in Requests : req'[r].at = "load" /\ req'[r].key = k
         \/ \E r \in Requests : /\ req[r].key = k /\ req[r].at = "insert"
                                /\ req'[r].at \in {"done", "publish"}
                                /\ row'[k].uid \in {NoUid, req[r].uid}
         \/ \E r \in Requests : /\ req[r].key = k /\ req[r].at \in {"release", "publish"}
                                /\ k \in DOMAIN row /\ row'[k].uid = req[r].uid
<1>1. ASSUME NEW r \in Requests, LockExisting(r) \/ Unlock(r)
      PROVE  k \in DOMAIN row /\ row'[k].uid = row[k].uid
  <2>1. row' = row \/ row' = [row EXCEPT ![req[r].key].locked = TRUE]
                   \/ row' = [row EXCEPT ![req[r].key].locked = FALSE]
    BY <1>1 DEF LockExisting, Unlock
  <2> QED
    BY <2>1, Shapes
<1>2. ASSUME NEW r \in Requests, Release(r) \/ Publish(r)
      PROVE  \/ k \in DOMAIN row /\ row'[k].uid = row[k].uid
             \/ /\ req[r].key = k /\ req[r].at \in {"release", "publish"}
                /\ k \in DOMAIN row /\ row'[k].uid = req[r].uid
  <2>1. /\ row' = row \/ row' = [row EXCEPT ![req[r].key] = [uid |-> req[r].uid, locked |-> FALSE]]
        /\ req[r].at \in {"release", "publish"}
    BY <1>2 DEF Release, Publish, At
  <2> QED
    BY <2>1
<1>3. ASSUME NEW r \in Requests, Insert(r)
      PROVE  \/ k \in DOMAIN row /\ row'[k].uid = row[k].uid
             \/ /\ req[r].key = k /\ req[r].at = "insert" /\ req'[r].at \in {"done", "publish"}
                /\ row'[k].uid \in {NoUid, req[r].uid}
  <2>1. req'[r].at \in {"done", "publish"}
    BY <1>3, Goes DEF Insert
  <2> QED
    BY <1>3, <2>1 DEF Insert, At, With
<1>4. ASSUME NEW r \in Requests, DeleteRow(r)
      PROVE  k \in DOMAIN row /\ row'[k].uid = row[k].uid
  BY <1>4 DEF DeleteRow, Without
<1>5. ASSUME NEW r \in Requests, NEW op \in Ops, NEW j \in Keys, AcquireNew(r, op, j)
      PROVE  \/ k \in DOMAIN row /\ row'[k].uid = row[k].uid
             \/ k \notin Used /\ row'[k].uid = NoUid /\ req'[r].at = "load" /\ req'[r].key = k
  <2>1. j \notin Used /\ req'[r].at = "load" /\ req'[r].key = j
    BY <1>5, StartDoes DEF AcquireNew, Fresh
  <2> QED
    BY <1>5, <2>1 DEF AcquireNew, With
<1>6. ASSUME NEW r \in Requests,
             WaitForUnlock(r) \/ WaitTimesOut(r) \/ Load(r) \/ DropOld(r) \/ Append(r) \/ AppendFails(r) \/
             Copy(r) \/ DeleteSource(r) \/ Retry(r) \/ AttachRow(r) \/ AttachFetch(r) \/ Deliver(r) \/
             Cleanup(r) \/ Expunge(r) \/ Die(r)
      PROVE  UNCHANGED row
  BY <1>6, Zenon DEF WaitForUnlock, WaitTimesOut, Load, DropOld, Append, AppendFails, Copy, DeleteSource,
     Retry, AttachRow, AttachFetch, Deliver, Cleanup, Expunge, Die
<1>7. ASSUME NEW r \in Requests, NEW op \in Ops, NEW j \in Keys,
             \/ Look(r, op, j)
             \/ \E files \in {{}} \cup {{s} : s \in Requests} : Acquire(r, op, j, files)
             \/ \E u \in DOMAIN box \cup {NoUid} : Compose(r, op, j, u)
      PROVE  UNCHANGED row
  BY <1>7, Zenon DEF Look, Acquire, Compose
<1>8. CASE UNCHANGED vars
  BY <1>8 DEF vars
<1> QED
  BY <1>1, <1>2, <1>3, <1>4, <1>5, <1>6, <1>7, <1>8 DEF Next, Step

LEMMA AckedChange ==
  ASSUME TypeOK, [Next]_vars, NEW k \in Keys
  PROVE  \/ acked'[k] \subseteq acked[k]
         \/ \E r \in Requests : /\ req[r].key = k /\ req[r].at \in {"release", "publish"}
                                /\ acked'[k] \subseteq acked[k] \cup {r} \cup req[r].body
                                /\ k \in DOMAIN row' => row'[k].uid = req[r].uid
<1>0. DOMAIN acked = Keys
  BY Shapes
<1>1. ASSUME NEW r \in Requests, Release(r)
      PROVE  \/ acked'[k] \subseteq acked[k]
             \/ /\ req[r].key = k /\ req[r].at \in {"release", "publish"}
                /\ acked'[k] \subseteq acked[k] \cup {r} \cup req[r].body
                /\ k \in DOMAIN row' => row'[k].uid = req[r].uid
  <2> DEFINE S == IF req[r].op = "unattach" THEN acked[k] ELSE Edited(r, acked[k])
  <2>1. S \subseteq acked[k] \cup {r}
    BY DEF Edited
  <2>2. acked' = acked \/ acked' = [acked EXCEPT ![req[r].key] =
                                      IF req[r].op = "unattach" THEN @ ELSE Edited(r, @)]
    BY <1>1 DEF Release
  <2>3. req[r].key # k => acked'[k] = acked[k]
    BY <1>0, <2>2
  <2>4. req[r].key = k => acked'[k] \in {acked[k], S}
    BY <1>0, <2>2
  <2>5. /\ req[r].at = "release"
        /\ acked' = acked \/ row' = [row EXCEPT ![req[r].key] = [uid |-> req[r].uid, locked |-> FALSE]]
    BY <1>1 DEF Release, At
  <2> HIDE DEF S
  <2> QED
    BY <2>1, <2>3, <2>4, <2>5
<1>2. ASSUME NEW r \in Requests, Publish(r)
      PROVE  \/ acked'[k] \subseteq acked[k]
             \/ /\ req[r].key = k /\ req[r].at \in {"release", "publish"}
                /\ acked'[k] \subseteq acked[k] \cup {r} \cup req[r].body
                /\ k \in DOMAIN row' => row'[k].uid = req[r].uid
  BY <1>0, <1>2 DEF Publish, At
<1>3. ASSUME NEW r \in Requests, NEW op \in Ops, NEW j \in Keys, NEW files, Acquire(r, op, j, files)
      PROVE  acked'[k] \subseteq acked[k]
  BY <1>0, <1>3 DEF Acquire
<1>4. ASSUME NEW r \in Requests,
             WaitForUnlock(r) \/ WaitTimesOut(r) \/ LockExisting(r) \/ Load(r) \/ DropOld(r) \/ Append(r) \/
             AppendFails(r) \/ Unlock(r) \/ Copy(r) \/ Insert(r) \/ DeleteSource(r) \/ Retry(r) \/
             AttachRow(r) \/ AttachFetch(r) \/ Deliver(r) \/ Cleanup(r) \/ Expunge(r) \/ DeleteRow(r) \/
             Die(r)
      PROVE  UNCHANGED acked
  BY <1>4, Zenon DEF WaitForUnlock, WaitTimesOut, LockExisting, Load, DropOld, Append, AppendFails, Unlock,
     Copy, Insert, DeleteSource, Retry, AttachRow, AttachFetch, Deliver, Cleanup, Expunge, DeleteRow, Die
<1>5. ASSUME NEW r \in Requests, NEW op \in Ops, NEW j \in Keys,
             \/ AcquireNew(r, op, j) \/ Look(r, op, j)
             \/ \E u \in DOMAIN box \cup {NoUid} : Compose(r, op, j, u)
      PROVE  UNCHANGED acked
  BY <1>5, Zenon DEF AcquireNew, Look, Compose
<1>6. CASE UNCHANGED vars
  BY <1>6 DEF vars
<1> QED
  BY <1>1, <1>2, <1>3, <1>4, <1>5, <1>6 DEF Next, Step

LEMMA ContentChange ==
  ASSUME TypeOK, [Next]_vars
  PROVE  /\ \A u \in DOMAIN box' :
               \/ u \in DOMAIN box /\ box'[u] = box[u]
               \/ box'[u] = {} \/ (\E v \in DOMAIN box : box'[u] = box[v])
               \/ \E r \in Requests : box'[u] = req[r].body
         /\ \A s \in Requests :
               \/ req'[s].body \subseteq req[s].body
               \/ Live(s) /\ req'[s].body \subseteq {s}
               \/ Live(s) /\ \E v \in DOMAIN box : req'[s].body \subseteq box[v] \cup {s}
<1> DEFINE Box == \A u \in DOMAIN box' :
                     \/ u \in DOMAIN box /\ box'[u] = box[u]
                     \/ box'[u] = {} \/ (\E v \in DOMAIN box : box'[u] = box[v])
                     \/ \E r \in Requests : box'[u] = req[r].body
           Body(s) == \/ req'[s].body \subseteq req[s].body
                      \/ Live(s) /\ req'[s].body \subseteq {s}
                      \/ Live(s) /\ \E v \in DOMAIN box : req'[s].body \subseteq box[v] \cup {s}
<1>1. ASSUME NEW r \in Requests,
             DropOld(r) \/ DeleteSource(r) \/ Expunge(r)
      PROVE  Box
  BY <1>1 DEF DropOld, DeleteSource, Expunge, Without
<1>2. ASSUME NEW r \in Requests, Append(r) \/ AppendFails(r) PROVE Box
  BY <1>2 DEF Append, AppendFails, With
<1>3. ASSUME NEW r \in Requests, Copy(r) PROVE Box
  <2>1. \/ box' = box
        \/ \E body : /\ box' = With(box, nextUid, body)
                     /\ body = {} \/ \E v \in DOMAIN box : body = box[v]
    BY <1>3, CopyDoes
  <2> QED
    BY <2>1 DEF With
<1>4. ASSUME NEW r \in Requests,
             WaitForUnlock(r) \/ WaitTimesOut(r) \/ LockExisting(r) \/ Load(r) \/ Unlock(r) \/ Release(r) \/
             Insert(r) \/ Publish(r) \/ Retry(r) \/ AttachRow(r) \/ AttachFetch(r) \/ Deliver(r) \/
             Cleanup(r) \/ DeleteRow(r) \/ Die(r)
      PROVE  UNCHANGED box
  BY <1>4, Zenon DEF WaitForUnlock, WaitTimesOut, LockExisting, Load, Unlock, Release, Insert, Publish, Retry,
     AttachRow, AttachFetch, Deliver, Cleanup, DeleteRow, Die
<1>5. ASSUME NEW r \in Requests, NEW op \in Ops, NEW k \in Keys,
             \/ AcquireNew(r, op, k) \/ Look(r, op, k)
             \/ \E files \in {{}} \cup {{s} : s \in Requests} : Acquire(r, op, k, files)
             \/ \E u \in DOMAIN box \cup {NoUid} : Compose(r, op, k, u)
      PROVE  UNCHANGED box
  BY <1>5, Zenon DEF AcquireNew, Look, Acquire, Compose
<1>6. CASE UNCHANGED vars
  BY <1>6 DEF vars
<1>7. Box
  BY <1>1, <1>2, <1>3, <1>4, <1>5, <1>6 DEF Next, Step
<1>8. ASSUME NEW r \in Requests,
             WaitForUnlock(r) \/ WaitTimesOut(r) \/ LockExisting(r) \/ DropOld(r) \/ AppendFails(r) \/
             Unlock(r) \/ Release(r) \/ Insert(r) \/ Publish(r) \/ DeleteSource(r) \/ Retry(r) \/
             Deliver(r) \/ Expunge(r) \/ DeleteRow(r) \/ Die(r)
      PROVE  Body(r)
  <2>1. \E step : Go(r, step)
    BY <1>8, Zenon DEF WaitForUnlock, WaitTimesOut, LockExisting, DropOld, AppendFails, Unlock, Release,
      Insert, Publish, DeleteSource, Retry, Deliver, Expunge, DeleteRow, Die
  <2> QED
    BY <2>1, Goes
<1>9. ASSUME NEW r \in Requests, Append(r) \/ Copy(r) \/ AttachRow(r) \/ AttachFetch(r) \/ Cleanup(r)
      PROVE  Body(r)
  <2>1. \/ req'[r].body \subseteq req[r].body
        \/ req'[r].body = {}
        \/ \E v \in DOMAIN box : req'[r].body \subseteq box[v]
    BY <1>9, AppendDoes, CopyDoes, ReadsDoes, FetchDoes, Goes
  <2>2. Live(r)
    BY <1>9 DEF Append, Copy, AttachRow, AttachFetch, Cleanup, At, Live
  <2> QED
    BY <2>1, <2>2
<1>10. ASSUME NEW r \in Requests, Load(r) PROVE Body(r)
  <2> DEFINE u == req[r].uid
             body == IF u = NoUid THEN {} ELSE box[u]
  <2>1. Edited(r, body) \subseteq body \cup {r}
    BY DEF Edited
  <2>2. Live(r)
    BY <1>10, LoadDoes DEF Live
  <2>3. \/ Go(r, "unlock")
        \/ (u = NoUid \/ u \in DOMAIN box) /\ req'[r].body = Edited(r, body)
    BY <1>10, LoadDoes
  <2>4. CASE Go(r, "unlock")
    BY <2>4, Goes
  <2>5. CASE (u = NoUid \/ u \in DOMAIN box) /\ req'[r].body = Edited(r, body)
    BY <2>1, <2>2, <2>5
  <2> QED
    BY <2>3, <2>4, <2>5
<1>11. ASSUME NEW r \in Requests, NEW op \in Ops, NEW k \in Keys,
              \/ AcquireNew(r, op, k) \/ Look(r, op, k)
              \/ \E files \in {{}} \cup {{s} : s \in Requests} : Acquire(r, op, k, files)
              \/ \E u \in DOMAIN box \cup {NoUid} : Compose(r, op, k, u)
      PROVE  Body(r)
  <2>1. (\E step, uid, files : Start(r, op, k, step, uid, files)) \/ \E u : Compose(r, op, k, u)
    BY <1>11, Zenon DEF AcquireNew, Look, Acquire
  <2> QED
    BY <2>1, StartDoes, ComposeDoes
<1>12. \A s \in Requests : Body(s)
  <2>1. ASSUME NEW r \in Requests, Step(r) \/ Die(r) PROVE Body(r)
    BY <2>1, <1>8, <1>9, <1>10 DEF Step
  <2>2. CASE UNCHANGED vars
    BY <2>2 DEF vars
  <2> QED
    BY <2>1, <2>2, <1>11, Others DEF Next
<1> QED
  BY <1>7, <1>12

-----------------------------------------------------------------------------
(* Whose key a row has, and whose work a message holds.                    *)

(* Until its row is made, nobody else has the key of a new composition.    *)
Newborn ==
    \A r \in Requests : req[r].at \in {"copy", "insert"} =>
        /\ req[r].key \notin DOMAIN row /\ acked[req[r].key] = {}
        /\ \A s \in Requests \ {r} : Live(s) => req[s].key # req[r].key

Unused == \A k \in Keys : k \notin Used => k \notin DOMAIN row /\ acked[k] = {}

NothingYet == \A k \in DOMAIN row : row[k].uid = NoUid => acked[k] = {}

(* Messages hold the work of requests that began. *)
Begun ==
    /\ \A u \in DOMAIN box : \A s \in box[u] : Live(s)
    /\ \A r \in Requests : \A s \in req[r].body : Live(s)
    /\ \A k \in Keys : \A s \in acked[k] : Live(s)

Keyed == Newborn /\ Unused /\ NothingYet /\ Begun

LEMMA KeyedStep ==
  ASSUME TypeOK, TypeOK', Numbered, Keyed, [Next]_vars
  PROVE  Keyed'
<1>0. /\ \A r \in Requests : req[r].key \in Keys /\ req'[r].key \in Keys
      /\ DOMAIN row \subseteq Keys /\ DOMAIN row' \subseteq Keys
  BY Shapes DEF TypeOK, Request
<1>1. Unused'
  <2> SUFFICES ASSUME NEW k \in Keys, \A r \in Requests : Live(r)' => req'[r].key # k
               PROVE  k \notin DOMAIN row' /\ acked'[k] = {}
    BY DEF Unused, Used, Live
  <2>1. \A r \in Requests : Live(r) => req[r].key # k
    BY Begins
  <2>2. k \notin DOMAIN row /\ acked[k] = {}
    BY <2>1 DEF Keyed, Unused, Used, Live
  <2>3. k \notin DOMAIN row'
    BY <2>1, <2>2, RowChange DEF Live
  <2>4. acked'[k] = {}
    BY <2>1, <2>2, AckedChange DEF Live
  <2> QED
    BY <2>3, <2>4
<1>2. Newborn'
  <2> SUFFICES ASSUME NEW r \in Requests, req'[r].at \in {"copy", "insert"}
               PROVE  /\ req'[r].key \notin DOMAIN row' /\ acked'[req'[r].key] = {}
                      /\ \A s \in Requests \ {r} : Live(s)' => req'[s].key # req'[r].key
    BY DEF Newborn
  <2> DEFINE k == req'[r].key
  <2>1. /\ k \notin DOMAIN row /\ acked[k] = {}
        /\ \A s \in Requests \ {r} : Live(s) => req[s].key # k
        /\ Live(r)'
        /\ Live(r) => k = req[r].key /\ k \in Used /\ req[r].at \in {"copy", "insert"}
        /\ ~Live(r) => k \notin Used
    <3>1. CASE req[r].at \in {"copy", "insert"}
      BY <3>1, Begins DEF Keyed, Newborn, Live, Used
    <3>2. CASE ~Live(r) /\ k \notin Used
      BY <1>0, <3>2 DEF Keyed, Unused, Used, Live
    <3> QED
      BY <3>1, <3>2, Begins
  <2>2. \A s \in Requests \ {r} : Live(s)' => req'[s].key # k
    <3> SUFFICES ASSUME NEW s \in Requests \ {r}, Live(s)', req'[s].key = k PROVE FALSE
      OBVIOUS
    <3>1. ~Live(s)
      BY <2>1, Begins
    <3>2. k \notin Used
      BY <2>1, <3>1, Begins
    <3>3. ~Live(r)
      BY <2>1, <3>2
    <3> QED
      BY <2>1, <3>1, <3>3, OneBegins
  <2>3. k \notin DOMAIN row'
    <3> SUFFICES ASSUME k \in DOMAIN row' PROVE FALSE
      OBVIOUS
    <3>1. ASSUME NEW s \in Requests, req[s].key = k, req[s].at = "insert",
                 req'[s].at \in {"done", "publish"}
          PROVE  FALSE
      BY <2>1, <3>1 DEF Live
    <3>2. ASSUME k \notin Used, NEW s \in Requests, req'[s].at = "load", req'[s].key = k
          PROVE  FALSE
      BY <2>2, <3>2 DEF Live
    <3> QED
      BY <2>1, <3>1, <3>2, RowChange
  <2>4. acked'[k] = {}
    BY <1>0, <2>1, AckedChange DEF Live
  <2> QED
    BY <2>2, <2>3, <2>4
<1>3. NothingYet'
  <2> SUFFICES ASSUME NEW k \in DOMAIN row', row'[k].uid = NoUid
               PROVE  acked'[k] = {}
    BY DEF NothingYet
  <2>1. \A r \in Requests : req[r].at \in Writing => req[r].uid # NoUid
    BY DEF Numbered, Own
  <2>2. acked[k] = {}
    <3>1. CASE k \in DOMAIN row /\ row'[k].uid = row[k].uid
      BY <3>1 DEF Keyed, NothingYet
    <3>2. CASE k \notin Used
      BY <1>0, <3>2 DEF Keyed, Unused
    <3>3. CASE \E r \in Requests : req[r].key = k /\ req[r].at = "insert"
      BY <3>3 DEF Keyed, Newborn
    <3>4. CASE \E r \in Requests : req[r].at \in {"release", "publish"} /\ row'[k].uid = req[r].uid
      BY <2>1, <3>4 DEF Writing
    <3> QED
      BY <3>1, <3>2, <3>3, <3>4, RowChange
  <2>3. ASSUME NEW r \in Requests, req[r].at \in {"release", "publish"}, row'[k].uid = req[r].uid
        PROVE  FALSE
    BY <2>1, <2>3 DEF Writing
  <2> QED
    BY <1>0, <2>2, <2>3, AckedChange
<1>4. Begun'
  <2>1. \A s \in Requests : Live(s) => Live(s)'
    BY Begins
  <2>2. ASSUME NEW u \in DOMAIN box', NEW s \in box'[u] PROVE Live(s)'
    <3>1. s \in Requests
      BY DEF TypeOK
    <3>2. Live(s)
      BY ContentChange DEF Keyed, Begun
    <3> QED
      BY <2>1, <3>1, <3>2
  <2>3. ASSUME NEW r \in Requests, NEW s \in req'[r].body PROVE Live(s)'
    <3>1. s \in Requests
      BY DEF TypeOK, Request
    <3>2. Live(s)
      BY ContentChange DEF Keyed, Begun
    <3> QED
      BY <2>1, <3>1, <3>2
  <2>4. ASSUME NEW k \in Keys, NEW s \in acked'[k] PROVE Live(s)'
    <3>1. s \in Requests
      BY DEF TypeOK
    <3>2. Live(s)
      <4>1. CASE s \in acked[k]
        BY <4>1 DEF Keyed, Begun
      <4>2. ASSUME NEW r \in Requests, req[r].at \in {"release", "publish"}, s \in {r} \cup req[r].body
            PROVE  Live(s)
        BY <4>2 DEF Keyed, Begun, Live
      <4> QED
        BY <4>1, <4>2, AckedChange
    <3> QED
      BY <2>1, <3>1, <3>2
  <2> QED
    BY <2>2, <2>3, <2>4 DEF Begun, Live
<1> QED
  BY <1>1, <1>2, <1>3, <1>4 DEF Keyed

-----------------------------------------------------------------------------
(* What the messages hold, for a key of which nothing is to be excused.    *)

Good(k) == k \in DOMAIN row /\ Sound(k) /\ ~Removing(k)
Holds(r, k) == req[r].key = k /\ req[r].at \in Holders
Saved(k) == row[k].uid \in DOMAIN box /\ acked[k] \subseteq box[row[k].uid]

(* What a request at work has read of the row is still so, and what it is  *)
(* going to append holds everything that was acknowledged; an attachment   *)
(* it removes is no longer acknowledged, also while it waits to lock a row *)
(* that nobody has written since.                                          *)
Works(r, k) ==
    /\ req[r].at \in {"load", "drop"} => req[r].uid = row[k].uid
    /\ req[r].at = "load" /\ req[r].uid = NoUid => req[r].op # "unattach"
    /\ req[r].at = "unlock" => row[k].uid # NoUid
    /\ req[r].at \in {"drop", "append", "release"} => Edited(r, acked[k]) \subseteq req[r].body
    /\ /\ req[r].op = "unattach"
       /\ \/ req[r].at \in {"load", "drop", "append", "release"}
          \/ req[r].at = "lock" /\ req[r].uid = row[k].uid
       => acked[k] \cap req[r].files = {}

(* A locked row has one holder, a free row a message; while the holder has *)
(* not dropped the old message, it holds what was acknowledged.            *)
Content(k) ==
    Good(k) =>
      /\ ~row[k].locked => row[k].uid # NoUid
      /\ \A r \in Requests : Holds(r, k) =>
            row[k].locked /\ \A s \in Requests : Holds(s, k) => s = r
      /\ /\ row[k].uid # NoUid
         /\ \A r \in Requests : req[r].key = k => req[r].at \notin {"append", "release"}
         => Saved(k)
      /\ \A r \in Requests : req[r].key = k => Works(r, k)

(* A message whose UID is not in a row yet holds what its request put in.  *)
Stored ==
    \A h \in Requests : req[h].at \in Writing /\ Sound(req[h].key) =>
        req[h].uid \in DOMAIN box /\ box[req[h].uid] = req[h].body

(* Only an upload waits for a lock. *)
Waits == \A r \in Requests : req[r].at = "wait" => req[r].op = "upload"

LEMMA WaitsStep ==
  ASSUME TypeOK, Waits, [Next]_vars
  PROVE  Waits'
<1>1. ASSUME NEW s \in Requests, req'[s].at = "wait" PROVE req'[s].op = "upload"
  <2>1. CASE req[s].at = "wait"
    BY <2>1, Begins DEF Waits, Live
  <2>2. ASSUME NEW r \in Requests, Step(r) \/ Die(r), r = s, req[s].at # "wait" PROVE FALSE
    <3>1. CASE \/ WaitForUnlock(r) \/ WaitTimesOut(r) \/ LockExisting(r) \/ DropOld(r) \/ AppendFails(r)
               \/ Unlock(r) \/ Release(r) \/ Insert(r) \/ Publish(r) \/ DeleteSource(r) \/ Retry(r)
               \/ Deliver(r) \/ Expunge(r) \/ DeleteRow(r) \/ Die(r)
      <4>1. \E step \in {"lock", "failed", "load", "append", "unlock", "row", "done", "publish", "source",
                         "attach", "cleanup", "dead"} : Go(r, step)
        BY <3>1, Zenon DEF WaitForUnlock, WaitTimesOut, LockExisting, DropOld, AppendFails, Unlock, Release,
          Insert, Publish, DeleteSource, Retry, Deliver, Expunge, DeleteRow, Die
      <4> QED
        BY <4>1, <1>1, <2>2, Goes
    <3>2. CASE Load(r) \/ Append(r) \/ Copy(r)
      BY <3>2, <1>1, <2>2, LoadDoes, AppendDoes, CopyDoes, Goes
    <3>3. CASE AttachRow(r) \/ AttachFetch(r) \/ Cleanup(r)
      BY <3>3, <1>1, <2>2, ReadsDoes, FetchDoes, Goes
    <3> QED
      BY <2>2, <3>1, <3>2, <3>3 DEF Step
  <2>3. ASSUME NEW r \in Requests, NEW op \in Ops, NEW k \in Keys,
               \/ AcquireNew(r, op, k) \/ Look(r, op, k)
               \/ \E files \in {{}} \cup {{t} : t \in Requests} : Acquire(r, op, k, files)
               \/ \E u \in DOMAIN box \cup {NoUid} : Compose(r, op, k, u),
               r = s
        PROVE  req'[s].op = "upload"
    <3>1. CASE Look(r, op, k)
      <4>1. \E step \in {"failed", "retry", "attach", "row", "expunge"} : \E files :
               Start(r, op, k, step, row[k].uid, files)
        BY <3>1, Zenon DEF Look
      <4> QED
        BY <4>1, <1>1, <2>3, StartDoes
    <3>2. CASE AcquireNew(r, op, k)
      BY <3>2, <1>1, <2>3, StartDoes DEF AcquireNew
    <3>3. ASSUME NEW u, Compose(r, op, k, u) PROVE FALSE
      BY <3>3, <1>1, <2>3, ComposeDoes
    <3>4. ASSUME NEW files, Acquire(r, op, k, files) PROVE req'[s].op = "upload"
      <4>1. \E step \in {"lock", "wait", "failed"} :
               Start(r, op, k, step, row[k].uid, files) /\ (step = "wait" => op = "upload")
        BY <3>4 DEF Acquire
      <4> QED
        BY <4>1, <1>1, <2>3, StartDoes
    <3> QED
      BY <2>3, <3>1, <3>2, <3>3, <3>4
  <2>4. CASE UNCHANGED vars
    BY <2>4, <1>1 DEF vars, Waits
  <2>5. \A r \in Requests \ {s} : req'[s] = req[s] => req[s].at = "wait"
    BY <1>1
  <2> QED
    BY <2>1, <2>2, <2>3, <2>4, <2>5, Others DEF Next
<1> QED
  BY <1>1 DEF Waits

(* Nothing that was to be excused is excused no longer, unless the row is  *)
(* gone.                                                                   *)
LEMMA GoodBefore ==
  ASSUME TypeOK, [Next]_vars, NEW k \in DOMAIN row, Good(k)'
  PROVE  Good(k)
<1>1. Sound(k)
  BY MarksTyped DEF Good, Sound
<1>2. ASSUME NEW s \in Requests, req[s].key = k, req[s].at = "row"
      PROVE  FALSE
  <2>1. req'[s] # req[s]
    BY <1>2 DEF Good, Removing
  <2>2. ASSUME NEW op \in Ops, NEW j \in Keys,
               \/ AcquireNew(s, op, j) \/ Look(s, op, j)
               \/ \E files \in {{}} \cup {{t} : t \in Requests} : Acquire(s, op, j, files)
               \/ \E u \in DOMAIN box \cup {NoUid} : Compose(s, op, j, u)
        PROVE  FALSE
    BY <2>2, <1>2 DEF AcquireNew, Look, Acquire, Compose, Start, Arrives, At
  <2>3. Step(s) => DeleteRow(s)
    BY <1>2 DEF Step, WaitForUnlock, WaitTimesOut, LockExisting, Load, DropOld, Append, AppendFails, Unlock,
       Release, Copy, Insert, Publish, DeleteSource, Retry, AttachRow, AttachFetch, Deliver, Cleanup, Expunge,
       At
  <2>4. ~DeleteRow(s)
    BY <1>2 DEF DeleteRow, Good, Without
  <2>5. ~Die(s)
    BY <1>2 DEF Die, Fault, Mark, Good, Sound
  <2>6. UNCHANGED vars => req'[s] = req[s]
    BY DEF vars
  <2> QED
    BY <2>1, <2>2, <2>3, <2>4, <2>5, <2>6, Others DEF Next
<1> QED
  BY <1>1, <1>2 DEF Good, Removing

(* A message that disappears was dropped for a new one, expunged with its  *)
(* draft, or opened a second time: then its users' keys are marked.        *)
LEMMA BoxKept ==
  ASSUME TypeOK, Given, [Next]_vars, NEW u \in DOMAIN box
  PROVE  \/ u \in DOMAIN box' /\ box'[u] = box[u]
         \/ \E r \in Requests : DropOld(r) /\ req[r].uid = u
         \/ \E r \in Requests : Expunge(r) /\ req[r].uid = u
         \/ \E r \in Requests :
               /\ req[r].at = "source" /\ req[r].src = u
               /\ \A s \in Requests \ {r} : req[s].uid = u => <<req[s].key, "taken">> \in marks'
<1> DEFINE Same == u \in DOMAIN box' /\ box'[u] = box[u]
<1>1. ASSUME NEW r \in Requests, DropOld(r) \/ Expunge(r), req[r].uid # u
      PROVE  Same
  BY <1>1 DEF DropOld, Expunge, Without
<1>2. ASSUME NEW r \in Requests, DeleteSource(r)
      PROVE  \/ Same
             \/ /\ req[r].at = "source" /\ req[r].src = u
                /\ \A s \in Requests \ {r} : req[s].uid = u => <<req[s].key, "taken">> \in marks'
  <2>1. CASE UNCHANGED box
    BY <2>1
  <2>2. CASE /\ box' = Without(box, req[r].src)
             /\ marks' = marks \cup
                  {<<req[s].key, "taken">> : s \in {s \in Requests \ {r} : req[s].uid = req[r].src}}
    BY <1>2, <2>2 DEF Without, DeleteSource, At
  <2> QED
    BY <1>2, <2>1, <2>2 DEF DeleteSource
<1>3. u # nextUid
  BY Shapes DEF Given
<1>4. ASSUME NEW r \in Requests, Append(r) \/ AppendFails(r) PROVE Same
  BY <1>3, <1>4 DEF Append, AppendFails, With
<1>5. ASSUME NEW r \in Requests, Copy(r) PROVE Same
  <2>1. UNCHANGED box \/ \E body : box' = With(box, nextUid, body)
    BY <1>5, CopyDoes
  <2> QED
    BY <1>3, <2>1 DEF With
<1>6. ASSUME NEW r \in Requests,
             WaitForUnlock(r) \/ WaitTimesOut(r) \/ LockExisting(r) \/ Load(r) \/ Unlock(r) \/ Release(r) \/
             Insert(r) \/ Publish(r) \/ Retry(r) \/ AttachRow(r) \/ AttachFetch(r) \/ Deliver(r) \/
             Cleanup(r) \/ DeleteRow(r) \/ Die(r)
      PROVE  UNCHANGED box
  BY <1>6, Zenon DEF WaitForUnlock, WaitTimesOut, LockExisting, Load, Unlock, Release, Insert, Publish, Retry,
     AttachRow, AttachFetch, Deliver, Cleanup, DeleteRow, Die
<1>7. ASSUME NEW r \in Requests, NEW op \in Ops, NEW k \in Keys,
             \/ AcquireNew(r, op, k) \/ Look(r, op, k)
             \/ \E files \in {{}} \cup {{s} : s \in Requests} : Acquire(r, op, k, files)
             \/ \E v \in DOMAIN box \cup {NoUid} : Compose(r, op, k, v)
      PROVE  UNCHANGED box
  BY <1>7, Zenon DEF AcquireNew, Look, Acquire, Compose
<1>8. CASE UNCHANGED vars
  BY <1>8 DEF vars
<1> QED
  BY <1>1, <1>2, <1>4, <1>5, <1>6, <1>7, <1>8 DEF Next, Step

(* The message of a key that is not excused is only ever dropped by a      *)
(* request about that key.                                                 *)
LEMMA PointedKept ==
  ASSUME TypeOK, Numbered, [Next]_vars, NEW k \in DOMAIN row, Good(k)', row[k].uid \in DOMAIN box
  PROVE  \/ row[k].uid \in DOMAIN box' /\ box'[row[k].uid] = box[row[k].uid]
         \/ \E r \in Requests : DropOld(r) /\ req[r].key = k
<1> DEFINE u == row[k].uid
<1>1. u # NoUid
  BY Shapes DEF NoUid
<1>2. ASSUME NEW r \in Requests, req[r].uid = u PROVE req[r].key = k
  BY <1>1, <1>2 DEF Numbered, OfItsKey
<1>3. ASSUME NEW r \in Requests, Expunge(r), req[r].uid = u PROVE FALSE
  <2>1. Go(r, "row")
    BY <1>3 DEF Expunge
  <2>2. req'[r].key = k /\ req'[r].at = "row"
    BY <1>2, <1>3, <2>1, Goes
  <2> QED
    BY <2>2 DEF Good, Removing
<1>4. ASSUME NEW r \in Requests, req[r].at = "source", req[r].src = u,
             \A s \in Requests \ {r} : req[s].uid = u => <<req[s].key, "taken">> \in marks'
      PROVE  FALSE
  <2>1. PICK s \in Requests : req[s].key = k /\ req[s].uid = u
    BY <1>1 DEF Numbered, Writer
  <2>2. s # r
    BY <1>4, <2>1 DEF Numbered, Apart
  <2>3. <<k, "taken">> \in marks'
    BY <1>4, <2>1, <2>2
  <2> QED
    BY <2>3 DEF Good, Sound
<1> QED
  BY <1>2, <1>3, <1>4, BoxKept DEF Numbered
(* A request comes to know a UID that is in no row by appending a message. *)
LEMMA Writes ==
  ASSUME TypeOK, [Next]_vars, NEW h \in Requests, req'[h].at \in Writing
  PROVE  /\ req'[h].key = req[h].key
         /\ \/ req[h].at \in Writing /\ req'[h].uid = req[h].uid /\ req'[h].body = req[h].body
            \/ req'[h].uid = nextUid /\ box' = With(box, nextUid, req'[h].body)
<1> DEFINE Fact == /\ req'[h].key = req[h].key
                   /\ \/ req[h].at \in Writing /\ req'[h].uid = req[h].uid /\ req'[h].body = req[h].body
                      \/ req'[h].uid = nextUid /\ box' = With(box, nextUid, req'[h].body)
<1>1. CASE req'[h] = req[h]
  BY <1>1
<1>2. CASE UNCHANGED vars
  BY <1>2 DEF vars, Writing
<1>3. CASE Append(h)
  BY <1>3, AppendDoes DEF Append
<1>4. CASE Copy(h)
  <2>1. Go(h, "failed") => req'[h].at = "failed"
    BY Goes
  <2> QED
    BY <1>4, <2>1, CopyDoes DEF Writing
<1>5. CASE Insert(h)
  <2>1. (Go(h, "done") \/ Go(h, "publish")) /\ req[h].at = "insert"
    BY <1>5 DEF Insert, At
  <2> QED
    BY <2>1, Goes DEF Writing
<1>6. ~(\/ WaitForUnlock(h) \/ WaitTimesOut(h) \/ LockExisting(h) \/ DropOld(h) \/ AppendFails(h)
        \/ Unlock(h) \/ Release(h) \/ Publish(h) \/ DeleteSource(h) \/ Retry(h)
        \/ Deliver(h) \/ Expunge(h) \/ DeleteRow(h) \/ Die(h))
  <2>1. ASSUME \/ WaitForUnlock(h) \/ WaitTimesOut(h) \/ LockExisting(h) \/ DropOld(h) \/ AppendFails(h)
               \/ Unlock(h) \/ Release(h) \/ Publish(h) \/ DeleteSource(h) \/ Retry(h)
               \/ Deliver(h) \/ Expunge(h) \/ DeleteRow(h) \/ Die(h)
        PROVE  \E step \in {"lock", "failed", "load", "append", "unlock", "row", "done", "source",
                            "attach", "cleanup", "dead"} : Go(h, step)
    BY <2>1, Zenon DEF WaitForUnlock, WaitTimesOut, LockExisting, DropOld, AppendFails, Unlock, Release,
      Publish, DeleteSource, Retry, Deliver, Expunge, DeleteRow, Die
  <2> QED
    BY <2>1, Goes DEF Writing
<1>7. ~(Load(h) \/ AttachRow(h) \/ AttachFetch(h) \/ Cleanup(h))
  BY LoadDoes, ReadsDoes, FetchDoes, Goes DEF Writing
<1>8. ASSUME NEW op \in Ops, NEW k \in Keys,
             \/ AcquireNew(h, op, k) \/ Look(h, op, k)
             \/ \E files \in {{}} \cup {{s} : s \in Requests} : Acquire(h, op, k, files)
             \/ \E u \in DOMAIN box \cup {NoUid} : Compose(h, op, k, u)
      PROVE  FALSE
  <2>1. CASE Look(h, op, k)
    <3>1. \E step \in {"failed", "retry", "attach", "row", "expunge"} : \E files :
             Start(h, op, k, step, row[k].uid, files)
      BY <2>1, Zenon DEF Look
    <3> QED
      BY <3>1, StartDoes DEF Writing
  <2>2. CASE AcquireNew(h, op, k)
    BY <2>2, StartDoes DEF AcquireNew, Writing
  <2>3. ASSUME NEW u, Compose(h, op, k, u) PROVE FALSE
    BY <2>3, ComposeDoes DEF Writing
  <2>4. ASSUME NEW files, Acquire(h, op, k, files) PROVE FALSE
    <3>1. \E step \in {"lock", "wait", "failed"} : Start(h, op, k, step, row[k].uid, files)
      BY <2>4 DEF Acquire
    <3> QED
      BY <3>1, StartDoes DEF Writing
  <2> QED
    BY <1>8, <2>1, <2>2, <2>3, <2>4
<1>9. Next => \/ req'[h] = req[h]
              \/ Step(h) \/ Die(h)
              \/ \E op \in Ops, k \in Keys :
                    \/ AcquireNew(h, op, k) \/ Look(h, op, k)
                    \/ \E files \in {{}} \cup {{s} : s \in Requests} : Acquire(h, op, k, files)
                    \/ \E u \in DOMAIN box \cup {NoUid} : Compose(h, op, k, u)
  BY Others DEF Next
<1>10. Step(h) => Fact
  BY <1>3, <1>4, <1>5, <1>6, <1>7 DEF Step
<1> QED
  BY <1>1, <1>2, <1>6, <1>8, <1>9, <1>10

LEMMA StoredStep ==
  ASSUME TypeOK, Numbered, Stored, [Next]_vars
  PROVE  Stored'
<1>1. ASSUME NEW h \in Requests, req'[h].at \in Writing, Sound(req[h].key)'
      PROVE  req'[h].uid \in DOMAIN box' /\ box'[req'[h].uid] = req'[h].body
  <2> DEFINE u == req[h].uid
  <2>1. CASE req'[h].uid = nextUid /\ box' = With(box, nextUid, req'[h].body)
    BY <2>1 DEF With
  <2>2. CASE req[h].at \in Writing /\ req'[h].uid = req[h].uid /\ req'[h].body = req[h].body
    <3>1. req'[h].key = req[h].key /\ Sound(req[h].key)
      BY <1>1, Writes, MarksTyped DEF Sound
    <3>2. u \in DOMAIN box /\ box[u] = req[h].body
      BY <2>2, <3>1 DEF Stored
    <3>3. ASSUME NEW r \in Requests, DropOld(r) \/ Expunge(r), req[r].uid = u PROVE FALSE
      <4>1. r # h
        BY <2>2, <3>3 DEF DropOld, Expunge, At, Writing
      <4> QED
        BY <2>2, <3>3, <4>1 DEF Numbered, Own
    <3>4. ASSUME NEW r \in Requests, req[r].at = "source",
                 \A s \in Requests \ {r} : req[s].uid = u => <<req[s].key, "taken">> \in marks'
          PROVE  FALSE
      <4>1. r # h
        BY <2>2, <3>4 DEF Writing
      <4>2. <<req[h].key, "taken">> \in marks'
        BY <3>4, <4>1
      <4> QED
        BY <1>1, <3>1, <4>2 DEF Sound
    <3>5. u \in DOMAIN box' /\ box'[u] = box[u]
      BY <3>2, <3>3, <3>4, BoxKept DEF Numbered
    <3> QED
      BY <2>2, <3>2, <3>5
  <2> QED
    BY <1>1, <2>1, <2>2, Writes
<1> QED
  BY <1>1 DEF Stored

(* What a request is asked does not change once its work is acknowledged,  *)
(* so a smaller acknowledgement asks less of the next message.             *)
LEMMA EditedShrinks ==
  ASSUME TypeOK, Keyed, [Next]_vars, NEW k \in Keys, NEW s \in Requests,
         req'[s].op = req[s].op, req'[s].files = req[s].files, acked'[k] \subseteq acked[k]
  PROVE  Edited(s, acked[k])' \subseteq Edited(s, acked[k])
<1>1. \A t \in acked[k] : t \in Requests /\ req'[t].op = req[t].op
  BY Begins, Shapes DEF Keyed, Begun
<1> QED
  BY <1>1 DEF Edited

LEMMA EditedGrows ==
  ASSUME NEW s \in Requests, NEW A, NEW B, A \subseteq B
  PROVE  Edited(s, A) \subseteq Edited(s, B)
  BY DEF Edited

(* A request that holds no lock, before and after its step, leaves what    *)
(* the others rely on.                                                     *)
LEMMA Undisturbed ==
  ASSUME TypeOK, Numbered, Keyed, [Next]_vars, NEW k \in DOMAIN row, Content(k), Good(k)',
         NEW r \in Requests, \A s \in Requests \ {r} : req'[s] = req[s],
         k \in DOMAIN row', row'[k] = row[k], acked'[k] \subseteq acked[k],
         ~Holds(r, k), ~Holds(r, k)',
         req'[r].key = k /\ req'[r].op = "unattach" /\ req'[r].at = "lock" /\ req'[r].uid = row[k].uid
           => acked'[k] \cap req'[r].files = {}
  PROVE  Content(k)'
<1>1. Good(k) /\ k \in Keys
  BY GoodBefore DEF TypeOK
<1>2. ASSUME NEW s \in Requests, Holds(s, k)'
      PROVE  s # r /\ Holds(s, k)
  BY <1>2 DEF Holds
<1>3. ASSUME NEW s \in Requests, Holds(s, k)'
      PROVE  row'[k].locked /\ \A t \in Requests : Holds(t, k)' => t = s
  BY <1>1, <1>2, <1>3 DEF Content
<1>4. ASSUME row[k].uid # NoUid, \A s \in Requests : req'[s].key = k => req'[s].at \notin {"append", "release"}
      PROVE  Saved(k)'
  <2>1. \A s \in Requests : req[s].key = k => req[s].at \notin {"append", "release"}
    BY <1>4 DEF Holds, Holders, Holding
  <2>2. Saved(k)
    BY <1>1, <1>4, <2>1 DEF Content
  <2>3. ASSUME NEW s \in Requests, DropOld(s), req[s].key = k PROVE FALSE
    <3>1. Go(s, "append") /\ req[s].at = "drop"
      BY <2>3 DEF DropOld, At
    <3>2. s # r
      BY <2>3, <3>1 DEF Holds, Holders, Holding
    <3> QED
      BY <3>1, <3>2, Goes
  <2>4. row[k].uid \in DOMAIN box' /\ box'[row[k].uid] = box[row[k].uid]
    BY <2>2, <2>3, PointedKept DEF Saved
  <2> QED
    BY <2>2, <2>4 DEF Saved
<1>5. ASSUME NEW s \in Requests, req'[s].key = k
      PROVE  Works(s, k)'
  <2>1. CASE s = r
    <3>1. req'[s].at \notin Holders
      BY <1>5, <2>1 DEF Holds
    <3> QED
      BY <1>5, <2>1, <3>1 DEF Works, Holders, Holding
  <2>2. CASE s # r
    <3>1. req'[s] = req[s] /\ Works(s, k)
      BY <1>1, <1>5, <2>2 DEF Content
    <3>2. Edited(s, acked[k])' \subseteq Edited(s, acked[k])
      BY <1>1, <3>1, EditedShrinks
    <3> QED
      BY <3>1, <3>2 DEF Works
  <2> QED
    BY <2>1, <2>2
<1>6. ~row'[k].locked => row'[k].uid # NoUid
  BY <1>1 DEF Content
<1> QED
  BY <1>3, <1>4, <1>5, <1>6 DEF Content

LEMMA WorkStays ==
  ASSUME TypeOK, Keyed, [Next]_vars, NEW k \in Keys, NEW s \in Requests, req'[s] = req[s],
         Works(s, k), row'[k].uid = row[k].uid, acked'[k] \subseteq acked[k]
  PROVE  Works(s, k)'
<1>1. Edited(s, acked[k])' \subseteq Edited(s, acked[k])
  BY EditedShrinks
<1> QED
  BY <1>1 DEF Works

(* A request that locks the row nobody else holds, and at its last UID. *)
LEMMA LockKeeps ==
  ASSUME TypeOK, Numbered, Keyed, [Next]_vars, NEW r \in Requests, NEW k \in DOMAIN row,
         LockExisting(r), req[r].key = k, Content(k), Good(k)'
  PROVE  Content(k)'
<1>1. Good(k) /\ k \in Keys
  BY GoodBefore DEF TypeOK
<1>2. /\ req[r].at = "lock" /\ Go(r, "load") /\ row' = [row EXCEPT ![k].locked = TRUE]
      /\ UNCHANGED <<box, acked>>
  BY DEF LockExisting, Known, At
<1>3. ~row[k].locked /\ row[k].uid = req[r].uid
  BY <1>1 DEF LockExisting, Known, Mark, Good, Sound
<1>4. row'[k].locked /\ row'[k].uid = row[k].uid
  BY <1>2, Shapes
<1>5. /\ req'[r].at = "load" /\ req'[r].uid = req[r].uid /\ req'[r].op = req[r].op
      /\ req'[r].files = req[r].files /\ req'[r].key = k
      /\ \A s \in Requests \ {r} : req'[s] = req[s]
  BY <1>2, Goes
<1>6. \A s \in Requests : ~Holds(s, k)
  BY <1>1, <1>3 DEF Content
<1>7. row[k].uid # NoUid
  BY <1>1, <1>3 DEF Content
<1>8. Saved(k)
  <2>1. \A s \in Requests : req[s].key = k => req[s].at \notin {"append", "release"}
    BY <1>6 DEF Holds, Holders, Holding
  <2> QED
    BY <1>1, <1>7, <2>1 DEF Content
<1>9. Saved(k)'
  BY <1>2, <1>4, <1>8 DEF Saved
<1>10. \A s \in Requests : Holds(s, k)' => s = r
  BY <1>5, <1>6 DEF Holds
<1>11. Works(r, k)'
  <2>1. Works(r, k)
    BY <1>1 DEF Content
  <2>2. req[r].op = "unattach" => acked[k] \cap req[r].files = {}
    BY <1>2, <1>3, <2>1 DEF Works
  <2> QED
    BY <1>2, <1>3, <1>4, <1>5, <1>7, <2>2 DEF Works
<1>12. ASSUME NEW s \in Requests \ {r}, req'[s].key = k PROVE Works(s, k)'
  <2>1. req'[s] = req[s] /\ Works(s, k)
    BY <1>1, <1>5, <1>12 DEF Content
  <2> QED
    BY <1>1, <1>2, <1>4, <2>1, WorkStays
<1> QED
  BY <1>4, <1>9, <1>10, <1>11, <1>12 DEF Content

(* The content is loaded: it is what was acknowledged, or the row has no   *)
(* message yet and nothing was.                                            *)
LEMMA LoadKeeps ==
  ASSUME TypeOK, Numbered, Keyed, [Next]_vars, NEW r \in Requests, NEW k \in DOMAIN row,
         Load(r), req[r].key = k, Content(k), Good(k)'
  PROVE  Content(k)'
<1>1. Good(k) /\ k \in Keys
  BY GoodBefore DEF TypeOK
<1>2. req[r].at = "load" /\ UNCHANGED <<row, box, acked>>
  BY DEF Load, At
<1>3. /\ req'[r].key = k /\ req'[r].op = req[r].op /\ req'[r].files = req[r].files
      /\ req'[r].uid = req[r].uid /\ req'[r].at \in {"unlock", "append", "drop"}
      /\ \A s \in Requests \ {r} : req'[s] = req[s]
  BY Others, LoadDoes, Goes DEF Step
<1>4. Holds(r, k) /\ Holds(r, k)'
  BY <1>2, <1>3 DEF Holds, Holders, Holding
<1>5. row[k].locked /\ \A s \in Requests : Holds(s, k) => s = r
  BY <1>1, <1>4 DEF Content
<1>6. Works(r, k)
  BY <1>1 DEF Content
<1>7. row[k].uid = req[r].uid
  BY <1>2, <1>6 DEF Works
<1>8. row[k].uid # NoUid => Saved(k)
  <2>1. \A s \in Requests : req[s].key = k => req[s].at \notin {"append", "release"}
    BY <1>2, <1>5 DEF Holds, Holders, Holding
  <2> QED
    BY <1>1, <2>1 DEF Content
<1>9. row[k].uid # NoUid => Saved(k)'
  BY <1>2, <1>8 DEF Saved
<1>10. \A s \in Requests : Holds(s, k)' => s = r
  BY <1>3, <1>5 DEF Holds
<1>11. Works(r, k)'
  <2> DEFINE body == IF req[r].uid = NoUid THEN {} ELSE box[req[r].uid]
  <2>1. acked[k] \subseteq body
    BY <1>1, <1>7, <1>8 DEF Saved, Keyed, NothingYet
  <2>2. Edited(r, acked[k])' \subseteq Edited(r, body)
    <3>1. Edited(r, acked[k])' \subseteq Edited(r, acked[k])
      BY <1>1, <1>2, <1>3, EditedShrinks
    <3> QED
      BY <2>1, <3>1, EditedGrows
  <2>3. req[r].op = "unattach" => acked'[k] \cap req'[r].files = {} /\ req[r].uid # NoUid
    BY <1>2, <1>3, <1>6 DEF Works
  <2>4. CASE Go(r, "unlock")
    <3>1. req'[r].at = "unlock"
      BY <2>4, Goes
    <3>2. row[k].uid # NoUid
      <4>1. \/ req[r].uid # NoUid
            \/ req[r].op = "unattach"
            \/ req'[r].at \in {"append", "drop"}
        BY LoadDoes
      <4> QED
        BY <1>7, <2>3, <3>1, <4>1
    <3> QED
      BY <1>2, <3>1, <3>2 DEF Works
  <2>5. CASE req'[r].body = Edited(r, body) /\ req'[r].at = IF req[r].uid = NoUid THEN "append" ELSE "drop"
    <3> HIDE DEF body
    <3> QED
      BY <1>2, <1>3, <1>7, <2>2, <2>3, <2>5 DEF Works
  <2> QED
    BY <2>4, <2>5, LoadDoes
<1>12. ASSUME NEW s \in Requests \ {r}, req'[s].key = k PROVE Works(s, k)'
  <2>1. req'[s] = req[s] /\ Works(s, k)
    BY <1>1, <1>3, <1>12 DEF Content
  <2> QED
    BY <1>1, <1>2, <2>1, WorkStays
<1> QED
  BY <1>2, <1>5, <1>9, <1>10, <1>11, <1>12 DEF Content

(* The old message is dropped and the new one appended under the lock: the *)
(* row points nowhere, and what the request carries is complete.           *)
LEMMA WriteKeeps ==
  ASSUME TypeOK, Numbered, Keyed, [Next]_vars, NEW r \in Requests, NEW k \in DOMAIN row,
         DropOld(r) \/ Append(r), req[r].key = k, Content(k), Good(k)'
  PROVE  Content(k)'
<1>1. Good(k) /\ k \in Keys
  BY GoodBefore DEF TypeOK
<1>2. UNCHANGED <<row, acked>> /\ req[r].at \in {"drop", "append"}
  BY DEF DropOld, Append, At
<1>3. /\ req'[r].key = k /\ req'[r].op = req[r].op /\ req'[r].files = req[r].files
      /\ req'[r].body = req[r].body
      /\ req'[r].at \in {"append", "release"}
      /\ \A s \in Requests \ {r} : req'[s] = req[s]
  <2>1. CASE DropOld(r)
    <3>1. Go(r, "append")
      BY <2>1 DEF DropOld
    <3> QED
      BY <3>1, Goes
  <2>2. CASE Append(r)
    BY <2>2, AppendDoes, Others DEF Step
  <2> QED
    BY <2>1, <2>2
<1>4. Holds(r, k)
  BY <1>2 DEF Holds, Holders, Holding
<1>5. row[k].locked /\ \A s \in Requests : Holds(s, k) => s = r
  BY <1>1, <1>4 DEF Content
<1>6. \A s \in Requests : Holds(s, k)' => s = r
  BY <1>3, <1>5 DEF Holds
<1>7. Works(r, k)'
  <2>1. Works(r, k)
    BY <1>1 DEF Content
  <2>2. Edited(r, acked[k])' \subseteq Edited(r, acked[k])
    BY <1>1, <1>2, <1>3, EditedShrinks
  <2> QED
    BY <1>2, <1>3, <2>1, <2>2 DEF Works
<1>8. ASSUME NEW s \in Requests \ {r}, req'[s].key = k PROVE Works(s, k)'
  <2>1. req'[s] = req[s] /\ Works(s, k)
    BY <1>1, <1>3, <1>8 DEF Content
  <2> QED
    BY <1>1, <1>2, <2>1, WorkStays
<1> QED
  BY <1>2, <1>3, <1>5, <1>6, <1>7, <1>8 DEF Content

(* The holder that failed gives the row back with the message it had. *)
LEMMA UnlockKeeps ==
  ASSUME TypeOK, Numbered, Keyed, [Next]_vars, NEW r \in Requests, NEW k \in DOMAIN row,
         Unlock(r), req[r].key = k, Content(k), Good(k)'
  PROVE  Content(k)'
<1>1. Good(k) /\ k \in Keys
  BY GoodBefore DEF TypeOK
<1>2. /\ req[r].at = "unlock" /\ Go(r, "failed") /\ UNCHANGED <<box, acked>>
      /\ row' = [row EXCEPT ![k].locked = FALSE]
  BY DEF Unlock, Known, At
<1>3. row'[k].uid = row[k].uid
  BY <1>2, Shapes
<1>4. req'[r].at = "failed" /\ \A s \in Requests \ {r} : req'[s] = req[s]
  BY <1>2, Goes
<1>5. Holds(r, k)
  BY <1>2 DEF Holds, Holders, Holding
<1>6. \A s \in Requests : Holds(s, k) => s = r
  BY <1>1, <1>5 DEF Content
<1>7. \A s \in Requests : ~Holds(s, k)'
  BY <1>4, <1>6 DEF Holds, Holders, Holding
<1>8. row[k].uid # NoUid
  BY <1>1, <1>2 DEF Content, Works
<1>9. Saved(k)
  <2>1. \A s \in Requests : req[s].key = k => req[s].at \notin {"append", "release"}
    BY <1>2, <1>6 DEF Holds, Holders, Holding
  <2> QED
    BY <1>1, <1>8, <2>1 DEF Content
<1>10. Saved(k)'
  BY <1>2, <1>3, <1>9 DEF Saved
<1>11. ASSUME NEW s \in Requests, req'[s].key = k PROVE Works(s, k)'
  <2>1. CASE s = r
    BY <1>4, <2>1 DEF Works
  <2>2. CASE s # r
    <3>1. req'[s] = req[s] /\ Works(s, k)
      BY <1>1, <1>4, <1>11, <2>2 DEF Content
    <3> QED
      BY <1>1, <1>2, <1>3, <3>1, WorkStays
  <2> QED
    BY <2>1, <2>2
<1> QED
  BY <1>3, <1>7, <1>8, <1>10, <1>11 DEF Content

(* The row gets a UID nobody else knows, of a message that holds all that  *)
(* is acknowledged from now on.                                            *)
LEMMA FreedKeeps ==
  ASSUME NEW r \in Requests, NEW k \in DOMAIN row', req'[r].at \notin Holders \cup {"lock"},
         \A s \in Requests \ {r} : req'[s] = req[s],
         \A s \in Requests \ {r} : ~Holds(s, k),
         \A s \in Requests \ {r} : req[s].at = "lock" => req[s].uid # row'[k].uid,
         row'[k].uid # NoUid, Saved(k)'
  PROVE  Content(k)'
<1>1. \A s \in Requests : ~Holds(s, k)'
  BY DEF Holds
<1>2. ASSUME NEW s \in Requests, req'[s].key = k PROVE Works(s, k)'
  <2>1. req'[s].at \notin Holders
    BY <1>1, <1>2 DEF Holds
  <2>2. req'[s].at = "lock" => req'[s].uid # row'[k].uid
    OBVIOUS
  <2> QED
    BY <2>1, <2>2 DEF Works, Holders, Holding
<1> QED
  BY <1>1, <1>2 DEF Content

LEMMA ReleaseKeeps ==
  ASSUME TypeOK, Numbered, Keyed, Stored, [Next]_vars, NEW r \in Requests, NEW k \in DOMAIN row,
         Release(r), req[r].key = k, Content(k), Good(k)'
  PROVE  Content(k)'
<1>1. Good(k) /\ k \in Keys
  BY GoodBefore DEF TypeOK
<1>2. /\ req[r].at = "release" /\ UNCHANGED box
      /\ row' = [row EXCEPT ![k] = [uid |-> req[r].uid, locked |-> FALSE]]
      /\ acked' = [acked EXCEPT ![k] = IF req[r].op = "unattach" THEN @ ELSE Edited(r, @)]
      /\ Go(r, "row") \/ Go(r, "done")
  BY DEF Release, Known, At
<1>3. row'[k].uid = req[r].uid /\ k \in DOMAIN row'
  BY <1>2, Shapes
<1>4. req'[r].at \in {"row", "done"} /\ \A s \in Requests \ {r} : req'[s] = req[s]
  BY <1>2, Goes
<1>5. Holds(r, k) /\ \A s \in Requests : Holds(s, k) => s = r
  BY <1>1, <1>2 DEF Content, Holds, Holders, Holding
<1>6. /\ req[r].uid # NoUid /\ \A s \in Requests \ {r} : req[s].uid # req[r].uid
      /\ req[r].uid \in DOMAIN box /\ box[req[r].uid] = req[r].body
  BY <1>1, <1>2 DEF Numbered, Own, Stored, Writing, Good
<1>7. acked'[k] \subseteq req[r].body
  <2> DEFINE S == IF req[r].op = "unattach" THEN acked[k] ELSE Edited(r, acked[k])
  <2>1. Edited(r, acked[k]) \subseteq req[r].body
    BY <1>1, <1>2 DEF Content, Works
  <2>2. req[r].op = "unattach" => acked[k] \cap req[r].files = {}
    BY <1>1, <1>2 DEF Content, Works
  <2>3. S \subseteq req[r].body
    BY <2>1, <2>2 DEF Edited
  <2>4. acked'[k] = S
    BY <1>1, <1>2, Shapes
  <2> QED
    BY <2>3, <2>4
<1>8. Saved(k)'
  BY <1>2, <1>3, <1>6, <1>7 DEF Saved
<1> QED
  BY <1>3, <1>4, <1>5, <1>6, <1>8, FreedKeeps DEF Holders, Holding

LEMMA PublishKeeps ==
  ASSUME TypeOK, Numbered, Keyed, Stored, [Next]_vars, NEW r \in Requests, NEW k \in DOMAIN row,
         Publish(r), req[r].key = k, Content(k), Good(k)'
  PROVE  Content(k)'
<1>1. Good(k) /\ k \in Keys
  BY GoodBefore DEF TypeOK
<1>2. /\ req[r].at = "publish" /\ UNCHANGED box
      /\ row' = [row EXCEPT ![k] = [uid |-> req[r].uid, locked |-> FALSE]]
      /\ acked' = [acked EXCEPT ![k] = req[r].body]
      /\ Go(r, "source")
  BY DEF Publish, At
<1>3. row'[k].uid = req[r].uid /\ k \in DOMAIN row'
  BY <1>2, Shapes
<1>4. req'[r].at = "source" /\ \A s \in Requests \ {r} : req'[s] = req[s]
  BY <1>2, Goes
<1>5. Holds(r, k) /\ \A s \in Requests : Holds(s, k) => s = r
  BY <1>1, <1>2 DEF Content, Holds, Holders
<1>6. /\ req[r].uid # NoUid /\ \A s \in Requests \ {r} : req[s].uid # req[r].uid
      /\ req[r].uid \in DOMAIN box /\ box[req[r].uid] = req[r].body
  BY <1>1, <1>2 DEF Numbered, Own, Stored, Writing, Good
<1>7. acked'[k] = req[r].body
  BY <1>1, <1>2, Shapes
<1>8. Saved(k)'
  BY <1>2, <1>3, <1>6, <1>7 DEF Saved
<1> QED
  BY <1>3, <1>4, <1>5, <1>6, <1>8, FreedKeeps DEF Holders, Holding

(* A new row is its request's alone: nobody else has heard of the key. *)
LEMMA InsertKeeps ==
  ASSUME TypeOK, Numbered, Keyed, Stored, [Next]_vars, NEW r \in Requests, NEW k \in Keys,
         Insert(r), req[r].key = k, Good(k)'
  PROVE  Content(k)'
<1>1. /\ req[r].at = "insert" /\ acked[k] = {}
      /\ \A s \in Requests \ {r} : Live(s) => req[s].key # k
  BY DEF Insert, At, Keyed, Newborn
<1>2. UNCHANGED <<box, acked>>
  BY DEF Insert
<1>3. Sound(k)
  BY MarksTyped DEF Good, Sound
<1>4. /\ req[r].uid # NoUid /\ \A s \in Requests \ {r} : req[s].uid # req[r].uid
      /\ req[r].uid \in DOMAIN box
  BY <1>1, <1>3 DEF Numbered, Own, Stored, Writing
<1>5. CASE /\ row' = With(row, k, [uid |-> req[r].uid, locked |-> FALSE]) /\ Go(r, "done")
  <2>1. k \in DOMAIN row' /\ row'[k].uid = req[r].uid
    BY <1>5 DEF With
  <2>2. req'[r].at = "done" /\ \A s \in Requests \ {r} : req'[s] = req[s]
    BY <1>5, Goes
  <2>3. Saved(k)'
    BY <1>1, <1>2, <1>4, <2>1 DEF Saved
  <2>4. \A s \in Requests \ {r} : ~Holds(s, k)
    BY <1>1 DEF Live, Holds, Holders, Holding
  <2> QED
    BY <1>4, <2>1, <2>2, <2>3, <2>4, FreedKeeps DEF Holders, Holding
<1>6. CASE /\ row' = With(row, k, [uid |-> NoUid, locked |-> TRUE]) /\ Go(r, "publish")
  <2>1. k \in DOMAIN row' /\ row'[k].uid = NoUid /\ row'[k].locked
    BY <1>6 DEF With
  <2>2. req'[r].at = "publish" /\ \A s \in Requests \ {r} : req'[s] = req[s]
    BY <1>6, Goes
  <2>3. ASSUME NEW s \in Requests, req'[s].key = k PROVE s = r \/ req'[s].at = "idle"
    BY <1>1, <2>2, <2>3 DEF Live
  <2>4. \A s \in Requests : Holds(s, k)' => s = r
    BY <2>3 DEF Holds, Holders, Holding
  <2>5. \A s \in Requests : req'[s].key = k => Works(s, k)'
    BY <2>2, <2>3 DEF Works
  <2> QED
    BY <2>1, <2>4, <2>5 DEF Content
<1> QED
  BY <1>5, <1>6 DEF Insert

LEMMA NewKeeps ==
  ASSUME TypeOK, Numbered, Keyed, [Next]_vars, NEW r \in Requests, NEW op \in Ops, NEW k \in Keys,
         AcquireNew(r, op, k)
  PROVE  Content(k)'
<1>1. /\ req'[r].at = "load" /\ req'[r].key = k /\ req'[r].op = op /\ req'[r].uid = NoUid
      /\ req'[r].files = {} /\ op # "unattach" /\ k \notin Used
      /\ row' = With(row, k, [uid |-> NoUid, locked |-> TRUE]) /\ UNCHANGED acked
  BY StartDoes DEF AcquireNew, Fresh
<1>2. k \in DOMAIN row' /\ row'[k].uid = NoUid /\ row'[k].locked
  BY <1>1 DEF With
<1>3. ASSUME NEW s \in Requests, req'[s].key = k PROVE s = r \/ req'[s].at = "idle"
  <2>1. s # r => req'[s] = req[s]
    BY Others
  <2>2. Live(s) => req[s].key # k
    BY <1>1 DEF Used, Live
  <2> QED
    BY <1>3, <2>1, <2>2 DEF Live
<1>4. \A s \in Requests : Holds(s, k)' => s = r
  BY <1>3 DEF Holds, Holders, Holding
<1>5. \A s \in Requests : req'[s].key = k => Works(s, k)'
  BY <1>1, <1>2, <1>3 DEF Works
<1> QED
  BY <1>2, <1>4, <1>5 DEF Content

(* A step of a request that neither holds the row nor is about to. *)
LEMMA StepElsewhere ==
  ASSUME TypeOK, NEW r \in Requests, Step(r) \/ Die(r), NEW k \in DOMAIN row, req[r].key # k
  PROVE  k \in DOMAIN row' /\ row'[k] = row[k] /\ acked'[k] = acked[k]
<1>0. k \in DOMAIN acked
  BY Shapes DEF TypeOK
<1>1. CASE \/ WaitForUnlock(r) \/ WaitTimesOut(r) \/ Load(r) \/ DropOld(r) \/ Append(r) \/ AppendFails(r)
           \/ Copy(r) \/ DeleteSource(r) \/ Retry(r) \/ AttachRow(r) \/ AttachFetch(r) \/ Deliver(r)
           \/ Cleanup(r) \/ Expunge(r) \/ Die(r)
  <2>1. UNCHANGED <<row, acked>>
    BY <1>1, Zenon DEF WaitForUnlock, WaitTimesOut, Load, DropOld, Append, AppendFails, Copy, DeleteSource,
       Retry, AttachRow, AttachFetch, Deliver, Cleanup, Expunge, Die
  <2> QED
    BY <2>1
<1>2. CASE LockExisting(r)
  BY <1>2 DEF LockExisting
<1>3. CASE Unlock(r)
  BY <1>3 DEF Unlock
<1>4. CASE Release(r)
  BY <1>0, <1>4 DEF Release
<1>5. CASE Insert(r)
  BY <1>5 DEF Insert, With
<1>6. CASE Publish(r)
  BY <1>0, <1>6 DEF Publish
<1>7. CASE DeleteRow(r)
  BY <1>7 DEF DeleteRow, Without
<1> QED
  BY <1>1, <1>2, <1>3, <1>4, <1>5, <1>6, <1>7 DEF Step

LEMMA StepAside ==
  ASSUME TypeOK, Waits, NEW r \in Requests,
         \/ WaitForUnlock(r) \/ WaitTimesOut(r) \/ Copy(r) \/ DeleteSource(r) \/ Retry(r) \/ AttachRow(r)
         \/ AttachFetch(r) \/ Deliver(r) \/ Cleanup(r) \/ Expunge(r)
  PROVE  /\ UNCHANGED <<row, acked>>
         /\ req[r].at \notin Holders /\ req'[r].at \notin Holders
         /\ req'[r].at = "lock" => req'[r].op = "upload"
<1>1. UNCHANGED <<row, acked>>
  BY Zenon DEF WaitForUnlock, WaitTimesOut, Copy, DeleteSource, Retry, AttachRow, AttachFetch, Deliver,
     Cleanup, Expunge
<1>2. req[r].at \notin Holders
  BY DEF WaitForUnlock, WaitTimesOut, Copy, DeleteSource, Retry, AttachRow, AttachFetch, Deliver,
     Cleanup, Expunge, At, Holders, Holding
<1>3. CASE WaitForUnlock(r)
  <2>1. Go(r, "lock") /\ req[r].op = "upload"
    BY <1>3 DEF WaitForUnlock, At, Waits
  <2> QED
    BY <1>1, <1>2, <2>1, Goes DEF Holders, Holding
<1>4. CASE WaitTimesOut(r) \/ DeleteSource(r) \/ Retry(r) \/ Deliver(r) \/ Expunge(r)
  <2>1. \E step \in {"failed", "done", "attach", "cleanup", "row"} : Go(r, step)
    BY <1>4, Zenon DEF WaitTimesOut, DeleteSource, Retry, Deliver, Expunge
  <2> QED
    BY <1>1, <1>2, <2>1, Goes DEF Holders, Holding
<1>5. CASE Copy(r) \/ AttachRow(r) \/ AttachFetch(r) \/ Cleanup(r)
  <2>1. req'[r].at \in {"failed", "insert", "deliver", "done", "fetch", "expunge"}
    BY <1>5, CopyDoes, ReadsDoes, FetchDoes, Goes
  <2> QED
    BY <1>1, <1>2, <2>1 DEF Holders, Holding
<1> QED
  BY <1>3, <1>4, <1>5

(* What begins with a row that is there looks at it, or waits for it. *)
LEMMA BeginsAside ==
  ASSUME TypeOK, Keyed, NEW r \in Requests, NEW op \in Ops, NEW j \in Keys, NEW k \in DOMAIN row,
         \/ AcquireNew(r, op, j) \/ Look(r, op, j)
         \/ \E files \in {{}} \cup {{s} : s \in Requests} : Acquire(r, op, j, files)
         \/ \E u \in DOMAIN box \cup {NoUid} : Compose(r, op, j, u)
  PROVE  /\ k \in DOMAIN row' /\ row'[k] = row[k] /\ acked'[k] \subseteq acked[k]
         /\ ~Holds(r, k) /\ ~Holds(r, k)'
         /\ req'[r].key = k /\ req'[r].at = "lock" => acked'[k] \cap req'[r].files = {}
<1>0. DOMAIN acked = Keys /\ k \in Keys
  BY Shapes DEF TypeOK
<1>1. req[r].at = "idle"
  BY StartDoes, ComposeDoes DEF AcquireNew, Look, Acquire, Start, Compose, Arrives, At
<1>2. ~Holds(r, k)
  BY <1>1 DEF Holds, Holders, Holding
<1>3. CASE AcquireNew(r, op, j)
  <2>1. j # k
    BY <1>0, <1>3 DEF AcquireNew, Fresh, Keyed, Unused
  <2>2. row' = With(row, j, [uid |-> NoUid, locked |-> TRUE]) /\ UNCHANGED acked /\ req'[r].key = j
    BY <1>3, StartDoes DEF AcquireNew
  <2> QED
    BY <1>2, <2>1, <2>2 DEF With, Holds
<1>4. CASE Look(r, op, j)
  <2>1. \E step \in {"failed", "retry", "attach", "row", "expunge"} : \E files :
           Start(r, op, j, step, row[j].uid, files)
    BY <1>4, Zenon DEF Look
  <2>2. req'[r].at \in {"failed", "retry", "attach", "row", "expunge"}
    BY <2>1, StartDoes
  <2>3. UNCHANGED <<row, acked>>
    BY <1>4 DEF Look
  <2> QED
    BY <1>2, <2>2, <2>3 DEF Holds, Holders, Holding
<1>5. ASSUME NEW files, Acquire(r, op, j, files)
      PROVE  /\ k \in DOMAIN row' /\ row'[k] = row[k] /\ acked'[k] \subseteq acked[k]
             /\ ~Holds(r, k) /\ ~Holds(r, k)'
             /\ req'[r].key = k /\ req'[r].at = "lock" => acked'[k] \cap req'[r].files = {}
  <2>1. \E step \in {"lock", "wait", "failed"} : Start(r, op, j, step, row[j].uid, files)
    BY <1>5 DEF Acquire
  <2>2. req'[r].at \in {"lock", "wait", "failed"} /\ req'[r].key = j /\ req'[r].files = files
    BY <2>1, StartDoes
  <2>3. UNCHANGED row /\ acked' = [acked EXCEPT ![j] = @ \ files]
    BY <1>5 DEF Acquire
  <2> QED
    BY <1>0, <1>2, <2>2, <2>3 DEF Holds, Holders, Holding
<1>6. ASSUME NEW u, Compose(r, op, j, u)
      PROVE  req'[r].at = "copy" /\ UNCHANGED <<row, acked>>
  BY <1>6, ComposeDoes DEF Compose
<1> QED
  BY <1>2, <1>3, <1>4, <1>5, <1>6 DEF Holds, Holders, Holding

LEMMA ContentStep ==
  ASSUME TypeOK, Numbered, Keyed, Waits, Stored, [Next]_vars, NEW k \in Keys, Content(k)
  PROVE  Content(k)'
<1> SUFFICES ASSUME Good(k)' PROVE Content(k)'
  BY DEF Content
<1>0. k \in DOMAIN row'
  BY DEF Good
<1>1. ASSUME NEW r \in Requests, Step(r) \/ Die(r), k \in DOMAIN row, req[r].key = k
      PROVE  Content(k)'
  <2>1. ~Die(r) /\ ~AppendFails(r)
    BY <1>1 DEF Die, AppendFails, Fault, Mark, FaultKinds, Good, Sound
  <2>2. ~DeleteRow(r)
    BY <1>0, <1>1 DEF DeleteRow, Without
  <2>3. ~Insert(r)
    BY <1>1 DEF Insert, At, Keyed, Newborn
  <2>4. CASE \/ WaitForUnlock(r) \/ WaitTimesOut(r) \/ Copy(r) \/ DeleteSource(r) \/ Retry(r) \/ AttachRow(r)
             \/ AttachFetch(r) \/ Deliver(r) \/ Cleanup(r) \/ Expunge(r)
    <3>1. /\ UNCHANGED <<row, acked>>
          /\ req[r].at \notin Holders /\ req'[r].at \notin Holders
          /\ req'[r].at = "lock" => req'[r].op = "upload"
      BY <2>4, StepAside
    <3>2. ~Holds(r, k) /\ ~Holds(r, k)'
      BY <3>1 DEF Holds
    <3>3. \A s \in Requests \ {r} : req'[s] = req[s]
      BY <1>1, Others
    <3> QED
      BY <1>0, <1>1, <3>1, <3>2, <3>3, Undisturbed
  <2> QED
    BY <1>1, <2>1, <2>2, <2>3, <2>4, LockKeeps, LoadKeeps, WriteKeeps, UnlockKeeps, ReleaseKeeps,
       PublishKeeps DEF Step
<1>2. ASSUME NEW r \in Requests, Step(r) \/ Die(r), k \in DOMAIN row, req[r].key # k
      PROVE  Content(k)'
  <2>1. row'[k] = row[k] /\ acked'[k] = acked[k]
    BY <1>2, StepElsewhere
  <2>2. \A s \in Requests \ {r} : req'[s] = req[s]
    BY <1>2, Others
  <2>3. Live(r)
    BY <1>2 DEF Live, Step, WaitForUnlock, WaitTimesOut, LockExisting, Load, DropOld, Append,
       AppendFails, Unlock, Release, Copy, Insert, Publish, DeleteSource, Retry, AttachRow, AttachFetch,
       Deliver, Cleanup, Expunge, DeleteRow, Die, At
  <2>4. req'[r].key # k
    BY <1>2, <2>3, Begins
  <2>5. ~Holds(r, k) /\ ~Holds(r, k)'
    BY <1>2, <2>4 DEF Holds
  <2> QED
    BY <1>0, <1>2, <2>1, <2>2, <2>4, <2>5, Undisturbed
<1>3. ASSUME NEW r \in Requests, NEW op \in Ops, NEW j \in Keys, k \in DOMAIN row,
             \/ AcquireNew(r, op, j) \/ Look(r, op, j)
             \/ \E files \in {{}} \cup {{s} : s \in Requests} : Acquire(r, op, j, files)
             \/ \E u \in DOMAIN box \cup {NoUid} : Compose(r, op, j, u)
      PROVE  Content(k)'
  <2>1. \A s \in Requests \ {r} : req'[s] = req[s]
    BY <1>3, Others
  <2>2. /\ row'[k] = row[k] /\ acked'[k] \subseteq acked[k]
        /\ ~Holds(r, k) /\ ~Holds(r, k)'
        /\ req'[r].key = k /\ req'[r].at = "lock" => acked'[k] \cap req'[r].files = {}
    BY <1>3, BeginsAside
  <2> QED
    BY <1>0, <1>3, <2>1, <2>2, Undisturbed
<1>4. ASSUME NEW r \in Requests, Step(r) \/ Die(r), k \notin DOMAIN row
      PROVE  Content(k)'
  <2>1. CASE \/ WaitForUnlock(r) \/ WaitTimesOut(r) \/ Load(r) \/ DropOld(r) \/ Append(r) \/ AppendFails(r)
             \/ Copy(r) \/ DeleteSource(r) \/ Retry(r) \/ AttachRow(r) \/ AttachFetch(r) \/ Deliver(r)
             \/ Cleanup(r) \/ Expunge(r) \/ Die(r)
    <3>1. UNCHANGED row
      BY <2>1, Zenon DEF WaitForUnlock, WaitTimesOut, Load, DropOld, Append, AppendFails, Copy, DeleteSource,
         Retry, AttachRow, AttachFetch, Deliver, Cleanup, Expunge, Die
    <3> QED
      BY <1>0, <1>4, <3>1
  <2>2. CASE LockExisting(r) \/ Unlock(r) \/ Release(r) \/ Publish(r) \/ DeleteRow(r)
    BY <1>0, <1>4, <2>2 DEF LockExisting, Unlock, Release, Publish, DeleteRow, Without
  <2>3. CASE Insert(r)
    <3>1. req[r].key = k
      BY <1>0, <1>4, <2>3 DEF Insert, With
    <3> QED
      BY <2>3, <3>1, InsertKeeps
  <2> QED
    BY <1>4, <2>1, <2>2, <2>3 DEF Step
<1>5. ASSUME NEW r \in Requests, NEW op \in Ops, NEW j \in Keys, k \notin DOMAIN row,
             \/ AcquireNew(r, op, j) \/ Look(r, op, j)
             \/ \E files \in {{}} \cup {{s} : s \in Requests} : Acquire(r, op, j, files)
             \/ \E u \in DOMAIN box \cup {NoUid} : Compose(r, op, j, u)
      PROVE  Content(k)'
  <2>1. AcquireNew(r, op, j)
    BY <1>0, <1>5, Zenon DEF Look, Acquire, Compose
  <2>2. j = k
    BY <1>0, <1>5, <2>1 DEF AcquireNew, With
  <2> QED
    BY <2>1, <2>2, NewKeeps
<1>6. CASE UNCHANGED vars
  <2>1. k \in DOMAIN row
    BY <1>0, <1>6 DEF vars
  <2> QED
    BY <1>6, <2>1 DEF vars, Content, Good, Sound, Removing, Holds, Saved, Works, Edited
<1> QED
  BY <1>1, <1>2, <1>3, <1>4, <1>5, <1>6 DEF Next

Safe == Numbered /\ Keyed /\ Waits /\ Stored /\ \A k \in Keys : Content(k)

LEMMA SafeInit == Init => Safe
<1> SUFFICES ASSUME Init PROVE Safe
  OBVIOUS
<1>1. DOMAIN row = {} /\ box = [u \in {1} |-> {}] /\ nextUid = 2 /\ acked = [k \in Keys |-> {}]
  BY DEF Init
<1>2. \A r \in Requests : req[r].at = "idle" /\ req[r].uid = NoUid /\ req[r].src = NoUid /\ req[r].body = {}
  BY DEF Init
<1>3. Numbered
  BY <1>1, <1>2 DEF Numbered, Given, Blank, Own, RowsApart, OfItsKey, Writer, Apart, Writing, NoUid
<1>4. Keyed
  BY <1>1, <1>2 DEF Keyed, Newborn, Unused, NothingYet, Begun
<1>5. Waits /\ Stored
  BY <1>2 DEF Waits, Stored, Writing
<1>6. \A k \in Keys : Content(k)
  BY <1>1 DEF Content, Good
<1> QED
  BY <1>3, <1>4, <1>5, <1>6 DEF Safe

(* What the answers of save_draft and upload_attachment told the user is   *)
(* saved is in the message the free row points to, however many requests   *)
(* meet on however many drafts: unless two of them locked the row at the   *)
(* same time or on an outdated UID, the draft was opened a second time,    *)
(* the IMAP server failed, a process died, or the draft is being deleted.  *)
THEOREM AcknowledgedIsInDraft == Spec => []AckedInDraft
<1>1. Init => TypeOK /\ Counted /\ Safe
  BY TypeInit, SafeInit
<1>2. TypeOK /\ Counted /\ Safe /\ [Next]_vars => (TypeOK /\ Counted /\ Safe)'
  <2> SUFFICES ASSUME TypeOK, Counted, Safe, [Next]_vars PROVE (TypeOK /\ Counted /\ Safe)'
    OBVIOUS
  <2>1. TypeOK' /\ Counted'
    BY TypeStep
  <2>2. Numbered' /\ Keyed' /\ Waits' /\ Stored'
    BY <2>1, NumberedStep, KeyedStep, WaitsStep, StoredStep DEF Safe
  <2>3. \A k \in Keys : Content(k)'
    BY ContentStep DEF Safe
  <2> QED
    BY <2>1, <2>2, <2>3 DEF Safe
<1>3. TypeOK /\ Safe => AckedInDraft
  <2> SUFFICES ASSUME TypeOK, Safe, NEW k \in DOMAIN row, Sound(k), ~row[k].locked, ~Removing(k)
               PROVE  Saved(k)
    BY DEF AckedInDraft, Saved
  <2>1. Content(k) /\ Good(k)
    BY DEF TypeOK, Safe, Good
  <2>2. row[k].uid # NoUid /\ \A r \in Requests : ~Holds(r, k)
    BY <2>1 DEF Content
  <2>3. \A r \in Requests : req[r].key = k => req[r].at \notin {"append", "release"}
    BY <2>2 DEF Holds, Holders, Holding
  <2> QED
    BY <2>1, <2>2, <2>3 DEF Content
<1> QED
  BY <1>1, <1>2, <1>3, PTL DEF Spec
=============================================================================
