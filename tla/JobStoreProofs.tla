--------------------------- MODULE JobStoreProofs ---------------------------
(***************************************************************************)
(* Proofs about JobStore for any jobs, processes and length of a list, and *)
(* any number of operations.                                               *)
(***************************************************************************)
EXTENDS JobStore, FiniteSetTheorems, TLAPS

(* A process that writes knows which job: its types alone would let it be  *)
(* at a command of save with no job in hand.                               *)
JobNamed == \A p \in Procs : proc[p].op \in {"save", "delete"} => proc[p].job \in Jobs

TypeInv == TypeOK /\ JobNamed

-----------------------------------------------------------------------------
(* Types *)

(* What a process that begins an operation looks like. *)
LEMMA IdleTyped == IdleProc \in Proc
  BY DEF IdleProc, Proc, Indexes, Status, None

(* Process p goes on as r and no other process moves. *)
LEMMA MoveTyped ==
  ASSUME TypeOK, NEW p \in Procs, NEW r \in Proc, proc' = [proc EXCEPT ![p] = r]
  PROVE  proc' \in [Procs -> Proc] /\ proc'[p] = r /\ \A q \in Procs \ {p} : proc'[q] = proc[q]
  BY DEF TypeOK

(* A change of step leaves a process well-formed. *)
LEMMA GoToTyped ==
  ASSUME TypeOK, NEW p \in Procs, NEW s \in {"user", "pending", "schedule", "prune", "done"},
         GoTo(p, s)
  PROVE  proc' \in [Procs -> Proc]
<1>1. [proc[p] EXCEPT !.step = s] \in Proc
  BY DEF TypeOK, Proc
<1>2. proc' = [proc EXCEPT ![p] = [proc[p] EXCEPT !.step = s]]
  BY DEF GoTo
<1>3. QED
  BY <1>1, <1>2, MoveTyped

(* So does returning. *)
LEMMA ReturnTyped ==
  ASSUME TypeOK, NEW p \in Procs, Return(p) PROVE proc' \in [Procs -> Proc]
  BY IdleTyped, MoveTyped DEF Return

(* And so does beginning an operation, which counts it. *)
LEMMA StartTyped ==
  ASSUME TypeOK, NEW p \in Procs, NEW r \in Proc, Start(p, r)
  PROVE  proc' \in [Procs -> Proc] /\ ops' \in 0 .. MaxOps
  BY StoreAssumption, MoveTyped DEF Start, TypeOK

(* What SaveStart, DeleteGet, ListIds and ListGet make of a process. *)
LEMMA BegunTyped ==
  ASSUME TypeOK
  PROVE  /\ \A j \in Jobs, s \in Status :
               [IdleProc EXCEPT !.op = "save", !.job = j, !.status = s] \in Proc
         /\ \A j \in Jobs :
               [IdleProc EXCEPT !.op = "delete", !.step = "del", !.job = j, !.status = doc[j]] \in Proc
         /\ \A i \in Indexes :
               [IdleProc EXCEPT !.op = "list", !.step = "get", !.index = i,
                                !.todo = Newest(idx[i])] \in Proc
  BY IdleTyped DEF Proc, TypeOK, Newest

LEMMA GotTyped ==
  ASSUME NEW r \in Proc, NEW j \in Jobs, NEW B \in BOOLEAN
  PROVE  [r EXCEPT !.todo = @ \ {j}, !.found = IF B THEN @ \cup {j} ELSE @,
                   !.stale = IF ~B THEN @ \cup {j} ELSE @] \in Proc
<1>1. r.todo \subseteq Jobs /\ r.found \subseteq Jobs /\ r.stale \subseteq Jobs
  BY DEF Proc
<1>2. QED
  BY <1>1 DEF Proc

(* No job is in hand at first. *)
LEMMA TypeInit == Init => TypeInv
  BY StoreAssumption, IdleTyped DEF Init, TypeInv, TypeOK, JobNamed, IdleProc

(* The types survive every step. *)
LEMMA TypeStep == TypeInv /\ [Next]_vars => TypeOK'
<1> SUFFICES ASSUME TypeInv, [Next]_vars PROVE TypeOK'
  OBVIOUS
<1> USE StoreAssumption DEF TypeInv
<1>1. ASSUME NEW p \in Procs, NEW j \in Jobs, NEW s \in Status, SaveStart(p, j, s) PROVE TypeOK'
  BY <1>1, BegunTyped, StartTyped DEF SaveStart, TypeOK
<1>2. ASSUME NEW p \in Procs, NEW j \in Jobs, ListGet(p, j) PROVE TypeOK'
  <2> DEFINE t == [proc[p] EXCEPT !.todo = @ \ {j},
                                  !.found = IF doc[j] # None THEN @ \cup {j} ELSE @,
                                  !.stale = IF ~(doc[j] # None) THEN @ \cup {j} ELSE @]
  <2>1. t \in Proc
    BY GotTyped DEF TypeOK
  <2>2. proc' = [proc EXCEPT ![p] = t]
    BY <1>2 DEF ListGet, TypeOK
  <2>3. proc' \in [Procs -> Proc]
    BY <2>1, <2>2, MoveTyped
  <2>4. QED
    BY <1>2, <2>3 DEF ListGet, TypeOK
<1>3. ASSUME NEW p \in Procs, NEW j \in Jobs, DeleteGet(p, j) PROVE TypeOK'
  BY <1>3, BegunTyped, StartTyped DEF DeleteGet, TypeOK
<1>4. ASSUME NEW p \in Procs, NEW i \in Indexes, ListIds(p, i) PROVE TypeOK'
  BY <1>4, BegunTyped, StartTyped DEF ListIds, TypeOK, Settled
<1>5. ASSUME NEW p \in Procs, SaveDocument(p) PROVE TypeOK'
  BY <1>5, GoToTyped DEF SaveDocument, TypeOK, Proc
<1>6. ASSUME NEW p \in Procs, SaveUserIndex(p) PROVE TypeOK'
  BY <1>6, GoToTyped DEF SaveUserIndex, TypeOK, JobNamed, Add
<1>7. ASSUME NEW p \in Procs, SavePendingIndex(p) PROVE TypeOK'
  BY <1>7, GoToTyped, ReturnTyped DEF SavePendingIndex, TypeOK, JobNamed, Add, Remove
<1>8. ASSUME NEW p \in Procs, SaveScheduleIndex(p) PROVE TypeOK'
  BY <1>8, ReturnTyped DEF SaveScheduleIndex, TypeOK, JobNamed, Add
<1>9. ASSUME NEW p \in Procs, ListPrune(p) PROVE TypeOK'
  BY <1>9, GoToTyped DEF ListPrune, TypeOK, Remove
<1>10. ASSUME NEW p \in Procs, ListReturns(p) PROVE TypeOK'
  BY <1>10, ReturnTyped DEF ListReturns, TypeOK
<1>11. ASSUME NEW p \in Procs, DeleteDocument(p) PROVE TypeOK'
  BY <1>11, GoToTyped DEF DeleteDocument, TypeOK, JobNamed
<1>12. ASSUME NEW p \in Procs, DeletePending(p) PROVE TypeOK'
  BY <1>12, GoToTyped, ReturnTyped DEF DeletePending, TypeOK, Remove
<1>13. ASSUME NEW p \in Procs, DeleteUser(p) PROVE TypeOK'
  BY <1>13, GoToTyped DEF DeleteUser, TypeOK, Remove
<1>14. ASSUME NEW p \in Procs, DeleteSchedule(p) PROVE TypeOK'
  BY <1>14, ReturnTyped DEF DeleteSchedule, TypeOK, Remove
<1>15. ASSUME NEW j \in Jobs, Expire(j) PROVE TypeOK'
  BY <1>15 DEF Expire, TypeOK
<1>16. CASE UNCHANGED vars
  BY <1>16 DEF vars, TypeOK
<1>17. QED
  BY <1>1, <1>2, <1>3, <1>4, <1>5, <1>6, <1>7, <1>8, <1>9, <1>10, <1>11, <1>12, <1>13, <1>14,
     <1>15, <1>16 DEF Next, ProcNext

(* A step leaves every process as it was, lets it go on with the same job, *)
(* gives it one, or leaves it with nothing to write.                       *)
LEMMA JobNamedStep == TypeInv /\ [Next]_vars => JobNamed'
<1> SUFFICES ASSUME TypeInv, [Next]_vars, NEW q \in Procs, proc'[q].op \in {"save", "delete"}
             PROVE  proc'[q].job \in Jobs
  BY DEF JobNamed
<1> USE DEF TypeInv, TypeOK, JobNamed, IdleProc
<1>1. ASSUME NEW p \in Procs, NEW j \in Jobs, NEW s \in Status, SaveStart(p, j, s)
      PROVE  proc'[q].job \in Jobs
  BY <1>1 DEF SaveStart, Start
<1>2. ASSUME NEW p \in Procs, NEW j \in Jobs, ListGet(p, j) PROVE proc'[q].job \in Jobs
  BY <1>2 DEF ListGet, Proc
<1>3. ASSUME NEW p \in Procs, NEW j \in Jobs, DeleteGet(p, j) PROVE proc'[q].job \in Jobs
  BY <1>3 DEF DeleteGet, Start
<1>4. ASSUME NEW p \in Procs, NEW i \in Indexes, ListIds(p, i) PROVE proc'[q].job \in Jobs
  BY <1>4 DEF ListIds, Start
<1>5. ASSUME NEW p \in Procs, NEW s, GoTo(p, s) \/ Return(p) PROVE proc'[q].job \in Jobs
  <2>1. proc \in [Procs -> Proc] /\ proc[q] \in Proc
    OBVIOUS
  <2>2. CASE GoTo(p, s)
    <3>1. proc'[q].op = proc[q].op /\ proc'[q].job = proc[q].job
      BY <2>1, <2>2 DEF GoTo, Proc
    <3> QED
      BY <3>1
  <2>3. CASE Return(p)
    <3>1. proc'[q] = proc[q] \/ proc'[q] = IdleProc
      BY <2>1, <2>3 DEF Return
    <3> QED
      BY <3>1
  <2> QED
    BY <1>5, <2>2, <2>3
<1>6. CASE UNCHANGED proc
  BY <1>6
<1>7. QED
  BY <1>1, <1>2, <1>3, <1>4, <1>5, <1>6
  DEF Next, ProcNext, Expire, SaveDocument, SaveUserIndex, SavePendingIndex, SaveScheduleIndex,
      ListPrune, ListReturns, DeleteDocument, DeletePending, DeleteUser, DeleteSchedule, vars

(* JobStore's state is always of its type. *)
THEOREM StoreTypes == Spec => []TypeOK
<1>1. TypeInv /\ [Next]_vars => TypeInv'
  BY TypeStep, JobNamedStep DEF TypeInv
<1>2. TypeInv => TypeOK
  BY DEF TypeInv
<1>3. QED
  BY TypeInit, <1>1, <1>2, PTL DEF Spec

-----------------------------------------------------------------------------
(* What a list returns *)

(* A job that a list must find is not being written and has a document, as *)
(* any writer strikes it off when it begins.                               *)
SteadyKept == \A p \in Procs : \A j \in steady[p] : doc[j] # None /\ ~Writing(j)

(* It was found already or is still to be read. *)
ListCovers ==
    \A p \in Procs : proc[p].op = "list" =>
        /\ steady[p] \subseteq proc[p].found \cup proc[p].todo
        /\ proc[p].step = "done" => proc[p].todo = {}

(* An index has as many ids as were ever added, whatever the jobs are. *)
FiniteIndexes == \A i \in Indexes : IsFiniteSet(idx[i])

ListInv == TypeInv /\ FiniteIndexes /\ SteadyKept /\ ListCovers

(* A range of Limit ids leaves out nothing of an index that is no longer. *)
LEMMA NewestIsAll ==
  ASSUME TypeOK, NEW S \in SUBSET Jobs, IsFiniteSet(S), Cardinality(S) <= Limit
  PROVE  Newest(S) = S
<1> SUFFICES ASSUME NEW j \in S PROVE Cardinality({i \in S : Rank[i] > Rank[j]}) < Limit
  BY DEF Newest
<1> DEFINE T == {i \in S : Rank[i] > Rank[j]}
<1>1. T \subseteq S /\ T # S
  BY StoreAssumption
<1>2. Cardinality(T) \in Nat /\ Cardinality(S) \in Nat
  BY <1>1, FS_Subset, FS_CardinalityType
<1>3. Cardinality(T) <= Cardinality(S) /\ Cardinality(T) # Cardinality(S)
  BY <1>1, FS_Subset
<1>4. QED
  BY <1>2, <1>3, StoreAssumption

(* Whoever writes a job after a step wrote it before or has just begun. *)
LEMMA NoNewWriter ==
  ASSUME TypeInv, NEW p \in Procs, NEW s, GoTo(p, s) \/ Return(p)
  PROVE  \A j \in Jobs : ~Writing(j) => ~Writing(j)'
<1> SUFFICES ASSUME NEW j \in Jobs, NEW q \in Procs,
                    proc'[q].op \in {"save", "delete"}, proc'[q].job = j
             PROVE  Writing(j)
  BY DEF Writing
<1>1. proc[q].op = proc'[q].op /\ proc[q].job = proc'[q].job
  BY DEF TypeInv, TypeOK, Proc, GoTo, Return, IdleProc
<1>2. QED
  BY <1>1 DEF Writing

LEMMA FiniteStep == TypeInv /\ FiniteIndexes /\ [Next]_vars => FiniteIndexes'
<1> SUFFICES ASSUME TypeInv, FiniteIndexes, [Next]_vars, NEW i \in Indexes
             PROVE  IsFiniteSet(idx'[i])
  BY DEF FiniteIndexes
<1> USE DEF TypeInv, TypeOK
<1>1. IsFiniteSet(idx[i])
  BY DEF FiniteIndexes
<1>2. ASSUME NEW k \in Indexes, NEW j, Add(k, j) PROVE IsFiniteSet(idx'[i])
  BY <1>1, <1>2, FS_AddElement DEF Add
<1>3. ASSUME NEW k \in Indexes, NEW S, Remove(k, S) PROVE IsFiniteSet(idx'[i])
  <2>1. idx'[i] \subseteq idx[i]
    BY <1>3 DEF Remove
  <2>2. QED
    BY <1>1, <2>1, FS_Subset
<1>4. CASE UNCHANGED idx
  BY <1>1, <1>4
<1>5. ASSUME NEW p \in Procs, ListPrune(p) PROVE IsFiniteSet(idx'[i])
  <2>1. proc[p].index \in Indexes
    BY DEF Proc
  <2>2. QED
    BY <1>3, <1>5, <2>1 DEF ListPrune
<1>6. ASSUME NEW p \in Procs, SavePendingIndex(p) PROVE IsFiniteSet(idx'[i])
  BY <1>2, <1>3, <1>6 DEF SavePendingIndex, Indexes
<1>7. ASSUME NEW p \in Procs, SaveUserIndex(p) \/ SaveScheduleIndex(p) PROVE IsFiniteSet(idx'[i])
  BY <1>2, <1>7 DEF SaveUserIndex, SaveScheduleIndex, Indexes
<1>8. ASSUME NEW p \in Procs, DeletePending(p) \/ DeleteUser(p) \/ DeleteSchedule(p)
      PROVE  IsFiniteSet(idx'[i])
  BY <1>3, <1>4, <1>8 DEF DeletePending, DeleteUser, DeleteSchedule, Indexes
<1>9. QED
  BY <1>4, <1>5, <1>6, <1>7, <1>8
  DEF Next, ProcNext, Expire, SaveStart, SaveDocument, ListIds, ListGet, ListReturns, DeleteGet,
      DeleteDocument, vars

(* No step touches a job a list must find without striking it off. *)
LEMMA SteadyStep == TypeInv /\ SteadyKept /\ [Next]_vars => SteadyKept'
<1> SUFFICES ASSUME TypeInv, SteadyKept, [Next]_vars, NEW q \in Procs, NEW k \in steady'[q]
             PROVE  doc'[k] # None /\ ~Writing(k)'
  BY DEF SteadyKept
<1> USE DEF TypeInv, TypeOK
<1> DEFINE Kept == doc[k] # None /\ ~Writing(k) /\ k \in Jobs
           Goal == doc'[k] # None /\ ~Writing(k)'
<1>1. steady'[q] \subseteq steady[q] => Kept
  BY DEF SteadyKept
<1>2. ASSUME NEW p \in Procs, NEW j \in Jobs, NEW s \in Status, SaveStart(p, j, s) PROVE Goal
  BY <1>1, <1>2 DEF SaveStart, Start, Writing, IdleProc
<1>3. ASSUME NEW p \in Procs, NEW j \in Jobs, ListGet(p, j) PROVE Goal
  BY <1>1, <1>3 DEF ListGet, Writing
<1>4. ASSUME NEW p \in Procs, NEW j \in Jobs, DeleteGet(p, j) PROVE Goal
  BY <1>1, <1>4 DEF DeleteGet, Start, Writing, IdleProc
<1>5. ASSUME NEW p \in Procs, NEW i \in Indexes, ListIds(p, i) PROVE Goal
  <2>1. doc[k] # None /\ ~Writing(k)
    <3>1. CASE q # p
      BY <1>1, <1>5, <3>1 DEF ListIds
    <3>2. CASE q = p
      BY <1>5, <3>2 DEF ListIds, Settled
    <3>3. QED
      BY <3>1, <3>2
  <2>2. QED
    BY <1>5, <2>1 DEF ListIds, Start, Writing, IdleProc
<1>6. ASSUME NEW p \in Procs, SaveDocument(p) \/ DeleteDocument(p) PROVE Goal
  <2>1. Kept /\ k # proc[p].job
    BY <1>1, <1>6 DEF SaveDocument, DeleteDocument, Writing
  <2>2. PICK s : GoTo(p, s)
    BY <1>6 DEF SaveDocument, DeleteDocument
  <2>3. QED
    BY <1>6, <2>1, <2>2, NoNewWriter DEF SaveDocument, DeleteDocument
<1>7. ASSUME NEW j \in Jobs, Expire(j) PROVE Goal
  BY <1>1, <1>7 DEF Expire, Writing
<1>8. ASSUME NEW p \in Procs, NEW s, GoTo(p, s) \/ Return(p), UNCHANGED doc,
             steady'[q] \subseteq steady[q]
      PROVE  Goal
  BY <1>1, <1>8, NoNewWriter
<1>9. ASSUME NEW p \in Procs, ListReturns(p) PROVE Goal
  <2>1. steady'[q] \subseteq steady[q]
    BY <1>9 DEF ListReturns
  <2>2. QED
    BY <1>8, <1>9, <2>1 DEF ListReturns
<1>10. CASE UNCHANGED vars
  BY <1>1, <1>10 DEF vars, Writing
<1>11. QED
  BY <1>2, <1>3, <1>4, <1>5, <1>6, <1>7, <1>8, <1>9, <1>10
  DEF Next, ProcNext, SaveUserIndex, SavePendingIndex, SaveScheduleIndex, ListPrune, DeletePending,
      DeleteUser, DeleteSchedule

(* Reading a document moves its id from what is still to be read to what  *)
(* was found, unless the document is gone, and then no list must find it. *)
LEMMA CoversStep == ListInv /\ [Next]_vars => ListCovers'
<1> SUFFICES ASSUME ListInv, [Next]_vars, NEW q \in Procs, proc'[q].op = "list"
             PROVE  /\ steady'[q] \subseteq proc'[q].found \cup proc'[q].todo
                    /\ proc'[q].step = "done" => proc'[q].todo = {}
  BY DEF ListCovers
<1> USE DEF ListInv, TypeInv, TypeOK
<1> DEFINE Goal == /\ steady'[q] \subseteq proc'[q].found \cup proc'[q].todo
                   /\ proc'[q].step = "done" => proc'[q].todo = {}
<1>1. proc'[q] = proc[q] /\ steady'[q] \subseteq steady[q] => Goal
  BY DEF ListCovers
<1>2. ASSUME NEW p \in Procs, NEW j \in Jobs, NEW s \in Status, SaveStart(p, j, s) PROVE Goal
  BY <1>1, <1>2 DEF SaveStart, Start, IdleProc
<1>3. ASSUME NEW p \in Procs, NEW j \in Jobs, ListGet(p, j) PROVE Goal
  <2>1. CASE q # p
    BY <1>1, <1>3, <2>1 DEF ListGet
  <2>2. CASE q = p
    <3>1. proc[p] \in Proc
      OBVIOUS
    <3>2. /\ proc'[p].todo = proc[p].todo \ {j}
          /\ proc'[p].found = IF doc[j] # None THEN proc[p].found \cup {j} ELSE proc[p].found
          /\ proc'[p].step = "get" /\ steady'[p] = steady[p]
      BY <1>3, <3>1 DEF ListGet, Proc
    <3>3. doc[j] = None => j \notin steady[p]
      BY DEF SteadyKept
    <3>4. steady[p] \subseteq proc[p].found \cup proc[p].todo
      BY <1>3 DEF ListGet, ListCovers
    <3>5. QED
      BY <2>2, <3>2, <3>3, <3>4
  <2>3. QED
    BY <2>1, <2>2
<1>4. ASSUME NEW p \in Procs, NEW j \in Jobs, DeleteGet(p, j) PROVE Goal
  BY <1>1, <1>4 DEF DeleteGet, Start, IdleProc
<1>5. ASSUME NEW p \in Procs, NEW i \in Indexes, ListIds(p, i) PROVE Goal
  <2>1. CASE q # p
    BY <1>1, <1>5, <2>1 DEF ListIds, Start
  <2>2. CASE q = p
    <3>1. /\ proc'[p].todo = Newest(idx[i]) /\ proc'[p].step = "get"
          /\ steady'[p] = IF Cardinality(idx[i]) <= Limit THEN Settled(i) ELSE {}
      BY <1>5 DEF ListIds, Start, IdleProc
    <3>2. Cardinality(idx[i]) <= Limit => Settled(i) \subseteq Newest(idx[i])
      BY NewestIsAll DEF FiniteIndexes, Settled
    <3>3. QED
      BY <2>2, <3>1, <3>2
  <2>3. QED
    BY <2>1, <2>2
<1>6. ASSUME NEW p \in Procs, ListPrune(p) PROVE Goal
  <2>1. CASE q # p
    BY <1>1, <1>6, <2>1 DEF ListPrune, GoTo
  <2>2. CASE q = p
    BY <1>6, <2>2 DEF ListPrune, GoTo, ListCovers, Proc
  <2>3. QED
    BY <2>1, <2>2
<1>7. ASSUME NEW p \in Procs, NEW s, GoTo(p, s) \/ Return(p), proc[p].op # "list",
             steady' = steady
      PROVE  Goal
  BY <1>1, <1>7 DEF GoTo, Return, IdleProc, Proc
<1>8. ASSUME NEW p \in Procs, ListReturns(p) PROVE Goal
  BY <1>1, <1>8 DEF ListReturns, Return, IdleProc
<1>9. ASSUME NEW j \in Jobs, Expire(j) PROVE Goal
  BY <1>1, <1>9 DEF Expire
<1>10. CASE UNCHANGED vars
  BY <1>1, <1>10 DEF vars
<1>11. QED
  BY <1>2, <1>3, <1>4, <1>5, <1>6, <1>7, <1>8, <1>9, <1>10
  DEF Next, ProcNext, SaveDocument, SaveUserIndex, SavePendingIndex, SaveScheduleIndex,
      DeleteDocument, DeletePending, DeleteUser, DeleteSchedule

(* Whatever the others write, delete or let expire, and whether or not     *)
(* writers take turns, a list returns every job that was indexed when it   *)
(* began and that nobody has touched since.                                *)
THEOREM ListingIsComplete == Spec => []ListingComplete
<1>1. Init => ListInv
  <2> SUFFICES ASSUME Init PROVE FiniteIndexes /\ SteadyKept /\ ListCovers
    BY TypeInit DEF ListInv
  <2>1. FiniteIndexes
    BY FS_EmptySet DEF Init, FiniteIndexes
  <2>2. SteadyKept /\ ListCovers
    BY DEF Init, SteadyKept, ListCovers, IdleProc
  <2>3. QED
    BY <2>1, <2>2
<1>2. ListInv /\ [Next]_vars => ListInv'
  BY TypeStep, JobNamedStep, FiniteStep, SteadyStep, CoversStep DEF ListInv, TypeInv
<1>3. ListInv => ListingComplete
  BY DEF ListInv, ListCovers, ListingComplete
<1>4. QED
  BY <1>1, <1>2, <1>3, PTL DEF Spec

-----------------------------------------------------------------------------
(* What the indexes hold, when no two processes write a job at once *)

OneWriter ==
    \A p, q \in Procs :
        /\ proc[p].op \in {"save", "delete"} /\ proc[q].op \in {"save", "delete"}
        /\ proc[p].job = proc[q].job
        => p = q

(* A job whose document has gone is not saved again. *)
GoneForGood ==
    \A j \in gone : doc[j] = None /\ \A p \in Procs : proc[p].op = "save" => proc[p].job # j

(* An id in an index, and one that a list read there, had its document    *)
(* written first; so an id whose document a list missed is gone for good,  *)
(* and pruning it takes no other job out of the index.                     *)
Known(j) == doc[j] # None \/ j \in gone
IndexedKnown == \A i \in Indexes : \A j \in idx[i] : Known(j)
ReadKnown == \A p \in Procs : proc[p].stale \subseteq gone /\ \A j \in proc[p].todo : Known(j)

(* What the earlier commands of a save have written is still there. *)
SaveProgress ==
    \A p \in Procs : proc[p].op = "save" =>
        LET j == proc[p].job IN
        /\ proc[p].status \in Status
        /\ proc[p].step # "set" => doc[j] = proc[p].status
        /\ proc[p].step \in {"pending", "schedule"} /\ j \in Owned => j \in idx["user"]
        /\ proc[p].step = "schedule" /\ proc[p].status \notin Terminal => j \in idx["pending"]

(* A delete cleans the indexes after the document has gone. *)
DeleteProgress ==
    \A p \in Procs : proc[p].op = "delete" /\ proc[p].step # "del" => proc[p].job \in gone

StoreInv ==
    /\ TypeInv /\ OneWriter /\ GoneForGood /\ IndexedKnown /\ ReadKnown
    /\ SaveProgress /\ DeleteProgress /\ IndexComplete

(* A process that goes to another step changes nothing else, and one that *)
(* returns has nothing left.                                               *)
LEMMA Moves ==
  ASSUME TypeOK, NEW p \in Procs, NEW s, GoTo(p, s) \/ Return(p), NEW q \in Procs
  PROVE  \/ proc'[q] = proc[q] /\ q # p
         \/ /\ GoTo(p, s) /\ q = p
            /\ proc'[q].op = proc[q].op /\ proc'[q].job = proc[q].job
            /\ proc'[q].status = proc[q].status /\ proc'[q].step = s
            /\ proc'[q].todo = proc[q].todo /\ proc'[q].stale = proc[q].stale
         \/ /\ Return(p) /\ q = p /\ proc'[q].op = "idle"
            /\ proc'[q].todo = {} /\ proc'[q].stale = {}
<1>1. CASE GoTo(p, s)
  BY <1>1 DEF TypeOK, Proc, GoTo
<1>2. CASE Return(p)
  BY <1>2 DEF TypeOK, IdleProc, Return
<1>3. QED
  BY <1>1, <1>2

(* Who begins to write a job finds nobody writing it. *)
LEMMA OneWriterStep == Serial /\ TypeInv /\ OneWriter /\ [Next]_vars => OneWriter'
<1> SUFFICES ASSUME Serial, TypeInv, OneWriter, [Next]_vars, NEW a \in Procs, NEW b \in Procs,
                    proc'[a].op \in {"save", "delete"}, proc'[b].op \in {"save", "delete"},
                    proc'[a].job = proc'[b].job
             PROVE  a = b
  BY DEF OneWriter
<1> USE DEF TypeInv, TypeOK, IdleProc
<1>1. ASSUME NEW p \in Procs, NEW j \in Jobs, NEW s \in Status, SaveStart(p, j, s) PROVE a = b
  BY <1>1 DEF SaveStart, Start, Writing, OneWriter
<1>2. ASSUME NEW p \in Procs, NEW j \in Jobs, ListGet(p, j) PROVE a = b
  BY <1>2 DEF ListGet, OneWriter, Proc
<1>3. ASSUME NEW p \in Procs, NEW j \in Jobs, DeleteGet(p, j) PROVE a = b
  BY <1>3 DEF DeleteGet, Start, Writing, OneWriter
<1>4. ASSUME NEW p \in Procs, NEW i \in Indexes, ListIds(p, i) PROVE a = b
  BY <1>4 DEF ListIds, Start, OneWriter
<1>5. ASSUME NEW p \in Procs, NEW s, GoTo(p, s) \/ Return(p) PROVE a = b
  BY <1>5 DEF GoTo, Return, OneWriter, Proc
<1>6. CASE UNCHANGED proc
  BY <1>6 DEF OneWriter
<1>7. QED
  BY <1>1, <1>2, <1>3, <1>4, <1>5, <1>6
  DEF Next, ProcNext, Expire, SaveDocument, SaveUserIndex, SavePendingIndex, SaveScheduleIndex,
      ListPrune, ListReturns, DeleteDocument, DeletePending, DeleteUser, DeleteSchedule, vars

(* A known job stays known: a save writes a status, and whatever removes a *)
(* document records that it has gone.                                      *)
LEMMA KnownStays ==
  ASSUME StoreInv, [Next]_vars
  PROVE  gone \subseteq gone' /\ \A j \in Jobs : Known(j) => Known(j)'
<1> USE DEF StoreInv, TypeInv, TypeOK, Known
<1>1. ASSUME NEW p \in Procs, SaveDocument(p)
      PROVE  gone \subseteq gone' /\ \A j \in Jobs : Known(j) => Known(j)'
  BY <1>1 DEF SaveDocument, SaveProgress, Status, Terminal, None
<1>2. ASSUME NEW p \in Procs, DeleteDocument(p)
      PROVE  gone \subseteq gone' /\ \A j \in Jobs : Known(j) => Known(j)'
  BY <1>2 DEF DeleteDocument
<1>3. ASSUME NEW i \in Jobs, Expire(i)
      PROVE  gone \subseteq gone' /\ \A j \in Jobs : Known(j) => Known(j)'
  BY <1>3 DEF Expire
<1>4. CASE UNCHANGED <<doc, gone>>
  BY <1>4
<1>5. ASSUME NEW p \in Procs, ProcNext(p), ~SaveDocument(p), ~DeleteDocument(p)
      PROVE  UNCHANGED <<doc, gone>>
  BY <1>5
  DEF ProcNext, SaveStart, SaveUserIndex, SavePendingIndex, SaveScheduleIndex,
      ListIds, ListGet, ListPrune, ListReturns, DeleteGet, DeletePending,
      DeleteUser, DeleteSchedule
<1>6. QED
  BY <1>1, <1>2, <1>3, <1>4, <1>5 DEF Next, vars

(* Only a delete and an expiry make a job gone, and no save is running on  *)
(* it then; a save of a job that is gone does not begin.                   *)
LEMMA GoneStep == Serial /\ StoreInv /\ [Next]_vars => GoneForGood'
<1> DEFINE Lost(k) == doc[k] = None /\ \A q \in Procs : proc[q].op = "save" => proc[q].job # k
<1> SUFFICES ASSUME Serial, StoreInv, [Next]_vars, NEW k \in gone' PROVE Lost(k)'
  BY DEF GoneForGood
<1> USE DEF StoreInv, TypeInv, TypeOK
<1>1. k \in gone => Lost(k) /\ k \in Jobs
  BY DEF GoneForGood
<1>2. ASSUME NEW p \in Procs, NEW j \in Jobs, NEW s \in Status, SaveStart(p, j, s) PROVE Lost(k)'
  BY <1>1, <1>2 DEF SaveStart, Start, IdleProc
<1>3. ASSUME NEW p \in Procs, NEW j \in Jobs, ListGet(p, j) PROVE Lost(k)'
  BY <1>1, <1>3 DEF ListGet
<1>4. ASSUME NEW p \in Procs, NEW j \in Jobs, DeleteGet(p, j) PROVE Lost(k)'
  BY <1>1, <1>4 DEF DeleteGet, Start, IdleProc
<1>5. ASSUME NEW p \in Procs, NEW i \in Indexes, ListIds(p, i) PROVE Lost(k)'
  BY <1>1, <1>5 DEF ListIds, Start, IdleProc
<1>6. ASSUME NEW p \in Procs, NEW s, GoTo(p, s) \/ Return(p), gone' = gone, doc' = doc
      PROVE  Lost(k)'
  BY <1>1, <1>6, Moves
<1>7. ASSUME NEW p \in Procs, SaveDocument(p) PROVE Lost(k)'
  <2>1. Lost(k) /\ k # proc[p].job
    BY <1>1, <1>7 DEF SaveDocument
  <2>2. doc'[k] = doc[k]
    BY <1>7, <2>1 DEF SaveDocument
  <2>3. QED
    BY <1>7, <2>1, <2>2, Moves DEF SaveDocument
<1>8. ASSUME NEW p \in Procs, DeleteDocument(p) PROVE Lost(k)'
  <2>1. ASSUME k = proc[p].job PROVE Lost(k)'
    <3>1. \A q \in Procs : proc[q].op = "save" => proc[q].job # k
      BY <1>8, <2>1 DEF DeleteDocument, OneWriter
    <3>2. doc'[k] = None
      BY <1>8, <2>1 DEF DeleteDocument, JobNamed
    <3>3. QED
      BY <1>8, <3>1, <3>2, Moves DEF DeleteDocument
  <2>2. ASSUME k # proc[p].job PROVE Lost(k)'
    <3>1. Lost(k) /\ doc'[k] = doc[k]
      BY <1>1, <1>8, <2>2 DEF DeleteDocument
    <3>2. QED
      BY <1>8, <3>1, Moves DEF DeleteDocument
  <2>3. QED
    BY <2>1, <2>2
<1>9. ASSUME NEW j \in Jobs, Expire(j) PROVE Lost(k)'
  BY <1>1, <1>9 DEF Expire, Writing
<1>10. CASE UNCHANGED vars
  BY <1>1, <1>10 DEF vars
<1>11. QED
  BY <1>2, <1>3, <1>4, <1>5, <1>6, <1>7, <1>8, <1>9, <1>10
  DEF Next, ProcNext, SaveUserIndex, SavePendingIndex, SaveScheduleIndex, ListPrune, ListReturns,
      DeletePending, DeleteUser, DeleteSchedule

(* A save adds an id after its document. *)
LEMMA IndexedStep == StoreInv /\ [Next]_vars => IndexedKnown'
<1> SUFFICES ASSUME StoreInv, [Next]_vars, NEW i \in Indexes, NEW k \in idx'[i]
             PROVE  Known(k)'
  BY DEF IndexedKnown
<1> USE DEF StoreInv, TypeInv, TypeOK
<1>1. k \in idx[i] => Known(k)'
  BY KnownStays DEF IndexedKnown
<1>2. ASSUME NEW p \in Procs, NEW x \in Indexes, proc[p].op = "save", proc[p].step # "set",
             Add(x, proc[p].job)
      PROVE  Known(k)'
  <2>1. k \in idx[i] \/ k = proc[p].job
    BY <1>2 DEF Add
  <2>2. Known(proc[p].job) /\ proc[p].job \in Jobs
    BY <1>2 DEF SaveProgress, JobNamed, Known, Status, Terminal, None
  <2>3. QED
    BY <1>1, <2>1, <2>2, KnownStays
<1>3. ASSUME NEW x \in Indexes, NEW S, Remove(x, S) PROVE Known(k)'
  BY <1>1, <1>3 DEF Remove
<1>4. CASE idx' = idx
  BY <1>1, <1>4
<1>5. ASSUME NEW p \in Procs, ListPrune(p) PROVE Known(k)'
  <2>1. proc[p].index \in Indexes
    BY DEF Proc
  <2>2. QED
    BY <1>3, <1>5, <2>1 DEF ListPrune
<1>6. ASSUME NEW p \in Procs, SaveUserIndex(p) \/ SavePendingIndex(p) \/ SaveScheduleIndex(p)
      PROVE  Known(k)'
  BY <1>2, <1>3, <1>6 DEF SaveUserIndex, SavePendingIndex, SaveScheduleIndex, Indexes
<1>7. ASSUME NEW p \in Procs, DeletePending(p) \/ DeleteUser(p) \/ DeleteSchedule(p)
      PROVE  Known(k)'
  BY <1>3, <1>4, <1>7 DEF DeletePending, DeleteUser, DeleteSchedule, Indexes
<1>8. CASE UNCHANGED vars
  BY <1>4, <1>8 DEF vars
<1>9. ASSUME NEW j \in Jobs, Expire(j) PROVE Known(k)'
  BY <1>4, <1>9 DEF Expire
<1>10. ASSUME NEW p \in Procs,
              \/ \E j \in Jobs : \/ \E s \in Status : SaveStart(p, j, s)
                                \/ ListGet(p, j) \/ DeleteGet(p, j)
              \/ \E x \in Indexes : ListIds(p, x)
       PROVE  Known(k)'
  BY <1>4, <1>10 DEF SaveStart, ListIds, ListGet, DeleteGet
<1>11. ASSUME NEW p \in Procs, SaveDocument(p) \/ ListReturns(p) \/ DeleteDocument(p) PROVE Known(k)'
  BY <1>4, <1>11 DEF SaveDocument, ListReturns, DeleteDocument
<1>12. QED
  BY <1>5, <1>6, <1>7, <1>8, <1>9, <1>10, <1>11 DEF Next, ProcNext

(* A list reads ids from an index and marks those that are gone. *)
LEMMA ReadStep == StoreInv /\ [Next]_vars => ReadKnown'
<1> DEFINE Reads(q) == proc[q].stale \subseteq gone /\ \A j \in proc[q].todo : Known(j)
<1> SUFFICES ASSUME StoreInv, [Next]_vars, NEW q \in Procs PROVE Reads(q)'
  BY DEF ReadKnown
<1> USE DEF StoreInv, TypeInv, TypeOK
<1>1. proc[q].todo \subseteq Jobs /\ Reads(q)
  BY DEF ReadKnown, Proc
<1>2. proc'[q].todo \subseteq proc[q].todo /\ proc'[q].stale \subseteq proc[q].stale => Reads(q)'
  BY <1>1, KnownStays
<1>3. proc'[q].todo = {} /\ proc'[q].stale = {} => Reads(q)'
  OBVIOUS
<1>4. ASSUME NEW p \in Procs, NEW s, GoTo(p, s) \/ Return(p) PROVE Reads(q)'
  BY <1>2, <1>3, <1>4, Moves
<1>5. ASSUME NEW p \in Procs, NEW j \in Jobs, NEW s \in Status, SaveStart(p, j, s) PROVE Reads(q)'
  BY <1>2, <1>3, <1>5 DEF SaveStart, Start, IdleProc
<1>6. ASSUME NEW p \in Procs, NEW j \in Jobs, DeleteGet(p, j) PROVE Reads(q)'
  BY <1>2, <1>3, <1>6 DEF DeleteGet, Start, IdleProc
<1>7. ASSUME NEW p \in Procs, NEW i \in Indexes, ListIds(p, i) PROVE Reads(q)'
  <2>1. CASE q # p
    BY <1>2, <1>7, <2>1 DEF ListIds, Start
  <2>2. CASE q = p
    <3>1. proc'[p].todo \subseteq idx[i] /\ proc'[p].stale = {}
      BY <1>7 DEF ListIds, Start, IdleProc, Newest
    <3>2. QED
      BY <2>2, <3>1, KnownStays DEF IndexedKnown
  <2>3. QED
    BY <2>1, <2>2
<1>8. ASSUME NEW p \in Procs, NEW j \in Jobs, ListGet(p, j) PROVE Reads(q)'
  <2>1. CASE q # p
    BY <1>2, <1>8, <2>1 DEF ListGet
  <2>2. CASE q = p
    <3>1. proc[p] \in Proc
      OBVIOUS
    <3>2. /\ proc'[p].todo = proc[p].todo \ {j} /\ j \in proc[p].todo
          /\ proc'[p].stale = IF doc[j] = None THEN proc[p].stale \cup {j} ELSE proc[p].stale
      BY <1>8, <3>1 DEF ListGet, Proc
    <3>3. doc[j] = None => j \in gone
      BY <1>1, <2>2, <3>2 DEF Known
    <3>4. QED
      BY <1>1, <2>2, <3>2, <3>3, KnownStays
  <2>3. QED
    BY <2>1, <2>2
<1>9. CASE proc' = proc
  BY <1>2, <1>9
<1>10. QED
  BY <1>4, <1>5, <1>6, <1>7, <1>8, <1>9
  DEF Next, ProcNext, Expire, SaveDocument, SaveUserIndex, SavePendingIndex, SaveScheduleIndex,
      ListPrune, ListReturns, DeleteDocument, DeletePending, DeleteUser, DeleteSchedule, vars

(* A delete goes on only after its document has gone. *)
LEMMA DeleteStep == StoreInv /\ [Next]_vars => DeleteProgress'
<1> SUFFICES ASSUME StoreInv, [Next]_vars, NEW q \in Procs,
                    proc'[q].op = "delete", proc'[q].step # "del"
             PROVE  proc'[q].job \in gone'
  BY DEF DeleteProgress
<1> USE DEF StoreInv, TypeInv, TypeOK
<1>1. proc'[q] = proc[q] => proc'[q].job \in gone'
  BY KnownStays DEF DeleteProgress
<1>2. ASSUME NEW p \in Procs, NEW s, GoTo(p, s) \/ Return(p),
             proc[p].op # "delete" \/ proc[p].step # "del"
      PROVE  proc'[q].job \in gone'
  BY <1>1, <1>2, Moves, KnownStays DEF DeleteProgress
<1>3. ASSUME NEW p \in Procs, DeleteDocument(p) PROVE proc'[q].job \in gone'
  BY <1>1, <1>3, Moves DEF DeleteDocument
<1>4. ASSUME NEW p \in Procs, NEW r, Start(p, r), r.op = "delete" => r.step = "del"
      PROVE  proc'[q].job \in gone'
  BY <1>1, <1>4 DEF Start
<1>5. ASSUME NEW p \in Procs, NEW j \in Jobs, ListGet(p, j) PROVE proc'[q].job \in gone'
  BY <1>1, <1>5 DEF ListGet, Proc
<1>6. ASSUME NEW p \in Procs,
             \/ \E j \in Jobs : DeleteGet(p, j) \/ \E s \in Status : SaveStart(p, j, s)
             \/ \E i \in Indexes : ListIds(p, i)
      PROVE  proc'[q].job \in gone'
  BY <1>4, <1>6 DEF DeleteGet, SaveStart, ListIds, IdleProc
<1>7. CASE proc' = proc
  BY <1>1, <1>7
<1>8. QED
  BY <1>2, <1>3, <1>5, <1>6, <1>7
  DEF Next, ProcNext, Expire, SaveDocument, SaveUserIndex, SavePendingIndex, SaveScheduleIndex,
      ListPrune, ListReturns, DeletePending, DeleteUser, DeleteSchedule, vars

(* No process that writes the job takes a step. *)
Untouched(j) ==
    \A p \in Procs : proc[p].op \in {"save", "delete"} /\ proc[p].job = j => proc'[p] = proc[p]

(* A command of a save or of a delete moves its process. *)
LEMMA WriterMoves ==
  ASSUME TypeOK, NEW p \in Procs, proc[p].op \in {"save", "delete"}, NEW s, s # proc[p].step,
         GoTo(p, s) \/ Return(p)
  PROVE  proc'[p] # proc[p]
<1>1. CASE GoTo(p, s)
  <2>1. proc'[p].step = s
    BY <1>1 DEF GoTo, TypeOK, Proc
  <2>2. QED
    BY <2>1
<1>2. CASE Return(p)
  <2>1. proc'[p].op = "idle"
    BY <1>2 DEF Return, TypeOK, IdleProc
  <2>2. QED
    BY <2>1
<1>3. QED
  BY <1>1, <1>2

(* Then the job stays in its indexes, as a list prunes only what is gone,  *)
(* and its document stays or expires.                                      *)
LEMMA UntouchedKept ==
  ASSUME StoreInv, [Next]_vars, NEW j \in Jobs, Untouched(j)
  PROVE  /\ doc'[j] = doc[j] \/ (doc'[j] = None /\ ~Writing(j))
         /\ doc[j] # None => \A i \in Indexes : j \in idx[i] => j \in idx'[i]
<1> DEFINE Goal == /\ doc'[j] = doc[j] \/ (doc'[j] = None /\ ~Writing(j))
                   /\ doc[j] # None => \A i \in Indexes : j \in idx[i] => j \in idx'[i]
<1> USE DEF StoreInv, TypeInv, TypeOK
<1>1. ASSUME NEW p \in Procs, proc[p].op \in {"save", "delete"}, NEW s, s # proc[p].step,
             GoTo(p, s) \/ Return(p)
      PROVE  proc[p].job # j
  BY <1>1, WriterMoves DEF Untouched
<1>2. ASSUME NEW p \in Procs, SaveDocument(p) PROVE Goal
  <2>1. proc[p].job # j
    BY <1>1, <1>2 DEF SaveDocument
  <2>2. QED
    BY <1>2, <2>1 DEF SaveDocument
<1>3. ASSUME NEW p \in Procs, SaveUserIndex(p) \/ SaveScheduleIndex(p) PROVE Goal
  BY <1>3 DEF SaveUserIndex, SaveScheduleIndex, Add
<1>4. ASSUME NEW p \in Procs, SavePendingIndex(p) PROVE Goal
  <2>1. proc[p].job # j
    BY <1>1, <1>4 DEF SavePendingIndex
  <2>2. QED
    BY <1>4, <2>1 DEF SavePendingIndex, Add, Remove
<1>5. ASSUME NEW p \in Procs, ListPrune(p) PROVE Goal
  <2>1. doc[j] # None => j \notin proc[p].stale
    BY DEF ReadKnown, GoneForGood
  <2>2. QED
    BY <1>5, <2>1 DEF ListPrune, Remove
<1>6. ASSUME NEW p \in Procs, DeleteDocument(p) PROVE Goal
  <2>1. proc[p].job # j
    BY <1>1, <1>6 DEF DeleteDocument
  <2>2. QED
    BY <1>6, <2>1 DEF DeleteDocument
<1>7. ASSUME NEW p \in Procs, DeletePending(p) \/ DeleteUser(p) \/ DeleteSchedule(p) PROVE Goal
  <2>1. proc[p].job # j
    BY <1>1, <1>7 DEF DeletePending, DeleteUser, DeleteSchedule
  <2>2. QED
    BY <1>7, <2>1 DEF DeletePending, DeleteUser, DeleteSchedule, Remove
<1>8. ASSUME NEW k \in Jobs, Expire(k) PROVE Goal
  BY <1>8 DEF Expire
<1>9. CASE UNCHANGED <<doc, idx>>
  BY <1>9
<1>10. QED
  BY <1>2, <1>3, <1>4, <1>5, <1>6, <1>7, <1>8, <1>9
  DEF Next, ProcNext, SaveStart, ListIds, ListGet, ListReturns, DeleteGet, vars

(* A save goes on by its own commands only. *)
LEMMA SaveStep == StoreInv /\ [Next]_vars => SaveProgress'
<1> DEFINE Progress(q, k) ==
        /\ proc[q].status \in Status
        /\ proc[q].step # "set" => doc[k] = proc[q].status
        /\ proc[q].step \in {"pending", "schedule"} /\ k \in Owned => k \in idx["user"]
        /\ proc[q].step = "schedule" /\ proc[q].status \notin Terminal => k \in idx["pending"]
<1> SUFFICES ASSUME StoreInv, [Next]_vars, NEW q \in Procs, proc'[q].op = "save",
                    NEW k, k = proc'[q].job
             PROVE  Progress(q, k)'
  BY DEF SaveProgress
<1> USE DEF StoreInv, TypeInv, TypeOK
<1>1. CASE proc'[q] = proc[q]
  <2>1. Progress(q, k) /\ k \in Jobs
    BY <1>1 DEF SaveProgress, JobNamed
  <2>2. Untouched(k)
    BY <1>1 DEF OneWriter, Untouched
  <2>3. proc[q].step # "set" => doc[k] # None
    BY <2>1 DEF Status, Terminal, None
  <2>4. Writing(k)
    BY <1>1 DEF Writing
  <2>5. proc[q].step # "set" => doc'[k] = doc[k]
    BY <2>1, <2>2, <2>4, UntouchedKept
  <2>6. proc[q].step # "set" => \A i \in Indexes : k \in idx[i] => k \in idx'[i]
    BY <2>1, <2>2, <2>3, UntouchedKept
  <2>7. QED
    BY <1>1, <2>1, <2>5, <2>6 DEF Indexes
<1>2. ASSUME NEW j \in Jobs, NEW s \in Status, SaveStart(q, j, s) PROVE Progress(q, k)'
  <2>1. proc'[q].status = s /\ proc'[q].step = "set"
    BY <1>2 DEF SaveStart, Start, IdleProc
  <2>2. QED
    BY <2>1
<1>3. ASSUME SaveDocument(q) PROVE Progress(q, k)'
  <2>1. /\ proc'[q].status = proc[q].status /\ k = proc[q].job /\ k \in Jobs
        /\ proc[q].status \in Status /\ proc'[q].step = IF k \in Owned THEN "user" ELSE "pending"
    BY <1>3, Moves DEF SaveDocument, SaveProgress, JobNamed
  <2>2. doc'[k] = proc'[q].status
    BY <1>3, <2>1 DEF SaveDocument
  <2>3. QED
    BY <2>1, <2>2
<1>4. ASSUME SaveUserIndex(q) PROVE Progress(q, k)'
  <2>1. /\ proc'[q].status = proc[q].status /\ k = proc[q].job /\ k \in Jobs
        /\ Progress(q, k) /\ proc'[q].step = "pending" /\ proc[q].step = "user"
    <3>1. proc[q].op = "save" /\ proc[q].step = "user"
      BY <1>4 DEF SaveUserIndex
    <3>2. /\ proc'[q].status = proc[q].status /\ k = proc[q].job
          /\ proc'[q].step = "pending"
      <4>1. GoTo(q, "pending")
        BY <1>4 DEF SaveUserIndex
      <4>2. QED
        BY <4>1, Moves
    <3>3. QED
      BY <3>1, <3>2 DEF SaveProgress, JobNamed
  <2>2. k \in idx'["user"] /\ doc' = doc
    BY <1>4, <2>1 DEF SaveUserIndex, Add, Indexes
  <2>3. QED
    BY <2>1, <2>2
<1>5. ASSUME SavePendingIndex(q) PROVE Progress(q, k)'
  <2>1. /\ proc'[q].status = proc[q].status /\ k = proc[q].job /\ k \in Jobs
        /\ Progress(q, k) /\ proc'[q].step = "schedule" /\ proc[q].step = "pending"
    <3>1. proc[q].op = "save" /\ proc[q].step = "pending"
      BY <1>5 DEF SavePendingIndex
    <3>2. /\ proc'[q].status = proc[q].status /\ k = proc[q].job
          /\ proc'[q].step = "schedule"
      <4>1. GoTo(q, "schedule") \/ Return(q)
        BY <1>5 DEF SavePendingIndex
      <4>2. QED
        BY <4>1, Moves
    <3>3. QED
      BY <3>1, <3>2 DEF SaveProgress, JobNamed
  <2>2. doc' = doc /\ idx'["user"] = idx["user"]
    <3>1. \E S : idx' = [idx EXCEPT !["pending"] = S]
      BY <1>5 DEF SavePendingIndex, Add, Remove
    <3>2. QED
      BY <1>5, <3>1 DEF SavePendingIndex, Indexes
  <2>3. proc[q].status \notin Terminal => k \in idx'["pending"]
    <3>1. proc[q].status \notin Terminal => idx' = [idx EXCEPT !["pending"] = @ \cup {k}]
      BY <1>5, <2>1 DEF SavePendingIndex, Add
    <3>2. QED
      BY <3>1 DEF Indexes
  <2>4. QED
    BY <2>1, <2>2, <2>3
<1>6. ASSUME NEW p \in Procs, p # q, NEW s, GoTo(p, s) \/ Return(p) PROVE Progress(q, k)'
  BY <1>1, <1>6, Moves
<1>7. ASSUME NEW s, GoTo(q, s) \/ Return(q), proc[q].op # "save" PROVE Progress(q, k)'
  BY <1>7, Moves
<1>8. ASSUME Return(q) PROVE Progress(q, k)'
  BY <1>8 DEF Return, IdleProc
<1>9. ASSUME NEW p \in Procs, NEW r, Start(p, r), p # q \/ r.op # "save" PROVE Progress(q, k)'
  BY <1>1, <1>9 DEF Start
<1>10. ASSUME NEW p \in Procs,
              \/ \E j \in Jobs : DeleteGet(p, j) \/ \E s \in Status : SaveStart(p, j, s)
              \/ \E i \in Indexes : ListIds(p, i)
       PROVE  Progress(q, k)'
  <2>1. ASSUME NEW j \in Jobs, DeleteGet(p, j) PROVE Progress(q, k)'
    <3> DEFINE r == [IdleProc EXCEPT !.op = "delete", !.step = "del", !.job = j, !.status = doc[j]]
    <3>1. r.op = "delete"
      BY DEF IdleProc
    <3>2. Start(p, r)
      BY <2>1 DEF DeleteGet
    <3> HIDE DEF r
    <3> QED
      BY <1>9, <3>1, <3>2
  <2>2. ASSUME NEW j \in Jobs, NEW s \in Status, SaveStart(p, j, s) PROVE Progress(q, k)'
    <3>1. CASE p = q
      BY <1>2, <2>2, <3>1
    <3>2. CASE p # q
      <4>1. \E r : Start(p, r)
        BY <2>2 DEF SaveStart
      <4> QED
        BY <1>9, <3>2, <4>1
    <3> QED
      BY <3>1, <3>2
  <2>3. ASSUME NEW i \in Indexes, ListIds(p, i) PROVE Progress(q, k)'
    <3> DEFINE r == [IdleProc EXCEPT !.op = "list", !.step = "get", !.index = i, !.todo = Newest(idx[i])]
    <3>1. r.op = "list"
      BY DEF IdleProc
    <3>2. Start(p, r)
      BY <2>3 DEF ListIds
    <3> HIDE DEF r
    <3> QED
      BY <1>9, <3>1, <3>2
  <2> QED
    BY <1>10, <2>1, <2>2, <2>3
<1>11. ASSUME NEW p \in Procs, NEW j \in Jobs, ListGet(p, j) PROVE Progress(q, k)'
  <2>1. p # q
    BY <1>11 DEF ListGet, Proc
  <2>2. QED
    BY <1>1, <1>11, <2>1 DEF ListGet
<1>12. CASE proc' = proc
  BY <1>1, <1>12
<1>13. ASSUME NEW p \in Procs,
              SaveDocument(p) \/ SaveUserIndex(p) \/ SavePendingIndex(p) \/ SaveScheduleIndex(p)
       PROVE  Progress(q, k)'
  BY <1>3, <1>4, <1>5, <1>6, <1>8, <1>13
  DEF SaveDocument, SaveUserIndex, SavePendingIndex, SaveScheduleIndex
<1>14. ASSUME NEW p \in Procs,
              \/ ListPrune(p) \/ ListReturns(p) \/ DeleteDocument(p) \/ DeletePending(p)
              \/ DeleteUser(p) \/ DeleteSchedule(p)
       PROVE  Progress(q, k)'
  BY <1>6, <1>7, <1>14
  DEF ListPrune, ListReturns, DeleteDocument, DeletePending, DeleteUser, DeleteSchedule
<1>15. QED
  BY <1>10, <1>11, <1>12, <1>13, <1>14 DEF Next, ProcNext, Expire, vars

(* The last command of a save leaves its job in every index it belongs to, *)
(* and after the last of a delete there is no document.                    *)
LEMMA CompleteStep == Serial /\ StoreInv /\ [Next]_vars => IndexComplete'
<1> DEFINE Indexed(k) == /\ k \in Owned => k \in idx["user"]
                         /\ k \in Periodic => k \in idx["schedule"]
                         /\ doc[k] \notin Terminal => k \in idx["pending"]
<1> SUFFICES ASSUME Serial, StoreInv, [Next]_vars,
                    NEW k \in Jobs, doc'[k] # None, ~Writing(k)'
             PROVE  Indexed(k)'
  BY DEF IndexComplete
<1> USE DEF StoreInv, TypeInv, TypeOK
<1>1. CASE ~Writing(k)
  <2>1. Untouched(k)
    BY <1>1 DEF Untouched, Writing
  <2>2. doc'[k] = doc[k] /\ \A i \in Indexes : k \in idx[i] => k \in idx'[i]
    BY <2>1, UntouchedKept
  <2>3. Indexed(k)
    BY <1>1, <2>2 DEF IndexComplete
  <2>4. QED
    BY <2>2, <2>3 DEF Indexes
<1>2. CASE Writing(k)
  <2>1. PICK w \in Procs : proc[w].op \in {"save", "delete"} /\ proc[w].job = k
    BY <1>2 DEF Writing
  <2>2. ~(proc'[w].op \in {"save", "delete"} /\ proc'[w].job = k)
    BY DEF Writing
  <2>3. ASSUME NEW p \in Procs, NEW s, GoTo(p, s) PROVE FALSE
    BY <2>1, <2>2, <2>3, Moves DEF GoTo, Return, Proc
  <2>4. ASSUME NEW p \in Procs, NEW r, Start(p, r) PROVE FALSE
    BY <2>1, <2>2, <2>4 DEF Start
  <2>5. CASE proc' = proc
    BY <2>1, <2>2, <2>5
  <2>6. ASSUME NEW p \in Procs, NEW j \in Jobs, ListGet(p, j) PROVE FALSE
    BY <2>1, <2>2, <2>6 DEF ListGet
  <2>7. ASSUME NEW p \in Procs, Return(p), p # w PROVE FALSE
    BY <2>1, <2>2, <2>7 DEF Return
  <2>8. ASSUME SavePendingIndex(w), Return(w) PROVE Indexed(k)'
    <3>1. /\ k \notin Periodic /\ doc' = doc /\ doc[k] = proc[w].status
          /\ k \in Owned => k \in idx["user"]
      BY <2>1, <2>3, <2>8 DEF SavePendingIndex, SaveProgress
    <3>2. idx'["user"] = idx["user"]
      BY <2>8 DEF SavePendingIndex, Add, Remove, Indexes
    <3>3. doc[k] \notin Terminal => k \in idx'["pending"]
      BY <2>1, <2>8, <3>1 DEF SavePendingIndex, Add, Indexes
    <3>4. QED
      BY <3>1, <3>2, <3>3
  <2>9. ASSUME SaveScheduleIndex(w) PROVE Indexed(k)'
    <3>1. /\ doc' = doc /\ doc[k] = proc[w].status
          /\ k \in Owned => k \in idx["user"]
          /\ doc[k] \notin Terminal => k \in idx["pending"]
      BY <2>1, <2>9 DEF SaveScheduleIndex, SaveProgress
    <3>2. /\ idx'["user"] = idx["user"] /\ idx'["pending"] = idx["pending"]
          /\ k \in idx'["schedule"]
      BY <2>1, <2>9 DEF SaveScheduleIndex, Add, Indexes
    <3>3. QED
      BY <3>1, <3>2
  <2>10. ASSUME proc[w].op = "delete", proc[w].step # "del", doc' = doc PROVE FALSE
    BY <2>1, <2>10 DEF DeleteProgress, GoneForGood
  <2>11. ASSUME NEW p \in Procs,
                SaveDocument(p) \/ SaveUserIndex(p) \/ SavePendingIndex(p) \/ SaveScheduleIndex(p)
         PROVE  Indexed(k)'
    BY <2>3, <2>7, <2>8, <2>9, <2>11
    DEF SaveDocument, SaveUserIndex, SavePendingIndex, SaveScheduleIndex
  <2>12. ASSUME NEW p \in Procs,
                \/ ListPrune(p) \/ ListReturns(p) \/ DeleteDocument(p) \/ DeletePending(p)
                \/ DeleteUser(p) \/ DeleteSchedule(p)
         PROVE  FALSE
    <3>1. p = w /\ Return(w)
      BY <2>3, <2>7, <2>12
      DEF ListPrune, ListReturns, DeleteDocument, DeletePending, DeleteUser, DeleteSchedule
    <3>2. ~ListReturns(p)
      BY <2>1, <3>1 DEF ListReturns
    <3>3. ~ListPrune(p) /\ ~DeleteDocument(p)
      BY <2>3 DEF ListPrune, DeleteDocument
    <3>4. QED
      BY <2>10, <2>12, <3>1, <3>2, <3>3 DEF DeletePending, DeleteUser, DeleteSchedule
  <2>13. QED
    BY <2>4, <2>5, <2>6, <2>11, <2>12
    DEF Next, ProcNext, Expire, SaveStart, ListIds, DeleteGet, vars
<1>3. QED
  BY <1>1, <1>2

(* The parts of the invariant hold at first and support one another. *)
LEMMA StoreInvInit == Init => StoreInv
<1> SUFFICES ASSUME Init PROVE StoreInv
  OBVIOUS
<1>1. OneWriter /\ GoneForGood /\ IndexedKnown /\ ReadKnown /\ SaveProgress /\ DeleteProgress
  BY DEF Init, IdleProc, OneWriter, GoneForGood, IndexedKnown, ReadKnown, SaveProgress,
         DeleteProgress
<1>2. IndexComplete
  BY DEF Init, IndexComplete
<1>3. QED
  BY <1>1, <1>2, TypeInit DEF StoreInv

LEMMA StoreInvStep == Serial /\ StoreInv /\ [Next]_vars => StoreInv'
  BY TypeStep, JobNamedStep, OneWriterStep, GoneStep, IndexedStep, ReadStep, SaveStep, DeleteStep,
     CompleteStep DEF StoreInv, TypeInv

(* When no two processes write a job at once and none saves a job whose    *)
(* document has gone, every document nobody is writing is in the indexes   *)
(* it belongs to, for any number of processes, jobs and lists.             *)
THEOREM IndexesAreComplete == ASSUME Serial PROVE Spec => []IndexComplete
<1>1. StoreInv /\ [Next]_vars => StoreInv'
  BY StoreInvStep
<1>2. StoreInv => IndexComplete
  BY DEF StoreInv
<1>3. QED
  BY StoreInvInit, <1>1, <1>2, PTL DEF Spec

-----------------------------------------------------------------------------
(* The table that JobStore implements *)

(* While a save is between its commands, its status says whether the job   *)
(* is unfinished; otherwise the pending index does.                        *)
LEMMA UnfinishedIs ==
  ASSUME OneWriter, NEW j \in Jobs
  PROVE  /\ \A p \in Procs : HalfSaved(p) /\ proc[p].job = j =>
              (j \in Unfinished <=> proc[p].status \notin Terminal)
         /\ (\A p \in Procs : ~(HalfSaved(p) /\ proc[p].job = j)) =>
              (j \in Unfinished <=> j \in idx["pending"])
<1>1. ASSUME NEW p \in Procs, HalfSaved(p), proc[p].job = j
      PROVE  j \in Unfinished <=> proc[p].status \notin Terminal
  <2>1. \A q \in Procs : HalfSaved(q) /\ proc[q].job = j => q = p
    BY <1>1 DEF HalfSaved, OneWriter
  <2>2. QED
    BY <1>1, <2>1 DEF Unfinished
<1>2. ASSUME \A p \in Procs : ~(HalfSaved(p) /\ proc[p].job = j)
      PROVE  j \in Unfinished <=> j \in idx["pending"]
  BY <1>2 DEF Unfinished
<1>3. QED
  BY <1>1, <1>2

(* The step of process q, if any, leaves what it has half saved. *)
SameHalf(q) ==
    /\ HalfSaved(q)' <=> HalfSaved(q)
    /\ HalfSaved(q) => proc'[q].job = proc[q].job /\ proc'[q].status = proc[q].status

(* A job stays unfinished or finished unless its own save or its entry in *)
(* the pending index changes.                                              *)
LEMMA SameUnfinished ==
  ASSUME OneWriter, OneWriter', NEW j \in Jobs, j \in idx'["pending"] <=> j \in idx["pending"],
         \A q \in Procs :
            SameHalf(q) \/ (proc[q].job # j /\ proc'[q].job # j)
  PROVE  j \in Unfinished' <=> j \in Unfinished
<1>1. CASE \E q \in Procs : HalfSaved(q) /\ proc[q].job = j
  <2>1. PICK q \in Procs : HalfSaved(q) /\ proc[q].job = j
    BY <1>1
  <2>2. HalfSaved(q)' /\ proc'[q].job = j /\ proc'[q].status = proc[q].status
    BY <2>1 DEF SameHalf
  <2>3. j \in Unfinished <=> proc[q].status \notin Terminal
    BY <2>1, UnfinishedIs
  <2>4. j \in Unfinished' <=> proc'[q].status \notin Terminal
    <3>1. \A r \in Procs : HalfSaved(r)' /\ proc'[r].job = j => r = q
      BY <2>2 DEF HalfSaved, OneWriter
    <3>2. QED
      BY <2>2, <3>1 DEF Unfinished
  <2>5. QED
    BY <2>2, <2>3, <2>4
<1>2. CASE ~\E q \in Procs : HalfSaved(q) /\ proc[q].job = j
  <2>1. \A q \in Procs : ~(HalfSaved(q)' /\ proc'[q].job = j)
    BY <1>2 DEF SameHalf
  <2>2. QED
    BY <1>2, <2>1 DEF Unfinished
<1>3. QED
  BY <1>1, <1>2

(* Steps that the table does not see. *)
LEMMA Stutter ==
  ASSUME OneWriter, OneWriter', TypeOK, idx'["pending"] = idx["pending"],
         \A q \in Procs : SameHalf(q)
  PROVE  Unfinished' = Unfinished
<1>1. \A j \in Jobs : j \in Unfinished' <=> j \in Unfinished
  BY SameUnfinished
<1>2. QED
  BY <1>1 DEF Unfinished

(* A process that is between no two commands of a save before and after.  *)
LEMMA NotSaving ==
  ASSUME NEW q \in Procs, ~HalfSaved(q), ~HalfSaved(q)' PROVE SameHalf(q)
  BY DEF SameHalf

LEMMA Bystander == ASSUME NEW q \in Procs, proc'[q] = proc[q] PROVE SameHalf(q)
  BY DEF SameHalf, HalfSaved

(* The first command of a save is the table's Save. *)
LEMMA SaveDocumentSaves ==
  ASSUME Serial, StoreInv, StoreInv', NEW p \in Procs, SaveDocument(p)
  PROVE  Table!Save(proc[p].job, proc[p].status)
<1> USE DEF StoreInv, TypeInv, TypeOK
<1>1. /\ proc[p].job \in Jobs /\ HalfSaved(p)' /\ proc'[p].job = proc[p].job
      /\ proc'[p].status = proc[p].status /\ \A q \in Procs \ {p} : proc'[q] = proc[q]
  BY Moves DEF SaveDocument, JobNamed, HalfSaved, GoTo
<1>2. \A j \in Jobs \ {proc[p].job} : j \in Unfinished' <=> j \in Unfinished
  <2> SUFFICES ASSUME NEW j \in Jobs, j # proc[p].job PROVE j \in Unfinished' <=> j \in Unfinished
    OBVIOUS
  <2>1. idx' = idx
    BY DEF SaveDocument
  <2>2. QED
    BY <1>1, <2>1, SameUnfinished, Bystander
<1>3. proc[p].job \in Unfinished' <=> proc[p].status \notin Terminal
  <2>1. \A q \in Procs : HalfSaved(q)' /\ proc'[q].job = proc[p].job => q = p
    BY <1>1 DEF HalfSaved, OneWriter
  <2>2. QED
    BY <1>1, <2>1 DEF Unfinished
<1>4. Unfinished \subseteq Jobs /\ Unfinished' \subseteq Jobs
  BY DEF Unfinished
<1>5. Unfinished' = IF proc[p].status \in Terminal THEN Unfinished \ {proc[p].job}
                                                   ELSE Unfinished \cup {proc[p].job}
  BY <1>1, <1>2, <1>3, <1>4
<1>6. QED
  BY <1>5 DEF SaveDocument, Table!Save

(* Its third command only moves what is known of the job from the process *)
(* to the pending index.                                                   *)
LEMMA SavePendingStutters ==
  ASSUME Serial, StoreInv, StoreInv', NEW p \in Procs, SavePendingIndex(p)
  PROVE  Unfinished' = Unfinished
<1> USE DEF StoreInv, TypeInv, TypeOK
<1>1. /\ proc[p].job \in Jobs /\ HalfSaved(p) /\ ~HalfSaved(p)'
      /\ proc'[p].job \in {proc[p].job, NoJob}
      /\ \A q \in Procs \ {p} : proc'[q] = proc[q]
  <2>1. proc[p].op = "save" /\ proc[p].step = "pending" /\ (GoTo(p, "schedule") \/ Return(p))
    BY DEF SavePendingIndex
  <2>2. HalfSaved(p) /\ proc[p].job \in Jobs
    BY <2>1 DEF HalfSaved, JobNamed
  <2>3. CASE GoTo(p, "schedule")
    BY <2>1, <2>2, <2>3 DEF HalfSaved, GoTo, Proc
  <2>4. CASE Return(p)
    BY <2>2, <2>4 DEF HalfSaved, Return, IdleProc
  <2>5. QED
    BY <2>1, <2>3, <2>4
<1>2. ASSUME NEW j \in Jobs, j # proc[p].job PROVE j \in Unfinished' <=> j \in Unfinished
  <2>1. j \in idx'["pending"] <=> j \in idx["pending"]
    BY <1>2 DEF SavePendingIndex, Add, Remove, Indexes
  <2>2. j # NoJob
    BY StoreAssumption
  <2>3. QED
    BY <1>1, <1>2, <2>1, <2>2, SameUnfinished, Bystander
<1>3. proc[p].job \in Unfinished <=> proc[p].status \notin Terminal
  BY <1>1, UnfinishedIs
<1>4. proc[p].job \in Unfinished' <=> proc[p].status \notin Terminal
  <2>1. \A q \in Procs : ~(HalfSaved(q)' /\ proc'[q].job = proc[p].job)
    BY <1>1 DEF HalfSaved, OneWriter
  <2>2. proc[p].job \in idx'["pending"] <=> proc[p].status \notin Terminal
    BY <1>1 DEF SavePendingIndex, Add, Remove, Indexes
  <2>3. QED
    BY <1>1, <2>1, <2>2 DEF Unfinished
<1>5. QED
  BY <1>2, <1>3, <1>4 DEF Unfinished

(* Ids whose documents are gone leave the pending index without the table *)
(* losing an unfinished job.                                               *)
LEMMA RemovalDrops ==
  ASSUME Serial, StoreInv, StoreInv', NEW S \in SUBSET Jobs, S \subseteq gone,
         Remove("pending", S), doc' = doc, \A q \in Procs : SameHalf(q)
  PROVE  Table!Drop(S)
<1> USE DEF StoreInv, TypeInv, TypeOK
<1>1. \A j \in Jobs \ S : j \in Unfinished' <=> j \in Unfinished
  <2> SUFFICES ASSUME NEW j \in Jobs, j \notin S PROVE j \in Unfinished' <=> j \in Unfinished
    OBVIOUS
  <2>1. j \in idx'["pending"] <=> j \in idx["pending"]
    BY DEF Remove, Indexes
  <2>2. QED
    BY <2>1, SameUnfinished
<1>2. \A j \in S : j \notin Unfinished'
  <2> SUFFICES ASSUME NEW j \in S PROVE j \notin Unfinished'
    OBVIOUS
  <2>1. j \notin idx'["pending"]
    BY DEF Remove, Indexes
  <2>2. \A q \in Procs : ~(HalfSaved(q) /\ proc[q].job = j)
    BY DEF GoneForGood, HalfSaved
  <2>3. \A q \in Procs : ~(HalfSaved(q)' /\ proc'[q].job = j)
    BY <2>2 DEF SameHalf
  <2>4. QED
    BY <2>1, <2>3 DEF Unfinished
<1>3. Unfinished' = Unfinished \ S
  BY <1>1, <1>2 DEF Unfinished
<1>4. \A j \in S : doc[j] = None
  BY DEF GoneForGood
<1>5. QED
  BY <1>3, <1>4 DEF Table!Drop

(* Every command is a step of the table or one that the table does not    *)
(* see.                                                                    *)
LEMMA RefinesStep ==
  ASSUME Serial, StoreInv, StoreInv', [Next]_vars
  PROVE  [Table!Next]_Table!vars
<1> USE DEF StoreInv, TypeInv, TypeOK
<1> DEFINE Goal == [Table!Next]_Table!vars
<1>1. Unfinished' = Unfinished /\ doc' = doc => Goal
  BY DEF Table!vars
<1>2. ASSUME NEW p \in Procs, NEW r, Start(p, r), r.op # "save" \/ r.step = "set",
             UNCHANGED <<doc, idx>>
      PROVE  Goal
  <2>1. ~HalfSaved(p) /\ ~HalfSaved(p)' /\ \A q \in Procs \ {p} : proc'[q] = proc[q]
    BY <1>2 DEF Start, HalfSaved
  <2>2. \A q \in Procs : SameHalf(q)
    BY <2>1, NotSaving, Bystander
  <2>3. QED
    BY <1>1, <1>2, <2>2, Stutter
<1>3. ASSUME NEW p \in Procs,
             \/ \E j \in Jobs : DeleteGet(p, j) \/ \E s \in Status : SaveStart(p, j, s)
             \/ \E i \in Indexes : ListIds(p, i)
      PROVE  Goal
  BY <1>2, <1>3 DEF DeleteGet, SaveStart, ListIds, IdleProc
<1>4. ASSUME NEW p \in Procs, NEW j \in Jobs, ListGet(p, j) PROVE Goal
  <2>1. ~HalfSaved(p) /\ ~HalfSaved(p)' /\ \A q \in Procs \ {p} : proc'[q] = proc[q]
    BY <1>4 DEF ListGet, HalfSaved, Proc
  <2>2. \A q \in Procs : SameHalf(q)
    BY <2>1, NotSaving, Bystander
  <2>3. QED
    BY <1>1, <1>4, <2>2, Stutter DEF ListGet
<1>5. ASSUME NEW p \in Procs, SaveDocument(p) PROVE Goal
  <2>1. proc[p].job \in Jobs /\ proc[p].status \in Status
    BY <1>5 DEF SaveDocument, JobNamed, SaveProgress
  <2>2. QED
    BY <1>5, <2>1, SaveDocumentSaves DEF Table!Next
<1>6. ASSUME NEW p \in Procs, SaveUserIndex(p) PROVE Goal
  <2>1. \A q \in Procs : SameHalf(q)
    BY <1>6, Moves DEF SaveUserIndex, SameHalf, HalfSaved, GoTo
  <2>2. idx'["pending"] = idx["pending"] /\ doc' = doc
    BY <1>6 DEF SaveUserIndex, Add, Indexes
  <2>3. QED
    BY <1>1, <2>1, <2>2, Stutter
<1>7. ASSUME NEW p \in Procs, SavePendingIndex(p) PROVE Goal
  BY <1>1, <1>7, SavePendingStutters DEF SavePendingIndex
(* What the other commands of p leave of the saves. *)
<1>8. ASSUME NEW p \in Procs, ~HalfSaved(p), NEW s, GoTo(p, s) \/ Return(p),
             proc[p].op # "save" \/ Return(p)
      PROVE  \A q \in Procs : SameHalf(q)
  <2>1. ~HalfSaved(p)'
    BY <1>8, Moves DEF HalfSaved
  <2>2. \A q \in Procs \ {p} : proc'[q] = proc[q]
    BY <1>8, Moves
  <2>3. QED
    BY <1>8, <2>1, <2>2, NotSaving, Bystander
<1>9. ASSUME NEW p \in Procs, SaveScheduleIndex(p) PROVE Goal
  <2>1. \A q \in Procs : SameHalf(q)
    BY <1>8, <1>9 DEF SaveScheduleIndex, HalfSaved
  <2>2. idx'["pending"] = idx["pending"] /\ doc' = doc
    BY <1>9 DEF SaveScheduleIndex, Add, Indexes
  <2>3. QED
    BY <1>1, <2>1, <2>2, Stutter
<1>10. ASSUME NEW p \in Procs, ListPrune(p) PROVE Goal
  <2>1. \A q \in Procs : SameHalf(q)
    BY <1>8, <1>10 DEF ListPrune, HalfSaved
  <2>2. proc[p].stale \subseteq gone /\ doc' = doc
    BY <1>10 DEF ListPrune, ReadKnown
  <2>3. CASE proc[p].index = "pending"
    BY <1>10, <2>1, <2>2, <2>3, RemovalDrops DEF ListPrune, Table!Next
  <2>4. CASE proc[p].index # "pending"
    <3>1. idx'["pending"] = idx["pending"]
      BY <1>10, <2>4 DEF ListPrune, Remove, Indexes
    <3>2. QED
      BY <1>1, <2>1, <2>2, <3>1, Stutter
  <2>5. QED
    BY <2>3, <2>4
<1>11. ASSUME NEW p \in Procs, ListReturns(p) PROVE Goal
  <2>1. \A q \in Procs : SameHalf(q)
    BY <1>8, <1>11 DEF ListReturns, HalfSaved
  <2>2. QED
    BY <1>1, <1>11, <2>1, Stutter DEF ListReturns
<1>12. ASSUME NEW p \in Procs, DeleteDocument(p) PROVE Goal
  <2>1. \A q \in Procs : SameHalf(q)
    BY <1>8, <1>12 DEF DeleteDocument, HalfSaved
  <2>2. Unfinished' = Unfinished
    BY <1>12, <2>1, Stutter DEF DeleteDocument
  <2>3. CASE doc[proc[p].job] = None
    <3>1. doc' = doc
      BY <1>12, <2>3 DEF DeleteDocument
    <3>2. QED
      BY <1>1, <2>2, <3>1
  <2>4. CASE doc[proc[p].job] # None
    <3>1. Table!Vanish(proc[p].job)
      BY <1>12, <2>2, <2>4 DEF DeleteDocument, Table!Vanish
    <3>2. QED
      BY <1>12, <3>1 DEF DeleteDocument, JobNamed, Table!Next
  <2>5. QED
    BY <2>3, <2>4
<1>13. ASSUME NEW p \in Procs, DeletePending(p) PROVE Goal
  <2>1. \A q \in Procs : SameHalf(q)
    BY <1>8, <1>13 DEF DeletePending, HalfSaved
  <2>2. {proc[p].job} \subseteq gone
    BY <1>13 DEF DeletePending, DeleteProgress
  <2>3. Table!Drop({proc[p].job})
    BY <1>13, <2>1, <2>2, RemovalDrops DEF DeletePending
  <2>4. QED
    BY <2>2, <2>3 DEF Table!Next
<1>14. ASSUME NEW p \in Procs, DeleteUser(p) \/ DeleteSchedule(p) PROVE Goal
  <2>1. \A q \in Procs : SameHalf(q)
    BY <1>8, <1>14 DEF DeleteUser, DeleteSchedule, HalfSaved
  <2>2. idx'["pending"] = idx["pending"] /\ doc' = doc
    BY <1>14 DEF DeleteUser, DeleteSchedule, Remove, Indexes
  <2>3. QED
    BY <1>1, <2>1, <2>2, Stutter
<1>15. ASSUME NEW j \in Jobs, Expire(j) PROVE Goal
  <2>1. \A q \in Procs : SameHalf(q)
    BY <1>15, Bystander DEF Expire
  <2>2. Table!Vanish(j)
    BY <1>15, <2>1, Stutter DEF Expire, Table!Vanish
  <2>3. QED
    BY <2>2 DEF Table!Next
<1>16. CASE UNCHANGED vars
  <2>1. Unfinished' = Unfinished
    BY <1>16, Stutter, Bystander DEF vars
  <2>2. QED
    BY <1>1, <1>16, <2>1 DEF vars
<1>17. QED
  BY <1>3, <1>4, <1>5, <1>6, <1>7, <1>9, <1>10, <1>11, <1>12, <1>13, <1>14, <1>15, <1>16
  DEF Next, ProcNext

(* When no two processes write a job at once and none saves a job whose    *)
(* document has gone, the commands of JobPersistency, interleaved with     *)
(* those of every other process and with the expiry of documents, look     *)
(* like a table whose status and pending index change together.           *)
THEOREM StoreImplementsTable == ASSUME Serial PROVE Spec => ImplementsTable
<1>1. Init => Table!Init
  <2> SUFFICES ASSUME Init PROVE Table!Init
    OBVIOUS
  <2>1. Unfinished = {}
    BY DEF Init, Unfinished, HalfSaved, IdleProc, Indexes
  <2>2. QED
    BY <2>1 DEF Init, Table!Init
<1>2. StoreInv /\ [Next]_vars => StoreInv'
  BY StoreInvStep
<1>3. StoreInv /\ StoreInv' /\ [Next]_vars => [Table!Next]_Table!vars
  BY RefinesStep
<1>4. QED
  BY StoreInvInit, <1>1, <1>2, <1>3, PTL DEF Spec, ImplementsTable, Table!Spec
=============================================================================
