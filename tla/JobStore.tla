------------------------------ MODULE JobStore ------------------------------
(***************************************************************************)
(* JobPersistency one Redis command at a time: save writes the document    *)
(* and then the per-user, the pending and the per-schedule index; a list   *)
(* reads an index, then the documents one by one, and then prunes the ids  *)
(* whose document was gone; delete reads, deletes and cleans the indexes.  *)
(* Any process of the system may be in any of them at any time.            *)
(***************************************************************************)
EXTENDS Naturals, FiniteSets

CONSTANTS
    Jobs,     \* job ids
    Rank,     \* date_planned of a job, the score of its index entries
    Owned,    \* jobs with a user_uid; they belong to one user
    Periodic, \* jobs with a schedule_name; they belong to one schedule
    Procs,    \* web and worker processes
    Limit,    \* how many ids a list reads
    Serial,   \* no two processes write the same job at the same time
    MaxOps,   \* bound on the operations of a behaviour
    NoJob     \* the job of an idle process

None == "NONE"
Terminal == {"SUCCESS"}
Status == Terminal \cup {"STARTED"}
Indexes == {"user", "pending", "schedule"}

ASSUME StoreAssumption ==
    /\ Rank \in [Jobs -> Nat]
    /\ \A i, j \in Jobs : Rank[i] = Rank[j] => i = j
    /\ Owned \subseteq Jobs /\ Periodic \subseteq Jobs
    /\ Limit \in Nat \ {0}
    /\ Serial \in BOOLEAN
    /\ MaxOps \in Nat
    /\ NoJob \notin Jobs

VARIABLES
    doc,    \* the status in the document of each job
    idx,    \* the ids in each index
    proc,   \* what each process is doing
    gone,   \* ghost: jobs whose document expired or was deleted
    steady, \* ghost: jobs that a listing process must find
    ops     \* how many operations were begun
vars == <<doc, idx, proc, gone, steady, ops>>

IdleProc == [op |-> "idle", step |-> "set", job |-> NoJob, status |-> None,
             index |-> "pending", todo |-> {}, found |-> {}, stale |-> {}]
Proc == [op: {"idle", "save", "list", "delete"},
         step: {"set", "user", "pending", "schedule", "get", "del", "prune", "done"},
         job: Jobs \cup {NoJob}, status: Status \cup {None}, index: Indexes,
         todo: SUBSET Jobs, found: SUBSET Jobs, stale: SUBSET Jobs]

TypeOK ==
    /\ doc \in [Jobs -> Status \cup {None}]
    /\ idx \in [Indexes -> SUBSET Jobs]
    /\ proc \in [Procs -> Proc]
    /\ gone \subseteq Jobs
    /\ steady \in [Procs -> SUBSET Jobs]
    /\ ops \in 0 .. MaxOps

Init ==
    /\ doc = [j \in Jobs |-> None]
    /\ idx = [i \in Indexes |-> {}]
    /\ proc = [p \in Procs |-> IdleProc]
    /\ gone = {}
    /\ steady = [p \in Procs |-> {}]
    /\ ops = 0

Writing(j) == \E p \in Procs : proc[p].op \in {"save", "delete"} /\ proc[p].job = j

(* Jobs that are in the index and stay there as long as nobody writes them. *)
Settled(i) ==
    {j \in idx[i] : doc[j] # None /\ ~Writing(j) /\ (i = "pending" => doc[j] \notin Terminal)}

Start(p, r) ==
    /\ proc[p].op = "idle"
    /\ ops < MaxOps /\ ops' = ops + 1
    /\ proc' = [proc EXCEPT ![p] = r]

Add(i, j) == idx' = [idx EXCEPT ![i] = @ \cup {j}]
Remove(i, S) == idx' = [idx EXCEPT ![i] = @ \ S]
GoTo(p, s) == proc' = [proc EXCEPT ![p].step = s]
Return(p) == proc' = [proc EXCEPT ![p] = IdleProc]

-----------------------------------------------------------------------------
(* save *)

SaveStart(p, j, s) ==
    /\ Serial => ~Writing(j) /\ j \notin gone
    /\ Start(p, [IdleProc EXCEPT !.op = "save", !.job = j, !.status = s])
    /\ steady' = [q \in Procs |-> steady[q] \ {j}]
    /\ UNCHANGED <<doc, idx, gone>>

SaveDocument(p) ==
    /\ proc[p].op = "save" /\ proc[p].step = "set"
    /\ doc' = [doc EXCEPT ![proc[p].job] = proc[p].status]
    /\ GoTo(p, IF proc[p].job \in Owned THEN "user" ELSE "pending")
    /\ UNCHANGED <<idx, gone, steady, ops>>

SaveUserIndex(p) ==
    /\ proc[p].op = "save" /\ proc[p].step = "user"
    /\ Add("user", proc[p].job)
    /\ GoTo(p, "pending")
    /\ UNCHANGED <<doc, gone, steady, ops>>

(* Mutant: a job stays in the pending index once it has ended. *)
SavePendingIndexAddsOnly(p) ==
    LET j == proc[p].job IN
    /\ proc[p].op = "save" /\ proc[p].step = "pending"
    /\ Add("pending", j)
    /\ IF j \in Periodic THEN GoTo(p, "schedule") ELSE Return(p)
    /\ UNCHANGED <<doc, gone, steady, ops>>

SavePendingIndex(p) ==
    LET j == proc[p].job IN
    /\ proc[p].op = "save" /\ proc[p].step = "pending"
    /\ IF proc[p].status \in Terminal THEN Remove("pending", {j}) ELSE Add("pending", j)
    /\ IF j \in Periodic THEN GoTo(p, "schedule") ELSE Return(p)
    /\ UNCHANGED <<doc, gone, steady, ops>>

SaveScheduleIndex(p) ==
    /\ proc[p].op = "save" /\ proc[p].step = "schedule"
    /\ Add("schedule", proc[p].job)
    /\ Return(p)
    /\ UNCHANGED <<doc, gone, steady, ops>>

(* The TTL of a document nobody is writing runs out. *)
Expire(j) ==
    /\ doc[j] # None /\ ~Writing(j)
    /\ doc' = [doc EXCEPT ![j] = None]
    /\ gone' = gone \cup {j}
    /\ steady' = [q \in Procs |-> steady[q] \ {j}]
    /\ UNCHANGED <<idx, proc, ops>>

-----------------------------------------------------------------------------
(* list_by_user, list_pending, list_by_schedule *)

(* Mutant: the end of the range is exclusive. *)
NewestExclusive(S) == {j \in S : Cardinality({i \in S : Rank[i] > Rank[j]}) < Limit - 1}

(* zset_revrange(0, limit - 1). *)
Newest(S) == {j \in S : Cardinality({i \in S : Rank[i] > Rank[j]}) < Limit}

ListIds(p, i) ==
    /\ Start(p, [IdleProc EXCEPT !.op = "list", !.step = "get", !.index = i,
                                 !.todo = Newest(idx[i])])
    /\ steady' = [steady EXCEPT ![p] = IF Cardinality(idx[i]) <= Limit THEN Settled(i) ELSE {}]
    /\ UNCHANGED <<doc, idx, gone>>

(* The next document of _fetch_many, newest first. *)
ListGet(p, j) ==
    LET r == proc[p] IN
    /\ r.op = "list" /\ r.step = "get"
    /\ j \in r.todo /\ \A i \in r.todo : Rank[i] <= Rank[j]
    /\ proc' = [proc EXCEPT ![p].todo = @ \ {j},
                            ![p].found = IF doc[j] # None THEN @ \cup {j} ELSE @,
                            ![p].stale = IF doc[j] = None THEN @ \cup {j} ELSE @]
    /\ UNCHANGED <<doc, idx, gone, steady, ops>>

(* Mutant: every id that was read is pruned. *)
ListPruneAll(p) ==
    LET r == proc[p] IN
    /\ r.op = "list" /\ r.step = "get" /\ r.todo = {}
    /\ IF r.stale = {} THEN UNCHANGED idx ELSE Remove(r.index, r.stale \cup r.found)
    /\ GoTo(p, "done")
    /\ UNCHANGED <<doc, gone, steady, ops>>

ListPrune(p) ==
    LET r == proc[p] IN
    /\ r.op = "list" /\ r.step = "get" /\ r.todo = {}
    /\ Remove(r.index, r.stale)
    /\ GoTo(p, "done")
    /\ UNCHANGED <<doc, gone, steady, ops>>

ListReturns(p) ==
    /\ proc[p].op = "list" /\ proc[p].step = "done"
    /\ Return(p)
    /\ steady' = [steady EXCEPT ![p] = {}]
    /\ UNCHANGED <<doc, idx, gone, ops>>

-----------------------------------------------------------------------------
(* delete *)

DeleteGet(p, j) ==
    /\ Serial => ~Writing(j)
    /\ Start(p, [IdleProc EXCEPT !.op = "delete", !.step = "del", !.job = j, !.status = doc[j]])
    /\ steady' = [q \in Procs |-> steady[q] \ {j}]
    /\ UNCHANGED <<doc, idx, gone>>

DeleteDocument(p) ==
    /\ proc[p].op = "delete" /\ proc[p].step = "del"
    /\ doc' = [doc EXCEPT ![proc[p].job] = None]
    /\ gone' = gone \cup {proc[p].job}
    /\ GoTo(p, "pending")
    /\ UNCHANGED <<idx, steady, ops>>

(* The other two indexes are known only from the document that was read. *)
DeletePending(p) ==
    /\ proc[p].op = "delete" /\ proc[p].step = "pending"
    /\ Remove("pending", {proc[p].job})
    /\ IF proc[p].status = None THEN Return(p) ELSE GoTo(p, "user")
    /\ UNCHANGED <<doc, gone, steady, ops>>

DeleteUser(p) ==
    /\ proc[p].op = "delete" /\ proc[p].step = "user"
    /\ IF proc[p].job \in Owned THEN Remove("user", {proc[p].job}) ELSE UNCHANGED idx
    /\ GoTo(p, "schedule")
    /\ UNCHANGED <<doc, gone, steady, ops>>

DeleteSchedule(p) ==
    /\ proc[p].op = "delete" /\ proc[p].step = "schedule"
    /\ IF proc[p].job \in Periodic THEN Remove("schedule", {proc[p].job}) ELSE UNCHANGED idx
    /\ Return(p)
    /\ UNCHANGED <<doc, gone, steady, ops>>

-----------------------------------------------------------------------------
ProcNext(p) ==
    \/ \E j \in Jobs : \/ \E s \in Status : SaveStart(p, j, s)
                       \/ ListGet(p, j) \/ DeleteGet(p, j)
    \/ \E i \in Indexes : ListIds(p, i)
    \/ SaveDocument(p) \/ SaveUserIndex(p) \/ SavePendingIndex(p) \/ SaveScheduleIndex(p)
    \/ ListPrune(p) \/ ListReturns(p)
    \/ DeleteDocument(p) \/ DeletePending(p) \/ DeleteUser(p) \/ DeleteSchedule(p)

Next == (\E p \in Procs : ProcNext(p)) \/ \E j \in Jobs : Expire(j)

Spec == Init /\ [][Next]_vars

-----------------------------------------------------------------------------
(* Properties *)

(* JobPersistency: "Three sorted-set indexes are kept in sync with the     *)
(* documents": a document nobody is writing is in the indexes it belongs   *)
(* to, so that a list or the recovery sweep can find it.                   *)
IndexComplete ==
    \A j \in Jobs : doc[j] # None /\ ~Writing(j) =>
        /\ j \in Owned => j \in idx["user"]
        /\ j \in Periodic => j \in idx["schedule"]
        /\ doc[j] \notin Terminal => j \in idx["pending"]

(* A list returns every job that was indexed when it began and that nobody *)
(* has touched since, whatever the others do.                              *)
ListingComplete ==
    \A p \in Procs : proc[p].op = "list" /\ proc[p].step = "done" => steady[p] \subseteq proc[p].found

(* A save between its first and its third command counts as done. *)
HalfSaved(p) == proc[p].op = "save" /\ proc[p].step \in {"user", "pending"}
Unfinished ==
    {j \in Jobs : \/ \E p \in Procs : /\ HalfSaved(p) /\ proc[p].job = j
                                      /\ proc[p].status \notin Terminal
                  \/ j \in idx["pending"] /\ ~\E p \in Procs : HalfSaved(p) /\ proc[p].job = j}

Table == INSTANCE JobTable WITH table <- doc, unfinished <- Unfinished

(* When no two processes write the same job at once and no job is saved    *)
(* after its document has gone, JobPersistency implements the table.       *)
ImplementsTable == Table!Spec
=============================================================================
