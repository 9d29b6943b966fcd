-------------------------- MODULE AgentJobsProofs --------------------------
(***************************************************************************)
(* Proofs about AgentJobs for any number of jobs, workers and lock keys    *)
(* and any sequence of faults.                                             *)
(*                                                                         *)
(* TrackedFromTheStart and LockNotLeaked are not inductive: they speak of  *)
(* the documents and locks, while what is written next was read earlier    *)
(* and sits in a hook, in the sweep or in a poll.  IndInv adds what those  *)
(* copies satisfy.                                                         *)
(*                                                                         *)
(* The theorems after these assume what the runs of their properties take  *)
(* away (WorkersStay, EtaHeeded, Steady, Unopposed).                       *)
(***************************************************************************)
EXTENDS AgentJobs, TLAPS

(* A job whose enqueue has not begun has left no trace anywhere. *)
Traceless(j) ==
    /\ doc[j] = NoDoc /\ orphans[j] = NoDoc /\ poll[j].at # "read"
    /\ j \notin expired
    /\ \A m \in Message : m.job = j => queue[m] = 0
    /\ \A w \in Workers : slot[w].msg.job # j

UnknownBefore == \A j \in Jobs : enq[j] = "new" => Traceless(j)

(* Every copy of the JobState of an enqueued job descends from the one     *)
(* that enqueue saved, and it is there before anything can refer to it.    *)
Copies(j) ==
    /\ doc[j] # NoDoc => doc[j].tracked
    /\ orphans[j] # NoDoc => orphans[j].tracked
    /\ poll[j].at = "read" => poll[j].snap.tracked
    /\ enq[j] = "saved" => doc[j] # NoDoc
    /\ \A m \in Message : m.job = j /\ queue[m] > 0 => doc[j] # NoDoc
    /\ \A w \in Workers : slot[w].msg.job = j =>
          /\ doc[j] # NoDoc
          /\ Busy(w) /\ slot[w].step # "get" => slot[w].snap.tracked

CopiesTracked == \A j \in Jobs \ (Beat \cup expired) : Copies(j)

(* Something is still going to give the lock of the job back, or one of   *)
(* the two deaths that leave it to its TTL has happened.                   *)
Pursued(j) == InEnqueue(j) \/ enq[j] = "dead" \/ Driven(j) \/ j \in dropped

LockHolder ==
    \A k \in Keys : lock[k] # NoJob =>
        /\ lock[k] \in Gated /\ KeyOf[lock[k]] = k /\ lock[k] \notin expired
        /\ Pursued(lock[k])

IndInv == TypeOK /\ UnknownBefore /\ CopiesTracked /\ LockHolder

-----------------------------------------------------------------------------
(* Types *)

(* The slot of one worker changes to a well-formed one. *)
LEMMA SlotTyped ==
  ASSUME TypeOK, NEW w \in Workers, NEW s \in Slot, slot' = [slot EXCEPT ![w] = s],
         NeedsMessage(s) => s.msg \in Message
  PROVE  /\ slot' \in [Workers -> Slot]
         /\ \A v \in Workers : NeedsMessage(slot'[v]) => slot'[v].msg \in Message
  BY DEF TypeOK

(* Publishing and fetching keep the message counters natural numbers. *)
LEMMA PublishTyped ==
  ASSUME TypeOK, NEW m \in Message, Publish(m) PROVE queue' \in [Message -> Nat]
  BY DEF TypeOK, Publish

(* Fetching keeps them natural, since it needs a copy to fetch. *)
LEMMA FetchTyped ==
  ASSUME TypeOK, NEW m \in Message, Fetch(m) PROVE queue' \in [Message -> Nat]
  BY DEF TypeOK, Fetch

(* What create_job publishes is a message. *)
LEMMA NewMessageTyped == ASSUME NEW j \in Jobs PROVE NewMessage(j) \in Message
  BY JobsAssumption DEF NewMessage, Message

(* The slots between two messages, and the sweeping one between two jobs. *)
LEMMA RestingSlots ==
  /\ Idle \in Slot /\ Down \in Slot /\ [Down EXCEPT !.hook = "sweep"] \in Slot
  /\ ~NeedsMessage(Idle) /\ ~NeedsMessage(Down)
  /\ ~NeedsMessage([Down EXCEPT !.hook = "sweep"])
  BY DEF Idle, Down, Slot, NeedsMessage, ChildHooks, ParentHooks, Outcomes

(* A hook that returns leaves a well-formed slot, for one slot and for all. *)
LEMMA ReturnedTyped ==
  ASSUME NEW s \in Slot, s.msg \in Message, s.hook \in EndHooks \cup {"prerun"}
  PROVE  Returned(s) \in Slot /\ (NeedsMessage(Returned(s)) => Returned(s).msg \in Message)
<1>1. CASE AfterHook(s.hook) = "idle"
  BY <1>1, RestingSlots DEF Returned
<1>2. CASE AfterHook(s.hook) # "idle"
  <2>1. AfterHook(s.hook) \in {"body", "postrun", "ack"}
    BY <1>2 DEF AfterHook, EndHooks
  <2>2. [s EXCEPT !.hook = AfterHook(s.hook), !.step = "get", !.snap = NoDoc] \in Slot
    BY <2>1 DEF Slot, ChildHooks
  <2>3. QED
    BY <1>2, <2>2 DEF Returned, Slot
<1>3. QED
  BY <1>1, <1>2

(* The same for the step HookReturns of a worker. *)
LEMMA ReturnTyped ==
  ASSUME TypeOK, NEW w \in Workers, slot[w].msg \in Message,
         slot[w].hook \in EndHooks \cup {"prerun"}, HookReturns(w)
  PROVE  /\ slot' \in [Workers -> Slot]
         /\ \A v \in Workers : NeedsMessage(slot'[v]) => slot'[v].msg \in Message
<1>1. slot' = [slot EXCEPT ![w] = Returned(slot[w])]
  BY DEF HookReturns
<1>2. slot[w] \in Slot
  BY DEF TypeOK
<1>3. QED
  BY <1>1, <1>2, SlotTyped, ReturnedTyped

(* Writing one JobState keeps the documents typed. *)
LEMMA DocTyped ==
  ASSUME TypeOK, NEW j, NEW d \in Doc, doc' = [doc EXCEPT ![j] = d]
  PROVE  doc' \in [Jobs -> Doc \cup {NoDoc}]
  BY DEF TypeOK

(* A JobState whose status, or status and attempts, is rewritten is one. *)
LEMMA StatusTyped ==
  ASSUME NEW d \in Doc \cup {NoDoc}, NEW s \in Status
  PROVE  /\ [d EXCEPT !.status = s] \in Doc
         /\ [d EXCEPT !.status = s, !.attempts = @ + 1] \in Doc
<1>1. d \in [status: Status \cup {"NONE"}, attempts: Nat, tracked: BOOLEAN]
  <2>1. CASE d \in Doc
    BY <2>1 DEF Doc
  <2>2. NoDoc \in [status: Status \cup {"NONE"}, attempts: Nat, tracked: BOOLEAN]
    BY DEF NoDoc
  <2>3. QED
    BY <2>1, <2>2
<1>2. d.attempts + 1 \in Nat
  BY <1>1
<1>3. QED
  BY <1>1, <1>2 DEF Doc

(* A revoke broadcast leaves every worker well-formed. *)
LEMMA BroadcastTyped ==
  ASSUME TypeOK, NEW j \in Jobs, Broadcast(j)
  PROVE  /\ slot' \in [Workers -> Slot]
         /\ \A v \in Workers : NeedsMessage(slot'[v]) => slot'[v].msg \in Message
<1> DEFINE cut(s) == [s EXCEPT !.hook = "revoked", !.step = "get", !.snap = NoDoc]
<1>1. \A s \in Slot : cut(s) \in Slot /\ cut(s).msg = s.msg
  BY DEF Slot, ParentHooks
<1>2. \A v \in Workers : slot[v] \in Slot
  BY DEF TypeOK
<1>3. slot' = [v \in Workers |-> IF slot[v].hook \in ChildHooks /\ slot[v].msg.job = j
                                THEN cut(slot[v]) ELSE slot[v]]
  BY DEF Broadcast
<1> HIDE DEF cut
<1>4. slot' \in [Workers -> Slot]
  BY <1>1, <1>2, <1>3
<1>5. ASSUME NEW v \in Workers, NeedsMessage(slot'[v]) PROVE slot'[v].msg \in Message
  <2>1. CASE slot[v].hook \in ChildHooks
    <3>1. slot[v].msg \in Message
      BY <2>1 DEF TypeOK, NeedsMessage
    <3>2. slot'[v].msg = slot[v].msg
      BY <1>1, <1>2, <1>3
    <3>3. QED
      BY <3>1, <3>2
  <2>2. CASE slot[v].hook \notin ChildHooks
    <3>1. slot'[v] = slot[v]
      BY <1>3, <2>2
    <3>2. QED
      BY <1>5, <3>1 DEF TypeOK
  <2>3. QED
    BY <2>1, <2>2
<1>6. QED
  BY <1>4, <1>5

(* Every step keeps the type invariant. *)
LEMMA TypeStep == TypeOK /\ [Next]_vars => TypeOK'
<1> SUFFICES ASSUME TypeOK, [Next]_vars PROVE TypeOK'
  OBVIOUS
<1> USE JobsAssumption DEF webVars, ghosts, sweepVars
<1>1. ASSUME NEW j \in Jobs, AcquireLock(j) PROVE TypeOK'
  <2>1. enq' \in [Jobs -> {"new", "locked", "saved", "failing",
                        "done", "refused", "failed", "dead"}]
    BY <1>1 DEF TypeOK, AcquireLock
  <2>2. lock' \in [Keys -> Jobs \cup {NoJob}]
    BY <1>1 DEF TypeOK, AcquireLock
  <2>3. QED
    BY <1>1, <2>1, <2>2 DEF TypeOK, AcquireLock
<1>2. ASSUME NEW j \in Jobs, SavePending(j) PROVE TypeOK'
  <2>1. [status |-> "PENDING", attempts |-> 0, tracked |-> TRUE] \in Doc
    BY DEF Doc, Status
  <2>2. QED
    BY <1>2, <2>1, DocTyped DEF TypeOK, SavePending
<1>3. ASSUME NEW j \in Jobs, CreateJob(j) PROVE TypeOK'
  BY <1>3, NewMessageTyped, PublishTyped DEF TypeOK, CreateJob
<1>4. ASSUME NEW j \in Jobs, EnqueueRaises(j) PROVE TypeOK'
  BY <1>4 DEF TypeOK, EnqueueRaises, Fault
<1>5. ASSUME NEW j \in Jobs, EnqueueReleases(j) PROVE TypeOK'
  BY <1>5 DEF TypeOK, EnqueueReleases, Release
<1>6. ASSUME NEW j \in Jobs, EnqueuerDies(j) PROVE TypeOK'
  BY <1>6 DEF TypeOK, EnqueuerDies, Fault
<1>7. ASSUME NEW j \in Jobs, BeatFires(j) PROVE TypeOK'
  BY <1>7, NewMessageTyped, PublishTyped DEF TypeOK, BeatFires
<1>8. ASSUME NEW j \in Jobs, CancelStart(j) PROVE TypeOK'
  BY <1>8 DEF TypeOK, CancelStart
<1>9. ASSUME NEW j \in Jobs, CancelTerm(j) PROVE TypeOK'
  <2>1. /\ slot' \in [Workers -> Slot]
        /\ \A v \in Workers : NeedsMessage(slot'[v]) => slot'[v].msg \in Message
    BY <1>9, BroadcastTyped DEF CancelTerm
  <2>2. revoked' \in [Workers -> SUBSET Jobs]
    BY <1>9 DEF TypeOK, CancelTerm, Broadcast
  <2>3. QED
    BY <1>9, <2>1, <2>2 DEF TypeOK, CancelTerm
<1>10. ASSUME NEW j \in Jobs, CancelSettled(j) PROVE TypeOK'
  BY <1>10 DEF TypeOK, CancelSettled
<1>11. ASSUME NEW j \in Jobs, CancelKill(j) PROVE TypeOK'
  <2>1. /\ slot' \in [Workers -> Slot]
        /\ \A v \in Workers : NeedsMessage(slot'[v]) => slot'[v].msg \in Message
    BY <1>11, BroadcastTyped DEF CancelKill
  <2>2. revoked' \in [Workers -> SUBSET Jobs]
    BY <1>11 DEF TypeOK, CancelKill, Broadcast
  <2>3. QED
    BY <1>11, <2>1, <2>2 DEF TypeOK, CancelKill
<1>12. ASSUME NEW j \in Jobs, PollGet(j) PROVE TypeOK'
  BY <1>12 DEF TypeOK, PollGet
<1>13. ASSUME NEW j \in Jobs, PollSave(j) PROVE TypeOK'
  <2>1. [poll[j].snap EXCEPT !.status = "FAILURE"] \in Doc
    BY StatusTyped DEF TypeOK, Status, Terminal
  <2>2. QED
    BY <1>13, <2>1, DocTyped DEF TypeOK, PollSave
<1>14. ASSUME NEW j \in Jobs, EtaPasses(j) PROVE TypeOK'
  BY <1>14 DEF TypeOK, EtaPasses
<1>15. ASSUME NEW j \in Jobs, DocExpires(j) PROVE TypeOK'
  BY <1>15 DEF TypeOK, DocExpires, Fault
<1>16. ASSUME NEW k \in Keys, LockExpires(k) PROVE TypeOK'
  BY <1>16 DEF TypeOK, LockExpires, Fault
<1>17. ASSUME NEW m \in Message, Redelivered(m) PROVE TypeOK'
  BY <1>17, PublishTyped DEF TypeOK, Redelivered, Fault
<1>18. ASSUME SweepLockExpires PROVE TypeOK'
  BY <1>18 DEF TypeOK, SweepLockExpires
<1>19. ASSUME NEW w \in Workers, NEW m \in Message, Take(w, m) PROVE TypeOK'
  <2>1. [Idle EXCEPT !.hook = "prerun", !.msg = m] \in Slot
    BY DEF Slot, Idle, Down, ChildHooks, ParentHooks, Outcomes
  <2>2. QED
    BY <1>19, <2>1, SlotTyped, FetchTyped DEF TypeOK, Take, Idle, Down
<1>20. ASSUME NEW w \in Workers, NEW m \in Message, TakeRevoked(w, m) PROVE TypeOK'
  <2>1. [Idle EXCEPT !.hook = "revoked", !.msg = m] \in Slot
    BY DEF Slot, Idle, Down, ChildHooks, ParentHooks, Outcomes
  <2>2. QED
    BY <1>20, <2>1, SlotTyped, FetchTyped DEF TypeOK, TakeRevoked, Idle, Down
<1>21. ASSUME NEW w \in Workers, OnPrerunGet(w) PROVE TypeOK'
  <2>1. slot[w].msg \in Message
    BY <1>21 DEF TypeOK, OnPrerunGet, NeedsMessage, ChildHooks
  <2>2. slot[w].msg.job \in Jobs
    BY <2>1 DEF Message
  <2> DEFINE d == IF doc[slot[w].msg.job] # NoDoc THEN doc[slot[w].msg.job]
                  ELSE [status |-> "STARTED", attempts |-> 0, tracked |-> FALSE]
  <2>3. d \in Doc
    BY <2>2 DEF TypeOK, Doc, Status
  <2>4. [slot[w] EXCEPT !.step = "save", !.snap = d] \in Slot
    <3>1. slot[w] \in Slot
      BY DEF TypeOK
    <3>2. QED
      BY <2>3, <3>1 DEF Slot
  <2>5. QED
    BY <1>21, <2>1, <2>4, SlotTyped DEF TypeOK, OnPrerunGet, Slot
<1>22. ASSUME NEW w \in Workers, OnPrerunSave(w) PROVE TypeOK'
  <2>1. slot[w] \in Slot /\ slot[w].msg \in Message /\ slot[w].snap \in Doc \cup {NoDoc}
    BY <1>22 DEF TypeOK, OnPrerunSave, NeedsMessage, ChildHooks, Slot
  <2>2. [slot[w].snap EXCEPT !.status = "STARTED", !.attempts = @ + 1] \in Doc
    BY <2>1, StatusTyped DEF Status
  <2>4. slot' \in [Workers -> Slot]
        /\ \A v \in Workers : NeedsMessage(slot'[v]) => slot'[v].msg \in Message
    BY <1>22, <2>1, ReturnTyped DEF OnPrerunSave
  <2>5. doc' \in [Jobs -> Doc \cup {NoDoc}]
    BY <1>22, <2>2, DocTyped DEF OnPrerunSave
  <2>6. QED
    BY <1>22, <2>4, <2>5 DEF TypeOK, OnPrerunSave
<1>23. ASSUME NEW w \in Workers, BodySucceeds(w) PROVE TypeOK'
  <2>0. slot[w] \in Slot
    BY DEF TypeOK
  <2>1. [slot[w] EXCEPT !.hook = "postrun", !.outcome = "SUCCESS"] \in Slot
    BY <2>0 DEF Slot, ChildHooks, ParentHooks, Outcomes
  <2>2. slot[w].msg \in Message
    BY <1>23 DEF TypeOK, BodySucceeds, NeedsMessage, ChildHooks
  <2>3. QED
    BY <1>23, <2>1, <2>2, SlotTyped DEF TypeOK, BodySucceeds, Fault, Slot
<1>24. ASSUME NEW w \in Workers, BodyRetries(w) PROVE TypeOK'
  <2>0. slot[w] \in Slot
    BY DEF TypeOK
  <2>1. [slot[w] EXCEPT !.hook = "retry", !.outcome = "RETRY"] \in Slot
    BY <2>0 DEF Slot, ChildHooks, Outcomes
  <2>2. slot[w].msg \in Message
    BY <1>24 DEF TypeOK, BodyRetries, NeedsMessage, ChildHooks
  <2>5. slot[w].msg.job \in Jobs /\ slot[w].msg.retries < RetryCap
    BY <1>24, <2>2 DEF BodyRetries, Message
  <2>6. slot[w].msg.retries + 1 \in 0 .. RetryCap
    BY <2>2, <2>5 DEF Message
  <2>3. [slot[w].msg EXCEPT !.retries = @ + 1, !.eta = FALSE] \in Message
    BY <1>24, <2>2, <2>6 DEF Message
  <2>4. QED
    BY <1>24, <2>1, <2>2, <2>3, SlotTyped, PublishTyped DEF TypeOK, BodyRetries, Fault, Slot
<1>25. ASSUME NEW w \in Workers, BodyFails(w) PROVE TypeOK'
  <2>0. slot[w] \in Slot
    BY DEF TypeOK
  <2>1. [slot[w] EXCEPT !.hook = "failure", !.outcome = "FAILURE"] \in Slot
    BY <2>0 DEF Slot, ChildHooks, ParentHooks, Outcomes
  <2>2. slot[w].msg \in Message
    BY <1>25 DEF TypeOK, BodyFails, NeedsMessage, ChildHooks
  <2>3. QED
    BY <1>25, <2>1, <2>2, SlotTyped DEF TypeOK, BodyFails, Fault, Slot
<1>26. ASSUME NEW w \in Workers, BodyLost(w) PROVE TypeOK'
  <2>0. slot[w] \in Slot
    BY DEF TypeOK
  <2>1. [slot[w] EXCEPT !.hook = "lost", !.outcome = "FAILURE"] \in Slot
    BY <2>0 DEF Slot, ChildHooks, ParentHooks, Outcomes
  <2>2. slot[w].msg \in Message
    BY <1>26 DEF TypeOK, BodyLost, NeedsMessage, ChildHooks
  <2>3. QED
    BY <1>26, <2>1, <2>2, SlotTyped DEF TypeOK, BodyLost, Fault, Slot
<1>27. ASSUME NEW w \in Workers, HookGet(w) PROVE TypeOK'
  <2>1. slot[w] \in Slot /\ slot[w].msg \in Message /\ slot[w].snap \in Doc \cup {NoDoc}
    BY <1>27 DEF TypeOK, HookGet, NeedsMessage, ChildHooks, ParentHooks, EndHooks, Slot
  <2>3. [slot[w] EXCEPT !.step = "save", !.snap = doc[slot[w].msg.job]] \in Slot
    BY <2>1 DEF TypeOK, Slot, Message
  <2>4. slot' \in [Workers -> Slot] /\ \A v \in Workers : NeedsMessage(slot'[v]) => slot'[v].msg \in Message
    <3>1. CASE HookIgnores(w)
      BY <1>27, <2>1, <3>1, ReturnTyped DEF HookGet
    <3>2. CASE ~HookIgnores(w)
      <4>1. slot' = [slot EXCEPT ![w] = [slot[w] EXCEPT !.step = "save", !.snap = doc[slot[w].msg.job]]]
        BY <1>27, <3>2 DEF HookGet
      <4>2. QED
        BY <2>1, <2>3, <4>1, SlotTyped DEF Slot
    <3>3. QED
      BY <3>1, <3>2
  <2>5. QED
    BY <1>27, <2>4 DEF TypeOK, HookGet
<1>28. ASSUME NEW w \in Workers, HookSave(w) PROVE TypeOK'
  <2>1. slot[w] \in Slot /\ slot[w].msg \in Message /\ slot[w].snap \in Doc \cup {NoDoc}
    BY <1>28 DEF TypeOK, HookSave, NeedsMessage, ChildHooks, ParentHooks, EndHooks, Slot
  <2>3. HookStatus(w) \in Status
    BY <2>1 DEF HookStatus, Status, Terminal, Slot, Outcomes
  <2>4. [slot[w].snap EXCEPT !.status = HookStatus(w)] \in Doc
    BY <2>1, <2>3, StatusTyped
  <2>5. [slot[w] EXCEPT !.step = "release"] \in Slot
    BY <2>1 DEF Slot
  <2>6. slot' \in [Workers -> Slot] /\ \A v \in Workers : NeedsMessage(slot'[v]) => slot'[v].msg \in Message
    <3>1. CASE HookReturns(w)
      BY <1>28, <2>1, <3>1, ReturnTyped DEF HookSave
    <3>2. CASE slot' = [slot EXCEPT ![w] = [slot[w] EXCEPT !.step = "release"]]
      BY <2>1, <2>5, <3>2, SlotTyped DEF Slot
    <3>3. QED
      BY <1>28, <3>1, <3>2 DEF HookSave
  <2>7. QED
    BY <1>28, <2>4, <2>6, DocTyped DEF TypeOK, HookSave
<1>29. ASSUME NEW w \in Workers, HookRelease(w) PROVE TypeOK'
  <2>1. slot[w] \in Slot /\ slot[w].msg \in Message /\ slot[w].snap \in Doc \cup {NoDoc}
    BY <1>29 DEF TypeOK, HookRelease, NeedsMessage, ChildHooks, ParentHooks, EndHooks, Slot
  <2>3. slot' \in [Workers -> Slot]
        /\ \A v \in Workers : NeedsMessage(slot'[v]) => slot'[v].msg \in Message
    BY <1>29, <2>1, ReturnTyped DEF HookRelease
  <2>4. QED
    BY <1>29, <2>3 DEF TypeOK, HookRelease, Release
<1>30. ASSUME NEW w \in Workers, Ack(w) PROVE TypeOK'
  BY <1>30, RestingSlots, SlotTyped DEF TypeOK, Ack
<1>31. ASSUME NEW w \in Workers, Boot(w) PROVE TypeOK'
  <2>1. slot' \in [Workers -> Slot] /\ \A v \in Workers : NeedsMessage(slot'[v]) => slot'[v].msg \in Message
    BY <1>31, RestingSlots, SlotTyped DEF Boot
  <2>2. QED
    BY <1>31, <2>1 DEF TypeOK, Boot
<1>32. ASSUME NEW w \in Workers, NEW j \in Jobs, SweepResumes(w, j) PROVE TypeOK'
  <2>1. [orphans[j] EXCEPT !.status = "PENDING"] \in Doc
    BY StatusTyped DEF TypeOK, Status, Terminal
  <2>2. [slot[w] EXCEPT !.step = "publish", !.msg = NewMessage(j)] \in Slot
    <3>1. slot[w] \in Slot
      BY DEF TypeOK
    <3>2. QED
      BY <3>1, NewMessageTyped DEF Slot
  <2>3. QED
    BY <1>32, <2>1, <2>2, NewMessageTyped, SlotTyped, DocTyped DEF TypeOK, SweepResumes, Slot
<1>33. ASSUME NEW w \in Workers, SweepPublishes(w) PROVE TypeOK'
  <2>1. slot[w].msg \in Message
    BY <1>33 DEF TypeOK, SweepPublishes, NeedsMessage
  <2>2. [slot[w].msg EXCEPT !.eta = FALSE] \in Message
    BY <2>1 DEF Message
  <2>3. QED
    BY <1>33, <2>2, RestingSlots, SlotTyped, PublishTyped DEF TypeOK, SweepPublishes
<1>34. ASSUME NEW w \in Workers, NEW j \in Jobs, SweepFails(w, j) PROVE TypeOK'
  <2>1. [orphans[j] EXCEPT !.status = "FAILURE"] \in Doc
    BY StatusTyped DEF TypeOK, Status, Terminal
  <2>2. [slot[w] EXCEPT !.step = "release", !.msg = NewMessage(j)] \in Slot
    <3>1. slot[w] \in Slot
      BY DEF TypeOK
    <3>2. QED
      BY <3>1, NewMessageTyped DEF Slot
  <2>3. QED
    BY <1>34, <2>1, <2>2, NewMessageTyped, SlotTyped, DocTyped DEF TypeOK, SweepFails, Slot
<1>35. ASSUME NEW w \in Workers, SweepReleases(w) PROVE TypeOK'
  BY <1>35, RestingSlots, SlotTyped DEF TypeOK, SweepReleases, Release
<1>36. ASSUME NEW w \in Workers, SweepEnds(w) PROVE TypeOK'
  BY <1>36, RestingSlots, SlotTyped DEF TypeOK, SweepEnds
<1>37. ASSUME NEW w \in Workers, Crash(w) PROVE TypeOK'
  <2>1. slot[w].hook \in ChildHooks \cup ParentHooks => slot[w].msg \in Message /\ slot[w].msg.job \in Jobs
    BY DEF TypeOK, NeedsMessage, Message
  <2>2. queue' \in [Message -> Nat] /\ dropped' \in SUBSET Jobs
    BY <1>37, <2>1, PublishTyped DEF TypeOK, Crash
  <2>3. QED
    BY <1>37, <2>2, RestingSlots, SlotTyped DEF TypeOK, Crash, Fault
<1>38. CASE UNCHANGED vars
  BY <1>38 DEF TypeOK, vars
<1>39. QED
  BY <1>1, <1>2, <1>3, <1>4, <1>5, <1>6, <1>7, <1>8, <1>9, <1>10, <1>11,
     <1>12, <1>13, <1>14, <1>15, <1>16, <1>17, <1>18, <1>19, <1>20, <1>21,
     <1>22, <1>23, <1>24, <1>25, <1>26, <1>27, <1>28, <1>29, <1>30, <1>31,
     <1>32, <1>33, <1>34, <1>35, <1>36, <1>37, <1>38
  DEF Next, WebNext, TimeNext, WorkerStep

(* A resting worker holds no job; a new message names its job. *)
LEMMA MessageJobs ==
  /\ Idle.msg.job = NoJob /\ Down.msg.job = NoJob
  /\ Idle.hook = "idle" /\ Down.hook = "down"
  /\ [Down EXCEPT !.hook = "sweep"].msg.job = NoJob
  /\ \A j \in Jobs : NewMessage(j).job = j
  BY DEF Idle, Down, NoMsg, NewMessage

(* A hook that returns keeps its message or drops it, and so does no other. *)
LEMMA ReturnedJob ==
  ASSUME NEW s \in Slot PROVE Returned(s).msg.job \in {s.msg.job, NoJob}
  BY MessageJobs DEF Returned, Slot

(* The same for the step HookReturns of a worker. *)
LEMMA ReturnJobs ==
  ASSUME TypeOK, NEW w \in Workers, HookReturns(w)
  PROVE  \A v \in Workers : slot'[v].msg.job \in {slot[v].msg.job, NoJob}
<1>1. \A v \in Workers : slot[v] \in Slot /\ slot'[v] \in {slot[v], Returned(slot[v])}
  BY DEF TypeOK, HookReturns
<1>2. QED
  BY <1>1, ReturnedJob

(* A revoke broadcast changes no message. *)
LEMMA BroadcastJobs ==
  ASSUME TypeOK, NEW j \in Jobs, Broadcast(j)
  PROVE  \A v \in Workers : slot'[v].msg = slot[v].msg
<1>1. \A v \in Workers : slot[v] \in Slot
  BY DEF TypeOK
<1>2. QED
  BY <1>1 DEF Broadcast, Slot

(* The worker at step w works on a job of Jobs. *)
LEMMA HeldJob ==
  ASSUME TypeOK, NEW w \in Workers, NeedsMessage(slot[w])
  PROVE  slot[w].msg \in Message /\ slot[w].msg.job \in Jobs
  BY DEF TypeOK, Message

(* Every step keeps UnknownBefore: it acts on a job that is known. *)
LEMMA UnknownStep == TypeOK /\ UnknownBefore /\ [Next]_vars => UnknownBefore'
<1> SUFFICES ASSUME TypeOK, UnknownBefore, [Next]_vars, NEW i \in Jobs, enq'[i] = "new"
             PROVE  Traceless(i)'
  BY DEF UnknownBefore
<1> USE JobsAssumption DEF webVars, ghosts, sweepVars
<1>1. ASSUME NEW j \in Jobs, AcquireLock(j) PROVE Traceless(i)'
  BY <1>1, MessageJobs DEF TypeOK, UnknownBefore, Traceless, AcquireLock
<1>2. ASSUME NEW j \in Jobs, SavePending(j) PROVE Traceless(i)'
  BY <1>2, MessageJobs DEF TypeOK, UnknownBefore, Traceless, SavePending, Doc, Status, Terminal
<1>3. ASSUME NEW j \in Jobs, CreateJob(j) PROVE Traceless(i)'
  BY <1>3, MessageJobs DEF TypeOK, UnknownBefore, Traceless, CreateJob, Publish, NewMessage, Message
<1>4. ASSUME NEW j \in Jobs, EnqueueRaises(j) PROVE Traceless(i)'
  BY <1>4, MessageJobs DEF TypeOK, UnknownBefore, Traceless, EnqueueRaises, Fault
<1>5. ASSUME NEW j \in Jobs, EnqueueReleases(j) PROVE Traceless(i)'
  BY <1>5, MessageJobs DEF TypeOK, UnknownBefore, Traceless, EnqueueReleases, Release
<1>6. ASSUME NEW j \in Jobs, EnqueuerDies(j) PROVE Traceless(i)'
  BY <1>6, MessageJobs DEF TypeOK, UnknownBefore, Traceless, EnqueuerDies, Fault
<1>7. ASSUME NEW j \in Jobs, BeatFires(j) PROVE Traceless(i)'
  BY <1>7, MessageJobs DEF TypeOK, UnknownBefore, Traceless, BeatFires, Publish, NewMessage, Message
<1>8. ASSUME NEW j \in Jobs, CancelStart(j) PROVE Traceless(i)'
  BY <1>8, MessageJobs DEF TypeOK, UnknownBefore, Traceless, CancelStart
<1>9. ASSUME NEW j \in Jobs, CancelTerm(j) PROVE Traceless(i)'
  <2>1. Traceless(i)
    BY <1>9 DEF UnknownBefore, CancelTerm
  <2>2. QED
    BY <1>9, <2>1, BroadcastJobs DEF Traceless, CancelTerm
<1>10. ASSUME NEW j \in Jobs, CancelSettled(j) PROVE Traceless(i)'
  BY <1>10, MessageJobs DEF TypeOK, UnknownBefore, Traceless, CancelSettled
<1>11. ASSUME NEW j \in Jobs, CancelKill(j) PROVE Traceless(i)'
  <2>1. Traceless(i)
    BY <1>11 DEF UnknownBefore, CancelKill
  <2>2. QED
    BY <1>11, <2>1, BroadcastJobs DEF Traceless, CancelKill
<1>12. ASSUME NEW j \in Jobs, PollGet(j) PROVE Traceless(i)'
  <2>1. Traceless(i)
    BY <1>12 DEF UnknownBefore, PollGet
  <2>2. QED
    BY <1>12, <2>1 DEF TypeOK, Traceless, PollGet, IsZombie, NoDoc
<1>13. ASSUME NEW j \in Jobs, PollSave(j) PROVE Traceless(i)'
  BY <1>13, MessageJobs DEF TypeOK, UnknownBefore, Traceless, PollSave, Doc, Status, Terminal, NoDoc
<1>14. ASSUME NEW j \in Jobs, EtaPasses(j) PROVE Traceless(i)'
  BY <1>14, MessageJobs DEF TypeOK, UnknownBefore, Traceless, EtaPasses
<1>15. ASSUME NEW j \in Jobs, DocExpires(j) PROVE Traceless(i)'
  BY <1>15, MessageJobs DEF TypeOK, UnknownBefore, Traceless, DocExpires, Fault
<1>16. ASSUME NEW k \in Keys, LockExpires(k) PROVE Traceless(i)'
  BY <1>16, MessageJobs DEF TypeOK, UnknownBefore, Traceless, LockExpires, Fault
<1>17. ASSUME NEW m \in Message, Redelivered(m) PROVE Traceless(i)'
  BY <1>17, MessageJobs DEF TypeOK, UnknownBefore, Traceless, Redelivered, Fault, Publish
<1>18. ASSUME SweepLockExpires PROVE Traceless(i)'
  BY <1>18, MessageJobs DEF TypeOK, UnknownBefore, Traceless, SweepLockExpires
<1>19. ASSUME NEW w \in Workers, NEW m \in Message, Take(w, m) PROVE Traceless(i)'
  BY <1>19, MessageJobs DEF TypeOK, UnknownBefore, Traceless, Take, Fetch, Idle, Down
<1>20. ASSUME NEW w \in Workers, NEW m \in Message, TakeRevoked(w, m) PROVE Traceless(i)'
  BY <1>20, MessageJobs DEF TypeOK, UnknownBefore, Traceless, TakeRevoked, Fetch, Idle, Down
<1>21. ASSUME NEW w \in Workers, OnPrerunGet(w) PROVE Traceless(i)'
  BY <1>21, MessageJobs DEF TypeOK, UnknownBefore, Traceless, OnPrerunGet, Doc, Status, Terminal
<1>22. ASSUME NEW w \in Workers, OnPrerunSave(w) PROVE Traceless(i)'
  <2>1. Traceless(i)
    BY <1>22 DEF UnknownBefore, OnPrerunSave
  <2>2. \A v \in Workers : slot'[v].msg.job \in {slot[v].msg.job, NoJob}
    BY <1>22, ReturnJobs DEF OnPrerunSave
  <2>3. QED
    BY <1>22, <2>1, <2>2 DEF TypeOK, Traceless, OnPrerunSave
<1>23. ASSUME NEW w \in Workers, BodySucceeds(w) PROVE Traceless(i)'
  BY <1>23, MessageJobs DEF TypeOK, UnknownBefore, Traceless, BodySucceeds
<1>24. ASSUME NEW w \in Workers, BodyRetries(w) PROVE Traceless(i)'
  <2>1. Traceless(i)
    BY <1>24 DEF UnknownBefore, BodyRetries
  <2>2. slot[w].msg \in Message
    BY <1>24, HeldJob DEF BodyRetries, NeedsMessage, ChildHooks
  <2>3. [slot[w].msg EXCEPT !.retries = @ + 1, !.eta = FALSE].job = slot[w].msg.job
    BY <2>2 DEF Message
  <2>4. \A v \in Workers : slot'[v].msg = slot[v].msg
    BY <1>24 DEF TypeOK, Slot, BodyRetries
  <2>5. QED
    BY <1>24, <2>1, <2>3, <2>4 DEF TypeOK, Traceless, BodyRetries, Publish
<1>25. ASSUME NEW w \in Workers, BodyFails(w) PROVE Traceless(i)'
  BY <1>25, MessageJobs DEF TypeOK, UnknownBefore, Traceless, BodyFails, Fault
<1>26. ASSUME NEW w \in Workers, BodyLost(w) PROVE Traceless(i)'
  BY <1>26, MessageJobs DEF TypeOK, UnknownBefore, Traceless, BodyLost, Fault
<1>27. ASSUME NEW w \in Workers, HookGet(w) PROVE Traceless(i)'
  <2>1. Traceless(i)
    BY <1>27 DEF UnknownBefore, HookGet
  <2>2. \A v \in Workers : slot'[v].msg.job \in {slot[v].msg.job, NoJob}
    <3>1. CASE HookReturns(w)
      BY <3>1, ReturnJobs
    <3>2. CASE slot' = [slot EXCEPT ![w].step = "save", ![w].snap = doc[slot[w].msg.job]]
      BY <3>2 DEF TypeOK, Slot
    <3>3. QED
      BY <1>27, <3>1, <3>2 DEF HookGet
  <2>3. QED
    BY <1>27, <2>1, <2>2 DEF Traceless, HookGet
<1>28. ASSUME NEW w \in Workers, HookSave(w) PROVE Traceless(i)'
  <2>1. Traceless(i)
    BY <1>28 DEF UnknownBefore, HookSave
  <2>2. \A v \in Workers : slot'[v].msg.job \in {slot[v].msg.job, NoJob}
    <3>1. CASE HookReturns(w)
      BY <3>1, ReturnJobs
    <3>2. CASE slot' = [slot EXCEPT ![w].step = "release"]
      BY <3>2 DEF TypeOK, Slot
    <3>3. QED
      BY <1>28, <3>1, <3>2 DEF HookSave
  <2>3. QED
    BY <1>28, <2>1, <2>2 DEF TypeOK, Traceless, HookSave
<1>29. ASSUME NEW w \in Workers, HookRelease(w) PROVE Traceless(i)'
  <2>1. Traceless(i)
    BY <1>29 DEF UnknownBefore, HookRelease
  <2>2. \A v \in Workers : slot'[v].msg.job \in {slot[v].msg.job, NoJob}
    BY <1>29, ReturnJobs DEF HookRelease
  <2>3. QED
    BY <1>29, <2>1, <2>2 DEF TypeOK, Traceless, HookRelease
<1>30. ASSUME NEW w \in Workers, Ack(w) PROVE Traceless(i)'
  BY <1>30, MessageJobs DEF TypeOK, UnknownBefore, Traceless, Ack, Idle, Down
<1>31. ASSUME NEW w \in Workers, Boot(w) PROVE Traceless(i)'
  <2>1. Traceless(i)
    BY <1>31 DEF UnknownBefore, Boot
  <2>2. orphans'[i] = NoDoc
    BY <1>31, <2>1 DEF Traceless, Boot, Sweepable, NoDoc
  <2>3. \A v \in Workers : slot'[v].msg.job \in {slot[v].msg.job, NoJob}
    BY <1>31, MessageJobs DEF TypeOK, Boot
  <2>4. QED
    BY <1>31, <2>1, <2>2, <2>3 DEF Traceless, Boot
<1>32. ASSUME NEW w \in Workers, NEW j \in Jobs, SweepResumes(w, j) PROVE Traceless(i)'
  <2>1. Traceless(i)
    BY <1>32 DEF UnknownBefore, SweepResumes
  <2>2. i # j
    BY <1>32, <2>1 DEF Traceless, SweepResumes
  <2>3. \A v \in Workers : slot'[v].msg.job \in {slot[v].msg.job, j}
    BY <1>32, MessageJobs DEF TypeOK, Slot, SweepResumes
  <2>4. QED
    BY <1>32, <2>1, <2>2, <2>3 DEF TypeOK, Traceless, SweepResumes
<1>33. ASSUME NEW w \in Workers, SweepPublishes(w) PROVE Traceless(i)'
  BY <1>33, MessageJobs DEF TypeOK, UnknownBefore, Traceless, SweepPublishes, Publish, Down, Message
<1>34. ASSUME NEW w \in Workers, NEW j \in Jobs, SweepFails(w, j) PROVE Traceless(i)'
  <2>1. Traceless(i)
    BY <1>34 DEF UnknownBefore, SweepFails
  <2>2. i # j
    BY <1>34, <2>1 DEF Traceless, SweepFails
  <2>3. \A v \in Workers : slot'[v].msg.job \in {slot[v].msg.job, j}
    BY <1>34, MessageJobs DEF TypeOK, Slot, SweepFails
  <2>4. QED
    BY <1>34, <2>1, <2>2, <2>3 DEF TypeOK, Traceless, SweepFails
<1>35. ASSUME NEW w \in Workers, SweepReleases(w) PROVE Traceless(i)'
  BY <1>35, MessageJobs DEF TypeOK, UnknownBefore, Traceless, SweepReleases, Release, Down
<1>36. ASSUME NEW w \in Workers, SweepEnds(w) PROVE Traceless(i)'
  BY <1>36, MessageJobs DEF TypeOK, UnknownBefore, Traceless, SweepEnds, Idle, Down
<1>37. ASSUME NEW w \in Workers, Crash(w) PROVE Traceless(i)'
  BY <1>37, MessageJobs DEF TypeOK, UnknownBefore, Traceless, Crash, Fault, Publish, Down
<1>38. CASE UNCHANGED vars
  BY <1>38 DEF UnknownBefore, Traceless, vars
<1>39. QED
  BY <1>1, <1>2, <1>3, <1>4, <1>5, <1>6, <1>7, <1>8, <1>9, <1>10, <1>11,
     <1>12, <1>13, <1>14, <1>15, <1>16, <1>17, <1>18, <1>19, <1>20, <1>21,
     <1>22, <1>23, <1>24, <1>25, <1>26, <1>27, <1>28, <1>29, <1>30, <1>31,
     <1>32, <1>33, <1>34, <1>35, <1>36, <1>37, <1>38
  DEF Next, WebNext, TimeNext, WorkerStep

(* What a hook, a poll or the sweep writes back keeps its origin. *)
LEMMA WriteBack ==
  ASSUME NEW d \in Doc \cup {NoDoc}, NEW s \in Status
  PROVE  /\ [d EXCEPT !.status = s] # NoDoc
         /\ [d EXCEPT !.status = s].tracked = d.tracked
         /\ [d EXCEPT !.status = s, !.attempts = @ + 1] # NoDoc
         /\ [d EXCEPT !.status = s, !.attempts = @ + 1].tracked = d.tracked
<1>1. s # "NONE"
  BY DEF Status, Terminal
<1>2. d \in [status: Status \cup {"NONE"}, attempts: Nat, tracked: BOOLEAN]
  <2>1. CASE d \in Doc
    BY <2>1 DEF Doc
  <2>2. NoDoc \in [status: Status \cup {"NONE"}, attempts: Nat, tracked: BOOLEAN]
    BY DEF NoDoc
  <2>3. QED
    BY <2>1, <2>2
<1>3. [d EXCEPT !.status = s].status = s /\ [d EXCEPT !.status = s, !.attempts = @ + 1].status = s
  BY <1>2
<1>4. NoDoc.status = "NONE"
  BY DEF NoDoc
<1>5. QED
  BY <1>1, <1>2, <1>3, <1>4

(* A hook that returns, or is cut short by a revoke, starts the next at get. *)
LEMMA ReturnSteps ==
  ASSUME TypeOK, NEW w \in Workers, HookReturns(w)
  PROVE  \A v \in Workers : \/ slot'[v] = slot[v]
                            \/ /\ slot'[v].msg.job \in {slot[v].msg.job, NoJob}
                               /\ slot'[v].step = "get"
<1>1. \A s \in Slot : Returned(s).step = "get"
  BY DEF Returned, Idle, Down, Slot
<1>2. \A v \in Workers : slot[v] \in Slot /\ slot'[v] \in {slot[v], Returned(slot[v])}
  BY DEF TypeOK, HookReturns
<1>3. QED
  BY <1>1, <1>2, ReturnedJob

(* A revoke broadcast sends the workers it hits to the start of task_revoked. *)
LEMMA BroadcastSteps ==
  ASSUME TypeOK, NEW j \in Jobs, Broadcast(j)
  PROVE  \A v \in Workers : \/ slot'[v] = slot[v]
                            \/ /\ slot'[v].msg = slot[v].msg /\ slot'[v].step = "get"
                               /\ slot'[v].hook = "revoked"
<1>1. \A v \in Workers : slot[v] \in Slot
  BY DEF TypeOK
<1>2. QED
  BY <1>1 DEF Broadcast, Slot

(* Every step keeps CopiesTracked. *)
LEMMA CopiesStep == TypeOK /\ TypeOK' /\ CopiesTracked /\ [Next]_vars => CopiesTracked'
<1> SUFFICES ASSUME TypeOK, TypeOK', [Next]_vars, NEW i \in Jobs, i \notin Beat, i \notin expired',
                    i \notin expired => Copies(i)
             PROVE  Copies(i)'
  BY DEF CopiesTracked
<1> USE JobsAssumption DEF webVars, ghosts, sweepVars
<1>1. ASSUME NEW j \in Jobs, AcquireLock(j) PROVE Copies(i)'
  BY <1>1, MessageJobs DEF TypeOK, Copies, Busy, AcquireLock
<1>2. ASSUME NEW j \in Jobs, SavePending(j) PROVE Copies(i)'
  <2>1. Copies(i)
    BY <1>2 DEF SavePending
  <2>2. [status |-> "PENDING", attempts |-> 0, tracked |-> TRUE] # NoDoc
    BY DEF NoDoc
  <2>3. QED
    BY <1>2, <2>1, <2>2 DEF TypeOK, Copies, Busy, SavePending
<1>3. ASSUME NEW j \in Jobs, CreateJob(j) PROVE Copies(i)'
  BY <1>3, MessageJobs DEF TypeOK, Copies, Busy, CreateJob, Publish, NewMessage, Message
<1>4. ASSUME NEW j \in Jobs, EnqueueRaises(j) PROVE Copies(i)'
  BY <1>4, MessageJobs DEF TypeOK, Copies, Busy, EnqueueRaises, Fault
<1>5. ASSUME NEW j \in Jobs, EnqueueReleases(j) PROVE Copies(i)'
  BY <1>5, MessageJobs DEF TypeOK, Copies, Busy, EnqueueReleases, Release
<1>6. ASSUME NEW j \in Jobs, EnqueuerDies(j) PROVE Copies(i)'
  BY <1>6, MessageJobs DEF TypeOK, Copies, Busy, EnqueuerDies, Fault
<1>7. ASSUME NEW j \in Jobs, BeatFires(j) PROVE Copies(i)'
  BY <1>7, MessageJobs DEF TypeOK, Copies, Busy, BeatFires, Publish, NewMessage, Message
<1>8. ASSUME NEW j \in Jobs, CancelStart(j) PROVE Copies(i)'
  BY <1>8, MessageJobs DEF TypeOK, Copies, Busy, CancelStart
<1>9. ASSUME NEW j \in Jobs, CancelTerm(j) PROVE Copies(i)'
  <2>1. Copies(i)
    BY <1>9 DEF CancelTerm
  <2>2. QED
    BY <1>9, <2>1, BroadcastSteps DEF Copies, Busy, CancelTerm
<1>10. ASSUME NEW j \in Jobs, CancelSettled(j) PROVE Copies(i)'
  BY <1>10, MessageJobs DEF TypeOK, Copies, Busy, CancelSettled
<1>11. ASSUME NEW j \in Jobs, CancelKill(j) PROVE Copies(i)'
  <2>1. Copies(i)
    BY <1>11 DEF CancelKill
  <2>2. QED
    BY <1>11, <2>1, BroadcastSteps DEF Copies, Busy, CancelKill
<1>12. ASSUME NEW j \in Jobs, PollGet(j) PROVE Copies(i)'
  <2>1. Copies(i)
    BY <1>12 DEF PollGet
  <2>2. QED
    BY <1>12, <2>1 DEF TypeOK, Copies, Busy, PollGet, IsZombie
<1>13. ASSUME NEW j \in Jobs, PollSave(j) PROVE Copies(i)'
  <2>1. Copies(i)
    BY <1>13 DEF PollSave
  <2>2. poll[j].snap \in Doc \cup {NoDoc}
    BY DEF TypeOK
  <2>3. [poll[j].snap EXCEPT !.status = "FAILURE"] # NoDoc
        /\ [poll[j].snap EXCEPT !.status = "FAILURE"].tracked = poll[j].snap.tracked
    BY <2>2, WriteBack DEF Status, Terminal
  <2>4. QED
    BY <1>13, <2>1, <2>3 DEF TypeOK, Copies, Busy, PollSave
<1>14. ASSUME NEW j \in Jobs, EtaPasses(j) PROVE Copies(i)'
  BY <1>14, MessageJobs DEF TypeOK, Copies, Busy, EtaPasses
<1>15. ASSUME NEW j \in Jobs, DocExpires(j) PROVE Copies(i)'
  BY <1>15, MessageJobs DEF TypeOK, Copies, Busy, DocExpires, Fault
<1>16. ASSUME NEW k \in Keys, LockExpires(k) PROVE Copies(i)'
  BY <1>16, MessageJobs DEF TypeOK, Copies, Busy, LockExpires, Fault
<1>17. ASSUME NEW m \in Message, Redelivered(m) PROVE Copies(i)'
  BY <1>17, MessageJobs DEF TypeOK, Copies, Busy, Redelivered, Fault, Publish
<1>18. ASSUME SweepLockExpires PROVE Copies(i)'
  BY <1>18, MessageJobs DEF TypeOK, Copies, Busy, SweepLockExpires
<1>19. ASSUME NEW w \in Workers, NEW m \in Message, Take(w, m) PROVE Copies(i)'
  BY <1>19, MessageJobs DEF TypeOK, Copies, Busy, Take, Fetch, Idle, Down
<1>20. ASSUME NEW w \in Workers, NEW m \in Message, TakeRevoked(w, m) PROVE Copies(i)'
  BY <1>20, MessageJobs DEF TypeOK, Copies, Busy, TakeRevoked, Fetch, Idle, Down
<1>21. ASSUME NEW w \in Workers, OnPrerunGet(w) PROVE Copies(i)'
  <2>1. Copies(i) /\ UNCHANGED <<doc, orphans, poll, enq, queue>>
    BY <1>21 DEF OnPrerunGet, sweepVars, webVars
  <2>2. \A v \in Workers : slot'[v].msg = slot[v].msg /\ (v # w => slot'[v] = slot[v])
    <3>1. slot \in [Workers -> Slot] /\ slot[w] \in Slot
      BY <1>21 DEF TypeOK, OnPrerunGet
    <3>2. \E d : slot' = [slot EXCEPT ![w].step = "save", ![w].snap = d]
      BY <1>21 DEF OnPrerunGet
    <3> QED
      BY <3>1, <3>2 DEF Slot
  <2>3. slot[w].msg.job = i => slot'[w].snap = doc[i]
    BY <1>21, <2>1 DEF OnPrerunGet, TypeOK, Slot, Copies
  <2> QED
    BY <2>1, <2>2, <2>3 DEF Copies, Busy
<1>22. ASSUME NEW w \in Workers, OnPrerunSave(w) PROVE Copies(i)'
  <2>1. Copies(i)
    BY <1>22 DEF OnPrerunSave
  <2>2. slot[w].snap \in Doc \cup {NoDoc} /\ slot[w].msg.job \in Jobs
    BY <1>22, HeldJob DEF TypeOK, Slot, OnPrerunSave, NeedsMessage, ChildHooks
  <2>3. slot[w].msg.job = i => slot[w].snap.tracked
    BY <1>22, <2>1 DEF Copies, OnPrerunSave, Busy, ChildHooks
  <2>4. slot[w].msg.job = i => doc'[i] # NoDoc /\ doc'[i].tracked
    <3> DEFINE d == [slot[w].snap EXCEPT !.status = "STARTED", !.attempts = @ + 1]
    <3>1. d # NoDoc /\ d.tracked = slot[w].snap.tracked
      <4>1. "STARTED" \in Status
        BY DEF Status
      <4>2. QED
        BY <2>2, <4>1, WriteBack
    <3>2. doc' = [doc EXCEPT ![slot[w].msg.job] = d]
      BY <1>22 DEF OnPrerunSave
    <3>3. doc'[slot[w].msg.job] = d
      <4> HIDE DEF d
      <4>1. QED
        BY <2>2, <3>2 DEF TypeOK
    <3>4. QED
      BY <2>3, <3>1, <3>3
  <2>5. slot[w].msg.job # i => doc'[i] = doc[i]
    BY <1>22 DEF TypeOK, OnPrerunSave
  <2>6. QED
    BY <1>22, <2>1, <2>4, <2>5, ReturnSteps DEF Copies, Busy, OnPrerunSave
<1>23. ASSUME NEW w \in Workers, BodySucceeds(w) PROVE Copies(i)'
  <2>1. Copies(i)
    BY <1>23 DEF BodySucceeds
  <2>2. \A v \in Workers : /\ slot'[v].msg = slot[v].msg /\ slot'[v].step = slot[v].step
                           /\ slot'[v].snap = slot[v].snap /\ (Busy(v)' => Busy(v))
    BY <1>23 DEF TypeOK, Slot, BodySucceeds, Busy, ChildHooks, ParentHooks
  <2>3. QED
    BY <1>23, <2>1, <2>2 DEF Copies, BodySucceeds
<1>24. ASSUME NEW w \in Workers, BodyRetries(w) PROVE Copies(i)'
  <2>1. Copies(i)
    BY <1>24 DEF BodyRetries
  <2>2. \A v \in Workers : /\ slot'[v].msg = slot[v].msg /\ slot'[v].step = slot[v].step
                           /\ slot'[v].snap = slot[v].snap /\ (Busy(v)' => Busy(v))
    BY <1>24 DEF TypeOK, Slot, BodyRetries, Busy, ChildHooks, ParentHooks
  <2>3. slot[w].msg \in Message
    BY <1>24, HeldJob DEF BodyRetries, NeedsMessage, ChildHooks
  <2>4. [slot[w].msg EXCEPT !.retries = @ + 1, !.eta = FALSE].job = slot[w].msg.job
    BY <2>3 DEF Message
  <2>5. \A m \in Message : m.job = i /\ queue'[m] > 0 => doc[i] # NoDoc
    <3> DEFINE again == [slot[w].msg EXCEPT !.retries = @ + 1, !.eta = FALSE]
    <3>1. queue' = [queue EXCEPT ![again] = @ + 1]
      BY <1>24 DEF BodyRetries, Publish
    <3>2. again.job = i => doc[i] # NoDoc
      BY <2>1, <2>4 DEF Copies
    <3> HIDE DEF again
    <3>3. \A m \in Message : m # again => queue'[m] = queue[m]
      BY <3>1 DEF TypeOK
    <3>4. QED
      BY <2>1, <3>2, <3>3 DEF Copies
  <2>6. QED
    BY <1>24, <2>1, <2>2, <2>5 DEF Copies, BodyRetries
<1>25. ASSUME NEW w \in Workers, BodyFails(w) PROVE Copies(i)'
  <2>1. Copies(i)
    BY <1>25 DEF BodyFails
  <2>2. \A v \in Workers : /\ slot'[v].msg = slot[v].msg /\ slot'[v].step = slot[v].step
                           /\ slot'[v].snap = slot[v].snap /\ (Busy(v)' => Busy(v))
    BY <1>25 DEF TypeOK, Slot, BodyFails, Busy, ChildHooks, ParentHooks
  <2>3. QED
    BY <1>25, <2>1, <2>2 DEF Copies, BodyFails
<1>26. ASSUME NEW w \in Workers, BodyLost(w) PROVE Copies(i)'
  <2>1. Copies(i)
    BY <1>26 DEF BodyLost
  <2>2. \A v \in Workers : /\ slot'[v].msg = slot[v].msg /\ slot'[v].step = slot[v].step
                           /\ slot'[v].snap = slot[v].snap /\ (Busy(v)' => Busy(v))
    BY <1>26 DEF TypeOK, Slot, BodyLost, Busy, ChildHooks, ParentHooks
  <2>3. QED
    BY <1>26, <2>1, <2>2 DEF Copies, BodyLost
<1>27. ASSUME NEW w \in Workers, HookGet(w) PROVE Copies(i)'
  <2>1. Copies(i)
    BY <1>27 DEF HookGet
  <2>2. CASE HookReturns(w)
    BY <1>27, <2>1, <2>2, ReturnSteps DEF Copies, Busy, HookGet
  <2>3. CASE slot' = [slot EXCEPT ![w].step = "save", ![w].snap = doc[slot[w].msg.job]]
    <3>1. \A v \in Workers : /\ slot'[v].msg = slot[v].msg /\ (Busy(v)' => Busy(v))
                             /\ v # w => slot'[v] = slot[v]
      BY <2>3 DEF TypeOK, Slot, Busy
    <3>2. slot'[w].snap = doc[slot[w].msg.job]
      BY <2>3 DEF TypeOK, Slot
    <3>3. QED
      BY <1>27, <2>1, <3>1, <3>2 DEF Copies, HookGet
  <2>4. QED
    BY <1>27, <2>2, <2>3 DEF HookGet
<1>28. ASSUME NEW w \in Workers, HookSave(w) PROVE Copies(i)'
  <2>1. Copies(i)
    BY <1>28 DEF HookSave
  <2>2. slot[w].snap \in Doc \cup {NoDoc} /\ slot[w].msg.job \in Jobs /\ Busy(w)
    BY <1>28, HeldJob DEF TypeOK, Slot, HookSave, NeedsMessage, ChildHooks, ParentHooks, EndHooks, Busy
  <2>3. HookStatus(w) \in Status
    <3>1. slot[w].outcome \in Outcomes
      BY DEF TypeOK, Slot
    <3>2. QED
      BY <3>1 DEF HookStatus, Status, Terminal, Outcomes
  <2>4. slot[w].msg.job = i => slot[w].snap.tracked
    BY <1>28, <2>1, <2>2 DEF Copies, HookSave
  <2>5. slot[w].msg.job = i => doc'[i] # NoDoc /\ doc'[i].tracked
    <3>1. doc'[slot[w].msg.job] = [slot[w].snap EXCEPT !.status = HookStatus(w)]
      BY <1>28, <2>2 DEF TypeOK, HookSave
    <3>2. /\ [slot[w].snap EXCEPT !.status = HookStatus(w)] # NoDoc
          /\ [slot[w].snap EXCEPT !.status = HookStatus(w)].tracked = slot[w].snap.tracked
      BY <2>2, <2>3, WriteBack
    <3>3. QED
      BY <2>4, <3>1, <3>2
  <2>6. slot[w].msg.job # i => doc'[i] = doc[i]
    BY <1>28 DEF TypeOK, HookSave
  <2>7. CASE HookReturns(w)
    BY <1>28, <2>1, <2>5, <2>6, <2>7, ReturnSteps DEF Copies, Busy, HookSave
  <2>8. CASE slot' = [slot EXCEPT ![w].step = "release"]
    <3>1. \A v \in Workers : /\ slot'[v].msg = slot[v].msg /\ slot'[v].snap = slot[v].snap
                             /\ (Busy(v)' => Busy(v)) /\ (v # w => slot'[v] = slot[v])
      BY <2>8 DEF TypeOK, Slot, Busy
    <3>2. QED
      BY <1>28, <2>1, <2>4, <2>5, <2>6, <3>1 DEF Copies, HookSave
  <2>9. QED
    BY <1>28, <2>7, <2>8 DEF HookSave
<1>29. ASSUME NEW w \in Workers, HookRelease(w) PROVE Copies(i)'
  <2>1. Copies(i)
    BY <1>29 DEF HookRelease
  <2>2. QED
    BY <1>29, <2>1, ReturnSteps DEF Copies, Busy, HookRelease
<1>30. ASSUME NEW w \in Workers, Ack(w) PROVE Copies(i)'
  BY <1>30, MessageJobs DEF TypeOK, Copies, Busy, Ack, Idle, Down
<1>31. ASSUME NEW w \in Workers, Boot(w) PROVE Copies(i)'
  <2>1. Copies(i)
    BY <1>31 DEF Boot
  <2>2. \A v \in Workers : slot'[v] = slot[v] \/ slot'[v].msg.job # i
    <3>1. Idle.msg.job = NoJob /\ [Down EXCEPT !.hook = "sweep"].msg.job = NoJob
      BY DEF Idle, Down, NoMsg
    <3>2. PICK s \in {Idle, [Down EXCEPT !.hook = "sweep"]} : slot' = [slot EXCEPT ![w] = s]
      BY <1>31 DEF Boot
    <3>3. s.msg.job # i
      BY <3>1
    <3>4. QED
      BY <3>2, <3>3 DEF TypeOK
  <2>3. orphans'[i] \in {orphans[i], doc[i], NoDoc}
    BY <1>31 DEF TypeOK, Boot
  <2>4. UNCHANGED <<doc, queue, enq, poll>>
    BY <1>31 DEF Boot
  <2>5. QED
    BY <2>1, <2>2, <2>3, <2>4 DEF Copies, Busy
<1>32. ASSUME NEW w \in Workers, NEW j \in Jobs, SweepResumes(w, j) PROVE Copies(i)'
  <2>1. Copies(i)
    BY <1>32 DEF SweepResumes
  <2>2. orphans[j] \in Doc \cup {NoDoc}
    BY DEF TypeOK
  <2>3. [orphans[j] EXCEPT !.status = "PENDING"] # NoDoc
        /\ [orphans[j] EXCEPT !.status = "PENDING"].tracked = orphans[j].tracked
    BY <2>2, WriteBack DEF Status, Terminal
  <2>4. /\ doc'[j] = [orphans[j] EXCEPT !.status = "PENDING"]
        /\ i # j => doc'[i] = doc[i]
    BY <1>32 DEF TypeOK, SweepResumes
  <2>5. doc'[i] # NoDoc => doc'[i].tracked
    BY <1>32, <2>1, <2>3, <2>4 DEF Copies, SweepResumes
  <2>6. \A v \in Workers : slot'[v] # slot[v] => slot'[v].msg.job = j /\ slot'[v].hook = "sweep"
    <3>1. slot[w] \in Slot
      BY DEF TypeOK
    <3>2. slot'[w].msg.job = j /\ slot'[w].hook = "sweep"
      BY <1>32, <3>1, MessageJobs DEF TypeOK, SweepResumes, Slot
    <3>3. \A v \in Workers : v # w => slot'[v] = slot[v]
      BY <1>32 DEF TypeOK, SweepResumes
    <3>4. QED
      BY <3>2, <3>3
  <2>7. UNCHANGED <<queue, enq, poll, orphans>>
    BY <1>32 DEF SweepResumes
  <2>8. doc[i] # NoDoc => doc'[i] # NoDoc
    BY <2>3, <2>4
  <2>9. \A v \in Workers : slot'[v].msg.job = i =>
             doc'[i] # NoDoc /\ (Busy(v)' => slot'[v] = slot[v])
    BY <2>1, <2>3, <2>4, <2>6, <2>8 DEF Copies, Busy, ChildHooks, ParentHooks
  <2>10. QED
    BY <2>1, <2>5, <2>7, <2>8, <2>9 DEF Copies, Busy
<1>33. ASSUME NEW w \in Workers, SweepPublishes(w) PROVE Copies(i)'
  BY <1>33, MessageJobs DEF TypeOK, Copies, Busy, SweepPublishes, Publish, Down, Message
<1>34. ASSUME NEW w \in Workers, NEW j \in Jobs, SweepFails(w, j) PROVE Copies(i)'
  <2>1. Copies(i)
    BY <1>34 DEF SweepFails
  <2>2. orphans[j] \in Doc \cup {NoDoc}
    BY DEF TypeOK
  <2>3. [orphans[j] EXCEPT !.status = "FAILURE"] # NoDoc
        /\ [orphans[j] EXCEPT !.status = "FAILURE"].tracked = orphans[j].tracked
    BY <2>2, WriteBack DEF Status, Terminal
  <2>4. /\ doc'[j] = [orphans[j] EXCEPT !.status = "FAILURE"]
        /\ i # j => doc'[i] = doc[i]
    BY <1>34 DEF TypeOK, SweepFails
  <2>5. doc'[i] # NoDoc => doc'[i].tracked
    BY <1>34, <2>1, <2>3, <2>4 DEF Copies, SweepFails
  <2>6. \A v \in Workers : slot'[v] # slot[v] => slot'[v].msg.job = j /\ slot'[v].hook = "sweep"
    <3>1. slot[w] \in Slot
      BY DEF TypeOK
    <3>2. slot'[w].msg.job = j /\ slot'[w].hook = "sweep"
      BY <1>34, <3>1, MessageJobs DEF TypeOK, SweepFails, Slot
    <3>3. \A v \in Workers : v # w => slot'[v] = slot[v]
      BY <1>34 DEF TypeOK, SweepFails
    <3>4. QED
      BY <3>2, <3>3
  <2>7. UNCHANGED <<queue, enq, poll, orphans>>
    BY <1>34 DEF SweepFails
  <2>8. doc[i] # NoDoc => doc'[i] # NoDoc
    BY <2>3, <2>4
  <2>9. \A v \in Workers : slot'[v].msg.job = i =>
             doc'[i] # NoDoc /\ (Busy(v)' => slot'[v] = slot[v])
    BY <2>1, <2>3, <2>4, <2>6, <2>8 DEF Copies, Busy, ChildHooks, ParentHooks
  <2>10. QED
    BY <2>1, <2>5, <2>7, <2>8, <2>9 DEF Copies, Busy
<1>35. ASSUME NEW w \in Workers, SweepReleases(w) PROVE Copies(i)'
  BY <1>35, MessageJobs DEF TypeOK, Copies, Busy, SweepReleases, Release, Down
<1>36. ASSUME NEW w \in Workers, SweepEnds(w) PROVE Copies(i)'
  BY <1>36, MessageJobs DEF TypeOK, Copies, Busy, SweepEnds, Idle, Down
<1>37. ASSUME NEW w \in Workers, Crash(w) PROVE Copies(i)'
  BY <1>37, MessageJobs DEF TypeOK, Copies, Busy, Crash, Fault, Publish, Down
<1>38. CASE UNCHANGED vars
  BY <1>38 DEF Copies, Busy, vars
<1>39. QED
  BY <1>1, <1>2, <1>3, <1>4, <1>5, <1>6, <1>7, <1>8, <1>9, <1>10, <1>11,
     <1>12, <1>13, <1>14, <1>15, <1>16, <1>17, <1>18, <1>19, <1>20, <1>21,
     <1>22, <1>23, <1>24, <1>25, <1>26, <1>27, <1>28, <1>29, <1>30, <1>31,
     <1>32, <1>33, <1>34, <1>35, <1>36, <1>37, <1>38
  DEF Next, WebNext, TimeNext, WorkerStep

(* Publishing adds a message and takes none away. *)
LEMMA PublishQueues ==
  ASSUME TypeOK, NEW m \in Message, Publish(m), NEW i \in Jobs
  PROVE  Queued(i) \/ m.job = i => Queued(i)'
<1>1. \A n \in Message : queue'[n] \in Nat /\ queue[n] \in Nat /\ queue'[n] >= queue[n]
  BY DEF TypeOK, Publish
<1>2. queue'[m] > 0
  BY DEF TypeOK, Publish
<1>3. QED
  BY <1>1, <1>2 DEF Queued

(* One worker moves: what the queue and this worker were going to do for   *)
(* the job is all that has to be looked at.                                *)
LEMMA OneWorkerMoves ==
  ASSUME NEW w \in Workers, NEW i \in Jobs, Pursued(i),
         \A v \in Workers : v # w => slot'[v] = slot[v],
         enq' = enq, dropped \subseteq dropped',
         Queued(i) => Pursued(i)', WillSettle(w, i) => Pursued(i)'
  PROVE  Pursued(i)'
  BY DEF Pursued, Driven, WillSettle, Busy, InEnqueue

(* Every step keeps LockHolder: the job that holds a lock is pursued until *)
(* the step that frees the lock.                                           *)
LEMMA LockStep == IndInv /\ TypeOK' /\ [Next]_vars => LockHolder'
<1> SUFFICES ASSUME TypeOK, UnknownBefore, CopiesTracked, LockHolder, TypeOK', [Next]_vars,
                    NEW k \in Keys, NEW i, lock'[k] = i, i # NoJob
             PROVE  (i \in Gated /\ KeyOf[i] = k /\ i \notin expired /\ Pursued(i))'
  BY DEF IndInv, LockHolder
<1> DEFINE Held == i \in Gated /\ KeyOf[i] = k /\ i \notin expired /\ Pursued(i)
<1> USE JobsAssumption DEF webVars, ghosts, sweepVars
<1>0. lock[k] = i => Held /\ i \in Jobs /\ i \notin Beat /\ Copies(i)
  BY DEF LockHolder, CopiesTracked
<1>1. ASSUME NEW j \in Jobs, AcquireLock(j) PROVE Held'
  <2>1. CASE lock[k] = i
    BY <1>1, <1>0, <2>1 DEF TypeOK, AcquireLock, Pursued, Driven, Queued, WillSettle, Busy, InEnqueue
  <2>2. CASE lock[k] # i
    <3>1. i = j /\ KeyOf[j] = k /\ j \in Gated /\ enq'[j] = "locked"
      BY <1>1, <2>2 DEF TypeOK, AcquireLock
    <3>2. j \notin expired
      BY <1>1 DEF AcquireLock, UnknownBefore, Traceless
    <3>3. QED
      BY <1>1, <3>1, <3>2 DEF AcquireLock, Pursued, InEnqueue
  <2>3. QED
    BY <2>1, <2>2
<1>2. ASSUME NEW j \in Jobs, SavePending(j) PROVE Held'
  <2>1. lock[k] = i /\ Held /\ i \in Jobs /\ Copies(i)
    BY <1>2, <1>0 DEF TypeOK, SavePending
  <2>2. QED
    BY <1>2, <2>1 DEF TypeOK, SavePending, Pursued, Driven, Queued, WillSettle, Busy, InEnqueue
<1>3. ASSUME NEW j \in Jobs, CreateJob(j) PROVE Held'
  <2>1. lock[k] = i /\ Held /\ i \in Jobs /\ Copies(i)
    BY <1>3, <1>0 DEF TypeOK, CreateJob
  <2>2. NewMessage(j) \in Message /\ Publish(NewMessage(j))
    BY <1>3, NewMessageTyped DEF CreateJob
  <2>3. CASE i = j
    BY <1>3, <2>1, <2>2, <2>3, PublishQueues, MessageJobs DEF CreateJob, Pursued, Driven
  <2>4. CASE i # j
    BY <1>3, <2>1, <2>2, <2>4, PublishQueues DEF TypeOK, CreateJob, Pursued, Driven, WillSettle, Busy, InEnqueue
  <2>5. QED
    BY <2>3, <2>4
<1>4. ASSUME NEW j \in Jobs, EnqueueRaises(j) PROVE Held'
  <2>1. lock[k] = i /\ Held /\ i \in Jobs /\ Copies(i)
    BY <1>4, <1>0 DEF TypeOK, EnqueueRaises
  <2>2. QED
    BY <1>4, <2>1 DEF TypeOK, EnqueueRaises, Pursued, Driven, Queued, WillSettle, Busy, InEnqueue
<1>5. ASSUME NEW j \in Jobs, EnqueueReleases(j) PROVE Held'
  <2>1. lock[k] = i /\ Held /\ i \in Jobs /\ Copies(i)
    BY <1>5, <1>0 DEF TypeOK, EnqueueReleases, Release
  <2>2. QED
    BY <1>5, <2>1 DEF TypeOK, EnqueueReleases, Pursued, Driven, Queued, WillSettle, Busy, InEnqueue, Release
<1>6. ASSUME NEW j \in Jobs, EnqueuerDies(j) PROVE Held'
  <2>1. lock[k] = i /\ Held /\ i \in Jobs /\ Copies(i)
    BY <1>6, <1>0 DEF TypeOK, EnqueuerDies
  <2>2. QED
    BY <1>6, <2>1 DEF TypeOK, EnqueuerDies, Pursued, Driven, Queued, WillSettle, Busy, InEnqueue
<1>7. ASSUME NEW j \in Jobs, BeatFires(j) PROVE Held'
  <2>1. lock[k] = i /\ Held /\ i \in Jobs /\ Copies(i)
    BY <1>7, <1>0 DEF TypeOK, BeatFires
  <2>2. NewMessage(j) \in Message /\ Publish(NewMessage(j))
    BY <1>7, NewMessageTyped DEF BeatFires
  <2>3. QED
    BY <1>7, <2>1, <2>2, PublishQueues DEF TypeOK, BeatFires, Pursued, Driven, WillSettle, Busy, InEnqueue
<1>8. ASSUME NEW j \in Jobs, CancelStart(j) PROVE Held'
  <2>1. lock[k] = i /\ Held /\ i \in Jobs /\ Copies(i)
    BY <1>8, <1>0 DEF TypeOK, CancelStart
  <2>2. QED
    BY <1>8, <2>1 DEF TypeOK, CancelStart, Pursued, Driven, Queued, WillSettle, Busy, InEnqueue
<1>9. ASSUME NEW j \in Jobs, CancelTerm(j) PROVE Held'
  <2>1. lock[k] = i /\ Held /\ i \in Jobs /\ Copies(i)
    BY <1>9, <1>0 DEF TypeOK, CancelTerm
  <2>2. \A w \in Workers : WillSettle(w, i) => WillSettle(w, i)'
    <3>1. Broadcast(j)
      BY <1>9 DEF CancelTerm
    <3>2. \A w \in Workers : slot'[w] # slot[w] =>
               slot'[w].msg = slot[w].msg /\ slot'[w].hook = "revoked"
      BY <3>1, BroadcastSteps
    <3>3. QED
      BY <3>2 DEF WillSettle, Busy, ParentHooks
  <2>3. QED
    BY <1>9, <2>1, <2>2 DEF CancelTerm, Pursued, Driven, Queued, InEnqueue
<1>10. ASSUME NEW j \in Jobs, CancelSettled(j) PROVE Held'
  <2>1. lock[k] = i /\ Held /\ i \in Jobs /\ Copies(i)
    BY <1>10, <1>0 DEF TypeOK, CancelSettled
  <2>2. QED
    BY <1>10, <2>1 DEF TypeOK, CancelSettled, Pursued, Driven, Queued, WillSettle, Busy, InEnqueue
<1>11. ASSUME NEW j \in Jobs, CancelKill(j) PROVE Held'
  <2>1. lock[k] = i /\ Held /\ i \in Jobs /\ Copies(i)
    BY <1>11, <1>0 DEF TypeOK, CancelKill
  <2>2. \A w \in Workers : WillSettle(w, i) => WillSettle(w, i)'
    <3>1. Broadcast(j)
      BY <1>11 DEF CancelKill
    <3>2. \A w \in Workers : slot'[w] # slot[w] =>
               slot'[w].msg = slot[w].msg /\ slot'[w].hook = "revoked"
      BY <3>1, BroadcastSteps
    <3>3. QED
      BY <3>2 DEF WillSettle, Busy, ParentHooks
  <2>3. QED
    BY <1>11, <2>1, <2>2 DEF CancelKill, Pursued, Driven, Queued, InEnqueue
<1>12. ASSUME NEW j \in Jobs, PollGet(j) PROVE Held'
  <2>1. lock[k] = i /\ Held /\ i \in Jobs /\ Copies(i)
    BY <1>12, <1>0 DEF TypeOK, PollGet
  <2>2. QED
    BY <1>12, <2>1 DEF TypeOK, PollGet, Pursued, Driven, Queued, WillSettle, Busy, InEnqueue
<1>13. ASSUME NEW j \in Jobs, PollSave(j) PROVE Held'
  <2>1. lock[k] = i /\ Held /\ i \in Jobs /\ Copies(i)
    BY <1>13, <1>0 DEF TypeOK, PollSave
  <2>2. QED
    BY <1>13, <2>1 DEF TypeOK, PollSave, Pursued, Driven, Queued, WillSettle, Busy, InEnqueue
<1>14. ASSUME NEW j \in Jobs, EtaPasses(j) PROVE Held'
  <2>1. lock[k] = i /\ Held /\ i \in Jobs /\ Copies(i)
    BY <1>14, <1>0 DEF TypeOK, EtaPasses
  <2>2. QED
    BY <1>14, <2>1 DEF TypeOK, EtaPasses, Pursued, Driven, Queued, WillSettle, Busy, InEnqueue
<1>15. ASSUME NEW j \in Jobs, DocExpires(j) PROVE Held'
  <2>1. lock[k] = i /\ Held /\ i \in Jobs /\ Copies(i)
    BY <1>15, <1>0 DEF TypeOK, DocExpires
  <2>2. QED
    BY <1>15, <2>1 DEF TypeOK, DocExpires, Pursued, Driven, Queued, WillSettle, Busy, InEnqueue
<1>16. ASSUME NEW h \in Keys, LockExpires(h) PROVE Held'
  <2>1. lock[k] = i /\ Held /\ i \in Jobs /\ Copies(i)
    BY <1>16, <1>0 DEF TypeOK, LockExpires
  <2>2. QED
    BY <1>16, <2>1 DEF TypeOK, LockExpires, Pursued, Driven, Queued, WillSettle, Busy, InEnqueue
<1>17. ASSUME NEW m \in Message, Redelivered(m) PROVE Held'
  <2>1. lock[k] = i /\ Held /\ i \in Jobs /\ Copies(i)
    BY <1>17, <1>0 DEF TypeOK, Redelivered
  <2>2. m \in Message /\ Publish(m)
    BY <1>17, NewMessageTyped DEF Redelivered
  <2>3. QED
    BY <1>17, <2>1, <2>2, PublishQueues DEF TypeOK, Redelivered, Pursued, Driven, WillSettle, Busy, InEnqueue
<1>18. ASSUME SweepLockExpires PROVE Held'
  <2>1. lock[k] = i /\ Held /\ i \in Jobs /\ Copies(i)
    BY <1>18, <1>0 DEF TypeOK, SweepLockExpires
  <2>2. QED
    BY <1>18, <2>1 DEF TypeOK, SweepLockExpires, Pursued, Driven, Queued, WillSettle, Busy, InEnqueue
<1>19. ASSUME NEW w \in Workers, NEW m \in Message, Take(w, m) PROVE Held'
  <2>1. lock[k] = i /\ Held /\ i \in Jobs /\ Copies(i)
    BY <1>19, <1>0 DEF TypeOK, Take
  <2>2. \A v \in Workers : v # w => slot'[v] = slot[v]
    BY <1>19 DEF TypeOK, Take
  <2>3. ~WillSettle(w, i)
    BY <1>19 DEF Take, WillSettle, Busy, ChildHooks, ParentHooks
  <2>4. CASE m.job = i
    <3>1. slot'[w].msg = m /\ slot'[w].hook \in {"prerun", "revoked"}
      BY <1>19 DEF TypeOK, Take, Idle, Down
    <3>2. WillSettle(w, i)'
      BY <2>4, <3>1 DEF WillSettle, Busy, ChildHooks, ParentHooks
    <3>3. QED
      BY <1>19, <2>1, <3>2 DEF Take, Pursued, Driven
  <2>5. CASE m.job # i
    <3>1. Queued(i) => Queued(i)'
      BY <1>19, <2>5 DEF TypeOK, Take, Fetch, Queued
    <3>2. QED
      BY <1>19, <2>1, <2>2, <2>3, <3>1, OneWorkerMoves DEF Take, Pursued, Driven
  <2>6. QED
    BY <2>4, <2>5
<1>20. ASSUME NEW w \in Workers, NEW m \in Message, TakeRevoked(w, m) PROVE Held'
  <2>1. lock[k] = i /\ Held /\ i \in Jobs /\ Copies(i)
    BY <1>20, <1>0 DEF TypeOK, TakeRevoked
  <2>2. \A v \in Workers : v # w => slot'[v] = slot[v]
    BY <1>20 DEF TypeOK, TakeRevoked
  <2>3. ~WillSettle(w, i)
    BY <1>20 DEF TakeRevoked, WillSettle, Busy, ChildHooks, ParentHooks
  <2>4. CASE m.job = i
    <3>1. slot'[w].msg = m /\ slot'[w].hook \in {"prerun", "revoked"}
      BY <1>20 DEF TypeOK, TakeRevoked, Idle, Down
    <3>2. WillSettle(w, i)'
      BY <2>4, <3>1 DEF WillSettle, Busy, ChildHooks, ParentHooks
    <3>3. QED
      BY <1>20, <2>1, <3>2 DEF TakeRevoked, Pursued, Driven
  <2>5. CASE m.job # i
    <3>1. Queued(i) => Queued(i)'
      BY <1>20, <2>5 DEF TypeOK, TakeRevoked, Fetch, Queued
    <3>2. QED
      BY <1>20, <2>1, <2>2, <2>3, <3>1, OneWorkerMoves DEF TakeRevoked, Pursued, Driven
  <2>6. QED
    BY <2>4, <2>5
<1>21. ASSUME NEW w \in Workers, OnPrerunGet(w) PROVE Held'
  <2>1. lock[k] = i /\ Held /\ i \in Jobs /\ Copies(i)
    BY <1>21, <1>0 DEF TypeOK, OnPrerunGet
  <2>2. \A v \in Workers : v # w => slot'[v] = slot[v]
    BY <1>21 DEF TypeOK, OnPrerunGet
  <2>3. Queued(i) => Queued(i)'
    BY <1>21 DEF OnPrerunGet, Queued
  <2>4. WillSettle(w, i) => WillSettle(w, i)'
    <3>1. slot[w] \in Slot
      BY DEF TypeOK
    <3>2. slot'[w].msg = slot[w].msg /\ slot'[w].hook = slot[w].hook /\ slot'[w].outcome = slot[w].outcome
      BY <1>21, <3>1 DEF TypeOK, OnPrerunGet, Slot
    <3>3. QED
      BY <3>2 DEF WillSettle, Busy
  <2>5. QED
    BY <1>21, <2>1, <2>2, <2>3, <2>4, OneWorkerMoves DEF OnPrerunGet, Pursued, Driven
<1>22. ASSUME NEW w \in Workers, OnPrerunSave(w) PROVE Held'
  <2>1. lock[k] = i /\ Held /\ i \in Jobs /\ Copies(i)
    BY <1>22, <1>0 DEF TypeOK, OnPrerunSave
  <2>2. \A v \in Workers : v # w => slot'[v] = slot[v]
    BY <1>22 DEF TypeOK, OnPrerunSave, HookReturns
  <2>3. Queued(i) => Queued(i)'
    BY <1>22 DEF OnPrerunSave, Queued
  <2>4. WillSettle(w, i) => WillSettle(w, i)'
    <3>1. slot[w] \in Slot /\ slot'[w] = Returned(slot[w]) /\ AfterHook(slot[w].hook) = "body"
      BY <1>22 DEF TypeOK, OnPrerunSave, HookReturns, AfterHook
    <3>2. slot'[w].msg = slot[w].msg /\ slot'[w].hook = "body"
      BY <3>1 DEF Returned, Slot
    <3>3. QED
      BY <3>2 DEF WillSettle, Busy, ChildHooks
  <2>5. QED
    BY <1>22, <2>1, <2>2, <2>3, <2>4, OneWorkerMoves DEF OnPrerunSave, Pursued, Driven
<1>23. ASSUME NEW w \in Workers, BodySucceeds(w) PROVE Held'
  <2>1. lock[k] = i /\ Held /\ i \in Jobs /\ Copies(i)
    BY <1>23, <1>0 DEF TypeOK, BodySucceeds
  <2>2. \A v \in Workers : v # w => slot'[v] = slot[v]
    BY <1>23 DEF TypeOK, BodySucceeds
  <2>3. Queued(i) => Queued(i)'
    BY <1>23 DEF BodySucceeds, Queued
  <2>4. WillSettle(w, i) => WillSettle(w, i)'
    <3>1. slot[w] \in Slot
      BY DEF TypeOK
    <3>2. slot'[w].msg = slot[w].msg /\ slot'[w].hook = "postrun" /\ slot'[w].outcome # "RETRY"
      BY <1>23, <3>1 DEF TypeOK, BodySucceeds, Slot
    <3>3. QED
      BY <3>2 DEF WillSettle, Busy, ChildHooks, ParentHooks
  <2>5. QED
    BY <1>23, <2>1, <2>2, <2>3, <2>4, OneWorkerMoves DEF BodySucceeds, Pursued, Driven
<1>24. ASSUME NEW w \in Workers, BodyRetries(w) PROVE Held'
  <2>1. lock[k] = i /\ Held /\ i \in Jobs /\ Copies(i)
    BY <1>24, <1>0 DEF TypeOK, BodyRetries
  <2>2. \A v \in Workers : v # w => slot'[v] = slot[v]
    BY <1>24 DEF TypeOK, BodyRetries
  <2>3. slot[w].msg \in Message
    BY <1>24, HeldJob DEF BodyRetries, NeedsMessage, ChildHooks
  <2>4. [slot[w].msg EXCEPT !.retries = @ + 1, !.eta = FALSE] \in Message
        /\ [slot[w].msg EXCEPT !.retries = @ + 1, !.eta = FALSE].job = slot[w].msg.job
    <3>1. slot[w].msg.retries + 1 \in 0 .. RetryCap
      BY <1>24, <2>3 DEF BodyRetries, Message
    <3>2. QED
      BY <2>3, <3>1 DEF Message
  <2>5. Queued(i) \/ WillSettle(w, i) => Queued(i)'
    BY <1>24, <2>1, <2>4, PublishQueues DEF BodyRetries, WillSettle
  <2>6. QED
    BY <1>24, <2>1, <2>2, <2>5, OneWorkerMoves DEF BodyRetries, Pursued, Driven
<1>25. ASSUME NEW w \in Workers, BodyFails(w) PROVE Held'
  <2>1. lock[k] = i /\ Held /\ i \in Jobs /\ Copies(i)
    BY <1>25, <1>0 DEF TypeOK, BodyFails
  <2>2. \A v \in Workers : v # w => slot'[v] = slot[v]
    BY <1>25 DEF TypeOK, BodyFails
  <2>3. Queued(i) => Queued(i)'
    BY <1>25 DEF BodyFails, Queued
  <2>4. WillSettle(w, i) => WillSettle(w, i)'
    <3>1. slot[w] \in Slot
      BY DEF TypeOK
    <3>2. slot'[w].msg = slot[w].msg /\ slot'[w].hook = "failure" /\ slot'[w].outcome # "RETRY"
      BY <1>25, <3>1 DEF TypeOK, BodyFails, Slot
    <3>3. QED
      BY <3>2 DEF WillSettle, Busy, ChildHooks, ParentHooks
  <2>5. QED
    BY <1>25, <2>1, <2>2, <2>3, <2>4, OneWorkerMoves DEF BodyFails, Pursued, Driven
<1>26. ASSUME NEW w \in Workers, BodyLost(w) PROVE Held'
  <2>1. lock[k] = i /\ Held /\ i \in Jobs /\ Copies(i)
    BY <1>26, <1>0 DEF TypeOK, BodyLost
  <2>2. \A v \in Workers : v # w => slot'[v] = slot[v]
    BY <1>26 DEF TypeOK, BodyLost
  <2>3. Queued(i) => Queued(i)'
    BY <1>26 DEF BodyLost, Queued
  <2>4. WillSettle(w, i) => WillSettle(w, i)'
    <3>1. slot[w] \in Slot
      BY DEF TypeOK
    <3>2. slot'[w].msg = slot[w].msg /\ slot'[w].hook = "lost" /\ slot'[w].outcome # "RETRY"
      BY <1>26, <3>1 DEF TypeOK, BodyLost, Slot
    <3>3. QED
      BY <3>2 DEF WillSettle, Busy, ChildHooks, ParentHooks
  <2>5. QED
    BY <1>26, <2>1, <2>2, <2>3, <2>4, OneWorkerMoves DEF BodyLost, Pursued, Driven
<1>27. ASSUME NEW w \in Workers, HookGet(w) PROVE Held'
  <2>1. lock[k] = i /\ Held /\ i \in Jobs /\ Copies(i)
    BY <1>27, <1>0 DEF TypeOK, HookGet
  <2>2. \A v \in Workers : v # w => slot'[v] = slot[v]
    BY <1>27 DEF TypeOK, HookGet, HookReturns
  <2>3. Queued(i) => Queued(i)'
    BY <1>27 DEF HookGet, Queued
  <2>4. WillSettle(w, i) => WillSettle(w, i)'
    <3>1. SUFFICES ASSUME WillSettle(w, i) PROVE WillSettle(w, i)'
      OBVIOUS
    <3>2. ~HookIgnores(w)
      BY <1>27, <2>1, <3>1 DEF HookIgnores, WillSettle, Copies
    <3>3. slot[w] \in Slot
      BY DEF TypeOK
    <3>4. slot'[w].msg = slot[w].msg /\ slot'[w].hook = slot[w].hook /\ slot'[w].outcome = slot[w].outcome
      BY <1>27, <3>2, <3>3 DEF TypeOK, HookGet, Slot
    <3>5. QED
      BY <3>1, <3>4 DEF WillSettle, Busy
  <2>5. QED
    BY <1>27, <2>1, <2>2, <2>3, <2>4, OneWorkerMoves DEF HookGet, Pursued, Driven
<1>28. ASSUME NEW w \in Workers, HookSave(w) PROVE Held'
  <2>1. lock[k] = i /\ Held /\ i \in Jobs /\ Copies(i)
    BY <1>28, <1>0 DEF TypeOK, HookSave
  <2>2. \A v \in Workers : v # w => slot'[v] = slot[v]
    BY <1>28 DEF TypeOK, HookSave, HookReturns
  <2>3. Queued(i) => Queued(i)'
    BY <1>28 DEF HookSave, Queued
  <2>4. WillSettle(w, i) => WillSettle(w, i)'
    <3>1. SUFFICES ASSUME WillSettle(w, i) PROVE WillSettle(w, i)'
      OBVIOUS
    <3>2. slot[w].hook # "retry" /\ HasLock(slot[w].msg.job, slot[w].snap)
      BY <1>28, <2>1, <3>1 DEF HookSave, HasLock, WillSettle, Copies
    <3>3. slot[w] \in Slot
      BY DEF TypeOK
    <3>4. slot'[w].msg = slot[w].msg /\ slot'[w].hook = slot[w].hook /\ slot'[w].outcome = slot[w].outcome
      BY <1>28, <3>2, <3>3 DEF TypeOK, HookSave, Slot
    <3>5. QED
      BY <3>1, <3>4 DEF WillSettle, Busy
  <2>5. QED
    BY <1>28, <2>1, <2>2, <2>3, <2>4, OneWorkerMoves DEF HookSave, Pursued, Driven
<1>29. ASSUME NEW w \in Workers, HookRelease(w) PROVE Held'
  <2>1. lock[k] = i /\ Held /\ i \in Jobs /\ Copies(i)
    BY <1>29, <1>0 DEF TypeOK, HookRelease, Release
  <2>2. \A v \in Workers : v # w => slot'[v] = slot[v]
    BY <1>29 DEF TypeOK, HookRelease, HookReturns
  <2>3. Queued(i) => Queued(i)'
    BY <1>29 DEF HookRelease, Queued
  <2>4. ~WillSettle(w, i)
    BY <1>29, <2>1 DEF TypeOK, HookRelease, Release, WillSettle
  <2>5. QED
    BY <1>29, <2>1, <2>2, <2>3, <2>4, OneWorkerMoves DEF HookRelease, Pursued, Driven
<1>30. ASSUME NEW w \in Workers, Ack(w) PROVE Held'
  <2>1. lock[k] = i /\ Held /\ i \in Jobs /\ Copies(i)
    BY <1>30, <1>0 DEF TypeOK, Ack
  <2>2. \A v \in Workers : v # w => slot'[v] = slot[v]
    BY <1>30 DEF TypeOK, Ack
  <2>3. Queued(i) => Queued(i)'
    BY <1>30 DEF Ack, Queued
  <2>4. ~WillSettle(w, i)
    BY <1>30 DEF Ack, WillSettle, Busy, ChildHooks, ParentHooks
  <2>5. QED
    BY <1>30, <2>1, <2>2, <2>3, <2>4, OneWorkerMoves DEF Ack, Pursued, Driven
<1>31. ASSUME NEW w \in Workers, Boot(w) PROVE Held'
  <2>1. lock[k] = i /\ Held /\ i \in Jobs /\ Copies(i)
    BY <1>31, <1>0 DEF TypeOK, Boot
  <2>2. \A v \in Workers : v # w => slot'[v] = slot[v]
    BY <1>31 DEF TypeOK, Boot
  <2>3. Queued(i) => Queued(i)'
    BY <1>31 DEF Boot, Queued
  <2>4. ~WillSettle(w, i)
    BY <1>31 DEF Boot, WillSettle, Busy, ChildHooks, ParentHooks
  <2>5. QED
    BY <1>31, <2>1, <2>2, <2>3, <2>4, OneWorkerMoves DEF Boot, Pursued, Driven
<1>32. ASSUME NEW w \in Workers, NEW j \in Jobs, SweepResumes(w, j) PROVE Held'
  <2>1. lock[k] = i /\ Held /\ i \in Jobs /\ Copies(i)
    BY <1>32, <1>0 DEF TypeOK, SweepResumes
  <2>2. \A v \in Workers : v # w => slot'[v] = slot[v]
    BY <1>32 DEF TypeOK, SweepResumes
  <2>3. Queued(i) => Queued(i)'
    BY <1>32 DEF SweepResumes, Queued
  <2>4. ~WillSettle(w, i)
    BY <1>32 DEF SweepResumes, WillSettle, Busy, ChildHooks, ParentHooks
  <2>5. QED
    BY <1>32, <2>1, <2>2, <2>3, <2>4, OneWorkerMoves DEF SweepResumes, Pursued, Driven
<1>33. ASSUME NEW w \in Workers, SweepPublishes(w) PROVE Held'
  <2>1. lock[k] = i /\ Held /\ i \in Jobs /\ Copies(i)
    BY <1>33, <1>0 DEF TypeOK, SweepPublishes
  <2>2. \A v \in Workers : v # w => slot'[v] = slot[v]
    BY <1>33 DEF TypeOK, SweepPublishes
  <2>3. slot[w].msg \in Message
    BY <1>33, HeldJob DEF SweepPublishes, NeedsMessage
  <2>4. [slot[w].msg EXCEPT !.eta = FALSE] \in Message
    BY <2>3 DEF Message
  <2>5. Queued(i) => Queued(i)'
    BY <1>33, <2>1, <2>4, PublishQueues DEF SweepPublishes
  <2>6. ~WillSettle(w, i)
    BY <1>33 DEF SweepPublishes, WillSettle, Busy, ChildHooks, ParentHooks
  <2>7. QED
    BY <1>33, <2>1, <2>2, <2>5, <2>6, OneWorkerMoves DEF SweepPublishes, Pursued, Driven
<1>34. ASSUME NEW w \in Workers, NEW j \in Jobs, SweepFails(w, j) PROVE Held'
  <2>1. lock[k] = i /\ Held /\ i \in Jobs /\ Copies(i)
    BY <1>34, <1>0 DEF TypeOK, SweepFails
  <2>2. \A v \in Workers : v # w => slot'[v] = slot[v]
    BY <1>34 DEF TypeOK, SweepFails
  <2>3. Queued(i) => Queued(i)'
    BY <1>34 DEF SweepFails, Queued
  <2>4. ~WillSettle(w, i)
    BY <1>34 DEF SweepFails, WillSettle, Busy, ChildHooks, ParentHooks
  <2>5. QED
    BY <1>34, <2>1, <2>2, <2>3, <2>4, OneWorkerMoves DEF SweepFails, Pursued, Driven
<1>35. ASSUME NEW w \in Workers, SweepReleases(w) PROVE Held'
  <2>1. lock[k] = i /\ Held /\ i \in Jobs /\ Copies(i)
    BY <1>35, <1>0 DEF TypeOK, SweepReleases, Release
  <2>2. \A v \in Workers : v # w => slot'[v] = slot[v]
    BY <1>35 DEF TypeOK, SweepReleases
  <2>3. Queued(i) => Queued(i)'
    BY <1>35 DEF SweepReleases, Queued
  <2>4. ~WillSettle(w, i)
    BY <1>35 DEF SweepReleases, WillSettle, Busy, ChildHooks, ParentHooks
  <2>5. QED
    BY <1>35, <2>1, <2>2, <2>3, <2>4, OneWorkerMoves DEF SweepReleases, Pursued, Driven
<1>36. ASSUME NEW w \in Workers, SweepEnds(w) PROVE Held'
  <2>1. lock[k] = i /\ Held /\ i \in Jobs /\ Copies(i)
    BY <1>36, <1>0 DEF TypeOK, SweepEnds
  <2>2. \A v \in Workers : v # w => slot'[v] = slot[v]
    BY <1>36 DEF TypeOK, SweepEnds
  <2>3. Queued(i) => Queued(i)'
    BY <1>36 DEF SweepEnds, Queued
  <2>4. ~WillSettle(w, i)
    BY <1>36 DEF SweepEnds, WillSettle, Busy, ChildHooks, ParentHooks
  <2>5. QED
    BY <1>36, <2>1, <2>2, <2>3, <2>4, OneWorkerMoves DEF SweepEnds, Pursued, Driven
<1>37. ASSUME NEW w \in Workers, Crash(w) PROVE Held'
  <2>1. lock[k] = i /\ Held /\ i \in Jobs /\ Copies(i)
    BY <1>37, <1>0 DEF TypeOK, Crash
  <2>2. \A v \in Workers : v # w => slot'[v] = slot[v]
    BY <1>37 DEF TypeOK, Crash
  <2>3. Queued(i) => Queued(i)'
    <3>1. CASE slot[w].hook \in ChildHooks
      BY <1>37, <2>1, <3>1, HeldJob, PublishQueues DEF Crash, NeedsMessage
    <3>2. CASE slot[w].hook \notin ChildHooks
      BY <1>37, <3>2 DEF Crash, Queued
    <3>3. QED
      BY <3>1, <3>2
  <2>4. WillSettle(w, i) => Queued(i)' \/ i \in dropped'
    <3>1. CASE slot[w].hook \in ChildHooks
      BY <1>37, <2>1, <3>1, HeldJob, PublishQueues DEF Crash, NeedsMessage, WillSettle
    <3>2. CASE slot[w].hook \notin ChildHooks
      BY <1>37, <3>2 DEF Crash, WillSettle, Busy
    <3>3. QED
      BY <3>1, <3>2
  <2>5. QED
    BY <1>37, <2>1, <2>2, <2>3, <2>4, OneWorkerMoves DEF Crash, Pursued, Driven
<1>38. CASE UNCHANGED vars
  BY <1>0, <1>38 DEF Pursued, Driven, Queued, WillSettle, Busy, InEnqueue, vars
<1>39. QED
  BY <1>1, <1>2, <1>3, <1>4, <1>5, <1>6, <1>7, <1>8, <1>9, <1>10, <1>11,
     <1>12, <1>13, <1>14, <1>15, <1>16, <1>17, <1>18, <1>19, <1>20, <1>21,
     <1>22, <1>23, <1>24, <1>25, <1>26, <1>27, <1>28, <1>29, <1>30, <1>31,
     <1>32, <1>33, <1>34, <1>35, <1>36, <1>37, <1>38
  DEF Next, WebNext, TimeNext, WorkerStep

(* The initial state satisfies the inductive invariant. *)
LEMMA InitInv == Init => IndInv
<1> SUFFICES ASSUME Init PROVE IndInv
  OBVIOUS
<1> USE JobsAssumption
<1>1. \A w \in Workers : slot[w] \in {Idle, Down}
  BY DEF Init
<1>2. TypeOK
  <2>1. /\ slot \in [Workers -> Slot]
        /\ \A w \in Workers : NeedsMessage(slot[w]) => slot[w].msg \in Message
    BY <1>1, RestingSlots DEF Init
  <2>2. queue \in [Message -> Nat] /\ budget \in 0 .. MaxFaults
    BY DEF Init
  <2>3. poll \in [Jobs -> [at: {"idle", "read", "over"}, snap: Doc \cup {NoDoc}]]
    BY DEF Init
  <2>4. doc \in [Jobs -> Doc \cup {NoDoc}] /\ orphans \in [Jobs -> Doc \cup {NoDoc}]
    BY DEF Init
  <2>5. QED
    BY <2>1, <2>2, <2>3, <2>4 DEF Init, TypeOK
<1>3. UnknownBefore
  BY <1>1, MessageJobs DEF Init, UnknownBefore, Traceless
<1>4. CopiesTracked
  BY <1>1, MessageJobs DEF Init, CopiesTracked, Copies
<1>5. LockHolder
  BY DEF Init, LockHolder
<1>6. QED
  BY <1>2, <1>3, <1>4, <1>5 DEF IndInv

(* Every step keeps the inductive invariant. *)
LEMMA NextInv == IndInv /\ [Next]_vars => IndInv'
  BY TypeStep, UnknownStep, CopiesStep, LockStep DEF IndInv

(* The inductive invariant implies the invariants the runs check. *)
LEMMA InvImplies == IndInv => TypeOK /\ TrackedFromTheStart /\ LockNotLeaked
<1> SUFFICES ASSUME IndInv PROVE TrackedFromTheStart /\ LockNotLeaked
  BY DEF IndInv
<1>1. TrackedFromTheStart
  BY DEF IndInv, CopiesTracked, Copies, TrackedFromTheStart, Queued
<1>2. LockNotLeaked
  BY DEF IndInv, LockHolder, Pursued, LockNotLeaked
<1>3. QED
  BY <1>1, <1>2

(* The variables of AgentJobs keep their types; in particular a worker in  *)
(* a hook, the body or between two steps of the sweep holds a message.     *)
THEOREM TypeCorrect == Spec => []TypeOK
<1>1. QED
  BY InitInv, NextInv, InvImplies, PTL DEF Spec

(* ClientAgent.enqueue saves the JobState before it publishes: whatever    *)
(* crashes, races of the hooks, the sweep, polls and cancellations follow, *)
(* no worker and no client ever meets an enqueued job whose JobState has   *)
(* lost the policy of its request, before the document expires.            *)
THEOREM TrackedCorrect == Spec => []TrackedFromTheStart
<1>1. QED
  BY InitInv, NextInv, InvImplies, PTL DEF Spec

(* The concurrency lock that ClientAgent.enqueue took is deleted by one of *)
(* the hooks, by enqueue itself or by the sweep, unless the enqueuing      *)
(* process dies, or a worker dies in the task_failure or task_revoked hook *)
(* of a message it has already acknowledged.                               *)
THEOREM LockCorrect == Spec => []LockNotLeaked
<1>1. QED
  BY InitInv, NextInv, InvImplies, PTL DEF Spec
-----------------------------------------------------------------------------
(* Which step did it                                                       *)

(* A worker moves by itself, or a revoke broadcast hits it. *)
LEMMA OneMoves ==
  ASSUME TypeOK, [Next]_vars, NEW v \in Workers
  PROVE  \/ slot'[v] = slot[v]
         \/ \E j \in Jobs : /\ CancelTerm(j) \/ CancelKill(j)
                           /\ Broadcast(j) /\ slot[v].hook \in ChildHooks /\ slot[v].msg.job = j
         \/ WorkerStep(v) \/ BodyLost(v) \/ Boot(v) \/ Crash(v)
<1>1. ASSUME NEW w \in Workers, WorkerStep(w) \/ BodyLost(w) \/ Boot(w) \/ Crash(w), w # v
      PROVE  slot'[v] = slot[v]
  <2>1. \E s : slot' = [slot EXCEPT ![w] = s]
    <3>1. CASE \E m \in Message : Take(w, m) \/ TakeRevoked(w, m)
      BY <3>1 DEF Take, TakeRevoked
    <3>2. CASE OnPrerunGet(w) \/ OnPrerunSave(w)
      BY <3>2 DEF OnPrerunGet, OnPrerunSave, HookReturns
    <3>3. CASE BodySucceeds(w) \/ BodyRetries(w) \/ BodyFails(w) \/ BodyLost(w)
      BY <3>3 DEF BodySucceeds, BodyRetries, BodyFails, BodyLost
    <3>4. CASE HookGet(w)
      BY <3>4 DEF HookGet, HookReturns
    <3>5. CASE HookSave(w) \/ HookRelease(w) \/ Ack(w)
      BY <3>5 DEF HookSave, HookRelease, HookReturns, Ack
    <3>6. CASE \E j \in Jobs : SweepResumes(w, j) \/ SweepFails(w, j)
      BY <3>6 DEF SweepResumes, SweepFails
    <3>7. CASE SweepPublishes(w) \/ SweepReleases(w) \/ SweepEnds(w) \/ Crash(w) \/ Boot(w)
      BY <3>7 DEF SweepPublishes, SweepReleases, SweepEnds, Crash, Boot
    <3> QED
      BY <1>1, <3>1, <3>2, <3>3, <3>4, <3>5, <3>6, <3>7 DEF WorkerStep
  <2> QED
    BY <1>1, <2>1 DEF TypeOK
<1>2. ASSUME NEW j \in Jobs, CancelTerm(j) \/ CancelKill(j)
      PROVE  Broadcast(j) /\ (slot'[v] = slot[v] \/ (slot[v].hook \in ChildHooks /\ slot[v].msg.job = j))
  <2>1. Broadcast(j)
    BY <1>2, Zenon DEF CancelTerm, CancelKill
  <2> QED
    BY <2>1 DEF Broadcast
<1>3. ASSUME NEW j \in Jobs, WebNext(j)
      PROVE  UNCHANGED slot \/ CancelTerm(j) \/ CancelKill(j)
  BY <1>3, Zenon DEF WebNext, AcquireLock, SavePending, CreateJob, EnqueueRaises, EnqueueReleases, EnqueuerDies,
     BeatFires, CancelStart, CancelSettled, PollGet, PollSave
<1>4. TimeNext => UNCHANGED slot
  BY DEF TimeNext, EtaPasses, DocExpires, LockExpires, Redelivered, SweepLockExpires
<1> QED
  BY <1>1, <1>2, <1>3, <1>4 DEF Next, vars

(* A broadcast takes the message of a child to the task_revoked hook. *)
LEMMA BroadcastHooks ==
  ASSUME TypeOK, NEW j \in Jobs, Broadcast(j), NEW v \in Workers
  PROVE  /\ slot'[v].msg = slot[v].msg /\ slot'[v].outcome = slot[v].outcome
         /\ IF slot[v].hook \in ChildHooks /\ slot[v].msg.job = j
            THEN slot'[v].hook = "revoked" /\ slot'[v].step = "get"
            ELSE slot'[v] = slot[v]
<1>1. slot[v] \in Slot
  BY DEF TypeOK
<1> QED
  BY <1>1 DEF Broadcast, Slot

(* Where a hook that returns goes on. *)
LEMMA ReturnHooks ==
  ASSUME TypeOK, NEW v \in Workers, HookReturns(v)
  PROVE  \/ AfterHook(slot[v].hook) = "idle" /\ slot'[v] = Idle
         \/ /\ AfterHook(slot[v].hook) # "idle" /\ slot'[v].hook = AfterHook(slot[v].hook)
            /\ slot'[v].step = "get"
            /\ slot'[v].msg = slot[v].msg /\ slot'[v].outcome = slot[v].outcome
<1>1. slot[v] \in Slot /\ slot'[v] = Returned(slot[v])
  BY DEF TypeOK, HookReturns
<1> QED
  BY <1>1 DEF Returned, Slot

(* The life of a message in a worker. *)
LEMMA WorkerMoves ==
  ASSUME TypeOK, NEW v \in Workers, WorkerStep(v) \/ BodyLost(v) \/ Boot(v) \/ Crash(v)
  PROVE  LET s == slot[v]
             t == slot'[v]
         IN \/ \E m \in Message : /\ Take(v, m)
                                  /\ s.hook = "idle" /\ t.hook = "prerun" /\ t.step = "get" /\ t.msg = m
            \/ \E m \in Message : /\ TakeRevoked(v, m)
                                  /\ s.hook = "idle" /\ t.hook = "revoked" /\ t.step = "get" /\ t.msg = m
            \/ OnPrerunGet(v) /\ s.hook = "prerun" /\ t.hook = "prerun" /\ t.msg = s.msg
            \/ OnPrerunSave(v) /\ s.hook = "prerun" /\ t.hook = "body" /\ t.msg = s.msg
            \/ /\ BodySucceeds(v) /\ s.hook = "body" /\ t.hook = "postrun" /\ t.msg = s.msg
               /\ t.step = s.step /\ t.outcome = "SUCCESS"
            \/ /\ BodyRetries(v) /\ s.hook = "body" /\ t.hook = "retry" /\ t.msg = s.msg
               /\ t.step = s.step /\ t.outcome = "RETRY"
            \/ /\ BodyFails(v) /\ s.hook = "body" /\ t.hook = "failure" /\ t.msg = s.msg
               /\ t.step = s.step /\ t.outcome = "FAILURE"
            \/ /\ BodyLost(v) /\ s.hook = "body" /\ t.hook = "lost" /\ t.msg = s.msg
               /\ t.step = s.step /\ t.outcome = "FAILURE"
            \/ /\ HookGet(v) \/ HookSave(v) \/ HookRelease(v)
               /\ s.hook \in EndHooks
               /\ \/ t.hook = s.hook /\ t.msg = s.msg /\ t.outcome = s.outcome
                  \/ /\ HookReturns(v)
                     /\ \/ AfterHook(s.hook) = "idle" /\ t = Idle
                        \/ /\ AfterHook(s.hook) # "idle" /\ t.hook = AfterHook(s.hook)
                           /\ t.step = "get" /\ t.msg = s.msg /\ t.outcome = s.outcome
            \/ Ack(v) /\ s.hook = "ack" /\ t = Idle
            \/ \E j \in Jobs : /\ SweepResumes(v, j) \/ SweepFails(v, j)
                               /\ s.hook = "sweep" /\ t.hook = "sweep" /\ t.msg = NewMessage(j)
            \/ /\ SweepPublishes(v) \/ SweepReleases(v)
               /\ s.hook = "sweep" /\ t.hook = "sweep" /\ t.step = "get" /\ t.msg = NoMsg
            \/ SweepEnds(v) /\ s.hook = "sweep" /\ t = Idle
            \/ Boot(v) /\ s.hook = "down" /\ t.hook \in {"idle", "sweep"} /\ t.step = "get" /\ t.msg = NoMsg
            \/ Crash(v) /\ s.hook # "down" /\ t = Down
<1>0. slot[v] \in Slot /\ DOMAIN slot = Workers
  BY DEF TypeOK
<1>1. ASSUME NEW m \in Message, Take(v, m) \/ TakeRevoked(v, m)
      PROVE  slot[v].hook = "idle" /\ slot'[v].msg = m /\ slot'[v].step = "get"
  BY <1>0, <1>1 DEF Take, TakeRevoked, Idle, Down
<1>2. ASSUME NEW m \in Message
      PROVE  (Take(v, m) => slot'[v].hook = "prerun") /\ (TakeRevoked(v, m) => slot'[v].hook = "revoked")
  BY <1>0 DEF Take, TakeRevoked, Idle, Down
<1>3. OnPrerunGet(v) => slot[v].hook = "prerun" /\ slot'[v].hook = "prerun" /\ slot'[v].msg = slot[v].msg
  BY <1>0 DEF OnPrerunGet, Slot
<1>4. OnPrerunSave(v) => slot[v].hook = "prerun" /\ slot'[v].hook = "body" /\ slot'[v].msg = slot[v].msg
  BY <1>0, ReturnHooks DEF OnPrerunSave, AfterHook
<1>5. BodySucceeds(v) => /\ slot[v].hook = "body" /\ slot'[v].hook = "postrun" /\ slot'[v].msg = slot[v].msg
                         /\ slot'[v].step = slot[v].step /\ slot'[v].outcome = "SUCCESS"
  BY <1>0 DEF BodySucceeds, Slot
<1>6. BodyRetries(v) => /\ slot[v].hook = "body" /\ slot'[v].hook = "retry" /\ slot'[v].msg = slot[v].msg
                        /\ slot'[v].step = slot[v].step /\ slot'[v].outcome = "RETRY"
  BY <1>0 DEF BodyRetries, Slot
<1>7. BodyFails(v) => /\ slot[v].hook = "body" /\ slot'[v].hook = "failure" /\ slot'[v].msg = slot[v].msg
                      /\ slot'[v].step = slot[v].step /\ slot'[v].outcome = "FAILURE"
  BY <1>0 DEF BodyFails, Slot
<1>8. BodyLost(v) => /\ slot[v].hook = "body" /\ slot'[v].hook = "lost" /\ slot'[v].msg = slot[v].msg
                     /\ slot'[v].step = slot[v].step /\ slot'[v].outcome = "FAILURE"
  BY <1>0 DEF BodyLost, Slot
<1>9. HookGet(v) \/ HookSave(v) \/ HookRelease(v) =>
         /\ slot[v].hook \in EndHooks
         /\ \/ HookReturns(v)
            \/ slot'[v].hook = slot[v].hook /\ slot'[v].msg = slot[v].msg /\ slot'[v].outcome = slot[v].outcome
  BY <1>0 DEF HookGet, HookSave, HookRelease, Slot
<1>10. Ack(v) => slot[v].hook = "ack" /\ slot'[v] = Idle
  BY <1>0 DEF Ack
<1>11. ASSUME NEW j \in Jobs, SweepResumes(v, j) \/ SweepFails(v, j)
       PROVE  slot[v].hook = "sweep" /\ slot'[v].hook = "sweep" /\ slot'[v].msg = NewMessage(j)
  BY <1>0, <1>11 DEF SweepResumes, SweepFails, Slot
<1>12. SweepPublishes(v) \/ SweepReleases(v) =>
          slot[v].hook = "sweep" /\ slot'[v].hook = "sweep" /\ slot'[v].step = "get" /\ slot'[v].msg = NoMsg
  BY <1>0 DEF SweepPublishes, SweepReleases, Down
<1>13. SweepEnds(v) => slot[v].hook = "sweep" /\ slot'[v] = Idle
  BY <1>0 DEF SweepEnds
<1>14. Boot(v) => /\ slot[v].hook = "down" /\ slot'[v].hook \in {"idle", "sweep"}
                  /\ slot'[v].step = "get" /\ slot'[v].msg = NoMsg
  BY <1>0 DEF Boot, Down, Idle
<1>15. Crash(v) => slot[v].hook # "down" /\ slot'[v] = Down
  BY <1>0 DEF Crash
<1> HIDE DEF Idle
<1> QED
  BY <1>1, <1>2, <1>3, <1>4, <1>5, <1>6, <1>7, <1>8, <1>9, <1>10, <1>11, <1>12, <1>13, <1>14, <1>15,
     ReturnHooks DEF WorkerStep

(* Where a message in the queue comes from, and where it goes. *)
LEMMA QueueMoves ==
  ASSUME TypeOK, [Next]_vars, NEW m \in Message
  PROVE  \/ queue'[m] = queue[m]
         \/ \E w \in Workers : (Take(w, m) \/ TakeRevoked(w, m)) /\ queue[m] > 0 /\ queue'[m] = queue[m] - 1
         \/ /\ queue'[m] = queue[m] + 1
            /\ \/ \E j \in Jobs : (CreateJob(j) \/ BeatFires(j)) /\ m = NewMessage(j)
               \/ Redelivered(m)
               \/ \E w \in Workers : BodyRetries(w) /\ m.job = slot[w].msg.job /\ ~m.eta
               \/ \E w \in Workers : Crash(w) /\ slot[w].hook \in ChildHooks /\ m = slot[w].msg
               \/ \E w \in Workers : SweepPublishes(w) /\ m.job = slot[w].msg.job
<1>0. ASSUME NEW n \in Message, Publish(n)
      PROVE  IF m = n THEN queue'[m] = queue[m] + 1 ELSE queue'[m] = queue[m]
  BY <1>0 DEF TypeOK, Publish
<1>1. ASSUME NEW j \in Jobs, CreateJob(j) \/ BeatFires(j)
      PROVE  NewMessage(j) \in Message /\ Publish(NewMessage(j))
  BY <1>1, NewMessageTyped DEF CreateJob, BeatFires
<1>2. ASSUME NEW n \in Message, Redelivered(n) PROVE Publish(n)
  BY <1>2 DEF Redelivered
<1>3. ASSUME NEW w \in Workers, NEW n \in Message, Take(w, n) \/ TakeRevoked(w, n)
      PROVE  IF m = n THEN queue[m] > 0 /\ queue'[m] = queue[m] - 1 ELSE queue'[m] = queue[m]
  BY <1>3 DEF TypeOK, Take, TakeRevoked, Fetch
<1>4. ASSUME NEW w \in Workers, BodyRetries(w)
      PROVE  \E n \in Message : n.job = slot[w].msg.job /\ ~n.eta /\ Publish(n)
  <2>1. slot[w].msg \in Message
    BY <1>4, HeldJob DEF BodyRetries, NeedsMessage, ChildHooks
  <2> DEFINE n == [slot[w].msg EXCEPT !.retries = @ + 1, !.eta = FALSE]
  <2>2. slot[w].msg.retries + 1 \in 0 .. RetryCap
    <3>1. MaxTry[slot[w].msg.job] \in 1 .. RetryCap + 1
      BY <2>1, JobsAssumption DEF Message
    <3>2. slot[w].msg.retries < MaxTry[slot[w].msg.job] - 1 /\ slot[w].msg.retries \in 0 .. RetryCap
      BY <1>4, <2>1 DEF BodyRetries, Message
    <3> QED
      BY <3>1, <3>2, JobsAssumption
  <2>3. n \in Message /\ n.job = slot[w].msg.job /\ ~n.eta
    BY <2>1, <2>2 DEF Message
  <2>4. Publish(n)
    BY <1>4 DEF BodyRetries
  <2> QED
    BY <2>3, <2>4
<1>5. ASSUME NEW w \in Workers, Crash(w)
      PROVE  \/ slot[w].hook \in ChildHooks /\ slot[w].msg \in Message /\ Publish(slot[w].msg)
             \/ UNCHANGED queue
  BY <1>5, HeldJob DEF Crash, NeedsMessage
<1>6. ASSUME NEW w \in Workers, SweepPublishes(w)
      PROVE  \E n \in Message : n.job = slot[w].msg.job /\ Publish(n)
  <2>1. slot[w].msg \in Message
    BY <1>6, HeldJob DEF SweepPublishes, NeedsMessage
  <2> DEFINE n == [slot[w].msg EXCEPT !.eta = FALSE]
  <2>2. n \in Message /\ n.job = slot[w].msg.job
    BY <2>1 DEF Message
  <2> QED
    BY <1>6, <2>2 DEF SweepPublishes
<1>7. ASSUME NEW j \in Jobs, WebNext(j) PROVE CreateJob(j) \/ BeatFires(j) \/ UNCHANGED queue
  BY <1>7, Zenon DEF WebNext, AcquireLock, SavePending, EnqueueRaises, EnqueueReleases, EnqueuerDies,
     CancelStart, CancelTerm, CancelSettled, CancelKill, PollGet, PollSave
<1>8. TimeNext => (\E n \in Message : Redelivered(n)) \/ UNCHANGED queue
  BY Zenon DEF TimeNext, EtaPasses, DocExpires, LockExpires, SweepLockExpires
<1>9. ASSUME NEW w \in Workers, WorkerStep(w) \/ BodyLost(w) \/ Boot(w)
      PROVE  \/ \E n \in Message : Take(w, n) \/ TakeRevoked(w, n)
             \/ BodyRetries(w) \/ SweepPublishes(w) \/ UNCHANGED queue
  BY <1>9, Zenon DEF WorkerStep, OnPrerunGet, OnPrerunSave, BodySucceeds, BodyFails, BodyLost, HookGet, HookSave,
     HookRelease, Ack, SweepResumes, SweepFails, SweepReleases, SweepEnds, Boot
<1>10. (\E j \in Jobs : WebNext(j)) \/ TimeNext \/ UNCHANGED vars
       \/ \E w \in Workers : WorkerStep(w) \/ BodyLost(w) \/ Boot(w) \/ Crash(w)
  BY DEF Next
<1>11. CASE UNCHANGED queue
  BY <1>11
<1>12. CASE \E j \in Jobs : WebNext(j)
  BY <1>0, <1>1, <1>7, <1>12
<1>13. CASE TimeNext
  BY <1>0, <1>2, <1>8, <1>13
<1>14. CASE \E w \in Workers : WorkerStep(w) \/ BodyLost(w) \/ Boot(w)
  BY <1>0, <1>3, <1>4, <1>6, <1>9, <1>14
<1>15. CASE \E w \in Workers : Crash(w)
  BY <1>0, <1>5, <1>15
<1> QED
  BY <1>10, <1>11, <1>12, <1>13, <1>14, <1>15 DEF vars

(* Who writes a status. *)
LEMMA StatusMoves ==
  ASSUME TypeOK, [Next]_vars, NEW j \in Jobs
  PROVE  \/ doc'[j] = doc[j]
         \/ SavePending(j) /\ doc'[j].status = "PENDING"
         \/ DocExpires(j) /\ doc'[j].status = "NONE"
         \/ PollSave(j) /\ doc'[j].status = "FAILURE"
         \/ \E w \in Workers : OnPrerunSave(w) /\ slot[w].msg.job = j /\ doc'[j].status = "STARTED"
         \/ \E w \in Workers : HookSave(w) /\ slot[w].msg.job = j /\ doc'[j].status = HookStatus(w)
         \/ \E w \in Workers : SweepResumes(w, j) /\ doc'[j].status = "PENDING"
         \/ \E w \in Workers : SweepFails(w, j) /\ doc'[j].status = "FAILURE"
<1> DEFINE Snaps == [status: Status \cup {"NONE"}, attempts: Nat, tracked: BOOLEAN]
<1>0. /\ DOMAIN doc = Jobs
      /\ \A i \in Jobs : orphans[i] \in Snaps /\ poll[i].snap \in Snaps
      /\ \A w \in Workers : slot[w].snap \in Snaps
  <2>1. \A d \in Doc : d \in Snaps
    BY DEF Doc
  <2>2. NoDoc \in Snaps
    BY DEF NoDoc
  <2> QED
    BY <2>1, <2>2 DEF TypeOK, Slot
<1>1. ASSUME NEW i \in Jobs, NEW s \in Snaps, NEW st, doc' = [doc EXCEPT ![i] = [s EXCEPT !.status = st]]
      PROVE  doc'[j] = doc[j] \/ (i = j /\ doc'[j].status = st)
  BY <1>0, <1>1
<1>2. ASSUME NEW i \in Jobs, SavePending(i) PROVE doc'[j] = doc[j] \/ (i = j /\ doc'[j].status = "PENDING")
  BY <1>0, <1>2 DEF SavePending
<1>3. ASSUME NEW i \in Jobs, DocExpires(i) PROVE doc'[j] = doc[j] \/ (i = j /\ doc'[j].status = "NONE")
  BY <1>0, <1>3 DEF DocExpires, NoDoc
<1>4. ASSUME NEW i \in Jobs, PollSave(i) PROVE doc'[j] = doc[j] \/ (i = j /\ doc'[j].status = "FAILURE")
  BY <1>0, <1>1, <1>4 DEF PollSave
<1>5. ASSUME NEW w \in Workers, OnPrerunSave(w)
      PROVE  doc'[j] = doc[j] \/ (slot[w].msg.job = j /\ doc'[j].status = "STARTED")
  BY <1>0, <1>5 DEF OnPrerunSave
<1>6. ASSUME NEW w \in Workers, HookSave(w)
      PROVE  doc'[j] = doc[j] \/ (slot[w].msg.job = j /\ doc'[j].status = HookStatus(w))
  <2>1. slot[w].msg.job \in Jobs
    BY <1>6, HeldJob DEF HookSave, NeedsMessage, EndHooks, ChildHooks, ParentHooks
  <2> QED
    BY <1>0, <1>1, <1>6, <2>1 DEF HookSave
<1>7. ASSUME NEW w \in Workers, NEW i \in Jobs, SweepResumes(w, i)
      PROVE  doc'[j] = doc[j] \/ (i = j /\ doc'[j].status = "PENDING")
  BY <1>0, <1>1, <1>7 DEF SweepResumes
<1>8. ASSUME NEW w \in Workers, NEW i \in Jobs, SweepFails(w, i)
      PROVE  doc'[j] = doc[j] \/ (i = j /\ doc'[j].status = "FAILURE")
  BY <1>0, <1>1, <1>8 DEF SweepFails
<1>9. ASSUME NEW i \in Jobs, WebNext(i) PROVE SavePending(i) \/ PollSave(i) \/ UNCHANGED doc
  BY <1>9, Zenon DEF WebNext, AcquireLock, CreateJob, EnqueueRaises, EnqueueReleases, EnqueuerDies, BeatFires,
     CancelStart, CancelTerm, CancelSettled, CancelKill, PollGet
<1>10. TimeNext => (\E i \in Jobs : DocExpires(i)) \/ UNCHANGED doc
  BY Zenon DEF TimeNext, EtaPasses, LockExpires, Redelivered, SweepLockExpires
<1>11. ASSUME NEW w \in Workers, WorkerStep(w) \/ BodyLost(w) \/ Boot(w) \/ Crash(w)
       PROVE  \/ OnPrerunSave(w) \/ HookSave(w) \/ UNCHANGED doc
              \/ \E i \in Jobs : SweepResumes(w, i) \/ SweepFails(w, i)
  BY <1>11, Zenon DEF WorkerStep, Take, TakeRevoked, OnPrerunGet, BodySucceeds, BodyRetries, BodyFails, BodyLost,
     HookGet, HookRelease, Ack, SweepPublishes, SweepReleases, SweepEnds, Boot, Crash
<1>12. CASE UNCHANGED doc
  BY <1>12
<1>13. CASE \E i \in Jobs : WebNext(i)
  BY <1>2, <1>4, <1>9, <1>13
<1>14. CASE TimeNext
  BY <1>3, <1>10, <1>14
<1>15. CASE \E w \in Workers : WorkerStep(w) \/ BodyLost(w) \/ Boot(w) \/ Crash(w)
  BY <1>5, <1>6, <1>7, <1>8, <1>11, <1>15
<1> QED
  BY <1>12, <1>13, <1>14, <1>15 DEF Next, vars

(* Who tells the workers what is revoked. *)
LEMMA RevokedMoves ==
  ASSUME [Next]_vars
  PROVE  \/ UNCHANGED revoked
         \/ \E j \in Jobs : (CancelTerm(j) \/ CancelKill(j)) /\ Broadcast(j)
         \/ \E w \in Workers : Crash(w)
<1>1. ASSUME NEW j \in Jobs, WebNext(j)
      PROVE  UNCHANGED revoked \/ ((CancelTerm(j) \/ CancelKill(j)) /\ Broadcast(j))
  <2>1. UNCHANGED revoked \/ CancelTerm(j) \/ CancelKill(j)
    BY <1>1, Zenon DEF WebNext, AcquireLock, SavePending, CreateJob, EnqueueRaises, EnqueueReleases, EnqueuerDies,
       BeatFires, CancelStart, CancelSettled, PollGet, PollSave
  <2>2. ASSUME CancelTerm(j) PROVE Broadcast(j)
    BY <2>2 DEF CancelTerm
  <2>3. ASSUME CancelKill(j) PROVE Broadcast(j)
    BY <2>3 DEF CancelKill
  <2> QED
    BY <2>1, <2>2, <2>3
<1>2. TimeNext => UNCHANGED revoked
  BY Zenon DEF TimeNext, EtaPasses, DocExpires, LockExpires, Redelivered, SweepLockExpires
<1>3. ASSUME NEW w \in Workers, WorkerStep(w) \/ BodyLost(w) \/ Boot(w)
      PROVE  UNCHANGED revoked
  BY <1>3, Zenon DEF WorkerStep, Take, TakeRevoked, OnPrerunGet, OnPrerunSave, BodySucceeds, BodyRetries,
     BodyFails, BodyLost, HookGet, HookSave, HookRelease, Ack, SweepResumes, SweepFails, SweepPublishes,
     SweepReleases, SweepEnds, Boot
<1> QED
  BY <1>1, <1>2, <1>3 DEF Next, vars

-----------------------------------------------------------------------------
(* While no worker process stops and none is started                       *)

WorkersStay == Workers \subseteq UpAtStart /\ "crash" \notin Faults

AllUp == \A w \in Workers : slot[w].hook \notin {"down", "sweep"}

LEMMA AllUpInit ==
  ASSUME WorkersStay, Init PROVE AllUp
  BY DEF WorkersStay, Init, AllUp, Idle, Down

LEMMA NoCrash ==
  ASSUME WorkersStay, NEW w \in Workers PROVE ~Crash(w)
  BY DEF WorkersStay, Crash, Fault

LEMMA AllUpStep ==
  ASSUME WorkersStay, TypeOK, AllUp, [Next]_vars
  PROVE  AllUp'
<1> SUFFICES ASSUME NEW v \in Workers PROVE slot'[v].hook \notin {"down", "sweep"}
  BY DEF AllUp
<1>1. slot[v].hook \notin {"down", "sweep"}
  BY DEF AllUp
<1>2. ASSUME NEW j \in Jobs, Broadcast(j) PROVE slot'[v].hook \notin {"down", "sweep"}
  BY <1>1, <1>2, BroadcastHooks
<1>3. CASE WorkerStep(v) \/ BodyLost(v) \/ Boot(v) \/ Crash(v)
  <2>1. Idle.hook = "idle"
    BY MessageJobs
  <2>2. AfterHook(slot[v].hook) \notin {"down", "sweep"}
    BY DEF AfterHook
  <2> QED
    BY <1>1, <1>3, <2>1, <2>2, NoCrash, WorkerMoves DEF EndHooks
<1> QED
  BY <1>1, <1>2, <1>3, OneMoves
(* A revocation reaches every worker before its job is marked CANCELED, and *)
(* leaves no child at work on it.                                          *)
Told ==
    /\ \A w, v \in Workers : revoked[w] = revoked[v]
    /\ \A j \in Jobs : doc[j].status = "CANCELED" => \A v \in Workers : j \in revoked[v]
    /\ \A v \in Workers : slot[v].hook = "revoked" => slot[v].msg.job \in revoked[v]
    /\ \A v \in Workers : slot[v].hook \in ChildHooks => slot[v].msg.job \notin revoked[v]

LEMMA ToldStep ==
  ASSUME WorkersStay, TypeOK, AllUp, Told, [Next]_vars
  PROVE  Told'
<1>1. ASSUME NEW j \in Jobs, Broadcast(j), NEW v \in Workers PROVE revoked'[v] = revoked[v] \cup {j}
  BY <1>1 DEF Broadcast, AllUp
<1>2. UNCHANGED revoked \/ \E j \in Jobs : Broadcast(j)
  BY RevokedMoves, NoCrash
<1>3. ASSUME NEW v \in Workers PROVE revoked[v] \subseteq revoked'[v]
  BY <1>1, <1>2
<1>4. \A w, v \in Workers : revoked'[w] = revoked'[v]
  <2>1. CASE UNCHANGED revoked
    BY <2>1 DEF Told
  <2>2. ASSUME NEW j \in Jobs, Broadcast(j), NEW w \in Workers, NEW v \in Workers
        PROVE  revoked'[w] = revoked'[v]
    <3>1. revoked[w] = revoked[v]
      BY DEF Told
    <3>2. revoked'[w] = revoked[w] \cup {j} /\ revoked'[v] = revoked[v] \cup {j}
      BY <1>1, <2>2
    <3> QED
      BY <3>1, <3>2
  <2> QED
    BY <1>2, <2>1, <2>2
<1>5. ASSUME NEW j \in Jobs, doc'[j].status = "CANCELED", NEW v \in Workers
      PROVE  j \in revoked'[v]
  <2>1. CASE doc'[j] = doc[j]
    BY <1>3, <1>5, <2>1 DEF Told
  <2>2. ASSUME NEW w \in Workers, HookSave(w), slot[w].msg.job = j, doc'[j].status = HookStatus(w)
        PROVE  j \in revoked'[v]
    <3>1. slot[w] \in Slot
      BY DEF TypeOK
    <3>2. slot[w].hook = "revoked"
      BY <1>5, <2>2, <3>1 DEF HookStatus, Slot, Outcomes
    <3>3. j \in revoked[v]
      BY <2>2, <3>2 DEF Told
    <3> QED
      BY <1>3, <3>3
  <2> QED
    BY <1>5, <2>1, <2>2, StatusMoves
<1>6. ASSUME NEW v \in Workers
      PROVE  /\ slot'[v].hook = "revoked" => slot'[v].msg.job \in revoked'[v]
             /\ slot'[v].hook \in ChildHooks => slot'[v].msg.job \notin revoked'[v]
  <2>1. ASSUME NEW j \in Jobs, Broadcast(j)
        PROVE  /\ slot'[v].hook = "revoked" => slot'[v].msg.job \in revoked'[v]
               /\ slot'[v].hook \in ChildHooks => slot'[v].msg.job \notin revoked'[v]
    <3>1. CASE slot[v].hook \in ChildHooks /\ slot[v].msg.job = j
      BY <1>1, <2>1, <3>1, BroadcastHooks DEF ChildHooks
    <3>2. CASE ~(slot[v].hook \in ChildHooks /\ slot[v].msg.job = j)
      BY <1>1, <2>1, <3>2, BroadcastHooks DEF Told
    <3> QED
      BY <3>1, <3>2
  <2>2. CASE UNCHANGED revoked
    <3>1. CASE slot'[v] = slot[v]
      BY <2>2, <3>1 DEF Told
    <3>2. CASE WorkerStep(v) \/ BodyLost(v) \/ Boot(v) \/ Crash(v)
      <4>1. Idle.hook = "idle" /\ Down.hook = "down" /\ AfterHook(slot[v].hook) # "revoked"
        BY MessageJobs DEF AfterHook
      <4>2. slot'[v].hook = "revoked" =>
               \/ slot[v].hook = "revoked" /\ slot'[v].msg = slot[v].msg
               \/ \E m \in Message : TakeRevoked(v, m) /\ slot'[v].msg = m
        BY <3>2, <4>1, WorkerMoves
      <4>3. slot'[v].hook \in ChildHooks =>
               \/ slot[v].hook \in ChildHooks /\ slot'[v].msg = slot[v].msg
               \/ \E m \in Message : Take(v, m) /\ slot'[v].msg = m
        BY <3>2, <4>1, WorkerMoves DEF ChildHooks, EndHooks, AfterHook
      <4>4. \A m \in Message : /\ TakeRevoked(v, m) => m.job \in revoked[v]
                               /\ Take(v, m) => m.job \notin revoked[v]
        BY DEF Take, TakeRevoked
      <4> QED
        BY <2>2, <4>2, <4>3, <4>4 DEF Told
    <3> QED
      BY <2>1, <3>1, <3>2, OneMoves
  <2> QED
    BY <1>2, <2>1, <2>2
<1> QED
  BY <1>4, <1>5, <1>6 DEF Told

(* A job whose state is CANCELED is at no worker's child any more and is   *)
(* not picked up again, however its message was retried or handed out      *)
(* twice: the revoke broadcast of JobCanceller has reached every worker by *)
(* then, as long as none of them is replaced by one that did not hear it.  *)
THEOREM CanceledRunsNoMore ==
  ASSUME WorkersStay PROVE Spec => []CanceledNeverRuns
<1>1. Init => TypeOK /\ AllUp /\ Told
  <2> SUFFICES ASSUME Init PROVE Told
    BY InitInv, AllUpInit DEF IndInv
  <2>1. \A w \in Workers : slot[w].hook \in {"idle", "down"}
    BY MessageJobs DEF Init
  <2> QED
    BY <2>1 DEF Init, Told, NoDoc, ChildHooks
<1>2. TypeOK /\ AllUp /\ Told /\ [Next]_vars => (TypeOK /\ AllUp /\ Told)'
  BY TypeStep, AllUpStep, ToldStep
<1>3. Told => CanceledNeverRuns
  BY DEF Told, CanceledNeverRuns
<1> QED
  BY <1>1, <1>2, <1>3, PTL DEF Spec

-----------------------------------------------------------------------------
(* While no recovery sweep publishes a job ahead of its eta                *)

(* A sweep publishes without the eta: only jobs whose eta has passed.  Any *)
(* worker may boot, die and sweep otherwise.                               *)
EtaHeeded == \A w \in Workers : SweepPublishes(w) => slot[w].msg.job \in due

(* A message without an eta and a child process at work are of jobs whose  *)
(* eta has passed.                                                         *)
Ripe ==
    /\ Jobs \ Deferred \subseteq due
    /\ \A m \in Message : queue[m] > 0 => m.eta \/ m.job \in due
    /\ \A w \in Workers : slot[w].hook \in ChildHooks => slot[w].msg.job \in due

(* An eta that has passed stays passed. *)
LEMMA DueStays ==
  ASSUME [Next]_vars PROVE due \subseteq due'
<1>1. ASSUME NEW j \in Jobs, WebNext(j) PROVE UNCHANGED due
  BY <1>1, Zenon DEF WebNext, AcquireLock, SavePending, CreateJob, EnqueueRaises, EnqueueReleases, EnqueuerDies,
     BeatFires, CancelStart, CancelTerm, CancelSettled, CancelKill, PollGet, PollSave
<1>2. TimeNext => UNCHANGED due \/ \E j \in Jobs : EtaPasses(j)
  BY Zenon DEF TimeNext, DocExpires, LockExpires, Redelivered, SweepLockExpires
<1>3. ASSUME NEW w \in Workers, WorkerStep(w) \/ BodyLost(w) \/ Boot(w) \/ Crash(w)
      PROVE  UNCHANGED due
  BY <1>3, Zenon DEF WorkerStep, Take, TakeRevoked, OnPrerunGet, OnPrerunSave, BodySucceeds, BodyRetries,
     BodyFails, BodyLost, HookGet, HookSave, HookRelease, Ack, SweepResumes, SweepFails, SweepPublishes,
     SweepReleases, SweepEnds, Boot, Crash
<1>4. ASSUME NEW j \in Jobs, EtaPasses(j) PROVE due \subseteq due'
  BY <1>4 DEF EtaPasses
<1> QED
  BY <1>1, <1>2, <1>3, <1>4 DEF Next, vars

LEMMA RipeStep ==
  ASSUME TypeOK, Ripe, [Next]_vars, [EtaHeeded]_vars
  PROVE  Ripe'
<1>0. ASSUME NEW w \in Workers, SweepPublishes(w) PROVE slot[w].msg.job \in due
  <2>1. CASE EtaHeeded
    BY <1>0, <2>1 DEF EtaHeeded
  <2>2. CASE UNCHANGED vars
    <3>1. slot'[w].hook = "sweep" /\ slot'[w].step = "get"
      BY <1>0 DEF SweepPublishes, Down, TypeOK
    <3> QED
      BY <1>0, <2>2, <3>1 DEF SweepPublishes, vars
  <2> QED
    BY <2>1, <2>2
<1>1. due \subseteq due'
  BY DueStays
<1>2. ASSUME NEW m \in Message, queue'[m] > 0 PROVE m.eta \/ m.job \in due'
  <2>1. queue[m] \in Nat
    BY DEF TypeOK
  <2>2. ASSUME NEW j \in Jobs, m = NewMessage(j) PROVE m.eta \/ m.job \in due
    BY <2>2 DEF NewMessage, Ripe
  <2>3. ASSUME Redelivered(m) PROVE m.eta
    BY <2>3 DEF Redelivered
  <2>4. ASSUME NEW w \in Workers, BodyRetries(w), m.job = slot[w].msg.job PROVE m.job \in due
    BY <2>4 DEF BodyRetries, Ripe, ChildHooks
  <2>5. ASSUME NEW w \in Workers, slot[w].hook \in ChildHooks, m = slot[w].msg PROVE m.job \in due
    BY <2>5 DEF Ripe
  <2>6. ASSUME NEW w \in Workers, SweepPublishes(w), m.job = slot[w].msg.job PROVE m.job \in due
    BY <1>0, <2>6
  <2>7. queue[m] > 0 => m.eta \/ m.job \in due
    BY DEF Ripe
  <2>8. \/ queue[m] > 0
        \/ \E j \in Jobs : m = NewMessage(j)
        \/ Redelivered(m)
        \/ \E w \in Workers : BodyRetries(w) /\ m.job = slot[w].msg.job
        \/ \E w \in Workers : slot[w].hook \in ChildHooks /\ m = slot[w].msg
        \/ \E w \in Workers : SweepPublishes(w) /\ m.job = slot[w].msg.job
    BY <1>2, QueueMoves
  <2> QED
    BY <1>1, <2>2, <2>3, <2>4, <2>5, <2>6, <2>7, <2>8
<1>3. ASSUME NEW v \in Workers, slot'[v].hook \in ChildHooks
      PROVE  slot'[v].msg.job \in due
  <2>1. CASE slot'[v] = slot[v]
    BY <1>3, <2>1 DEF Ripe
  <2>2. ASSUME NEW j \in Jobs, Broadcast(j)
        PROVE  slot'[v].msg.job \in due
    BY <1>3, <2>1, <2>2, BroadcastHooks DEF ChildHooks
  <2>3. CASE WorkerStep(v) \/ BodyLost(v) \/ Boot(v) \/ Crash(v)
    <3>1. Idle.hook = "idle" /\ Down.hook = "down"
      BY MessageJobs
    <3>2. \/ slot[v].hook \in ChildHooks /\ slot'[v].msg = slot[v].msg
          \/ \E m \in Message : Take(v, m) /\ slot'[v].msg = m
      <4>1. AfterHook(slot[v].hook) \in ChildHooks => slot[v].hook \in ChildHooks
        BY DEF AfterHook, ChildHooks
      <4> QED
        BY <1>3, <2>3, <3>1, <4>1, WorkerMoves DEF ChildHooks
    <3>3. \A m \in Message : Take(v, m) => m.job \in due
      BY DEF Take, Fetch, Ripe
    <3> QED
      BY <1>3, <3>2, <3>3 DEF Ripe
  <2> QED
    BY <2>1, <2>2, <2>3, OneMoves
<1> QED
  BY <1>1, <1>2, <1>3 DEF Ripe

(* The eta of an enqueue is the earliest time its job runs: the broker     *)
(* holds the message back, a retry follows an attempt, a message handed    *)
(* out twice or put back by a dead worker still has its eta.  Only a sweep *)
(* that resumes the job before its eta drops it.                           *)
THEOREM EtaIsEarliest == Spec /\ [][EtaHeeded]_vars => []EtaRespected
<1>1. Init => TypeOK /\ Ripe
  <2> SUFFICES ASSUME Init PROVE Ripe
    BY InitInv DEF IndInv
  <2>1. \A w \in Workers : slot[w].hook \in {"idle", "down"}
    BY MessageJobs DEF Init
  <2> QED
    BY <2>1 DEF Init, Ripe, ChildHooks
<1>2. TypeOK /\ Ripe /\ [Next]_vars /\ [EtaHeeded]_vars => (TypeOK /\ Ripe)'
  BY TypeStep, RipeStep
<1>3. Ripe => EtaRespected
  BY DEF Ripe, EtaRespected, ChildHooks
<1> QED
  BY <1>1, <1>2, <1>3, PTL DEF Spec

-----------------------------------------------------------------------------
(* While one attempt of a job runs at a time                               *)

(* No job is retried and the broker hands no message out twice.            *)
OneAttempt == "redeliver" \notin Faults /\ \A j \in Jobs : MaxTry[j] = 1

OneWorker == \A v, w \in Workers : v = w

Steady == WorkersStay /\ Polled = {} /\ (OneAttempt \/ OneWorker)

(* A message is of an enqueue that is over, and no client's poll is about  *)
(* to call its job a zombie.                                               *)
Published ==
    /\ \A m \in Message : queue[m] > 0 => enq[m.job] = "done"
    /\ \A w \in Workers : Busy(w) => enq[slot[w].msg.job] = "done"
    /\ \A j \in Jobs : poll[j].at # "read"

(* The message of a job is in the queue once or at one worker. *)
OneHolder ==
    \A v, w \in Workers : Busy(v) /\ Busy(w) /\ slot[v].msg.job = slot[w].msg.job => v = w
OneCopy ==
    /\ \A m \in Message : queue[m] <= 1
    /\ \A m, n \in Message : queue[m] > 0 /\ queue[n] > 0 /\ m.job = n.job => m = n
    /\ \A m \in Message, w \in Workers : queue[m] > 0 /\ Busy(w) => slot[w].msg.job # m.job

(* What a worker is busy with, it took from the queue. *)
LEMMA HoldMoves ==
  ASSUME WorkersStay, TypeOK, AllUp, [Next]_vars, NEW v \in Workers, Busy(v)'
  PROVE  \/ Busy(v) /\ slot'[v].msg = slot[v].msg
         \/ \E m \in Message : (Take(v, m) \/ TakeRevoked(v, m)) /\ slot'[v].msg = m
<1>0. slot'[v].hook \in ChildHooks \cup ParentHooks
  BY DEF Busy
<1>1. CASE slot'[v] = slot[v]
  BY <1>0, <1>1 DEF Busy
<1>2. ASSUME NEW j \in Jobs, Broadcast(j)
      PROVE  Busy(v) /\ slot'[v].msg = slot[v].msg
  BY <1>0, <1>2, BroadcastHooks DEF Busy
<1>3. CASE WorkerStep(v) \/ BodyLost(v) \/ Boot(v) \/ Crash(v)
  <2>1. Idle.hook = "idle" /\ Down.hook = "down"
    BY MessageJobs
  <2>2. slot[v].hook \notin {"down", "sweep"}
    BY DEF AllUp
  <2> QED
    BY <1>0, <1>3, <2>1, <2>2, WorkerMoves DEF Busy, ChildHooks, ParentHooks, EndHooks
<1> QED
  BY <1>1, <1>2, <1>3, OneMoves

(* An enqueue that is over stays over, and one that publishes was not. *)
LEMMA EnqMoves ==
  ASSUME TypeOK, [Next]_vars
  PROVE  /\ \A j \in Jobs : enq[j] = "done" => enq'[j] = "done"
         /\ \A j \in Jobs : CreateJob(j) \/ BeatFires(j) => enq[j] # "done" /\ enq'[j] = "done"
<1>0. enq \in [Jobs -> {"new", "locked", "saved", "failing", "done", "refused", "failed", "dead"}]
  BY DEF TypeOK
<1>1. ASSUME NEW i \in Jobs, WebNext(i)
      PROVE  UNCHANGED enq \/ (enq[i] # "done" /\ \E s : enq' = [enq EXCEPT ![i] = s])
  <2>1. AcquireLock(i) => enq[i] # "done" /\ \E s : enq' = [enq EXCEPT ![i] = s]
    BY DEF AcquireLock
  <2>2. SavePending(i) \/ CreateJob(i) \/ BeatFires(i) => enq[i] # "done" /\ \E s : enq' = [enq EXCEPT ![i] = s]
    BY DEF SavePending, CreateJob, BeatFires
  <2>3. EnqueueRaises(i) \/ EnqueueReleases(i) \/ EnqueuerDies(i) =>
           enq[i] # "done" /\ \E s : enq' = [enq EXCEPT ![i] = s]
    BY DEF EnqueueRaises, EnqueueReleases, EnqueuerDies
  <2>4. CancelStart(i) \/ CancelTerm(i) \/ CancelSettled(i) \/ CancelKill(i) \/ PollGet(i) \/ PollSave(i) =>
           UNCHANGED enq
    BY DEF CancelStart, CancelTerm, CancelSettled, CancelKill, PollGet, PollSave
  <2> QED
    BY <1>1, <2>1, <2>2, <2>3, <2>4 DEF WebNext
<1>2. TimeNext => UNCHANGED enq
  BY Zenon DEF TimeNext, EtaPasses, DocExpires, LockExpires, Redelivered, SweepLockExpires, webVars
<1>3. ASSUME NEW w \in Workers, WorkerStep(w) \/ BodyLost(w) \/ Boot(w) \/ Crash(w)
      PROVE  UNCHANGED enq
  BY <1>3, Zenon DEF WorkerStep, Take, TakeRevoked, OnPrerunGet, OnPrerunSave, BodySucceeds, BodyRetries,
     BodyFails, BodyLost, HookGet, HookSave, HookRelease, Ack, SweepResumes, SweepFails, SweepPublishes,
     SweepReleases, SweepEnds, Boot, Crash, webVars
<1>4. ASSUME NEW j \in Jobs, CreateJob(j) \/ BeatFires(j) PROVE enq[j] # "done" /\ enq'[j] = "done"
  BY <1>0, <1>4 DEF CreateJob, BeatFires
<1>5. ASSUME NEW j \in Jobs, enq[j] = "done" PROVE enq'[j] = "done"
  BY <1>0, <1>1, <1>2, <1>3, <1>5 DEF Next, vars
<1> QED
  BY <1>4, <1>5

LEMMA PublishedStep ==
  ASSUME Steady, TypeOK, AllUp, Published, [Next]_vars
  PROVE  Published'
<1>1. ASSUME NEW m \in Message, queue'[m] > 0 PROVE enq'[m.job] = "done"
  <2>0. m.job \in Jobs /\ queue[m] \in Nat
    BY DEF TypeOK, Message
  <2>1. CASE queue[m] > 0
    BY <2>0, <2>1, EnqMoves DEF Published
  <2>2. ASSUME NEW j \in Jobs, CreateJob(j) \/ BeatFires(j), m = NewMessage(j) PROVE enq'[m.job] = "done"
    BY <2>2, EnqMoves, MessageJobs
  <2>3. ASSUME NEW w \in Workers, BodyRetries(w), m.job = slot[w].msg.job PROVE enq'[m.job] = "done"
    BY <2>0, <2>3, EnqMoves DEF BodyRetries, Published, Busy, ChildHooks
  <2>4. ASSUME NEW w \in Workers, SweepPublishes(w) PROVE FALSE
    BY <2>4 DEF SweepPublishes, AllUp
  <2>5. Redelivered(m) => queue[m] > 0
    BY DEF Redelivered
  <2> QED
    BY <1>1, <2>0, <2>1, <2>2, <2>3, <2>4, <2>5, QueueMoves, NoCrash DEF Steady
<1>2. ASSUME NEW v \in Workers, Busy(v)' PROVE enq'[slot'[v].msg.job] = "done"
  <2>1. CASE Busy(v) /\ slot'[v].msg = slot[v].msg
    <3>1. slot[v].msg.job \in Jobs
      BY <2>1, HeldJob DEF Busy, NeedsMessage
    <3> QED
      BY <2>1, <3>1, EnqMoves DEF Published
  <2>2. ASSUME NEW m \in Message, Take(v, m) \/ TakeRevoked(v, m), slot'[v].msg = m
        PROVE  enq'[slot'[v].msg.job] = "done"
    BY <2>2, EnqMoves DEF Take, TakeRevoked, Fetch, Published, Message
  <2> QED
    BY <1>2, <2>1, <2>2, HoldMoves DEF Steady
<1>3. ASSUME NEW j \in Jobs PROVE poll'[j].at # "read"
  <2>1. ASSUME NEW i \in Jobs, WebNext(i) PROVE UNCHANGED poll \/ PollSave(i)
    BY <2>1, Zenon DEF Steady, WebNext, AcquireLock, SavePending, CreateJob, EnqueueRaises, EnqueueReleases,
       EnqueuerDies, BeatFires, CancelStart, CancelTerm, CancelSettled, CancelKill, PollGet
  <2>2. TimeNext => UNCHANGED poll
    BY Zenon DEF TimeNext, EtaPasses, DocExpires, LockExpires, Redelivered, SweepLockExpires, webVars
  <2>3. ASSUME NEW w \in Workers, WorkerStep(w) \/ BodyLost(w) \/ Boot(w) \/ Crash(w)
        PROVE  UNCHANGED poll
    BY <2>3, Zenon DEF WorkerStep, Take, TakeRevoked, OnPrerunGet, OnPrerunSave, BodySucceeds, BodyRetries,
       BodyFails, BodyLost, HookGet, HookSave, HookRelease, Ack, SweepResumes, SweepFails, SweepPublishes,
       SweepReleases, SweepEnds, Boot, Crash, webVars
  <2>4. ASSUME NEW i \in Jobs, PollSave(i) PROVE FALSE
    BY <2>4 DEF PollSave, Published
  <2>5. UNCHANGED poll
    BY <2>1, <2>2, <2>3, <2>4 DEF Next, vars
  <2> QED
    BY <2>5 DEF Published
<1> QED
  BY <1>1, <1>2, <1>3 DEF Published

(* With no retry, the queue grows by an enqueue and shrinks by a fetch.    *)
LEMMA FetchOrEnqueue ==
  ASSUME WorkersStay, OneAttempt, TypeOK, AllUp, [Next]_vars, NEW m \in Message
  PROVE  \/ queue'[m] = queue[m]
         \/ \E w \in Workers : (Take(w, m) \/ TakeRevoked(w, m)) /\ queue[m] > 0 /\ queue'[m] = queue[m] - 1
         \/ /\ queue'[m] = queue[m] + 1
            /\ \E j \in Jobs : (CreateJob(j) \/ BeatFires(j)) /\ m = NewMessage(j)
<1>1. ~Redelivered(m)
  BY DEF Redelivered, Fault, OneAttempt
<1>2. ASSUME NEW w \in Workers, BodyRetries(w) PROVE FALSE
  <2>1. slot[w].msg \in Message
    BY <1>2, HeldJob DEF BodyRetries, NeedsMessage, ChildHooks
  <2>2. slot[w].msg.retries \in Nat /\ MaxTry[slot[w].msg.job] = 1
    BY <2>1, JobsAssumption DEF Message, OneAttempt
  <2>3. slot[w].msg.retries < MaxTry[slot[w].msg.job] - 1
    BY <1>2 DEF BodyRetries
  <2> QED
    BY <2>2, <2>3
<1>3. ASSUME NEW w \in Workers, SweepPublishes(w) PROVE FALSE
  BY <1>3 DEF SweepPublishes, AllUp
<1> QED
  BY <1>1, <1>2, <1>3, QueueMoves, NoCrash

(* A fetch is the step of one worker and of one message. *)
LEMMA FetchMoves ==
  ASSUME TypeOK, NEW v \in Workers, NEW m \in Message, Take(v, m) \/ TakeRevoked(v, m)
  PROVE  /\ ~Busy(v) /\ queue[m] > 0 /\ slot'[v].msg = m
         /\ \A w \in Workers : w # v => slot'[w] = slot[w]
         /\ \A n \in Message : queue'[n] = IF n = m THEN queue[m] - 1 ELSE queue[n]
<1>1. slot[v].hook = "idle" /\ queue[m] > 0 /\ queue' = [queue EXCEPT ![m] = @ - 1]
  BY DEF Take, TakeRevoked, Fetch
<1>2. \E s : slot' = [slot EXCEPT ![v] = s] /\ s.msg = m
  <2>1. CASE Take(v, m)
    <3> DEFINE s == [Idle EXCEPT !.hook = "prerun", !.msg = m]
    <3>1. slot' = [slot EXCEPT ![v] = s]
      BY <2>1 DEF Take
    <3>2. s.msg = m
      BY DEF Idle, Down
    <3> QED
      BY <3>1, <3>2
  <2>2. CASE TakeRevoked(v, m)
    <3> DEFINE s == [Idle EXCEPT !.hook = "revoked", !.msg = m]
    <3>1. slot' = [slot EXCEPT ![v] = s]
      BY <2>2 DEF TakeRevoked
    <3>2. s.msg = m
      BY DEF Idle, Down
    <3> QED
      BY <3>1, <3>2
  <2> QED
    BY <2>1, <2>2
<1> QED
  BY <1>1, <1>2 DEF TypeOK, Busy, ChildHooks, ParentHooks

(* An enqueue publishes while no worker moves. *)
LEMMA EnqueueMoves ==
  ASSUME TypeOK, NEW j \in Jobs, CreateJob(j) \/ BeatFires(j)
  PROVE  /\ UNCHANGED slot /\ NewMessage(j) \in Message
         /\ \A n \in Message : queue'[n] = IF n = NewMessage(j) THEN queue[n] + 1 ELSE queue[n]
  BY NewMessageTyped DEF CreateJob, BeatFires, Publish, TypeOK

LEMMA OneHolderStep ==
  ASSUME Steady, TypeOK, AllUp, Published, OneHolder, OneAttempt => OneCopy, [Next]_vars
  PROVE  OneHolder' /\ (OneAttempt => OneCopy')
<1>1. CASE ~OneAttempt
  BY <1>1 DEF Steady, OneWorker, OneHolder
<1>2. CASE OneAttempt
  <2>0. OneAttempt /\ OneCopy /\ WorkersStay
    BY <1>2 DEF Steady
  <2>1. ASSUME NEW v \in Workers, NEW m \in Message, Take(v, m) \/ TakeRevoked(v, m)
        PROVE  OneHolder' /\ OneCopy'
    <3>1. /\ queue[m] = 1 /\ queue'[m] = 0 /\ slot'[v].msg = m
          /\ \A n \in Message : n # m => queue'[n] = queue[n]
          /\ \A w \in Workers : w # v => slot'[w] = slot[w]
      BY <2>0, <2>1, FetchMoves DEF OneCopy, TypeOK
    <3>2. \A n \in Message : queue'[n] > 0 => queue[n] > 0 /\ n.job # m.job
      BY <2>0, <3>1 DEF OneCopy
    <3>3. \A w \in Workers : w # v /\ Busy(w)' => Busy(w) /\ slot'[w].msg = slot[w].msg /\ slot[w].msg.job # m.job
      BY <2>0, <3>1 DEF OneCopy, Busy
    <3>4. OneHolder'
      BY <3>1, <3>3 DEF OneHolder
    <3>5. \A n \in Message : queue'[n] <= 1
      BY <2>0, <3>1 DEF OneCopy
    <3>6. \A n \in Message, w \in Workers : queue'[n] > 0 /\ Busy(w)' => slot'[w].msg.job # n.job
      BY <2>0, <3>1, <3>2, <3>3 DEF OneCopy
    <3>7. \A n, o \in Message : queue'[n] > 0 /\ queue'[o] > 0 /\ n.job = o.job => n = o
      BY <2>0, <3>2 DEF OneCopy
    <3> QED
      BY <3>4, <3>5, <3>6, <3>7 DEF OneCopy
  <2>2. ASSUME NEW j \in Jobs, CreateJob(j) \/ BeatFires(j)
        PROVE  OneHolder' /\ OneCopy'
    <3>1. enq[j] # "done"
      BY <2>2, EnqMoves
    <3> DEFINE new == NewMessage(j)
    <3>2. new \in Message /\ new.job = j
      BY NewMessageTyped, MessageJobs
    <3>3. /\ UNCHANGED slot
          /\ \A n \in Message : queue'[n] = IF n = new THEN queue[n] + 1 ELSE queue[n]
      BY <2>2, EnqueueMoves
    <3> HIDE DEF new
    <3>4. /\ \A n \in Message : queue[n] > 0 => n.job # j
          /\ \A w \in Workers : Busy(w) => slot[w].msg.job # j
      BY <3>1 DEF Published
    <3>5. queue[new] = 0
      BY <3>2, <3>4 DEF TypeOK
    <3>6. \A n \in Message : queue'[n] > 0 => n = new \/ queue[n] > 0
      BY <3>3
    <3>7. \A w \in Workers : Busy(w)' = Busy(w) /\ slot'[w] = slot[w]
      BY <3>3 DEF Busy
    <3>8. OneHolder'
      BY <3>7 DEF OneHolder
    <3>9. \A n \in Message : queue'[n] <= 1
      BY <2>0, <3>3, <3>5 DEF OneCopy
    <3>10. \A n, o \in Message : queue'[n] > 0 /\ queue'[o] > 0 /\ n.job = o.job => n = o
      BY <2>0, <3>2, <3>4, <3>6 DEF OneCopy
    <3>11. \A n \in Message, w \in Workers : queue'[n] > 0 /\ Busy(w)' => slot'[w].msg.job # n.job
      BY <2>0, <3>2, <3>4, <3>6, <3>7 DEF OneCopy
    <3> QED
      BY <3>8, <3>9, <3>10, <3>11 DEF OneCopy
  <2>3. CASE /\ ~\E v \in Workers, m \in Message : Take(v, m) \/ TakeRevoked(v, m)
             /\ ~\E j \in Jobs : CreateJob(j) \/ BeatFires(j)
    <3>1. \A m \in Message : queue'[m] = queue[m]
      BY <2>0, <2>3, FetchOrEnqueue
    <3>2. \A v \in Workers : Busy(v)' => Busy(v) /\ slot'[v].msg = slot[v].msg
      BY <2>0, <2>3, HoldMoves
    <3>3. OneHolder'
      BY <3>2 DEF OneHolder
    <3>4. \A m \in Message : queue'[m] <= 1
      BY <2>0, <3>1 DEF OneCopy
    <3>5. \A m, n \in Message : queue'[m] > 0 /\ queue'[n] > 0 /\ m.job = n.job => m = n
      BY <2>0, <3>1 DEF OneCopy
    <3>6. \A m \in Message, w \in Workers : queue'[m] > 0 /\ Busy(w)' => slot'[w].msg.job # m.job
      BY <2>0, <3>1, <3>2 DEF OneCopy
    <3> QED
      BY <3>3, <3>4, <3>5, <3>6 DEF OneCopy
  <2> QED
    BY <2>1, <2>2, <2>3
<1> QED
  BY <1>1, <1>2

LEMMA BodyStartedStep ==
  ASSUME Steady, TypeOK, AllUp, Published, OneHolder, BodyIsStarted, [Next]_vars
  PROVE  BodyIsStarted'
<1> SUFFICES ASSUME NEW v \in Workers, slot'[v].hook = "body"
             PROVE  doc'[slot'[v].msg.job].status = "STARTED"
  BY DEF BodyIsStarted
<1>1. \/ slot[v].hook = "body" /\ slot'[v].msg = slot[v].msg
      \/ OnPrerunSave(v) /\ slot'[v].msg = slot[v].msg
  <2>1. CASE slot'[v] = slot[v]
    BY <2>1
  <2>2. ASSUME NEW j \in Jobs, Broadcast(j)
        PROVE  slot[v].hook = "body" /\ slot'[v].msg = slot[v].msg
    BY <2>2, BroadcastHooks
  <2>3. CASE WorkerStep(v) \/ BodyLost(v) \/ Boot(v) \/ Crash(v)
    <3>1. Idle.hook = "idle" /\ Down.hook = "down"
      BY MessageJobs
    <3>2. slot[v].hook \in EndHooks => AfterHook(slot[v].hook) # "body"
      BY DEF AfterHook, EndHooks
    <3> QED
      BY <2>3, <3>1, <3>2, WorkerMoves DEF EndHooks
  <2> QED
    BY <2>1, <2>2, <2>3, OneMoves
<1>2. CASE OnPrerunSave(v) /\ slot'[v].msg = slot[v].msg
  <2>1. slot[v].msg.job \in Jobs
    BY <1>2, HeldJob DEF OnPrerunSave, NeedsMessage, ChildHooks
  <2> QED
    BY <1>2, <2>1 DEF OnPrerunSave, TypeOK, Slot, Doc, NoDoc
<1>3. CASE slot[v].hook = "body" /\ slot'[v].msg = slot[v].msg
  <2> DEFINE j == slot[v].msg.job
  <2>1. j \in Jobs /\ Busy(v)
    BY <1>3, HeldJob DEF Busy, NeedsMessage, ChildHooks
  <2>2. doc[j].status = "STARTED" /\ enq[j] = "done"
    BY <1>3, <2>1 DEF BodyIsStarted, Published
  <2>3. ASSUME NEW w \in Workers, HookSave(w), slot[w].msg.job = j PROVE FALSE
    BY <1>3, <2>1, <2>3 DEF HookSave, EndHooks, OneHolder, Busy, ChildHooks, ParentHooks
  <2>4. ~SavePending(j)
    BY <2>2 DEF SavePending
  <2>5. ~DocExpires(j)
    BY <2>1 DEF DocExpires, HeldBy
  <2>6. ~PollSave(j)
    BY <2>1 DEF PollSave, Published
  <2>7. ASSUME NEW w \in Workers, SweepResumes(w, j) \/ SweepFails(w, j) PROVE FALSE
    BY <2>7 DEF SweepResumes, SweepFails, AllUp
  <2> HIDE DEF j
  <2>8. doc'[j] = doc[j] \/ doc'[j].status = "STARTED"
    BY <2>1, <2>3, <2>4, <2>5, <2>6, <2>7, StatusMoves
  <2> QED
    BY <1>3, <2>2, <2>8 DEF j
<1> QED
  BY <1>1, <1>2, <1>3

(* A client reads STARTED as long as the body runs, when workers are       *)
(* neither started nor stopped, no poll declares a zombie, and there is a  *)
(* single worker or a single attempt at each job: then no second copy of   *)
(* the message lets another hook of the same job write over it.            *)
THEOREM BodyRunsStarted ==
  ASSUME Steady PROVE Spec => []BodyIsStarted
<1> DEFINE I == TypeOK /\ AllUp /\ Published /\ OneHolder /\ (OneAttempt => OneCopy) /\ BodyIsStarted
<1>1. Init => I
  <2> SUFFICES ASSUME Init PROVE I
    OBVIOUS
  <2>1. \A w \in Workers : slot[w].hook \in {"idle", "down"}
    BY MessageJobs DEF Init
  <2>2. TypeOK /\ AllUp
    BY InitInv, AllUpInit DEF IndInv, Steady
  <2> QED
    BY <2>1, <2>2 DEF Init, Published, OneHolder, OneCopy, BodyIsStarted, Busy, ChildHooks, ParentHooks
<1>2. I /\ [Next]_vars => I'
  <2> SUFFICES ASSUME I, [Next]_vars PROVE I'
    OBVIOUS
  <2>1. TypeOK' /\ AllUp'
    BY TypeStep, AllUpStep DEF Steady
  <2>2. Published' /\ OneHolder' /\ (OneAttempt => OneCopy') /\ BodyIsStarted'
    BY PublishedStep, OneHolderStep, BodyStartedStep
  <2> QED
    BY <2>1, <2>2 DEF OneAttempt
<1>3. I => BodyIsStarted
  OBVIOUS
<1> HIDE DEF I
<1> QED
  BY <1>1, <1>2, <1>3, PTL DEF Spec

-----------------------------------------------------------------------------
(* While there is a single worker and the broker can be reached            *)

Unopposed == OneWorker /\ "publish" \notin Faults

(* A job that goes on without the worker that is at its hooks now. *)
Afoot(j) == InEnqueue(j) \/ enq[j] = "dead" \/ Queued(j) \/ j \in dropped

Unended(j) == doc[j].status \in Status \ Terminal

(* The worker at a hook, or at a sweep, leaves no job behind: what it has  *)
(* read and not written yet is of a job that is afoot.                     *)
Careful(w) ==
    /\ slot[w].hook = "body" => slot[w].step = "get"
    /\ slot[w].hook = "failure" => slot[w].outcome # "RETRY"
    /\ slot[w].hook = "postrun" /\ slot[w].step # "get" => slot[w].outcome # "RETRY"
    /\ slot[w].hook = "retry" => Afoot(slot[w].msg.job)
    /\ slot[w].hook \in EndHooks /\ slot[w].step = "release" /\ Unended(slot[w].msg.job) =>
          Afoot(slot[w].msg.job)
    /\ slot[w].hook = "sweep" => \A j \in Jobs : orphans[j] # NoDoc => Afoot(j)

Tended ==
    /\ \A j \in Jobs : enq[j] # "failing"
    /\ \A w \in Workers : Careful(w)
    /\ \A j \in Jobs : Unended(j) => Afoot(j) \/ \E w \in Workers : WillSettle(w, j)

(* What the three steps of a hook do to its worker. *)
LEMMA HookSteps ==
  ASSUME TypeOK, NEW v \in Workers
  PROVE  /\ HookGet(v) => \/ HookIgnores(v) /\ HookReturns(v)
                          \/ slot'[v] = [slot[v] EXCEPT !.step = "save", !.snap = doc[slot[v].msg.job]]
                             /\ ~HookIgnores(v)
         /\ HookSave(v) => \/ HookReturns(v)
                           \/ slot'[v] = [slot[v] EXCEPT !.step = "release"] /\ slot[v].hook # "retry"
         /\ HookRelease(v) => HookReturns(v)
<1>1. slot[v] \in Slot /\ DOMAIN slot = Workers
  BY DEF TypeOK
<1>2. HookGet(v) => \/ HookIgnores(v) /\ HookReturns(v)
                    \/ slot'[v] = [slot[v] EXCEPT !.step = "save", !.snap = doc[slot[v].msg.job]]
                       /\ ~HookIgnores(v)
  BY <1>1 DEF HookGet, Slot
<1>3. HookSave(v) => \/ HookReturns(v)
                     \/ slot'[v] = [slot[v] EXCEPT !.step = "release"] /\ slot[v].hook # "retry"
  BY <1>1 DEF HookSave, Slot
<1>4. HookRelease(v) => HookReturns(v)
  BY DEF HookRelease
<1> QED
  BY <1>2, <1>3, <1>4

(* A job stays afoot until a worker fetches its message. *)
LEMMA AfootStays ==
  ASSUME Unopposed, TypeOK, Tended, [Next]_vars, NEW j \in Jobs, Afoot(j)
  PROVE  \/ Afoot(j)'
         \/ \E w \in Workers, m \in Message :
               (Take(w, m) \/ TakeRevoked(w, m)) /\ m.job = j
<1>0. /\ enq \in [Jobs -> {"new", "locked", "saved", "failing", "done", "refused", "failed", "dead"}]
      /\ queue \in [Message -> Nat]
  BY DEF TypeOK
<1>1. CASE Queued(j)
  <2>1. PICK m \in Message : m.job = j /\ queue[m] > 0
    BY <1>1 DEF Queued
  <2>2. CASE \E w \in Workers : Take(w, m) \/ TakeRevoked(w, m)
    BY <2>1, <2>2
  <2>3. CASE ~\E w \in Workers : Take(w, m) \/ TakeRevoked(w, m)
    <3>1. queue'[m] = queue[m] \/ queue'[m] = queue[m] + 1
      BY <2>3, QueueMoves
    <3>2. Queued(j)'
      BY <1>0, <2>1, <3>1 DEF Queued
    <3> QED
      BY <3>2 DEF Afoot
  <2> QED
    BY <2>2, <2>3
<1>2. CASE j \in dropped
  <2>1. ASSUME NEW i \in Jobs, WebNext(i) PROVE UNCHANGED dropped
    BY <2>1, Zenon DEF WebNext, AcquireLock, SavePending, CreateJob, EnqueueRaises, EnqueueReleases, EnqueuerDies,
       BeatFires, CancelStart, CancelTerm, CancelSettled, CancelKill, PollGet, PollSave, ghosts
  <2>2. TimeNext => UNCHANGED dropped
    BY Zenon DEF TimeNext, EtaPasses, DocExpires, LockExpires, Redelivered, SweepLockExpires, ghosts
  <2>3. ASSUME NEW w \in Workers, WorkerStep(w) \/ BodyLost(w) \/ Boot(w)
        PROVE  UNCHANGED dropped
    BY <2>3, Zenon DEF WorkerStep, Take, TakeRevoked, OnPrerunGet, OnPrerunSave, BodySucceeds, BodyRetries,
       BodyFails, BodyLost, HookGet, HookSave, HookRelease, Ack, SweepResumes, SweepFails, SweepPublishes,
       SweepReleases, SweepEnds, Boot, ghosts
  <2>4. ASSUME NEW w \in Workers, Crash(w) PROVE dropped \subseteq dropped'
    BY <2>4 DEF Crash
  <2>5. j \in dropped'
    BY <1>2, <2>1, <2>2, <2>3, <2>4 DEF Next, vars
  <2> QED
    BY <2>5 DEF Afoot
<1>3. CASE InEnqueue(j) \/ enq[j] = "dead"
  <2>0. enq[j] \in {"locked", "saved", "dead"}
    BY <1>3 DEF InEnqueue, Tended
  <2>1. CASE enq'[j] = enq[j]
    BY <1>3, <2>1 DEF Afoot, InEnqueue
  <2>2. ASSUME NEW i \in Jobs, WebNext(i) PROVE UNCHANGED enq \/ Afoot(j)'
    <3>1. AcquireLock(i) => enq'[j] = enq[j] \/ Afoot(j)'
      BY <1>0, <2>0 DEF AcquireLock
    <3>2. SavePending(i) => Afoot(j)'
      BY <1>0, <2>0 DEF SavePending, Afoot, InEnqueue
    <3>3. CreateJob(i) => Afoot(j)'
      <4>1. CASE i = j
        <5>1. CreateJob(j) => Queued(j)'
          BY NewMessageTyped, MessageJobs, PublishQueues DEF CreateJob
        <5> QED
          BY <4>1, <5>1 DEF Afoot
      <4>2. CASE i # j
        BY <1>0, <2>0, <4>2 DEF CreateJob, Afoot, InEnqueue
      <4> QED
        BY <4>1, <4>2
    <3>4. ~EnqueueRaises(i)
      BY DEF EnqueueRaises, Fault, Unopposed
    <3>5. ~EnqueueReleases(i)
      BY DEF EnqueueReleases, Tended
    <3>6. EnqueuerDies(i) => Afoot(j)'
      BY <1>0, <2>0 DEF EnqueuerDies, Afoot, InEnqueue
    <3>7. BeatFires(i) => enq'[j] = enq[j]
      BY <1>0, <2>0 DEF BeatFires
    <3>8. CancelStart(i) \/ CancelTerm(i) \/ CancelSettled(i) \/ CancelKill(i) \/ PollGet(i) \/ PollSave(i) =>
             UNCHANGED enq
      BY DEF CancelStart, CancelTerm, CancelSettled, CancelKill, PollGet, PollSave
    <3>9. enq'[j] = enq[j] => Afoot(j)'
      BY <1>3 DEF Afoot, InEnqueue
    <3> QED
      BY <2>2, <3>1, <3>2, <3>3, <3>4, <3>5, <3>6, <3>7, <3>8, <3>9 DEF WebNext
  <2>3. TimeNext => UNCHANGED enq
    BY Zenon DEF TimeNext, EtaPasses, DocExpires, LockExpires, Redelivered, SweepLockExpires, webVars
  <2>4. ASSUME NEW w \in Workers, WorkerStep(w) \/ BodyLost(w) \/ Boot(w) \/ Crash(w)
        PROVE  UNCHANGED enq
    BY <2>4, Zenon DEF WorkerStep, Take, TakeRevoked, OnPrerunGet, OnPrerunSave, BodySucceeds, BodyRetries,
       BodyFails, BodyLost, HookGet, HookSave, HookRelease, Ack, SweepResumes, SweepFails, SweepPublishes,
       SweepReleases, SweepEnds, Boot, Crash, webVars
  <2> QED
    BY <2>1, <2>2, <2>3, <2>4 DEF Next, vars
<1> QED
  BY <1>1, <1>2, <1>3 DEF Afoot

(* The worker that fetches the last message of a job settles it. *)
LEMMA FetchSettles ==
  ASSUME Unopposed, TypeOK, Tended, [Next]_vars, NEW j \in Jobs, Afoot(j)
  PROVE  \/ Afoot(j)'
         \/ \E w \in Workers : slot[w].hook = "idle" /\ WillSettle(w, j)'
<1> SUFFICES ASSUME NEW w \in Workers, NEW m \in Message, Take(w, m) \/ TakeRevoked(w, m), m.job = j
             PROVE  slot[w].hook = "idle" /\ WillSettle(w, j)'
  BY AfootStays
<1>1. slot[w].hook = "idle" /\ slot'[w].msg.job = j
  BY FetchMoves DEF Take, TakeRevoked
<1>2. slot'[w].hook \in {"prerun", "revoked"}
  BY DEF Take, TakeRevoked, Idle, Down, TypeOK
<1> QED
  BY <1>1, <1>2 DEF WillSettle, Busy, ChildHooks, ParentHooks

LEMMA AfootHere ==
  ASSUME Unopposed, TypeOK, Tended, [Next]_vars, NEW j \in Jobs, Afoot(j),
         NEW v \in Workers, slot[v].hook # "idle"
  PROVE  Afoot(j)'
  BY FetchSettles DEF Unopposed, OneWorker

(* A retry is in the queue before its hook runs. *)
LEMMA RetryQueued ==
  ASSUME TypeOK, NEW w \in Workers, BodyRetries(w), NEW i \in Jobs, slot[w].msg.job = i
  PROVE  Queued(i)'
<1>1. slot[w].msg \in Message /\ slot[w].msg.job \in Jobs
  BY HeldJob DEF BodyRetries, NeedsMessage, ChildHooks
<1> DEFINE n == [slot[w].msg EXCEPT !.retries = @ + 1, !.eta = FALSE]
<1>2. slot[w].msg.retries + 1 \in 0 .. RetryCap
  <2>1. MaxTry[slot[w].msg.job] \in 1 .. RetryCap + 1
    BY <1>1, JobsAssumption
  <2>2. slot[w].msg.retries < MaxTry[slot[w].msg.job] - 1 /\ slot[w].msg.retries \in 0 .. RetryCap
    BY <1>1 DEF BodyRetries, Message
  <2> QED
    BY <2>1, <2>2, JobsAssumption
<1>3. n \in Message /\ n.job = i
  BY <1>1, <1>2 DEF Message
<1>4. Publish(n)
  BY DEF BodyRetries
<1> HIDE DEF n
<1> QED
  BY <1>3, <1>4, PublishQueues

(* What a hook of the single worker writes, if it is no verdict, is RETRY. *)
LEMMA HookWrites ==
  ASSUME TypeOK, Tended, NEW w \in Workers, HookSave(w), slot[w].hook # "retry"
  PROVE  slot[w].msg.job \in Jobs /\ doc'[slot[w].msg.job].status \in Terminal
<1>1. slot[w] \in Slot /\ slot[w].hook \in EndHooks /\ slot[w].step = "save"
  BY DEF TypeOK, HookSave
<1>2. slot[w].msg.job \in Jobs
  BY <1>1, HeldJob DEF NeedsMessage, EndHooks, ChildHooks, ParentHooks
<1>3. HookStatus(w) \in Terminal
  BY <1>1 DEF HookStatus, Tended, Careful, Terminal, Slot, Outcomes, EndHooks
<1>4. doc'[slot[w].msg.job].status = HookStatus(w)
  BY <1>1, <1>2 DEF HookSave, TypeOK, Slot, Doc, NoDoc
<1> QED
  BY <1>2, <1>3, <1>4

(* A job that has not ended is not given up by the worker that has it. *)
LEMMA SettleStays ==
  ASSUME Unopposed, TypeOK, Tended, [Next]_vars, NEW w \in Workers, NEW j \in Jobs,
         WillSettle(w, j), Unended(j), doc'[j] = doc[j]
  PROVE  WillSettle(w, j)' \/ Afoot(j)'
<1>0. /\ Busy(w) /\ slot[w].msg.job = j /\ slot[w].hook \notin {"retry", "ack", "idle"}
      /\ slot[w].hook = "postrun" => slot[w].outcome # "RETRY"
  BY DEF WillSettle, Busy, ChildHooks, ParentHooks
<1>1. CASE slot'[w] = slot[w]
  BY <1>0, <1>1 DEF WillSettle, Busy
<1>2. ASSUME NEW i \in Jobs, Broadcast(i), slot[w].hook \in ChildHooks, slot[w].msg.job = i
      PROVE  WillSettle(w, j)'
  <2>1. slot'[w].hook = "revoked" /\ slot'[w].msg = slot[w].msg
    BY <1>2, BroadcastHooks
  <2> QED
    BY <1>0, <2>1 DEF WillSettle, Busy, ParentHooks
<1>3. BodyRetries(w) => Afoot(j)'
  <2>1. j \in Jobs /\ slot[w].msg.job = j
    BY <1>0
  <2> QED
    BY <2>1, RetryQueued DEF Afoot
<1>4. Crash(w) => Afoot(j)'
  <2>1. slot[w].msg \in Message
    BY <1>0, HeldJob DEF Busy, NeedsMessage
  <2>2. Crash(w) => Publish(slot[w].msg) \/ j \in dropped'
    BY <1>0 DEF Crash, Busy
  <2>3. Publish(slot[w].msg) => Queued(j)'
    BY <1>0, <2>1, PublishQueues
  <2> QED
    BY <2>2, <2>3 DEF Afoot
<1>5. ASSUME HookGet(w) \/ HookSave(w) \/ HookRelease(w), HookReturns(w), AfterHook(slot[w].hook) \in {"ack", "idle"}
      PROVE  Afoot(j)' \/ slot'[w].step = "save" \/ slot'[w].step = "release"
  <2>1. CASE HookGet(w)
    <3>1. ~HookIgnores(w)
      BY <1>0 DEF HookIgnores, Unended, NoDoc, Status, Terminal
    <3>2. slot'[w] = [slot[w] EXCEPT !.step = "save", !.snap = doc[slot[w].msg.job]]
      BY <2>1, <3>1, HookSteps
    <3>3. slot[w] \in Slot
      BY DEF TypeOK
    <3> QED
      BY <3>2, <3>3 DEF Slot
  <2>2. CASE HookSave(w)
    <3>1. doc'[j].status \in Terminal
      BY <1>0, <2>2, HookWrites
    <3> QED
      BY <3>1 DEF Unended
  <2>3. CASE HookRelease(w)
    <3>1. Afoot(j)
      BY <1>0, <2>3 DEF HookRelease, Tended, Careful
    <3> QED
      BY <1>0, <3>1, AfootHere
  <2> QED
    BY <1>5, <2>1, <2>2, <2>3
<1>6. CASE WorkerStep(w) \/ BodyLost(w) \/ Boot(w) \/ Crash(w)
  <2>1. slot[w].hook \notin {"down", "sweep", "idle"}
    BY <1>0 DEF Busy, ChildHooks, ParentHooks
  <2>2. \/ BodyRetries(w) \/ Crash(w)
        \/ slot'[w].hook \in {"prerun", "body", "failure", "lost"} /\ slot'[w].msg = slot[w].msg
        \/ slot'[w].hook = "postrun" /\ slot'[w].msg = slot[w].msg /\ slot'[w].outcome = "SUCCESS"
        \/ slot'[w].hook = slot[w].hook /\ slot'[w].msg = slot[w].msg /\ slot'[w].outcome = slot[w].outcome
        \/ /\ HookGet(w) \/ HookSave(w) \/ HookRelease(w)
           /\ HookReturns(w) /\ slot[w].hook \in EndHooks
           /\ \/ AfterHook(slot[w].hook) = "idle" /\ slot'[w] = Idle
              \/ /\ AfterHook(slot[w].hook) # "idle" /\ slot'[w].hook = AfterHook(slot[w].hook)
                 /\ slot'[w].step = "get" /\ slot'[w].msg = slot[w].msg /\ slot'[w].outcome = slot[w].outcome
    BY <1>0, <1>6, <2>1, WorkerMoves
  <2>3. CASE slot'[w].hook \in {"prerun", "body", "failure", "lost"} /\ slot'[w].msg = slot[w].msg
    BY <1>0, <2>3 DEF WillSettle, Busy, ChildHooks, ParentHooks
  <2>4. CASE slot'[w].hook = "postrun" /\ slot'[w].msg = slot[w].msg /\ slot'[w].outcome = "SUCCESS"
    BY <1>0, <2>4 DEF WillSettle, Busy, ChildHooks, ParentHooks
  <2>5. CASE slot'[w].hook = slot[w].hook /\ slot'[w].msg = slot[w].msg /\ slot'[w].outcome = slot[w].outcome
    BY <1>0, <2>5 DEF WillSettle, Busy
  <2>6. CASE /\ HookGet(w) \/ HookSave(w) \/ HookRelease(w)
             /\ HookReturns(w) /\ slot[w].hook \in EndHooks
             /\ \/ AfterHook(slot[w].hook) = "idle" /\ slot'[w] = Idle
                \/ /\ AfterHook(slot[w].hook) # "idle" /\ slot'[w].hook = AfterHook(slot[w].hook)
                   /\ slot'[w].step = "get" /\ slot'[w].msg = slot[w].msg /\ slot'[w].outcome = slot[w].outcome
    <3>1. slot'[w].step = "get"
      BY <2>6 DEF Idle, Down
    <3>2. CASE slot[w].hook = "failure"
      <4>1. slot'[w].hook = "postrun" /\ slot'[w].msg = slot[w].msg /\ slot'[w].outcome # "RETRY"
        BY <2>6, <3>2 DEF AfterHook, Tended, Careful
      <4> QED
        BY <1>0, <4>1 DEF WillSettle, Busy, ChildHooks
    <3>3. CASE slot[w].hook # "failure"
      <4>1. AfterHook(slot[w].hook) \in {"ack", "idle"}
        BY <1>0, <2>6, <3>3 DEF AfterHook, EndHooks
      <4> QED
        BY <1>5, <2>6, <3>1, <4>1
    <3> QED
      BY <3>2, <3>3
  <2> QED
    BY <1>3, <1>4, <2>2, <2>3, <2>4, <2>5, <2>6
<1> QED
  BY <1>1, <1>2, <1>6, OneMoves

(* What keeps a job unended. *)
LEMMA UnendedMoves ==
  ASSUME Unopposed, TypeOK, Tended, [Next]_vars, NEW j \in Jobs, Unended(j)'
  PROVE  \/ doc'[j] = doc[j] /\ Unended(j)
         \/ SavePending(j) /\ Afoot(j)'
         \/ \E w \in Workers : OnPrerunSave(w) /\ slot[w].msg.job = j
         \/ \E w \in Workers : HookSave(w) /\ slot[w].hook = "retry" /\ slot[w].msg.job = j
         \/ \E w \in Workers : SweepResumes(w, j)
<1>1. doc'[j].status \notin {"FAILURE", "NONE"} /\ doc'[j].status \notin Terminal
  BY DEF Unended, Terminal, Status
<1>2. doc'[j] = doc[j] => Unended(j)
  BY DEF Unended
<1>3. SavePending(j) => Afoot(j)'
  BY DEF SavePending, Afoot, InEnqueue, TypeOK
<1>4. ASSUME NEW w \in Workers, HookSave(w), slot[w].msg.job = j PROVE slot[w].hook = "retry"
  BY <1>1, <1>4, HookWrites
<1> QED
  BY <1>1, <1>2, <1>3, <1>4, StatusMoves

(* A sweep under way listed what it has still to handle at its start. *)
LEMMA SweepMoves ==
  ASSUME TypeOK, [Next]_vars, NEW v \in Workers, OneWorker, slot'[v].hook = "sweep",
         NEW j \in Jobs, orphans'[j] # NoDoc
  PROVE  \/ slot[v].hook = "sweep" /\ orphans[j] # NoDoc
         \/ slot[v].hook = "down" /\ Unended(j)
<1>1. slot'[v] = slot[v] \/ WorkerStep(v) \/ BodyLost(v) \/ Boot(v) \/ Crash(v)
  <2>1. ASSUME NEW i \in Jobs, Broadcast(i), slot[v].hook \in ChildHooks, slot[v].msg.job = i
        PROVE  FALSE
    BY <2>1, BroadcastHooks
  <2> QED
    BY <2>1, OneMoves
<1>2. ASSUME Boot(v) PROVE slot[v].hook = "down" /\ Unended(j)
  <2>1. slot[v].hook = "down" /\ orphans'[j] = IF Sweepable(doc[j]) THEN doc[j] ELSE NoDoc
    BY <1>2 DEF Boot, TypeOK, Idle, Down
  <2> QED
    BY <2>1 DEF Sweepable, Unended, Status, Terminal
<1>3. ASSUME NEW i \in Jobs, WebNext(i) PROVE UNCHANGED orphans
  BY <1>3, Zenon DEF WebNext, AcquireLock, SavePending, CreateJob, EnqueueRaises, EnqueueReleases, EnqueuerDies,
     BeatFires, CancelStart, CancelTerm, CancelSettled, CancelKill, PollGet, PollSave, sweepVars
<1>4. TimeNext => UNCHANGED orphans
  BY Zenon DEF TimeNext, EtaPasses, DocExpires, LockExpires, Redelivered, SweepLockExpires, sweepVars
<1>5. ASSUME NEW w \in Workers, WorkerStep(w) \/ BodyLost(w)
      PROVE  UNCHANGED orphans \/ SweepPublishes(w) \/ SweepReleases(w)
  BY <1>5, Zenon DEF WorkerStep, Take, TakeRevoked, OnPrerunGet, OnPrerunSave, BodySucceeds, BodyRetries,
     BodyFails, BodyLost, HookGet, HookSave, HookRelease, Ack, SweepResumes, SweepFails, SweepEnds, sweepVars
<1>6. ASSUME NEW w \in Workers, SweepPublishes(w) \/ SweepReleases(w)
      PROVE  orphans'[j] # NoDoc => orphans[j] # NoDoc
  BY <1>6 DEF SweepPublishes, SweepReleases, TypeOK
<1>7. ASSUME NEW w \in Workers, Crash(w) PROVE slot'[w].hook = "down"
  BY <1>7 DEF Crash, TypeOK, Down
<1>8. Boot(v) \/ orphans[j] # NoDoc
  BY <1>3, <1>4, <1>5, <1>6, <1>7 DEF Next, vars, OneWorker
<1>9. Boot(v) \/ slot[v].hook = "sweep"
  <2>1. Idle.hook = "idle" /\ Down.hook = "down" /\ AfterHook(slot[v].hook) # "sweep"
    BY MessageJobs DEF AfterHook
  <2> QED
    BY <1>1, <2>1, WorkerMoves DEF EndHooks
<1> QED
  BY <1>2, <1>8, <1>9

LEMMA TendedJobs ==
  ASSUME Unopposed, TypeOK, Tended, [Next]_vars, NEW j \in Jobs, Unended(j)'
  PROVE  Afoot(j)' \/ \E w \in Workers : WillSettle(w, j)'
<1>1. CASE doc'[j] = doc[j] /\ Unended(j)
  <2>1. CASE Afoot(j)
    BY <2>1, FetchSettles
  <2>2. ASSUME NEW w \in Workers, WillSettle(w, j)
        PROVE  WillSettle(w, j)' \/ Afoot(j)'
    BY <1>1, <2>2, SettleStays
  <2> QED
    BY <1>1, <2>1, <2>2 DEF Tended
<1>2. ASSUME NEW w \in Workers, OnPrerunSave(w), slot[w].msg.job = j PROVE WillSettle(w, j)'
  <2>1. HookReturns(w) /\ slot[w].hook = "prerun"
    BY <1>2 DEF OnPrerunSave
  <2>2. slot'[w].hook = "body" /\ slot'[w].msg = slot[w].msg
    BY <2>1, ReturnHooks DEF AfterHook
  <2> QED
    BY <1>2, <2>2 DEF WillSettle, Busy, ChildHooks
<1>3. ASSUME NEW w \in Workers, HookSave(w), slot[w].hook = "retry", slot[w].msg.job = j PROVE Afoot(j)'
  BY <1>3, AfootHere DEF Tended, Careful
<1>4. ASSUME NEW w \in Workers, SweepResumes(w, j) PROVE Afoot(j)'
  <2>1. slot[w].hook = "sweep" /\ orphans[j] # NoDoc
    BY <1>4 DEF SweepResumes
  <2> QED
    BY <2>1, AfootHere DEF Tended, Careful
<1> QED
  BY <1>1, <1>2, <1>3, <1>4, UnendedMoves

LEMMA CarefulStep ==
  ASSUME Unopposed, TypeOK, Tended, [Next]_vars, NEW v \in Workers
  PROVE  Careful(v)'
<1>0. slot[v] \in Slot /\ Careful(v)
  BY DEF TypeOK, Tended
<1>1. Idle.hook = "idle" /\ Down.hook = "down"
  BY MessageJobs
<1> DEFINE s == slot[v]
           t == slot'[v]
<1>2. \/ t = s
      \/ t.hook = "revoked" /\ t.step = "get"
      \/ t.hook \in {"idle", "down", "sweep"}
      \/ t.hook = "prerun"
      \/ OnPrerunSave(v) /\ t.hook = "body" /\ t.step = "get"
      \/ s.hook = "body" /\ t.hook = "postrun" /\ t.step = s.step /\ t.outcome = "SUCCESS"
      \/ BodyRetries(v) /\ s.hook = "body" /\ t.hook = "retry" /\ t.step = s.step /\ t.msg = s.msg
      \/ s.hook = "body" /\ t.hook \in {"failure", "lost"} /\ t.step = s.step /\ t.outcome = "FAILURE"
      \/ HookReturns(v) /\ s.hook \in EndHooks
      \/ HookGet(v) /\ s.hook \in EndHooks /\ t = [s EXCEPT !.step = "save", !.snap = doc[s.msg.job]] /\ ~HookIgnores(v)
      \/ HookSave(v) /\ s.hook \in EndHooks /\ t = [s EXCEPT !.step = "release"] /\ s.hook # "retry"
  <2>1. ASSUME NEW i \in Jobs, Broadcast(i), s.hook \in ChildHooks, s.msg.job = i
        PROVE  t.hook = "revoked" /\ t.step = "get"
    BY <2>1, BroadcastHooks
  <2>2. CASE WorkerStep(v) \/ BodyLost(v) \/ Boot(v) \/ Crash(v)
    <3>1. OnPrerunSave(v) => t.step = "get"
      <4>1. ASSUME OnPrerunSave(v) PROVE HookReturns(v) /\ slot[v].hook = "prerun"
        BY <4>1 DEF OnPrerunSave
      <4> QED
        BY <1>0, <4>1, ReturnHooks DEF AfterHook
    <3> QED
      BY <1>1, <2>2, <3>1, WorkerMoves, HookSteps
  <2> QED
    BY <2>1, <2>2, OneMoves
<1>3. t.hook = "body" => t.step = "get"
  <2>1. HookReturns(v) /\ s.hook \in EndHooks => t.hook # "body"
    BY <1>1, ReturnHooks DEF AfterHook, EndHooks
  <2> QED
    BY <1>0, <1>2, <2>1 DEF Careful, EndHooks, Slot
<1>4. t.hook = "failure" => t.outcome # "RETRY"
  BY <1>0, <1>2, <1>1, ReturnHooks DEF Careful, AfterHook, EndHooks, Slot
<1>5. t.hook = "postrun" /\ t.step # "get" => t.outcome # "RETRY"
  BY <1>0, <1>1, <1>2, ReturnHooks DEF Careful, AfterHook, EndHooks, Slot, HookIgnores, HookSave
<1>6. ASSUME t.hook = "retry", NEW i \in Jobs, i = t.msg.job PROVE Afoot(i)'
  <2>1. CASE BodyRetries(v) /\ t.msg = s.msg
    <3>1. Queued(i)'
      BY <1>6, <2>1, RetryQueued
    <3> QED
      BY <3>1 DEF Afoot
  <2>2. CASE s.hook = "retry" /\ t.msg = s.msg
    <3>1. Afoot(i) /\ s.hook # "idle"
      BY <1>0, <1>6, <2>2 DEF Careful
    <3> QED
      BY <3>1, AfootHere
  <2>3. t.hook = "retry" => \/ s.hook = "retry" /\ t.msg = s.msg
                            \/ BodyRetries(v) /\ t.msg = s.msg
    BY <1>0, <1>1, <1>2, ReturnHooks DEF AfterHook, EndHooks, Slot
  <2> QED
    BY <1>6, <2>1, <2>2, <2>3
<1>7. ASSUME t.hook \in EndHooks, t.step = "release", NEW i \in Jobs, i = t.msg.job, Unended(i)'
      PROVE  Afoot(i)'
  <2>1. t = s \/ (HookSave(v) /\ s.hook # "retry" /\ t = [s EXCEPT !.step = "release"])
    <3>1. HookReturns(v) /\ s.hook \in EndHooks => t.step = "get"
      BY ReturnHooks DEF Idle, Down
    <3> QED
      BY <1>0, <1>2, <1>7, <3>1 DEF EndHooks, Careful, Slot
  <2>2. CASE HookSave(v) /\ s.hook # "retry" /\ t = [s EXCEPT !.step = "release"]
    <3>1. s.msg.job = i
      BY <1>0, <1>7, <2>2 DEF Slot
    <3>2. doc'[i].status \in Terminal
      BY <2>2, <3>1, HookWrites
    <3> QED
      BY <1>7, <3>2 DEF Unended
  <2>3. CASE t = s
    <3>1. s.hook \in EndHooks /\ s.step = "release" /\ s.hook # "idle" /\ s.msg.job = i
      BY <1>7, <2>3 DEF EndHooks
    <3>2. ASSUME NEW w \in Workers, OnPrerunSave(w) \/ HookSave(w) \/ SweepResumes(w, i) PROVE FALSE
      <4>1. w = v
        BY DEF Unopposed, OneWorker
      <4> QED
        BY <3>1, <3>2, <4>1 DEF OnPrerunSave, HookSave, SweepResumes, EndHooks
    <3>3. Unended(i) \/ Afoot(i)'
      BY <1>7, <3>2, UnendedMoves
    <3>4. Unended(i) => Afoot(i)
      BY <1>0, <3>1 DEF Careful
    <3> QED
      BY <3>1, <3>3, <3>4, AfootHere
  <2> QED
    BY <2>1, <2>2, <2>3
<1>8. ASSUME t.hook = "sweep", NEW j \in Jobs, orphans'[j] # NoDoc PROVE Afoot(j)'
  <2>1. CASE s.hook = "sweep" /\ orphans[j] # NoDoc
    <3>1. Afoot(j)
      BY <1>0, <2>1 DEF Careful
    <3> QED
      BY <2>1, <3>1, AfootHere
  <2>2. CASE s.hook = "down" /\ Unended(j)
    <3>1. ASSUME NEW w \in Workers PROVE ~WillSettle(w, j)
      BY <2>2 DEF Unopposed, OneWorker, WillSettle, Busy, ChildHooks, ParentHooks
    <3>2. Afoot(j)
      BY <2>2, <3>1 DEF Tended
    <3> QED
      BY <2>2, <3>2, AfootHere
  <2> QED
    BY <1>8, <2>1, <2>2, SweepMoves DEF Unopposed
<1>9. NeedsMessage(slot[v])' => t.msg.job \in Jobs
  BY TypeStep, HeldJob DEF TypeOK, Message, NeedsMessage
<1>10. t.hook = "retry" => Afoot(slot[v].msg.job)'
  <2>1. t.hook = "retry" => t.msg.job \in Jobs
    BY <1>9 DEF NeedsMessage, ChildHooks
  <2> QED
    BY <1>6, <2>1 DEF Afoot, InEnqueue, Queued
<1>11. t.hook \in EndHooks /\ t.step = "release" /\ Unended(slot[v].msg.job)' => Afoot(slot[v].msg.job)'
  <2>1. t.hook \in EndHooks => t.msg.job \in Jobs
    BY <1>9 DEF NeedsMessage, ChildHooks, ParentHooks, EndHooks
  <2> QED
    BY <1>7, <2>1 DEF Afoot, InEnqueue, Queued, Unended
<1> QED
  BY <1>3, <1>4, <1>5, <1>8, <1>10, <1>11 DEF Careful

(* A JobState that has not ended is pursued: a message, an enqueue or the  *)
(* worker's hooks will bring it to its end, with one worker and a broker   *)
(* that can be reached.  A retry is in the queue before RETRY is written,  *)
(* a sweep publishes what it marks PENDING, and no hook lets go of its     *)
(* message before the verdict is saved.                                    *)
THEOREM WorkIsConserved ==
  ASSUME Unopposed PROVE Spec => []WorkConserved
<1>1. Init => TypeOK /\ Tended
  <2> SUFFICES ASSUME Init PROVE Tended
    BY InitInv DEF IndInv
  <2>1. \A w \in Workers : slot[w].hook \in {"idle", "down"}
    BY MessageJobs DEF Init
  <2>2. \A j \in Jobs : ~Unended(j) /\ enq[j] = "new"
    BY DEF Init, Unended, NoDoc, Status
  <2> QED
    BY <2>1, <2>2 DEF Tended, Careful, EndHooks
<1>2. TypeOK /\ Tended /\ [Next]_vars => (TypeOK /\ Tended)'
  <2> SUFFICES ASSUME TypeOK, Tended, [Next]_vars PROVE TypeOK' /\ Tended'
    OBVIOUS
  <2>1. TypeOK'
    BY TypeStep
  <2>2. ASSUME NEW j \in Jobs PROVE enq'[j] # "failing"
    <3>0. enq[j] # "failing" /\ DOMAIN enq = Jobs
      BY DEF Tended, TypeOK
    <3>1. ASSUME NEW i \in Jobs, WebNext(i) PROVE enq'[j] # "failing"
      <4>1. AcquireLock(i) \/ SavePending(i) \/ CreateJob(i) \/ BeatFires(i) => enq'[j] # "failing"
        BY <3>0 DEF AcquireLock, SavePending, CreateJob, BeatFires
      <4>2. EnqueueReleases(i) \/ EnqueuerDies(i) => enq'[j] # "failing"
        BY <3>0 DEF EnqueueReleases, EnqueuerDies
      <4>3. ~EnqueueRaises(i)
        BY DEF EnqueueRaises, Fault, Unopposed
      <4>4. CancelStart(i) \/ CancelTerm(i) \/ CancelSettled(i) \/ CancelKill(i) \/ PollGet(i) \/ PollSave(i) =>
               UNCHANGED enq
        BY DEF CancelStart, CancelTerm, CancelSettled, CancelKill, PollGet, PollSave
      <4> QED
        BY <3>0, <3>1, <4>1, <4>2, <4>3, <4>4 DEF WebNext
    <3>2. TimeNext => UNCHANGED enq
      BY Zenon DEF TimeNext, EtaPasses, DocExpires, LockExpires, Redelivered, SweepLockExpires, webVars
    <3>3. ASSUME NEW w \in Workers, WorkerStep(w) \/ BodyLost(w) \/ Boot(w) \/ Crash(w)
          PROVE  UNCHANGED enq
      BY <3>3, Zenon DEF WorkerStep, Take, TakeRevoked, OnPrerunGet, OnPrerunSave, BodySucceeds, BodyRetries,
         BodyFails, BodyLost, HookGet, HookSave, HookRelease, Ack, SweepResumes, SweepFails, SweepPublishes,
         SweepReleases, SweepEnds, Boot, Crash, webVars
    <3> QED
      BY <3>0, <3>1, <3>2, <3>3 DEF Next, vars
  <2> QED
    BY <2>1, <2>2, CarefulStep, TendedJobs DEF Tended
<1>3. Tended => WorkConserved
  BY DEF Tended, WorkConserved, Unended, Afoot, Driven
<1> QED
  BY <1>1, <1>2, <1>3, PTL DEF Spec
=============================================================================
