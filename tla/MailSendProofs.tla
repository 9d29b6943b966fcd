--------------------------- MODULE MailSendProofs ---------------------------
(***************************************************************************)
(* Proofs about MailSend for any number of mails and worker processes and  *)
(* any sequence of faults.                                                 *)
(***************************************************************************)
EXTENDS MailSend, FiniteSetTheorems, TLAPS

(* The progress of send_mail, of an undo and of a job tells what has       *)
(* happened; a fault is paid for before it is counted.                     *)
Progress ==
    /\ \A s \in Mails : api[s] = "stored" => s \in Held /\ s \in entry \cup lapsed
    /\ \A s \in Mails : api[s] = "sent" => delivered[s] > 0
    /\ \A s \in Mails : answer[s] # "none" => api[s] = "over"
    /\ \A s \in Mails : undo[s] # "idle" => s \in Undone /\ api[s] = "over"
    /\ \A s \in Mails : undo[s] # "over" => reply[s] = "none"
    /\ \A s \in Mails : repeats[s] + budget <= MaxFaults
    /\ \A w \in Workers : run[w].step \in {"get", "books", "delete"} => run[w].msg.mail \in Held
    /\ \A w \in Workers : run[w].step \in {"books", "delete"} => delivered[run[w].msg.mail] > 0

(* A worker has a message of the mail that is not acknowledged. *)
Holding(s) == \E w \in Workers : run[w].step # "idle" /\ run[w].msg.mail = s

(* Until send_mail has published the job, nobody can deliver the mail. *)
Unpublished ==
    \A s \in Mails : api[s] \in {"new", "composed", "stored"} =>
        delivered[s] = 0 /\ ~Queued(s) /\ ~Holding(s)

(* Each copy of a message in the queue, and each worker that has one and   *)
(* has not delivered it, may still deliver the mail once.                  *)
Waiting(s) == {p \in Message \X Nat : p[1].mail = s /\ p[2] \in 1 .. queue[p[1]]}
Trying(s) == {w \in Workers : run[w].step \in {"get", "smtp"} /\ run[w].msg.mail = s}

Counted ==
    \A s \in Mails :
        /\ IsFiniteSet(Waiting(s)) /\ IsFiniteSet(Trying(s))
        /\ Cardinality(Waiting(s)) + Cardinality(Trying(s)) + delivered[s] <= 1 + repeats[s]

(* Inside the window only a resumed job runs; after an undo inside the     *)
(* window, a job that runs gets no further than the missing entry.         *)
InWindow ==
    \A s \in Held \ resumed : phase[s] = "window" =>
        /\ delivered[s] = 0 /\ ~Holding(s)
        /\ \A m \in Message : m.mail = s /\ queue[m] > 0 => m.eta

Stopped ==
    \A s \in inTime :
        /\ s \notin entry /\ undo[s] \in {"cleanup", "over"}
        /\ s \notin resumed =>
              /\ delivered[s] = 0
              /\ \A w \in Workers : run[w].msg.mail = s => run[w].step \in {"idle", "get", "ack"}

IndInv ==
    TypeOK /\ Progress /\ Unpublished /\ Counted /\ InWindow /\ Stopped /\ NotLost /\ DraftKept

-----------------------------------------------------------------------------
LEMMA Starts == Init => IndInv
<1> SUFFICES ASSUME Init PROVE IndInv
  OBVIOUS
<1>1. TypeOK
  BY MailAssumption DEF Init, TypeOK, IdleRun, Run, NoMsg
<1>2. \A s \in Mails : ~Queued(s) /\ ~Holding(s) /\ Waiting(s) = {} /\ Trying(s) = {}
  BY DEF Init, Queued, Holding, Waiting, Trying, IdleRun
<1>3. Progress /\ Unpublished
  BY <1>2, MailAssumption DEF Init, Progress, Unpublished, IdleRun
<1>4. Counted
  BY <1>2, FS_EmptySet DEF Init, Counted
<1>5. InWindow /\ Stopped
  BY <1>2, <1>3 DEF Init, InWindow, Stopped, Mails
<1>6. NotLost /\ DraftKept
  BY DEF Init, NotLost, DraftKept, Accepted
<1> QED
  BY <1>1, <1>3, <1>4, <1>5, <1>6 DEF IndInv

(* What an action may publish. *)
LEMMA Messages ==
  /\ \A s \in Scheduled \cup Held, e \in BOOLEAN : [mail |-> s, retries |-> 0, eta |-> e] \in Message
  /\ \A m \in Message : m.mail \in Scheduled \cup Held /\ m.eta \in BOOLEAN
  BY MailAssumption DEF Message

LEMMA Retries ==
  ASSUME NEW m \in Message, m.retries < MaxTry - 1
  PROVE  /\ [m EXCEPT !.retries = @ + 1, !.eta = FALSE] \in Message
         /\ [m EXCEPT !.retries = @ + 1, !.eta = FALSE].mail = m.mail
<1>1. m.retries + 1 \in 0 .. MaxTry - 1
  BY MailAssumption DEF Message
<1> QED
  BY <1>1 DEF Message

LEMMA FaultPaid ==
  ASSUME TypeOK, NEW f, Fault(f)
  PROVE  /\ budget \in Nat /\ budget' \in 0 .. MaxFaults /\ budget = budget' + 1
<1>1. budget \in 0 .. MaxFaults
  BY DEF TypeOK
<1>2. budget > 0 /\ budget' = budget - 1
  BY DEF Fault
<1> QED
  BY <1>1, <1>2, MailAssumption

LEMMA PublishTyped ==
  ASSUME TypeOK, NEW m \in Message, Publish(m)
  PROVE  queue' \in [Message -> Nat]
<1>1. queue \in [Message -> Nat]
  BY DEF TypeOK
<1> QED
  BY <1>1 DEF Publish

LEMMA RunTyped ==
  ASSUME TypeOK, NEW w \in Workers, NEW r \in Run, run' = [run EXCEPT ![w] = r],
         r.step # "idle" => r.msg \in Message
  PROVE  /\ run' \in [Workers -> Run]
         /\ \A v \in Workers : run'[v].step # "idle" => run'[v].msg \in Message
  BY DEF TypeOK

LEMMA DeliveredTyped ==
  ASSUME TypeOK, NEW s \in Mails, Delivered(s)
  PROVE  delivered' \in [Mails -> Nat]
<1>1. delivered \in [Mails -> Nat]
  BY DEF TypeOK
<1> QED
  BY <1>1 DEF Delivered

LEMMA RepeatTyped ==
  ASSUME TypeOK, Progress, NEW f, Fault(f), NEW s \in Mails, NEW c \in BOOLEAN, RepeatIf(c, s)
  PROVE  repeats' \in [Mails -> 0 .. MaxFaults]
<1>1. repeats \in [Mails -> 0 .. MaxFaults]
  BY DEF TypeOK
<1>2. repeats[s] + budget <= MaxFaults
  BY DEF Progress
<1>3. budget \in Nat /\ budget > 0
  BY FaultPaid DEF Fault
<1>4. repeats[s] + 1 \in 0 .. MaxFaults
  BY <1>1, <1>2, <1>3, MailAssumption
<1> QED
  BY <1>1, <1>4 DEF RepeatIf

(* Another copy is published and counted. *)
LEMMA Repeated ==
  ASSUME TypeOK, NEW c \in BOOLEAN, NEW s \in Mails, RepeatIf(c, s)
  PROVE  /\ \A t \in Mails : repeats'[t] = IF c /\ t = s THEN repeats[t] + 1 ELSE repeats[t]
         /\ \A t \in Mails : repeats[t] \in Nat
<1>1. repeats \in [Mails -> 0 .. MaxFaults]
  BY DEF TypeOK
<1> QED
  BY <1>1, MailAssumption DEF RepeatIf

LEMMA AttemptRetried ==
  ASSUME TypeOK, NEW w \in Workers, run[w].step # "idle", Retry(w)
  PROVE  /\ \A v \in Workers \ {w} : run'[v] = run[v]
         /\ run'[w].step = "ack" /\ run'[w].msg = run[w].msg
         /\ HasRetry(w) \in BOOLEAN
         /\ HasRetry(w) => \E m \in Message : m.mail = run[w].msg.mail /\ Publish(m)
         /\ ~HasRetry(w) => queue' = queue /\ run[w].msg.mail \in failed'
         /\ failed \subseteq failed' /\ failed' \subseteq failed \cup {run[w].msg.mail}
<1>1. run[w] \in Run /\ run[w].msg \in Message /\ run \in [Workers -> Run]
  BY DEF TypeOK
<1>2. run' = [run EXCEPT ![w].step = "ack"]
  BY DEF Retry
<1>3. /\ \A v \in Workers \ {w} : run'[v] = run[v]
      /\ run'[w].step = "ack" /\ run'[w].msg = run[w].msg
  BY <1>1, <1>2 DEF Run
<1>4. HasRetry(w) => \E m \in Message : m.mail = run[w].msg.mail /\ Publish(m)
  BY <1>1, Retries DEF Retry, HasRetry
<1> QED
  BY <1>3, <1>4 DEF Retry, HasRetry

LEMMA TypeKept == ASSUME IndInv, Next PROVE TypeOK'
<1> USE DEF IndInv
<1>1. ASSUME NEW s \in Mails, Compose(s) \/ Refuse(s)
      PROVE  TypeOK'
  BY <1>1 DEF Compose, Refuse, TypeOK, Answer, undoVars, ghosts, apiVars
<1>2. ASSUME NEW s \in Mails, ExecuteSend(s)
      PROVE  TypeOK'
  BY <1>2, DeliveredTyped DEF ExecuteSend, TypeOK, undoVars, ghosts, apiVars
<1>3. ASSUME NEW s \in Mails, SentBooks(s) \/ StoreEntry(s) \/ ExecuteSendFails(s)
      PROVE  TypeOK'
  BY <1>3, FaultPaid, DeliveredTyped DEF SentBooks, StoreEntry, ExecuteSendFails, TypeOK, Answer, undoVars, ghosts, apiVars
<1>4. ASSUME NEW s \in Mails, Schedule(s) \/ EnqueueUndo(s) \/ EnqueueRaises(s)
      PROVE  TypeOK'
  <2>1. [mail |-> s, retries |-> 0, eta |-> TRUE] \in Message
    BY <1>4, Messages DEF Schedule, EnqueueUndo, EnqueueRaises, Progress
  <2> QED
    BY <1>4, <2>1, PublishTyped, FaultPaid DEF Schedule, EnqueueUndo, EnqueueRaises, TypeOK, Answer,
       undoVars, ghosts
<1>5. ASSUME NEW s \in Mails, TimePasses(s)
      PROVE  TypeOK'
  BY <1>5 DEF TimePasses, TypeOK, undoVars, ghosts, apiVars
<1>6. ASSUME NEW s \in Mails, EntryExpires(s)
      PROVE  TypeOK'
  BY <1>6, FaultPaid DEF EntryExpires, TypeOK, undoVars, ghosts, apiVars
<1>7. ASSUME NEW s \in Mails, Resumed(s)
      PROVE  TypeOK'
  <2>1. s \in Scheduled \cup Held
    BY <1>7, Messages DEF Resumed, Queued, Executing, TypeOK
  <2>2. [mail |-> s, retries |-> 0, eta |-> FALSE] \in Message
    BY <2>1, Messages
  <2>3. repeats' \in [Mails -> 0 .. MaxFaults]
    BY <1>7, RepeatTyped DEF Resumed
  <2> QED
    BY <1>7, <2>1, <2>2, <2>3, PublishTyped, FaultPaid DEF Resumed, TypeOK, undoVars, apiVars
<1>8. ASSUME NEW s \in Mails, UndoGet(s) \/ UndoDeletes(s) \/ UndoExpired(s) \/ UndoCleanup(s)
      PROVE  TypeOK'
  <2>1. s \in Held \/ undo[s] = "idle"
    BY MailAssumption DEF Progress
  <2> QED
    BY <1>8, <2>1, FaultPaid DEF UndoGet, UndoDeletes, UndoExpired, UndoCleanup, TypeOK, ghosts, apiVars
<1>9. IdleRun \in Run /\ IdleRun.step = "idle"
  BY DEF IdleRun, Run
<1>10. ASSUME NEW w \in Workers, NEW m \in Message, Take(w, m)
       PROVE  TypeOK'
  <2>1. [step |-> IF m.mail \in Held THEN "get" ELSE "smtp", msg |-> m] \in Run
    BY DEF Run
  <2>2. queue' \in [Message -> Nat]
    <3>1. queue \in [Message -> Nat]
      BY DEF TypeOK
    <3> QED
      BY <1>10, <3>1 DEF Take
  <2>3. /\ run' \in [Workers -> Run]
        /\ \A v \in Workers : run'[v].step # "idle" => run'[v].msg \in Message
    BY <1>10, <2>1, RunTyped DEF Take
  <2> QED
    BY <1>10, <2>2, <2>3 DEF Take, TypeOK, undoVars, ghosts, apiVars
<1>11. ASSUME NEW w \in Workers,
              GetEntry(w) \/ Deliver(w) \/ DeliverScheduled(w) \/ JobBooks(w) \/ DeleteEntry(w) \/ Ack(w)
       PROVE  TypeOK'
  <2>1. run[w].step # "idle" /\ run[w].msg \in Message /\ run[w].msg.mail \in Mails
    BY <1>11, Messages DEF GetEntry, Deliver, DeliverScheduled, JobBooks, DeleteEntry, Ack, TypeOK, Mails
  <2>2. \A st \in {"smtp", "books", "delete", "ack"} :
           [run[w] EXCEPT !.step = st] \in Run /\ [run[w] EXCEPT !.step = st].msg = run[w].msg
    <3>1. run[w] \in Run
      BY DEF TypeOK
    <3> QED
      BY <3>1 DEF Run
  <2>3. /\ run' \in [Workers -> Run]
        /\ \A v \in Workers : run'[v].step # "idle" => run'[v].msg \in Message
    <3>1. CASE GetEntry(w)
      BY <1>9, <2>1, <2>2, <3>1, RunTyped DEF GetEntry
    <3>2. CASE Deliver(w) \/ DeliverScheduled(w)
      BY <1>9, <2>1, <2>2, <3>2, RunTyped DEF Deliver, DeliverScheduled
    <3>3. CASE JobBooks(w) \/ DeleteEntry(w) \/ Ack(w)
      BY <1>9, <2>1, <2>2, <3>3, RunTyped DEF JobBooks, DeleteEntry, Ack
    <3> QED
      BY <1>11, <3>1, <3>2, <3>3
  <2>4. delivered' \in [Mails -> Nat] /\ entry' \subseteq Held /\ draft' \subseteq Mails
        /\ budget' \in 0 .. MaxFaults
    BY <1>11, <2>1, DeliveredTyped, FaultPaid
    DEF GetEntry, Deliver, DeliverScheduled, JobBooks, DeleteEntry, Ack, TypeOK
  <2> QED
    BY <1>11, <2>3, <2>4
    DEF GetEntry, Deliver, DeliverScheduled, JobBooks, DeleteEntry, Ack, TypeOK, undoVars, ghosts, apiVars
<1>12. ASSUME NEW w \in Workers, DeliverFails(w) \/ CacheFails(w)
       PROVE  TypeOK'
  <2>1. run[w].step # "idle" /\ Retry(w) /\ run[w].msg \in Message /\ run[w].msg.mail \in Scheduled \cup Held
    BY <1>12, Messages DEF DeliverFails, CacheFails, TypeOK
  <2>2. queue' \in [Message -> Nat] /\ failed' \subseteq Scheduled \cup Held
    BY <2>1, AttemptRetried, PublishTyped DEF TypeOK
  <2>3. [run[w] EXCEPT !.step = "ack"] \in Run /\ [run[w] EXCEPT !.step = "ack"].msg = run[w].msg
    <3>1. run[w] \in Run
      BY DEF TypeOK
    <3> QED
      BY <3>1 DEF Run
  <2>4. /\ run' \in [Workers -> Run]
        /\ \A v \in Workers : run'[v].step # "idle" => run'[v].msg \in Message
    BY <2>1, <2>3, RunTyped DEF Retry
  <2>5. budget' \in 0 .. MaxFaults
    BY <1>12, FaultPaid DEF DeliverFails, CacheFails
  <2>6. repeats' \in [Mails -> 0 .. MaxFaults]
    <3>1. repeats \in [Mails -> 0 .. MaxFaults] /\ run[w].msg.mail \in Mails
      BY <2>1 DEF TypeOK, Mails
    <3>2. HasRetry(w) \in BOOLEAN /\ (run[w].step = "delete" /\ HasRetry(w)) \in BOOLEAN
      BY DEF HasRetry
    <3> QED
      BY <1>12, <3>1, <3>2, RepeatTyped DEF DeliverFails, CacheFails
  <2>7. delivered' \in [Mails -> Nat]
    BY <1>12, <2>1, DeliveredTyped DEF DeliverFails, CacheFails, TypeOK, Mails
  <2> QED
    BY <1>12, <2>2, <2>4, <2>5, <2>6, <2>7 DEF DeliverFails, CacheFails, TypeOK, undoVars, ghosts, apiVars
<1>13. ASSUME NEW w \in Workers, Crash(w)
       PROVE  TypeOK'
  <2>1. run[w].msg \in Message /\ run[w].msg.mail \in Mails
    BY <1>13, Messages DEF Crash, TypeOK, Mails
  <2>2. repeats' \in [Mails -> 0 .. MaxFaults]
    <3>1. repeats \in [Mails -> 0 .. MaxFaults]
      BY DEF TypeOK
    <3>2. repeats' = repeats \/ RepeatIf(TRUE, run[w].msg.mail)
      BY <1>13 DEF Crash, RepeatIf
    <3> QED
      BY <1>13, <2>1, <3>1, <3>2, RepeatTyped DEF Crash
  <2>3. /\ run' \in [Workers -> Run]
        /\ \A v \in Workers : run'[v].step # "idle" => run'[v].msg \in Message
    BY <1>9, <1>13, RunTyped DEF Crash
  <2> QED
    BY <1>13, <2>1, <2>2, <2>3, PublishTyped, FaultPaid DEF Crash, TypeOK, undoVars, apiVars
<1>14. ASSUME NEW w \in Workers, BodyLost(w)
       PROVE  TypeOK'
  <2>1. /\ run' \in [Workers -> Run]
        /\ \A v \in Workers : run'[v].step # "idle" => run'[v].msg \in Message
    BY <1>9, <1>14, RunTyped DEF BodyLost
  <2>2. failed' \subseteq Scheduled \cup Held
    BY <1>14, Messages DEF BodyLost, TypeOK
  <2> QED
    BY <1>14, <2>1, <2>2, FaultPaid DEF BodyLost, TypeOK, undoVars, apiVars
<1>15. ASSUME NEW m \in Message, Redelivered(m)
       PROVE  TypeOK'
  <2>1. m.mail \in Mails
    BY Messages DEF Mails
  <2>2. repeats' \in [Mails -> 0 .. MaxFaults]
    BY <1>15, <2>1, RepeatTyped DEF Redelivered
  <2> QED
    BY <1>15, <2>2, PublishTyped, FaultPaid DEF Redelivered, TypeOK, undoVars, apiVars
<1> QED
  BY <1>1, <1>2, <1>3, <1>4, <1>5, <1>6, <1>7, <1>8, <1>10, <1>11, <1>12, <1>13, <1>14, <1>15
  DEF Next, WebStep, WorkerStep

-----------------------------------------------------------------------------
LEMMA Shapes ==
  ASSUME TypeOK
  PROVE  /\ DOMAIN api = Mails /\ DOMAIN answer = Mails /\ DOMAIN phase = Mails
         /\ DOMAIN undo = Mails /\ DOMAIN reply = Mails /\ DOMAIN queue = Message
         /\ DOMAIN run = Workers /\ \A w \in Workers : run[w] \in Run
         /\ \A w \in Workers : run[w].step # "idle" => run[w].msg \in Message
         /\ IdleRun.step = "idle"
  BY DEF TypeOK, IdleRun

LEMMA DeliveredGrows ==
  ASSUME TypeOK, NEW s \in Mails, Delivered(s)
  PROVE  /\ \A t \in Mails : delivered'[t] = IF t = s THEN delivered[t] + 1 ELSE delivered[t]
         /\ \A t \in Mails : delivered[t] \in Nat
         /\ \A t \in Mails : delivered[t] > 0 => delivered'[t] > 0
         /\ delivered'[s] > 0
<1>1. delivered \in [Mails -> Nat]
  BY DEF TypeOK
<1> QED
  BY <1>1 DEF Delivered

(* The stage of a worker changes, and it keeps the message it has. *)
LEMMA StepGoes ==
  ASSUME TypeOK, NEW w \in Workers, NEW st, run' = [run EXCEPT ![w].step = st]
  PROVE  /\ \A v \in Workers \ {w} : run'[v] = run[v]
         /\ run'[w].step = st /\ run'[w].msg = run[w].msg
  BY Shapes DEF Run

LEMMA RepeatsBounded ==
  ASSUME TypeOK, Progress, budget' \in 0 .. MaxFaults, budget = budget' + 1, NEW s \in Mails,
         NEW c \in BOOLEAN, RepeatIf(c, s)
  PROVE  \A t \in Mails : repeats'[t] + budget' <= MaxFaults
<1>1. repeats \in [Mails -> 0 .. MaxFaults]
  BY DEF TypeOK
<1>2. \A t \in Mails : repeats[t] + budget <= MaxFaults
  BY DEF Progress
<1>3. budget' \in Nat
  BY MailAssumption
<1>4. \A t \in Mails : repeats[t] \in Nat /\ repeats'[t] \in {repeats[t], repeats[t] + 1}
  BY <1>1, Repeated
<1> QED
  BY <1>2, <1>3, <1>4, MailAssumption

(* With the budget unchanged or smaller, the bound on the repeats stays. *)
LEMMA BoundStays ==
  ASSUME TypeOK, Progress, repeats' = repeats,
         budget' = budget \/ \E f \in FaultKinds : Fault(f)
  PROVE  \A t \in Mails : repeats'[t] + budget' <= MaxFaults
<1>1. CASE budget' = budget
  BY <1>1 DEF Progress
<1>2. ASSUME NEW f \in FaultKinds, Fault(f)
      PROVE  \A t \in Mails : repeats'[t] + budget' <= MaxFaults
  <2> SUFFICES ASSUME NEW t \in Mails PROVE repeats'[t] + budget' <= MaxFaults
    OBVIOUS
  <2> QED
    BY <1>2, FaultPaid, RepeatsBounded DEF RepeatIf
<1> QED
  BY <1>1, <1>2

LEMMA ProgressKept == ASSUME IndInv, Next PROVE Progress'
<1> USE DEF IndInv
<1>0. TypeOK'
  BY TypeKept
<1>1. ASSUME NEW s \in Mails, Compose(s) \/ Refuse(s) \/ Schedule(s) \/ EnqueueUndo(s) \/ StoreEntry(s)
      PROVE  Progress'
  <2>1. \A t \in Mails : repeats'[t] + budget' <= MaxFaults
    BY <1>1, BoundStays DEF Compose, Refuse, Schedule, EnqueueUndo, StoreEntry, ghosts
  <2> QED
    BY <1>1, <2>1, Shapes DEF Compose, Refuse, Schedule, EnqueueUndo, StoreEntry, Answer, Progress, undoVars, ghosts
<1>2. ASSUME NEW s \in Mails, ExecuteSend(s)
      PROVE  Progress'
  <2>1. \A t \in Mails : repeats'[t] + budget' <= MaxFaults
    BY <1>2, BoundStays DEF ExecuteSend, ghosts
  <2>2. \A w \in Workers : run[w].step # "idle" => run[w].msg.mail \in Mails
    BY Shapes, Messages DEF Mails
  <2> QED
    BY <1>2, <2>1, <2>2, Shapes, DeliveredGrows DEF ExecuteSend, Progress, undoVars, ghosts
<1>3. ASSUME NEW s \in Mails, SentBooks(s) \/ ExecuteSendFails(s) \/ EnqueueRaises(s)
      PROVE  Progress'
  <2>1. \A t \in Mails : repeats'[t] + budget' <= MaxFaults
    BY <1>3, BoundStays DEF SentBooks, ExecuteSendFails, EnqueueRaises, ghosts, FaultKinds
  <2>2. \A t \in Mails : delivered[t] > 0 => delivered'[t] > 0
    BY <1>3, DeliveredGrows DEF SentBooks, ExecuteSendFails, EnqueueRaises
  <2>3. \A w \in Workers : run[w].step # "idle" => run[w].msg.mail \in Mails
    BY Shapes, Messages DEF Mails
  <2> QED
    BY <1>3, <2>1, <2>2, <2>3, Shapes
    DEF SentBooks, ExecuteSendFails, EnqueueRaises, Answer, Progress, undoVars, ghosts
<1>4. ASSUME NEW s \in Mails, TimePasses(s) \/ EntryExpires(s)
      PROVE  Progress'
  <2>1. \A t \in Mails : repeats'[t] + budget' <= MaxFaults
    BY <1>4, BoundStays DEF TimePasses, EntryExpires, ghosts, FaultKinds
  <2> QED
    BY <1>4, <2>1, Shapes DEF TimePasses, EntryExpires, Progress, undoVars, ghosts, apiVars
<1>5. ASSUME NEW s \in Mails, Resumed(s)
      PROVE  Progress'
  <2>1. \A t \in Mails : repeats'[t] + budget' <= MaxFaults
    BY <1>5, FaultPaid, RepeatsBounded DEF Resumed
  <2> QED
    BY <1>5, <2>1 DEF Resumed, Progress, undoVars, apiVars
<1>6. ASSUME NEW s \in Mails, UndoGet(s) \/ UndoDeletes(s) \/ UndoExpired(s) \/ UndoCleanup(s)
      PROVE  Progress'
  <2>1. \A t \in Mails : repeats'[t] + budget' <= MaxFaults
    BY <1>6, BoundStays DEF UndoGet, UndoDeletes, UndoExpired, UndoCleanup, ghosts, FaultKinds
  <2> QED
    BY <1>6, <2>1, Shapes DEF UndoGet, UndoDeletes, UndoExpired, UndoCleanup, Progress, ghosts, apiVars
<1>7. ASSUME NEW w \in Workers, \/ \E m \in Message : Take(w, m)
                                \/ GetEntry(w) \/ DeliverScheduled(w) \/ DeliverFails(w)
                                \/ CacheFails(w) \/ Ack(w) \/ Crash(w) \/ BodyLost(w)
      PROVE  Progress'
  <2>1. \A t \in Mails : repeats'[t] + budget' <= MaxFaults
    <3>1. CASE (\E m \in Message : Take(w, m)) \/ GetEntry(w) \/ DeliverScheduled(w) \/ Ack(w) \/ BodyLost(w)
      BY <3>1, BoundStays DEF Take, GetEntry, DeliverScheduled, Ack, BodyLost, ghosts, FaultKinds
    <3>2. CASE DeliverFails(w) \/ CacheFails(w) \/ Crash(w)
      <4>1. run[w].msg.mail \in Mails
        BY <3>2, Shapes, Messages DEF DeliverFails, CacheFails, Crash, Mails
      <4>2. \E f \in FaultKinds : Fault(f)
        BY <3>2 DEF DeliverFails, CacheFails, Crash, FaultKinds
      <4>3. repeats' = repeats \/ RepeatIf(TRUE, run[w].msg.mail)
        BY <3>2 DEF DeliverFails, CacheFails, Crash, RepeatIf
      <4> QED
        BY <4>1, <4>2, <4>3, FaultPaid, RepeatsBounded, BoundStays
    <3> QED
      BY <1>7, <3>1, <3>2
  <2>2. /\ \A v \in Workers \ {w} : run'[v] = run[v]
        /\ run'[w].step \notin {"books", "delete"}
        /\ run'[w].step = "get" => run'[w].msg.mail \in Held
    <3>1. CASE \E m \in Message : Take(w, m)
      BY <3>1, Shapes DEF Take
    <3>2. CASE GetEntry(w)
      BY <3>2, Shapes, StepGoes DEF GetEntry, Run
    <3>3. CASE Ack(w) \/ Crash(w) \/ BodyLost(w)
      BY <3>3, Shapes DEF Ack, Crash, BodyLost
    <3>4. CASE DeliverScheduled(w)
      BY <3>4, StepGoes DEF DeliverScheduled
    <3>5. CASE DeliverFails(w) \/ CacheFails(w)
      BY <3>5, AttemptRetried DEF DeliverFails, CacheFails
    <3> QED
      BY <1>7, <3>1, <3>2, <3>3, <3>4, <3>5
  <2>3. UNCHANGED <<api, answer, entry, undo, reply, lapsed>>
    BY <1>7 DEF Take, GetEntry, DeliverScheduled, DeliverFails, CacheFails, Ack, Crash, BodyLost,
                undoVars, ghosts, apiVars
  <2>4. \A t \in Mails : delivered[t] > 0 => delivered'[t] > 0
    <3>1. CASE delivered' = delivered
      BY <3>1
    <3>2. CASE DeliverScheduled(w) \/ DeliverFails(w)
      BY <3>1, <3>2, Shapes, Messages, DeliveredGrows DEF DeliverScheduled, DeliverFails, Mails
    <3> QED
      BY <1>7, <3>1, <3>2 DEF Take, GetEntry, CacheFails, Ack, Crash, BodyLost
  <2>5. \A v \in Workers : run[v].step # "idle" => run[v].msg.mail \in Mails
    BY Shapes, Messages DEF Mails
  <2> QED
    BY <2>1, <2>2, <2>3, <2>4, <2>5 DEF Progress
<1>8. ASSUME NEW w \in Workers, Deliver(w)
      PROVE  Progress'
  <2>1. \A t \in Mails : repeats'[t] + budget' <= MaxFaults
    BY <1>8, BoundStays DEF Deliver, ghosts
  <2>2. \A v \in Workers : run[v].step # "idle" => run[v].msg.mail \in Mails
    BY Shapes, Messages DEF Mails
  <2>3. Delivered(run[w].msg.mail) /\ run[w].msg.mail \in Held /\ run[w].step = "smtp"
    BY <1>8 DEF Deliver
  <2>4. /\ delivered'[run[w].msg.mail] > 0
        /\ \A t \in Mails : delivered[t] > 0 => delivered'[t] > 0
    BY <2>2, <2>3, DeliveredGrows
  <2>5. /\ \A v \in Workers \ {w} : run'[v] = run[v]
        /\ run'[w].msg = run[w].msg
    BY <1>8, StepGoes DEF Deliver
  <2>6. UNCHANGED <<api, answer, entry, undo, reply, lapsed>>
    BY <1>8 DEF Deliver, undoVars, ghosts, apiVars
  <2> QED
    BY <2>1, <2>2, <2>3, <2>4, <2>5, <2>6 DEF Progress
<1>9. ASSUME NEW w \in Workers, JobBooks(w) \/ DeleteEntry(w)
      PROVE  Progress'
  <2>1. \A t \in Mails : repeats'[t] + budget' <= MaxFaults
    BY <1>9, BoundStays DEF JobBooks, DeleteEntry, ghosts, FaultKinds
  <2>2. /\ \A v \in Workers \ {w} : run'[v] = run[v]
        /\ run'[w].step \in {"idle", "delete"} /\ (run'[w].step = "delete" => run'[w].msg = run[w].msg)
        /\ run[w].step \in {"books", "delete"}
    <3>1. CASE JobBooks(w)
      BY <3>1, StepGoes DEF JobBooks
    <3>2. CASE DeleteEntry(w)
      BY <3>2, Shapes DEF DeleteEntry
    <3> QED
      BY <1>9, <3>1, <3>2
  <2>3. UNCHANGED <<api, answer, undo, reply, lapsed, delivered>> /\ entry \ {run[w].msg.mail} \subseteq entry'
    BY <1>9 DEF JobBooks, DeleteEntry, undoVars, ghosts, apiVars
  <2>4. api[run[w].msg.mail] # "stored"
    BY <2>2, Shapes, Messages DEF Unpublished, Holding, Mails
  <2> QED
    BY <2>1, <2>2, <2>3, <2>4 DEF Progress
<1>10. ASSUME NEW m \in Message, Redelivered(m)
       PROVE  Progress'
  <2>1. \A t \in Mails : repeats'[t] + budget' <= MaxFaults
    BY <1>10, FaultPaid, RepeatsBounded, Messages DEF Redelivered, Mails
  <2> QED
    BY <1>10, <2>1 DEF Redelivered, Progress, undoVars, apiVars
<1> QED
  BY <1>1, <1>2, <1>3, <1>4, <1>5, <1>6, <1>7, <1>8, <1>9, <1>10 DEF Next, WebStep, WorkerStep

-----------------------------------------------------------------------------
(* What is in the queue and in the hands of the workers, after a step.     *)
LEMMA QueueGrows ==
  ASSUME TypeOK, NEW m \in Message, Publish(m)
  PROVE  /\ \A n \in Message : queue[n] \in Nat /\ queue'[n] = IF n = m THEN queue[n] + 1 ELSE queue[n]
         /\ Queued(m.mail)'
         /\ \A s \in Mails : Queued(s) => Queued(s)'
         /\ \A s \in Mails : s # m.mail /\ Queued(s)' => Queued(s)
<1>1. queue \in [Message -> Nat]
  BY DEF TypeOK
<1>2. \A n \in Message : queue[n] \in Nat /\ queue'[n] = IF n = m THEN queue[n] + 1 ELSE queue[n]
  BY <1>1 DEF Publish
<1>3. \A n \in Message : queue[n] > 0 => queue'[n] > 0
  BY <1>2
<1>4. queue'[m] > 0
  BY <1>2
<1> QED
  BY <1>2, <1>3, <1>4 DEF Queued

LEMMA MailOfRun ==
  ASSUME TypeOK, NEW w \in Workers, run[w].step # "idle"
  PROVE  /\ run[w].msg \in Message /\ run[w].msg.mail \in Scheduled \cup Held
         /\ run[w].msg.mail \in Mails /\ Holding(run[w].msg.mail)
  BY Shapes, Messages DEF Holding, Mails

(* A worker that has a message keeps it or is done with it. *)
LEMMA RunShrinks ==
  ASSUME TypeOK, NEW w \in Workers, run[w].step # "idle",
         \A v \in Workers \ {w} : run'[v] = run[v],
         run'[w].step = "idle" \/ run'[w].msg = run[w].msg
  PROVE  \A s \in Mails : Holding(s)' => Holding(s)
  BY DEF Holding

(* The steps of a worker that has a message: it goes on, or ends. *)
Worked(w) ==
    \/ GetEntry(w) \/ Deliver(w) \/ DeliverScheduled(w) \/ DeliverFails(w) \/ CacheFails(w)
    \/ JobBooks(w) \/ DeleteEntry(w) \/ Ack(w) \/ Crash(w) \/ BodyLost(w)

LEMMA WorkedFrame ==
  ASSUME TypeOK, NEW w \in Workers, Worked(w)
  PROVE  /\ run[w].step # "idle"
         /\ \A v \in Workers \ {w} : run'[v] = run[v]
         /\ run'[w].step = "idle" \/ run'[w].msg = run[w].msg
         /\ UNCHANGED <<api, answer, phase, undo, reply, inTime, lapsed, resumed>>
         /\ entry \ {run[w].msg.mail} \subseteq entry' /\ entry' \subseteq entry
         /\ draft \ {run[w].msg.mail} \subseteq draft'
<1>1. run[w].step # "idle"
  BY DEF Worked, GetEntry, Deliver, DeliverScheduled, DeliverFails, CacheFails, JobBooks, DeleteEntry,
         Ack, Crash, BodyLost
<1>2. UNCHANGED <<api, answer, phase, undo, reply, inTime, lapsed, resumed>>
  BY DEF Worked, GetEntry, Deliver, DeliverScheduled, DeliverFails, CacheFails, JobBooks, DeleteEntry,
         Ack, Crash, BodyLost, apiVars, undoVars, ghosts
<1>3. entry \ {run[w].msg.mail} \subseteq entry' /\ entry' \subseteq entry /\ draft \ {run[w].msg.mail} \subseteq draft'
  BY DEF Worked, GetEntry, Deliver, DeliverScheduled, DeliverFails, CacheFails, JobBooks, DeleteEntry,
         Ack, Crash, BodyLost
<1>4. /\ \A v \in Workers \ {w} : run'[v] = run[v]
      /\ run'[w].step = "idle" \/ run'[w].msg = run[w].msg
  <2>1. CASE GetEntry(w)
    <3>1. CASE run' = [run EXCEPT ![w] = IdleRun]
      BY <3>1, Shapes
    <3>2. CASE run' = [run EXCEPT ![w].step = "smtp"]
      BY <3>2, StepGoes
    <3> QED
      BY <2>1, <3>1, <3>2 DEF GetEntry
  <2>2. CASE Deliver(w) \/ DeliverScheduled(w) \/ JobBooks(w)
    BY <2>2, StepGoes DEF Deliver, DeliverScheduled, JobBooks
  <2>3. CASE DeliverFails(w) \/ CacheFails(w)
    BY <1>1, <2>3, AttemptRetried DEF DeliverFails, CacheFails
  <2>4. CASE DeleteEntry(w) \/ Ack(w) \/ Crash(w) \/ BodyLost(w)
    BY <2>4, Shapes DEF DeleteEntry, Ack, Crash, BodyLost
  <2> QED
    BY <2>1, <2>2, <2>3, <2>4 DEF Worked
<1> QED
  BY <1>1, <1>2, <1>3, <1>4

(* What it publishes is about the mail it works on. *)
LEMMA WorkedOn ==
  ASSUME TypeOK, NEW w \in Workers, Worked(w)
  PROVE  /\ \/ queue' = queue
            \/ \E m \in Message : m.mail = run[w].msg.mail /\ Publish(m)
         /\ delivered' = delivered \/ Delivered(run[w].msg.mail)
<1>1. run[w].msg \in Message /\ run[w].step # "idle"
  BY WorkedFrame, Shapes
<1>2. CASE DeliverFails(w) \/ CacheFails(w)
  BY <1>1, <1>2, AttemptRetried DEF DeliverFails, CacheFails
<1> QED
  BY <1>1, <1>2 DEF Worked, GetEntry, Deliver, DeliverScheduled, JobBooks, DeleteEntry, Ack, Crash, BodyLost

LEMMA UnpublishedKept == ASSUME IndInv, Next PROVE Unpublished'
<1> USE DEF IndInv
<1> DEFINE Early == {"new", "composed", "stored"}
<1>1. ASSUME UNCHANGED <<queue, run, delivered>>, \A t \in Mails : api'[t] \in Early => api[t] \in Early
      PROVE  Unpublished'
  BY <1>1 DEF Unpublished, Queued, Holding
<1>2. ASSUME NEW s \in Mails, Compose(s) \/ Refuse(s) \/ StoreEntry(s) \/ SentBooks(s)
      PROVE  Unpublished'
  BY <1>1, <1>2, Shapes DEF Compose, Refuse, StoreEntry, SentBooks, Answer
<1>3. ASSUME NEW s \in Mails, TimePasses(s) \/ EntryExpires(s) \/ UndoGet(s) \/ UndoDeletes(s)
                              \/ UndoExpired(s) \/ UndoCleanup(s)
      PROVE  Unpublished'
  BY <1>1, <1>3 DEF TimePasses, EntryExpires, UndoGet, UndoDeletes, UndoExpired, UndoCleanup, apiVars
<1>4. ASSUME NEW s \in Mails, ExecuteSend(s) \/ ExecuteSendFails(s)
      PROVE  Unpublished'
  <2>1. \A t \in Mails \ {s} : delivered'[t] = delivered[t]
    BY <1>4, DeliveredGrows DEF ExecuteSend, ExecuteSendFails
  <2> QED
    BY <1>4, <2>1, Shapes DEF ExecuteSend, ExecuteSendFails, Answer, Unpublished, Queued, Holding
<1>5. ASSUME NEW s \in Mails, Schedule(s) \/ EnqueueUndo(s) \/ EnqueueRaises(s)
      PROVE  Unpublished'
  <2> DEFINE m == [mail |-> s, retries |-> 0, eta |-> TRUE]
  <2>1. m \in Message /\ m.mail = s
    BY <1>5, Messages DEF Schedule, EnqueueUndo, EnqueueRaises, Progress
  <2>2. queue' = queue \/ Publish(m)
    BY <1>5 DEF Schedule, EnqueueUndo, EnqueueRaises
  <2>3. \A t \in Mails \ {s} : api'[t] = api[t]
    BY <1>5, Shapes DEF Schedule, EnqueueUndo, EnqueueRaises, Answer
  <2>4. api'[s] = "over" /\ UNCHANGED <<run, delivered>>
    BY <1>5, Shapes DEF Schedule, EnqueueUndo, EnqueueRaises, Answer
  <2> HIDE DEF m
  <2>5. \A t \in Mails : t # s /\ Queued(t)' => Queued(t)
    BY <2>1, <2>2, QueueGrows DEF Queued
  <2> QED
    BY <2>3, <2>4, <2>5 DEF Unpublished, Holding
<1>6. ASSUME NEW s \in Mails, Resumed(s)
      PROVE  Unpublished'
  <2> DEFINE m == [mail |-> s, retries |-> 0, eta |-> FALSE]
  <2>1. UNCHANGED <<api, run, delivered>> /\ Publish(m)
    BY <1>6 DEF Resumed, apiVars
  <2>3. api[s] \notin Early
    BY <1>6 DEF Resumed, Unpublished, Executing, Holding
  <2>2. m \in Message /\ m.mail = s
    BY <1>6, MailOfRun, Messages DEF Resumed, Queued, Executing
  <2> HIDE DEF m
  <2> QED
    BY <2>1, <2>2, <2>3, QueueGrows DEF Unpublished, Holding
<1>7. ASSUME NEW w \in Workers, NEW m \in Message, Take(w, m)
      PROVE  Unpublished'
  <2>1. Queued(m.mail) /\ m.mail \in Mails
    BY <1>7, Messages DEF Take, Queued, Mails
  <2>2. /\ \A v \in Workers \ {w} : run'[v] = run[v]
        /\ run'[w].msg = m
    BY <1>7, Shapes DEF Take
  <2>3. \A n \in Message : queue'[n] > 0 => queue[n] > 0
    <3>1. queue \in [Message -> Nat]
      BY DEF TypeOK
    <3> QED
      BY <1>7, <3>1 DEF Take
  <2>4. \A t \in Mails : t # m.mail => (Holding(t)' => Holding(t)) /\ (Queued(t)' => Queued(t))
    BY <2>2, <2>3 DEF Holding, Queued
  <2> QED
    BY <1>7, <2>1, <2>4 DEF Take, Unpublished, apiVars
<1>8. ASSUME NEW w \in Workers, Worked(w)
      PROVE  Unpublished'
  <2>1. run[w].msg.mail \in Mails /\ Holding(run[w].msg.mail)
    BY <1>8, WorkedFrame, MailOfRun
  <2>2. \A t \in Mails : Holding(t)' => Holding(t)
    BY <1>8, WorkedFrame, RunShrinks
  <2>3. \A t \in Mails : t # run[w].msg.mail => delivered'[t] = delivered[t]
    BY <1>8, <2>1, WorkedOn, DeliveredGrows
  <2>4. \A t \in Mails : t # run[w].msg.mail /\ Queued(t)' => Queued(t)
    <3>1. CASE queue' = queue
      BY <3>1 DEF Queued
    <3>2. ASSUME NEW m \in Message, m.mail = run[w].msg.mail, Publish(m)
          PROVE  \A t \in Mails : t # run[w].msg.mail /\ Queued(t)' => Queued(t)
      BY <3>2, QueueGrows
    <3> QED
      BY <1>8, <3>1, <3>2, WorkedOn
  <2>5. api' = api
    BY <1>8, WorkedFrame
  <2> QED
    BY <2>1, <2>2, <2>3, <2>4, <2>5 DEF Unpublished
<1>9. ASSUME NEW m \in Message, Redelivered(m)
      PROVE  Unpublished'
  <2>1. Queued(m.mail) /\ m.mail \in Mails
    BY <1>9, Messages DEF Redelivered, Queued, Mails
  <2> QED
    BY <1>9, <2>1, QueueGrows DEF Redelivered, Unpublished, Holding, apiVars
<1> QED
  BY <1>2, <1>3, <1>4, <1>5, <1>6, <1>7, <1>8, <1>9 DEF Next, WebStep, WorkerStep, Worked

-----------------------------------------------------------------------------
(* Counting *)

(* Two sets that differ in one element at most. *)
LEMMA OneApart ==
  ASSUME NEW S, NEW T, NEW x, IsFiniteSet(S), S \ {x} = T \ {x}
  PROVE  /\ IsFiniteSet(T) /\ Cardinality(S) \in Nat /\ Cardinality(T) \in Nat
         /\ (x \in S <=> x \in T) => Cardinality(T) = Cardinality(S)
         /\ x \in S /\ x \notin T => Cardinality(T) = Cardinality(S) - 1
         /\ x \notin S /\ x \in T => Cardinality(T) = Cardinality(S) + 1
<1>1. Cardinality(S) \in Nat
  BY FS_CardinalityType
<1>2. CASE x \in S <=> x \in T
  <2>1. S = T
    BY <1>2
  <2> QED
    BY <1>1, <2>1
<1>3. CASE x \in S /\ x \notin T
  <2>1. T = S \ {x}
    BY <1>3
  <2>2. IsFiniteSet(T) /\ Cardinality(T) = Cardinality(S) - 1
    BY <1>3, <2>1, FS_RemoveElement
  <2>3. Cardinality(T) \in Nat
    BY <2>2, FS_CardinalityType
  <2> QED
    BY <1>1, <1>3, <2>2, <2>3
<1>4. CASE x \notin S /\ x \in T
  <2>1. T = S \cup {x}
    BY <1>4
  <2>2. IsFiniteSet(T) /\ Cardinality(T) = Cardinality(S) + 1
    BY <1>4, <2>1, FS_AddElement
  <2>3. Cardinality(T) \in Nat
    BY <2>2, FS_CardinalityType
  <2> QED
    BY <1>1, <1>4, <2>2, <2>3
<1> QED
  BY <1>2, <1>3, <1>4

LEMMA PublishCounts ==
  ASSUME TypeOK, Counted, NEW m \in Message, Publish(m), NEW s \in Mails
  PROVE  /\ IsFiniteSet(Waiting(s)') /\ Cardinality(Waiting(s)) \in Nat
         /\ Cardinality(Waiting(s)') = IF m.mail = s THEN Cardinality(Waiting(s)) + 1
                                       ELSE Cardinality(Waiting(s))
<1> DEFINE x == <<m, queue[m] + 1>>
<1>1. \A n \in Message : queue[n] \in Nat /\ queue'[n] = IF n = m THEN queue[n] + 1 ELSE queue[n]
  BY QueueGrows
<1>2. x \in Message \X Nat /\ x \notin Waiting(s)
  BY <1>1 DEF Waiting
<1>3. x \in Waiting(s)' <=> m.mail = s
  BY <1>1, <1>2 DEF Waiting
<1>4. Waiting(s) \ {x} = Waiting(s)' \ {x}
  <2>1. ASSUME NEW p \in Message \X Nat, p # x
        PROVE  p[2] \in 1 .. queue[p[1]] <=> p[2] \in 1 .. queue'[p[1]]
    <3>1. p[1] \in Message /\ p[2] \in Nat /\ p = <<p[1], p[2]>>
      OBVIOUS
    <3>2. CASE p[1] # m
      BY <1>1, <3>1, <3>2
    <3>3. CASE p[1] = m
      <4>1. p[2] # queue[m] + 1
        BY <2>1, <3>1, <3>3
      <4> QED
        BY <1>1, <3>1, <3>3, <4>1
    <3> QED
      BY <3>2, <3>3
  <2> HIDE DEF x
  <2> QED
    BY <2>1 DEF Waiting
<1>5. IsFiniteSet(Waiting(s))
  BY DEF Counted
<1> HIDE DEF x
<1> QED
  BY <1>2, <1>3, <1>4, <1>5, OneApart

LEMMA TakeCounts ==
  ASSUME TypeOK, Counted, NEW m \in Message, queue[m] > 0, queue' = [queue EXCEPT ![m] = @ - 1],
         NEW s \in Mails
  PROVE  /\ IsFiniteSet(Waiting(s)') /\ Cardinality(Waiting(s)) \in Nat /\ Cardinality(Waiting(s)') \in Nat
         /\ Cardinality(Waiting(s)') = IF m.mail = s THEN Cardinality(Waiting(s)) - 1
                                       ELSE Cardinality(Waiting(s))
<1> DEFINE x == <<m, queue[m]>>
<1>0. queue \in [Message -> Nat]
  BY DEF TypeOK
<1>1. \A n \in Message : queue[n] \in Nat /\ queue'[n] = IF n = m THEN queue[n] - 1 ELSE queue[n]
  BY <1>0
<1>2. x \in Message \X Nat /\ x \notin Waiting(s)'
  BY <1>1 DEF Waiting
<1>3. x \in Waiting(s) <=> m.mail = s
  BY <1>1, <1>2 DEF Waiting
<1>4. Waiting(s) \ {x} = Waiting(s)' \ {x}
  <2>1. ASSUME NEW p \in Message \X Nat, p # x
        PROVE  p[2] \in 1 .. queue[p[1]] <=> p[2] \in 1 .. queue'[p[1]]
    <3>1. p[1] \in Message /\ p[2] \in Nat /\ p = <<p[1], p[2]>>
      OBVIOUS
    <3>2. CASE p[1] # m
      BY <1>1, <3>1, <3>2
    <3>3. CASE p[1] = m
      <4>1. p[2] # queue[m]
        BY <2>1, <3>1, <3>3
      <4> QED
        BY <1>1, <3>1, <3>3, <4>1
    <3> QED
      BY <3>2, <3>3
  <2> HIDE DEF x
  <2> QED
    BY <2>1 DEF Waiting
<1>5. IsFiniteSet(Waiting(s))
  BY DEF Counted
<1> HIDE DEF x
<1> QED
  BY <1>2, <1>3, <1>4, <1>5, OneApart

LEMMA TryCounts ==
  ASSUME Counted, NEW w \in Workers, \A v \in Workers \ {w} : run'[v] = run[v], NEW s \in Mails
  PROVE  /\ IsFiniteSet(Trying(s)') /\ Cardinality(Trying(s)) \in Nat /\ Cardinality(Trying(s)') \in Nat
         /\ (w \in Trying(s) <=> w \in Trying(s)') => Cardinality(Trying(s)') = Cardinality(Trying(s))
         /\ w \in Trying(s) /\ w \notin Trying(s)' => Cardinality(Trying(s)') = Cardinality(Trying(s)) - 1
         /\ w \notin Trying(s) /\ w \in Trying(s)' => Cardinality(Trying(s)') = Cardinality(Trying(s)) + 1
<1>1. Trying(s) \ {w} = Trying(s)' \ {w}
  BY DEF Trying
<1>2. IsFiniteSet(Trying(s))
  BY DEF Counted
<1> QED
  BY <1>1, <1>2, OneApart

LEMMA Numbers ==
  ASSUME TypeOK, Counted, NEW s \in Mails
  PROVE  /\ Cardinality(Waiting(s)) \in Nat /\ Cardinality(Trying(s)) \in Nat
         /\ delivered[s] \in Nat /\ repeats[s] \in Nat
<1>1. delivered \in [Mails -> Nat] /\ repeats \in [Mails -> 0 .. MaxFaults]
  BY DEF TypeOK
<1>2. IsFiniteSet(Waiting(s)) /\ IsFiniteSet(Trying(s))
  BY DEF Counted
<1> QED
  BY <1>1, <1>2, FS_CardinalityType, MailAssumption

LEMMA NothingYet ==
  ASSUME TypeOK, Unpublished, NEW s \in Mails, api[s] \in {"new", "composed", "stored"}
  PROVE  Cardinality(Waiting(s)) = 0 /\ Cardinality(Trying(s)) = 0 /\ delivered[s] = 0
<1>1. queue \in [Message -> Nat]
  BY DEF TypeOK
<1>2. Waiting(s) = {}
  <2>1. ASSUME NEW p \in Waiting(s) PROVE FALSE
    <3>1. p[1] \in Message /\ p[1].mail = s /\ queue[p[1]] > 0
      BY <1>1, <2>1 DEF Waiting
    <3> QED
      BY <3>1 DEF Unpublished, Queued
  <2> QED
    BY <2>1
<1>3. Trying(s) = {}
  BY DEF Unpublished, Holding, Trying
<1>4. delivered[s] = 0
  BY DEF Unpublished
<1> QED
  BY <1>2, <1>3, <1>4, FS_EmptySet

LEMMA CountedKept == ASSUME IndInv, Next PROVE Counted'
<1> USE DEF IndInv
<1>1. ASSUME UNCHANGED <<queue, run, delivered, repeats>>
      PROVE  Counted'
  BY <1>1 DEF Counted, Waiting, Trying
<1>2. ASSUME NEW s \in Mails, Compose(s) \/ Refuse(s) \/ StoreEntry(s) \/ SentBooks(s)
      PROVE  Counted'
  BY <1>1, <1>2 DEF Compose, Refuse, StoreEntry, SentBooks, ghosts
<1>3. ASSUME NEW s \in Mails, TimePasses(s) \/ EntryExpires(s) \/ UndoGet(s) \/ UndoDeletes(s)
                              \/ UndoExpired(s) \/ UndoCleanup(s)
      PROVE  Counted'
  BY <1>1, <1>3 DEF TimePasses, EntryExpires, UndoGet, UndoDeletes, UndoExpired, UndoCleanup, ghosts
<1>4. ASSUME NEW s \in Mails, ExecuteSend(s) \/ ExecuteSendFails(s), Delivered(s)
      PROVE  Counted'
  <2>1. UNCHANGED <<queue, run, repeats>> /\ Delivered(s) /\ api[s] = "composed"
    BY <1>4 DEF ExecuteSend, ExecuteSendFails, ghosts
  <2>2. \A t \in Mails : Waiting(t)' = Waiting(t) /\ Trying(t)' = Trying(t)
    BY <2>1 DEF Waiting, Trying
  <2>3. Cardinality(Waiting(s)) = 0 /\ Cardinality(Trying(s)) = 0 /\ delivered[s] = 0 /\ repeats[s] \in Nat
    BY <2>1, NothingYet, Numbers
  <2>4. delivered'[s] = 1 /\ \A t \in Mails \ {s} : delivered'[t] = delivered[t]
    BY <2>1, <2>3, DeliveredGrows
  <2> SUFFICES ASSUME NEW t \in Mails
               PROVE  /\ IsFiniteSet(Waiting(t)') /\ IsFiniteSet(Trying(t)')
                      /\ Cardinality(Waiting(t)') + Cardinality(Trying(t)') + delivered'[t] <= 1 + repeats'[t]
    BY DEF Counted
  <2>5. CASE t = s
    BY <2>1, <2>2, <2>3, <2>4, <2>5 DEF Counted
  <2>6. CASE t # s
    BY <2>1, <2>2, <2>4, <2>6 DEF Counted
  <2> QED
    BY <2>5, <2>6
<1>5. ASSUME NEW s \in Mails, ExecuteSend(s) \/ ExecuteSendFails(s)
      PROVE  Counted'
  BY <1>1, <1>4, <1>5 DEF ExecuteSend, ExecuteSendFails, ghosts
<1>6. ASSUME NEW s \in Mails, Schedule(s) \/ EnqueueUndo(s) \/ EnqueueRaises(s)
      PROVE  Counted'
  <2> DEFINE m == [mail |-> s, retries |-> 0, eta |-> TRUE]
  <2>1. m \in Message /\ m.mail = s
    BY <1>6, Messages DEF Schedule, EnqueueUndo, EnqueueRaises, Progress
  <2>2. api[s] \in {"composed", "stored"} /\ UNCHANGED <<run, delivered, repeats>>
    BY <1>6 DEF Schedule, EnqueueUndo, EnqueueRaises, ghosts
  <2>3. queue' = queue \/ Publish(m)
    BY <1>6 DEF Schedule, EnqueueUndo, EnqueueRaises
  <2> HIDE DEF m
  <2>4. CASE queue' = queue
    BY <1>1, <2>2, <2>4
  <2>5. CASE Publish(m)
    <3> SUFFICES ASSUME NEW t \in Mails
                 PROVE  /\ IsFiniteSet(Waiting(t)') /\ IsFiniteSet(Trying(t)')
                        /\ Cardinality(Waiting(t)') + Cardinality(Trying(t)') + delivered'[t] <= 1 + repeats'[t]
      BY DEF Counted
    <3>1. Trying(t)' = Trying(t) /\ IsFiniteSet(Trying(t))
      BY <2>2 DEF Trying, Counted
    <3>2. CASE t = s
      <4>1. Cardinality(Waiting(t)) = 0 /\ Cardinality(Trying(t)) = 0 /\ delivered[t] = 0 /\ repeats[t] \in Nat
        BY <2>2, <3>2, NothingYet, Numbers
      <4>2. IsFiniteSet(Waiting(t)') /\ Cardinality(Waiting(t)') = 1
        BY <2>1, <2>5, <3>2, <4>1, PublishCounts
      <4> QED
        BY <2>2, <3>1, <4>1, <4>2
    <3>3. CASE t # s
      <4>1. IsFiniteSet(Waiting(t)') /\ Cardinality(Waiting(t)') = Cardinality(Waiting(t))
        BY <2>1, <2>5, <3>3, PublishCounts
      <4> QED
        BY <2>2, <3>1, <4>1 DEF Counted
    <3> QED
      BY <3>2, <3>3
  <2> QED
    BY <2>3, <2>4, <2>5
<1>7. ASSUME NEW m \in Message, NEW s \in Mails, m.mail = s, Publish(m), RepeatIf(TRUE, s),
             UNCHANGED <<run, delivered>>
      PROVE  Counted'
  <2>1. \A t \in Mails : repeats'[t] = IF t = s THEN repeats[t] + 1 ELSE repeats[t]
    BY <1>7, Repeated
  <2> SUFFICES ASSUME NEW t \in Mails
               PROVE  /\ IsFiniteSet(Waiting(t)') /\ IsFiniteSet(Trying(t)')
                      /\ Cardinality(Waiting(t)') + Cardinality(Trying(t)') + delivered'[t] <= 1 + repeats'[t]
    BY DEF Counted
  <2>2. Trying(t)' = Trying(t) /\ IsFiniteSet(Trying(t))
    BY <1>7 DEF Trying, Counted
  <2>3. /\ IsFiniteSet(Waiting(t)')
        /\ Cardinality(Waiting(t)') = IF t = s THEN Cardinality(Waiting(t)) + 1 ELSE Cardinality(Waiting(t))
    BY <1>7, PublishCounts
  <2>4. Cardinality(Waiting(t)) + Cardinality(Trying(t)) + delivered[t] <= 1 + repeats[t]
    BY DEF Counted
  <2> QED
    BY <1>7, <2>1, <2>2, <2>3, <2>4, Numbers
<1>8. ASSUME NEW s \in Mails, Resumed(s)
      PROVE  Counted'
  <2> DEFINE m == [mail |-> s, retries |-> 0, eta |-> FALSE]
  <2>1. m \in Message /\ m.mail = s
    BY <1>8, MailOfRun, Messages DEF Resumed, Queued, Executing
  <2> QED
    BY <1>7, <1>8, <2>1 DEF Resumed
<1>9. ASSUME NEW m \in Message, Redelivered(m)
      PROVE  Counted'
  BY <1>7, <1>9, Messages DEF Redelivered, Mails
<1>10. ASSUME NEW w \in Workers, NEW m \in Message, Take(w, m)
      PROVE  Counted'
  <2>1. queue[m] > 0 /\ queue' = [queue EXCEPT ![m] = @ - 1] /\ UNCHANGED <<delivered, repeats>>
    BY <1>10 DEF Take, ghosts
  <2>2. /\ \A v \in Workers \ {w} : run'[v] = run[v]
        /\ run'[w].msg = m /\ run'[w].step \in {"get", "smtp"} /\ run[w].step = "idle"
    BY <1>10, Shapes DEF Take
  <2> SUFFICES ASSUME NEW t \in Mails
               PROVE  /\ IsFiniteSet(Waiting(t)') /\ IsFiniteSet(Trying(t)')
                      /\ Cardinality(Waiting(t)') + Cardinality(Trying(t)') + delivered'[t] <= 1 + repeats'[t]
    BY DEF Counted
  <2>3. w \notin Trying(t) /\ (w \in Trying(t)' <=> m.mail = t)
    BY <2>2 DEF Trying
  <2>4. /\ IsFiniteSet(Waiting(t)')
        /\ Cardinality(Waiting(t)') = IF m.mail = t THEN Cardinality(Waiting(t)) - 1 ELSE Cardinality(Waiting(t))
    BY <2>1, TakeCounts
  <2>5. /\ IsFiniteSet(Trying(t)')
        /\ Cardinality(Trying(t)') = IF m.mail = t THEN Cardinality(Trying(t)) + 1 ELSE Cardinality(Trying(t))
    BY <2>2, <2>3, TryCounts
  <2>6. Cardinality(Waiting(t)) + Cardinality(Trying(t)) + delivered[t] <= 1 + repeats[t]
    BY DEF Counted
  <2> QED
    BY <2>1, <2>4, <2>5, <2>6, Numbers
<1>11. ASSUME NEW w \in Workers, Worked(w)
      PROVE  Counted'
  <2>1. run[w].msg \in Message /\ run[w].msg.mail \in Mails /\ run[w].step # "idle"
    BY <1>11, WorkedFrame, MailOfRun
  <2>2. \A v \in Workers \ {w} : run'[v] = run[v]
    BY <1>11, WorkedFrame
  <2> SUFFICES ASSUME NEW t \in Mails
               PROVE  /\ IsFiniteSet(Waiting(t)') /\ IsFiniteSet(Trying(t)')
                      /\ Cardinality(Waiting(t)') + Cardinality(Trying(t)') + delivered'[t] <= 1 + repeats'[t]
    BY DEF Counted
  <2>3. IsFiniteSet(Trying(t)') /\ Cardinality(Trying(t)') \in Nat
    BY <2>2, TryCounts
  <2>4. /\ Cardinality(Waiting(t)) + Cardinality(Trying(t)) + delivered[t] <= 1 + repeats[t]
        /\ IsFiniteSet(Waiting(t))
    BY DEF Counted
  <2>5. CASE t # run[w].msg.mail
    <3>1. w \notin Trying(t) /\ w \notin Trying(t)'
      BY <1>11, <2>5, WorkedFrame DEF Trying
    <3>2. Cardinality(Trying(t)') = Cardinality(Trying(t))
      BY <2>2, <3>1, TryCounts
    <3>3. IsFiniteSet(Waiting(t)') /\ Cardinality(Waiting(t)') = Cardinality(Waiting(t))
      <4>1. CASE queue' = queue
        BY <2>4, <4>1 DEF Waiting
      <4>2. ASSUME NEW m \in Message, m.mail = run[w].msg.mail, Publish(m)
            PROVE  IsFiniteSet(Waiting(t)') /\ Cardinality(Waiting(t)') = Cardinality(Waiting(t))
        BY <2>5, <4>2, PublishCounts
      <4> QED
        BY <1>11, <4>1, <4>2, WorkedOn
    <3>4. delivered'[t] = delivered[t]
      BY <1>11, <2>1, <2>5, WorkedOn, DeliveredGrows
    <3>5. repeats'[t] = repeats[t]
      <4>1. repeats' = repeats \/ RepeatIf(TRUE, run[w].msg.mail)
        BY <1>11 DEF Worked, GetEntry, Deliver, DeliverScheduled, DeliverFails, CacheFails, JobBooks,
                    DeleteEntry, Ack, Crash, BodyLost, ghosts, RepeatIf
      <4> QED
        BY <2>1, <2>5, <4>1, Repeated
    <3> QED
      BY <2>3, <2>4, <3>2, <3>3, <3>4, <3>5
  <2>6. CASE t = run[w].msg.mail
    <3>1. w \in Trying(t) <=> run[w].step \in {"get", "smtp"}
      BY <2>6 DEF Trying
    <3>2. CASE GetEntry(w) \/ Ack(w) \/ BodyLost(w) \/ JobBooks(w) \/ DeleteEntry(w)
      <4>1. UNCHANGED <<queue, delivered, repeats>>
        BY <3>2 DEF GetEntry, Ack, BodyLost, JobBooks, DeleteEntry, ghosts
      <4>2. w \in Trying(t)' => w \in Trying(t)
        <5>1. run[w].step = "get" \/ run'[w].step \in {"idle", "delete"}
          BY <3>2, StepGoes, Shapes DEF GetEntry, Ack, BodyLost, JobBooks, DeleteEntry
        <5> QED
          BY <3>1, <5>1 DEF Trying
      <4>3. Cardinality(Trying(t)') <= Cardinality(Trying(t))
        BY <2>2, <4>2, TryCounts
      <4>4. Waiting(t)' = Waiting(t)
        BY <4>1 DEF Waiting
      <4> QED
        BY <2>3, <2>4, <4>1, <4>3, <4>4, Numbers
    <3>3. CASE Deliver(w) \/ DeliverScheduled(w)
      <4>1. UNCHANGED <<queue, repeats>> /\ w \in Trying(t) /\ Delivered(t)
        BY <2>6, <3>1, <3>3 DEF Deliver, DeliverScheduled, ghosts
      <4>2. run'[w].step \in {"books", "ack"}
        BY <3>3, StepGoes DEF Deliver, DeliverScheduled
      <4>3. w \notin Trying(t)'
        BY <4>2 DEF Trying
      <4>4. Cardinality(Trying(t)') = Cardinality(Trying(t)) - 1
        BY <2>2, <4>1, <4>3, TryCounts
      <4>5. Waiting(t)' = Waiting(t) /\ delivered'[t] = delivered[t] + 1
        BY <4>1, DeliveredGrows DEF Waiting
      <4> QED
        BY <2>3, <2>4, <4>1, <4>4, <4>5, Numbers
    <3>4. CASE DeliverFails(w) \/ CacheFails(w)
      <4>1. Retry(w)
        BY <3>4 DEF DeliverFails, CacheFails
      <4>2. w \notin Trying(t)'
        BY <2>1, <4>1, AttemptRetried DEF Trying
      <4>3. IF HasRetry(w)
            THEN IsFiniteSet(Waiting(t)') /\ Cardinality(Waiting(t)') = Cardinality(Waiting(t)) + 1
            ELSE IsFiniteSet(Waiting(t)') /\ Cardinality(Waiting(t)') = Cardinality(Waiting(t))
        <5>1. CASE queue' = queue /\ ~HasRetry(w)
          BY <2>4, <5>1 DEF Waiting
        <5>2. ASSUME NEW m \in Message, m.mail = run[w].msg.mail, Publish(m)
              PROVE  /\ IsFiniteSet(Waiting(t)')
                     /\ Cardinality(Waiting(t)') = Cardinality(Waiting(t)) + 1
          BY <2>6, <5>2, PublishCounts
        <5> QED
          BY <2>1, <4>1, <5>1, <5>2, AttemptRetried
      <4>4. CASE run[w].step # "delete"
        <5>1. w \in Trying(t)
          BY <3>1, <3>4, <4>4 DEF DeliverFails, CacheFails
        <5>2. Cardinality(Trying(t)') = Cardinality(Trying(t)) - 1
          BY <2>2, <4>2, <5>1, TryCounts
        <5>3. \/ UNCHANGED <<delivered, repeats>>
              \/ Delivered(t) /\ RepeatIf(HasRetry(w), t)
          BY <2>6, <3>4, <4>4 DEF DeliverFails, CacheFails, RepeatIf
        <5>4. CASE UNCHANGED <<delivered, repeats>>
          BY <2>3, <2>4, <4>3, <5>2, <5>4, Numbers
        <5>5. CASE Delivered(t) /\ RepeatIf(HasRetry(w), t)
          <6>1. delivered'[t] = delivered[t] + 1
            BY <5>5, DeliveredGrows
          <6>2. repeats'[t] = IF HasRetry(w) THEN repeats[t] + 1 ELSE repeats[t]
            BY <5>5 DEF RepeatIf, TypeOK
          <6> QED
            BY <2>3, <2>4, <4>3, <5>2, <6>1, <6>2, Numbers
        <5> QED
          BY <5>3, <5>4, <5>5
      <4>5. CASE run[w].step = "delete"
        <5>1. delivered' = delivered /\ RepeatIf(HasRetry(w), t)
          BY <2>6, <3>4, <4>5 DEF DeliverFails, CacheFails, RepeatIf
        <5>2. repeats'[t] = IF HasRetry(w) THEN repeats[t] + 1 ELSE repeats[t]
          BY <5>1 DEF RepeatIf, TypeOK
        <5>3. Cardinality(Trying(t)') = Cardinality(Trying(t))
          BY <2>2, <3>1, <4>2, <4>5, TryCounts
        <5> QED
          BY <2>3, <2>4, <4>3, <5>1, <5>2, <5>3, Numbers
      <4> QED
        BY <4>4, <4>5
    <3>5. CASE Crash(w)
      <4>1. /\ Publish(run[w].msg) /\ delivered' = delivered /\ run'[w].step = "idle"
            /\ RepeatIf(run[w].step \in {"books", "delete", "ack"}, t)
        BY <2>6, <3>5, Shapes DEF Crash
      <4>2. w \notin Trying(t)'
        BY <4>1 DEF Trying
      <4>3. IsFiniteSet(Waiting(t)') /\ Cardinality(Waiting(t)') = Cardinality(Waiting(t)) + 1
        BY <2>1, <2>6, <4>1, PublishCounts
      <4>4. CASE run[w].step \in {"books", "delete", "ack"}
        <5>1. repeats'[t] = repeats[t] + 1
          BY <4>1, <4>4, Repeated
        <5>2. Cardinality(Trying(t)') = Cardinality(Trying(t))
          BY <2>2, <3>1, <4>2, <4>4, TryCounts
        <5> QED
          BY <2>3, <2>4, <4>1, <4>3, <5>1, <5>2, Numbers
      <4>5. CASE run[w].step \notin {"books", "delete", "ack"}
        <5>1. repeats'[t] = repeats[t]
          BY <4>1, <4>5 DEF RepeatIf
        <5>2. w \in Trying(t)
          BY <2>1, <3>1, <4>5, Shapes DEF Run
        <5>3. Cardinality(Trying(t)') = Cardinality(Trying(t)) - 1
          BY <2>2, <4>2, <5>2, TryCounts
        <5> QED
          BY <2>3, <2>4, <4>1, <4>3, <5>1, <5>3, Numbers
      <4> QED
        BY <4>4, <4>5
    <3> QED
      BY <1>11, <3>2, <3>3, <3>4, <3>5 DEF Worked
  <2> QED
    BY <2>5, <2>6
<1> QED
  BY <1>2, <1>3, <1>6, <1>10, <1>11, <1>5, <1>8, <1>9 DEF Next, WebStep, WorkerStep, Worked

-----------------------------------------------------------------------------
(* Undo *)

LEMMA HeldAlone == Held \cap Direct = {} /\ Held \cap Scheduled = {} /\ Undone \subseteq Held
  BY MailAssumption

LEMMA InWindowKept == ASSUME IndInv, Next PROVE InWindow'
<1> USE DEF IndInv
<1>1. ASSUME UNCHANGED <<queue, run, delivered>>, resumed \subseteq resumed',
             \A t \in Mails : phase'[t] = "window" => phase[t] = "window"
      PROVE  InWindow'
  BY <1>1 DEF InWindow, Holding, Mails
<1>2. ASSUME NEW s \in Mails, Compose(s) \/ Refuse(s) \/ StoreEntry(s) \/ SentBooks(s)
      PROVE  InWindow'
  BY <1>1, <1>2 DEF Compose, Refuse, StoreEntry, SentBooks, ghosts
<1>3. ASSUME NEW s \in Mails, TimePasses(s) \/ EntryExpires(s) \/ UndoGet(s) \/ UndoDeletes(s)
                              \/ UndoExpired(s) \/ UndoCleanup(s)
      PROVE  InWindow'
  <2>1. UNCHANGED <<queue, run, delivered, resumed>>
    BY <1>3 DEF TimePasses, EntryExpires, UndoGet, UndoDeletes, UndoExpired, UndoCleanup, ghosts
  <2>2. \A t \in Mails : phase'[t] = "window" => phase[t] = "window"
    BY <1>3, Shapes DEF TimePasses, EntryExpires, UndoGet, UndoDeletes, UndoExpired, UndoCleanup
  <2> QED
    BY <1>1, <2>1, <2>2
<1>4. ASSUME NEW s \in Mails, ExecuteSend(s) \/ ExecuteSendFails(s)
      PROVE  InWindow'
  <2>1. s \notin Held /\ UNCHANGED <<queue, run, resumed, phase>> /\ (delivered' = delivered \/ Delivered(s))
    BY <1>4, HeldAlone DEF ExecuteSend, ExecuteSendFails, ghosts
  <2>2. \A t \in Held : delivered'[t] = delivered[t]
    BY <2>1, DeliveredGrows DEF Mails
  <2> QED
    BY <2>1, <2>2 DEF InWindow, Holding
<1>5. ASSUME NEW s \in Mails, Schedule(s) \/ EnqueueUndo(s) \/ EnqueueRaises(s)
      PROVE  InWindow'
  <2> DEFINE m == [mail |-> s, retries |-> 0, eta |-> TRUE]
  <2>1. m \in Message /\ m.mail = s /\ m.eta
    BY <1>5, Messages DEF Schedule, EnqueueUndo, EnqueueRaises, Progress
  <2>2. UNCHANGED <<run, delivered, resumed, phase>>
    BY <1>5 DEF Schedule, EnqueueUndo, EnqueueRaises, ghosts
  <2>3. queue' = queue \/ Publish(m)
    BY <1>5 DEF Schedule, EnqueueUndo, EnqueueRaises
  <2> HIDE DEF m
  <2>4. \A n \in Message : queue'[n] > 0 => queue[n] > 0 \/ n = m
    BY <2>1, <2>3, QueueGrows
  <2> QED
    BY <2>1, <2>2, <2>4 DEF InWindow, Holding
<1>6. ASSUME NEW s \in Mails, Resumed(s)
      PROVE  InWindow'
  <2> DEFINE m == [mail |-> s, retries |-> 0, eta |-> FALSE]
  <2>1. m \in Message /\ m.mail = s
    BY <1>6, MailOfRun, Messages DEF Resumed, Queued, Executing
  <2>2. Publish(m) /\ UNCHANGED <<run, delivered, phase>> /\ resumed' = resumed \cup {s}
    BY <1>6 DEF Resumed
  <2> HIDE DEF m
  <2>3. \A n \in Message : n.mail # s /\ queue'[n] > 0 => queue[n] > 0
    BY <2>1, <2>2, QueueGrows
  <2> QED
    BY <2>2, <2>3 DEF InWindow, Holding
<1>7. ASSUME NEW w \in Workers, NEW m \in Message, Take(w, m)
      PROVE  InWindow'
  <2>1. UNCHANGED <<delivered, resumed, phase>> /\ queue[m] > 0 /\ (m.eta => phase[m.mail] # "window")
    BY <1>7 DEF Take, ghosts
  <2>2. /\ \A v \in Workers \ {w} : run'[v] = run[v]
        /\ run'[w].msg = m
    BY <1>7, Shapes DEF Take
  <2>3. \A n \in Message : queue'[n] > 0 => queue[n] > 0
    <3>1. queue \in [Message -> Nat]
      BY DEF TypeOK
    <3> QED
      BY <1>7, <3>1 DEF Take
  <2>4. m.mail \in Held \ resumed => phase[m.mail] # "window"
    BY <2>1, Messages, Zenon DEF InWindow
  <2>5. \A t \in Mails : t # m.mail /\ Holding(t)' => Holding(t)
    BY <2>2 DEF Holding
  <2> QED
    BY <2>1, <2>3, <2>4, <2>5 DEF InWindow, Mails
<1>8. ASSUME NEW w \in Workers, Worked(w)
      PROVE  InWindow'
  <2>1. run[w].msg.mail \in Mails /\ Holding(run[w].msg.mail)
    BY <1>8, WorkedFrame, MailOfRun
  <2>2. \A t \in Mails : Holding(t)' => Holding(t)
    BY <1>8, WorkedFrame, RunShrinks
  <2>3. \A t \in Mails : t # run[w].msg.mail => delivered'[t] = delivered[t]
    BY <1>8, <2>1, WorkedOn, DeliveredGrows
  <2>4. \A n \in Message : n.mail # run[w].msg.mail /\ queue'[n] > 0 => queue[n] > 0
    <3>1. ASSUME NEW m \in Message, m.mail = run[w].msg.mail, Publish(m)
          PROVE  \A n \in Message : n.mail # run[w].msg.mail /\ queue'[n] > 0 => queue[n] > 0
      BY <3>1, QueueGrows
    <3> QED
      BY <1>8, <3>1, WorkedOn
  <2>5. UNCHANGED <<phase, resumed>>
    BY <1>8, WorkedFrame
  <2> QED
    BY <2>1, <2>2, <2>3, <2>4, <2>5 DEF InWindow, Mails
<1>9. ASSUME NEW m \in Message, Redelivered(m)
      PROVE  InWindow'
  <2>1. \A n \in Message : queue'[n] > 0 => queue[n] > 0
    BY <1>9, QueueGrows DEF Redelivered
  <2> QED
    BY <1>9, <2>1 DEF Redelivered, InWindow, Holding
<1> QED
  BY <1>2, <1>3, <1>4, <1>5, <1>6, <1>7, <1>8, <1>9 DEF Next, WebStep, WorkerStep, Worked

LEMMA StoppedKept == ASSUME IndInv, Next PROVE Stopped'
<1> USE DEF IndInv
<1>0. inTime \subseteq Held /\ Held \subseteq Mails
  BY DEF TypeOK, Mails
<1>1. ASSUME UNCHANGED <<run, delivered, inTime>>, resumed \subseteq resumed', entry' \subseteq entry,
             \A t \in inTime : undo'[t] = undo[t] \/ undo'[t] = "over"
      PROVE  Stopped'
  BY <1>1 DEF Stopped
<1>2. ASSUME NEW s \in Mails, Compose(s) \/ Refuse(s) \/ SentBooks(s) \/ Schedule(s)
                               \/ EnqueueUndo(s) \/ EnqueueRaises(s) \/ TimePasses(s)
                              \/ EntryExpires(s) \/ Resumed(s)
      PROVE  Stopped'
  BY <1>1, <1>2
  DEF Compose, Refuse, SentBooks, Schedule, EnqueueUndo, EnqueueRaises, TimePasses, EntryExpires,
      Resumed, ghosts, undoVars
<1>3. ASSUME NEW s \in Mails, StoreEntry(s)
      PROVE  Stopped'
  <2>1. s \notin inTime
    BY <1>3 DEF StoreEntry, Stopped, Progress
  <2> QED
    BY <1>3, <2>1 DEF StoreEntry, Stopped, ghosts, undoVars
<1>4. ASSUME NEW s \in Mails, ExecuteSend(s) \/ ExecuteSendFails(s)
      PROVE  Stopped'
  <2>1. /\ s \notin inTime /\ (delivered' = delivered \/ Delivered(s))
        /\ UNCHANGED <<run, inTime, resumed, entry, undo>>
    BY <1>0, <1>4, HeldAlone DEF ExecuteSend, ExecuteSendFails, ghosts, undoVars
  <2>2. \A t \in inTime : delivered'[t] = delivered[t]
    BY <1>0, <2>1, DeliveredGrows
  <2> QED
    BY <2>1, <2>2 DEF Stopped
<1>5. ASSUME NEW s \in Mails, UndoGet(s) \/ UndoExpired(s) \/ UndoCleanup(s)
      PROVE  Stopped'
  <2>1. \A t \in inTime : undo[t] \in {"cleanup", "over"}
    BY DEF Stopped
  <2>2. \A t \in inTime : undo'[t] = undo[t] \/ undo'[t] = "over"
    <3>1. \A t \in Mails \ {s} : undo'[t] = undo[t]
      BY <1>5, Shapes DEF UndoGet, UndoExpired, UndoCleanup
    <3>2. undo'[s] = "over" \/ undo[s] = "idle"
      BY <1>5, Shapes DEF UndoGet, UndoExpired, UndoCleanup
    <3> QED
      BY <1>0, <2>1, <3>1, <3>2
  <2> QED
    BY <1>1, <1>5, <2>2 DEF UndoGet, UndoExpired, UndoCleanup, ghosts
<1>6. ASSUME NEW s \in Mails, UndoDeletes(s)
      PROVE  Stopped'
  <2>1. /\ UNCHANGED <<run, delivered, resumed>> /\ entry' = entry \ {s}
        /\ inTime' = IF phase[s] = "window" THEN inTime \cup {s} ELSE inTime
        /\ undo[s] = "read"
    BY <1>6 DEF UndoDeletes, ghosts
  <2>2. undo'[s] = "cleanup" /\ \A t \in Mails \ {s} : undo'[t] = undo[t]
    BY <1>6, Shapes DEF UndoDeletes
  <2>3. s \notin inTime /\ s \in Held
    BY <2>1, HeldAlone DEF Stopped, Progress
  <2>4. \A t \in inTime : undo'[t] = undo[t]
    BY <1>0, <2>2, <2>3
  <2>5. s \notin resumed /\ phase[s] = "window" =>
           delivered[s] = 0 /\ \A w \in Workers : run[w].msg.mail = s => run[w].step = "idle"
    BY <2>3 DEF InWindow, Holding
  <2> QED
    BY <2>1, <2>2, <2>4, <2>5 DEF Stopped
<1>7. ASSUME NEW w \in Workers, NEW m \in Message, Take(w, m)
      PROVE  Stopped'
  <2>1. UNCHANGED <<delivered, resumed, inTime, entry, undo>>
    BY <1>7 DEF Take, ghosts, undoVars
  <2>2. /\ \A v \in Workers \ {w} : run'[v] = run[v]
        /\ run'[w].msg = m /\ (m.mail \in Held => run'[w].step = "get")
    BY <1>7, Shapes DEF Take
  <2> QED
    BY <1>0, <2>1, <2>2 DEF Stopped
<1>8. ASSUME NEW w \in Workers, Worked(w)
      PROVE  Stopped'
  <2> DEFINE s == run[w].msg.mail
  <2>1. UNCHANGED <<resumed, inTime, undo>> /\ entry' \subseteq entry /\ s \in Mails /\ run[w].step # "idle"
    BY <1>8, WorkedFrame, MailOfRun
  <2>2. \A v \in Workers \ {w} : run'[v] = run[v]
    BY <1>8, WorkedFrame
  <2>3. run'[w].step = "idle" \/ run'[w].msg = run[w].msg
    BY <1>8, WorkedFrame
  <2>4. CASE s \in inTime \ resumed
    <3>1. run[w].step \in {"get", "ack"} /\ s \notin entry
      BY <2>1, <2>4 DEF Stopped
    <3>2. GetEntry(w) \/ CacheFails(w) \/ Ack(w) \/ Crash(w) \/ BodyLost(w)
      BY <1>8, <3>1
      DEF Worked, Deliver, DeliverScheduled, DeliverFails, JobBooks, DeleteEntry
    <3>3. run'[w].step \in {"idle", "ack"} /\ delivered' = delivered
      BY <2>1, <3>1, <3>2, Shapes, AttemptRetried DEF GetEntry, CacheFails, Ack, Crash, BodyLost
    <3> QED
      BY <2>1, <2>2, <3>3 DEF Stopped
  <2>5. CASE s \notin inTime \ resumed
    <3>1. \A t \in inTime \ resumed : delivered'[t] = delivered[t]
      BY <1>0, <1>8, <2>1, <2>5, WorkedOn, DeliveredGrows
    <3> QED
      BY <2>1, <2>2, <2>3, <2>5, <3>1 DEF Stopped
  <2> QED
    BY <2>4, <2>5
<1>9. ASSUME NEW m \in Message, Redelivered(m)
      PROVE  Stopped'
  BY <1>1, <1>9 DEF Redelivered, undoVars
<1> QED
  BY <1>2, <1>3, <1>4, <1>5, <1>6, <1>7, <1>8, <1>9 DEF Next, WebStep, WorkerStep, Worked

-----------------------------------------------------------------------------
(* Nothing is lost *)

LEMMA GivenUpStays ==
  ASSUME IndInv, Next, NEW s \in Mails, GivenUp(s)
  PROVE  GivenUp(s)'
<1> USE DEF IndInv
<1>1. CASE s \in lapsed \cup failed
  <2>1. lapsed \subseteq lapsed' /\ failed \subseteq failed'
    BY DEF Next, WebStep, WorkerStep, Compose, Refuse, ExecuteSend, SentBooks, Schedule, StoreEntry,
           EnqueueUndo, ExecuteSendFails, EnqueueRaises, TimePasses, EntryExpires, Redelivered,
           Resumed, UndoGet, UndoDeletes, UndoExpired, UndoCleanup, Take, GetEntry, Deliver,
           DeliverScheduled, Retry, DeliverFails, CacheFails, JobBooks, DeleteEntry, Ack, Crash,
           BodyLost, ghosts
  <2> QED
    BY <1>1, <2>1 DEF GivenUp
<1>2. CASE undo[s] = "cleanup" \/ reply[s] \in {"expired", "cancelled"}
  <2>1. undo[s] \in {"cleanup", "over"}
    BY <1>2 DEF Progress
  <2>2. ASSUME UNCHANGED <<undo, reply>>
        PROVE  GivenUp(s)'
    BY <1>2, <2>2 DEF GivenUp
  <2>3. ASSUME NEW t \in Mails, UndoGet(t) \/ UndoDeletes(t) \/ UndoExpired(t) \/ UndoCleanup(t)
        PROVE  GivenUp(s)'
    <3>1. CASE t # s
      BY <1>2, <2>3, <3>1, Shapes DEF UndoGet, UndoDeletes, UndoExpired, UndoCleanup, GivenUp
    <3>2. CASE t = s
      <4>1. UndoCleanup(s)
        BY <2>1, <2>3, <3>2 DEF UndoGet, UndoDeletes, UndoExpired
      <4> QED
        BY <4>1, Shapes DEF UndoCleanup, GivenUp
    <3> QED
      BY <3>1, <3>2
  <2>4. ASSUME NEW t \in Mails, WebStep(t) \/ ExecuteSendFails(t) \/ EnqueueRaises(t)
        PROVE  GivenUp(s)'
    BY <2>2, <2>4 DEF WebStep, Compose, Refuse, ExecuteSend, SentBooks, Schedule, StoreEntry,
                      EnqueueUndo, ExecuteSendFails, EnqueueRaises, undoVars
  <2>5. ASSUME NEW t \in Mails, TimePasses(t) \/ EntryExpires(t) \/ Resumed(t)
        PROVE  GivenUp(s)'
    BY <2>2, <2>5 DEF TimePasses, EntryExpires, Resumed, undoVars
  <2>6. ASSUME NEW w \in Workers, NEW m \in Message, Take(w, m)
        PROVE  GivenUp(s)'
    BY <2>2, <2>6 DEF Take, undoVars
  <2>7. ASSUME NEW w \in Workers, Worked(w)
        PROVE  GivenUp(s)'
    BY <2>2, <2>7, WorkedFrame
  <2>8. ASSUME NEW m \in Message, Redelivered(m)
        PROVE  GivenUp(s)'
    BY <2>2, <2>8 DEF Redelivered, undoVars
  <2> QED
    BY <2>3, <2>4, <2>5, <2>6, <2>7, <2>8 DEF Next, WorkerStep, Worked
<1> QED
  BY <1>1, <1>2 DEF GivenUp

(* The mail of an accepted request that is not lost: what NotLost promises *)
(* of one mail.                                                            *)
Safe(s) == (Queued(s) \/ Executing(s)) /\ (s \in Held => s \in entry)
Owed(s) == Accepted(s) /\ delivered[s] = 0 /\ ~GivenUp(s)

LEMMA NotLostKept == ASSUME IndInv, Next PROVE NotLost'
<1> USE DEF IndInv
<1>0. \A s \in Mails : GivenUp(s) => GivenUp(s)'
  BY GivenUpStays
<1> SUFFICES ASSUME NEW s \in Mails, Owed(s)'
             PROVE  Safe(s)'
  BY DEF NotLost, Owed, Safe
<1>1. ~GivenUp(s) /\ ~GivenUp(s)' /\ delivered'[s] = 0 /\ Accepted(s)'
  BY <1>0 DEF Owed
<1>2. Accepted(s) /\ delivered[s] = 0 => Safe(s)
  BY <1>1 DEF NotLost, Safe
<1>3. ASSUME UNCHANGED <<answer, queue, run, delivered>>, s \in entry => s \in entry'
      PROVE  Safe(s)'
  BY <1>1, <1>2, <1>3 DEF Safe, Accepted, Queued, Executing
<1>4. ASSUME NEW t \in Mails, Compose(t) \/ StoreEntry(t) \/ TimePasses(t) \/ UndoGet(t)
      PROVE  Safe(s)'
  BY <1>3, <1>4 DEF Compose, StoreEntry, TimePasses, UndoGet, apiVars
<1>5. ASSUME NEW t \in Mails, Refuse(t) \/ SentBooks(t) \/ ExecuteSendFails(t)
      PROVE  Safe(s)'
  <2>1. s # t /\ answer'[s] = answer[s]
    BY <1>1, <1>5, Shapes DEF Refuse, SentBooks, ExecuteSendFails, Answer, Accepted
  <2>2. delivered[s] = 0
    BY <1>1, <1>5, DeliveredGrows DEF Refuse, SentBooks, ExecuteSendFails
  <2> QED
    BY <1>1, <1>2, <1>5, <2>1, <2>2 DEF Refuse, SentBooks, ExecuteSendFails, Safe, Accepted, Queued, Executing
<1>6. ASSUME NEW t \in Mails, ExecuteSend(t)
      PROVE  Safe(s)'
  <2>1. delivered[s] = 0
    BY <1>1, <1>6, DeliveredGrows DEF ExecuteSend
  <2> QED
    BY <1>1, <1>2, <1>6, <2>1 DEF ExecuteSend, Safe, Accepted, Queued, Executing
<1>7. ASSUME NEW t \in Mails, Schedule(t) \/ EnqueueUndo(t) \/ EnqueueRaises(t)
      PROVE  Safe(s)'
  <2> DEFINE m == [mail |-> t, retries |-> 0, eta |-> TRUE]
  <2>1. m \in Message /\ m.mail = t
    BY <1>7, Messages DEF Schedule, EnqueueUndo, EnqueueRaises, Progress
  <2>2. queue' = queue \/ Publish(m)
    BY <1>7 DEF Schedule, EnqueueUndo, EnqueueRaises
  <2>3. UNCHANGED <<run, delivered, entry>>
    BY <1>7 DEF Schedule, EnqueueUndo, EnqueueRaises
  <2>4. CASE s = t
    <3>1. Schedule(t) \/ EnqueueUndo(t)
      BY <1>1, <1>7, <2>4, Shapes DEF EnqueueRaises, Answer, Accepted
    <3>2. Queued(s)'
      <4>1. Publish(m)
        BY <3>1 DEF Schedule, EnqueueUndo
      <4> HIDE DEF m
      <4> QED
        BY <2>1, <2>4, <4>1, QueueGrows
    <3>3. s \in Held => s \in entry
      <4>1. s \in Held => EnqueueUndo(s)
        BY <2>4, <3>1, HeldAlone DEF Schedule
      <4> QED
        BY <1>1, <4>1 DEF EnqueueUndo, Progress, GivenUp
    <3> QED
      BY <2>3, <3>2, <3>3 DEF Safe
  <2>5. CASE s # t
    <3>1. answer'[s] = answer[s]
      BY <1>7, <2>5, Shapes DEF Schedule, EnqueueUndo, EnqueueRaises, Answer
    <3>2. Safe(s)
      BY <1>1, <1>2, <2>3, <3>1 DEF Accepted
    <3> HIDE DEF m
    <3>3. Queued(s) => Queued(s)'
      BY <2>1, <2>2, QueueGrows DEF Queued
    <3> QED
      BY <2>3, <3>2, <3>3 DEF Safe, Executing
  <2> QED
    BY <2>4, <2>5
<1>8. ASSUME NEW t \in Mails, EntryExpires(t)
      PROVE  Safe(s)'
  <2>1. s # t
    BY <1>1, <1>8 DEF EntryExpires, GivenUp
  <2> QED
    BY <1>3, <1>8, <2>1 DEF EntryExpires, apiVars
<1>9. ASSUME NEW t \in Mails, UndoDeletes(t) \/ UndoExpired(t)
      PROVE  Safe(s)'
  <2>1. s # t
    BY <1>1, <1>9, Shapes DEF UndoDeletes, UndoExpired, GivenUp
  <2> QED
    BY <1>3, <1>9, <2>1 DEF UndoDeletes, UndoExpired, apiVars
<1>10. ASSUME NEW t \in Mails, UndoCleanup(t)
       PROVE  Safe(s)'
  BY <1>3, <1>10 DEF UndoCleanup, apiVars
<1>11. ASSUME NEW t \in Mails, Resumed(t)
       PROVE  Safe(s)'
  <2> DEFINE m == [mail |-> t, retries |-> 0, eta |-> FALSE]
  <2>1. m \in Message /\ m.mail = t
    BY <1>11, MailOfRun, Messages DEF Resumed, Queued, Executing
  <2>2. Publish(m) /\ UNCHANGED <<run, delivered, entry, answer>>
    BY <1>11 DEF Resumed, apiVars
  <2> HIDE DEF m
  <2>3. Queued(s) => Queued(s)'
    BY <2>1, <2>2, QueueGrows
  <2> QED
    BY <1>1, <1>2, <2>2, <2>3 DEF Safe, Executing, Accepted
<1>12. ASSUME NEW m \in Message, Redelivered(m)
       PROVE  Safe(s)'
  <2>1. Publish(m) /\ UNCHANGED <<run, delivered, entry, answer>>
    BY <1>12 DEF Redelivered, apiVars
  <2>2. Queued(s) => Queued(s)'
    BY <2>1, QueueGrows
  <2> QED
    BY <1>1, <1>2, <2>1, <2>2 DEF Safe, Executing, Accepted
<1>13. ASSUME NEW w \in Workers, NEW m \in Message, Take(w, m)
       PROVE  Safe(s)'
  <2>1. UNCHANGED <<delivered, answer, entry>> /\ run[w].step = "idle"
    BY <1>13 DEF Take, apiVars
  <2>2. /\ \A v \in Workers \ {w} : run'[v] = run[v]
        /\ run'[w].msg = m /\ run'[w].step \in {"get", "smtp"}
    BY <1>13, Shapes DEF Take
  <2>3. \A n \in Message : n # m => queue'[n] = queue[n]
    BY <1>13, Shapes DEF Take
  <2>4. Executing(s) => Executing(s)'
    BY <2>1, <2>2 DEF Executing
  <2>5. Queued(s) => Queued(s)' \/ Executing(s)'
    BY <2>2, <2>3 DEF Executing, Queued
  <2> QED
    BY <1>1, <1>2, <2>1, <2>4, <2>5 DEF Safe, Accepted
<1>14. ASSUME NEW w \in Workers, Worked(w)
       PROVE  Safe(s)'
  <2> DEFINE t == run[w].msg.mail
  <2>1. t \in Mails /\ run[w].step # "idle" /\ run[w].msg \in Message
    BY <1>14, WorkedFrame, MailOfRun
  <2>2. \A v \in Workers \ {w} : run'[v] = run[v]
    BY <1>14, WorkedFrame
  <2>3. answer' = answer /\ entry \ {t} \subseteq entry'
    BY <1>14, WorkedFrame
  <2>4. \A n \in Message : queue[n] > 0 => queue'[n] > 0
    <3>1. ASSUME NEW m \in Message, Publish(m)
          PROVE  \A n \in Message : queue[n] > 0 => queue'[n] > 0
      BY <3>1, QueueGrows
    <3> QED
      BY <1>14, <3>1, WorkedOn
  <2>5. delivered[s] = 0
    <3>1. delivered' = delivered \/ Delivered(t)
      BY <1>14, WorkedOn
    <3> HIDE DEF t
    <3>2. CASE Delivered(t)
      BY <1>1, <2>1, <3>2, DeliveredGrows
    <3> QED
      BY <1>1, <3>1, <3>2
  <2>6. Safe(s)
    BY <1>1, <1>2, <2>3, <2>5 DEF Accepted
  <2>7. CASE s # t
    <3>1. Executing(s) => Executing(s)'
      BY <2>2, <2>7 DEF Executing
    <3> QED
      BY <2>3, <2>4, <2>6, <2>7, <3>1 DEF Safe, Queued
  <2>8. CASE s = t
    <3>1. CASE GetEntry(w)
      <4>1. s \in entry
        BY <2>6, <2>8, <3>1 DEF GetEntry, Progress, Safe
      <4>2. run' = [run EXCEPT ![w].step = "smtp"]
        BY <2>8, <3>1, <4>1 DEF GetEntry
      <4>3. run'[w].step = "smtp" /\ run'[w].msg.mail = s
        BY <2>8, <4>2, StepGoes
      <4> QED
        BY <3>1, <4>1, <4>3 DEF GetEntry, Safe, Executing
    <3>2. CASE Deliver(w) \/ DeliverScheduled(w)
      <4>1. Delivered(s)
        BY <2>8, <3>2 DEF Deliver, DeliverScheduled
      <4> QED
        BY <1>1, <4>1, DeliveredGrows
    <3>3. CASE DeliverFails(w) \/ CacheFails(w)
      <4>1. Retry(w) /\ entry' = entry
        BY <3>3 DEF DeliverFails, CacheFails
      <4>2. HasRetry(w)
        BY <1>1, <2>1, <2>8, <4>1, AttemptRetried DEF GivenUp
      <4>3. PICK m \in Message : m.mail = s /\ Publish(m)
        BY <2>1, <2>8, <4>1, <4>2, AttemptRetried
      <4>4. Queued(s)'
        BY <4>3, QueueGrows
      <4> QED
        BY <2>6, <4>1, <4>4 DEF Safe
    <3>4. CASE JobBooks(w) \/ DeleteEntry(w)
      <4>1. delivered[s] > 0
        BY <2>8, <3>4 DEF JobBooks, DeleteEntry, Progress
      <4> QED
        BY <2>5, <4>1
    <3>5. CASE Crash(w)
      <4>1. Publish(run[w].msg) /\ entry' = entry
        BY <3>5 DEF Crash
      <4>2. Queued(s)'
        BY <2>1, <2>8, <4>1, QueueGrows
      <4> QED
        BY <2>6, <4>1, <4>2 DEF Safe
    <3>6. CASE Ack(w)
      <4>1. run[w].step = "ack" /\ UNCHANGED <<queue, entry>>
        BY <3>6 DEF Ack
      <4>2. Executing(s) => Executing(s)'
        BY <2>2, <4>1 DEF Executing
      <4> QED
        BY <2>6, <4>1, <4>2 DEF Safe, Queued
    <3>7. ~BodyLost(w)
      BY <1>1, <2>8 DEF BodyLost, GivenUp
    <3> QED
      BY <1>14, <3>1, <3>2, <3>3, <3>4, <3>5, <3>6, <3>7 DEF Worked
  <2> QED
    BY <2>7, <2>8
<1> QED
  BY <1>4, <1>5, <1>6, <1>7, <1>8, <1>9, <1>10, <1>11, <1>13, <1>14, <1>12
  DEF Next, WebStep, WorkerStep, Worked

LEMMA DraftKeptKept == ASSUME IndInv, Next PROVE DraftKept'
<1> USE DEF IndInv
<1> SUFFICES ASSUME NEW s \in Mails
             PROVE  s \in draft' \/ delivered'[s] > 0 \/ reply'[s] = "cancelled"
  BY DEF DraftKept
<1>1. s \in draft \/ delivered[s] > 0 \/ reply[s] = "cancelled"
  BY DEF DraftKept
<1>2. ASSUME UNCHANGED <<draft, delivered, reply>>
      PROVE  s \in draft' \/ delivered'[s] > 0 \/ reply'[s] = "cancelled"
  BY <1>1, <1>2
<1>3. ASSUME NEW t \in Mails, Compose(t) \/ Refuse(t) \/ StoreEntry(t) \/ Schedule(t)
                              \/ EnqueueUndo(t) \/ EnqueueRaises(t) \/ TimePasses(t) \/ EntryExpires(t)
                              \/ Resumed(t) \/ UndoDeletes(t)
      PROVE  s \in draft' \/ delivered'[s] > 0 \/ reply'[s] = "cancelled"
  BY <1>2, <1>3 DEF Compose, Refuse, StoreEntry, Schedule, EnqueueUndo, EnqueueRaises, TimePasses,
                    EntryExpires, Resumed, UndoDeletes, undoVars
<1>4. ASSUME NEW t \in Mails, ExecuteSend(t) \/ ExecuteSendFails(t)
      PROVE  s \in draft' \/ delivered'[s] > 0 \/ reply'[s] = "cancelled"
  BY <1>1, <1>2, <1>4, DeliveredGrows DEF ExecuteSend, ExecuteSendFails, undoVars
<1>5. ASSUME NEW t \in Mails, SentBooks(t)
      PROVE  s \in draft' \/ delivered'[s] > 0 \/ reply'[s] = "cancelled"
  BY <1>1, <1>5 DEF SentBooks, undoVars, Progress
<1>6. ASSUME NEW t \in Mails, UndoGet(t) \/ UndoExpired(t) \/ UndoCleanup(t)
      PROVE  s \in draft' \/ delivered'[s] > 0 \/ reply'[s] = "cancelled"
  <2>1. CASE s # t
    BY <1>1, <1>6, <2>1, Shapes DEF UndoGet, UndoExpired, UndoCleanup
  <2>2. CASE s = t
    <3>1. reply[s] = "none"
      BY <1>6, <2>2 DEF UndoGet, UndoExpired, UndoCleanup, Progress
    <3> QED
      BY <1>1, <1>6, <2>2, <3>1, Shapes DEF UndoGet, UndoExpired, UndoCleanup
  <2> QED
    BY <2>1, <2>2
<1>7. ASSUME NEW w \in Workers, NEW m \in Message, Take(w, m)
      PROVE  s \in draft' \/ delivered'[s] > 0 \/ reply'[s] = "cancelled"
  BY <1>2, <1>7 DEF Take, undoVars
<1>8. ASSUME NEW w \in Workers, Worked(w)
      PROVE  s \in draft' \/ delivered'[s] > 0 \/ reply'[s] = "cancelled"
  <2>1. reply' = reply
    BY <1>8, WorkedFrame
  <2>2. CASE JobBooks(w)
    BY <1>1, <2>1, <2>2 DEF JobBooks, Progress
  <2>3. CASE draft' = draft
    <3>1. delivered[s] > 0 => delivered'[s] > 0
      BY <1>8, WorkedFrame, WorkedOn, MailOfRun, DeliveredGrows
    <3> QED
      BY <1>1, <2>1, <2>3, <3>1
  <2> QED
    BY <1>8, <2>2, <2>3 DEF Worked, GetEntry, Deliver, DeliverScheduled, DeliverFails, CacheFails,
       DeleteEntry, Ack, Crash, BodyLost
<1>9. ASSUME NEW m \in Message, Redelivered(m)
      PROVE  s \in draft' \/ delivered'[s] > 0 \/ reply'[s] = "cancelled"
  BY <1>2, <1>9 DEF Redelivered, undoVars
<1> QED
  BY <1>3, <1>4, <1>5, <1>6, <1>7, <1>8, <1>9 DEF Next, WebStep, WorkerStep, Worked

-----------------------------------------------------------------------------
LEMMA Kept == IndInv /\ [Next]_vars => IndInv'
<1>1. ASSUME IndInv, Next PROVE IndInv'
  BY <1>1, TypeKept, ProgressKept, UnpublishedKept, CountedKept, InWindowKept, StoppedKept,
     NotLostKept, DraftKeptKept DEF IndInv
<1>2. ASSUME IndInv, UNCHANGED vars PROVE IndInv'
  <2> USE <1>2 DEF vars, IndInv, Queued, Executing, Holding
  <2>1. TypeOK' /\ Progress'
    BY DEF TypeOK, Progress
  <2>2. Unpublished' /\ Counted'
    BY DEF Unpublished, Counted, Waiting, Trying
  <2>3. InWindow' /\ Stopped'
    BY DEF InWindow, Stopped
  <2>4. NotLost' /\ DraftKept'
    BY DEF NotLost, DraftKept, Accepted, GivenUp
  <2> QED
    BY <2>1, <2>2, <2>3, <2>4
<1> QED
  BY <1>1, <1>2

LEMMA Invariance == Spec => []IndInv
  BY Starts, Kept, PTL DEF Spec

(* The types; in particular no mail is repeated more often than the budget *)
(* of faults allows, and nothing is undone or given up that was not held.  *)
THEOREM SendTypes == Spec => []TypeOK
<1>1. IndInv => TypeOK
  BY DEF IndInv
<1> QED
  BY <1>1, Invariance, PTL

(* The mail leaves at most once, and once more at most for every worker    *)
(* that died after the delivery and before the end of the job, for every   *)
(* attempt that raised after the delivery and is retried, for every        *)
(* message past the visibility timeout and for every sweep that resumed    *)
(* the job: every copy of the message and every worker that holds one is   *)
(* worth at most one delivery.                                             *)
THEOREM SentAtMostOnce == Spec => []AtMostOnce
<1>1. IndInv => AtMostOnce
  <2> SUFFICES ASSUME IndInv, NEW s \in Mails PROVE delivered[s] <= 1 + repeats[s]
    BY DEF AtMostOnce
  <2>1. Cardinality(Waiting(s)) + Cardinality(Trying(s)) + delivered[s] <= 1 + repeats[s]
    BY DEF IndInv, Counted
  <2> QED
    BY <2>1, Numbers DEF IndInv
<1> QED
  BY <1>1, Invariance, PTL

(* An undo that deleted the entry inside the window prevents the delivery, *)
(* unless a sweep resumed the job.                                         *)
THEOREM UndoInTimeHolds == Spec => []UndoneInTimeUnsent
<1>1. IndInv => UndoneInTimeUnsent
  BY DEF IndInv, Stopped, UndoneInTimeUnsent
<1> QED
  BY <1>1, Invariance, PTL

(* An accepted mail that is neither delivered nor given up has a job, and  *)
(* a held one the entry that the job needs.                                *)
THEOREM AcceptedIsNotLost == Spec => []NotLost
<1>1. IndInv => NotLost
  BY DEF IndInv
<1> QED
  BY <1>1, Invariance, PTL

(* The draft of a mail that was neither delivered nor undone is kept.      *)
THEOREM DraftIsKept == Spec => []DraftKept
<1>1. IndInv => DraftKept
  BY DEF IndInv
<1> QED
  BY <1>1, Invariance, PTL
=============================================================================
