--------------------------- MODULE ServicesProofs ---------------------------
(***************************************************************************)
(* Proofs about the services that keep a few keys in the cache: the guard  *)
(* of the scheduler, the limiter of failed logins, the audit log and the   *)
(* sessions of a user; about the processing of invitations that come by    *)
(* mail; and about the synchronisation of a subscribed calendar or address *)
(* book: for any number of instances, requests, callers, sessions,         *)
(* messages, processes, entries and edits.                                 *)
(***************************************************************************)
EXTENDS Sessions, LoginLimiter, AuditLog, BeatLock, Imip, FeedSync, FiniteSetTheorems, TLAPS

-----------------------------------------------------------------------------
(* The guard of the scheduler *)

BtTypeOK ==
    /\ btLock \in Nat
    /\ btActive \subseteq BtBeats
    /\ btWait \in [BtBeats -> Nat]
    /\ btStalled \in BOOLEAN

(* The lock outlives the wait for the next renewal of the one instance that *)
(* schedules; it can be free only when none does.                          *)
LockCoversWait ==
    btStalled \/ \A b \in btActive : btWait[b] < btLock /\ \A c \in btActive : b = c

BtInv == BtTypeOK /\ LockCoversWait

(* The renewal comes before the end of the time to live. *)
LEMMA PauseIsShorter == BtTtl \in Nat /\ Pause \in Nat /\ Pause < BtTtl
<1>1. BtTtl \in Nat /\ BtTtl >= 2
  BY BtAssumption
<1>2. QED
  BY <1>1 DEF Pause

LEMMA BeatStep == BtInv /\ [BtNext]_btVars => BtInv'
<1> SUFFICES ASSUME BtInv, [BtNext]_btVars PROVE BtInv'
  OBVIOUS
<1> USE PauseIsShorter DEF BtInv, BtTypeOK, LockCoversWait
<1>1. ASSUME NEW b \in BtBeats, BeatStarts(b) PROVE BtInv'
  BY <1>1 DEF BeatStarts
<1>2. ASSUME NEW b \in BtBeats, BeatRenews(b) PROVE BtInv'
  BY <1>2 DEF BeatRenews
<1>3. ASSUME NEW b \in BtBeats, BeatStops(b) PROVE BtInv'
  BY <1>3 DEF BeatStops
<1>4. ASSUME NEW b \in BtBeats, BeatDies(b) PROVE BtInv'
  BY <1>4 DEF BeatDies
<1>5. CASE BtTick
  <2>1. BtTypeOK'
    BY <1>5 DEF BtTick
  <2>2. LockCoversWait'
    <3> SUFFICES ASSUME ~btStalled',
                        NEW b \in btActive PROVE btWait'[b] < btLock' /\ \A c \in btActive : b = c
      BY <1>5 DEF BtTick
    <3>1. ~btStalled /\ ~(btLock = 1 /\ \E c \in btActive : btWait[c] = 0)
      BY <1>5 DEF BtTick
    <3>2. btWait[b] < btLock /\ btLock \in Nat /\ btWait[b] \in Nat /\ \A c \in btActive : b = c
      BY <3>1
    <3>3. /\ btLock' = btLock - 1
          /\ btWait'[b] = IF btWait[b] > 0 THEN btWait[b] - 1 ELSE 0
      BY <1>5 DEF BtTick
    <3>4. btWait[b] = 0 => btLock # 1
      BY <3>1
    <3>5. QED
      BY <3>2, <3>3, <3>4
  <2>3. QED
    BY <2>1, <2>2
<1>6. CASE UNCHANGED btVars
  BY <1>6 DEF btVars
<1>7. QED
  BY <1>1, <1>2, <1>3, <1>4, <1>5, <1>6 DEF BtNext

(* At most one instance schedules, whichever start, stop and die and in    *)
(* whatever order, as long as no renewal is later than the lock.           *)
THEOREM OneBeatAlways == BtSpec => []OneBeat
<1>1. BtInit => BtInv
  <2> SUFFICES ASSUME BtInit PROVE BtTypeOK /\ LockCoversWait
    BY DEF BtInv
  <2>1. BtTypeOK
    BY DEF BtInit, BtTypeOK
  <2>2. LockCoversWait
    BY DEF BtInit, LockCoversWait
  <2>3. QED
    BY <2>1, <2>2
<1>2. BtInv => OneBeat
  <2> SUFFICES ASSUME BtInv, ~btStalled PROVE Cardinality(btActive) <= 1
    BY DEF OneBeat
  <2>1. CASE btActive = {}
    BY <2>1, FS_EmptySet
  <2>2. CASE btActive # {}
    <3>1. PICK b \in btActive : TRUE
      BY <2>2
    <3>2. btActive = {b}
      BY <3>1 DEF BtInv, LockCoversWait
    <3>3. Cardinality(btActive) = 1
      BY <3>2, FS_Singleton
    <3>4. QED
      BY <3>3
  <2>3. QED
    BY <2>1, <2>2
<1>3. QED
  BY <1>1, BeatStep, <1>2, PTL DEF BtSpec

-----------------------------------------------------------------------------
(* The limiter of failed logins *)

Check ==
    [pc: {"idle", "checking", "reset"}] \cup [pc: {"counted", "set"}, count: Nat, met: BOOLEAN]
Counting(c) == llCheck[c].pc \in {"counted", "set"}

LlTypeOK ==
    /\ llCount \in Nat /\ llReal \in Nat
    /\ llCheck \in [LlChecks -> Check]

(* As long as no counting was cut short, the counter holds no more than    *)
(* the failures of the span, and neither does what a check took from it.   *)
CountIsReal ==
    llCut \/ /\ llCount <= llReal
             /\ \A c \in LlChecks : Counting(c) /\ ~llCheck[c].met => llCheck[c].count <= llReal

(* A counter without a time to live is about to be given one. *)
ExpiryFollows ==
    llCut \/ llCount = 0 \/ llExpires
    \/ \E c \in LlChecks : llCheck[c].pc = "counted" /\ llCheck[c].count = 1

LlInv == LlTypeOK /\ CountIsReal /\ ExpiryFollows /\ BlockedForCause

(* A check that counts has a count; no other has one. *)
LEMMA CountTyped ==
  ASSUME LlTypeOK, NEW c \in LlChecks, Counting(c)
  PROVE  /\ llCheck[c].count \in Nat /\ llCheck[c].met \in BOOLEAN
         /\ [llCheck[c] EXCEPT !.pc = "set"] \in Check
         /\ [llCheck[c] EXCEPT !.pc = "set"].pc = "set"
         /\ [llCheck[c] EXCEPT !.pc = "set"].count = llCheck[c].count
         /\ [llCheck[c] EXCEPT !.pc = "set"].met = llCheck[c].met
         /\ [llCheck[c] EXCEPT !.met = TRUE] \in Check
         /\ [llCheck[c] EXCEPT !.met = TRUE].pc = llCheck[c].pc
         /\ [llCheck[c] EXCEPT !.met = TRUE].count = llCheck[c].count
         /\ [llCheck[c] EXCEPT !.met = TRUE].met
<1>1. llCheck[c] \in [pc: {"counted", "set"}, count: Nat, met: BOOLEAN]
  BY DEF LlTypeOK, Check, Counting
<1>2. QED
  BY <1>1 DEF Check

(* The types of the limiter. *)
LEMMA LimiterTypes == LlInv /\ [LlNext]_llVars => LlTypeOK'
<1> SUFFICES ASSUME LlInv, [LlNext]_llVars PROVE LlTypeOK'
  OBVIOUS
<1> USE DEF LlInv, LlTypeOK
<1>1. ASSUME NEW c \in LlChecks, NEW rec \in Check, LlGoes(c, rec), llCount' \in Nat, llReal' \in Nat
      PROVE  LlTypeOK'
  BY <1>1 DEF LlGoes
<1>2. NoCheck \in Check /\ [pc |-> "checking"] \in Check
      /\ \A n \in Nat : [pc |-> "counted", count |-> n, met |-> FALSE] \in Check
  BY DEF NoCheck, Check
<1>3. ASSUME NEW c \in LlChecks, CheckBegins(c) PROVE LlTypeOK'
  BY <1>1, <1>2, <1>3 DEF CheckBegins
<1>4. ASSUME NEW c \in LlChecks, CountFailure(c) PROVE LlTypeOK'
  BY <1>1, <1>2, <1>4 DEF CountFailure
<1>5. ASSUME NEW c \in LlChecks, SetExpiry(c) PROVE LlTypeOK'
  BY <1>1, <1>5, CountTyped DEF SetExpiry, Counting
<1>6. ASSUME NEW c \in LlChecks, Block(c) \/ ResetBlock(c) \/ CheckDies(c) PROVE LlTypeOK'
  BY <1>1, <1>2, <1>6 DEF Block, ResetBlock, CheckDies
<1>7. ASSUME NEW c \in LlChecks, ResetCounter(c) PROVE LlTypeOK'
  <2>1. [pc |-> "reset"] \in Check
    BY DEF Check
  <2>2. QED
    BY <1>7, <2>1, CountTyped DEF ResetCounter, Counting
<1>8. CASE SpanElapses
  BY <1>8, CountTyped DEF SpanElapses, Counting
<1>9. CASE BlockExpires \/ UNCHANGED llVars
  BY <1>9 DEF BlockExpires, llVars
<1>10. QED
  BY <1>3, <1>4, <1>5, <1>6, <1>7, <1>8, <1>9 DEF LlNext

(* A success and the end of the span mark the checks that are counting, so *)
(* that what they hold is no longer compared with the failures since.      *)
LEMMA CountStep == LlInv /\ [LlNext]_llVars => CountIsReal'
<1> DEFINE Real(c) == Counting(c) /\ ~llCheck[c].met => llCheck[c].count <= llReal
<1> SUFFICES ASSUME LlInv, [LlNext]_llVars, ~llCut'
             PROVE  llCount' <= llReal' /\ \A c \in LlChecks : Real(c)'
  BY DEF CountIsReal
<1> USE DEF LlInv, LlTypeOK, Counting
<1> DEFINE Goal == llCount' <= llReal' /\ \A c \in LlChecks : Real(c)'
<1>1. ~llCut => llCount <= llReal /\ \A c \in LlChecks : Real(c)
  BY DEF CountIsReal
<1>2. ASSUME NEW c \in LlChecks, NEW r \in {"idle", "checking"}, LlGoes(c, [pc |-> r]), ~llCut,
             UNCHANGED <<llCount, llReal>>
      PROVE  Goal
  BY <1>1, <1>2 DEF LlGoes
<1>3. ASSUME NEW c \in LlChecks,
             CheckBegins(c) \/ Block(c) \/ ResetBlock(c) \/ CheckDies(c)
      PROVE  Goal
  <2>1. ~llCut
    BY <1>3 DEF CheckBegins, Block, ResetBlock, CheckDies
  <2>2. QED
    BY <1>2, <1>3, <2>1 DEF CheckBegins, Block, ResetBlock, CheckDies, NoCheck
<1>4. ASSUME NEW c \in LlChecks, CountFailure(c) PROVE Goal
  <2>1. ~llCut /\ llCount' = llCount + 1 /\ llReal' = llReal + 1
    BY <1>4 DEF CountFailure
  <2>2. llCheck'[c] = [pc |-> "counted", count |-> llCount + 1, met |-> FALSE]
        /\ \A d \in LlChecks \ {c} : llCheck'[d] = llCheck[d]
    BY <1>4 DEF CountFailure, LlGoes
  <2>3. Real(c)'
    BY <1>1, <2>1, <2>2
  <2>4. ASSUME NEW d \in LlChecks \ {c} PROVE Real(d)'
    <3>1. Counting(d) => llCheck[d].count \in Nat
      BY CountTyped
    <3>2. QED
      BY <1>1, <2>1, <2>2, <3>1
  <2>5. QED
    BY <1>1, <2>1, <2>3, <2>4
<1>5. ASSUME NEW c \in LlChecks, SetExpiry(c) PROVE Goal
  <2>1. ~llCut /\ llCount' = llCount /\ llReal' = llReal
    BY <1>5 DEF SetExpiry
  <2>2. llCheck'[c].count = llCheck[c].count /\ llCheck'[c].met = llCheck[c].met
    BY <1>5, CountTyped DEF SetExpiry, LlGoes
  <2>3. \A d \in LlChecks \ {c} : llCheck'[d] = llCheck[d]
    BY <1>5 DEF SetExpiry, LlGoes
  <2>4. Real(c)'
    BY <1>1, <1>5, <2>1, <2>2 DEF SetExpiry
  <2>5. QED
    BY <1>1, <2>1, <2>3, <2>4
<1>6. ASSUME NEW c \in LlChecks, ResetCounter(c) PROVE Goal
  <2>1. \A d \in LlChecks : Counting(d)' => llCheck'[d].met
    BY <1>6, CountTyped DEF ResetCounter
  <2>2. QED
    BY <1>6, <2>1 DEF ResetCounter
<1>7. CASE SpanElapses
  <2>1. \A d \in LlChecks : Counting(d)' => llCheck'[d].met
    BY <1>7, CountTyped DEF SpanElapses
  <2>2. ~llCut /\ ~\E c \in LlChecks : llCheck[c].pc = "counted" /\ llCheck[c].count = 1
    BY <1>7 DEF SpanElapses
  <2>3. llCount' = 0
    BY <1>7, <2>2 DEF SpanElapses, ExpiryFollows
  <2>4. QED
    BY <1>7, <2>1, <2>3 DEF SpanElapses
<1>8. CASE BlockExpires \/ UNCHANGED llVars
  BY <1>1, <1>8 DEF BlockExpires, llVars
<1>9. QED
  BY <1>3, <1>4, <1>5, <1>6, <1>7, <1>8 DEF LlNext

(* The first to count is the one that sets the time to live, and is cut    *)
(* short only by dying.                                                    *)
LEMMA ExpiryStep == LlInv /\ [LlNext]_llVars => ExpiryFollows'
<1> DEFINE First(c) == llCheck[c].pc = "counted" /\ llCheck[c].count = 1
<1> SUFFICES ASSUME LlInv, [LlNext]_llVars, ~llCut', llCount' # 0, ~llExpires'
             PROVE  \E c \in LlChecks : First(c)'
  BY DEF ExpiryFollows
<1> USE DEF LlInv, LlTypeOK
<1> DEFINE Goal == \E c \in LlChecks : First(c)'
<1>1. ~llCut /\ llCount # 0 /\ ~llExpires => \E c \in LlChecks : First(c)
  BY DEF ExpiryFollows
<1>2. ASSUME NEW c \in LlChecks, NEW rec, LlGoes(c, rec), ~First(c), ~llCut,
             UNCHANGED <<llCount, llExpires>>
      PROVE  Goal
  BY <1>1, <1>2 DEF LlGoes
<1>3. ASSUME NEW c \in LlChecks, CheckBegins(c) \/ Block(c) \/ ResetBlock(c) \/ CheckDies(c)
      PROVE  Goal
  <2>1. ~First(c) /\ ~llCut
    <3>1. CASE CheckBegins(c) \/ Block(c) \/ ResetBlock(c)
      BY <3>1 DEF CheckBegins, Block, ResetBlock, NoCheck
    <3>2. CASE CheckDies(c)
      BY <3>2 DEF CheckDies
    <3>3. QED
      BY <1>3, <3>1, <3>2
  <2>2. QED
    BY <1>2, <1>3, <2>1 DEF CheckBegins, Block, ResetBlock, CheckDies
<1>4. ASSUME NEW c \in LlChecks, CountFailure(c) PROVE Goal
  <2>1. llCheck'[c] = [pc |-> "counted", count |-> llCount + 1, met |-> FALSE]
        /\ \A d \in LlChecks \ {c} : llCheck'[d] = llCheck[d]
    BY <1>4 DEF CountFailure, LlGoes
  <2>2. CASE llCount = 0
    BY <2>1, <2>2
  <2>3. CASE llCount # 0
    <3>1. PICK d \in LlChecks : First(d)
      BY <1>1, <1>4, <2>3 DEF CountFailure
    <3>2. d # c
      BY <1>4, <3>1 DEF CountFailure
    <3>3. QED
      BY <2>1, <3>1, <3>2
  <2>4. QED
    BY <2>2, <2>3
<1>5. ASSUME NEW c \in LlChecks, SetExpiry(c) PROVE Goal
  <2>1. ~llCut /\ llCount > 0
    BY <1>5 DEF SetExpiry
  <2>2. ~llExpires /\ ~(llCheck[c].count = 1 /\ llCount > 0)
    BY <1>5 DEF SetExpiry
  <2>3. PICK d \in LlChecks : First(d)
    BY <1>1, <2>1, <2>2
  <2>4. llCheck'[d] = llCheck[d]
    BY <1>5, <2>1, <2>2, <2>3 DEF SetExpiry, LlGoes
  <2>5. QED
    BY <2>3, <2>4
<1>6. ASSUME NEW c \in LlChecks, ResetCounter(c) PROVE Goal
  BY <1>6 DEF ResetCounter
<1>7. CASE SpanElapses
  <2>1. ~llCut /\ llCount # 0 /\ ~llExpires /\ ~\E c \in LlChecks : First(c)
    BY <1>7 DEF SpanElapses
  <2>2. QED
    BY <1>1, <2>1
<1>8. CASE BlockExpires \/ UNCHANGED llVars
  BY <1>1, <1>8 DEF BlockExpires, llVars
<1>9. QED
  BY <1>3, <1>4, <1>5, <1>6, <1>7, <1>8 DEF LlNext

(* A block that nothing excuses has its max_attempt failures. *)
LEMMA BlockStep == LlInv /\ [LlNext]_llVars => BlockedForCause'
<1> SUFFICES ASSUME LlInv, [LlNext]_llVars PROVE BlockedForCause'
  OBVIOUS
<1> USE DEF LlInv, BlockedForCause
<1>1. ASSUME NEW c \in LlChecks, Block(c) PROVE BlockedForCause'
  <2>1. Counting(c)
    BY <1>1 DEF Block, Counting
  <2>2. /\ llCheck[c].count \in Nat /\ llReal \in Nat /\ LlMaxAttempt \in Nat
    BY <2>1, CountTyped, LlAssumption DEF LlTypeOK
  <2>3. ~llCut /\ ~llCheck[c].met => llCheck[c].count <= llReal
    BY <2>1 DEF CountIsReal
  <2>4. QED
    BY <1>1, <2>2, <2>3 DEF Block
<1>2. QED
  BY <1>1 DEF LlNext, CheckBegins, CountFailure, SetExpiry, ResetCounter, ResetBlock, CheckDies,
              SpanElapses, BlockExpires, llVars

(* However many checks run at once, and wherever they die, a user is       *)
(* blocked only for max_attempt failures in the span since the last        *)
(* success, unless a success or the end of the span came between a failure *)
(* and its block, or a counter was left without a time to live.            *)
THEOREM BlocksAreForCause == LlSpec => []BlockedForCause
<1>1. LlInit => LlInv
  BY DEF LlInit, LlInv, LlTypeOK, CountIsReal, ExpiryFollows, BlockedForCause, NoCheck, Check,
         Counting
<1>2. LlInv /\ [LlNext]_llVars => LlInv'
  BY LimiterTypes, CountStep, ExpiryStep, BlockStep DEF LlInv
<1>3. LlInv => BlockedForCause
  BY DEF LlInv
<1>4. QED
  BY <1>1, <1>2, <1>3, PTL DEF LlSpec

-----------------------------------------------------------------------------
(* The sessions of a user *)

Request ==
    {NoRequest} \cup
    [pc: {"read", "missing", "touched", "served"}, s: SeSessions, revoked: BOOLEAN]

(* What a revocation of given sessions carries, one by activity, one that  *)
(* still has to match the uid, and a listing.                              *)
Aimed == [pc: {"delete"}, keys: SUBSET SeSessions, drop: SUBSET SeSessions, aim: SUBSET SeSessions]
ByTime == [pc: {"delete"}, keys: SUBSET SeSessions, drop: SUBSET SeSessions]
Matching == [pc: {"match"}, keys: SUBSET SeSessions, aim: SUBSET SeSessions]
Listing == [pc: {"clean"}, keys: SUBSET SeSessions]
Admin == {NoRequest} \cup Aimed \cup ByTime \cup Matching \cup Listing

SeTypeOK ==
    /\ seHash \in [SeSessions -> {"none", "full", "part"}]
    /\ seIndex \subseteq SeSessions
    /\ seVoucher \in [SeSessions -> {"none", "stored", "issued"}]
    /\ seReq \in [SeRequests -> Request]
    /\ seAdmin \in [SeAdmins -> Admin]
    /\ seRevoked \subseteq SeSessions

(* A session whose voucher was issued and whose hash is gone: nothing      *)
(* makes a whole hash of it again, only a hash that holds a last_seen.     *)
Gone(s) == seVoucher[s] = "issued" /\ seHash[s] # "full"

(* The index of activity holds every live session that no revocation by    *)
(* activity has hidden, and only sessions that were issued.                *)
IndexedLive ==
    /\ Live \subseteq seIndex \cup seHidden
    /\ \A s \in seIndex : seVoucher[s] = "issued"

(* What requests and administrators have read is not older than this: a    *)
(* hash that was missing stays missing, a key still to be deleted may be    *)
(* live, and all that a revocation is aimed at besides is gone.            *)
RequestsKnow ==
    \A r \in SeRequests :
        /\ seReq[r] # NoRequest => seVoucher[seReq[r].s] = "issued"
        /\ seReq[r].pc = "missing" => Gone(seReq[r].s)
AdminsKnow ==
    \A a \in SeAdmins :
        /\ seAdmin[a] \in Aimed => \A s \in seAdmin[a].aim \ seAdmin[a].keys : Gone(s)
        /\ seAdmin[a] \in Matching => \A s \in seAdmin[a].aim \ seAdmin[a].keys : Gone(s)
        /\ seAdmin[a] \in Aimed \cup ByTime => \A s \in seAdmin[a].drop : Gone(s)
        /\ seAdmin[a] \in Aimed \cup ByTime \cup Matching =>
              \A s \in seAdmin[a].keys : seVoucher[s] = "issued"
        /\ seAdmin[a] \in Listing => \A s \in seAdmin[a].keys : Gone(s)

SeInv ==
    /\ SeTypeOK /\ IndexedLive /\ RequestsKnow /\ AdminsKnow
    /\ \A s \in seRevoked : Gone(s)
    /\ RevokedNeverServed

(* The kinds of record of an administrator differ in what they hold. *)
LEMMA AdminKinds ==
  ASSUME NEW x \in Admin
  PROVE  /\ x.pc = "match" => x \in Matching
         /\ x.pc = "clean" => x \in Listing
         /\ x.pc = "delete" => x \in Aimed \cup ByTime
         /\ x \in Aimed => x.pc = "delete" /\ "aim" \in DOMAIN x
         /\ x \in ByTime => x.pc = "delete" /\ "aim" \notin DOMAIN x
         /\ x \in Matching => x.pc = "match"
         /\ x \in Listing => x.pc = "clean"
  BY DEF Admin, Aimed, ByTime, Matching, Listing, NoRequest

(* What is issued stays so, and what is gone stays gone. *)
LEMMA GoneStays ==
  ASSUME SeTypeOK, RequestsKnow, [SeNext]_seVars, NEW s \in SeSessions
  PROVE  /\ seVoucher[s] = "issued" => seVoucher'[s] = "issued"
         /\ Gone(s) => Gone(s)'
<1> USE DEF SeTypeOK, Gone
<1>1. ASSUME NEW r \in SeRequests, TouchSession(r)
      PROVE  (seVoucher[s] = "issued" => seVoucher'[s] = "issued") /\ (Gone(s) => Gone(s)')
  BY <1>1 DEF TouchSession, Touched
<1>2. QED
  BY <1>1
  DEF SeNext, StoreSession, IssueVoucher, SessionExpires, ReadSession, CleanIndex, IndexSession,
      RequestEnds, RevokeByKey, RevokeByUid, MatchUid, DeleteHash, DropIndex, RevocationEnds,
      RevokeByActivity, DropUpTo, ListSessions, CleanOrphans, AdminDies, seVars

(* What requests and administrators do keeps their records typed. *)
LEMMA SessionTypes == SeInv /\ [SeNext]_seVars => SeTypeOK'
<1> SUFFICES ASSUME SeInv, [SeNext]_seVars PROVE SeTypeOK'
  OBVIOUS
<1> USE DEF SeInv, SeTypeOK
<1>1. ASSUME NEW s \in SeSessions, StoreSession(s) \/ IssueVoucher(s) \/ SessionExpires(s)
      PROVE  SeTypeOK'
  BY <1>1 DEF StoreSession, IssueVoucher, SessionExpires
<1>2. ASSUME NEW r \in SeRequests, NEW rec \in Request, SeGoes(r, rec),
             seHash' \in [SeSessions -> {"none", "full", "part"}], seIndex' \subseteq SeSessions,
             UNCHANGED <<seVoucher, seAdmin, seRevoked>>
      PROVE  SeTypeOK'
  BY <1>2 DEF SeGoes
<1>3. \A r \in SeRequests : seReq[r].pc \in {"read", "missing", "touched", "served"} =>
        seReq[r] \in [pc: {"read", "missing", "touched", "served"}, s: SeSessions, revoked: BOOLEAN]
  BY DEF Request, NoRequest
<1>4. ASSUME NEW r \in SeRequests, NEW s \in SeSessions, ReadSession(r, s) PROVE SeTypeOK'
  <2>1. [pc |-> IF seHash[s] = "full" THEN "read" ELSE "missing",
         s |-> s, revoked |-> s \in seRevoked] \in Request
    BY DEF Request
  <2>2. QED
    BY <1>2, <1>4, <2>1 DEF ReadSession
<1>5. ASSUME NEW r \in SeRequests, CleanIndex(r) \/ RequestEnds(r) PROVE SeTypeOK'
  <2>1. NoRequest \in Request
    BY DEF Request
  <2>2. QED
    BY <1>2, <1>5, <2>1 DEF CleanIndex, RequestEnds
<1>6. ASSUME NEW r \in SeRequests, TouchSession(r) PROVE SeTypeOK'
  <2>1. [seReq[r] EXCEPT !.pc = "touched"] \in Request
    BY <1>3, <1>6 DEF TouchSession, Request
  <2>2. seHash' \in [SeSessions -> {"none", "full", "part"}]
    BY <1>6 DEF TouchSession, Touched
  <2>3. QED
    BY <1>2, <1>6, <2>1, <2>2 DEF TouchSession
<1>7. ASSUME NEW r \in SeRequests, IndexSession(r) PROVE SeTypeOK'
  <2>1. [seReq[r] EXCEPT !.pc = "served"] \in Request /\ seReq[r].s \in SeSessions
    BY <1>3, <1>7 DEF IndexSession, Request
  <2>2. QED
    BY <1>2, <1>7, <2>1 DEF IndexSession
<1>8. ASSUME NEW a \in SeAdmins, NEW rec \in Admin, Steps(a, rec),
             seHash' \in [SeSessions -> {"none", "full", "part"}], seIndex' \subseteq SeSessions,
             seRevoked' \subseteq SeSessions, UNCHANGED <<seVoucher, seReq>>
      PROVE  SeTypeOK'
  BY <1>8 DEF Steps
<1>9. NoRequest \in Admin
  BY DEF Admin
<1>10. ASSUME NEW a \in SeAdmins, NEW s \in SeSessions, RevokeByKey(a, s) PROVE SeTypeOK'
  <2>1. [pc |-> "delete", keys |-> {s}, drop |-> {}, aim |-> {s}] \in Admin
    BY DEF Admin, Aimed
  <2>2. QED
    BY <1>8, <1>10, <2>1 DEF RevokeByKey
<1>11. ASSUME NEW a \in SeAdmins, RevokeByUid(a) PROVE SeTypeOK'
  <2>1. [pc |-> "match", keys |-> seIndex, aim |-> Live \ seHidden] \in Admin
    BY DEF Admin, Matching, Live
  <2>2. QED
    BY <1>8, <1>11, <2>1 DEF RevokeByUid
<1>12. ASSUME NEW a \in SeAdmins, MatchUid(a) PROVE SeTypeOK'
  <2>1. seAdmin[a] \in Matching
    BY <1>12, AdminKinds DEF MatchUid
  <2>2. [pc |-> "delete", keys |-> {s \in seAdmin[a].keys : seHash[s] = "full"}, drop |-> {},
         aim |-> seAdmin[a].aim] \in Aimed
    BY <2>1 DEF Matching, Aimed
  <2>3. QED
    BY <1>8, <1>12, <2>2 DEF MatchUid, Admin
<1>13. ASSUME NEW a \in SeAdmins, NEW s \in SeSessions, DeleteHash(a, s) PROVE SeTypeOK'
  <2>1. seAdmin[a] \in Aimed \cup ByTime
    BY <1>13, AdminKinds DEF DeleteHash
  <2>2. [seAdmin[a] EXCEPT !.keys = @ \ {s}, !.drop = {s}] \in Aimed \cup ByTime
    BY <2>1 DEF Aimed, ByTime
  <2>3. QED
    BY <1>8, <1>13, <2>2 DEF DeleteHash, Admin
<1>14. ASSUME NEW a \in SeAdmins, DropIndex(a) PROVE SeTypeOK'
  <2>1. seAdmin[a] \in Aimed \cup ByTime
    BY <1>14, AdminKinds DEF DropIndex
  <2>2. [seAdmin[a] EXCEPT !.drop = {}] \in Aimed \cup ByTime
    BY <2>1 DEF Aimed, ByTime
  <2>3. QED
    BY <1>8, <1>14, <2>2 DEF DropIndex, Admin
<1>15. ASSUME NEW a \in SeAdmins, RevocationEnds(a) PROVE SeTypeOK'
  <2>1. seAdmin[a] \in Aimed
    BY <1>15, AdminKinds DEF RevocationEnds
  <2>2. seAdmin[a].aim \subseteq SeSessions
    BY <2>1 DEF Aimed
  <2>3. QED
    BY <1>8, <1>9, <1>15, <2>2 DEF RevocationEnds
<1>16. ASSUME NEW a \in SeAdmins, NEW S \in SUBSET SeSessions, RevokeByActivity(a, S)
       PROVE  SeTypeOK'
  <2>1. [pc |-> "delete", keys |-> S, drop |-> {}] \in Admin
    BY DEF Admin, ByTime
  <2>2. QED
    BY <1>8, <1>16, <2>1 DEF RevokeByActivity
<1>17. ASSUME NEW a \in SeAdmins, ListSessions(a) PROVE SeTypeOK'
  <2>1. [pc |-> "clean", keys |-> {s \in seIndex : seHash[s] = "none"}] \in Admin
    BY DEF Admin, Listing
  <2>2. QED
    BY <1>8, <1>17, <2>1 DEF ListSessions
<1>18. ASSUME NEW a \in SeAdmins,
              \/ CleanOrphans(a) \/ AdminDies(a)
              \/ \E S \in SUBSET SeSessions : DropUpTo(a, S)
       PROVE  SeTypeOK'
  BY <1>8, <1>9, <1>18 DEF CleanOrphans, AdminDies, DropUpTo
<1>19. CASE UNCHANGED seVars
  BY <1>19 DEF seVars
<1>20. QED
  BY <1>1, <1>4, <1>5, <1>6, <1>7, <1>10, <1>11, <1>12, <1>13, <1>14, <1>15, <1>16, <1>17, <1>18,
     <1>19 DEF SeNext

(* Only a session that is gone, or that a revocation by activity hides,    *)
(* leaves the index.                                                       *)
LEMMA IndexedLiveStep == SeInv /\ [SeNext]_seVars => IndexedLive'
<1> DEFINE Shown(s) == /\ seVoucher[s] = "issued" /\ seHash[s] = "full" => s \in seIndex \cup seHidden
                       /\ s \in seIndex => seVoucher[s] = "issued"
<1> SUFFICES ASSUME SeInv, [SeNext]_seVars, NEW s \in SeSessions PROVE Shown(s)'
  BY SessionTypes DEF IndexedLive, Live, SeTypeOK
<1> USE DEF SeInv, SeTypeOK
<1>1. Shown(s)
  BY DEF IndexedLive, Live
<1>2. (Gone(s) => Gone(s)') /\ (seVoucher[s] = "issued" => seVoucher'[s] = "issued")
  BY GoneStays
<1>3. seIndex' = seIndex /\ seHidden' = seHidden /\ seVoucher' = seVoucher => Shown(s)'
  BY <1>1, <1>2 DEF Gone
<1>4. ASSUME NEW q \in SeSessions, StoreSession(q) \/ IssueVoucher(q) PROVE Shown(s)'
  BY <1>1, <1>4 DEF StoreSession, IssueVoucher
<1>5. ASSUME NEW r \in SeRequests, CleanIndex(r) PROVE Shown(s)'
  <2>1. Gone(seReq[r].s)
    BY <1>5 DEF CleanIndex, RequestsKnow
  <2>2. QED
    BY <1>1, <1>5, <2>1 DEF CleanIndex, Gone
<1>6. ASSUME NEW r \in SeRequests, IndexSession(r) PROVE Shown(s)'
  <2>1. seVoucher[seReq[r].s] = "issued"
    BY <1>6 DEF IndexSession, RequestsKnow, NoRequest
  <2>2. QED
    BY <1>1, <1>6, <2>1 DEF IndexSession
<1>7. ASSUME NEW a \in SeAdmins, DropIndex(a) PROVE Shown(s)'
  <2>1. s \in seAdmin[a].drop => Gone(s)
    BY <1>7, AdminKinds DEF DropIndex, AdminsKnow
  <2>2. QED
    BY <1>1, <1>7, <2>1 DEF DropIndex, Gone
<1>8. ASSUME NEW a \in SeAdmins, NEW S \in SUBSET SeSessions, DropUpTo(a, S) PROVE Shown(s)'
  BY <1>1, <1>8 DEF DropUpTo
<1>9. ASSUME NEW a \in SeAdmins, CleanOrphans(a) PROVE Shown(s)'
  <2>1. s \in seAdmin[a].keys => Gone(s)
    BY <1>9, AdminKinds DEF CleanOrphans, AdminsKnow
  <2>2. QED
    BY <1>1, <1>9, <2>1 DEF CleanOrphans, Gone
<1>10. QED
  BY <1>3, <1>4, <1>5, <1>6, <1>7, <1>8, <1>9
  DEF SeNext, SessionExpires, ReadSession, TouchSession, RequestEnds, RevokeByKey, RevokeByUid,
      MatchUid, DeleteHash, RevocationEnds, RevokeByActivity, ListSessions, AdminDies, seVars

(* A request learns that a hash is missing only of an issued session. *)
LEMMA RequestsKnowStep == SeInv /\ [SeNext]_seVars => RequestsKnow'
<1> DEFINE Knows(r) == /\ seReq[r] # NoRequest => seVoucher[seReq[r].s] = "issued"
                       /\ seReq[r].pc = "missing" => Gone(seReq[r].s)
<1> SUFFICES ASSUME SeInv, [SeNext]_seVars, NEW q \in SeRequests PROVE Knows(q)'
  BY DEF RequestsKnow
<1> USE DEF SeInv, SeTypeOK
<1>1. seReq[q] # NoRequest => /\ seReq[q].s \in SeSessions
                              /\ seReq[q].pc \in {"read", "missing", "touched", "served"}
  BY DEF Request
<1>2. Knows(q)
  BY DEF RequestsKnow
<1>3. seReq'[q] = seReq[q] => Knows(q)'
  BY <1>1, <1>2, GoneStays DEF NoRequest
<1>4. ASSUME NEW r \in SeRequests, NEW s \in SeSessions, ReadSession(r, s) PROVE Knows(q)'
  <2>1. CASE q = r
    BY <1>4, <2>1 DEF ReadSession, SeGoes, Gone
  <2>2. CASE q # r
    BY <1>3, <1>4, <2>2 DEF ReadSession, SeGoes
  <2>3. QED
    BY <2>1, <2>2
<1>5. ASSUME NEW r \in SeRequests, CleanIndex(r) \/ RequestEnds(r) PROVE Knows(q)'
  BY <1>3, <1>5 DEF CleanIndex, RequestEnds, SeGoes, NoRequest
<1>6. ASSUME NEW r \in SeRequests, TouchSession(r) \/ IndexSession(r) PROVE Knows(q)'
  <2>1. CASE q = r
    <3>1. seReq[r] # NoRequest /\ seReq[r] \in [pc: {"read", "missing", "touched", "served"},
                                                s: SeSessions, revoked: BOOLEAN]
      BY <1>6 DEF TouchSession, IndexSession, NoRequest, Request
    <3>2. seReq'[r].s = seReq[r].s /\ seReq'[r].pc \in {"touched", "served"}
      BY <1>6, <3>1 DEF TouchSession, IndexSession, SeGoes
    <3>3. QED
      BY <1>1, <1>2, <2>1, <3>1, <3>2, GoneStays
  <2>2. CASE q # r
    BY <1>3, <1>6, <2>2 DEF TouchSession, IndexSession, SeGoes
  <2>3. QED
    BY <2>1, <2>2
<1>7. QED
  BY <1>3, <1>4, <1>5, <1>6
  DEF SeNext, StoreSession, IssueVoucher, SessionExpires, RevokeByKey, RevokeByUid, MatchUid,
      DeleteHash, DropIndex, RevocationEnds, RevokeByActivity, DropUpTo, ListSessions, CleanOrphans,
      AdminDies, seVars

(* A revocation aims at sessions it read in the index, and lets go of one  *)
(* only when its hash was missing or deleted.                              *)
LEMMA AdminsKnowStep == SeInv /\ [SeNext]_seVars => AdminsKnow'
<1> DEFINE Knows(x) == /\ x \in Aimed \cup Matching => \A s \in x.aim \ x.keys : Gone(s)
                       /\ x \in Aimed \cup ByTime => \A s \in x.drop : Gone(s)
                       /\ x \in Aimed \cup ByTime \cup Matching =>
                             \A s \in x.keys : seVoucher[s] = "issued"
                       /\ x \in Listing => \A s \in x.keys : Gone(s)
           KnowsNext(x) == /\ x \in Aimed \cup Matching => \A s \in x.aim \ x.keys : Gone(s)'
                           /\ x \in Aimed \cup ByTime => \A s \in x.drop : Gone(s)'
                           /\ x \in Aimed \cup ByTime \cup Matching =>
                                 \A s \in x.keys : seVoucher'[s] = "issued"
                           /\ x \in Listing => \A s \in x.keys : Gone(s)'
<1> SUFFICES ASSUME SeInv, [SeNext]_seVars, NEW b \in SeAdmins PROVE KnowsNext(seAdmin'[b])
  BY DEF AdminsKnow
<1> USE DEF SeInv, SeTypeOK
<1>1. Knows(seAdmin[b])
  BY DEF AdminsKnow
<1>2. ASSUME NEW x \in Admin, Knows(x) PROVE KnowsNext(x)
  <2>1. x \in Aimed \cup ByTime \cup Matching \cup Listing => x.keys \subseteq SeSessions
    BY DEF Aimed, ByTime, Matching, Listing
  <2>2. x \in Aimed \cup Matching => x.aim \subseteq SeSessions
    BY DEF Aimed, Matching
  <2>3. x \in Aimed \cup ByTime => x.drop \subseteq SeSessions
    BY DEF Aimed, ByTime
  <2>4. QED
    BY <1>2, <2>1, <2>2, <2>3, GoneStays
<1>3. seAdmin'[b] = seAdmin[b] => KnowsNext(seAdmin'[b])
  BY <1>1, <1>2
<1>4. ASSUME NEW a \in SeAdmins, NEW rec, Steps(a, rec), a = b => KnowsNext(rec)
      PROVE  KnowsNext(seAdmin'[b])
  BY <1>3, <1>4 DEF Steps
<1>5. ASSUME NEW a \in SeAdmins, Steps(a, NoRequest) PROVE KnowsNext(seAdmin'[b])
  <2>1. KnowsNext(NoRequest)
    BY DEF NoRequest, Aimed, ByTime, Matching, Listing
  <2>2. QED
    BY <1>4, <1>5, <2>1
<1>6. ASSUME NEW a \in SeAdmins, NEW s \in SeSessions, RevokeByKey(a, s) PROVE KnowsNext(seAdmin'[b])
  <2> DEFINE x == [pc |-> "delete", keys |-> {s}, drop |-> {}, aim |-> {s}]
  <2>1. x \in Aimed /\ x \notin ByTime /\ x \notin Matching /\ x \notin Listing
    BY DEF Aimed, ByTime, Matching, Listing
  <2>2. Knows(x)
    BY <1>6, <2>1 DEF RevokeByKey
  <2>3. KnowsNext(x)
    BY <1>2, <2>1, <2>2 DEF Admin
  <2>4. QED
    BY <1>4, <1>6, <2>3 DEF RevokeByKey
<1>7. ASSUME NEW a \in SeAdmins, RevokeByUid(a) PROVE KnowsNext(seAdmin'[b])
  <2> DEFINE x == [pc |-> "match", keys |-> seIndex, aim |-> Live \ seHidden]
  <2>1. x \in Matching /\ x \notin ByTime /\ x \notin Aimed /\ x \notin Listing
    BY DEF Aimed, ByTime, Matching, Listing, Live
  <2>2. Knows(x)
    BY <2>1 DEF IndexedLive
  <2>3. KnowsNext(x)
    BY <1>2, <2>1, <2>2 DEF Admin
  <2>4. QED
    BY <1>4, <1>7, <2>3 DEF RevokeByUid
<1>8. ASSUME NEW a \in SeAdmins, MatchUid(a) PROVE KnowsNext(seAdmin'[b])
  <2> DEFINE x == [pc |-> "delete", keys |-> {s \in seAdmin[a].keys : seHash[s] = "full"},
                   drop |-> {}, aim |-> seAdmin[a].aim]
  <2>1. CASE a # b
    BY <1>4, <1>8, <2>1 DEF MatchUid
  <2>2. CASE a = b
    <3>1. seAdmin[b] \in Matching
      BY <1>8, <2>2, AdminKinds DEF MatchUid
    <3>2. x \in Aimed /\ x \notin ByTime /\ x \notin Matching /\ x \notin Listing
      BY <2>2, <3>1 DEF Aimed, ByTime, Matching, Listing
    <3>3. Knows(x)
      BY <1>1, <2>2, <3>1, <3>2 DEF Gone
    <3>4. KnowsNext(x)
      BY <1>2, <3>2, <3>3 DEF Admin
    <3>5. QED
      BY <1>4, <1>8, <3>4 DEF MatchUid
  <2>3. QED
    BY <2>1, <2>2
<1>9. ASSUME NEW a \in SeAdmins, NEW s \in SeSessions, DeleteHash(a, s) PROVE KnowsNext(seAdmin'[b])
  <2> DEFINE x == [seAdmin[a] EXCEPT !.keys = @ \ {s}, !.drop = {s}]
  <2>1. CASE a # b
    BY <1>4, <1>9, <2>1 DEF DeleteHash
  <2>2. CASE a = b
    <3>1. seAdmin[b] \in Aimed \cup ByTime /\ s \in seAdmin[b].keys
      BY <1>9, <2>2, AdminKinds DEF DeleteHash
    <3>2. Gone(s)'
      BY <1>1, <1>9, <3>1, <2>2 DEF DeleteHash, Gone
    <3>3. /\ x \in Aimed \cup ByTime /\ x \notin Matching /\ x \notin Listing
          /\ x.drop = {s} /\ x.keys = seAdmin[b].keys \ {s}
          /\ x \in Aimed => seAdmin[b] \in Aimed /\ x.aim = seAdmin[b].aim
      BY <2>2, <3>1 DEF Aimed, ByTime, Matching, Listing
    <3>4. \A k \in seAdmin[b].keys : seVoucher'[k] = "issued"
      BY <1>1, <1>2, <3>1
    <3>5. seAdmin[b] \in Aimed => \A k \in seAdmin[b].aim \ seAdmin[b].keys : Gone(k)'
      BY <1>1, <1>2
    <3> HIDE DEF x
    <3>6. KnowsNext(x)
      BY <3>2, <3>3, <3>4, <3>5
    <3>7. QED
      BY <1>4, <1>9, <3>6 DEF DeleteHash, x
  <2>3. QED
    BY <2>1, <2>2
<1>10. ASSUME NEW a \in SeAdmins, DropIndex(a) PROVE KnowsNext(seAdmin'[b])
  <2> DEFINE x == [seAdmin[a] EXCEPT !.drop = {}]
  <2>1. CASE a # b
    BY <1>4, <1>10, <2>1 DEF DropIndex
  <2>2. CASE a = b
    <3>1. seAdmin[b] \in Aimed \cup ByTime
      BY <1>10, <2>2, AdminKinds DEF DropIndex
    <3>2. /\ x \in Aimed \cup ByTime /\ x \notin Matching /\ x \notin Listing
          /\ x.drop = {} /\ x.keys = seAdmin[b].keys
          /\ x \in Aimed => seAdmin[b] \in Aimed /\ x.aim = seAdmin[b].aim
      BY <2>2, <3>1 DEF Aimed, ByTime, Matching, Listing
    <3> HIDE DEF x
    <3>3. Knows(x)
      BY <1>1, <3>1, <3>2
    <3>4. KnowsNext(x)
      BY <1>2, <3>2, <3>3 DEF Admin
    <3>5. QED
      BY <1>4, <1>10, <3>4 DEF DropIndex, x
  <2>3. QED
    BY <2>1, <2>2
<1>11. ASSUME NEW a \in SeAdmins, NEW S \in SUBSET SeSessions, RevokeByActivity(a, S)
       PROVE  KnowsNext(seAdmin'[b])
  <2> DEFINE x == [pc |-> "delete", keys |-> S, drop |-> {}]
  <2>1. x \in ByTime /\ x \notin Aimed /\ x \notin Matching /\ x \notin Listing
    BY DEF Aimed, ByTime, Matching, Listing
  <2>2. Knows(x)
    BY <1>11, <2>1 DEF RevokeByActivity, IndexedLive
  <2>3. KnowsNext(x)
    BY <1>2, <2>1, <2>2 DEF Admin
  <2>4. QED
    BY <1>4, <1>11, <2>3 DEF RevokeByActivity
<1>12. ASSUME NEW a \in SeAdmins, ListSessions(a) PROVE KnowsNext(seAdmin'[b])
  <2> DEFINE x == [pc |-> "clean", keys |-> {s \in seIndex : seHash[s] = "none"}]
  <2>1. x \in Listing /\ x \notin Aimed /\ x \notin ByTime /\ x \notin Matching
    BY DEF Aimed, ByTime, Matching, Listing
  <2>2. Knows(x)
    BY <2>1 DEF IndexedLive, Gone
  <2>3. KnowsNext(x)
    BY <1>2, <2>1, <2>2 DEF Admin
  <2>4. QED
    BY <1>4, <1>12, <2>3 DEF ListSessions
<1>13. QED
  BY <1>3, <1>5, <1>6, <1>7, <1>8, <1>9, <1>10, <1>11, <1>12
  DEF SeNext, StoreSession, IssueVoucher, SessionExpires, ReadSession, CleanIndex, TouchSession,
      IndexSession, RequestEnds, RevocationEnds, DropUpTo, CleanOrphans, AdminDies, seVars

(* When a revocation ends, every session it aimed at is gone. *)
LEMMA RevokedGone ==
  ASSUME SeInv, [SeNext]_seVars, NEW s \in seRevoked' PROVE Gone(s)'
<1> USE DEF SeInv, SeTypeOK
<1>1. seRevoked' \subseteq SeSessions
  BY SessionTypes
<1>2. Gone(s) => Gone(s)'
  BY <1>1, GoneStays
<1>3. ASSUME NEW a \in SeAdmins, RevocationEnds(a) PROVE Gone(s)'
  <2>1. seAdmin[a] \in Aimed /\ seAdmin[a].keys = {}
    BY <1>3, AdminKinds DEF RevocationEnds
  <2>2. \A k \in seAdmin[a].aim : Gone(k)
    BY <2>1 DEF AdminsKnow
  <2>3. QED
    BY <1>2, <1>3, <2>2 DEF RevocationEnds
<1>4. CASE seRevoked' = seRevoked
  BY <1>2, <1>4
<1>5. QED
  BY <1>3, <1>4
  DEF SeNext, StoreSession, IssueVoucher, SessionExpires, ReadSession, CleanIndex, TouchSession,
      IndexSession, RequestEnds, RevokeByKey, RevokeByUid, MatchUid, DeleteHash, DropIndex,
      RevokeByActivity, DropUpTo, ListSessions, CleanOrphans, AdminDies, seVars

(* So the hash that a later request reads is not there. *)
LEMMA ServedStep == SeInv /\ [SeNext]_seVars => RevokedNeverServed'
<1> SUFFICES ASSUME SeInv, [SeNext]_seVars, NEW q \in SeRequests,
                    seReq'[q].pc \in {"read", "touched", "served"}
             PROVE  ~seReq'[q].revoked
  BY DEF RevokedNeverServed
<1> USE DEF SeInv, SeTypeOK
<1>1. seReq'[q] = seReq[q] => ~seReq'[q].revoked
  BY DEF RevokedNeverServed
<1>2. ASSUME NEW r \in SeRequests, NEW s \in SeSessions, ReadSession(r, s) PROVE ~seReq'[q].revoked
  <2>1. CASE q = r
    <3>1. seReq'[r] = [pc |-> IF seHash[s] = "full" THEN "read" ELSE "missing",
                       s |-> s, revoked |-> s \in seRevoked]
      BY <1>2 DEF ReadSession, SeGoes
    <3>2. seHash[s] = "full"
      BY <2>1, <3>1
    <3>3. s \notin seRevoked
      BY <3>2 DEF Gone
    <3>4. seReq'[r].revoked = (s \in seRevoked)
      BY <3>1
    <3>5. ~seReq'[r].revoked
      BY <3>3, <3>4, Zenon
    <3>6. QED
      BY <2>1, <3>5
  <2>2. CASE q # r
    BY <1>1, <1>2, <2>2 DEF ReadSession, SeGoes
  <2>3. QED
    BY <2>1, <2>2
<1>3. ASSUME NEW r \in SeRequests, CleanIndex(r) \/ RequestEnds(r) PROVE ~seReq'[q].revoked
  BY <1>1, <1>3 DEF CleanIndex, RequestEnds, SeGoes, NoRequest
<1>4. ASSUME NEW r \in SeRequests, TouchSession(r) \/ IndexSession(r) PROVE ~seReq'[q].revoked
  <2>1. CASE q = r
    <3>1. /\ seReq[r].pc \in {"read", "touched"}
          /\ seReq[r] \in [pc: {"read", "missing", "touched", "served"}, s: SeSessions,
                           revoked: BOOLEAN]
      BY <1>4 DEF TouchSession, IndexSession, NoRequest, Request
    <3>2. seReq'[r].revoked = seReq[r].revoked
      BY <1>4, <3>1 DEF TouchSession, IndexSession, SeGoes
    <3>3. QED
      BY <2>1, <3>1, <3>2 DEF RevokedNeverServed
  <2>2. CASE q # r
    BY <1>1, <1>4, <2>2 DEF TouchSession, IndexSession, SeGoes
  <2>3. QED
    BY <2>1, <2>2
<1>5. QED
  BY <1>1, <1>2, <1>3, <1>4
  DEF SeNext, StoreSession, IssueVoucher, SessionExpires, RevokeByKey, RevokeByUid, MatchUid,
      DeleteHash, DropIndex, RevocationEnds, RevokeByActivity, DropUpTo, ListSessions, CleanOrphans,
      AdminDies, seVars

(* No request that begins after its session was revoked, by its key or     *)
(* with all the sessions of the user, is served: whatever requests write   *)
(* back, and however many revocations and listings overlap.                *)
THEOREM RevokedAreNotServed == SeSpec => []RevokedNeverServed
<1>1. SeInit => SeInv
  <2> SUFFICES ASSUME SeInit PROVE SeInv
    OBVIOUS
  <2>1. SeTypeOK
    BY DEF SeInit, SeTypeOK, Request, Admin
  <2>2. IndexedLive
    BY DEF SeInit, IndexedLive, Live
  <2>3. RequestsKnow /\ RevokedNeverServed
    BY DEF SeInit, RequestsKnow, RevokedNeverServed, NoRequest
  <2>4. AdminsKnow
    BY DEF SeInit, AdminsKnow, NoRequest, Aimed, ByTime, Matching, Listing
  <2>5. \A s \in seRevoked : Gone(s)
    BY DEF SeInit
  <2>6. QED
    BY <2>1, <2>2, <2>3, <2>4, <2>5 DEF SeInv
<1>2. SeInv /\ [SeNext]_seVars => SeInv'
  BY SessionTypes, IndexedLiveStep, RequestsKnowStep, AdminsKnowStep, RevokedGone, ServedStep
  DEF SeInv
<1>3. SeInv => RevokedNeverServed
  BY DEF SeInv
<1>4. QED
  BY <1>1, <1>2, <1>3, PTL DEF SeSpec

-----------------------------------------------------------------------------
(* The audit log *)

Call ==
    [pc: {"idle", "added"}] \cup [pc: {"seq"}, seq: Nat] \cup [pc: {"read"}, seq: Nat, prev: Nat]
Entry == [seq: Nat, prev: Nat]
Numbered(c) == alCall[c].pc \in {"seq", "read"}

AlTypeOK ==
    /\ alSeq \in Nat
    /\ alLog \subseteq Entry /\ IsFiniteSet(alLog)
    /\ alCall \in [AlCallers -> Call]

IsNewest(log, n) == (\A f \in log : f.seq <= n) /\ \E g \in log : g.seq = n

(* Retention keeps the newest entry, so that there always is one to link  *)
(* to, and no number is given twice.                                       *)
Retained == alLog = {} \/ \E n \in Nat : IsNewest(alLog, n)
Bounded ==
    /\ \A e \in alLog : e.seq <= alSeq
    /\ \A c \in AlCallers : Numbered(c) => alCall[c].seq <= alSeq

(* Calls that take turns append to the end of the chain: the entry that a  *)
(* call has read is still the newest when the call appends its own.        *)
OneCall == \A c, d \in AlCallers : alCall[c] # NoCall /\ alCall[d] # NoCall => c = d
Appending ==
    \A c \in AlCallers :
        /\ Numbered(c) => \A e \in alLog : e.seq < alCall[c].seq
        /\ alCall[c].pc = "read" => alLog = {} \/ IsNewest(alLog, alCall[c].prev)

(* An entry names the newest of those before it that are there. *)
Linked ==
    \A e, f \in alLog : f.seq < e.seq =>
        f.seq <= e.prev /\ e.prev < e.seq /\ \E g \in alLog : g.seq = e.prev

AlInv ==
    /\ AlTypeOK /\ Retained /\ Bounded
    /\ alOverlap \/ (OneCall /\ Appending /\ Linked)

(* Where there is a largest or a smallest number, Max and Min return it. *)
LEMMA MaxIs ==
  ASSUME NEW S \in SUBSET Int, NEW m \in S, \A x \in S : x <= m PROVE Max(S) = m
<1>1. \A n \in S : (\A x \in S : n >= x) => n = m
  OBVIOUS
<1>2. \A x \in S : m >= x
  OBVIOUS
<1>3. QED
  BY <1>1, <1>2 DEF Max

LEMMA MinIs ==
  ASSUME NEW S \in SUBSET Int, NEW m \in S, \A x \in S : m <= x PROVE Min(S) = m
<1>1. \A n \in S : (\A x \in S : n <= x) => n = m
  OBVIOUS
<1>2. QED
  BY <1>1 DEF Min

(* What a call reads as the newest entry is the newest there is. *)
LEMMA NewestIs ==
  ASSUME AlTypeOK, Retained
  PROVE  /\ NewestEntry(alLog) \in Nat
         /\ alLog # {} => IsNewest(alLog, NewestEntry(alLog))
<1>1. CASE alLog = {}
  BY <1>1 DEF NewestEntry
<1>2. CASE alLog # {}
  <2>1. PICK n \in Nat : IsNewest(alLog, n)
    BY <1>2 DEF Retained
  <2>2. n \in {e.seq : e \in alLog} /\ \A x \in {e.seq : e \in alLog} : x <= n
    BY <2>1 DEF IsNewest
  <2>3. {e.seq : e \in alLog} \subseteq Int
    BY DEF AlTypeOK, Entry
  <2>4. Max({e.seq : e \in alLog}) = n
    BY <2>2, <2>3, MaxIs
  <2>5. QED
    BY <1>2, <2>1, <2>4 DEF NewestEntry
<1>3. QED
  BY <1>1, <1>2

(* The entries that a call leaves when it trims the log. *)
Kept == {e \in alLog : Cardinality({f \in alLog : f.seq > e.seq}) < AlMaxEntries}

(* Retention drops from the old end: with an entry it keeps every newer    *)
(* one, and it keeps the newest.                                           *)
LEMMA KeptIsTop ==
  ASSUME AlTypeOK
  PROVE  /\ \A e \in Kept, g \in alLog : e.seq <= g.seq => g \in Kept
         /\ \A n \in Nat : IsNewest(alLog, n) => IsNewest(Kept, n)
<1> USE DEF AlTypeOK, Entry
<1> DEFINE newer(e) == {f \in alLog : f.seq > e.seq}
<1>1. \A e \in alLog : IsFiniteSet(newer(e)) /\ Cardinality(newer(e)) \in Nat
  <2> TAKE e \in alLog
  <2>1. newer(e) \subseteq alLog
    OBVIOUS
  <2>2. QED
    BY <2>1, FS_Subset, FS_CardinalityType
<1>2. AlMaxEntries \in Nat /\ AlMaxEntries > 0
  BY AlAssumption
<1>3. ASSUME NEW e \in Kept, NEW g \in alLog, e.seq <= g.seq PROVE g \in Kept
  <2>1. newer(g) \subseteq newer(e) /\ e \in alLog
    BY <1>3 DEF Kept
  <2>2. Cardinality(newer(g)) <= Cardinality(newer(e))
    BY <1>1, <2>1, FS_Subset
  <2>3. Cardinality(newer(e)) < AlMaxEntries
    BY DEF Kept
  <2>4. Cardinality(newer(e)) \in Nat /\ Cardinality(newer(g)) \in Nat
    BY <1>1, <2>1
  <2> HIDE DEF newer
  <2>5. Cardinality(newer(g)) < AlMaxEntries
    BY <1>2, <2>2, <2>3, <2>4
  <2>6. QED
    BY <2>5 DEF Kept, newer
<1>4. ASSUME NEW n \in Nat, IsNewest(alLog, n) PROVE IsNewest(Kept, n)
  <2>1. PICK g \in alLog : g.seq = n
    BY <1>4 DEF IsNewest
  <2>2. newer(g) = {}
    BY <1>4, <2>1 DEF IsNewest
  <2>3. Cardinality(newer(g)) = 0
    BY <2>2, FS_EmptySet
  <2>4. g \in Kept
    BY <1>2, <2>3 DEF Kept
  <2>5. QED
    BY <1>4, <2>1, <2>4 DEF IsNewest, Kept
<1>5. QED
  BY <1>3, <1>4

(* The records of the calls. *)
LEMMA CallKinds ==
  ASSUME NEW x \in Call
  PROVE  /\ x.pc = "seq" => x.seq \in Nat
         /\ x.pc = "read" => x.seq \in Nat /\ x.prev \in Nat
         /\ x # NoCall <=> x.pc # "idle"
<1>1. CASE x.pc \in {"idle", "added"}
  BY <1>1 DEF Call, NoCall
<1>2. CASE x.pc \in {"seq", "read"}
  BY <1>2 DEF Call, NoCall
<1>3. QED
  BY <1>1, <1>2 DEF Call

(* The state of one call and the log after each step. *)
LEMMA AuditTypes == AlInv /\ [AlNext]_alVars => AlTypeOK' /\ Retained' /\ Bounded'
<1> SUFFICES ASSUME AlInv, [AlNext]_alVars PROVE AlTypeOK' /\ Retained' /\ Bounded'
  OBVIOUS
<1> USE DEF AlInv, AlTypeOK
<1>1. NoCall \in Call /\ [pc |-> "added"] \in Call
  BY DEF Call, NoCall
<1>2. ASSUME NEW c \in AlCallers, AuditTakesSeq(c) PROVE AlTypeOK' /\ Retained' /\ Bounded'
  <2>1. [pc |-> "seq", seq |-> alSeq + 1] \in Call
    BY DEF Call
  <2>2. AlTypeOK'
    BY <1>2, <2>1 DEF AuditTakesSeq
  <2>3. Retained'
    BY <1>2 DEF AuditTakesSeq, Retained, IsNewest
  <2>4. \A d \in AlCallers : Numbered(d)' => alCall'[d].seq <= alSeq'
    <3> TAKE d \in AlCallers
    <3>1. CASE d = c
      BY <1>2, <3>1 DEF AuditTakesSeq
    <3>2. CASE d # c
      <4>1. Numbered(d) => alCall[d].seq \in Nat /\ alCall[d].seq <= alSeq
        BY CallKinds DEF Bounded, Numbered
      <4>2. QED
        BY <1>2, <3>2, <4>1 DEF AuditTakesSeq, Numbered
    <3>3. QED
      BY <3>1, <3>2
  <2>5. \A e \in alLog' : e.seq <= alSeq'
    BY <1>2 DEF AuditTakesSeq, Bounded, Entry
  <2>6. QED
    BY <2>2, <2>3, <2>4, <2>5 DEF Bounded
<1>3. ASSUME NEW c \in AlCallers, AuditReadsNewest(c) PROVE AlTypeOK' /\ Retained' /\ Bounded'
  <2>1. alCall[c].seq \in Nat /\ alCall[c].seq <= alSeq
    BY <1>3, CallKinds DEF AuditReadsNewest, Bounded, Numbered
  <2>2. [pc |-> "read", seq |-> alCall[c].seq, prev |-> Previous(c)] \in Call
    BY <2>1, NewestIs DEF Call, Previous
  <2>3. AlTypeOK'
    BY <1>3, <2>2 DEF AuditReadsNewest
  <2>4. Retained'
    BY <1>3 DEF AuditReadsNewest, Retained, IsNewest
  <2>5. Bounded'
    BY <1>3, <2>1 DEF AuditReadsNewest, Bounded, Numbered
  <2>6. QED
    BY <2>3, <2>4, <2>5
<1>4. ASSUME NEW c \in AlCallers, AuditAppends(c) PROVE AlTypeOK' /\ Retained' /\ Bounded'
  <2> DEFINE e == [seq |-> alCall[c].seq, prev |-> alCall[c].prev]
  <2>1. alCall[c].seq \in Nat /\ alCall[c].prev \in Nat /\ alCall[c].seq <= alSeq
    BY <1>4, CallKinds DEF AuditAppends, Bounded, Numbered
  <2>2. e \in Entry /\ alLog' = alLog \cup {e} /\ e.seq = alCall[c].seq
    BY <1>4, <2>1 DEF AuditAppends, Entry
  <2> HIDE DEF e
  <2>3. AlTypeOK'
    BY <1>1, <1>4, <2>2, FS_AddElement DEF AuditAppends
  <2>4. Retained'
    <3>1. CASE alLog = {}
      BY <2>1, <2>2, <3>1 DEF Retained, IsNewest
    <3>2. CASE alLog # {}
      <4>1. PICK n \in Nat : IsNewest(alLog, n)
        BY <3>2 DEF Retained
      <4>2. CASE n >= e.seq
        BY <2>1, <2>2, <4>1, <4>2 DEF Retained, IsNewest
      <4>3. CASE n < e.seq
        <5>1. \A f \in alLog : f.seq \in Nat /\ f.seq <= e.seq
          BY <2>1, <2>2, <4>1, <4>3 DEF IsNewest, Entry
        <5>2. IsNewest(alLog', e.seq)
          BY <2>1, <2>2, <5>1 DEF IsNewest
        <5>3. QED
          BY <2>1, <2>2, <5>2 DEF Retained
      <4>4. QED
        BY <2>1, <2>2, <4>1, <4>2, <4>3
    <3>3. QED
      BY <3>1, <3>2
  <2>5. Bounded'
    BY <1>4, <2>1, <2>2 DEF AuditAppends, Bounded, Numbered
  <2>6. QED
    BY <2>3, <2>4, <2>5
<1>5. ASSUME NEW c \in AlCallers, AuditTrims(c) PROVE AlTypeOK' /\ Retained' /\ Bounded'
  <2>1. alLog' = Kept /\ Kept \subseteq alLog
    BY <1>5 DEF AuditTrims, Kept
  <2>2. AlTypeOK'
    BY <1>1, <1>5, <2>1, FS_Subset DEF AuditTrims
  <2>3. Retained'
    BY <2>1, KeptIsTop DEF Retained
  <2>4. Bounded'
    BY <1>5, <2>1 DEF AuditTrims, Bounded, Numbered, NoCall
  <2>5. QED
    BY <2>2, <2>3, <2>4
<1>6. ASSUME NEW c \in AlCallers, AuditDies(c) PROVE AlTypeOK' /\ Retained' /\ Bounded'
  BY <1>1, <1>6 DEF AuditDies, Retained, IsNewest, Bounded, Numbered, NoCall
<1>7. CASE UNCHANGED alVars
  BY <1>7 DEF alVars, Retained, IsNewest, Bounded, Numbered
<1>8. QED
  BY <1>2, <1>3, <1>4, <1>5, <1>6, <1>7 DEF AlNext

(* A call that is alone reads the newest entry and appends after it. *)
LEMMA AuditStep ==
  AlInv /\ [AlNext]_alVars => alOverlap' \/ (OneCall' /\ Appending' /\ Linked')
<1> SUFFICES ASSUME AlInv, [AlNext]_alVars, ~alOverlap' PROVE OneCall' /\ Appending' /\ Linked'
  OBVIOUS
<1> USE DEF AlInv, AlTypeOK
<1>1. OneCall /\ Appending /\ Linked
  <2>1. ~alOverlap
    BY DEF AlNext, AuditTakesSeq, AuditReadsNewest, AuditAppends, AuditTrims, AuditDies, alVars
  <2>2. QED
    BY <2>1
<1>2. ASSUME NEW c \in AlCallers, \A d \in AlCallers \ {c} : alCall'[d] = NoCall,
             Numbered(c)' => \A e \in alLog' : e.seq < alCall'[c].seq,
             alCall'[c].pc = "read" => alLog' = {} \/ IsNewest(alLog', alCall'[c].prev)
      PROVE  OneCall' /\ Appending'
  BY <1>2 DEF OneCall, Appending, Numbered, NoCall
<1>3. ASSUME NEW c \in AlCallers, alCall[c] # NoCall
      PROVE  \A d \in AlCallers \ {c} : alCall[d] = NoCall
  BY <1>1, <1>3 DEF OneCall
<1>4. ASSUME NEW c \in AlCallers, AuditTakesSeq(c) PROVE OneCall' /\ Appending' /\ Linked'
  <2>1. \A d \in AlCallers : alCall[d] = NoCall
    BY <1>4 DEF AuditTakesSeq
  <2>2. /\ alCall'[c] = [pc |-> "seq", seq |-> alSeq + 1] /\ alLog' = alLog
        /\ \A d \in AlCallers \ {c} : alCall'[d] = alCall[d]
    BY <1>4 DEF AuditTakesSeq
  <2>3. \A e \in alLog : e.seq < alSeq + 1
    BY DEF Bounded, Entry
  <2>4. OneCall' /\ Appending'
    BY <1>2, <2>1, <2>2, <2>3
  <2>5. QED
    BY <1>1, <2>2, <2>4 DEF Linked
<1>5. ASSUME NEW c \in AlCallers, AuditReadsNewest(c) PROVE OneCall' /\ Appending' /\ Linked'
  <2>1. alCall[c] # NoCall /\ Numbered(c)
    BY <1>5 DEF AuditReadsNewest, NoCall, Numbered
  <2>2. /\ alCall'[c] = [pc |-> "read", seq |-> alCall[c].seq, prev |-> NewestEntry(alLog)]
        /\ alLog' = alLog /\ \A d \in AlCallers \ {c} : alCall'[d] = alCall[d]
    BY <1>5 DEF AuditReadsNewest, Previous
  <2>3. OneCall' /\ Appending'
    BY <1>1, <1>2, <1>3, <2>1, <2>2, NewestIs DEF Appending
  <2>4. QED
    BY <1>1, <2>2, <2>3 DEF Linked
<1>6. ASSUME NEW c \in AlCallers, AuditAppends(c) PROVE OneCall' /\ Appending' /\ Linked'
  <2> DEFINE e == [seq |-> alCall[c].seq, prev |-> alCall[c].prev]
  <2>1. /\ alCall[c] # NoCall /\ \A f \in alLog : f.seq < alCall[c].seq
        /\ alLog = {} \/ IsNewest(alLog, alCall[c].prev)
    BY <1>1, <1>6 DEF AuditAppends, NoCall, Numbered, Appending
  <2>2. alCall[c].seq \in Nat /\ alCall[c].prev \in Nat
    BY <1>6, CallKinds DEF AuditAppends
  <2>3. /\ alLog' = alLog \cup {e} /\ alCall'[c] = [pc |-> "added"]
        /\ \A d \in AlCallers \ {c} : alCall'[d] = alCall[d]
    BY <1>6 DEF AuditAppends
  <2>4. e.seq = alCall[c].seq /\ e.prev = alCall[c].prev
    OBVIOUS
  <2> HIDE DEF e
  <2>5. OneCall' /\ Appending'
    BY <1>2, <1>3, <2>1, <2>3 DEF Numbered
  <2>6. ASSUME NEW x \in alLog', NEW y \in alLog', y.seq < x.seq
        PROVE  y.seq <= x.prev /\ x.prev < x.seq /\ \E g \in alLog' : g.seq = x.prev
    <3>1. CASE x \in alLog
      <4>1. y \in alLog
        <5>1. x.seq \in Nat /\ x.seq < e.seq
          BY <2>1, <2>4, <3>1 DEF Entry
        <5>2. y # e
          BY <2>2, <2>4, <2>6, <5>1
        <5>3. QED
          BY <2>3, <5>2
      <4>2. QED
        BY <1>1, <2>3, <2>6, <3>1, <4>1 DEF Linked
    <3>2. CASE x = e
      <4>1. y \in alLog
        BY <2>2, <2>3, <2>4, <2>6, <3>2
      <4>2. IsNewest(alLog, e.prev)
        BY <2>1, <2>4, <4>1
      <4>3. QED
        BY <2>1, <2>3, <2>4, <3>2, <4>1, <4>2 DEF IsNewest
    <3>3. QED
      BY <2>3, <3>1, <3>2
  <2>7. QED
    BY <2>5, <2>6 DEF Linked
<1>7. ASSUME NEW c \in AlCallers, AuditTrims(c) PROVE OneCall' /\ Appending' /\ Linked'
  <2>1. alCall[c] # NoCall /\ alCall'[c] = NoCall /\ alLog' = Kept /\ Kept \subseteq alLog
        /\ \A d \in AlCallers \ {c} : alCall'[d] = alCall[d]
    BY <1>7 DEF AuditTrims, Kept, NoCall
  <2>2. OneCall' /\ Appending'
    BY <1>2, <1>3, <2>1 DEF Numbered, NoCall
  <2>3. ASSUME NEW x \in Kept, NEW y \in Kept, y.seq < x.seq
        PROVE  y.seq <= x.prev /\ x.prev < x.seq /\ \E g \in Kept : g.seq = x.prev
    <3>1. y.seq <= x.prev /\ x.prev < x.seq
      BY <1>1, <2>1, <2>3 DEF Linked
    <3>2. PICK g \in alLog : g.seq = x.prev
      BY <1>1, <2>1, <2>3 DEF Linked
    <3>3. g \in Kept
      BY <3>1, <3>2, KeptIsTop
    <3>4. QED
      BY <3>1, <3>2, <3>3
  <2>4. QED
    BY <2>1, <2>2, <2>3 DEF Linked
<1>8. ASSUME NEW c \in AlCallers, AuditDies(c) PROVE OneCall' /\ Appending' /\ Linked'
  <2>1. /\ alCall[c] # NoCall /\ alCall'[c] = NoCall /\ alLog' = alLog
        /\ \A d \in AlCallers \ {c} : alCall'[d] = alCall[d]
    BY <1>8 DEF AuditDies
  <2>2. OneCall' /\ Appending'
    BY <1>2, <1>3, <2>1 DEF Numbered, NoCall
  <2>3. QED
    BY <1>1, <2>1, <2>2 DEF Linked
<1>9. CASE UNCHANGED alVars
  BY <1>1, <1>9 DEF alVars, OneCall, Appending, Linked, Numbered, IsNewest
<1>10. QED
  BY <1>4, <1>5, <1>6, <1>7, <1>8, <1>9 DEF AlNext

(* verify_chain reports no break in a linked log. *)
LEMMA LinkedUnbroken ==
  ASSUME AlTypeOK, Linked PROVE Broken(alLog) = {}
<1> SUFFICES ASSUME NEW e \in alLog, e.seq # Min({f.seq : f \in alLog})
             PROVE  e.prev = Max({f.seq : f \in {f \in alLog : f.seq < e.seq}})
  BY DEF Broken
<1> USE DEF AlTypeOK, Entry
<1>1. {f.seq : f \in alLog} \subseteq Int /\ e.seq \in {f.seq : f \in alLog}
  OBVIOUS
<1>2. PICK y \in alLog : y.seq < e.seq
  <2> SUFFICES ASSUME \A y \in alLog : ~(y.seq < e.seq) PROVE FALSE
    OBVIOUS
  <2>1. \A x \in {f.seq : f \in alLog} : e.seq <= x
    OBVIOUS
  <2>2. Min({f.seq : f \in alLog}) = e.seq
    BY <1>1, <2>1, MinIs
  <2>3. QED
    BY <2>2
<1> DEFINE S == {f.seq : f \in {f \in alLog : f.seq < e.seq}}
<1>3. S \subseteq Int
  OBVIOUS
<1>4. e.prev \in S
  BY <1>2 DEF Linked
<1>5. \A x \in S : x <= e.prev
  BY DEF Linked
<1>6. Max(S) = e.prev
  BY <1>3, <1>4, <1>5, MaxIs
<1>7. QED
  BY <1>6

(* As long as calls of audit() take turns, whichever of them die and       *)
(* however much retention drops, verify_chain reports no break.            *)
THEOREM ChainIsUnbroken == AlSpec => []ChainHolds
<1>1. AlInit => AlInv
  <2> SUFFICES ASSUME AlInit PROVE AlInv
    OBVIOUS
  <2>1. AlTypeOK
    BY FS_EmptySet DEF AlInit, AlTypeOK, Call, NoCall
  <2>2. Retained /\ Bounded /\ OneCall /\ Appending /\ Linked
    BY DEF AlInit, Retained, Bounded, OneCall, Appending, Linked, Numbered, NoCall
  <2>3. QED
    BY <2>1, <2>2 DEF AlInv
<1>2. AlInv /\ [AlNext]_alVars => AlInv'
  BY AuditTypes, AuditStep DEF AlInv
<1>3. AlInv => ChainHolds
  BY LinkedUnbroken DEF AlInv, ChainHolds
<1>4. QED
  BY <1>1, <1>2, <1>3, PTL DEF AlSpec

-----------------------------------------------------------------------------
(* Scheduling by mail                                                      *)

Row == [seq: Nat, at: Int, ex: BOOLEAN, series: BOOLEAN, st: {Asked, "accepted", "declined"}]
Mail == [method: {"REQUEST", "CANCEL", "REPLY"}, one: BOOLEAN, row: Row]

(* The requests of one person do not overlap. *)
OneAtATime == \A r, s \in ImRequests : r = s

(* What an invitation or a copy says is no later than the event: of two    *)
(* versions with one SEQUENCE the time is the same, but for a single date. *)
Older(row) ==
    imEvent # NoRow =>
        /\ row.seq <= imEvent.seq
        /\ row.seq = imEvent.seq => row.at = imEvent.at \/ (row.seq = 0 /\ ~row.series)

ImTyped ==
    /\ imEvent \in Row \cup {NoRow} /\ imCopies \in Seq(Row \cup {NoRow})
    /\ imMail \subseteq Mail /\ imSeen \subseteq Nat
    /\ DOMAIN imWork = {"organizer", "attendee"}
    /\ \A p \in {"organizer", "attendee"} : DOMAIN imWork[p] = ImRequests

MailsAreOlder == \A m \in imMail : m.method = "REQUEST" => Older(m.row)

(* There is one copy at most, no later than the event and no earlier than  *)
(* any invitation that was opened.                                         *)
CopyIsBetween ==
    /\ \A j, k \in Copies : j = k
    /\ \A k \in Copies : Older(imCopies[k]) /\ \A n \in imSeen : n <= imCopies[k].seq
    /\ Copies = {} => imSeen = {}

(* What the requests of the two persons carry. *)
OrganizerKnows ==
    \A r \in ImRequests : LET w == imWork["organizer"][r] IN
        /\ w.pc \in {"idle", "send", "edit", "reply"}
        /\ w.pc = "send" => w.mail \in Mail /\ (w.mail.method = "REQUEST" => Older(w.mail.row))
        /\ w.pc = "edit" => w.row \in Row /\ w.row = imEvent /\ w.op \in ImEdits
        /\ w.pc = "reply" => w.row \in Row /\ imEvent # NoRow /\ w.row.seq = imEvent.seq /\ w.row.at = imEvent.at

AttendeeKnows ==
    \A r \in ImRequests : LET w == imWork["attendee"][r] IN
        /\ w.pc \in {"idle", "send", "open", "answer"}
        /\ w.pc = "send" => w.mail \in Mail /\ w.mail.method = "REPLY"
        /\ w.pc = "open" =>
              /\ w.mail \in Mail /\ (w.mail.method = "REQUEST" => Older(w.mail.row))
              /\ w.k = 0 => Copies = {}
              /\ w.k # 0 => w.k \in Copies /\ w.row = imCopies[w.k]
        /\ w.pc = "answer" =>
              /\ w.mail \in Mail /\ w.mail.method = "REPLY"
              /\ w.k \in Copies /\ w.row = imCopies[w.k]
              /\ w.mail.row.seq = w.row.seq /\ w.mail.row.at = w.row.at /\ w.mail.row.series = w.row.series

ImInv == ImTyped /\ MailsAreOlder /\ CopyIsBetween /\ OrganizerKnows /\ AttendeeKnows

LEMMA RowIsThere == ASSUME NEW row \in Row PROVE row # NoRow /\ row.seq \in Nat
<1>1. row.seq \in Nat
  BY DEF Row
<1>2. NoRow.seq = -1
  BY DEF NoRow
<1> QED
  BY <1>1, <1>2

LEMMA ImStarts == ImInit => ImInv
<1> SUFFICES ASSUME ImInit PROVE ImInv
  OBVIOUS
<1>1. FirstRow \in Row /\ FirstRow # NoRow
  <2>1. FirstRow \in Row
    BY DEF FirstRow, Row, Asked
  <2> QED
    BY <2>1, RowIsThere
<1>2. imEvent = FirstRow /\ imCopies = <<>> /\ imMail = {} /\ imSeen = {} /\ Copies = {}
  BY DEF ImInit, Copies
<1>3. PICK r \in ImRequests :
          imWork = [organizer |-> [q \in ImRequests |->
                        IF q = r THEN [pc |-> "send", mail |-> [method |-> "REQUEST", one |-> FALSE,
                                                                row |-> FirstRow]] ELSE ImIdle],
                    attendee |-> [q \in ImRequests |-> ImIdle]]
  BY DEF ImInit
<1>4. ImTyped
  BY <1>1, <1>2, <1>3 DEF ImTyped
<1>5. Older(FirstRow)
  BY <1>1, <1>2 DEF Older, Row
<1>6. OrganizerKnows
  <2>1. [method |-> "REQUEST", one |-> FALSE, row |-> FirstRow] \in Mail
    BY <1>1 DEF Mail
  <2> QED
    BY <1>3, <1>5, <2>1 DEF OrganizerKnows, ImIdle
<1>7. AttendeeKnows
  BY <1>3 DEF AttendeeKnows, ImIdle
<1> QED
  BY <1>2, <1>4, <1>6, <1>7 DEF ImInv, MailsAreOlder, CopyIsBetween

(* One request of one person goes on. *)
LEMMA PersonGoes ==
  ASSUME ImTyped, NEW p \in {"organizer", "attendee"}, NEW r \in ImRequests, NEW rec, Busy(p, r, rec)
  PROVE  /\ DOMAIN imWork' = {"organizer", "attendee"}
         /\ \A q \in {"organizer", "attendee"} : DOMAIN imWork'[q] = ImRequests
         /\ imWork'[p][r] = rec
         /\ \A q \in {"organizer", "attendee"} \ {p} : imWork'[q] = imWork[q]
  BY DEF Busy, ImTyped

(* A step of the organizer that leaves the event as it is, or brings it to *)
(* a later version.                                                        *)
LEMMA OrganizerGoes ==
  ASSUME ImInv, OneAtATime, NEW r \in ImRequests, NEW rec, Busy("organizer", r, rec),
         UNCHANGED <<imCopies, imSeen>>, imEvent' \in Row \cup {NoRow},
         imEvent' # NoRow => \/ imEvent # NoRow /\ imEvent'.seq = imEvent.seq /\ imEvent'.at = imEvent.at
                             \/ imEvent # NoRow /\ imEvent'.seq = imEvent.seq + 1,
         imMail' \subseteq Mail,
         \A m \in imMail' : m.method = "REQUEST" => m \in imMail \/ Older(m.row)',
         rec.pc \in {"idle", "send", "edit", "reply"},
         rec.pc = "send" => rec.mail \in Mail /\ (rec.mail.method = "REQUEST" => Older(rec.mail.row)'),
         rec.pc = "edit" => rec.row \in Row /\ rec.row = imEvent' /\ rec.op \in ImEdits,
         rec.pc = "reply" => rec.row \in Row /\ imEvent' # NoRow /\ rec.row.seq = imEvent'.seq /\ rec.row.at = imEvent'.at
  PROVE  ImInv'
<1>1. \A q \in ImRequests : q = r
  BY DEF OneAtATime
<1>2. /\ DOMAIN imWork' = {"organizer", "attendee"} /\ \A q \in {"organizer", "attendee"} : DOMAIN imWork'[q] = ImRequests
      /\ imWork'["organizer"][r] = rec /\ imWork'["attendee"] = imWork["attendee"]
  BY PersonGoes DEF ImInv
<1>3. \A row \in Row : Older(row) => Older(row)'
  BY DEF Older, Row, ImInv, ImTyped
<1>4. ImTyped'
  BY <1>2 DEF ImInv, ImTyped
<1>5. MailsAreOlder'
  BY <1>3 DEF ImInv, MailsAreOlder, Mail
<1>6. Copies' = Copies /\ \A k \in Copies : imCopies[k] \in Row
  BY DEF Copies, ImInv, ImTyped
<1>7. CopyIsBetween'
  BY <1>3, <1>6 DEF ImInv, CopyIsBetween
<1>8. OrganizerKnows'
  BY <1>1, <1>2 DEF OrganizerKnows
<1>9. AttendeeKnows'
  BY <1>2, <1>3, <1>6 DEF ImInv, AttendeeKnows, Mail
<1> QED
  BY <1>4, <1>5, <1>7, <1>8, <1>9 DEF ImInv

(* A step of the attendee: the copies change as CopyIsBetween allows.      *)
LEMMA AttendeeGoes ==
  ASSUME ImInv, OneAtATime, NEW r \in ImRequests, NEW rec, Busy("attendee", r, rec),
         imEvent' = imEvent, imMail' \subseteq Mail,
         \A m \in imMail' : m.method = "REQUEST" => m \in imMail,
         imCopies' \in Seq(Row \cup {NoRow}), imSeen' \subseteq Nat, CopyIsBetween',
         rec.pc \in {"idle", "send", "open", "answer"},
         rec.pc = "send" => rec.mail \in Mail /\ rec.mail.method = "REPLY",
         rec.pc = "open" =>
              /\ rec.mail \in Mail /\ (rec.mail.method = "REQUEST" => Older(rec.mail.row))
              /\ rec.k = 0 => Copies' = {}
              /\ rec.k # 0 => rec.k \in Copies' /\ rec.row = imCopies'[rec.k],
         rec.pc = "answer" =>
              /\ rec.mail \in Mail /\ rec.mail.method = "REPLY"
              /\ rec.k \in Copies' /\ rec.row = imCopies'[rec.k]
              /\ rec.mail.row.seq = rec.row.seq /\ rec.mail.row.at = rec.row.at /\ rec.mail.row.series = rec.row.series
  PROVE  ImInv'
<1>1. \A q \in ImRequests : q = r
  BY DEF OneAtATime
<1>2. /\ DOMAIN imWork' = {"organizer", "attendee"} /\ \A q \in {"organizer", "attendee"} : DOMAIN imWork'[q] = ImRequests
      /\ imWork'["attendee"][r] = rec /\ imWork'["organizer"] = imWork["organizer"]
  BY PersonGoes DEF ImInv
<1>3. ImTyped'
  BY <1>2 DEF ImInv, ImTyped
<1>4. MailsAreOlder'
  BY DEF ImInv, MailsAreOlder, Older
<1>5. OrganizerKnows'
  BY <1>2 DEF ImInv, OrganizerKnows, Older
<1>6. AttendeeKnows'
  BY <1>1, <1>2 DEF AttendeeKnows, Older
<1> QED
  BY <1>3, <1>4, <1>5, <1>6 DEF ImInv

LEMMA MovedRow ==
  ASSUME NEW row \in Row
  PROVE  Edited("move", row) \in Row /\ Edited("move", row).seq = row.seq + 1
<1>1. Edited("move", row) = [row EXCEPT !.seq = @ + 1, !.at = @ + 1, !.st = Asked]
  BY DEF Edited, SingleDate
<1>2. row = [seq |-> row.seq, at |-> row.at, ex |-> row.ex, series |-> row.series, st |-> row.st]
      /\ row.seq \in Nat /\ row.at \in Int /\ row.ex \in BOOLEAN /\ row.series \in BOOLEAN
  BY DEF Row
<1>3. Edited("move", row) = [seq |-> row.seq + 1, at |-> row.at + 1, ex |-> row.ex, series |-> row.series, st |-> Asked]
  BY <1>1, <1>2
<1> QED
  BY <1>2, <1>3 DEF Row

LEMMA OrganizerStep ==
  ASSUME ImInv, OneAtATime, NEW r \in ImRequests,
         \/ SendOrLose("organizer", r) \/ (\E op \in ImEdits : EditReads(r, op)) \/ EditWrites(r)
         \/ (\E m \in imMail : ReplyReads(r, m)) \/ ReplyWrites(r)
  PROVE  ImInv'
<1> DEFINE w == imWork["organizer"][r]
<1>0. /\ imEvent \in Row \cup {NoRow} /\ imMail \subseteq Mail
      /\ imEvent # NoRow => imEvent \in Row
      /\ \A m \in imMail : m.method = "REQUEST" => Older(m.row)
      /\ w.pc = "send" => w.mail \in Mail /\ (w.mail.method = "REQUEST" => Older(w.mail.row))
      /\ w.pc = "edit" => w.row \in Row /\ w.row = imEvent /\ w.op \in ImEdits
      /\ w.pc = "reply" => w.row \in Row /\ imEvent # NoRow /\ w.row.seq = imEvent.seq /\ w.row.at = imEvent.at
  BY DEF ImInv, ImTyped, MailsAreOlder, OrganizerKnows
<1>1. UNCHANGED <<imCopies, imSeen>>
  BY DEF SendOrLose, EditReads, EditWrites, ReplyReads, ReplyWrites
<1>2. CASE SendOrLose("organizer", r)
  <2>1. /\ Busy("organizer", r, ImIdle) /\ imEvent' = imEvent /\ imMail' \subseteq imMail \cup {w.mail}
        /\ w.mail \in Mail /\ (w.mail.method = "REQUEST" => Older(w.mail.row))
    BY <1>0, <1>2 DEF SendOrLose
  <2>2. \A m \in imMail' : m \in Mail /\ (m.method = "REQUEST" => m \in imMail \/ Older(m.row)')
    BY <1>0, <2>1 DEF Older
  <2>3. ImIdle.pc = "idle"
    BY DEF ImIdle
  <2> HIDE DEF w
  <2> QED
    BY <1>0, <1>1, <2>1, <2>2, <2>3, OrganizerGoes
<1>3. ASSUME NEW op \in ImEdits, EditReads(r, op) PROVE ImInv'
  <2> DEFINE rec == [pc |-> "edit", op |-> op, row |-> imEvent]
  <2>1. Busy("organizer", r, rec) /\ imEvent # NoRow /\ UNCHANGED <<imEvent, imMail>>
    BY <1>3 DEF EditReads
  <2>2. rec.pc = "edit" /\ rec.op = op /\ rec.row = imEvent
    OBVIOUS
  <2> HIDE DEF rec, w
  <2> QED
    BY <1>0, <1>1, <2>1, <2>2, OrganizerGoes
<1>4. CASE EditWrites(r)
  <2>0. w.pc = "edit" /\ w.row \in Row /\ w.row = imEvent /\ w.op \in ImEdits
        /\ w.op \in {"retitle", "move", "cancel one", "override", "move one", "delete"}
    BY <1>0, <1>4, ImipAssumption DEF EditWrites
  <2>1. imEvent # NoRow /\ imEvent \in Row
    BY <2>0, RowIsThere
  <2>a. PICK op, mail : op = w.op /\ mail = Announced(op, imEvent)
    OBVIOUS
  <2> DEFINE rec == [pc |-> "send", mail |-> mail]
  <2>2. imEvent' = Edited(op, imEvent) /\ Busy("organizer", r, rec) /\ imMail' = imMail
    BY <1>4, <2>0, <2>1, <2>a DEF EditWrites
  <2>3. CASE op = "retitle" \/ op = "move"
    <3>1. imEvent' \in Row /\ imEvent'.seq = imEvent.seq + 1
      <4>1. CASE op = "retitle"
        <5>1. imEvent' = [imEvent EXCEPT !.seq = @ + 1]
          BY <2>2, <4>1 DEF Edited, SingleDate
        <5> QED
          BY <2>1, <5>1 DEF Row
      <4>2. CASE op = "move"
        BY <2>1, <2>2, <4>2, MovedRow
      <4> QED
        BY <2>3, <4>1, <4>2
    <3>2. mail \in Mail /\ mail.row = imEvent'
      BY <2>1, <2>2, <2>3, <2>a, <3>1 DEF Announced, Mail
    <3>3. Older(mail.row)'
      BY <3>1, <3>2 DEF Older, Row
    <3>4. rec.pc = "send" /\ rec.mail = mail
      OBVIOUS
    <3> HIDE DEF rec, w
    <3> QED
      BY <1>0, <1>1, <2>1, <2>2, <3>1, <3>2, <3>3, <3>4, OrganizerGoes
  <2>4. CASE op = "override" \/ op = "cancel one" \/ op = "move one"
    <3>1. imEvent' \in Row /\ imEvent'.seq = imEvent.seq /\ imEvent'.at = imEvent.at
      BY <2>1, <2>2, <2>4 DEF Edited, Row, SingleDate
    <3>2. mail \in Mail /\ mail.row.seq = 0 /\ mail.row.series = FALSE
      <4>1. CASE op = "override"
        BY <2>1, <2>a, <4>1 DEF Announced, Mail, Row
      <4>2. CASE op = "cancel one"
        BY <2>1, <2>a, <4>2 DEF Announced, Mail, Row
      <4>3. CASE op = "move one"
        <5>1. mail.method = "REQUEST" /\ mail.one = TRUE
              /\ mail = [method |-> "REQUEST", one |-> TRUE,
                         row |-> [imEvent EXCEPT !.seq = 0, !.series = FALSE, !.at = Elsewhere, !.st = Asked]]
          BY <2>a, <4>3 DEF Announced
        <5>2. Elsewhere \in Int
          BY DEF Elsewhere
        <5> QED
          BY <2>1, <5>1, <5>2 DEF Mail, Row
      <4> QED
        BY <2>4, <4>1, <4>2, <4>3
    <3>3. Older(mail.row)'
      BY <3>1, <3>2 DEF Older, Row
    <3>4. rec.pc = "send" /\ rec.mail = mail
      OBVIOUS
    <3> HIDE DEF rec, w
    <3> QED
      BY <1>0, <1>1, <2>1, <2>2, <3>1, <3>2, <3>3, <3>4, OrganizerGoes
  <2>5. CASE op = "delete"
    <3>1. imEvent' = NoRow
      BY <2>2, <2>5 DEF Edited
    <3>2. mail \in Mail /\ mail.method = "CANCEL"
      BY <2>1, <2>5, <2>a DEF Announced, Mail
    <3>3. rec.pc = "send" /\ rec.mail = mail
      OBVIOUS
    <3> HIDE DEF rec, w
    <3> QED
      BY <1>0, <1>1, <2>2, <3>1, <3>2, <3>3, OrganizerGoes
  <2> QED
    BY <2>0, <2>a, <2>3, <2>4, <2>5
<1>5. ASSUME NEW m \in imMail, ReplyReads(r, m) PROVE ImInv'
  <2> DEFINE row == [imEvent EXCEPT !.st = m.row.st]
             rec == [pc |-> "reply", row |-> row]
  <2>1. Busy("organizer", r, rec) /\ imEvent # NoRow /\ UNCHANGED <<imEvent, imMail>>
    BY <1>5 DEF ReplyReads
  <2>2. row \in Row /\ row.seq = imEvent.seq /\ row.at = imEvent.at
    BY <1>0, <2>1 DEF Row, Mail
  <2>3. rec.pc = "reply" /\ rec.row = row
    OBVIOUS
  <2> HIDE DEF rec, row, w
  <2> QED
    BY <1>0, <1>1, <2>1, <2>2, <2>3, OrganizerGoes
<1>6. CASE ReplyWrites(r)
  <2>1. Busy("organizer", r, ImIdle) /\ imMail' = imMail /\ imEvent # NoRow /\ imEvent' = w.row
        /\ w.row \in Row /\ w.row.seq = imEvent.seq /\ w.row.at = imEvent.at
    BY <1>0, <1>6 DEF ReplyWrites
  <2>2. ImIdle.pc = "idle"
    BY DEF ImIdle
  <2> HIDE DEF w
  <2> QED
    BY <1>0, <1>1, <2>1, <2>2, OrganizerGoes
<1> QED
  BY <1>2, <1>3, <1>4, <1>5, <1>6

(* What the copies become. *)
LEMMA WrittenCopy ==
  ASSUME ImInv, NEW k \in Copies, NEW row \in Row, WriteCopy(k, row)
  PROVE  imCopies' \in Seq(Row \cup {NoRow}) /\ Copies' = Copies /\ Copies = {k} /\ imCopies'[k] = row
<1>1. imCopies \in Seq(Row \cup {NoRow}) /\ k \in DOMAIN imCopies /\ imCopies[k] # NoRow /\ Copies = {k}
  BY DEF ImInv, ImTyped, Copies, CopyIsBetween
<1>2. imCopies' = [imCopies EXCEPT ![k] = row]
  BY <1>1 DEF WriteCopy
<1>3. row # NoRow
  BY RowIsThere
<1>4. imCopies' \in Seq(Row \cup {NoRow}) /\ DOMAIN imCopies' = DOMAIN imCopies
      /\ imCopies'[k] = row /\ \A j \in DOMAIN imCopies \ {k} : imCopies'[j] = imCopies[j]
  BY <1>1, <1>2
<1> QED
  BY <1>1, <1>3, <1>4 DEF Copies

LEMMA RemovedCopies ==
  ASSUME ImInv, imCopies' = [k \in DOMAIN imCopies |-> NoRow], imSeen' = {}
  PROVE  imCopies' \in Seq(Row \cup {NoRow}) /\ Copies' = {} /\ CopyIsBetween'
<1>1. imCopies \in Seq(Row \cup {NoRow})
  BY DEF ImInv, ImTyped
<1>2. imCopies' \in Seq(Row \cup {NoRow})
  BY <1>1
<1>3. Copies' = {}
  BY DEF Copies
<1> QED
  BY <1>2, <1>3 DEF CopyIsBetween

LEMMA AttendeeStep ==
  ASSUME ImInv, OneAtATime, NEW r \in ImRequests,
         \/ SendOrLose("attendee", r) \/ (\E m \in imMail : OpenReads(r, m))
         \/ UpdateCopy(r) \/ InsertCopy(r) \/ CancelCopy(r) \/ DropCopy(r)
         \/ (\E st \in {"accepted", "declined"}, one \in BOOLEAN : AnswerReads(r, st, one)) \/ AnswerWrites(r)
  PROVE  ImInv'
<1> DEFINE w == imWork["attendee"][r]
<1>0. /\ imCopies \in Seq(Row \cup {NoRow}) /\ imMail \subseteq Mail /\ imSeen \subseteq Nat
      /\ \A m \in imMail : m.method = "REQUEST" => Older(m.row)
      /\ \A k \in Copies : imCopies[k] \in Row
      /\ CopyIsBetween
  BY DEF ImInv, ImTyped, MailsAreOlder, Copies
<1>a. /\ w.pc = "send" => w.mail \in Mail /\ w.mail.method = "REPLY"
      /\ w.pc = "open" =>
              /\ w.mail \in Mail /\ w.mail.row \in Row /\ (w.mail.method = "REQUEST" => Older(w.mail.row))
              /\ w.k = 0 => Copies = {}
              /\ w.k # 0 => w.k \in Copies /\ w.row = imCopies[w.k]
      /\ w.pc = "answer" =>
              /\ w.mail \in Mail /\ w.mail.row \in Row /\ w.mail.method = "REPLY"
              /\ w.k \in Copies /\ w.row = imCopies[w.k]
              /\ w.mail.row.seq = w.row.seq /\ w.mail.row.at = w.row.at /\ w.mail.row.series = w.row.series
  BY DEF ImInv, AttendeeKnows, Mail
<1>b. ImIdle.pc = "idle"
  BY DEF ImIdle
<1>c. imEvent' = imEvent
  BY DEF SendOrLose, OpenReads, UpdateCopy, InsertCopy, CancelCopy, DropCopy, AnswerReads, AnswerWrites
<1>d. UNCHANGED <<imCopies, imSeen>> => CopyIsBetween' /\ Copies' = Copies
  BY <1>0, <1>c DEF CopyIsBetween, Copies, Older
<1>2. CASE SendOrLose("attendee", r)
  <2>1. /\ Busy("attendee", r, ImIdle) /\ UNCHANGED <<imCopies, imSeen>> /\ imMail' \subseteq imMail \cup {w.mail}
        /\ w.mail \in Mail /\ w.mail.method = "REPLY"
    BY <1>2, <1>a DEF SendOrLose
  <2>2. imMail' \subseteq Mail /\ \A m \in imMail' : m.method = "REQUEST" => m \in imMail
    BY <1>0, <2>1
  <2> HIDE DEF w
  <2> QED
    BY <1>0, <1>b, <1>c, <1>d, <2>1, <2>2, AttendeeGoes
<1>3. ASSUME NEW m \in imMail, OpenReads(r, m) PROVE ImInv'
  <2>1. PICK k \in IF Copies = {} THEN {0} ELSE Copies :
          Busy("attendee", r, [pc |-> "open", mail |-> m, k |-> k, row |-> IF k = 0 THEN NoRow ELSE imCopies[k]])
    BY <1>3 DEF OpenReads
  <2>2. UNCHANGED <<imCopies, imSeen, imMail>>
    BY <1>3 DEF OpenReads
  <2>3. PICK rec : rec = [pc |-> "open", mail |-> m, k |-> k, row |-> IF k = 0 THEN NoRow ELSE imCopies[k]]
    OBVIOUS
  <2>4. rec.pc = "open" /\ rec.mail = m /\ rec.k = k /\ (k # 0 => rec.row = imCopies[k]) /\ Busy("attendee", r, rec)
    BY <2>1, <2>3
  <2>5. (k = 0 => Copies = {}) /\ (k # 0 => k \in Copies)
    <3>1. 0 \notin Copies
      BY <1>0 DEF Copies
    <3> QED
      BY <2>1, <3>1
  <2> QED
    BY <1>0, <1>c, <1>d, <2>2, <2>4, <2>5, AttendeeGoes
<1>4. CASE UpdateCopy(r)
  <2>1. /\ w.pc = "open" /\ w.mail.method = "REQUEST" /\ w.k # 0 /\ Busy("attendee", r, ImIdle)
        /\ imSeen' = (IF w.mail.one THEN imSeen ELSE imSeen \cup {w.mail.row.seq}) /\ imMail' = imMail
        /\ IF IsStale(w.mail, w.row) THEN UNCHANGED imCopies ELSE WriteCopy(w.k, w.mail.row)
    BY <1>4 DEF UpdateCopy
  <2>2. PICK k, row, new : k = w.k /\ row = w.row /\ new = w.mail.row
    OBVIOUS
  <2>3. /\ new \in Row /\ Older(new) /\ k \in Copies /\ row = imCopies[k] /\ row \in Row
        /\ imSeen' \subseteq imSeen \cup {new.seq}
        /\ IF new.seq < row.seq THEN UNCHANGED imCopies ELSE WriteCopy(k, new)
        /\ new.seq \in Nat /\ row.seq \in Nat
    BY <1>0, <1>a, <2>1, <2>2, RowIsThere DEF IsStale
  <2>4. CASE new.seq < row.seq
    <3>1. Copies' = Copies /\ imCopies' = imCopies
      BY <2>3, <2>4 DEF Copies
    <3>2. \A j \in Copies : j = k
      BY <1>0, <2>3 DEF CopyIsBetween
    <3>3. \A n \in imSeen' : n <= row.seq
      BY <1>0, <2>3, <2>4 DEF CopyIsBetween
    <3>4. Older(row) /\ (Older(row) <=> Older(row)')
      BY <1>0, <1>c, <2>3 DEF CopyIsBetween, Older
    <3>5. CopyIsBetween'
      BY <2>3, <3>1, <3>2, <3>3, <3>4 DEF CopyIsBetween
    <3> QED
      BY <1>0, <1>b, <1>c, <2>1, <2>3, <3>1, <3>5, AttendeeGoes
  <2>5. CASE ~(new.seq < row.seq)
    <3>1. imCopies' \in Seq(Row \cup {NoRow}) /\ Copies' = Copies /\ Copies = {k} /\ imCopies'[k] = new
      BY <2>3, <2>5, WrittenCopy
    <3>2. \A n \in imSeen' : n <= new.seq
      <4>1. \A n \in imSeen : n \in Nat /\ n <= row.seq
        BY <1>0, <2>3 DEF CopyIsBetween
      <4>2. row.seq <= new.seq /\ new.seq <= new.seq
        BY <2>3, <2>5
      <4>3. \A n \in imSeen : n <= new.seq
        BY <2>3, <4>1, <4>2
      <4> QED
        BY <2>3, <4>2, <4>3
    <3>3. CopyIsBetween'
      BY <1>c, <2>3, <3>1, <3>2 DEF CopyIsBetween, Older
    <3> QED
      BY <1>0, <1>b, <1>c, <2>1, <2>3, <3>1, <3>3, AttendeeGoes
  <2> QED
    BY <2>4, <2>5
<1>5. CASE InsertCopy(r)
  <2>1. /\ w.pc = "open" /\ w.mail.method = "REQUEST" /\ w.k = 0 /\ Busy("attendee", r, ImIdle) /\ imMail' = imMail
        /\ imCopies' = IF w.mail.one THEN imCopies ELSE Append(imCopies, w.mail.row)
        /\ imSeen' = IF w.mail.one THEN imSeen ELSE imSeen \cup {w.mail.row.seq}
    BY <1>5 DEF InsertCopy
  <2>2. CASE w.mail.one
    BY <1>0, <1>b, <1>c, <1>d, <2>1, <2>2, AttendeeGoes
  <2>3. CASE ~w.mail.one
    <3>1. PICK new : new = w.mail.row
      OBVIOUS
    <3>2. new \in Row /\ Older(new) /\ new # NoRow /\ new.seq \in Nat /\ Copies = {} /\ imSeen = {}
      BY <1>0, <1>a, <2>1, <3>1, RowIsThere DEF CopyIsBetween
    <3>3. imCopies' = Append(imCopies, new) /\ imSeen' = {new.seq}
      BY <2>1, <2>3, <3>1, <3>2
    <3>4. PICK k : k = Len(imCopies) + 1
      OBVIOUS
    <3>5. imCopies' \in Seq(Row \cup {NoRow}) /\ DOMAIN imCopies' = DOMAIN imCopies \cup {k}
          /\ k \notin DOMAIN imCopies
          /\ imCopies'[k] = new /\ \A j \in DOMAIN imCopies : imCopies'[j] = imCopies[j]
      BY <1>0, <3>2, <3>3, <3>4
    <3>6. Copies' = {k}
      BY <3>2, <3>5 DEF Copies
    <3>7. CopyIsBetween'
      BY <1>c, <3>2, <3>3, <3>5, <3>6 DEF CopyIsBetween, Older
    <3> QED
      BY <1>0, <1>b, <1>c, <2>1, <3>2, <3>3, <3>5, <3>7, AttendeeGoes
  <2> QED
    BY <2>2, <2>3
<1>6. CASE CancelCopy(r)
  <2>1. /\ w.pc = "open" /\ w.mail.method = "CANCEL" /\ Busy("attendee", r, ImIdle) /\ imMail' = imMail
        /\ \/ UNCHANGED <<imCopies, imSeen>>
           \/ w.k # 0 /\ WriteCopy(w.k, [w.row EXCEPT !.ex = TRUE]) /\ imSeen' = imSeen
           \/ imCopies' = [k \in DOMAIN imCopies |-> NoRow] /\ imSeen' = {}
    BY <1>6 DEF CancelCopy
  <2>2. CASE UNCHANGED <<imCopies, imSeen>>
    BY <1>0, <1>b, <1>c, <1>d, <2>1, <2>2, AttendeeGoes
  <2>3. CASE w.k # 0 /\ WriteCopy(w.k, [w.row EXCEPT !.ex = TRUE]) /\ imSeen' = imSeen
    <3>1. PICK k, row, new : k = w.k /\ row = w.row /\ new = [row EXCEPT !.ex = TRUE]
      OBVIOUS
    <3>2. k \in Copies /\ row = imCopies[k] /\ row \in Row /\ WriteCopy(k, new)
      BY <1>0, <1>a, <2>1, <2>3, <3>1
    <3>3. new \in Row /\ new.seq = row.seq /\ new.at = row.at /\ new.series = row.series
      BY <3>1, <3>2 DEF Row
    <3>4. imCopies' \in Seq(Row \cup {NoRow}) /\ Copies' = Copies /\ Copies = {k} /\ imCopies'[k] = new
      BY <3>2, <3>3, WrittenCopy
    <3>5. CopyIsBetween'
      BY <1>0, <1>c, <2>3, <3>2, <3>3, <3>4 DEF CopyIsBetween, Older
    <3> QED
      BY <1>0, <1>b, <1>c, <2>1, <2>3, <3>4, <3>5, AttendeeGoes
  <2>4. CASE imCopies' = [k \in DOMAIN imCopies |-> NoRow] /\ imSeen' = {}
    BY <1>0, <1>b, <1>c, <2>1, <2>4, RemovedCopies, AttendeeGoes
  <2> QED
    BY <2>1, <2>2, <2>3, <2>4
<1>7. CASE DropCopy(r)
  <2>1. w = ImIdle /\ imCopies' = [k \in DOMAIN imCopies |-> NoRow] /\ imSeen' = {} /\ UNCHANGED <<imMail, imWork>>
    BY <1>7 DEF DropCopy
  <2>2. \A q \in ImRequests : imWork'["attendee"][q].pc = "idle"
    BY <1>b, <2>1 DEF OneAtATime
  <2>3. AttendeeKnows'
    BY <2>2 DEF AttendeeKnows
  <2>4. ImTyped'
    BY <1>c, <2>1, RemovedCopies DEF ImInv, ImTyped
  <2>5. MailsAreOlder' /\ OrganizerKnows'
    BY <1>c, <2>1 DEF ImInv, MailsAreOlder, OrganizerKnows, Older
  <2> QED
    BY <2>1, <2>3, <2>4, <2>5, RemovedCopies DEF ImInv
<1>8. ASSUME NEW st \in {"accepted", "declined"}, NEW one \in BOOLEAN, AnswerReads(r, st, one) PROVE ImInv'
  <2>1. PICK k \in Copies :
          Busy("attendee", r, [pc |-> "answer", k |-> k, row |-> imCopies[k],
                               mail |-> [method |-> "REPLY", one |-> one, row |-> [imCopies[k] EXCEPT !.st = st]]])
    BY <1>8 DEF AnswerReads
  <2>2. UNCHANGED <<imCopies, imSeen, imMail>>
    BY <1>8 DEF AnswerReads
  <2>3. PICK row, new, mail, rec :
          /\ row = imCopies[k] /\ new = [row EXCEPT !.st = st]
          /\ mail = [method |-> "REPLY", one |-> one, row |-> new]
          /\ rec = [pc |-> "answer", k |-> k, row |-> row, mail |-> mail]
    OBVIOUS
  <2>4. row \in Row
    BY <1>0, <2>3
  <2>5. new \in Row /\ new.seq = row.seq /\ new.at = row.at /\ new.series = row.series
    BY <2>3, <2>4 DEF Row
  <2>6. mail \in Mail /\ mail.method = "REPLY" /\ mail.row = new
    BY <2>3, <2>5 DEF Mail
  <2>7. Busy("attendee", r, rec) /\ rec.pc = "answer" /\ rec.k = k /\ rec.row = row /\ rec.mail = mail
    BY <2>1, <2>3
  <2>8. /\ rec.mail.row.seq = rec.row.seq /\ rec.mail.row.at = rec.row.at /\ rec.mail.row.series = rec.row.series
        /\ rec.k \in Copies /\ rec.row = imCopies[rec.k] /\ rec.mail \in Mail /\ rec.mail.method = "REPLY"
    BY <2>3, <2>5, <2>6, <2>7
  <2> HIDE DEF w
  <2> QED
    BY <1>0, <1>c, <1>d, <2>2, <2>7, <2>8, AttendeeGoes
<1>9. CASE AnswerWrites(r)
  <2>1. /\ w.pc = "answer" /\ Busy("attendee", r, [pc |-> "send", mail |-> w.mail]) /\ UNCHANGED <<imMail, imSeen>>
        /\ IF w.mail.one THEN WriteCopy(w.k, [w.row EXCEPT !.ex = TRUE]) ELSE WriteCopy(w.k, w.mail.row)
    BY <1>9 DEF AnswerWrites
  <2>2. PICK k, row, mail, new, rec :
          /\ k = w.k /\ row = w.row /\ mail = w.mail
          /\ new = (IF mail.one THEN [row EXCEPT !.ex = TRUE] ELSE mail.row)
          /\ rec = [pc |-> "send", mail |-> mail]
    OBVIOUS
  <2>3. /\ k \in Copies /\ row = imCopies[k] /\ row \in Row /\ mail \in Mail /\ mail.method = "REPLY"
        /\ mail.row \in Row /\ mail.row.seq = row.seq /\ mail.row.at = row.at /\ mail.row.series = row.series
    BY <1>0, <1>a, <2>1, <2>2
  <2>4. new \in Row /\ new.seq = row.seq /\ new.at = row.at /\ new.series = row.series
    BY <2>2, <2>3 DEF Row
  <2>5. WriteCopy(k, new)
    BY <2>1, <2>2
  <2>6. imCopies' \in Seq(Row \cup {NoRow}) /\ Copies' = Copies /\ Copies = {k} /\ imCopies'[k] = new
    BY <2>3, <2>4, <2>5, WrittenCopy
  <2>7. CopyIsBetween'
    BY <1>0, <1>c, <2>1, <2>3, <2>4, <2>6 DEF CopyIsBetween, Older
  <2>8. Busy("attendee", r, rec) /\ rec.pc = "send" /\ rec.mail = mail
    BY <2>1, <2>2
  <2> HIDE DEF w
  <2> QED
    BY <1>0, <1>c, <2>1, <2>3, <2>6, <2>7, <2>8, AttendeeGoes
<1> QED
  BY <1>2, <1>3, <1>4, <1>5, <1>6, <1>7, <1>8, <1>9

(* Where one person's requests do not overlap, the copy has the version    *)
(* and time of the organizer's last change of the series once its mail was *)
(* opened, and older mails do not take it back, in whatever order they are *)
(* opened and however many are lost.  A copy that the mail of a single     *)
(* date has turned into that date has its time until the first such change.*)
THEOREM LatestIsApplied == OneAtATime => (ImSpec => []LatestApplied)
<1> SUFFICES ASSUME OneAtATime PROVE ImSpec => []LatestApplied
  OBVIOUS
<1>1. ImInv /\ [ImNext]_imVars => ImInv'
  <2>1. ASSUME ImInv, UNCHANGED imVars PROVE ImInv'
    <3>1. UNCHANGED <<imEvent, imCopies, imMail, imSeen, imWork>>
      BY <2>1 DEF imVars
    <3>2. Copies' = Copies /\ \A row : Older(row) <=> Older(row)'
      BY <3>1 DEF Copies, Older
    <3>3. ImTyped' /\ MailsAreOlder'
      BY <2>1, <3>1, <3>2 DEF ImInv, ImTyped, MailsAreOlder
    <3>4. CopyIsBetween'
      BY <2>1, <3>1, <3>2 DEF ImInv, CopyIsBetween
    <3>5. OrganizerKnows'
      BY <2>1, <3>1, <3>2 DEF ImInv, OrganizerKnows
    <3>6. AttendeeKnows'
      BY <2>1, <3>1, <3>2 DEF ImInv, AttendeeKnows
    <3> QED
      BY <3>3, <3>4, <3>5, <3>6 DEF ImInv
  <2> QED
    BY <2>1, OrganizerStep, AttendeeStep DEF ImNext
<1>2. ImInv => LatestApplied
  <2> SUFFICES ASSUME ImInv, imEvent.seq \in imSeen, NEW k \in Copies
               PROVE  /\ imCopies[k].seq = imEvent.seq
                      /\ imCopies[k].series \/ imEvent.seq # 0 => imCopies[k].at = imEvent.at
    BY DEF LatestApplied
  <2>0. imCopies \in Seq(Row \cup {NoRow}) /\ k \in DOMAIN imCopies /\ imCopies[k] # NoRow
    BY DEF ImInv, ImTyped, Copies
  <2>1. imSeen \subseteq Nat /\ imEvent \in Row \cup {NoRow} /\ imCopies[k] \in Row /\ imEvent.seq \in Nat
    <3>1. imSeen \subseteq Nat /\ imEvent \in Row \cup {NoRow}
      BY DEF ImInv, ImTyped
    <3>2. imEvent.seq \in imSeen
      OBVIOUS
    <3>3. imCopies[k] \in Row \cup {NoRow}
      BY <2>0
    <3> QED
      BY <2>0, <3>1, <3>2, <3>3
  <2>2. imEvent # NoRow
    BY <2>1 DEF NoRow
  <2>3. imCopies[k].seq \in Nat /\ imCopies[k].seq <= imEvent.seq /\ imEvent.seq <= imCopies[k].seq
    BY <2>1, <2>2, RowIsThere DEF ImInv, CopyIsBetween, Older
  <2> QED
    BY <2>1, <2>2, <2>3 DEF ImInv, CopyIsBetween, Older
<1> QED
  BY <1>1, <1>2, ImStarts, PTL DEF ImSpec

-----------------------------------------------------------------------------
(* The synchronisation of a subscribed calendar or address book            *)

Stages == {"start", "locked", "running", "fetched", "apply", "done", "failed", "release"}

(* What is needed of the types: who may be at the lock, and that a run is  *)
(* at one of its stages, with the token it found when it is about to       *)
(* delete the lock.                                                        *)
FsTypeOK ==
    /\ fsLock \in FsSyncers \cup {"free", "dead"}
    /\ \A s \in FsSyncers : fsRun[s] = NoRun \/ fsRun[s].pc \in Stages
    /\ \A s \in FsSyncers : fsRun[s].pc = "release" => fsRun[s].held = TRUE
    /\ DOMAIN fsRun = FsSyncers
    /\ \A s \in FsSyncers : "pc" \in DOMAIN fsRun[s]

(* A run at work holds the lock or has lost it. *)
HoldsOrLost == \A s \in FsSyncers : AtWork(s) => fsLock = s \/ s \in fsLost

(* The stretch in which the status says so. *)
Running(s) == fsRun[s].pc \in {"running", "fetched", "apply"}

(* The status is "running" only while a run that wrote it is at work, and  *)
(* a user has read it so only when a run was going on.                     *)
StatusBehind ==
    /\ fsStuck \in BOOLEAN
    /\ fsStatus = "running" => fsStuck \/ \E s \in FsSyncers : Running(s)
    /\ fsUser = "running" => fsStuck

FsInv == FsTypeOK /\ HoldsOrLost /\ StatusBehind

(* The run of one process changes and those of the others do not. *)
LEMMA RunGoes ==
  ASSUME FsTypeOK, NEW s \in FsSyncers, NEW run, FsGoes(s, run)
  PROVE  /\ fsRun'[s] = run /\ DOMAIN fsRun' = FsSyncers
         /\ \A t \in FsSyncers \ {s} : fsRun'[t] = fsRun[t]
  BY DEF FsTypeOK, FsGoes

-----------------------------------------------------------------------------
LEMMA FsStarts == FsInit => FsInv
<1> SUFFICES ASSUME FsInit PROVE FsInv
  OBVIOUS
<1>1. \A s \in FsSyncers : fsRun[s] = NoRun /\ fsRun[s].pc = "idle" /\ "pc" \in DOMAIN fsRun[s]
  BY DEF FsInit, NoRun
<1>2. FsTypeOK
  BY <1>1 DEF FsInit, FsTypeOK
<1>3. HoldsOrLost
  BY <1>1 DEF HoldsOrLost, AtWork
<1>4. StatusBehind
  BY DEF FsInit, StatusBehind
<1> QED
  BY <1>2, <1>3, <1>4 DEF FsInv

(* The steps of one run that leave the lock alone and keep the run at work *)
(* if it was: nothing can go wrong with the lock.                          *)
LEMMA AtWorkStays ==
  ASSUME FsInv, NEW s \in FsSyncers, NEW run, FsGoes(s, run),
         run = NoRun \/ run.pc \in Stages, "pc" \in DOMAIN run,
         run.pc = "release" => run.held = TRUE,
         run.pc \in {"locked", "running", "fetched", "apply"} => AtWork(s),
         fsLock' = fsLock, fsLost \ {s} \subseteq fsLost',
         run.pc \in {"locked", "running", "fetched", "apply"} => fsLost' = fsLost
  PROVE  FsTypeOK' /\ HoldsOrLost'
<1>1. /\ fsRun'[s] = run /\ DOMAIN fsRun' = FsSyncers
      /\ \A t \in FsSyncers \ {s} : fsRun'[t] = fsRun[t]
  BY RunGoes DEF FsInv
<1>2. FsTypeOK'
  BY <1>1 DEF FsInv, FsTypeOK
<1>3. ASSUME NEW t \in FsSyncers, AtWork(t)'
      PROVE  fsLock' = t \/ t \in fsLost'
  <2>1. CASE t = s
    BY <1>1, <1>3, <2>1 DEF FsInv, HoldsOrLost, AtWork
  <2>2. CASE t # s
    <3>1. AtWork(t)
      BY <1>1, <1>3, <2>2 DEF AtWork
    <3> QED
      BY <3>1, <2>2 DEF FsInv, HoldsOrLost
  <2> QED
    BY <2>1, <2>2
<1> QED
  BY <1>2, <1>3 DEF HoldsOrLost

(* A run that is at work, or was not, leaves the status true. *)
LEMMA StatusStays ==
  ASSUME FsInv, NEW s \in FsSyncers, NEW run, FsGoes(s, run),
         fsStuck' \in BOOLEAN, fsStuck => fsStuck', fsUser' = fsUser,
         fsStatus' \in {fsStatus, "running", "ended"},
         fsStatus' = "running" =>
            run.pc \in {"running", "fetched", "apply"} \/ (~Running(s) /\ fsStatus' = fsStatus) \/ fsStuck'
  PROVE  StatusBehind'
<1>1. fsRun'[s] = run /\ \A t \in FsSyncers \ {s} : fsRun'[t] = fsRun[t]
  BY RunGoes DEF FsInv
<1>2. ASSUME fsStatus' = "running", ~fsStuck'
      PROVE  \E t \in FsSyncers : Running(t)'
  <2>1. CASE run.pc \in {"running", "fetched", "apply"}
    BY <1>1, <2>1 DEF Running
  <2>2. CASE ~Running(s) /\ fsStatus' = fsStatus
    <3>1. PICK t \in FsSyncers : Running(t)
      BY <1>2, <2>2 DEF FsInv, StatusBehind
    <3> QED
      BY <1>1, <2>2, <3>1 DEF Running
  <2> QED
    BY <1>2, <2>1, <2>2
<1>3. fsUser' = "running" => fsStuck'
  BY DEF FsInv, StatusBehind
<1> QED
  BY <1>2, <1>3 DEF StatusBehind

LEMMA FsKeeps == FsInv /\ [FsNext]_fsVars => FsInv'
<1> SUFFICES ASSUME FsInv, [FsNext]_fsVars PROVE FsInv'
  OBVIOUS
<1> USE DEF FsInv
<1>1. CASE UNCHANGED fsVars
  BY <1>1 DEF fsVars, FsTypeOK, HoldsOrLost, StatusBehind, Running, AtWork
<1>2. ASSUME NEW u \in FsUids, FeedRemove(u) \/ \E bump \in {0, 1} : FeedEdit(u, bump)
      PROVE  FsInv'
  BY <1>2 DEF FeedRemove, FeedEdit, FsTypeOK, HoldsOrLost, StatusBehind, Running, AtWork
<1>3. ASSUME NEW s \in FsSyncers, fsRun[s] = NoRun, NEW auto \in BOOLEAN, SyncBegins(s, auto)
      PROVE  FsInv'
  <2> DEFINE run == [pc |-> "start"]
  <2>1. ~AtWork(s)
    BY <1>3 DEF AtWork, NoRun
  <2>2. FsTypeOK' /\ HoldsOrLost'
    BY <1>3, <2>1, AtWorkStays DEF SyncBegins, Stages
  <2>3. fsStuck' \in BOOLEAN /\ (fsStuck => fsStuck') /\ (fsUser = "running" => fsStuck')
    BY <1>3 DEF SyncBegins, StatusBehind
  <2>4. StatusBehind'
    BY <1>3, <2>1, <2>3, StatusStays DEF SyncBegins, AtWork, Running
  <2> QED
    BY <2>2, <2>4
<1>4. ASSUME NEW s \in FsSyncers, fsRun[s] # NoRun, TakeLock(s)
      PROVE  FsInv'
  <2>1. fsRun[s].pc = "start" /\ ~AtWork(s) /\ fsStuck \in BOOLEAN
    BY <1>4 DEF TakeLock, AtWork, StatusBehind
  <2>2. CASE fsLock # "free"
    <3>1. FsTypeOK' /\ HoldsOrLost'
      BY <1>4, <2>2, AtWorkStays DEF TakeLock, FsEnds, NoRun
    <3>2. StatusBehind'
      BY <1>4, <2>1, <2>2, StatusStays DEF TakeLock, FsEnds, AtWork, Running
    <3> QED
      BY <3>1, <3>2
  <2>3. CASE fsLock = "free"
    <3> DEFINE run == [fsRun[s] EXCEPT !.pc = "locked"]
    <3>1. FsGoes(s, run) /\ fsLock' = s /\ fsLost' = fsLost /\ fsStuck' = fsStuck
          /\ fsStatus' = fsStatus /\ fsUser' = fsUser
      BY <1>4, <2>3 DEF TakeLock
    <3>2. run.pc = "locked" /\ "pc" \in DOMAIN run
      BY DEF FsTypeOK
    <3> HIDE DEF run
    <3>3. /\ fsRun'[s] = run /\ DOMAIN fsRun' = FsSyncers
          /\ \A t \in FsSyncers \ {s} : fsRun'[t] = fsRun[t]
      BY <3>1, RunGoes
    <3>4. FsTypeOK'
      BY <3>1, <3>2, <3>3 DEF FsTypeOK, Stages
    <3>5. ASSUME NEW t \in FsSyncers, t # s, AtWork(t)'
          PROVE  t \in fsLost'
      <4>1. AtWork(t)
        BY <3>3, <3>5 DEF AtWork
      <4> QED
        BY <2>3, <3>1, <4>1, FsAssumption DEF HoldsOrLost
    <3>6. HoldsOrLost'
      BY <3>1, <3>5 DEF HoldsOrLost
    <3>7. StatusBehind'
      BY <2>1, <3>1, <3>2, StatusStays DEF AtWork, Running
    <3> QED
      BY <3>4, <3>6, <3>7
  <2> QED
    BY <2>2, <2>3
<1>5. ASSUME NEW s \in FsSyncers, SetRunning(s)
      PROVE  FsInv'
  <2> DEFINE run == [fsRun[s] EXCEPT !.pc = "running"]
  <2>1. run.pc = "running" /\ "pc" \in DOMAIN run /\ AtWork(s) /\ fsStuck \in BOOLEAN
    BY <1>5 DEF FsTypeOK, SetRunning, AtWork, StatusBehind
  <2>2. FsGoes(s, run)
    BY <1>5 DEF SetRunning
  <2> HIDE DEF run
  <2>3. FsTypeOK' /\ HoldsOrLost'
    BY <1>5, <2>1, <2>2, AtWorkStays DEF SetRunning, Stages
  <2>4. StatusBehind'
    BY <1>5, <2>1, <2>2, StatusStays DEF SetRunning
  <2> QED
    BY <2>3, <2>4
<1>6. ASSUME NEW s \in FsSyncers, Fetch(s)
      PROVE  FsInv'
  <2> DEFINE run == [pc |-> "fetched", feed |-> fsFeed]
  <2>1. run.pc = "fetched" /\ "pc" \in DOMAIN run /\ AtWork(s) /\ fsStuck \in BOOLEAN
    BY <1>6 DEF Fetch, AtWork, StatusBehind
  <2>2. FsGoes(s, run)
    BY <1>6 DEF Fetch
  <2> HIDE DEF run
  <2>3. FsTypeOK' /\ HoldsOrLost'
    BY <1>6, <2>1, <2>2, AtWorkStays DEF Fetch, Stages
  <2>4. StatusBehind'
    BY <1>6, <2>1, <2>2, StatusStays DEF Fetch
  <2> QED
    BY <2>3, <2>4
<1>7. ASSUME NEW s \in FsSyncers, ReadMetadata(s)
      PROVE  FsInv'
  <2>1. PICK local : FsGoes(s, [pc |-> "apply", feed |-> fsRun[s].feed, local |-> local, todo |-> FsUids])
    BY <1>7 DEF ReadMetadata
  <2> DEFINE run == [pc |-> "apply", feed |-> fsRun[s].feed, local |-> local, todo |-> FsUids]
  <2>2. run.pc = "apply" /\ "pc" \in DOMAIN run /\ AtWork(s) /\ fsStuck \in BOOLEAN
    BY <1>7 DEF ReadMetadata, AtWork, StatusBehind
  <2>3. FsGoes(s, run)
    BY <2>1
  <2> HIDE DEF run
  <2>4. FsTypeOK' /\ HoldsOrLost'
    BY <1>7, <2>2, <2>3, AtWorkStays DEF ReadMetadata, Stages
  <2>5. StatusBehind'
    BY <1>7, <2>2, <2>3, StatusStays DEF ReadMetadata
  <2> QED
    BY <2>4, <2>5
<1>8. ASSUME NEW s \in FsSyncers, NEW u \in FsUids, ApplyOne(s, u)
      PROVE  FsInv'
  <2> DEFINE run == [fsRun[s] EXCEPT !.todo = @ \ {u}]
  <2>1. fsRun[s].pc = "apply" /\ FsGoes(s, run)
    BY <1>8 DEF ApplyOne
  <2>2. run.pc = "apply" /\ "pc" \in DOMAIN run /\ AtWork(s) /\ fsStuck \in BOOLEAN
    BY <2>1 DEF FsTypeOK, AtWork, StatusBehind
  <2>3. /\ fsStatus' \in {"running", fsStatus}
        /\ UNCHANGED <<fsLock, fsUser, fsLost, fsStuck>>
    BY <1>8 DEF ApplyOne
  <2> HIDE DEF run
  <2>4. FsTypeOK' /\ HoldsOrLost'
    BY <2>1, <2>2, <2>3, AtWorkStays DEF Stages
  <2>5. StatusBehind'
    BY <2>1, <2>2, <2>3, StatusStays
  <2> QED
    BY <2>4, <2>5
<1>9. ASSUME NEW s \in FsSyncers, SyncCompletes(s) \/ SyncFails(s)
      PROVE  FsInv'
  <2>1. PICK run : FsGoes(s, run) /\ run.pc \in {"done", "failed"} /\ "pc" \in DOMAIN run
    <3>1. CASE SyncCompletes(s)
      BY <3>1 DEF SyncCompletes
    <3>2. CASE SyncFails(s)
      BY <3>2 DEF SyncFails
    <3> QED
      BY <1>9, <3>1, <3>2
  <2>2. UNCHANGED <<fsLock, fsUser, fsLost>>
    BY <1>9 DEF SyncCompletes, SyncFails
  <2>3. /\ fsStuck' \in BOOLEAN /\ (fsStuck => fsStuck')
        /\ fsStatus' = "ended" \/ (fsStuck' /\ fsStatus' = fsStatus)
    <3>1. CASE SyncCompletes(s)
      BY <3>1 DEF SyncCompletes, StatusBehind
    <3>2. CASE SyncFails(s)
      <4>1. \/ fsStatus' = "ended" /\ fsStuck' = fsStuck
            \/ fsStatus' = fsStatus /\ fsStuck' = TRUE
        BY <3>2, Zenon DEF SyncFails, FailureStatus
      <4>2. fsStuck \in BOOLEAN
        BY DEF StatusBehind
      <4>3. CASE fsStatus' = "ended" /\ fsStuck' = fsStuck
        BY <4>2, <4>3
      <4>4. CASE fsStatus' = fsStatus /\ fsStuck' = TRUE
        BY <4>4, Zenon
      <4> QED
        BY <4>1, <4>3, <4>4
    <3> QED
      BY <1>9, <3>1, <3>2
  <2>4. FsTypeOK' /\ HoldsOrLost'
    BY <2>1, <2>2, AtWorkStays DEF Stages
  <2>5. StatusBehind'
    BY <2>1, <2>2, <2>3, StatusStays
  <2> QED
    BY <2>4, <2>5
<1>10. ASSUME NEW s \in FsSyncers, ReleaseReads(s)
       PROVE  FsInv'
  <2>1. PICK run : /\ FsGoes(s, run) /\ "pc" \in DOMAIN run
                   /\ run = NoRun \/ (run.pc = "release" /\ run.held = TRUE)
                   /\ fsLost \ {s} \subseteq fsLost'
    <3>1. CASE fsLock = s
      BY <1>10, <3>1 DEF ReleaseReads
    <3>2. CASE fsLock # s
      <4>1. FsGoes(s, NoRun) /\ fsLost' = fsLost \ {s}
        BY <1>10, <3>2 DEF ReleaseReads, FsEnds
      <4>2. "pc" \in DOMAIN NoRun
        BY DEF NoRun
      <4> QED
        BY <4>1, <4>2
    <3> QED
      BY <3>1, <3>2
  <2>2. run.pc \in {"idle", "release"} /\ ~AtWork(s) /\ fsStuck \in BOOLEAN
        /\ UNCHANGED <<fsLock, fsUser, fsStuck, fsStatus>>
    BY <1>10, <2>1 DEF ReleaseReads, AtWork, StatusBehind, NoRun
  <2>3. run.pc = "release" => run.held = TRUE
    BY <2>1 DEF NoRun
  <2>4. FsTypeOK' /\ HoldsOrLost'
    BY <2>1, <2>2, <2>3, AtWorkStays DEF Stages
  <2>5. StatusBehind'
    BY <2>1, <2>2, StatusStays DEF AtWork, Running
  <2> QED
    BY <2>4, <2>5
<1>11. ASSUME NEW s \in FsSyncers, ReleaseDeletes(s)
       PROVE  FsInv'
  <2>1. /\ fsRun[s].pc = "release" /\ fsRun[s].held = TRUE /\ FsGoes(s, NoRun)
        /\ fsLock' = "free" /\ fsLost' = (fsLost \cup {fsLock}) \cap (FsSyncers \ {s})
        /\ UNCHANGED <<fsStatus, fsUser, fsStuck>>
    BY <1>11 DEF ReleaseDeletes, FsTypeOK, FsEnds
  <2>2. /\ fsRun'[s] = NoRun /\ DOMAIN fsRun' = FsSyncers
        /\ \A t \in FsSyncers \ {s} : fsRun'[t] = fsRun[t]
    BY <2>1, RunGoes
  <2>3. NoRun.pc = "idle" /\ "pc" \in DOMAIN NoRun /\ ~AtWork(s) /\ fsStuck \in BOOLEAN
    BY <2>1 DEF NoRun, AtWork, StatusBehind
  <2>4. FsTypeOK'
    BY <2>1, <2>2, <2>3 DEF FsTypeOK
  <2>5. ASSUME NEW t \in FsSyncers, AtWork(t)'
        PROVE  t \in fsLost'
    <3>1. t # s /\ AtWork(t)
      BY <2>2, <2>3, <2>5 DEF AtWork
    <3> QED
      BY <2>1, <3>1 DEF HoldsOrLost
  <2>6. StatusBehind'
    BY <2>1, <2>3, StatusStays DEF AtWork, Running
  <2> QED
    BY <2>4, <2>5, <2>6 DEF HoldsOrLost
<1>12. ASSUME NEW s \in FsSyncers, RunDies(s) \/ RaisesOutside(s)
       PROVE  FsInv'
  <2>0. /\ LeavesLock(s) /\ fsStuck \in BOOLEAN
        /\ fsStuck' = TRUE \/ (fsStuck' = fsStuck /\ ~Running(s))
    <3>1. CASE RunDies(s)
      BY <3>1 DEF RunDies, StatusBehind
    <3>2. CASE RaisesOutside(s)
      BY <3>2 DEF RaisesOutside, Running, StatusBehind
    <3> QED
      BY <1>12, <3>1, <3>2
  <2>1. /\ fsRun'[s] = NoRun /\ DOMAIN fsRun' = FsSyncers
        /\ \A t \in FsSyncers \ {s} : fsRun'[t] = fsRun[t]
    BY <2>0, RunGoes DEF LeavesLock, FsEnds
  <2>2. NoRun.pc = "idle" /\ "pc" \in DOMAIN NoRun
    BY DEF NoRun
  <2>3. FsTypeOK'
    BY <2>0, <2>1, <2>2 DEF LeavesLock, FsTypeOK
  <2>4. ASSUME NEW t \in FsSyncers, AtWork(t)'
        PROVE  fsLock' = t \/ t \in fsLost'
    <3>1. t # s /\ AtWork(t)
      BY <2>1, <2>2, <2>4 DEF AtWork
    <3>2. fsLost' = fsLost \ {s} /\ fsLock' = IF fsLock = s THEN "dead" ELSE fsLock
      BY <2>0 DEF LeavesLock
    <3> QED
      BY <3>1, <3>2 DEF HoldsOrLost
  <2>5. fsStuck' \in BOOLEAN /\ (fsStuck => fsStuck')
    BY <2>0
  <2>6. StatusBehind'
    <3>1. FsGoes(s, NoRun) /\ fsUser' = fsUser /\ fsStatus' = fsStatus
      BY <2>0 DEF LeavesLock, FsEnds
    <3>2. fsStuck' \/ ~Running(s)
      BY <2>0
    <3> QED
      BY <2>5, <3>1, <3>2, StatusStays
  <2> QED
    BY <2>3, <2>4, <2>6 DEF HoldsOrLost
<1>13. ASSUME LockExpires
       PROVE  FsInv'
  BY <1>13 DEF LockExpires, FsTypeOK, HoldsOrLost, StatusBehind, Running, AtWork
<1>14. ASSUME UserReads
       PROVE  FsInv'
  <2>1. FsTypeOK' /\ HoldsOrLost'
    BY <1>14 DEF UserReads, FsTypeOK, HoldsOrLost, AtWork
  <2>2. fsStuck' = (\E s \in FsSyncers : fsRun[s] # NoRun) /\ fsUser' = fsStatus
        /\ ~fsStuck /\ fsStatus' = fsStatus /\ fsRun' = fsRun
    BY <1>14 DEF UserReads
  <2>3. fsStatus = "running" => fsStuck' /\ \E s \in FsSyncers : AtWork(s)
    BY <2>2 DEF StatusBehind, Running, AtWork, NoRun
  <2>4. StatusBehind'
    BY <2>2, <2>3 DEF StatusBehind, Running, AtWork
  <2> QED
    BY <2>1, <2>4
<1>15. ASSUME UserWrites
       PROVE  FsInv'
  <2>1. FsTypeOK' /\ HoldsOrLost'
    BY <1>15 DEF UserWrites, FsTypeOK, HoldsOrLost, AtWork
  <2>2. StatusBehind'
    BY <1>15 DEF UserWrites, StatusBehind, Running
  <2> QED
    BY <2>1, <2>2
<1> QED
  BY <1>1, <1>2, <1>3, <1>4, <1>5, <1>6, <1>7, <1>8, <1>9, <1>10, <1>11, <1>12, <1>13, <1>14, <1>15
  DEF FsNext

-----------------------------------------------------------------------------
(* Two runs that both still have the lock they took are never at work      *)
(* together, whatever expires, dies or fails: a run at work holds the lock *)
(* or has lost it, and one lock has one holder.                            *)
THEOREM RunsExcludeEachOther == FsSpec => []SyncExclusive
<1>1. FsInv => SyncExclusive
  <2> SUFFICES ASSUME FsInv, NEW s \in FsSyncers, NEW t \in FsSyncers,
                      s # t, AtWork(s), AtWork(t)
               PROVE  {s, t} \cap fsLost # {}
    BY DEF SyncExclusive
  <2> QED
    BY DEF FsInv, HoldsOrLost
<1> QED
  BY <1>1, FsStarts, FsKeeps, PTL DEF FsSpec

(* The status of a calendar says "running" only while a run is at work;    *)
(* the exceptions are a run that died, one that failed and could not write *)
(* that, and a user's update of the row that overlapped a run.  A run that *)
(* raises before it has written "running", or after its last status, is    *)
(* none.                                                                   *)
THEOREM StatusTellsTheTruth == FsSpec => []RunningIsTrue
<1>1. FsInv => RunningIsTrue
  BY DEF FsInv, StatusBehind, RunningIsTrue, Running, AtWork
<1> QED
  BY <1>1, FsStarts, FsKeeps, PTL DEF FsSpec

-----------------------------------------------------------------------------
(* The mirror                                                              *)

Version == [edit: Nat, seq: Nat]

(* Where a run is between taking the lock and losing it, its result        *)
(* included.                                                               *)
Active(s) == AtWork(s) \/ (fsRun[s].pc = "done" /\ s \notin fsLost)

(* new is a later version than old, or the same; if the sweep, which saw   *)
(* old written at time t, cannot tell that new is later, the edit was made *)
(* while a fetched feed was being written.                                 *)
NotOlder(new, old, t) ==
    /\ old.seq <= new.seq
    /\ fsKind = "calendar" /\ new.edit # 0 /\ new.edit # old.edit /\ new.seq = old.seq /\ new.edit <= t =>
          new.edit \in fsLate

MirrorTypes ==
    /\ fsKind \in {"calendar", "contacts"}
    /\ fsNow \in Nat /\ fsFeed \in [FsUids -> Version]
    /\ \A u \in FsUids : fsFeed[u].edit <= fsNow
    /\ \A r \in fsRows : r.uid \in FsUids /\ r.edit \in Nat /\ r.seq \in Nat /\ r.written \in Nat
    /\ \A r \in fsRows : r.written <= fsNow
    /\ \A s \in FsSyncers : fsRun[s].pc \in {"fetched", "apply", "done"} => fsRun[s].feed \in [FsUids -> Version]
    /\ \A s \in FsSyncers : fsRun[s].pc = "apply" =>
          DOMAIN fsRun[s] = {"pc", "feed", "local", "todo"} /\ fsRun[s].todo \subseteq FsUids

(* One run is active, and it holds the lock or has lost it. *)
Alone ==
    /\ \A s, t \in FsSyncers : Active(s) /\ Active(t) => s = t
    /\ \A s \in FsSyncers : Active(s) => fsLock = s \/ s \in fsLost

(* One row for each UID, with a key of its own. *)
RowsKnown ==
    /\ \A q, r \in fsRows : q.key = r.key \/ q.uid = r.uid => q = r
    /\ \A r \in fsRows : NotOlder(fsFeed[r.uid], r, r.written)

(* What a run has fetched and not yet compared is no older than the rows,  *)
(* what it has read of them is what they are, and what it has done of its  *)
(* feed is in them.                                                        *)
Pending(s, u) == fsRun[s].pc = "fetched" \/ (fsRun[s].pc = "apply" /\ u \in fsRun[s].todo)
Handled(s, u) ==
    (fsRun[s].pc = "apply" /\ u \notin fsRun[s].todo) \/ (fsRun[s].pc = "done" /\ s \notin fsLost)

Faithful(s) ==
    /\ fsRun[s].pc \in {"fetched", "apply"} => \A u \in FsUids : NotOlder(fsFeed[u], fsRun[s].feed[u], fsNow)
    /\ \A u \in FsUids : Pending(s, u) => \A r \in RowsOf(u) : NotOlder(fsRun[s].feed[u], r, r.written)
    /\ \A u \in FsUids : fsRun[s].pc = "apply" /\ u \in fsRun[s].todo =>
          /\ u \in DOMAIN fsRun[s].local => fsRun[s].local[u] \in RowsOf(u)
          /\ u \notin DOMAIN fsRun[s].local => RowsOf(u) = {}
    /\ \A u \in FsUids : Handled(s, u) => fsRun[s].feed[u].edit \in fsLate \/ Mirrored(s, u)

Mirror == Alone /\ RowsKnown /\ \A s \in FsSyncers : Faithful(s)

MirrorInv == MirrorTypes /\ (~fsMixed => Mirror)

LEMMA MirrorStarts == FsInit => MirrorInv
<1> SUFFICES ASSUME FsInit PROVE MirrorInv
  OBVIOUS
<1>1. \A s \in FsSyncers : fsRun[s].pc = "idle"
  BY DEF FsInit, NoRun
<1>2. MirrorTypes
  BY <1>1 DEF FsInit, MirrorTypes, Version
<1>3. Alone /\ RowsKnown
  BY <1>1 DEF FsInit, Alone, Active, AtWork, RowsKnown
<1>4. \A s \in FsSyncers : Faithful(s)
  BY <1>1 DEF Faithful, Pending, Handled
<1> QED
  BY <1>2, <1>3, <1>4 DEF MirrorInv, Mirror

(* The types. *)
LEMMA RunTypes ==
  ASSUME FsInv, MirrorTypes, NEW s \in FsSyncers, NEW run, FsGoes(s, run),
         run.pc \in {"fetched", "apply", "done"} => run.feed \in [FsUids -> Version],
         run.pc = "apply" => DOMAIN run = {"pc", "feed", "local", "todo"} /\ run.todo \subseteq FsUids,
         fsKind' = fsKind, fsFeed' = fsFeed, fsNow' = fsNow,
         \A r \in fsRows' : r.uid \in FsUids /\ r.edit \in Nat /\ r.seq \in Nat /\ r.written \in Nat /\ r.written <= fsNow
  PROVE  MirrorTypes'
<1>1. fsRun'[s] = run /\ \A t \in FsSyncers \ {s} : fsRun'[t] = fsRun[t]
  BY RunGoes DEF FsInv
<1> QED
  BY <1>1 DEF MirrorTypes

(* What ApplyOne does to the rows. *)
LEMMA AppliedRows ==
  ASSUME MirrorTypes, NEW s \in FsSyncers, NEW u \in FsUids, ApplyOne(s, u)
  PROVE  \A r \in fsRows' : \/ r \in fsRows
                            \/ \E key : r = Written(key, u, fsRun[s].feed[u])
  BY DEF ApplyOne

LEMMA MirrorTypesStep == FsInv /\ MirrorTypes /\ [FsNext]_fsVars => MirrorTypes'
<1> SUFFICES ASSUME FsInv, MirrorTypes, [FsNext]_fsVars PROVE MirrorTypes'
  OBVIOUS
<1>0. \A r \in fsRows : r.uid \in FsUids /\ r.edit \in Nat /\ r.seq \in Nat /\ r.written \in Nat /\ r.written <= fsNow
  BY DEF MirrorTypes
<1>1. CASE UNCHANGED fsVars
  BY <1>1 DEF fsVars, MirrorTypes
<1>2. ASSUME NEW u \in FsUids, FeedRemove(u) PROVE MirrorTypes'
  BY <1>2 DEF FeedRemove, MirrorTypes, Version
<1>3. ASSUME NEW u \in FsUids, NEW bump \in {0, 1}, FeedEdit(u, bump) PROVE MirrorTypes'
  <2>1. fsNow' = fsNow + 1 /\ fsFeed' = [fsFeed EXCEPT ![u] = [edit |-> fsNow + 1, seq |-> @.seq + bump]]
        /\ UNCHANGED <<fsKind, fsRows, fsRun>>
    BY <1>3 DEF FeedEdit
  <2>2. fsFeed' \in [FsUids -> Version] /\ fsNow' \in Nat
    BY <2>1 DEF MirrorTypes, Version
  <2>3. \A v \in FsUids : fsFeed'[v].edit <= fsNow'
    BY <2>1 DEF MirrorTypes, Version
  <2>4. \A r \in fsRows : r.written <= fsNow'
    BY <2>1 DEF MirrorTypes
  <2> QED
    BY <2>1, <2>2, <2>3, <2>4 DEF MirrorTypes
<1>4. ASSUME NEW s \in FsSyncers, NEW auto \in BOOLEAN, SyncBegins(s, auto) PROVE MirrorTypes'
  <2> DEFINE run == [pc |-> "start"]
  <2>1. FsGoes(s, run) /\ run.pc = "start" /\ UNCHANGED <<fsKind, fsFeed, fsNow, fsRows>>
    BY <1>4 DEF SyncBegins
  <2> HIDE DEF run
  <2> QED
    BY <1>0, <2>1, RunTypes
<1>5. ASSUME NEW s \in FsSyncers, TakeLock(s) \/ SetRunning(s) PROVE MirrorTypes'
  <2>1. PICK run : FsGoes(s, run) /\ run.pc \in {"idle", "locked", "running"}
    BY <1>5 DEF TakeLock, SetRunning, FsEnds, NoRun, FsInv, FsTypeOK
  <2>2. UNCHANGED <<fsKind, fsFeed, fsNow, fsRows>>
    BY <1>5 DEF TakeLock, SetRunning
  <2> QED
    BY <1>0, <2>1, <2>2, RunTypes
<1>6. ASSUME NEW s \in FsSyncers, Fetch(s) PROVE MirrorTypes'
  <2> DEFINE run == [pc |-> "fetched", feed |-> fsFeed]
  <2>1. FsGoes(s, run) /\ run.pc = "fetched" /\ run.feed \in [FsUids -> Version]
        /\ UNCHANGED <<fsKind, fsFeed, fsNow, fsRows>>
    BY <1>6 DEF Fetch, MirrorTypes
  <2> HIDE DEF run
  <2> QED
    BY <1>0, <2>1, RunTypes
<1>7. ASSUME NEW s \in FsSyncers, ReadMetadata(s) PROVE MirrorTypes'
  <2>1. PICK local : FsGoes(s, [pc |-> "apply", feed |-> fsRun[s].feed, local |-> local, todo |-> FsUids])
    BY <1>7 DEF ReadMetadata
  <2> DEFINE run == [pc |-> "apply", feed |-> fsRun[s].feed, local |-> local, todo |-> FsUids]
  <2>2. /\ run.feed \in [FsUids -> Version] /\ DOMAIN run = {"pc", "feed", "local", "todo"}
        /\ run.todo \subseteq FsUids /\ UNCHANGED <<fsKind, fsFeed, fsNow, fsRows>> /\ FsGoes(s, run)
    BY <1>7, <2>1 DEF ReadMetadata, MirrorTypes
  <2> HIDE DEF run
  <2> QED
    BY <1>0, <2>2, RunTypes
<1>8. ASSUME NEW s \in FsSyncers, NEW u \in FsUids, ApplyOne(s, u) PROVE MirrorTypes'
  <2> DEFINE run == [fsRun[s] EXCEPT !.todo = @ \ {u}]
  <2>1. fsRun[s].pc = "apply" /\ FsGoes(s, run) /\ UNCHANGED <<fsKind, fsFeed, fsNow>>
    BY <1>8 DEF ApplyOne
  <2>2. /\ run.feed \in [FsUids -> Version] /\ DOMAIN run = {"pc", "feed", "local", "todo"}
        /\ run.todo \subseteq FsUids
    BY <2>1 DEF MirrorTypes
  <2>3. fsRun[s].feed[u] \in Version
    BY <2>1 DEF MirrorTypes
  <2>4. \A r \in fsRows' : r.uid \in FsUids /\ r.edit \in Nat /\ r.seq \in Nat /\ r.written \in Nat /\ r.written <= fsNow
    BY <1>0, <1>8, <2>3, AppliedRows DEF Written, Version, MirrorTypes
  <2> HIDE DEF run
  <2> QED
    BY <2>1, <2>2, <2>4, RunTypes
<1>9. ASSUME NEW s \in FsSyncers, SyncCompletes(s) PROVE MirrorTypes'
  <2> DEFINE run == [pc |-> "done", feed |-> fsRun[s].feed, fault |-> FALSE]
  <2>1. FsGoes(s, run) /\ run.pc = "done" /\ run.feed \in [FsUids -> Version]
        /\ UNCHANGED <<fsKind, fsFeed, fsNow, fsRows>>
    BY <1>9 DEF SyncCompletes, MirrorTypes
  <2> HIDE DEF run
  <2> QED
    BY <1>0, <2>1, RunTypes
<1>10. ASSUME NEW s \in FsSyncers, SyncFails(s) \/ ReleaseReads(s) \/ ReleaseDeletes(s) \/ RunDies(s) \/ RaisesOutside(s)
       PROVE  MirrorTypes'
  <2>1. PICK run : FsGoes(s, run) /\ run.pc \in {"failed", "release", "idle"}
    <3>1. SyncFails(s) => \E run : FsGoes(s, run) /\ run.pc = "failed"
      BY DEF SyncFails
    <3>2. ReleaseReads(s) => \E run : FsGoes(s, run) /\ run.pc \in {"release", "idle"}
      BY DEF ReleaseReads, FsEnds, NoRun
    <3>3. ReleaseDeletes(s) \/ RunDies(s) \/ RaisesOutside(s) => \E run : FsGoes(s, run) /\ run.pc = "idle"
      BY DEF ReleaseDeletes, RunDies, RaisesOutside, LeavesLock, FsEnds, NoRun
    <3> QED
      BY <1>10, <3>1, <3>2, <3>3
  <2>2. UNCHANGED <<fsKind, fsFeed, fsNow, fsRows>>
    BY <1>10 DEF SyncFails, ReleaseReads, ReleaseDeletes, RunDies, RaisesOutside, LeavesLock
  <2> QED
    BY <1>0, <2>1, <2>2, RunTypes
<1>11. LockExpires \/ UserReads \/ UserWrites => MirrorTypes'
  BY DEF LockExpires, UserReads, UserWrites, MirrorTypes
<1> QED
  BY <1>1, <1>2, <1>3, <1>4, <1>5, <1>6, <1>7, <1>8, <1>9, <1>10, <1>11 DEF FsNext

(* A run that is not active has nothing to be faithful to; one that is not *)
(* touched stays faithful.                                                 *)
LEMMA IdleIsFaithful ==
  ASSUME NEW s \in FsSyncers, ~Active(s)'
  PROVE  Faithful(s)'
  BY DEF Active, AtWork, Faithful, Pending, Handled

LEMMA StaysFaithful ==
  ASSUME NEW t \in FsSyncers, Faithful(t), fsRun'[t] = fsRun[t], t \in fsLost => t \in fsLost',
         UNCHANGED <<fsKind, fsFeed, fsNow, fsRows, fsLate>>
  PROVE  Faithful(t)'
<1>1. \A u \in FsUids : RowsOf(u)' = RowsOf(u)
  BY DEF RowsOf
<1>2. \A u \in FsUids : Mirrored(t, u)' = Mirrored(t, u)
  BY <1>1 DEF Mirrored
<1>3. \A u \in FsUids : (Pending(t, u)' => Pending(t, u)) /\ (Handled(t, u)' => Handled(t, u))
  BY DEF Pending, Handled
<1> QED
  BY <1>1, <1>2, <1>3 DEF Faithful, NotOlder

(* One run goes on or stops, and the rows stay as they are. *)
LEMMA OneRunGoes ==
  ASSUME FsInv, Mirror, NEW s \in FsSyncers, NEW run, FsGoes(s, run),
         UNCHANGED <<fsKind, fsFeed, fsNow, fsRows, fsLate>>,
         Active(s)' => Active(s) /\ UNCHANGED <<fsLock, fsLost>>,
         \A t \in FsSyncers \ {s} : /\ t \in fsLost => t \in fsLost'
                                    /\ fsLock = t => fsLock' = t \/ t \in fsLost',
         Faithful(s)'
  PROVE  Mirror'
<1>1. \A t \in FsSyncers \ {s} : fsRun'[t] = fsRun[t]
  BY RunGoes DEF FsInv
<1>2. \A t \in FsSyncers : Active(t)' => Active(t)
  BY <1>1 DEF Active, AtWork
<1>3. Alone'
  BY <1>2 DEF Alone, Mirror
<1>4. RowsKnown'
  BY DEF RowsKnown, NotOlder, Mirror
<1>5. ASSUME NEW t \in FsSyncers PROVE Faithful(t)'
  BY <1>1, StaysFaithful DEF Mirror
<1> QED
  BY <1>3, <1>4, <1>5 DEF Mirror

LEMMA MirrorStops ==
  ASSUME FsInv, Mirror, NEW s \in FsSyncers,
         \/ \E auto \in BOOLEAN : SyncBegins(s, auto)
         \/ TakeLock(s) /\ fsLock # "free"
         \/ SyncFails(s) \/ ReleaseReads(s) \/ ReleaseDeletes(s) \/ RunDies(s) \/ RaisesOutside(s)
  PROVE  Mirror'
<1>1. PICK run : FsGoes(s, run) /\ run.pc \in {"start", "idle", "failed", "release"}
  <2>1. (\E auto \in BOOLEAN : SyncBegins(s, auto)) => \E run : FsGoes(s, run) /\ run.pc = "start"
    BY DEF SyncBegins
  <2>2. TakeLock(s) /\ fsLock # "free" => \E run : FsGoes(s, run) /\ run.pc = "idle"
    BY DEF TakeLock, FsEnds, NoRun
  <2>3. SyncFails(s) => \E run : FsGoes(s, run) /\ run.pc = "failed"
    BY DEF SyncFails
  <2>4. ReleaseReads(s) => \E run : FsGoes(s, run) /\ run.pc \in {"release", "idle"}
    BY DEF ReleaseReads, FsEnds, NoRun
  <2>5. ReleaseDeletes(s) \/ RunDies(s) \/ RaisesOutside(s) => \E run : FsGoes(s, run) /\ run.pc = "idle"
    BY DEF ReleaseDeletes, RunDies, RaisesOutside, LeavesLock, FsEnds, NoRun
  <2> QED
    BY <2>1, <2>2, <2>3, <2>4, <2>5
<1>2. UNCHANGED <<fsKind, fsFeed, fsNow, fsRows, fsLate>>
  BY DEF SyncBegins, TakeLock, SyncFails, ReleaseReads, ReleaseDeletes, RunDies, RaisesOutside, LeavesLock
<1>3. ~Active(s)'
  BY <1>1, RunGoes DEF Active, AtWork, FsInv
<1>4. ASSUME NEW t \in FsSyncers \ {s}
      PROVE  (t \in fsLost => t \in fsLost') /\ (fsLock = t => fsLock' = t \/ t \in fsLost')
  <2>1. CASE ReleaseDeletes(s)
    BY <2>1 DEF ReleaseDeletes, FsInv, FsTypeOK
  <2>2. CASE RunDies(s) \/ RaisesOutside(s)
    BY <2>2 DEF RunDies, RaisesOutside, LeavesLock
  <2>3. CASE ReleaseReads(s)
    BY <2>3 DEF ReleaseReads
  <2>4. CASE (\E auto \in BOOLEAN : SyncBegins(s, auto)) \/ (TakeLock(s) /\ fsLock # "free") \/ SyncFails(s)
    BY <2>4 DEF SyncBegins, TakeLock, SyncFails
  <2> QED
    BY <2>1, <2>2, <2>3, <2>4
<1> QED
  BY <1>1, <1>2, <1>3, <1>4, IdleIsFaithful, OneRunGoes

LEMMA MirrorLocks ==
  ASSUME FsInv, FsAssumption, Mirror, NEW s \in FsSyncers, TakeLock(s), ~fsMixed'
  PROVE  Mirror'
<1>1. CASE fsLock # "free"
  BY <1>1, MirrorStops
<1>2. CASE fsLock = "free"
  <2>1. /\ fsLock' = s /\ FsGoes(s, [fsRun[s] EXCEPT !.pc = "locked"])
        /\ \A t \in FsSyncers : ~AtWork(t)
        /\ UNCHANGED <<fsKind, fsFeed, fsNow, fsRows, fsLate, fsLost>>
    BY <1>2 DEF TakeLock
  <2>2. [fsRun[s] EXCEPT !.pc = "locked"].pc = "locked"
    BY DEF FsInv, FsTypeOK
  <2>3. fsRun'[s].pc = "locked" /\ \A t \in FsSyncers \ {s} : fsRun'[t] = fsRun[t]
    BY <2>1, <2>2, RunGoes DEF FsInv
  <2>4. \A t \in FsSyncers : ~Active(t)
    BY <1>2, <2>1, FsAssumption DEF Alone, Mirror, Active
  <2>5. \A t \in FsSyncers \ {s} : ~Active(t)'
    BY <2>1, <2>3, <2>4 DEF Active, AtWork
  <2>6. Alone'
    BY <2>1, <2>5 DEF Alone
  <2>7. RowsKnown'
    BY <2>1 DEF RowsKnown, NotOlder, Mirror
  <2>8. Faithful(s)'
    BY <2>3 DEF Faithful, Pending, Handled
  <2> QED
    BY <2>5, <2>6, <2>7, <2>8, IdleIsFaithful DEF Mirror
<1> QED
  BY <1>1, <1>2

(* The stages of a run before it writes, and its end. *)
LEMMA MirrorReads ==
  ASSUME FsInv, MirrorTypes, Mirror, NEW s \in FsSyncers,
         SetRunning(s) \/ Fetch(s) \/ ReadMetadata(s) \/ SyncCompletes(s)
  PROVE  Mirror'
<1>0. UNCHANGED <<fsKind, fsFeed, fsNow, fsRows, fsLate, fsLock, fsLost>> /\ AtWork(s)
  BY DEF SetRunning, Fetch, ReadMetadata, SyncCompletes, AtWork
<1>a. Faithful(s)
  BY DEF Mirror
<1>1. PICK run : FsGoes(s, run)
  BY DEF SetRunning, Fetch, ReadMetadata, SyncCompletes
<1>2. SUFFICES Faithful(s)'
  BY <1>0, <1>1, OneRunGoes DEF Active
<1>3. CASE SetRunning(s)
  <2>1. [fsRun[s] EXCEPT !.pc = "running"].pc = "running"
    BY DEF FsInv, FsTypeOK
  <2>2. fsRun'[s].pc = "running"
    BY <1>3, <2>1, RunGoes DEF FsInv, SetRunning
  <2> QED
    BY <2>2 DEF Faithful, Pending, Handled
<1>4. CASE Fetch(s)
  <2>1. fsRun'[s].pc = "fetched" /\ fsRun'[s].feed = fsFeed
    BY <1>4, RunGoes DEF FsInv, Fetch
  <2>2. \A u \in FsUids : fsFeed[u].seq \in Nat
    BY DEF MirrorTypes, Version
  <2>3. \A u \in FsUids : NotOlder(fsFeed[u], fsFeed[u], fsNow)
    BY <2>2 DEF NotOlder
  <2>4. \A u \in FsUids : \A r \in RowsOf(u) : NotOlder(fsFeed[u], r, r.written)
    BY DEF Mirror, RowsKnown, RowsOf
  <2> QED
    BY <1>0, <2>1, <2>3, <2>4 DEF Faithful, Pending, Handled, NotOlder, RowsOf
<1>5. CASE ReadMetadata(s)
  <2>1. PICK local \in [{r.uid : r \in fsRows} -> fsRows] :
           /\ \A u \in DOMAIN local : local[u].uid = u
           /\ FsGoes(s, [pc |-> "apply", feed |-> fsRun[s].feed, local |-> local, todo |-> FsUids])
    BY <1>5 DEF ReadMetadata
  <2>2. fsRun'[s] = [pc |-> "apply", feed |-> fsRun[s].feed, local |-> local, todo |-> FsUids]
    BY <2>1, RunGoes DEF FsInv
  <2>3. \A u \in FsUids : (u \in DOMAIN local => local[u] \in RowsOf(u)) /\ (u \notin DOMAIN local => RowsOf(u) = {})
    BY <2>1 DEF RowsOf
  <2>4. fsRun[s].pc = "fetched"
    BY <1>5 DEF ReadMetadata
  <2> QED
    BY <1>0, <1>a, <2>2, <2>3, <2>4 DEF Faithful, Pending, Handled, NotOlder, RowsOf
<1>6. CASE SyncCompletes(s)
  <2>1. fsRun'[s].pc = "done" /\ fsRun'[s].feed = fsRun[s].feed /\ fsRun[s].pc = "apply" /\ fsRun[s].todo = {}
    BY <1>6, RunGoes DEF FsInv, SyncCompletes
  <2> QED
    BY <1>0, <1>a, <2>1 DEF Faithful, Pending, Handled, Mirrored, RowsOf
<1> QED
  BY <1>3, <1>4, <1>5, <1>6

(* What a run has found under a UID is the only row of that UID. *)
LEMMA LocalIsTheRow ==
  ASSUME Mirror, NEW s \in FsSyncers, NEW u \in FsUids, fsRun[s].pc = "apply", u \in fsRun[s].todo
  PROVE  IF u \in DOMAIN fsRun[s].local
         THEN RowsOf(u) = {fsRun[s].local[u]} /\ (\A r \in fsRows : r.key = fsRun[s].local[u].key <=> r = fsRun[s].local[u])
         ELSE RowsOf(u) = {}
<1>1. Faithful(s)
  BY DEF Mirror
<1>2. CASE u \in DOMAIN fsRun[s].local
  <2>1. fsRun[s].local[u] \in RowsOf(u)
    BY <1>1, <1>2 DEF Faithful
  <2> QED
    BY <1>2, <2>1 DEF Mirror, RowsKnown, RowsOf
<1>3. CASE u \notin DOMAIN fsRun[s].local
  BY <1>1, <1>3 DEF Faithful
<1> QED
  BY <1>2, <1>3

(* The three things ApplyOne may do: leave one new row of the UID, leave   *)
(* none, or leave the row that says what the feed says.                    *)
LEMMA Applied ==
  ASSUME MirrorTypes, Mirror, NEW s \in FsSyncers, NEW u \in FsUids, ApplyOne(s, u)
  PROVE  LET entry == fsRun[s].feed[u]
         IN \/ \E key : /\ fsRows' = (fsRows \ RowsOf(u)) \cup {Written(key, u, entry)}
                        /\ entry.edit # 0 /\ \A r \in fsRows \ RowsOf(u) : r.key # key
            \/ entry.edit = 0 /\ fsRows' = fsRows \ RowsOf(u)
            \/ /\ fsRows' = fsRows /\ entry.edit # 0
               /\ entry.edit \in fsLate \/ \E q \in fsRows : RowsOf(u) = {q} /\ q.edit = entry.edit
<1> DEFINE local == fsRun[s].local
           entry == fsRun[s].feed[u]
           q == local[u]
           Inserts == \E key : fsRows' = fsRows \cup {Written(key, u, entry)} /\ \A r \in fsRows : r.key # key
           Updates == fsRows' = {IF r.key = q.key THEN Written(r.key, u, entry) ELSE r : r \in fsRows}
           Deletes == fsRows' = {r \in fsRows : r.key # q.key}
           Goal == \/ \E key : /\ fsRows' = (fsRows \ RowsOf(u)) \cup {Written(key, u, entry)}
                               /\ entry.edit # 0 /\ \A r \in fsRows \ RowsOf(u) : r.key # key
                   \/ entry.edit = 0 /\ fsRows' = fsRows \ RowsOf(u)
                   \/ /\ fsRows' = fsRows /\ entry.edit # 0
                      /\ entry.edit \in fsLate \/ \E p \in fsRows : RowsOf(u) = {p} /\ p.edit = entry.edit
<1>0. fsRun[s].pc = "apply" /\ u \in fsRun[s].todo
  BY DEF ApplyOne
<1>1. \/ u \notin DOMAIN local /\ entry.edit # 0 /\ Inserts
      \/ u \in DOMAIN local /\ entry.edit # 0 /\ Updates
      \/ u \in DOMAIN local /\ entry.edit # 0 /\ ~IsModified(q, entry) /\ fsRows' = fsRows
      \/ u \in DOMAIN local /\ entry.edit = 0 /\ Deletes
      \/ u \notin DOMAIN local /\ entry.edit = 0 /\ fsRows' = fsRows
  BY DEF ApplyOne, There
<1>2. u \notin DOMAIN local => RowsOf(u) = {}
  BY <1>0, LocalIsTheRow
<1>3. u \in DOMAIN local => RowsOf(u) = {q} /\ q \in fsRows /\ \A r \in fsRows : r.key = q.key <=> r = q
  <2>1. u \in DOMAIN local => RowsOf(u) = {q} /\ \A r \in fsRows : r.key = q.key <=> r = q
    BY <1>0, LocalIsTheRow
  <2> QED
    BY <2>1 DEF RowsOf
<1>4. ASSUME u \in DOMAIN local, entry.edit # 0, ~IsModified(q, entry)
      PROVE  entry.edit \in fsLate \/ q.edit = entry.edit
  <2>1. NotOlder(entry, q, q.written)
    BY <1>0, <1>3, <1>4 DEF Mirror, Faithful, Pending
  <2>2. entry \in Version /\ q.edit \in Nat /\ q.seq \in Nat /\ q.written \in Nat /\ fsKind \in {"calendar", "contacts"}
    BY <1>0, <1>3, <1>4 DEF MirrorTypes
  <2>3. CASE fsKind = "contacts"
    BY <1>4, <2>3 DEF IsModified
  <2>4. CASE fsKind = "calendar"
    <3>1. ~(entry.seq > q.seq) /\ (entry.seq = q.seq => ~(entry.edit > q.written))
      BY <1>4, <2>4 DEF IsModified
    <3>2. entry.seq = q.seq /\ entry.edit <= q.written
      BY <2>1, <2>2, <3>1 DEF NotOlder, Version
    <3> QED
      BY <1>4, <2>1, <2>4, <3>2 DEF NotOlder
  <2> QED
    BY <2>2, <2>3, <2>4
<1>5. ASSUME u \in DOMAIN local, Updates
      PROVE  fsRows' = (fsRows \ RowsOf(u)) \cup {Written(q.key, u, entry)} /\ \A r \in fsRows \ RowsOf(u) : r.key # q.key
  <2>1. \A r \in fsRows : r.key = q.key <=> r = q
    BY <1>3, <1>5
  <2>2. RowsOf(u) = {q} /\ q \in fsRows
    BY <1>3, <1>5
  <2> DEFINE w == Written(q.key, u, entry)
             f(r) == IF r.key = q.key THEN Written(r.key, u, entry) ELSE r
  <2>3. f(q) = w /\ \A r \in fsRows \ {q} : f(r) = r
    BY <2>1
  <2>4. fsRows' = {f(r) : r \in fsRows}
    BY <1>5
  <2> HIDE DEF w, f, q
  <2>5. fsRows' = (fsRows \ {q}) \cup {w}
    BY <2>2, <2>3, <2>4
  <2> QED
    BY <2>1, <2>2, <2>5 DEF w
<1>6. u \in DOMAIN local /\ Deletes => fsRows' = fsRows \ RowsOf(u)
  BY <1>3
<1>7. u \notin DOMAIN local /\ fsRows' = fsRows => fsRows' = fsRows \ RowsOf(u)
  BY <1>2
<1>8. u \notin DOMAIN local /\ Inserts
      => \E key : /\ fsRows' = (fsRows \ RowsOf(u)) \cup {Written(key, u, entry)}
                  /\ \A r \in fsRows \ RowsOf(u) : r.key # key
  BY <1>2
<1> HIDE DEF local, entry, q, Inserts, Updates, Deletes
<1>9. Goal
  BY <1>1, <1>3, <1>4, <1>5, <1>6, <1>7, <1>8
<1> QED
  BY <1>9 DEF entry

LEMMA MirrorApplies ==
  ASSUME FsInv, MirrorTypes, Mirror, NEW s \in FsSyncers, NEW u \in FsUids, ApplyOne(s, u)
  PROVE  Mirror'
<1> DEFINE entry == fsRun[s].feed[u]
           rest == fsRows \ RowsOf(u)
<1>0. fsRun[s].pc = "apply" /\ u \in fsRun[s].todo /\ UNCHANGED <<fsKind, fsFeed, fsNow, fsLate, fsLock, fsLost>>
  BY DEF ApplyOne
<1>a. Faithful(s) /\ Alone /\ RowsKnown /\ Active(s)
  BY <1>0 DEF Mirror, Active, AtWork
<1>1. /\ \A t \in FsSyncers \ {s} : fsRun'[t] = fsRun[t]
      /\ fsRun'[s].pc = "apply" /\ fsRun'[s].feed = fsRun[s].feed /\ fsRun'[s].local = fsRun[s].local
      /\ fsRun'[s].todo = fsRun[s].todo \ {u}
  <2>1. FsGoes(s, [fsRun[s] EXCEPT !.todo = @ \ {u}]) /\ DOMAIN fsRun[s] = {"pc", "feed", "local", "todo"}
    BY <1>0 DEF ApplyOne, MirrorTypes
  <2>2. fsRun'[s] = [fsRun[s] EXCEPT !.todo = @ \ {u}] /\ \A t \in FsSyncers \ {s} : fsRun'[t] = fsRun[t]
    BY <2>1, RunGoes DEF FsInv
  <2> QED
    BY <1>0, <2>1, <2>2
<1>2. \A t \in FsSyncers : Active(t)' <=> Active(t)
  BY <1>0, <1>1, <1>a DEF Active, AtWork
<1>3. Alone'
  BY <1>0, <1>2, <1>a DEF Alone
<1>4. \/ \E key : /\ fsRows' = rest \cup {Written(key, u, entry)}
                  /\ entry.edit # 0 /\ \A r \in rest : r.key # key
      \/ entry.edit = 0 /\ fsRows' = rest
      \/ /\ fsRows' = fsRows /\ entry.edit # 0
         /\ entry.edit \in fsLate \/ \E q \in fsRows : RowsOf(u) = {q} /\ q.edit = entry.edit
  BY Applied
<1>5. \A v \in FsUids \ {u} : RowsOf(v)' = RowsOf(v)
  <2>1. ASSUME NEW v \in FsUids \ {u}, NEW r PROVE r \in RowsOf(v)' <=> r \in RowsOf(v)
    <3>1. r \in rest \/ r \notin fsRows \/ r.uid = u
      BY DEF RowsOf
    <3>2. r \in fsRows' => r \in fsRows \/ r.uid = u
      BY <1>4 DEF RowsOf, Written
    <3>3. r \in rest => r \in fsRows'
      BY <1>4
    <3> QED
      BY <3>1, <3>2, <3>3 DEF RowsOf
  <2> QED
    BY <2>1
<1>6. NotOlder(fsFeed[u], entry, fsNow)
  BY <1>0, <1>a DEF Faithful
<1>7. RowsKnown'
  <2>1. CASE fsRows' \subseteq fsRows
    BY <1>0, <1>a, <2>1 DEF RowsKnown, NotOlder
  <2>2. ASSUME NEW key, fsRows' = rest \cup {Written(key, u, entry)}, \A r \in rest : r.key # key
        PROVE  RowsKnown'
    <3> DEFINE w == Written(key, u, entry)
    <3>1. w.key = key /\ w.uid = u /\ w.edit = entry.edit /\ w.seq = entry.seq /\ w.written = fsNow
      BY DEF Written
    <3>2. \A r \in rest : r.key # key /\ r.uid # u /\ r \in fsRows
      BY <2>2 DEF RowsOf
    <3>3. NotOlder(fsFeed[u], w, w.written)
      BY <1>6, <3>1 DEF NotOlder
    <3>4. fsRows' = rest \cup {w}
      BY <2>2
    <3> HIDE DEF w, rest
    <3>5. \A p, r \in fsRows' : p.key = r.key \/ p.uid = r.uid => p = r
      BY <1>a, <3>1, <3>2, <3>4 DEF RowsKnown
    <3>6. \A r \in fsRows' : NotOlder(fsFeed[r.uid], r, r.written)
      BY <1>a, <3>1, <3>2, <3>3, <3>4 DEF RowsKnown
    <3> QED
      BY <1>0, <3>5, <3>6 DEF RowsKnown, NotOlder
  <2> QED
    BY <1>4, <2>1, <2>2
<1>8. entry.edit \in fsLate \/ Mirrored(s, u)'
  <2>0. fsRun'[s].feed[u] = entry
    BY <1>1
  <2>1. ASSUME NEW q, RowsOf(u)' = {q}, q.edit = entry.edit, entry.edit # 0 PROVE Mirrored(s, u)'
    <3>1. Cardinality(RowsOf(u)') = 1
      BY <2>1, FS_Singleton
    <3> HIDE DEF entry
    <3> QED
      BY <2>0, <2>1, <3>1 DEF Mirrored
  <2>2. CASE fsRows' = fsRows /\ entry.edit # 0 /\ \E q \in fsRows : RowsOf(u) = {q} /\ q.edit = entry.edit
    <3>1. PICK q \in fsRows : RowsOf(u) = {q} /\ q.edit = entry.edit
      BY <2>2
    <3>2. RowsOf(u)' = {q}
      BY <2>2, <3>1 DEF RowsOf
    <3> QED
      BY <2>1, <2>2, <3>1, <3>2
  <2>3. CASE entry.edit = 0 /\ fsRows' = rest
    <3>1. RowsOf(u)' = {}
      BY <2>3 DEF RowsOf
    <3> HIDE DEF entry
    <3> QED
      BY <2>0, <2>3, <3>1 DEF Mirrored
  <2>4. ASSUME NEW key, fsRows' = rest \cup {Written(key, u, entry)}, entry.edit # 0 PROVE Mirrored(s, u)'
    <3> DEFINE w == Written(key, u, entry)
    <3>1. w.uid = u /\ w.edit = entry.edit
      BY DEF Written
    <3>2. \A r \in rest : r.uid # u
      BY DEF RowsOf
    <3> HIDE DEF w
    <3>3. RowsOf(u)' = {w}
      BY <2>4, <3>1, <3>2 DEF RowsOf, w
    <3> QED
      BY <2>1, <2>4, <3>1, <3>3
  <2> QED
    BY <1>4, <2>2, <2>3, <2>4
<1>9. Faithful(s)'
  <2>1. \A v \in FsUids : NotOlder(fsFeed[v], fsRun[s].feed[v], fsNow)'
    BY <1>0, <1>1, <1>a DEF Faithful, NotOlder
  <2>2. \A v \in FsUids : Pending(s, v)' => v # u /\ Pending(s, v)
    BY <1>0, <1>1 DEF Pending
  <2>3. \A v \in FsUids : Pending(s, v)' => \A r \in RowsOf(v)' : NotOlder(fsRun[s].feed[v], r, r.written)
    BY <1>5, <1>a, <2>2 DEF Faithful
  <2>4. \A v \in FsUids : fsRun'[s].todo = fsRun[s].todo \ {u} /\ v \in fsRun'[s].todo =>
          /\ v \in DOMAIN fsRun'[s].local => fsRun'[s].local[v] \in RowsOf(v)'
          /\ v \notin DOMAIN fsRun'[s].local => RowsOf(v)' = {}
    BY <1>0, <1>1, <1>5, <1>a DEF Faithful
  <2>5. \A v \in FsUids \ {u} : Handled(s, v)' => fsRun[s].feed[v].edit \in fsLate \/ Mirrored(s, v)
    BY <1>0, <1>1, <1>a DEF Faithful, Handled
  <2>6. \A v \in FsUids \ {u} : Mirrored(s, v)' = Mirrored(s, v)
    BY <1>1, <1>5 DEF Mirrored
  <2>7. \A v \in FsUids : Handled(s, v)' => (fsRun[s].feed[v].edit \in fsLate \/ Mirrored(s, v))'
    BY <1>0, <1>1, <1>8, <2>5, <2>6
  <2> QED
    BY <1>0, <1>1, <2>1, <2>3, <2>4, <2>7 DEF Faithful, NotOlder
<1>10. \A t \in FsSyncers \ {s} : Faithful(t)'
  BY <1>2, <1>a, IdleIsFaithful DEF Alone
<1> QED
  BY <1>3, <1>7, <1>9, <1>10 DEF Mirror

(* The feed changes: what has been written or fetched is older. *)
LEMMA MirrorFeeds ==
  ASSUME MirrorTypes, Mirror, NEW u \in FsUids,
         FeedRemove(u) \/ \E bump \in {0, 1} : FeedEdit(u, bump)
  PROVE  Mirror'
<1>0. UNCHANGED <<fsKind, fsRows, fsRun, fsLock, fsLost>> /\ fsLate \subseteq fsLate'
      /\ fsNow' \in Nat /\ fsNow' >= fsNow
  BY DEF FeedRemove, FeedEdit, MirrorTypes
<1>1. fsFeed \in [FsUids -> Version] /\ \A v \in FsUids : fsFeed[v].edit \in Nat /\ fsFeed[v].seq \in Nat
  BY DEF MirrorTypes, Version
<1>2. \A v \in FsUids \ {u} : fsFeed'[v] = fsFeed[v]
  BY <1>1 DEF FeedRemove, FeedEdit
<1>3. /\ fsFeed'[u].seq \in Nat /\ fsFeed'[u].seq >= fsFeed[u].seq
      /\ \/ fsFeed'[u].edit = 0
         \/ /\ fsFeed'[u].edit = fsNow + 1
            /\ fsFeed'[u].seq = fsFeed[u].seq /\ Applying => fsFeed'[u].edit \in fsLate'
  <2>1. CASE FeedRemove(u)
    <3>1. fsFeed' = [fsFeed EXCEPT ![u].edit = 0] /\ fsFeed[u] \in Version
      BY <1>1, <2>1 DEF FeedRemove
    <3> QED
      BY <1>1, <3>1 DEF Version
  <2>2. ASSUME NEW bump \in {0, 1}, FeedEdit(u, bump)
        PROVE  /\ fsFeed'[u].seq = fsFeed[u].seq + bump /\ fsFeed'[u].edit = fsNow + 1
               /\ bump = 0 /\ Applying => fsNow + 1 \in fsLate'
    BY <1>1, <2>2 DEF FeedEdit
  <2> QED
    BY <1>1, <2>1, <2>2
<1>4. \A v \in FsUids : fsFeed[v].edit <= fsNow /\ fsNow \in Nat
  BY DEF MirrorTypes
<1>5. Alone'
  BY <1>0 DEF Mirror, Alone, Active, AtWork
<1>6. RowsKnown'
  <2>1. ASSUME NEW r \in fsRows PROVE NotOlder(fsFeed[r.uid], r, r.written)'
    <3>1. NotOlder(fsFeed[r.uid], r, r.written) /\ r.uid \in FsUids /\ r.seq \in Nat /\ r.written \in Nat /\ r.written <= fsNow
      BY DEF Mirror, RowsKnown, MirrorTypes
    <3>2. CASE r.uid = u
      <4>1. fsFeed'[u].seq >= r.seq
        BY <1>1, <1>3, <3>1, <3>2 DEF NotOlder
      <4>2. fsFeed'[u].edit = 0 \/ ~(fsFeed'[u].edit <= r.written)
        BY <1>3, <1>4, <3>1
      <4> QED
        BY <1>0, <1>3, <3>1, <3>2, <4>1, <4>2 DEF NotOlder
    <3>3. CASE r.uid # u
      BY <1>0, <1>2, <3>1, <3>3 DEF NotOlder
    <3> QED
      BY <3>2, <3>3
  <2> QED
    BY <1>0, <2>1 DEF Mirror, RowsKnown
<1>7. ASSUME NEW t \in FsSyncers PROVE Faithful(t)'
  <2>0. Faithful(t)
    BY DEF Mirror
  <2>1. ASSUME fsRun[t].pc \in {"fetched", "apply"}, NEW v \in FsUids
        PROVE  NotOlder(fsFeed[v], fsRun[t].feed[v], fsNow)'
    <3>1. NotOlder(fsFeed[v], fsRun[t].feed[v], fsNow) /\ fsRun[t].feed[v].seq \in Nat /\ fsRun[t].feed[v].edit \in Nat
      BY <2>0, <2>1 DEF Faithful, MirrorTypes, Version
    <3>2. Applying
      BY <2>1 DEF Applying
    <3>3. CASE v = u
      <4>1. fsFeed'[u].seq >= fsRun[t].feed[v].seq
        BY <1>1, <1>3, <3>1, <3>3 DEF NotOlder
      <4>2. fsFeed'[u].seq = fsRun[t].feed[v].seq => fsFeed'[u].seq = fsFeed[u].seq
        BY <1>1, <1>3, <3>1, <3>3 DEF NotOlder
      <4> QED
        BY <1>0, <1>3, <3>1, <3>2, <3>3, <4>1, <4>2 DEF NotOlder
    <3>4. CASE v # u
      BY <1>0, <1>2, <1>4, <3>1, <3>4 DEF NotOlder
    <3> QED
      BY <3>3, <3>4
  <2>2. ASSUME NEW v \in FsUids, Pending(t, v), NEW r \in RowsOf(v) PROVE NotOlder(fsRun[t].feed[v], r, r.written)'
    <3>1. NotOlder(fsRun[t].feed[v], r, r.written)
      BY <2>0, <2>2 DEF Faithful
    <3> QED
      BY <1>0, <3>1 DEF NotOlder
  <2>3. \A v \in FsUids : RowsOf(v)' = RowsOf(v) /\ Pending(t, v)' = Pending(t, v) /\ Handled(t, v)' = Handled(t, v)
    BY <1>0 DEF RowsOf, Pending, Handled
  <2>4. \A v \in FsUids : Mirrored(t, v)' = Mirrored(t, v)
    BY <1>0, <2>3 DEF Mirrored
  <2>5. \A v \in FsUids : Pending(t, v)' => \A r \in RowsOf(v)' : NotOlder(fsRun[t].feed[v], r, r.written)'
    BY <2>2, <2>3
  <2>6. fsRun'[t] = fsRun[t]
    BY <1>0
  <2> QED
    BY <1>0, <2>0, <2>1, <2>3, <2>4, <2>5, <2>6 DEF Faithful
<1> QED
  BY <1>5, <1>6, <1>7 DEF Mirror

(* The lock expires, a user writes the row of the calendar, or nothing     *)
(* happens.                                                                *)
LEMMA MirrorRests ==
  ASSUME FsInv, Mirror, LockExpires \/ UserReads \/ UserWrites \/ UNCHANGED fsVars
  PROVE  Mirror'
<1>1. UNCHANGED <<fsKind, fsFeed, fsNow, fsRows, fsRun, fsLate>>
      /\ \A s \in FsSyncers : (s \in fsLost => s \in fsLost') /\ (fsLock = s => fsLock' = s \/ s \in fsLost')
  <2>1. CASE LockExpires
    BY <2>1 DEF LockExpires, FsInv, FsTypeOK
  <2>2. UserReads \/ UserWrites \/ UNCHANGED fsVars => UNCHANGED <<fsKind, fsFeed, fsNow, fsRows, fsRun, fsLate, fsLock, fsLost>>
    BY DEF UserReads, UserWrites, fsVars
  <2> QED
    BY <2>1, <2>2
<1>2. \A s \in FsSyncers : Active(s)' => Active(s)
  BY <1>1 DEF Active, AtWork
<1>3. Alone'
  BY <1>1, <1>2 DEF Mirror, Alone
<1>4. RowsKnown'
  BY <1>1 DEF Mirror, RowsKnown, NotOlder
<1>5. \A s \in FsSyncers : Faithful(s)'
  BY <1>1, StaysFaithful DEF Mirror
<1> QED
  BY <1>3, <1>4, <1>5 DEF Mirror

LEMMA MirrorStep ==
  ASSUME FsAssumption, FsInv, MirrorInv, [FsNext]_fsVars
  PROVE  MirrorInv'
<1>1. MirrorTypes /\ MirrorTypes'
  BY MirrorTypesStep DEF MirrorInv
<1>2. SUFFICES ASSUME ~fsMixed' PROVE Mirror'
  BY <1>1 DEF MirrorInv, Mirror
<1>3. ASSUME NEW u \in FsUids, FeedRemove(u) \/ \E bump \in {0, 1} : FeedEdit(u, bump) PROVE Mirror'
  <2>1. ~fsMixed
    BY <1>2, <1>3 DEF FeedRemove, FeedEdit
  <2> QED
    BY <1>1, <1>3, <2>1, MirrorFeeds DEF MirrorInv, Mirror
<1>4. ASSUME NEW s \in FsSyncers,
             \/ \E auto \in BOOLEAN : SyncBegins(s, auto)
             \/ SyncFails(s) \/ ReleaseReads(s) \/ ReleaseDeletes(s) \/ RunDies(s) \/ RaisesOutside(s)
      PROVE  Mirror'
  <2>1. ~fsMixed
    BY <1>2, <1>4 DEF SyncBegins, SyncFails, ReleaseReads, ReleaseDeletes, RunDies, RaisesOutside, LeavesLock
  <2> QED
    BY <1>4, <2>1, MirrorStops DEF MirrorInv, Mirror
<1>5. ASSUME NEW s \in FsSyncers, TakeLock(s) PROVE Mirror'
  <2>1. ~fsMixed
    BY <1>2, <1>5 DEF TakeLock
  <2> QED
    BY <1>2, <1>5, <2>1, MirrorLocks DEF MirrorInv, Mirror
<1>6. ASSUME NEW s \in FsSyncers, SetRunning(s) \/ Fetch(s) \/ ReadMetadata(s) \/ SyncCompletes(s) PROVE Mirror'
  <2>1. ~fsMixed
    BY <1>2, <1>6 DEF SetRunning, Fetch, ReadMetadata, SyncCompletes
  <2> QED
    BY <1>1, <1>6, <2>1, MirrorReads DEF MirrorInv, Mirror
<1>7. ASSUME NEW s \in FsSyncers, NEW u \in FsUids, ApplyOne(s, u) PROVE Mirror'
  <2>1. ~fsMixed
    BY <1>2, <1>7 DEF ApplyOne
  <2> QED
    BY <1>1, <1>7, <2>1, MirrorApplies DEF MirrorInv, Mirror
<1>8. ASSUME LockExpires \/ UserReads \/ UserWrites \/ UNCHANGED fsVars PROVE Mirror'
  <2>1. ~fsMixed
    BY <1>2, <1>8 DEF LockExpires, UserReads, UserWrites, fsVars
  <2> QED
    BY <1>8, <2>1, MirrorRests DEF MirrorInv, Mirror
<1> QED
  BY <1>3, <1>4, <1>5, <1>6, <1>7, <1>8 DEF FsNext

(* A run that completes leaves in the calendar or the book exactly the     *)
(* entries it fetched, as long as no two runs have overlapped; only an     *)
(* edit that kept the SEQUENCE and came while a fetched feed was being     *)
(* written may be missed.                                                  *)
THEOREM MirrorIsFresh == FsSpec => []MirrorFresh
<1>1. FsInit => FsInv /\ MirrorInv
  BY FsStarts, MirrorStarts
<1>2. FsInv /\ MirrorInv /\ [FsNext]_fsVars => (FsInv /\ MirrorInv)'
  BY FsKeeps, MirrorStep, FsAssumption
<1>3. MirrorInv => MirrorFresh
  BY DEF MirrorInv, Mirror, MirrorFresh, Faithful, Handled
<1> QED
  BY <1>1, <1>2, <1>3, PTL DEF FsSpec

=============================================================================
