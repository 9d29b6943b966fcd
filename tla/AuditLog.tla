----------------------------- MODULE AuditLog ------------------------------
(***************************************************************************)
(* The audit log: a sorted set of entries, each naming the one before it.  *)
(* audit() appends in three commands, and threads of several processes     *)
(* call it; verify_chain reads the whole set and reports broken links.     *)
(* An entry's hash covers what it says of its predecessor, so the model    *)
(* keeps the link and leaves out the digest.                               *)
(***************************************************************************)
EXTENDS Integers, FiniteSets, FiniteSetsExt

CONSTANTS
    AlCallers, \* threads that call audit()
    AlMaxCalls,\* bound: calls of audit()
    AlMaxEntries \* _MAX_ENTRIES

ASSUME AlAssumption == AlMaxCalls \in Nat /\ AlMaxEntries \in Nat \ {0}

VARIABLES
    alSeq,    \* the counter
    alLog,    \* the entries: seq and the seq of the entry before
    alCall,   \* by caller: where its call is, and what it has got
    alOverlap \* ghost: two calls were under way at once

alVars == <<alSeq, alLog, alCall, alOverlap>>

NoCall == [pc |-> "idle"]
NewestEntry(log) == IF log = {} THEN 0 ELSE Max({e.seq : e \in log})

AlInit == alSeq = 0 /\ alLog = {} /\ alCall = [c \in AlCallers |-> NoCall] /\ alOverlap = FALSE

(* incr *)
AuditTakesSeq(c) ==
    /\ alCall[c] = NoCall /\ alSeq < AlMaxCalls /\ alSeq' = alSeq + 1
    /\ alCall' = [alCall EXCEPT ![c] = [pc |-> "seq", seq |-> alSeq + 1]]
    /\ alOverlap' = (alOverlap \/ \E d \in AlCallers : alCall[d] # NoCall)
    /\ UNCHANGED alLog

PreviousBySeq(c) == alCall[c].seq - 1

(* prev_seq comes from the newest entry there is. *)
Previous(c) == NewestEntry(alLog)

AuditReadsNewest(c) ==
    /\ alCall[c].pc = "seq"
    /\ alCall' = [alCall EXCEPT ![c] = [pc |-> "read", seq |-> @.seq, prev |-> Previous(c)]]
    /\ UNCHANGED <<alSeq, alLog, alOverlap>>

AuditAppends(c) ==
    /\ alCall[c].pc = "read"
    /\ alLog' = alLog \cup {[seq |-> alCall[c].seq, prev |-> alCall[c].prev]}
    /\ alCall' = [alCall EXCEPT ![c] = [pc |-> "added"]]
    /\ UNCHANGED <<alSeq, alOverlap>>

(* Retention: the oldest go when there are more than _MAX_ENTRIES. *)
AuditTrims(c) ==
    /\ alCall[c].pc = "added"
    /\ alLog' = {e \in alLog : Cardinality({f \in alLog : f.seq > e.seq}) < AlMaxEntries}
    /\ alCall' = [alCall EXCEPT ![c] = NoCall]
    /\ UNCHANGED <<alSeq, alOverlap>>

(* The process dies, or a command fails and the exception ends the call. *)
AuditDies(c) ==
    /\ alCall[c] # NoCall /\ alCall' = [alCall EXCEPT ![c] = NoCall]
    /\ UNCHANGED <<alSeq, alLog, alOverlap>>

AlNext == \E c \in AlCallers :
    AuditTakesSeq(c) \/ AuditReadsNewest(c) \/ AuditAppends(c) \/ AuditTrims(c) \/ AuditDies(c)

AlSpec == AlInit /\ [][AlNext]_alVars

(* verify_chain: each retained entry but the oldest names the one before. *)
Broken(log) ==
    {e \in log : e.seq # Min({f.seq : f \in log})
                 /\ e.prev # Max({f.seq : f \in {f \in log : f.seq < e.seq}})}

(* No break is reported, whatever call died after it had taken its number  *)
(* and whatever retention dropped, unless two calls of audit() overlapped: *)
(* they then link to the same entry, or to one that comes after.           *)
ChainHolds == alOverlap \/ Broken(alLog) = {}
=============================================================================
