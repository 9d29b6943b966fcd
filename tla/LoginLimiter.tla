---------------------------- MODULE LoginLimiter ---------------------------
(***************************************************************************)
(* The limiter of failed logins of one user, as _check_login uses it; not  *)
(* only logins run it, every request of a session does.  Its counter and   *)
(* its block are two keys of the cache, used one command at a time.        *)
(***************************************************************************)
EXTENDS Integers

CONSTANTS
    LlChecks,    \* requests that check the password at the same time
    LlMaxAttempt,\* SOGO_D_LOGIN_CHECK_MAX_ATTEMPT
    LlMaxChecks  \* bound: checks in all

ASSUME LlAssumption == LlMaxAttempt \in Nat \ {0} /\ LlMaxChecks \in Nat

VARIABLES
    llCount,  \* the counter
    llExpires,\* whether it has a time to live
    llBlock,  \* why the user is blocked, or "no"
    llCheck,  \* by request: where it is
    llChecks, \* checks so far
    llReal,   \* ghost: failures counted in the span, since the last success
    llCut     \* ghost: the counting was cut short between its two commands

llVars == <<llCount, llExpires, llBlock, llCheck, llChecks, llReal, llCut>>

NoCheck == [pc |-> "idle"]
LlGoes(c, rec) == llCheck' = [llCheck EXCEPT ![c] = rec]

LlInit ==
    /\ llCount = 0 /\ llExpires = FALSE /\ llBlock = "no" /\ llChecks = 0
    /\ llCheck = [c \in LlChecks |-> NoCheck] /\ llReal = 0 /\ llCut = FALSE

(* A blocked user is refused before the password is looked at. *)
CheckBegins(c) ==
    /\ llCheck[c] = NoCheck /\ llChecks < LlMaxChecks /\ llChecks' = llChecks + 1
    /\ llBlock = "no" /\ LlGoes(c, [pc |-> "checking"])
    /\ UNCHANGED <<llCount, llExpires, llBlock, llReal, llCut>>

(* A failure: INCR, *)
CountFailure(c) ==
    /\ llCheck[c].pc = "checking"
    /\ llCount' = llCount + 1 /\ llReal' = llReal + 1
    /\ LlGoes(c, [pc |-> "counted", count |-> llCount + 1, met |-> FALSE])
    /\ UNCHANGED <<llExpires, llBlock, llChecks, llCut>>

NoExpiry(c) ==
    /\ llCheck[c].pc = "counted" /\ LlGoes(c, [llCheck[c] EXCEPT !.pc = "set"])
    /\ UNCHANGED <<llCount, llExpires, llBlock, llChecks, llReal, llCut>>

(* EXPIRE by the one that counted first, if the key is still there, *)
SetExpiry(c) ==
    /\ llCheck[c].pc = "counted" /\ LlGoes(c, [llCheck[c] EXCEPT !.pc = "set"])
    /\ llExpires' = (llExpires \/ (llCheck[c].count = 1 /\ llCount > 0))
    /\ UNCHANGED <<llCount, llBlock, llChecks, llReal, llCut>>

(* and the block, when that makes max_attempt failures. *)
Block(c) ==
    /\ llCheck[c].pc = "set" /\ LlGoes(c, NoCheck)
    /\ llBlock' = IF llCheck[c].count < LlMaxAttempt THEN llBlock
                  ELSE IF llCut \/ llCheck[c].met THEN "excused"
                  ELSE IF llReal >= LlMaxAttempt THEN "deserved" ELSE "wrong"
    /\ UNCHANGED <<llCount, llExpires, llChecks, llReal, llCut>>

(* A success deletes the counter and then the block. *)
ResetCounter(c) ==
    /\ llCheck[c].pc = "checking"
    /\ llCount' = 0 /\ llExpires' = FALSE /\ llReal' = 0
    /\ llCheck' = [d \in LlChecks |->
          IF d = c THEN [pc |-> "reset"]
          ELSE IF llCheck[d].pc \in {"counted", "set"} THEN [llCheck[d] EXCEPT !.met = TRUE] ELSE llCheck[d]]
    /\ UNCHANGED <<llBlock, llChecks, llCut>>

ResetBlock(c) ==
    /\ llCheck[c].pc = "reset" /\ llBlock' = "no" /\ LlGoes(c, NoCheck)
    /\ UNCHANGED <<llCount, llExpires, llChecks, llReal, llCut>>

(* The backend raises (no failure is counted), a command of the limiter    *)
(* fails, which lets the request go on, or the process dies.               *)
CheckDies(c) ==
    /\ llCheck[c] # NoCheck /\ LlGoes(c, NoCheck)
    /\ llCut' = (llCut \/ (llCheck[c].pc = "counted" /\ llCheck[c].count = 1))
    /\ UNCHANGED <<llCount, llExpires, llBlock, llChecks, llReal>>

(* time_span elapses since the first of the counted failures; a check that *)
(* is under way then counts as overlapping it.                             *)
SpanElapses ==
    /\ llReal > 0 /\ llReal' = 0
    /\ llCount' = (IF llExpires THEN 0 ELSE llCount) /\ llExpires' = FALSE
    /\ llCut' = (llCut \/ \E c \in LlChecks : llCheck[c].pc = "counted" /\ llCheck[c].count = 1)
    /\ llCheck' = [c \in LlChecks |->
          IF llCheck[c].pc \in {"counted", "set"} THEN [llCheck[c] EXCEPT !.met = TRUE] ELSE llCheck[c]]
    /\ UNCHANGED <<llBlock, llChecks>>

(* block_time elapses. *)
BlockExpires ==
    /\ llBlock # "no" /\ llBlock' = "no"
    /\ UNCHANGED <<llCount, llExpires, llCheck, llChecks, llReal, llCut>>

LlNext ==
    \/ \E c \in LlChecks : CheckBegins(c) \/ CountFailure(c) \/ SetExpiry(c) \/ Block(c)
                           \/ ResetCounter(c) \/ ResetBlock(c) \/ CheckDies(c)
    \/ SpanElapses \/ BlockExpires

LlSpec == LlInit /\ [][LlNext]_llVars

(* A user is blocked only for max_attempt failures within time_span and    *)
(* since the last success.  Two things excuse a block: a failure that was  *)
(* being recorded while a success reset the counter or the span ended, and *)
(* a counter that was left without a time to live.                         *)
BlockedForCause == llBlock # "wrong"
=============================================================================
