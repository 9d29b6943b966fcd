----------------------------- MODULE BeatLock ------------------------------
(***************************************************************************)
(* The guard of the scheduler, beat(): one instance is to be active.  The  *)
(* lock has a time to live, which a thread of the holder renews every half *)
(* of it; instances stall, die and are stopped.                            *)
(***************************************************************************)
EXTENDS Integers, FiniteSets

CONSTANTS
    BtBeats, \* instances
    BtTtl    \* BEAT_LOCK_TTL_SECONDS, in ticks

ASSUME BtAssumption == BtTtl \in {n \in Nat : n >= 2 /\ n % 2 = 0}

VARIABLES
    btLock,   \* ticks the lock has left, 0 when it is not there
    btActive, \* instances that schedule
    btWait,   \* by active instance: ticks until its renewal
    btStalled \* ghost: the lock expired while a renewal was overdue

btVars == <<btLock, btActive, btWait, btStalled>>

BtInit == btLock = 0 /\ btActive = {} /\ btWait = [b \in BtBeats |-> 0] /\ btStalled = FALSE

PauseFull == BtTtl

(* stop.wait(ttl / 2) *)
Pause == BtTtl \div 2

(* SET NX, or the instance exits. *)
BeatStarts(b) ==
    /\ b \notin btActive /\ btLock = 0
    /\ btLock' = BtTtl /\ btActive' = btActive \cup {b}
    /\ btWait' = [btWait EXCEPT ![b] = Pause] /\ UNCHANGED btStalled

(* The renewal is a SET without NX: it takes the lock whoever has it. *)
BeatRenews(b) ==
    /\ b \in btActive /\ btWait[b] = 0
    /\ btLock' = BtTtl /\ btWait' = [btWait EXCEPT ![b] = Pause]
    /\ UNCHANGED <<btActive, btStalled>>

(* finally: the lock is deleted, whoever has it. *)
BeatStops(b) ==
    /\ b \in btActive /\ btActive' = btActive \ {b}
    /\ btLock' = 0 /\ btWait' = [btWait EXCEPT ![b] = 0] /\ UNCHANGED btStalled

BeatDies(b) ==
    /\ b \in btActive /\ btActive' = btActive \ {b}
    /\ btWait' = [btWait EXCEPT ![b] = 0] /\ UNCHANGED <<btLock, btStalled>>

(* A tick passes.  A renewal that is due may be late: its process stalls,  *)
(* or does not reach the cache.                                            *)
BtTick ==
    /\ btLock > 0 /\ btLock' = btLock - 1
    /\ btStalled' = (btStalled \/ (btLock = 1 /\ \E b \in btActive : btWait[b] = 0))
    /\ btWait' = [b \in BtBeats |-> IF btWait[b] > 0 THEN btWait[b] - 1 ELSE 0]
    /\ UNCHANGED btActive

BtNext == BtTick \/ \E b \in BtBeats : BeatStarts(b) \/ BeatRenews(b) \/ BeatStops(b) \/ BeatDies(b)

BtSpec == BtInit /\ [][BtNext]_btVars

(* "Only one instance is ever active" holds as long as no renewal is late  *)
(* by more than the half of the time to live that is left when it is due,  *)
(* and an instance that stops or dies leaves the lock to one successor.    *)
OneBeat == btStalled \/ Cardinality(btActive) <= 1
=============================================================================
