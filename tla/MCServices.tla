----------------------------- MODULE MCServices -----------------------------
(***************************************************************************)
(* The services of the server in one run: the sessions and the login       *)
(* limiter, the audit log, the lock of the beat, the synchronisation of a  *)
(* subscribed feed, scheduling by mail, the bookings of a room and the store *)
(* of jobs.  They share no state, so a behaviour is a behaviour of one of   *)
(* them, chosen in the initial state, while the others rest in one of their *)
(* initial states.                                                         *)
(***************************************************************************)
EXTENDS TLC, Sessions, LoginLimiter, AuditLog, BeatLock, FeedSync, Imip,
        ResourceBooking, MCJobStore

VARIABLE part

MCInit ==
    /\ part \in {"sessions", "logins", "audit", "beat", "feed", "imip", "rooms", "store"}
    /\ SeInit
    /\ LlInit
    /\ AlInit
    /\ BtInit
    /\ FsInit
    /\ ImInit
    /\ RbInit
    /\ Init
    /\ part = "feed" \/ fsKind = "calendar"

MCNext ==
    \/ part = "sessions" /\ SeNext
       /\ UNCHANGED <<part, llVars, alVars, btVars, fsVars, imVars, rbVars, vars>>
    \/ part = "logins" /\ LlNext
       /\ UNCHANGED <<part, seVars, alVars, btVars, fsVars, imVars, rbVars, vars>>
    \/ part = "audit" /\ AlNext
       /\ UNCHANGED <<part, seVars, llVars, btVars, fsVars, imVars, rbVars, vars>>
    \/ part = "beat" /\ BtNext
       /\ UNCHANGED <<part, seVars, llVars, alVars, fsVars, imVars, rbVars, vars>>
    \/ part = "feed" /\ FsNext
       /\ UNCHANGED <<part, seVars, llVars, alVars, btVars, imVars, rbVars, vars>>
    \/ part = "imip" /\ ImNext
       /\ UNCHANGED <<part, seVars, llVars, alVars, btVars, fsVars, rbVars, vars>>
    \/ part = "rooms" /\ RbNext
       /\ UNCHANGED <<part, seVars, llVars, alVars, btVars, fsVars, imVars, vars>>
    \/ part = "store" /\ Next
       /\ UNCHANGED <<part, seVars, llVars, alVars, btVars, fsVars, imVars, rbVars>>

MCSpec ==
    MCInit /\ [][MCNext]_<<part, seVars, llVars, alVars, btVars, fsVars, imVars, rbVars, vars>>

\* What tells two states apart: the part that moves.
MovingPart ==
    CASE part = "sessions" -> <<part, seVars>>
      [] part = "logins" -> <<part, llVars>>
      [] part = "audit" -> <<part, alVars>>
      [] part = "beat" -> <<part, btVars>>
      [] part = "feed" -> <<part, fsVars>>
      [] part = "imip" -> <<part, imVars>>
      [] part = "rooms" -> <<part, rbVars>>
      [] part = "store" -> <<part, vars>>

\* Two runs of one synchronisation, two revocations, two requests about a room,
\* two bookings and two processes at the store differ in nothing but their names.
\* The configuration gives them the same names, so that one swap serves them all.
NameSymmetry == Permutations(FsSyncers)
=============================================================================
