----------------------------- MODULE Sessions ------------------------------
(***************************************************************************)
(* The sessions of one user: a hash in the cache for each, and the index   *)
(* of activity, from which revocations and listings start (the indexes by  *)
(* uid and domain, which only sort listings, are left out).  Logins,       *)
(* requests, revocations and listings use them one command at a time, and  *)
(* any of them may die in between.                                         *)
(***************************************************************************)
EXTENDS Integers, FiniteSets

CONSTANTS
    SeSessions, \* session ids
    SeRequests, \* requests at work at the same time
    SeAdmins    \* revocations and listings at work at the same time

VARIABLES
    seHash,    \* by session: "none", "full", or "part": a last_seen and nothing else
    seIndex,   \* the index of activity
    seVoucher, \* by session: "none", "stored", or "issued" to the client
    seReq,     \* by request: its session, and whether that was revoked before
    seAdmin,   \* by revocation or listing: where it is
    seRevoked, \* ghost: issued sessions that a revocation has revoked
    seHidden   \* ghost: live sessions that left the index in a revocation by activity

seVars == <<seHash, seIndex, seVoucher, seReq, seAdmin, seRevoked, seHidden>>

NoRequest == [pc |-> "idle"]
SeGoes(r, rec) == seReq' = [seReq EXCEPT ![r] = rec]
Steps(a, rec) == seAdmin' = [seAdmin EXCEPT ![a] = rec]
Live == {s \in SeSessions : seVoucher[s] = "issued" /\ seHash[s] = "full"}

SeInit ==
    /\ seHash = [s \in SeSessions |-> "none"] /\ seIndex = {}
    /\ seVoucher = [s \in SeSessions |-> "none"]
    /\ seReq = [r \in SeRequests |-> NoRequest] /\ seAdmin = [a \in SeAdmins |-> NoRequest]
    /\ seRevoked = {} /\ seHidden = {}

-----------------------------------------------------------------------------
(* generate_voucher_from_user: the hash, then the index, then the voucher. *)
StoreSession(s) ==
    /\ seVoucher[s] = "none" /\ seVoucher' = [seVoucher EXCEPT ![s] = "stored"]
    /\ seHash' = [seHash EXCEPT ![s] = "full"]
    /\ UNCHANGED <<seIndex, seReq, seAdmin, seRevoked, seHidden>>

IssueVoucher(s) ==
    /\ seVoucher[s] = "stored" /\ seVoucher' = [seVoucher EXCEPT ![s] = "issued"]
    /\ seIndex' = seIndex \cup {s}
    /\ UNCHANGED <<seHash, seReq, seAdmin, seRevoked, seHidden>>

(* TTL_1D after the login; a hash that was made again has no time to live. *)
SessionExpires(s) ==
    /\ seHash[s] = "full" /\ seHash' = [seHash EXCEPT ![s] = "none"]
    /\ UNCHANGED <<seIndex, seVoucher, seReq, seAdmin, seRevoked, seHidden>>

-----------------------------------------------------------------------------
(* _get_user_session_from_payload: the hash is read.  One that is not      *)
(* there has its index entry removed; one without a uid raises.            *)
ReadSession(r, s) ==
    /\ seReq[r] = NoRequest /\ seVoucher[s] = "issued" /\ seHash[s] # "part"
    /\ SeGoes(r, [pc |-> IF seHash[s] = "full" THEN "read" ELSE "missing",
                  s |-> s, revoked |-> s \in seRevoked])
    /\ UNCHANGED <<seHash, seIndex, seVoucher, seAdmin, seRevoked, seHidden>>

CleanIndex(r) ==
    /\ seReq[r].pc = "missing" /\ seIndex' = seIndex \ {seReq[r].s} /\ SeGoes(r, NoRequest)
    /\ UNCHANGED <<seHash, seVoucher, seAdmin, seRevoked, seHidden>>

TouchedWhole(hash) == "full"

(* HSET of last_seen alone, which makes a hash that has gone meanwhile. *)
Touched(hash) == IF hash = "none" THEN "part" ELSE hash

TouchSession(r) ==
    LET s == seReq[r].s
    IN /\ seReq[r].pc = "read" /\ seHash' = [seHash EXCEPT ![s] = Touched(@)]
       /\ SeGoes(r, [seReq[r] EXCEPT !.pc = "touched"])
       /\ UNCHANGED <<seIndex, seVoucher, seAdmin, seRevoked, seHidden>>

IndexSession(r) ==
    /\ seReq[r].pc = "touched" /\ seIndex' = seIndex \cup {seReq[r].s}
    /\ SeGoes(r, [seReq[r] EXCEPT !.pc = "served"])
    /\ seHidden' = seHidden \ {seReq[r].s}
    /\ UNCHANGED <<seHash, seVoucher, seAdmin, seRevoked>>

(* The request is answered, or its process dies. *)
RequestEnds(r) ==
    /\ seReq[r].pc \in {"read", "touched", "served"} /\ SeGoes(r, NoRequest)
    /\ UNCHANGED <<seHash, seIndex, seVoucher, seAdmin, seRevoked, seHidden>>

-----------------------------------------------------------------------------
(* revoke_user_sessions_by_key: a logout, or an administrator. *)
RevokeByKey(a, s) ==
    /\ seAdmin[a] = NoRequest /\ seVoucher[s] = "issued"
    /\ Steps(a, [pc |-> "delete", keys |-> {s}, drop |-> {}, aim |-> {s}])
    /\ UNCHANGED <<seHash, seIndex, seVoucher, seReq, seRevoked, seHidden>>

(* revoke_user_sessions_by_uid: an administrator, or a change of password. *)
(* The index is read, the uid of every key in it, and those that match are *)
(* deleted, each with its index entry.                                     *)
RevokeByUid(a) ==
    /\ seAdmin[a] = NoRequest
    /\ Steps(a, [pc |-> "match", keys |-> seIndex, aim |-> Live \ seHidden])
    /\ UNCHANGED <<seHash, seIndex, seVoucher, seReq, seRevoked, seHidden>>

MatchUid(a) ==
    /\ seAdmin[a].pc = "match"
    /\ Steps(a, [pc |-> "delete", keys |-> {s \in seAdmin[a].keys : seHash[s] = "full"}, drop |-> {},
                 aim |-> seAdmin[a].aim])
    /\ UNCHANGED <<seHash, seIndex, seVoucher, seReq, seRevoked, seHidden>>

(* Every key: DEL, *)
DeleteHash(a, s) ==
    /\ seAdmin[a].pc = "delete" /\ seAdmin[a].drop = {} /\ s \in seAdmin[a].keys
    /\ seHash' = [seHash EXCEPT ![s] = "none"]
    /\ Steps(a, [seAdmin[a] EXCEPT !.keys = @ \ {s}, !.drop = {s}])
    /\ UNCHANGED <<seIndex, seVoucher, seReq, seRevoked, seHidden>>

(* and ZREM. *)
DropIndex(a) ==
    /\ seAdmin[a].pc = "delete" /\ seAdmin[a].drop # {}
    /\ seIndex' = seIndex \ seAdmin[a].drop
    /\ Steps(a, [seAdmin[a] EXCEPT !.drop = {}])
    /\ UNCHANGED <<seHash, seVoucher, seReq, seRevoked, seHidden>>

RevocationEnds(a) ==
    /\ seAdmin[a].pc = "delete" /\ seAdmin[a].keys = {} /\ seAdmin[a].drop = {}
    /\ "aim" \in DOMAIN seAdmin[a] /\ seRevoked' = seRevoked \cup seAdmin[a].aim
    /\ Steps(a, NoRequest) /\ UNCHANGED <<seHash, seIndex, seVoucher, seReq, seHidden>>

(* revoke_user_sessions_by_activity: the keys up to the time are read, and *)
RevokeByActivity(a, keys) ==
    /\ seAdmin[a] = NoRequest /\ keys \subseteq seIndex
    /\ Steps(a, [pc |-> "delete", keys |-> keys, drop |-> {}])
    /\ UNCHANGED <<seHash, seIndex, seVoucher, seReq, seRevoked, seHidden>>

(* after their hashes everything up to the time leaves the index, what     *)
(* came in since as well.                                                  *)
DropUpTo(a, S) ==
    /\ seAdmin[a].pc = "delete" /\ seAdmin[a].keys = {} /\ "aim" \notin DOMAIN seAdmin[a]
    /\ S \subseteq seIndex /\ seIndex' = seIndex \ S
    /\ seHidden' = seHidden \cup {s \in S : seHash[s] = "full"}
    /\ Steps(a, NoRequest)
    /\ UNCHANGED <<seHash, seVoucher, seReq, seRevoked>>

(* A listing removes the index entries whose hash was not there. *)
ListSessions(a) ==
    /\ seAdmin[a] = NoRequest /\ \A s \in seIndex : seHash[s] # "part"
    /\ Steps(a, [pc |-> "clean", keys |-> {s \in seIndex : seHash[s] = "none"}])
    /\ UNCHANGED <<seHash, seIndex, seVoucher, seReq, seRevoked, seHidden>>

CleanOrphans(a) ==
    /\ seAdmin[a].pc = "clean" /\ seIndex' = seIndex \ seAdmin[a].keys /\ Steps(a, NoRequest)
    /\ UNCHANGED <<seHash, seVoucher, seReq, seRevoked, seHidden>>

AdminDies(a) ==
    /\ seAdmin[a] # NoRequest /\ Steps(a, NoRequest)
    /\ UNCHANGED <<seHash, seIndex, seVoucher, seReq, seRevoked, seHidden>>

SeNext ==
    \/ \E s \in SeSessions : StoreSession(s) \/ IssueVoucher(s) \/ SessionExpires(s)
    \/ \E r \in SeRequests :
          \/ \E s \in SeSessions : ReadSession(r, s)
          \/ CleanIndex(r) \/ TouchSession(r) \/ IndexSession(r) \/ RequestEnds(r)
    \/ \E a \in SeAdmins :
          \/ \E s \in SeSessions : RevokeByKey(a, s) \/ DeleteHash(a, s)
          \/ \E S \in SUBSET SeSessions : RevokeByActivity(a, S) \/ DropUpTo(a, S)
          \/ RevokeByUid(a) \/ MatchUid(a) \/ DropIndex(a) \/ RevocationEnds(a)
          \/ ListSessions(a) \/ CleanOrphans(a) \/ AdminDies(a)

SeSpec == SeInit /\ [][SeNext]_seVars

-----------------------------------------------------------------------------
(* A request that starts after its session was revoked, by its key or with *)
(* all the sessions of the user, is not served, although requests that     *)
(* were under way write the session's activity back, and listings, expiry  *)
(* and other revocations go on.                                            *)
RevokedNeverServed == \A r \in SeRequests : seReq[r].pc \in {"read", "touched", "served"} => ~seReq[r].revoked
=============================================================================
