------------------------------- MODULE CalDav -------------------------------
(***************************************************************************)
(* CalDAV clients on one calendar: ETags and If-Match, and the changes a   *)
(* client asks for with a sync token (RFC 6578).                           *)
(*                                                                         *)
(* The calendar lives in the memory of each gunicorn worker (_module());   *)
(* the worker answers with several threads, so a PUT is three steps: the   *)
(* preconditions, the change counter, the store; a DELETE is four: the     *)
(* preconditions, the change counter, the event, the tombstone.  Counting  *)
(* and every other request are one step.  A request is answered by any     *)
(* worker.                                                                 *)
(*                                                                         *)
(* Clients are external: one keeps its copy of each event with the ETag,   *)
(* and its token, and names the ETag of its copy in If-Match.              *)
(***************************************************************************)
EXTENDS Integers, Sequences, FiniteSets

CONSTANTS
    DavClients,
    DavFollowers,   \* the ones of them that keep copies; the others only edit
    DavWorkers,
    DavUids,        \* the events: 1 .. n, in the order of their names
    DavMaxRequests, \* bound: requests that change something
    DavMaxSeconds   \* bound: the clock, in whole seconds

ASSUME DavAssumption ==
    /\ DavUids \subseteq Nat /\ DavFollowers \subseteq DavClients
    /\ DavMaxRequests \in Nat /\ DavMaxSeconds \in Nat

VARIABLES
    davOther, \* whether the user has another calendar as well
    davCal,   \* by worker: the change counter of the calendar, or NoCalendar
    davGen,   \* ghost, by worker: how often the calendar was made
    davEv,    \* by worker and uid: the event
    davTomb,  \* by worker and uid: when it was deleted, or 0
    davStray, \* ghost: workers with a tombstone of a calendar deleted before
    davPut,   \* by client: the PUT or DELETE a thread is working on
    davView,  \* by client: what it knows
    davNow,   \* the second
    davCount  \* requests so far; names the versions they write

davVars == <<davOther, davCal, davGen, davEv, davTomb, davStray, davPut, davView, davNow, davCount>>

NoCalendar == -1
NoEv == [seq |-> 0]
Versions == 1 .. DavMaxRequests
Counters == 0 .. DavMaxRequests

(* etag: the hash of the uid, the counter and the second; from: ghost, the *)
(* calendar it was stored in.                                              *)
Ev == [seq: Counters, etag: Counters \X (0 .. DavMaxSeconds), val: Versions,
       from: DavWorkers \X (0 .. DavMaxRequests)]
NoPut == [step |-> "none"]

DavTypeOK ==
    /\ davCal \in [DavWorkers -> {NoCalendar} \cup Counters]
    /\ \A w \in DavWorkers, u \in DavUids : davEv[w][u] \in Ev \cup {NoEv}
    /\ davTomb \in [DavWorkers -> [DavUids -> Counters]] /\ davStray \subseteq DavWorkers
    /\ \A c \in DavClients : davPut[c] # NoPut => davPut[c].step \in {"bump", "store", "pop", "bury"}
    /\ \A c \in DavFollowers :
          /\ davView[c].token \in Counters
          /\ \A u \in DavUids : davView[c].copy[u] \in Ev \cup {NoEv}
    /\ davCount \in 0 .. DavMaxRequests

NewView == [token |-> 0, home |-> <<>>, missed |-> FALSE, agrees |-> TRUE,
            copy |-> [u \in DavUids |-> NoEv]]

DavInit ==
    /\ davOther \in BOOLEAN
    /\ davCal = [w \in DavWorkers |-> 0]
    /\ davGen = [w \in DavWorkers |-> 0]
    /\ davEv = [w \in DavWorkers |-> [u \in DavUids |-> NoEv]]
    /\ davTomb = [w \in DavWorkers |-> [u \in DavUids |-> 0]] /\ davStray = {}
    /\ davPut = [c \in DavClients |-> NoPut]
    /\ davView = [c \in DavFollowers |-> NewView]
    /\ davNow = 0 /\ davCount = 0

-----------------------------------------------------------------------------
(* register_user, before every request: a user without any calendar gets   *)
(* one.                                                                    *)
Provisioned(w) == davCal[w] # NoCalendar \/ ~davOther
Counter(w) == IF davCal[w] = NoCalendar THEN 0 ELSE davCal[w]
Gen(w) == IF davCal[w] = NoCalendar THEN davGen[w] + 1 ELSE davGen[w]

(* A client sends a request: it is answered if the calendar is there. *)
Asks(c, w) == davPut[c] = NoPut /\ Provisioned(w)
Changes(c, w) == Asks(c, w) /\ davCount < DavMaxRequests /\ davCount' = davCount + 1

Bump(w) ==
    /\ davCal' = [davCal EXCEPT ![w] = Counter(w) + 1]
    /\ davGen' = [davGen EXCEPT ![w] = Gen(w)]
Kept(w) ==
    /\ davCal' = [davCal EXCEPT ![w] = Counter(w)]
    /\ davGen' = [davGen EXCEPT ![w] = Gen(w)]

(* Mutant: the ETag has no counter in it. *)
EtagBySecond(seq, now) == <<0, now>>

(* _etag(uid:seq, now); the hash is taken to be injective. *)
Etag(seq, now) == <<seq, now>>

Match(c, e, u, cond) ==
    CASE cond = "If-Match" -> c \in DavFollowers /\ davView[c].copy[u] # NoEv /\ e # NoEv /\ e.etag = davView[c].copy[u].etag
      [] cond = "If-None-Match" -> e = NoEv
      [] cond = "none" -> TRUE

DavRequest(c, w, u, kind) ==
    davPut' = [davPut EXCEPT ![c] = [step |-> "bump", kind |-> kind, w |-> w, u |-> u, val |-> davCount + 1,
                                     new |-> davEv[w][u] = NoEv, seq |-> 0, at |-> 0, from |-> <<>>]]

(* put_event: the preconditions; what does not meet them changes nothing. *)
PutCheck(c, w, u, cond) ==
    /\ Changes(c, w)
    /\ Match(c, davEv[w][u], u, cond)
    /\ DavRequest(c, w, u, "store") /\ Kept(w)
    /\ UNCHANGED <<davOther, davEv, davTomb, davStray, davView, davNow>>

(* delete_event: the event must be there. *)
DeleteCheck(c, w, u, cond) ==
    /\ Changes(c, w) /\ davEv[w][u] # NoEv
    /\ Match(c, davEv[w][u], u, cond)
    /\ DavRequest(c, w, u, "pop") /\ Kept(w)
    /\ UNCHANGED <<davOther, davEv, davTomb, davStray, davView, davNow>>

(* The time is taken, then _bump_change_counter, for a PUT or a DELETE;    *)
(* the calendar may be gone by now, which is a 404.                        *)
TakeNumber(c) ==
    /\ davPut[c].step = "bump"
    /\ LET w == davPut[c].w IN
       IF davCal[w] = NoCalendar
       THEN davPut' = [davPut EXCEPT ![c] = NoPut] /\ UNCHANGED <<davCal, davGen>>
       ELSE /\ Bump(w)
            /\ davPut' = [davPut EXCEPT ![c] =
                  [@ EXCEPT !.step = davPut[c].kind, !.seq = davCal[w] + 1, !.at = davNow,
                              !.from = <<w, davGen[w]>>]]
    /\ UNCHANGED <<davOther, davEv, davTomb, davStray, davView, davNow, davCount>>

(* Ghost: a client is answered by the calendar from; tokens and copies of  *)
(* another one are worth nothing.                                          *)
Meets(v, from) == [v EXCEPT !.home = from, !.missed = @ \/ v.home \notin {<<>>, from}]

(* A follower keeps what it was told about an event. *)
Noted(c, u, e, from) ==
    IF c \in DavFollowers THEN [davView EXCEPT ![c] = [Meets(@, from) EXCEPT !.copy[u] = e]]
    ELSE davView

(* Ghost: a client whose token already covers the event will not be told. *)
TellAll(w, seq, views) ==
    [c \in DavFollowers |->
        IF views[c].home # <<>> /\ views[c].home[1] = w /\ views[c].token >= seq
        THEN [views[c] EXCEPT !.missed = TRUE] ELSE views[c]]

(* The event is stored, the tombstone of a new one dropped, and the client *)
(* gets the ETag.                                                          *)
PutStore(c) ==
    /\ davPut[c].step = "store"
    /\ LET p == davPut[c]
           e == [seq |-> p.seq, etag |-> Etag(p.seq, p.at), val |-> p.val, from |-> p.from]
       IN /\ davEv' = [davEv EXCEPT ![p.w][p.u] = e]
          /\ davTomb' = IF p.new THEN [davTomb EXCEPT ![p.w][p.u] = 0] ELSE davTomb
          /\ davView' = TellAll(p.w, p.seq, Noted(c, p.u, e, p.from))
    /\ davPut' = [davPut EXCEPT ![c] = NoPut]
    /\ UNCHANGED <<davOther, davCal, davGen, davStray, davNow, davCount>>

(* The event is removed, be it another version by now; one that is not     *)
(* there any more is an error.                                             *)
DeletePop(c) ==
    /\ davPut[c].step = "pop"
    /\ LET p == davPut[c] IN
       IF davEv[p.w][p.u] = NoEv
       THEN davPut' = [davPut EXCEPT ![c] = NoPut] /\ UNCHANGED <<davEv, davView>>
       ELSE /\ davEv' = [davEv EXCEPT ![p.w][p.u] = NoEv]
            /\ davView' = TellAll(p.w, p.seq, davView)
            /\ davPut' = [davPut EXCEPT ![c].step = "bury"]
    /\ UNCHANGED <<davOther, davCal, davGen, davTomb, davStray, davNow, davCount>>

(* Mutant: no tombstone is left. *)
NoTombstone(c) ==
    /\ davPut[c].step = "bury"
    /\ LET p == davPut[c] IN davView' = TellAll(p.w, p.seq, Noted(c, p.u, NoEv, p.from))
    /\ davPut' = [davPut EXCEPT ![c] = NoPut]
    /\ UNCHANGED <<davOther, davCal, davGen, davEv, davTomb, davStray, davNow, davCount>>

(* The tombstone is written, in place of another one, and for a calendar   *)
(* that may be gone by now; its successor finds it.                        *)
DeleteBuries(c) ==
    /\ davPut[c].step = "bury"
    /\ LET p == davPut[c] IN
       /\ davTomb' = [davTomb EXCEPT ![p.w][p.u] = p.seq]
       /\ davStray' = IF davCal[p.w] = NoCalendar \/ p.from # <<p.w, davGen[p.w]>>
                      THEN davStray \cup {p.w} ELSE davStray
       /\ davView' = TellAll(p.w, p.seq, Noted(c, p.u, NoEv, p.from))
    /\ davPut' = [davPut EXCEPT ![c] = NoPut]
    /\ UNCHANGED <<davOther, davCal, davGen, davEv, davNow, davCount>>

(* update_calendar_props: only the counter is of interest. *)
Proppatch(c, w) ==
    /\ Changes(c, w) /\ Bump(w)
    /\ UNCHANGED <<davOther, davEv, davTomb, davStray, davPut, davView, davNow>>

(* delete_calendar: the events and the tombstones go with it. *)
DeleteCalendar(c, w) ==
    /\ Changes(c, w)
    /\ davCal' = [davCal EXCEPT ![w] = NoCalendar]
    /\ davGen' = [davGen EXCEPT ![w] = Gen(w)]
    /\ davEv' = [davEv EXCEPT ![w] = [u \in DavUids |-> NoEv]]
    /\ davTomb' = [davTomb EXCEPT ![w] = [u \in DavUids |-> 0]] /\ davStray' = davStray \ {w}
    /\ davView' = [x \in DavFollowers |-> IF x = c THEN NewView ELSE davView[x]]
    /\ UNCHANGED <<davOther, davPut, davNow>>

(* create_calendar, for a user who has another one. *)
Mkcalendar(c, w) ==
    /\ davPut[c] = NoPut /\ davCal[w] = NoCalendar /\ davOther
    /\ davCount < DavMaxRequests /\ davCount' = davCount + 1
    /\ davCal' = [davCal EXCEPT ![w] = 0]
    /\ davGen' = [davGen EXCEPT ![w] = @ + 1]
    /\ UNCHANGED <<davOther, davEv, davTomb, davStray, davPut, davView, davNow>>

-----------------------------------------------------------------------------
(* PROPFIND with depth 1: every event, and the token. *)
Propfind(c, w) ==
    /\ Asks(c, w)
    /\ davView' = [davView EXCEPT ![c] =
          [token |-> Counter(w), home |-> <<w, Gen(w)>>, agrees |-> TRUE, copy |-> davEv[w],
           missed |-> \E p \in DavClients : davPut[p].step = "store" /\ davPut[p].w = w]]
    /\ Kept(w)
    /\ UNCHANGED <<davOther, davEv, davTomb, davStray, davPut, davNow, davCount>>

(* sync_changes: what changed after the token, and the next token. *)
DavChanged(w, token) == {u \in DavUids : davEv[w][u] # NoEv /\ davEv[w][u].seq > token}
Deleted(w, token) == {u \in DavUids : davTomb[w][u] > token}
NextToken(w, token) == IF Counter(w) > token THEN Counter(w) ELSE token

FirstOf(S, n) == {u \in S : Cardinality({v \in S : v < u}) < n}

(* Ghost: an event has gone and its tombstone is not there yet, or there   *)
(* is one of another calendar.                                             *)
Unburied(w) == w \in davStray \/ \E c \in DavClients : davPut[c].step = "bury" /\ davPut[c].w = w

(* _report_sync_collection: at most limit resources, the deleted ones      *)
(* first; the token covers all of them.  A client starts with no token.    *)
Sync(c, w, limit) ==
    /\ Asks(c, w)
    /\ LET v == davView[c]
           gone == Deleted(w, v.token)
           new == DavChanged(w, v.token)
           out == FirstOf(gone, limit)
           in == FirstOf(new, limit - Cardinality(gone))
           copy == [u \in DavUids |-> IF u \in in THEN davEv[w][u]
                                      ELSE IF u \in out THEN NoEv ELSE v.copy[u]]
       IN davView' = [davView EXCEPT ![c] =
            [Meets(v, <<w, Gen(w)>>) EXCEPT
                !.token = NextToken(w, v.token), !.copy = copy, !.agrees = copy = davEv[w],
                !.missed = @ \/ out # gone \/ in # new \/ Unburied(w)]]
    /\ Kept(w)
    /\ UNCHANGED <<davOther, davEv, davTomb, davStray, davPut, davNow, davCount>>

(* A worker starts again, with nothing in its memory. *)
Restart(w) ==
    /\ davCount < DavMaxRequests /\ davCount' = davCount + 1
    /\ davCal' = [davCal EXCEPT ![w] = NoCalendar]
    /\ davEv' = [davEv EXCEPT ![w] = [u \in DavUids |-> NoEv]]
    /\ davTomb' = [davTomb EXCEPT ![w] = [u \in DavUids |-> 0]] /\ davStray' = davStray \ {w}
    /\ davPut' = [c \in DavClients |->
                    IF davPut[c] # NoPut /\ davPut[c].w = w THEN NoPut ELSE davPut[c]]
    /\ UNCHANGED <<davOther, davGen, davView, davNow>>

DavTick ==
    /\ davNow < DavMaxSeconds /\ davNow' = davNow + 1
    /\ UNCHANGED <<davOther, davCal, davGen, davEv, davTomb, davStray, davPut, davView, davCount>>

DavNext ==
    \/ /\ davCount < DavMaxRequests
       /\ \E c \in DavClients, w \in DavWorkers :
          /\ davPut[c] = NoPut
          /\ \/ \E u \in DavUids, cond \in {"If-Match", "If-None-Match", "none"} :
                   PutCheck(c, w, u, cond)
             \/ \E u \in DavUids, cond \in {"If-Match", "none"} : DeleteCheck(c, w, u, cond)
             \/ Proppatch(c, w) \/ DeleteCalendar(c, w) \/ Mkcalendar(c, w)
    \/ \E c \in DavFollowers, w \in DavWorkers :
          Propfind(c, w) \/ \E limit \in {1, 1000} : Sync(c, w, limit)
    \/ \E c \in DavClients : TakeNumber(c) \/ PutStore(c) \/ DeletePop(c) \/ DeleteBuries(c)
    \/ \E w \in DavWorkers : Restart(w)
    \/ DavTick

DavSpec == DavInit /\ [][DavNext]_davVars

-----------------------------------------------------------------------------
(* What If-Match rests on: where the copy of a client has the ETag of the  *)
(* event on the server, it is that version.  Two versions stored in one    *)
(* second differ in the counter; only a calendar that was made again, or   *)
(* another worker's, starts the counter anew.                              *)
EtagIdentifies ==
    \A c \in DavFollowers, w \in DavWorkers, u \in DavUids :
        LET mine == davView[c].copy[u]
            e == davEv[w][u]
        IN mine # NoEv /\ e # NoEv /\ mine.etag = e.etag /\ mine.from = e.from => mine = e

(* A client that follows the tokens has, after each sync, what the server  *)
(* has, however PUTs, deletions and re-creations of events came in         *)
(* between: unless an answer was cut by the limit, the token was of        *)
(* another calendar or worker, a PUT had taken its number and not yet      *)
(* stored the event, a DELETE had and not yet left its tombstone, or its   *)
(* tombstone came after the calendar had gone.                             *)
SyncComplete == \A c \in DavFollowers : davView[c].missed \/ davView[c].agrees

=============================================================================
