--------------------------- MODULE SharedMailbox ---------------------------
(***************************************************************************)
(* One shared mailbox: its members and their roles, which are two columns  *)
(* of its row, and the notes and assignments made on it.  Requests of      *)
(* administrators and members overlap; each reads, and writes later, in    *)
(* statements of its own.                                                  *)
(***************************************************************************)
EXTENDS Integers, Sequences, FiniteSets

CONSTANTS
    SmUsers,
    SmRequests,   \* requests at work at the same time
    SmMaxRequests \* bound: requests in all

ASSUME SmAssumption == SmMaxRequests \in Nat

VARIABLES
    smRow,   \* the row: member_uids and member_roles, or NoRow
    smItems, \* the notes and the assignments, by the request that made them
    smReq,   \* by request: what it has read and is going to write
    smCount, \* requests so far
    smGrant, \* ghost, by user: the role that was granted last, or "none"
    smOff,   \* ghost: users whose membership an outdated or partial write touched
    smLate   \* ghost: notes and assignments that a deletion at work came too early for

smVars == <<smRow, smItems, smReq, smCount, smGrant, smOff, smLate>>

(* member_roles is a list of entries of one user each; every operation     *)
(* looks for one user in it, so that only the order of the entries of the  *)
(* same user is kept.                                                      *)
Role == {"member", "admin"}
Row == [uids: SUBSET SmUsers, roles: [SmUsers -> Seq(Role)]]
NoRow == [gone |-> TRUE]
SmIdle == [op |-> "none"]

(* _get_member_role: the first entry, or "member" for a uid without one. *)
RoleIn(row, u) ==
    IF row = NoRow THEN "none"
    ELSE IF row.roles[u] # << >> THEN Head(row.roles[u])
    ELSE IF u \in row.uids THEN "member" ELSE "none"

SmInit ==
    /\ smRow = NoRow /\ smItems = {} /\ smCount = 0
    /\ smReq = [r \in SmRequests |-> SmIdle]
    /\ smGrant = [u \in SmUsers |-> "none"]
    /\ smOff = {} /\ smLate = {}

-----------------------------------------------------------------------------
SmBegin(r, req) ==
    /\ smReq[r] = SmIdle /\ smCount < SmMaxRequests
    /\ smCount' = smCount + 1
    /\ smReq' = [smReq EXCEPT ![r] = req]
SmEnds(r) == smReq' = [smReq EXCEPT ![r] = SmIdle] /\ UNCHANGED smCount

(* A request that is one statement, or whose reads do not matter. *)
SmAtOnce(r) == smReq[r] = SmIdle /\ smCount < SmMaxRequests /\ smCount' = smCount + 1 /\ UNCHANGED smReq

(* create, and import_config for an address that is new: the first request *)
(* there is, since all others name the mailbox by its new id, and one that *)
(* is created after a deletion is another mailbox.                         *)
CreateMailbox(r, S) ==
    /\ SmAtOnce(r) /\ smCount = 0
    /\ smRow' = [uids |-> S, roles |-> [u \in SmUsers |-> IF u \in S THEN <<"member">> ELSE << >>]]
    /\ smGrant' = [u \in SmUsers |-> IF u \in S THEN "member" ELSE "none"]
    /\ UNCHANGED <<smItems, smOff, smLate>>

(* update with member_uids, and import_config for an address there is: the *)
(* roles are left as they are.                                             *)
PutMembers(r, S) ==
    /\ SmAtOnce(r) /\ smRow # NoRow
    /\ smRow' = [smRow EXCEPT !.uids = S]
    /\ smOff' = smOff \cup {u \in SmUsers : (u \in S) # (u \in smRow.uids)}
    /\ UNCHANGED <<smItems, smGrant, smLate>>

(* add_member, remove_member, update_member_role and update_member_        *)
(* activity: the read with its checks.                                     *)
ReadMembers(r, op, u, role) ==
    /\ smRow # NoRow
    /\ CASE op = "add" -> u \notin smRow.uids
         [] op = "remove" -> u \in smRow.uids
         [] op = "role" -> smRow.roles[u] # << >>
         [] op = "activity" -> RoleIn(smRow, u) # "none"
    /\ SmBegin(r, [op |-> op, u |-> u, role |-> role, row |-> smRow])
    /\ UNCHANGED <<smRow, smItems, smGrant, smOff, smLate>>

(* Mutant: the role of a removed member stays. *)
NewRowKeepsRole(q, now) ==
    CASE q.op = "add" -> [uids |-> q.row.uids \cup {q.u},
                          roles |-> [q.row.roles EXCEPT ![q.u] = Append(@, q.role)]]
      [] q.op = "remove" -> [uids |-> q.row.uids \ {q.u}, roles |-> q.row.roles]
      [] q.op = "role" -> [uids |-> now.uids, roles |-> [q.row.roles EXCEPT ![q.u][1] = q.role]]
      [] q.op = "activity" -> [uids |-> now.uids, roles |-> q.row.roles]

(* What the request writes: the roles alone for a role or an activity. *)
NewRow(q, now) ==
    CASE q.op = "add" -> [uids |-> q.row.uids \cup {q.u},
                          roles |-> [q.row.roles EXCEPT ![q.u] = Append(@, q.role)]]
      [] q.op = "remove" -> [uids |-> q.row.uids \ {q.u},
                             roles |-> [q.row.roles EXCEPT ![q.u] = << >>]]
      [] q.op = "role" -> [uids |-> now.uids, roles |-> [q.row.roles EXCEPT ![q.u][1] = q.role]]
      [] q.op = "activity" -> [uids |-> now.uids, roles |-> q.row.roles]

(* The write; when the mailbox is gone, an error. *)
WriteMembers(r) ==
    LET q == smReq[r] IN
    /\ q.op \in {"add", "remove", "role", "activity"}
    /\ IF smRow = NoRow THEN UNCHANGED <<smRow, smGrant, smOff>>
       ELSE /\ smRow' = NewRow(q, smRow)
            /\ smGrant' = CASE q.op = "remove" -> [smGrant EXCEPT ![q.u] = "none"]
                            [] q.op = "activity" -> smGrant
                            [] OTHER -> [smGrant EXCEPT ![q.u] = q.role]
            /\ smOff' = smOff \cup {u \in SmUsers : \/ q.row.roles[u] # smRow.roles[u]
                                                   \/ (u \in q.row.uids) # (u \in smRow.uids)}
    /\ SmEnds(r) /\ UNCHANGED <<smItems, smLate>>

-----------------------------------------------------------------------------
Open == {i \in smItems : i.st \in {"pending", "accepted"}}

(* create_note and create_assignment of one mail: is there a mailbox, is   *)
(* there an open assignment of the mail?                                   *)
CreateItem(r, kind) ==
    /\ smRow # NoRow
    /\ kind = "assignment" => Open = {}
    /\ SmBegin(r, [op |-> "item", kind |-> kind, id |-> smCount + 1])
    /\ UNCHANGED <<smRow, smItems, smGrant, smOff, smLate>>

(* The mailbox is gone, or a deletion has listed what there is of this kind. *)
TooLate(kind) ==
    \/ smRow = NoRow
    \/ \E x \in SmRequests : smReq[x].op = "delete" /\ (kind = "note" \/ smReq[x].kind # "note")

InsertItem(r) ==
    /\ smReq[r].op = "item"
    /\ smItems' = smItems \cup {[id |-> smReq[r].id, kind |-> smReq[r].kind,
                                 st |-> IF smReq[r].kind = "note" THEN "note" ELSE "pending"]}
    /\ smLate' = smLate \cup (IF TooLate(smReq[r].kind) THEN {smReq[r].id} ELSE {})
    /\ SmEnds(r) /\ UNCHANGED <<smRow, smGrant, smOff>>

(* accept, complete and cancel: update_assignment looks at no earlier      *)
(* status.                                                                 *)
SetStatus(r, i, st) ==
    /\ SmAtOnce(r) /\ i.kind = "assignment"
    /\ smItems' = (smItems \ {i}) \cup {[i EXCEPT !.st = st]}
    /\ UNCHANGED <<smRow, smGrant, smOff, smLate>>

DeleteItem(r, i) ==
    /\ SmAtOnce(r)
    /\ smItems' = smItems \ {i}
    /\ UNCHANGED <<smRow, smGrant, smOff, smLate>>

(* The mailbox is deleted: its notes, its assignments (each listed, then   *)
(* deleted one by one), then the row.                                      *)
DeleteMailbox(r) ==
    /\ SmBegin(r, [op |-> "delete", kind |-> "note", ids |-> {i.id : i \in {x \in smItems : x.kind = "note"}}])
    /\ UNCHANGED <<smRow, smItems, smGrant, smOff, smLate>>

(* Mutant: the assignments of the mailbox are not listed. *)
DeleteListedNotesOnly(r) ==
    LET q == smReq[r] IN
    /\ q.op = "delete" /\ q.kind # "row"
    /\ \/ /\ q.ids # {}
          /\ \E n \in q.ids :
                /\ smItems' = {i \in smItems : i.id # n}
                /\ smReq' = [smReq EXCEPT ![r].ids = @ \ {n}]
       \/ /\ q.ids = {} /\ UNCHANGED smItems
          /\ smReq' = [smReq EXCEPT ![r].kind = "row"]
    /\ UNCHANGED <<smRow, smCount, smGrant, smOff, smLate>>

DeleteListed(r) ==
    LET q == smReq[r] IN
    /\ q.op = "delete" /\ q.kind # "row"
    /\ \/ /\ q.ids # {}
          /\ \E n \in q.ids :
                /\ smItems' = {i \in smItems : i.id # n}
                /\ smReq' = [smReq EXCEPT ![r].ids = @ \ {n}]
       \/ /\ q.ids = {} /\ UNCHANGED smItems
          /\ smReq' = [smReq EXCEPT ![r] =
                IF q.kind = "note"
                THEN [@ EXCEPT !.kind = "assignment", !.ids = {i.id : i \in {x \in smItems : x.kind = "assignment"}}]
                ELSE [@ EXCEPT !.kind = "row"]]
    /\ UNCHANGED <<smRow, smCount, smGrant, smOff, smLate>>

DeleteRowOf(r) ==
    /\ smReq[r].op = "delete" /\ smReq[r].kind = "row"
    /\ smRow' = NoRow
    /\ smGrant' = [u \in SmUsers |-> "none"]
    /\ SmEnds(r) /\ UNCHANGED <<smItems, smOff, smLate>>

(* The process of a request dies between two of its statements, or the     *)
(* database refuses the next one.                                          *)
SmDies(r) ==
    /\ smReq[r] # SmIdle
    /\ SmEnds(r) /\ UNCHANGED <<smRow, smItems, smGrant, smOff, smLate>>

SmNext ==
    \E r \in SmRequests :
    \/ \E S \in SUBSET SmUsers : CreateMailbox(r, S) \/ PutMembers(r, S)
    \/ \E op \in {"add", "remove", "role", "activity"}, u \in SmUsers, role \in Role :
          ReadMembers(r, op, u, role)
    \/ WriteMembers(r)
    \/ \E kind \in {"note", "assignment"} : CreateItem(r, kind)
    \/ InsertItem(r)
    \/ \E i \in smItems : DeleteItem(r, i) \/ \E st \in {"pending", "accepted", "completed", "cancelled"} : SetStatus(r, i, st)
    \/ DeleteMailbox(r) \/ DeleteListed(r) \/ DeleteRowOf(r)
    \/ SmDies(r)

SmSpec == SmInit /\ [][SmNext]_smVars

-----------------------------------------------------------------------------
(* A user has the role that was granted last, and none once removed: the   *)
(* two columns never disagree about it.  Exempt are the users whose        *)
(* membership changed between the read and the write of some request, and  *)
(* those a PUT or an import put into or out of member_uids alone.          *)
RoleAsGranted == \A u \in SmUsers \ smOff : RoleIn(smRow, u) = smGrant[u]

(* What is made on a mailbox goes with it, though its deletion is made of   *)
(* many statements, may be given up in the middle and be asked for twice:  *)
(* of a mailbox that is gone only that is left which was stored behind the *)
(* back of a deletion, after it had listed what there was.                 *)
GoneWithMailbox == smRow = NoRow => \A i \in smItems : i.id \in smLate
=============================================================================
