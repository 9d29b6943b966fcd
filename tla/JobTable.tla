------------------------------ MODULE JobTable ------------------------------
(***************************************************************************)
(* What the users of JobPersistency rely on: a table of job statuses with  *)
(* an index of the unfinished ones, in which a save changes both at once   *)
(* and the index loses an id only with its document.  Module JobStore is   *)
(* the implementation.                                                     *)
(***************************************************************************)
CONSTANTS Jobs, Status, Terminal, None

VARIABLES table, unfinished
vars == <<table, unfinished>>

Init == table = [j \in Jobs |-> None] /\ unfinished = {}

Save(j, s) ==
    /\ table' = [table EXCEPT ![j] = s]
    /\ unfinished' = IF s \in Terminal THEN unfinished \ {j} ELSE unfinished \cup {j}

(* The document expires or is deleted; its id may stay behind. *)
Vanish(j) ==
    /\ table[j] # None
    /\ table' = [table EXCEPT ![j] = None]
    /\ UNCHANGED unfinished

(* Ids that were left behind are dropped, several in one command. *)
Drop(S) ==
    /\ \A j \in S : table[j] = None
    /\ unfinished' = unfinished \ S
    /\ UNCHANGED table

Next ==
    \/ \E j \in Jobs : Vanish(j) \/ \E s \in Status : Save(j, s)
    \/ \E S \in SUBSET Jobs : Drop(S)

Spec == Init /\ [][Next]_vars
=============================================================================
