----------------------------- MODULE MCMailSend -----------------------------
(***************************************************************************)
(* The TLC run of MailSend.  A mail that is sent at once has no state in   *)
(* common with the mails left to the worker processes, so a behaviour      *)
(* sends the one kind or the other.                                        *)
(***************************************************************************)
EXTENDS MailSend

VARIABLE asked

MCInit == Init /\ asked \in {Direct, Scheduled \cup Held}

MCNext ==
    /\ Next
    /\ \A s \in Mails \ asked : api'[s] = api[s]
    /\ UNCHANGED asked

MCSpec == MCInit /\ [][MCNext]_<<vars, asked>> /\ Fairness
=============================================================================
