--------------------------- MODULE VerdictOracle ---------------------------
(***************************************************************************)
(* What a user of `check` and `bisect` is promised, with no cache in       *)
(* sight: each process is asked about one pair at a time and replies with  *)
(* the answer that belongs to the pair.  It may also never reply.          *)
(***************************************************************************)
CONSTANTS Procs, Requests, AnswerTo, None

VARIABLES request, reply

vars == <<request, reply>>

Init == /\ request = [p \in Procs |-> None]
        /\ reply = [p \in Procs |-> None]

Ask(p, r) ==
    /\ request[p] = None
    /\ request' = [request EXCEPT ![p] = r]
    /\ UNCHANGED reply

Answer(p) ==
    /\ request[p] # None /\ reply[p] = None
    /\ reply' = [reply EXCEPT ![p] = AnswerTo[request[p]]]
    /\ UNCHANGED request

\* The pair is finished, or the process is gone, answered or not.
Forget(P) ==
    /\ request' = [p \in Procs |-> IF p \in P THEN None ELSE request[p]]
    /\ reply' = [p \in Procs |-> IF p \in P THEN None ELSE reply[p]]

Next == \/ \E p \in Procs, r \in Requests : Ask(p, r)
        \/ \E p \in Procs : Answer(p)
        \/ \E P \in SUBSET Procs : Forget(P)

Spec == Init /\ [][Next]_vars
=============================================================================
