--------------------------- MODULE MCVerdictCache ---------------------------
(* Three commits: fix and pick carry the same patch in the same macro       *)
(* environment (a cherry-pick), odd carries that patch too, but its         *)
(* environment differs and the mirror resolver cannot reproduce it.         *)
EXTENDS VerdictCache, TLC

CONSTANTS fix, pick, odd, patch, env1, env2

MCCommits == {fix, pick, odd}
MCPatchOf == [c \in MCCommits |-> patch]
MCEnvOf == [c \in MCCommits |-> IF c = odd THEN env2 ELSE env1]
MCPatchOf2 == [c \in {fix, pick} |-> patch]
MCEnvOf2 == [c \in {fix, pick} |-> env1]
MCMirrorable == {fix, pick}

Bound(d, p, e, f, v, k, o) ==
    [days |-> d, pairs |-> p, edits |-> e, failures |-> f,
     verbs |-> v, kills |-> k, outages |-> o]

MCMaxKeys   == Bound(0, 3, 1, 0, 0, 0, 0)
MCMaxExpiry == Bound(6, 3, 0, 0, 0, 0, 0)
MCMaxFaults == Bound(1, 2, 0, 1, 1, 1, 0)
MCMaxOutage == Bound(0, 2, 0, 0, 1, 0, 1)

(* Long histories without faults, short ones with failures, kills and verbs,   *)
(* and short ones with a power loss: a history keeps to one of the budgets.    *)
MCMaxLong == Bound(6, 3, 0, 1, 1, 1, 1)

Kept(budget) == \A b \in DOMAIN budget : spent'[b] <= budget[b]

(* The first pair is taken up on the first day, and no day passes when none   *)
(* is left to take up: what happens on an idle day happens on no other.       *)
NoIdleDays ==
  spent'["days"] > 0 =>
    /\ spent'["pairs"] > 0
    /\ \/ clock' = clock
       \/ spent["pairs"] < MCMaxExpiry["pairs"]
       \/ \E p \in Procs : Busy(p)

WithinBudgets ==
  /\ NoIdleDays
  /\ Kept(MCMaxExpiry) \/ Kept(MCMaxFaults) \/ Kept(MCMaxOutage)

MCSymmetry == Permutations(Procs) \cup Permutations(Configs) \cup Permutations(Snaps) \cup Permutations({fix, pick})
=============================================================================
