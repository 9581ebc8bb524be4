---------------------------- MODULE MCCheckRuns ----------------------------
(* Instances of CheckRuns.  dep is a pin of a dependency, own the pin of the *)
(* program itself; the series older has no pin of the program.               *)
EXTENDS CheckRuns

CONSTANTS dep, own, c1, c2, newer, older

MCPinsOf == [s \in Series |-> IF s = newer THEN {dep, own} ELSE {dep}]

OneCommit == {<<c1>>}
MCCommitLists == {<<c1>>, <<c1, c2>>}
OneSeries == {<<newer>>, <<older>>}
MCSeriesLists == {<<newer>>, <<newer, older>>}
PlainOptions == {o \in Options : ~o.cached /\ ~o.generate}

-----------------------------------------------------------------------------
AllPresent == [renamed |-> FALSE, missing |-> FALSE, present |-> TRUE]

Quiet(pins) ==
  [raw |-> [p \in pins |-> {}], tracked |-> {}, owner |-> [p \in pins |-> "pin"],
   surface |-> "erlang", feature |-> FALSE, untracked |-> FALSE,
   paths |-> AllPresent, added |-> FALSE, symbol |-> FALSE, suite |-> FALSE,
   apply |-> {}, bumps |-> {}]

(* What needs a source or a schema is not found in a patch without one. *)
Possible(f) ==
  f.surface = "none" =>
    /\ f.tracked = {} /\ ~f.feature /\ ~f.untracked /\ ~f.symbol
    /\ \A p \in DOMAIN f.raw : f.raw[p] \subseteq PathScoped

PinFacts ==
  {[Quiet({dep, own}) EXCEPT !.raw = [p \in {dep, own} |-> IF p = dep THEN d ELSE o],
       !.tracked = t, !.owner[dep] = w, !.surface = s, !.feature = f, !.untracked = u] :
     d \in {{}, {"missing"}, {"api"}, {"advice"}, {"file"}, {"drift"},
            {"missing", "drift"}, {"advice", "file"}},
     o \in {{}, {"missing"}, {"advice"}},
     t \in SUBSET {dep, own}, w \in {"pin", "elsewhere"},
     s \in {"none", "schema", "erlang"}, f \in BOOLEAN, u \in BOOLEAN}

TargetFacts ==
  {[Quiet({dep, own}) EXCEPT !.raw[dep] = d, !.tracked = t, !.surface = s,
       !.paths = [renamed |-> r, missing |-> m, present |-> h], !.added = a,
       !.symbol = y, !.suite = e, !.apply = l] :
     d \in {{}, {"missing"}}, t \in {{}, {dep}}, s \in {"none", "erlang"},
     r \in BOOLEAN, m \in BOOLEAN, h \in BOOLEAN, a \in BOOLEAN,
     y \in BOOLEAN, e \in BOOLEAN, l \in {{}, {"conflict"}, {"drifted", "gone"}}}

Restricted(f, pins) ==
  [f EXCEPT !.raw = [p \in pins |-> f.raw[p]], !.owner = [p \in pins |-> f.owner[p]],
            !.tracked = f.tracked \cap pins, !.bumps = f.bumps \cap pins]

(* Two commits that differ in what is found, with and without a bump. *)
Missing == [Quiet({dep, own}) EXCEPT !.raw = [p \in {dep, own} |-> {"missing"}],
                                     !.tracked = {dep, own}]
Bumping == [Missing EXCEPT !.bumps = {dep}]
Breaking == [Quiet({dep, own}) EXCEPT !.raw[dep] = {"api"}, !.tracked = {dep}]
Docs == [Quiet({dep, own}) EXCEPT !.surface = "none"]

PairsOf(f, g) ==
  [k \in Pairs |-> Restricted(IF k[1] = c1 THEN f ELSE g, MCPinsOf[k[2]])]

Same == {<<f, f>> : f \in {g \in PinFacts \cup TargetFacts : Possible(g)}}

Different == {<<Bumping, Missing>>, <<Docs, Breaking>>}

AllFindings == {PairsOf(q[1], q[2]) : q \in Same}

DifferentFindings == {PairsOf(q[1], q[2]) : q \in Different}

MCTruths == AllFindings \cup DifferentFindings

-----------------------------------------------------------------------------
(* Everything that can be found about a patch is found by one run over one    *)
(* commit and one series; two runs, the cache, the generator and the changes  *)
(* of others go with the rounds of two commits that differ.                   *)
Alike == \A s \in Series : truth[<<c1, s>>] = truth[<<c2, s>>]

WithinBounds ==
  Alike => /\ runs' <= 1 /\ changes' = 0 /\ run' \in PlainOptions
           /\ Len(legs') <= 1
           /\ \A l \in DOMAIN legs' : Len(legs'[l].commits) = 1 /\ Len(legs'[l].series) = 1

MCSpec == Init /\ [][Next /\ WithinBounds]_vars
=============================================================================
