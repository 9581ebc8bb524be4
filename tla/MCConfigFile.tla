--------------------------- MODULE MCConfigFile ---------------------------
(***************************************************************************)
(* Two dependencies, dep and lib, and the program itself; a branch for each*)
(* series, and one that pins nothing.  Projects that are declared twice,   *)
(* pins that follow a pattern, two pins of one project and two blocks of   *)
(* one series are there at first.                                          *)
(***************************************************************************)
EXTENDS ConfigFile, TLC

CONSTANTS dep, lib, own, tool, bad, newer, older, t1, t2

NewBranch == [series |-> newer, deps |-> [n \in {dep, lib} |-> IF n = dep THEN t2 ELSE t1]]
OldBranch == [series |-> older, deps |-> [n \in {dep} |-> t1]]

BareBranch == [series |-> older, deps |-> [n \in {} |-> t1]]

MCBranches == {NewBranch, OldBranch, BareBranch}

Suggest(prefixes) == [verb |-> "suggest", prefixes |-> prefixes]

MCAsked ==
  {[verb |-> "merge", branch |-> b, overwrite |-> o] : b \in {NewBranch, OldBranch}, o \in BOOLEAN}
    \cup {[verb |-> "diff", branch |-> OldBranch, overwrite |-> FALSE],
          [verb |-> "replace", branch |-> NewBranch],
          [verb |-> "replace", branch |-> OldBranch],
          Suggest({tool}), Suggest({bad}), Suggest({lib, dep}),
          [verb |-> "init", force |-> FALSE, branches |-> <<NewBranch, OldBranch>>],
          [verb |-> "init", force |-> TRUE, branches |-> <<OldBranch, OldBranch>>],
          [verb |-> "init", force |-> TRUE, branches |-> <<BareBranch>>]}

Known(names) == [i \in 1..Len(names) |-> [name |-> names[i], self |-> names[i] = own]]

Of(s, pins, off) == [name |-> s, pins |-> pins, untracked |-> off]

OwnPin == [project |-> own, kind |-> "self", tag |-> NoTag]
PatternPin == [project |-> dep, kind |-> "pattern", tag |-> NoTag]

MCInitial ==
  {Missing,
   [projects |-> Known(<<own, dep>>),
    series   |-> <<Of(older, <<OwnPin, Literal(dep, t2)>>, {})>>],
   [projects |-> Known(<<dep, lib>>),
    series   |-> <<Of(newer, <<Literal(dep, t1)>>, {}), Of(older, <<PatternPin>>, {lib})>>],
   [projects |-> Known(<<dep, dep, own>>),
    series   |-> <<Of(newer, <<PatternPin, Literal(dep, t1)>>, {}),
                   Of(newer, <<Literal(dep, t2)>>, {dep})>>]}

MCSymmetry == Permutations(Procs)
=============================================================================
