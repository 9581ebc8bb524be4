--------------------------- MODULE MCSnapshotQueries ---------------------------
(***************************************************************************)
(* Stores of up to three tags in any order of listing, with what each tag's *)
(* snapshot holds; globs on short texts; pairs of snapshots; and paths.      *)
(***************************************************************************)
EXTENDS SnapshotQueries, TLC

(* Tags, by the place of their versions among each other. *)
RankOf(tag) ==
  CASE tag \in {<<"v", "1", ".", "2">>, <<"1", ".", "2">>} -> 1
    [] tag = <<"v", "1", ".", "1", "0">> -> 2
    [] tag = <<"v", "2">> -> 3
    [] tag = <<"v", "2", ".", "0", "-", "r", ".", "1">> -> 4
    [] tag = <<"v", "2", "_", "1">> -> 5

Tags ==
  {<<"v", "1", ".", "2">>, <<"1", ".", "2">>, <<"v", "1", ".", "1", "0">>,
   <<"v", "2">>, <<"v", "2", "_", "1">>, <<"v", "2", ".", "0", "-", "r", ".", "1">>}

Listings == {s \in UNION {[1..n -> Tags] : n \in 0..3} : IsInjective(s)}

Marks == 0..3   \* of a tag: the first three are answers, the last is unreadable
Verdict(mark) ==
  CASE mark = 0 -> "compatible" [] mark = 1 -> "adaptation" [] mark = 2 -> "incompatible" [] mark = 3 -> Null
State(mark) ==
  CASE mark = 0 -> "current" [] mark = 1 -> "stale" [] mark = 2 -> "unversioned" [] mark = 3 -> "unreadable"
Holding(mark) ==
  IF mark = 3 THEN Null
  ELSE [modules |-> ("m" :> [visibility |-> IF mark = 2 THEN "hidden" ELSE "public",
                             exports |-> IF mark = 0 THEN {} ELSE {"f"}])]

Globs == {<<"v", "*">>, <<"*", ".", "?">>, <<"v", "1", ".", "*", "0">>, <<"r">>}

-----------------------------------------------------------------------------
Marked(q, f) == [t \in Range(q.tags) |-> f[q.marks[CHOOSE i \in DOMAIN q.tags : q.tags[i] = t]]]

(* A pattern names the tag of the highest, or the lowest, version among those *)
(* that match; a pin that is covered names a tag there is.                     *)
PinsHold(q) ==
  \A glob \in Globs, select \in {"latest", "oldest"} :
    LET pin == [is |-> "pattern", glob |-> glob, select |-> select]
        named == Resolve(pin, q.tags)
        matching == {t \in Range(q.tags) : GlobMatches(glob, t)}
    IN  /\ named = Null <=> matching = {}
        /\ named # Null =>
             /\ named \in matching
             /\ \A t \in matching : IF select = "latest" THEN RankOf(t) <= RankOf(named)
                                    ELSE RankOf(t) >= RankOf(named)
        /\ Coverage(pin, q.tags) = IF matching = {} THEN "unresolved" ELSE "covered"

(* What a project captures is what any order of its filters leaves. *)
CapturesHold(q) ==
  \A min \in {Null, <<"v", "1", ".", "1", "0">>}, since \in {Null, <<"v", "2">>} :
    Captured(q.tags, [pattern |-> <<"v", "*">>, min |-> min, markers |-> {<<"-", "r">>}], since) =
      SelectSeq(q.tags, LAMBDA t : /\ t[1] = "v" /\ "r" \notin Range(t)
                                   /\ \A floor \in {min, since} \ {Null} : RankOf(t) >= RankOf(floor))

(* The tags that bisect names are the boundaries of the verdicts in the order *)
(* of versions: nothing compatible comes after the last compatible one, and    *)
(* nothing incompatible before the first; and when verdicts only get worse,     *)
(* everything up to the boundary is compatible and nothing after it is.         *)
BoundariesHold(q) ==
  LET verdicts == Marked(q, [mark \in Marks |-> Verdict(mark)])
      b == Bisect(q.tags, verdicts)
      rank == [t \in DOMAIN verdicts |-> RankOf(t)]
      those(verdict) == {t \in DOMAIN verdicts : verdicts[t] = verdict}
      ends(tag, ts, After(_, _)) ==
        IF ts = {} THEN tag = Null ELSE tag \in ts /\ \A t \in ts : ~After(tag, t)
      Later(x, y) == rank[x] > rank[y]
      Sooner(x, y) == rank[x] < rank[y]
      worse == \A t, u \in DOMAIN verdicts :
                 Later(t, u) /\ verdicts[u] # "compatible" => verdicts[t] # "compatible"
  IN  IF q.tags = <<>> \/ 3 \in Range(q.marks) THEN b = Null
      ELSE /\ ends(b.lastCompatible, those("compatible"), Sooner)
           /\ ends(b.firstIncompatible, those("incompatible"), Later)
           /\ ends(b.firstAdaptation, those("adaptation"), Later)
           /\ b.succeeds <=> b.firstIncompatible = Null
           /\ worse /\ b.lastCompatible # Null =>
                \A t \in DOMAIN verdicts : Sooner(t, b.lastCompatible) => verdicts[t] = "compatible"

(* A function is in every snapshot between the first and the last tag that     *)
(* are reported exactly when as many are counted; hidden modules count only on *)
(* demand.                                                                      *)
AppearancesHold(q) ==
  \A hidden \in BOOLEAN :
    LET snapshots == Marked(q, [mark \in Marks |-> Holding(mark)])
        row == Introduced(q.tags, snapshots, <<"m", "f">>, hidden)
        has == {i \in DOMAIN q.tags : q.marks[i] \in (IF hidden THEN {1, 2} ELSE {1})}
        rank == [t \in Range(q.tags) |-> RankOf(t)]
        between == {i \in DOMAIN q.tags : rank[q.tags[i]] \in rank[row.first]..rank[row.last]}
    IN  IF q.tags = <<>> \/ 3 \in Range(q.marks) THEN row = Null
        ELSE /\ row.present = Cardinality(has) /\ (row.succeeds <=> has # {})
             /\ has = {} <=> row.first = Null
             /\ has # {} => has \subseteq between

VerifyHolds(q) ==
  LET exit == VerifyAll(Marked(q, [mark \in Marks |-> State(mark)])) IN
  /\ exit = "success" <=> Range(q.marks) \subseteq {0}
  /\ exit = "error" <=> q.marks # <<>> /\ Range(q.marks) = {3}

-----------------------------------------------------------------------------
(* A star stands for any run of characters, a question mark for one. *)
RECURSIVE Denotes(_, _)
Denotes(pattern, text) ==
  IF pattern = <<>> THEN text = <<>>
  ELSE IF pattern[1] = "*" THEN \E n \in 0..Len(text) : Denotes(Tail(pattern), SubSeq(text, n + 1, Len(text)))
  ELSE text # <<>> /\ pattern[1] \in {"?", text[1]} /\ Denotes(Tail(pattern), Tail(text))

Texts(cs, n) == UNION {[1..k -> cs] : k \in 0..n}
GlobHolds(q) == \A text \in Texts({"a", "b"}, 5) : GlobMatches(q.glob, text) <=> Denotes(q.glob, text)

-----------------------------------------------------------------------------
(* Snapshots of one module and one header, at most. *)
ModulesHeld ==
  {[exports |-> e, callbacks |-> {}, types |-> t, exported |-> x, opaques |-> {}, machine |-> n, wire |-> w] :
     e \in SUBSET {"f"}, t \in SUBSET {"t"}, x \in SUBSET {"t"}, n \in {Null, 1, 2},
     w \in {<<>>, "K" :> "one", "K" :> "two"}}
Sides ==
  {[modules |-> <<>>, headers |-> h] : h \in {<<>>, "h" :> {}, "h" :> {"r"}}}
  \cup {[modules |-> ("m" :> module), headers |-> <<>>] : module \in ModulesHeld}

(* The diff of two snapshots makes one of the other, by name; that of the      *)
(* reverse is its mirror image; and nothing differs when it is empty.           *)
DiffHolds(q) ==
  LET d == ComputeDiff(q.a, q.b)
      r == ComputeDiff(q.b, q.a)
      Turned(c) == IF c[1] = "drift" THEN <<"drift", c[2], c[4], c[3]>>
                   ELSE <<"missing", c[2], IF c[3] = "to" THEN "from" ELSE "to">>
  IN  /\ (NamedSets(q.a) \ d.removed) \cup d.added = NamedSets(q.b)
      /\ d.added = r.removed /\ d.removed = r.added
      /\ r.machines = {Turned(c) : c \in d.machines} /\ r.wires = {Turned(c) : c \in d.wires}
      /\ d = r => NamedSets(q.a) = NamedSets(q.b) /\ Machines(q.a) = Machines(q.b) /\ Wires(q.a) = Wires(q.b)

(* Pins of two series: of each project, the n-th with the n-th, as far as both *)
(* series have one.                                                             *)
PinLists == UNION {[1..n -> [project : {"a", "b"}, tag : {1, 2}]] : n \in 0..3}
PairsHold(q) ==
  LET Of(s, p) == SelectSeq(s, LAMBDA pin : pin.project = p)
      Zipped(s, t) == {<<s[i], t[i]>> : i \in DOMAIN s \cap DOMAIN t}
  IN  Paired(q.from, q.to) = UNION {Zipped(Of(q.from, p), Of(q.to, p)) : p \in {"a", "b"}}

-----------------------------------------------------------------------------
(* Paths of a project, and what is asked of where they belong. *)
Paths ==
  {[dir |-> d, name |-> "x", ext |-> e] :
     d \in UNION {[1..n -> {"src", "src2", "lib", "app"}] : n \in 0..3}, e \in {"erl", "txt"}}
Roots == {[dir |-> <<"lib">>, star |-> TRUE], [dir |-> <<"lib", "app">>, star |-> FALSE],
          [dir |-> <<"src">>, star |-> FALSE]}
Project(roots, in, out, dirs) ==
  [roots |-> roots, includeApps |-> in, excludeApps |-> out, excludedDirs |-> dirs]

(* A file that is scanned is under the directory, or under one whose name      *)
(* goes on; a file has one application, which is included and not excluded,     *)
(* whatever other root leads to the file.                                       *)
PathsHold(q) ==
  LET src == [dir |-> <<"src">>, star |-> TRUE, ext |-> "erl"]
      owner == OwnerOf(q.path, q.project)
  IN  /\ IsPrefix(<<"src">>, q.path.dir) /\ q.path.ext = "erl" => Scanned(q.path, {src})
      /\ Scanned(q.path, {src}) => q.path.dir # <<>> /\ q.path.dir[1] \in {"src", "src2"} /\ q.path.ext = "erl"
      /\ owner # Null =>
           /\ owner \notin q.project.excludeApps
           /\ q.project.includeApps # {} => owner \in q.project.includeApps
           /\ \E i \in DOMAIN q.project.roots : RootMatches(q.path, q.project.roots[i])
      /\ Project(q.project.roots, {}, {}, {}) = q.project /\ q.path.ext = "erl" =>
           (owner = Null <=> ~\E i \in DOMAIN q.project.roots : RootMatches(q.path, q.project.roots[i]))

-----------------------------------------------------------------------------
QuerySeeds ==
  {[kind |-> "query seed", axis |-> "tags", tags |-> s] : s \in Listings}
  \cup {[kind |-> "query seed", axis |-> "globs", glob |-> g] : g \in Texts({"a", "b", "*", "?"}, 1)}
  \cup {[kind |-> "query seed", axis |-> "diff", a |-> s] : s \in Sides}
  \cup {[kind |-> "query seed", axis |-> "pairs", from |-> s] : s \in PinLists}
  \cup {[kind |-> "query seed", axis |-> "paths", roots |-> s] :
          s \in {r \in UNION {[1..n -> Roots] : n \in 1..2} : IsInjective(r)}}

QueryQuestions(seed) ==
  CASE seed.axis = "tags" ->
         {[kind |-> "query", axis |-> "pins", tags |-> seed.tags]}
         \cup {[kind |-> "query", axis |-> "tags", tags |-> seed.tags, marks |-> s] :
                 s \in [DOMAIN seed.tags -> Marks]}
    [] seed.axis = "globs" ->
         {[kind |-> "query", axis |-> "globs", glob |-> seed.glob \o g] : g \in Texts({"a", "b", "*", "?"}, 4)}
    [] seed.axis = "diff" -> {[kind |-> "query", axis |-> "diff", a |-> seed.a, b |-> s] : s \in Sides}
    [] seed.axis = "pairs" -> {[kind |-> "query", axis |-> "pairs", from |-> seed.from, to |-> s] : s \in PinLists}
    [] seed.axis = "paths" ->
         {[kind |-> "query", axis |-> "paths", path |-> p, project |-> Project(seed.roots, in, out, dirs)] :
            p \in Paths, in \in {{}, {"app"}}, out \in {{}, {"app"}}, dirs \in {{}, {<<"src">>}}}

=============================================================================
