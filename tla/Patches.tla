------------------------------ MODULE Patches -------------------------------
(***************************************************************************)
(* A patch: how the unified diff is read into files and hunks, whether it  *)
(* applies to a tree, and how the program writes the diff of two commits   *)
(* itself.                                                                 *)
(*                                                                         *)
(* A line of a diff has a sign and a text.  The signs of hunk lines are    *)
(* "+", "-", " " and "" (an empty line); the other signs stand for header  *)
(* lines: "diff", "old", "new", "binary", "@@", and "other" for the rest.  *)
(* Texts are opaque but for the few that a reader can mistake.             *)
(*                                                                         *)
(* A path is a sequence of names, the last of which is the file's.  A tree *)
(* maps paths to texts, sequences of lines, or NotText.                    *)
(***************************************************************************)
EXTENDS Integers, FiniteSets, SequencesExt

CONSTANTS Null,       \* no path, no file
          Malformed,  \* a hunk header without two ranges of numbers
          NotText     \* a file that is not UTF-8

Dashes == "-- x"              \* any text that begins with "-- "
Pluses == "++ x"              \* any text that begins with "++ "
Marker == "GIT binary patch"  \* any text with these words in it
Conflict == "<<<<<<< x"       \* any line of a conflict that was not resolved

DevNull == <<"", "dev", "null">>

Line(mark, text) == [mark |-> mark, text |-> text]

NewFile == [old |-> Null, new |-> Null, language |-> "other", binary |-> FALSE, hunks |-> <<>>]

(* How a name ends: any name stands for all that end as it does. *)
Ending(name) ==
  CASE name \in {"m.erl", "r.erl", "rabbit_khepri.erl"} -> "erl"
    [] name = "m_SUITE.erl" -> "suite"
    [] name = "m.hrl" -> "hrl"
    [] name = "m.ex" -> "ex"
    [] name = "mix.exs" -> "mix_exs"
    [] name = "s.schema" -> "schema"
    [] name = "s.partial" -> "partial"
    [] name = "README.md" -> "text"
    [] name = "m.app.src" -> "app_src"
    [] name = "rebar.config" -> "rebar_config"
    [] name = "w.yml" -> "yml"
    [] name = "Makefile" -> "makefile"
    [] OTHER -> "none"

FromPath(path) ==
  CASE Ending(Last(path)) \in {"erl", "suite", "hrl"} -> "erlang"
    [] Ending(Last(path)) \in {"ex", "mix_exs"} -> "elixir"
    [] Ending(Last(path)) \in {"schema", "partial"} -> "schema"
    [] OTHER -> "other"

-----------------------------------------------------------------------------
(* Reading.  A line is known by how it begins; counts are not looked at, so  *)
(* that a hunk goes on until the next header.                                *)

Reads(l) ==
  CASE l.sign = "-" /\ l.text = Dashes -> "old"
    [] l.sign = "+" /\ l.text = Pluses -> "new"
    [] l.sign \in {"+", "-", " "} /\ l.text = Marker -> "binary"
    [] l.sign = "" -> " "
    [] OTHER -> l.sign

(* What git and the program put before a path is taken off, and so is a directory a or b *)
(* where nothing was put before it.  (A line that was mistaken for a header names a file.) *)
DiffPath(t) ==
  IF t = DevNull THEN Null ELSE IF Len(t) > 1 /\ t[1] \in {"a", "b"} THEN Tail(t) ELSE t

PathIn(l) == IF l.sign \in {"+", "-"} THEN <<l.text>> ELSE DiffPath(l.text)

NamedNew(f, path) ==
  [f EXCEPT !.new = path, !.language = IF path = Null THEN @ ELSE FromPath(path)]

PushLine(f, l) ==
  IF f.hunks = <<>> THEN f
  ELSE [f EXCEPT !.hunks[Len(f.hunks)].lines = Append(@, Line(Reads(l), l.text))]

ReadInto(f, l) ==
  CASE Reads(l) = "old"    -> [f EXCEPT !.old = PathIn(l)]
    [] Reads(l) = "new"    -> NamedNew(f, PathIn(l))
    [] Reads(l) = "binary" -> [f EXCEPT !.binary = TRUE]
    [] Reads(l) = "@@"     -> [f EXCEPT !.hunks = Append(@, [l.text EXCEPT !.lines = <<>>])]
    [] Reads(l) \in {"+", "-", " "} -> PushLine(f, l)
    [] OTHER -> f

(* What comes before the first file is skipped. *)
ReadLine(files, l) ==
  IF Reads(l) = "diff" THEN Append(files, NewFile)
  ELSE IF files = <<>> THEN files
  ELSE [files EXCEPT ![Len(files)] = ReadInto(@, l)]

(* The size limit and the encoding are looked at before. *)
Parse(lines) ==
  LET headed(k) == \E i \in 1..k : lines[i].sign = "diff"
  IN  IF \E k \in DOMAIN lines : lines[k] = [sign |-> "@@", text |-> Malformed] /\ headed(k)
      THEN Malformed ELSE FoldLeft(ReadLine, <<>>, lines)

(* The new path, or the old one of a file that is deleted. *)
PrimaryPath(f) == IF f.new # Null THEN f.new ELSE f.old

(* Every path the patch names, in order and once each. *)
TouchedPaths(files) ==
  LET add(paths, p) == IF p = Null \/ p \in ToSet(paths) THEN paths ELSE Append(paths, p)
      both(paths, f) == add(add(paths, f.new), f.old)
  IN  FoldLeft(both, <<>>, files)

-----------------------------------------------------------------------------
(* A hunk.                                                                   *)

Texts(lines) == [k \in DOMAIN lines |-> lines[k].text]

Preimage(h) == Texts(SelectSeq(h.lines, LAMBDA l : l.mark # "+"))

Postimage(h) == Texts(SelectSeq(h.lines, LAMBDA l : l.mark # "-"))

Marked(h, mark) == {k \in DOMAIN h.lines : h.lines[k].mark = mark}

LeadingRun(h) ==
  LET other == {k \in DOMAIN h.lines : h.lines[k].mark # "+"}
      upto == IF other = {} THEN Len(h.lines) ELSE Min(other) - 1
  IN  Texts(SubSeq(h.lines, 1, upto))

TrailingRun(h) ==
  LET other == {k \in DOMAIN h.lines : h.lines[k].mark # "+"}
      after == IF other = {} THEN 1 ELSE Max(other) + 1
  IN  Texts(SubSeq(h.lines, after, Len(h.lines)))

(* AddedLines if context did not move the line on. *)
AddedInARow(h) ==
  LET at == SetToSortSeq(Marked(h, "+"), <)
  IN  [j \in DOMAIN at |-> [text |-> h.lines[at[j]].text, line |-> h.newStart + j - 1]]

(* The added lines with the lines of the new file they become. *)
AddedLines(h) ==
  LET line(k) == h.newStart + Cardinality({i \in 1..(k - 1) : h.lines[i].mark # "-"})
      at == SetToSortSeq(Marked(h, "+"), <)
  IN  [j \in DOMAIN at |-> [text |-> h.lines[at[j]].text, line |-> line(at[j])]]

AddedLinesOf(hunks) == FlattenSeq([i \in DOMAIN hunks |-> AddedLines(hunks[i])])

(* Lines count from 1; one beyond the map keeps its number in the added text. *)
FileLine(map, k) == LET at == Max({k, 1}) IN IF at \in DOMAIN map THEN map[at].line ELSE k

(* Conflict markers a patch adds, at their lines of the new file. *)
Artifacts(files) ==
  {a \in UNION {{[path |-> PrimaryPath(files[i]), line |-> l.line, text |-> l.text] :
                    l \in ToSet(AddedLinesOf(files[i].hunks))} : i \in DOMAIN files} :
     a.path # Null /\ a.text = Conflict}

-----------------------------------------------------------------------------
(* How git writes the diff of an edit, with Context lines around a change.   *)
(* An edit of a text is a sequence of changes: behind line at, drop lines    *)
(* and put others in; the changes are in order and far enough apart to be    *)
(* hunks of their own.                                                       *)

Context == 1

Edited(base, edit) ==
  LET apply(text, c) == SubSeq(text, 1, c.at) \o c.put \o SubSeq(text, c.at + c.drop + 1, Len(text))
  IN  FoldRight(LAMBDA c, text : apply(text, c), edit, base)

Shift(edit, k) ==
  FoldLeft(LAMBDA n, c : n + Len(c.put) - c.drop, 0, SubSeq(edit, 1, k - 1))

HunkOf(base, edit, k) ==
  LET c == edit[k]
      from == Max({0, c.at - Context})
      to == Min({Len(base), c.at + c.drop + Context})
      signed(mark, texts) == [i \in DOMAIN texts |-> Line(mark, texts[i])]
      lines == signed(" ", SubSeq(base, from + 1, c.at))
                 \o signed("-", SubSeq(base, c.at + 1, c.at + c.drop))
                 \o signed("+", c.put)
                 \o signed(" ", SubSeq(base, c.at + c.drop + 1, to))
      start(n, mark) == IF \A i \in DOMAIN lines : lines[i].mark = mark THEN n ELSE n + 1
  IN  [oldStart |-> start(from, "+"), newStart |-> start(from + Shift(edit, k), "-"),
       lines |-> lines]

HunksOf(base, edit) == [k \in DOMAIN edit |-> HunkOf(base, edit, k)]

Header(sign, text) == [sign |-> sign, text |-> text]

(* The side a of a path, or b. *)
OnSide(side, path) == IF path = Null THEN DevNull ELSE <<side>> \o path

Printed(f) ==
  LET body(h) == <<Header("@@", h)>> \o [i \in DOMAIN h.lines |-> Header(h.lines[i].mark, h.lines[i].text)]
  IN  <<Header("diff", Null), Header("other", "index")>>
        \o IF f.binary THEN <<Header("binary", Null)>>
           ELSE <<Header("old", OnSide("a", f.old)), Header("new", OnSide("b", f.new))>>
                  \o FlattenSeq([i \in DOMAIN f.hunks |-> body(f.hunks[i])])

PrintedAll(files) == FlattenSeq([i \in DOMAIN files |-> Printed(files[i])])

-----------------------------------------------------------------------------
(* Matching.                                                                 *)

MatchesAt(part, text, at) ==
  /\ at + Len(part) <= Len(text)
  /\ SubSeq(text, at + 1, at + Len(part)) = part

Found(part, text) ==
  IF part = <<>> THEN {} ELSE {at \in 0..(Len(text) - Len(part)) : MatchesAt(part, text, at)}

Expected(h) == IF h.oldStart = 0 THEN 0 ELSE h.oldStart - 1

(* Exact, drifted by so many lines, or missing. *)
Exact == [match |-> "exact", delta |-> 0]
Missing == [match |-> "missing", delta |-> 0]

ClassifyPreimage(h, text) ==
  LET pre == Preimage(h)
  IN  IF pre = <<>> \/ MatchesAt(pre, text, Expected(h)) THEN Exact
      ELSE IF Found(pre, text) = {} THEN Missing
      ELSE [match |-> "drifted", delta |-> Min(Found(pre, text)) - Expected(h)]

(* AddedLinesCollide if any line behind the hunk would do. *)
CollideAnywhere(h, text) ==
  /\ Preimage(h) # <<>> /\ ClassifyPreimage(h, text).match # "missing"
  /\ LET found == Expected(h) + ClassifyPreimage(h, text).delta
         tail == SubSeq(text, found + Len(Preimage(h)) + 1, Len(text))
     IN  TrailingRun(h) # <<>> /\ tail # <<>>

(* The added lines land where the target went its own way: a whole file with *)
(* another content, more behind what was the end of the file, or more before *)
(* its first line.                                                           *)
AddedLinesCollide(h, text) ==
  LET pre == Preimage(h)
      found == Expected(h) + ClassifyPreimage(h, text).delta
      tail == SubSeq(text, found + Len(pre) + 1, Len(text))
      head == SubSeq(text, 1, found)
  IN  IF pre = <<>> THEN text # <<>> /\ text # Postimage(h)
      ELSE /\ ClassifyPreimage(h, text).match # "missing"
           /\ \/ TrailingRun(h) # <<>> /\ tail # <<>> /\ tail # TrailingRun(h)
              \/ /\ LeadingRun(h) # <<>> /\ h.oldStart <= 1
                 /\ head # <<>> /\ head # LeadingRun(h)

-----------------------------------------------------------------------------
(* The forecast of a path is the worst of its hunks, however they are        *)
(* ordered.                                                                  *)

CleanExact == [outcome |-> "exact"]
Drifted(delta) == [outcome |-> "drifted", delta |-> delta]
Unassessed(reason) == [outcome |-> "unassessed", reason |-> reason]
ConflictOf(kind) == [outcome |-> "conflict", kind |-> kind]

Rank(worst, among) == CHOOSE i \in DOMAIN among : among[i] = worst

Severity(o) == Rank(o.outcome, <<"exact", "drifted", "unassessed", "conflict">>)

Size(n) == IF n < 0 THEN -n ELSE n

MergeOutcomes(a, b) ==
  CASE a.outcome = "drifted" /\ b.outcome = "drifted" ->
         IF Size(b.delta) > Size(a.delta) \/ (Size(b.delta) = Size(a.delta) /\ b.delta > a.delta)
         THEN b ELSE a
    [] a.outcome = "unassessed" /\ b.outcome = "unassessed" ->
         IF "target" \in {a.reason, b.reason} THEN Unassessed("target") ELSE a
    [] a.outcome = "conflict" /\ b.outcome = "conflict" ->
         LET kinds == <<"collision", "preimage", "absent">>
         IN  IF Rank(b.kind, kinds) > Rank(a.kind, kinds) THEN b ELSE a
    [] OTHER -> IF Severity(b) > Severity(a) THEN b ELSE a

(* A collision outranks a clean match. *)
HunkOutcome(h, text) ==
  LET m == ClassifyPreimage(h, text)
  IN  IF m.match = "missing" THEN ConflictOf("preimage")
      ELSE IF AddedLinesCollide(h, text) THEN ConflictOf("collision")
      ELSE IF m.match = "exact" THEN CleanExact ELSE Drifted(m.delta)

PathOutcome(hunks, text) ==
  FoldLeft(LAMBDA o, h : MergeOutcomes(o, HunkOutcome(h, text)), CleanExact, hunks)

(* Translations of paths, of the configuration and of a file that is given:   *)
(* what stands under source stands under target in the target's layout.  A    *)
(* prefix is a sequence of directories, or Null when it is empty or does not   *)
(* end in a slash.                                                             *)
IsTranslation(raw) == Null \notin {raw.name, raw.source, raw.target} /\ raw.direction = "source_to_target"

DoNotOverlap(entries) ==
  \A i, j \in DOMAIN entries :
    i # j => entries[i].name # entries[j].name /\ ~IsPrefix(entries[i].source, entries[j].source)

Translations(raws) ==
  IF (\A i \in DOMAIN raws : IsTranslation(raws[i])) /\ DoNotOverlap(raws) THEN raws ELSE Malformed
FromConfigStanzas(raws) == Translations(raws)
MergeExternal(entries, raws) == Translations(entries \o raws)

(* The first that fits: the code has the longest first, but only one can fit. *)
Fits(entry, path) == IsPrefix(entry.source, path)
Translate(entries, path) ==
  LET fitting == SelectSeq(entries, LAMBDA e : Fits(e, path))
  IN  IF fitting = <<>> THEN Null
      ELSE fitting[1].target \o SubSeq(path, Len(fitting[1].source) + 1, Len(path))

(* The path itself, or the path it has in the target's layout. *)
ReadTarget(tree, entries, path) ==
  LET at == {path, Translate(entries, path)} \cap DOMAIN tree
  IN  IF path \in at THEN tree[path] ELSE IF at # {} THEN tree[Translate(entries, path)] ELSE Null

FileOutcome(f, tree, entries) ==
  LET content == ReadTarget(tree, entries, PrimaryPath(f))
  IN  IF f.binary THEN Unassessed("binary")
      ELSE IF content = NotText THEN Unassessed("target")
      ELSE IF content = Null THEN ConflictOf("absent")
      ELSE PathOutcome(f.hunks, content)

(* A file with no path, such as one that is only renamed, is not looked at. *)
Forecast(files, tree, entries) ==
  LET seen(p) == SelectSeq(files, LAMBDA f : PrimaryPath(f) = p)
      paths == {PrimaryPath(files[i]) : i \in DOMAIN files} \ {Null}
      worst(p) == FoldLeft(LAMBDA o, f : MergeOutcomes(o, FileOutcome(f, tree, entries)),
                           FileOutcome(seen(p)[1], tree, entries), Tail(seen(p)))
  IN  [p \in paths |-> worst(p)]

-----------------------------------------------------------------------------
(* Against the content of a pin: what drifted, and what is there already.    *)

(* An added line that is found without its preimage was applied before; with *)
(* too little text around it, or with the preimage still there, one cannot   *)
(* tell.                                                                     *)
Tallied(h, text) ==
  LET post == Postimage(h)
      pre == Preimage(h)
  IN  IF Marked(h, "+") = {} THEN "not considered"
      ELSE IF Found(post, text) = {} THEN "not there"
      ELSE IF pre # <<>> /\ ClassifyPreimage(h, text).match # "missing" THEN "ambiguous"
      ELSE IF Marked(h, " ") = {} /\ Len(post) < 2 THEN "low confidence"
      ELSE "applied"

PostimageTally(hunks, text) ==
  LET count(answers) == Cardinality({i \in DOMAIN hunks : Tallied(hunks[i], text) \in answers})
  IN  [considered |-> count({"not there", "ambiguous", "low confidence", "applied"}),
       applied |-> count({"applied"}),
       ambiguous |-> count({"ambiguous"}),
       lowConfidence |-> count({"low confidence"})]

(* A file that is gone while the snapshot has its module has moved; modules   *)
(* are the names of their files.  Schemas are read in another way, and not here. *)
DriftReasons(f, pin, modules) ==
  LET path == PrimaryPath(f)
      content == pin[path]
      found(k) == ClassifyPreimage(f.hunks[k], content)
  IN  IF f.language = "schema" \/ path \notin DOMAIN pin \/ content = NotText THEN {}
      ELSE IF content = Null THEN {[reason |-> IF Last(path) \in modules THEN "relocated" ELSE "absent"]}
      ELSE {[reason |-> found(i), hunk |-> i] : i \in {k \in DOMAIN f.hunks : found(k) # Exact}}

-----------------------------------------------------------------------------
(* Writing.  Which lines of two texts belong together is another library's   *)
(* choice: a change says which lines of the old text, and which of the new   *)
(* one, stand between two runs of common lines.                              *)

(* Lines kept around a change, three of them in the code. *)
DiffContext == 1

(* A change takes the lines from + 1 to to of each text. *)
Change(from, to, newFrom, newTo) == [from |-> from, to |-> to, newFrom |-> newFrom, newTo |-> newTo]

(* Changes whose contexts touch or overlap share a hunk. *)
Grouped(changes) ==
  LET join(groups, c) ==
        IF groups # <<>> /\ c.from - DiffContext <= Last(Last(groups)).to + DiffContext
        THEN [groups EXCEPT ![Len(groups)] = Append(@, c)] ELSE Append(groups, <<c>>)
  IN  FoldLeft(join, <<>>, changes)

(* A range of no lines is named by the line before it. *)
DisplayStart(start, count) == IF count = 0 THEN start ELSE start + 1

Signed(mark, texts) == [i \in DOMAIN texts |-> Line(mark, texts[i])]

HunkAt(old, new, group, oldStart, newStart, trailing) ==
  LET last == Last(group)
      reached(i) == IF i = 1 THEN oldStart ELSE group[i - 1].to
      changed(i) == Signed(" ", SubSeq(old, reached(i) + 1, group[i].from))
                      \o Signed("-", SubSeq(old, group[i].from + 1, group[i].to))
                      \o Signed("+", SubSeq(new, group[i].newFrom + 1, group[i].newTo))
  IN  [oldStart |-> DisplayStart(oldStart, last.to + trailing - oldStart),
       newStart |-> DisplayStart(newStart, last.newTo + trailing - newStart),
       lines |-> FlattenSeq([i \in DOMAIN group |-> changed(i)])
                   \o Signed(" ", SubSeq(old, last.to + 1, last.to + trailing))]

GroupHunk(old, new, group) ==
  LET first == Head(group)
      leading == Min({DiffContext, first.from})
  IN  HunkAt(old, new, group, first.from - leading, first.newFrom - leading,
             Min({DiffContext, Len(old) - Last(group).to}))

HunksOfGroups(old, new, groups) == [k \in DOMAIN groups |-> GroupHunk(old, new, groups[k])]
UnifiedDiffBody(old, new, changes) == HunksOfGroups(old, new, Grouped(changes))

(* A file that is not text has none to compare, and an empty side no name. *)
TextIn(bytes) == IF bytes = NotText THEN <<>> ELSE bytes

HunkLines(h) == <<Header("@@", h)>> \o [i \in DOMAIN h.lines |-> Header(h.lines[i].mark, h.lines[i].text)]

WithHeaders(path, old, new, hunks) ==
  IF hunks = <<>> THEN <<>>
  ELSE <<Header("diff", path), Header("old", OnSide("a", IF old = <<>> THEN Null ELSE path)),
         Header("new", OnSide("b", IF new = <<>> THEN Null ELSE path))>>
         \o FlattenSeq([i \in DOMAIN hunks |-> HunkLines(hunks[i])])

AppendUnifiedDiff(path, old, new, changes) ==
  WithHeaders(path, old, new, UnifiedDiffBody(TextIn(old), TextIn(new), changes))

(* A tree maps paths to what they hold, or to Null when that is no file; a     *)
(* link that became a file held where it led.  Files that are there come       *)
(* before those that were removed.  changes says of every path what the        *)
(* library finds, and order has the paths in their order.                      *)
HeldIn(tree, p) == IF p \in DOMAIN tree THEN tree[p] ELSE Null

ChangedPaths(from, to) ==
  {p \in DOMAIN from \cup DOMAIN to :
     HeldIn(from, p) # HeldIn(to, p) /\ (p \in DOMAIN to => to[p] # Null)}

DiffsOf(from, to, changes, paths) ==
  LET bytes(tree, p) == IF HeldIn(tree, p) = Null THEN <<>> ELSE tree[p]
  IN  FlattenSeq([i \in DOMAIN paths |->
                    AppendUnifiedDiff(paths[i], bytes(from, paths[i]), bytes(to, paths[i]), changes[paths[i]])])

DiffCommits(from, to, analyzable, changes, order) ==
  LET changed == SelectSeq(order, LAMBDA p : p \in ChangedPaths(from, to) \cap analyzable)
      there(p) == p \in DOMAIN to
  IN  DiffsOf(from, to, changes, SelectSeq(changed, there) \o SelectSeq(changed, LAMBDA p : ~there(p)))

(* The headers of hunks are left out, so that a patch is itself where it drifted. *)
NormalizedPatch(lines) ==
  LET rest == SelectSeq(lines, LAMBDA l : l.sign # "@@") IN IF rest = <<>> THEN Null ELSE rest

-----------------------------------------------------------------------------
(* What a patch touches, before it is looked at beside any pin.               *)

Under(path, dirs) == \E i \in 1..(Len(path) - 1) : path[i] \in dirs

(* A workflow, or whatever stands with the actions. *)
OfCi(path) ==
  \E i \in 1..(Len(path) - 2) :
    /\ path[i] = ".github"
    /\ path[i + 1] = "actions" \/ (path[i + 1] = "workflows" /\ Ending(Last(path)) = "yml")

(* A file is of the first kind it is like. *)
Likenesses(path, end) ==
  <<[kind |-> "docs", like |-> end = "text" \/ (Under(path, {"docs"}) /\ end \notin {"erl", "suite", "hrl"})],
    [kind |-> "tests", like |-> end = "suite" \/ Under(path, {"test", "tests", "m_SUITE_data"})],
    [kind |-> "schema", like |-> end = "schema"], [kind |-> "erl", like |-> end = "erl"],
    [kind |-> "hrl", like |-> end = "hrl"], [kind |-> "app_src", like |-> end = "app_src"],
    [kind |-> "rebar_config", like |-> end = "rebar_config"], [kind |-> "mix_exs", like |-> end = "mix_exs"],
    [kind |-> "ci_workflow", like |-> OfCi(path)], [kind |-> "makefile", like |-> end = "makefile"],
    [kind |-> "other", like |-> TRUE]>>

FileKind(path) == SelectSeq(Likenesses(path, Ending(Last(path))), LAMBDA k : k.like)[1].kind

FileKinds == {"docs", "tests", "schema", "erl", "hrl", "app_src", "rebar_config", "mix_exs", "ci_workflow", "makefile", "other"}

FromPaths(paths) == [k \in FileKinds |-> Cardinality({i \in DOMAIN paths : FileKind(paths[i]) = k})]

(* Why a pin that a patch refers to nothing of has nothing to say of it; Null  *)
(* when there was something to analyse.                                        *)
InapplicableReason(touched, onlyTestVisibility, onlySelfSurface) ==
  LET kinds == {k \in FileKinds : touched[k] > 0}
  IN  IF onlyTestVisibility THEN "only_test_visibility_changed"
      ELSE IF onlySelfSurface THEN "only_self_surface_touched"
      ELSE IF kinds \cap {"erl", "hrl", "schema"} # {} THEN Null
      ELSE IF Cardinality(kinds) # 1 \/ kinds = {"other"} THEN "no_erlang_surface_touched"
      ELSE CHOOSE k \in kinds : TRUE

(* The lines of a file that stay or come. *)
Shown(f) == UNION {{h.lines[k] : k \in {i \in DOMAIN h.lines : h.lines[i].mark # "-"}} : h \in ToSet(f.hunks)}

Turned(f) == UNION {{h.lines[k] : k \in {i \in DOMAIN h.lines : h.lines[i].mark # " "}} : h \in ToSet(f.hunks)}

(* Any line of an export, or of a guard around one. *)
Visibility == "-export([f/1])."

IsOnlyTestVisibilityChange(files) ==
  LET erlang == {f \in ToSet(files) : f.language = "erlang"}
  IN  /\ \A f \in erlang : ~f.binary /\ \A l \in Turned(f) : l.text = Visibility
      /\ \E f \in erlang : Turned(f) # {}

(* What is read of a patch: the lines of each hunk that stay or are added, with *)
(* the macros of their file.                                                    *)
Scanned(files, macros) ==
  LET of(f) == IF PrimaryPath(f) \in DOMAIN macros THEN macros[PrimaryPath(f)] ELSE <<>>
  IN  UNION {{[lines |-> SelectSeq(h.lines, LAMBDA l : l.mark # "-"), macros |-> of(f)] : h \in ToSet(f.hunks)}
               : f \in {x \in ToSet(files) : ~x.binary /\ x.language = "erlang"}}

(* What a patch refers to and defines, of the scans of its hunks (CallSites):   *)
(* the same reference is one, and it is added when it is added anywhere.        *)
Analyze(files, scans) ==
  LET all == UNION {scan.referenced : scan \in scans}
  IN  [referenced |-> {r \in all : r.origin = "added" \/ [r EXCEPT !.origin = "added"] \notin all},
       defined |-> UNION {scan.defined : scan \in scans},
       unsupported |-> {PrimaryPath(f) : f \in {x \in ToSet(files) : ~x.binary /\ x.language = "elixir"}} \ {Null}]

(* What a line says of how its file logs and where it keeps its data: any line  *)
(* with these words in it.                                                      *)
Signs ==
  [logger |-> "?LOG_INFO(x)", rabbitLog |-> "rabbit_log:info(x)", khepriMacro |-> "?khepri_x",
   inKhepri |-> "x_in_khepri()", inMnesia |-> "x_in_mnesia()", versioned |-> "-record(x_v2, {})."]

LoggingStyle(f) ==
  LET says(sign) == \E l \in Shown(f) : l.text = Signs[sign]
  IN  CASE says("logger") /\ says("rabbitLog") -> "mixed"
        [] says("logger") /\ ~says("rabbitLog") -> "logger_macros"
        [] ~says("logger") /\ says("rabbitLog") -> "rabbit_log_module"
        [] OTHER -> "none"

(* Facts of a patch that are no reason of any verdict; of two files of one path *)
(* the later tells how it logs, if it logs.                                     *)
PatchFacts(files) ==
  LET named == SelectSeq(files, LAMBDA f : PrimaryPath(f) # Null)
      said(sign) == \E f \in ToSet(named) : \E l \in Shown(f) : l.text = Signs[sign]
      logs(p) == SelectSeq(named, LAMBDA f : PrimaryPath(f) = p /\ LoggingStyle(f) # "none")
  IN  [loggingStyle |-> [p \in {x \in ToSet(TouchedPaths(named)) : logs(x) # <<>>} |-> LoggingStyle(Last(logs(p)))],
       touchesKhepriModule |-> \E f \in ToSet(named) : Last(PrimaryPath(f)) = "rabbit_khepri.erl",
       usesKhepriMacros |-> said("khepriMacro"),
       touchesOnlyKhepriBranch |-> said("inKhepri") /\ ~said("inMnesia"),
       touchesDualBranch |-> said("inKhepri") /\ said("inMnesia"),
       introducesVersionedRecord |-> said("versioned")]

(* The suites of the schemas a patch touches, each of the application that is   *)
(* named first below deps.                                                      *)
SuggestSuites(files) ==
  LET schemas == {f \in ToSet(files) : PrimaryPath(f) # Null /\ Ending(Last(PrimaryPath(f))) = "schema"}
      below(p) == SelectInSeq(p, LAMBDA name : name = "deps")
  IN  {p[below(p) + 1] : p \in {x \in {PrimaryPath(f) : f \in schemas} : below(x) \notin {0, Len(x)}}}

(* Where the paths of a patch are on the target, each path once: there, in the  *)
(* target's layout, or missing.  One that the patch deletes is not looked for.  *)
ClassifyPath(path, deletes, tree, entries) ==
  CASE deletes -> "deleted"
    [] ~deletes /\ path \in DOMAIN tree -> "on target"
    [] ~deletes /\ path \notin DOMAIN tree /\ Translate(entries, path) \in DOMAIN tree -> "translates"
    [] OTHER -> "missing"

(* A path that is named more than once is taken as it is named first. *)
ClassifyTouchedPaths(touched, tree, entries) ==
  LET first(t) == \A u \in ToSet(touched) : u = t \/ u.path # t.path \/ Rank(t, touched) < Rank(u, touched)
      of(class) == {t.path : t \in {x \in ToSet(touched) : first(x) /\ ClassifyPath(x.path, x.deletes, tree, entries) = class}}
  IN  [renames |-> {<<p, Translate(entries, p)>> : p \in of("translates")}, missing |-> of("missing"), onTarget |-> Cardinality(of("on target"))]

PartialAbsenceReasons(summary) == IF summary.onTarget = 0 THEN {} ELSE summary.missing
=============================================================================
