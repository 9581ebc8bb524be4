------------------------------ MODULE MCPatch ------------------------------
(***************************************************************************)
(* Files of up to four lines; the edits of a patch, and those the target   *)
(* has made of its own, in the file itself or in a directory it moved to.  *)
(***************************************************************************)
EXTENDS Patches, TLC

Bases == {SubSeq(<<"a", "b", "c", "d">>, 1, n) : n \in 0..4}

ChangesOf(base, puts) ==
  {c \in [at : 0..Len(base), drop : 0..1, put : puts] :
     c.at + c.drop <= Len(base) /\ (c.drop > 0 \/ c.put # <<>>)}

Apart(c, d) == d.at > c.at + c.drop + 2 * Context

PatchSeeds ==
  UNION {LET changes == ChangesOf(base, {<<>>, <<"x">>, <<"x", Conflict>>}) IN
         [kind : {"base"}, base : {base},
          theirs : {<<c>> : c \in changes} \cup {p \in changes \X changes : Apart(p[1], p[2])}]
         : base \in Bases}

PatchQuestions(seed) ==
  [kind : {"patch"}, base : {seed.base}, theirs : {seed.theirs}, moved : BOOLEAN,
   ours : {<<>>} \cup {<<c>> : c \in ChangesOf(seed.base, {<<>>, <<"x">>, <<"y">>, <<"y", "x">>})}]

Here == <<"a", "src", "m.erl">>
There == <<"deps", "a", "src", "m.erl">>
Translation(name, source, target) ==
  [name |-> name, source |-> source, target |-> target, direction |-> "source_to_target"]
Moves == MergeExternal(FromConfigStanzas(<<Translation("other", <<"a", "test">>, <<"tests">>)>>),
                       <<Translation("deps", <<"a", "src">>, <<"deps", "a", "src">>)>>)

PatchOf(q) ==
  [NewFile EXCEPT !.old = Here, !.new = Here, !.language = "erlang", !.hunks = HunksOf(q.base, q.theirs)]

Files(q) == <<PatchOf(q), [NewFile EXCEPT !.binary = TRUE], [PatchOf(q) EXCEPT !.old = Null]>>

(* A diff that git prints is read back, file by file and hunk by hunk; the    *)
(* line a finding is placed at is the line the new file has it on, and a mark *)
(* of a conflict is found at each line of the new file that holds one.        *)
PatchesReadBack(q) ==
  LET files == Files(q)
      new == Edited(q.base, q.theirs)
      added == AddedLinesOf(PatchOf(q).hunks)
  IN  /\ Parse(PrintedAll(files)) = files
      /\ \A i \in DOMAIN added : new[FileLine(added, i)] = added[i].text
      /\ {a.line : a \in Artifacts(files)} = {i \in DOMAIN new : new[i] = Conflict}
      /\ TouchedPaths(files) = <<Here>>

Touches(c, d) == c.at <= d.at + d.drop /\ d.at <= c.at + c.drop

(* A change that drops the first or the last line: what the target adds at   *)
(* that edge is not seen.                                                    *)
Overlooked(c, base) == c.drop > 0 /\ (c.at = 0 \/ c.at + c.drop = Len(base))

(* The hunks put where they match, the last first. *)
AppliedTo(text, hunks) ==
  LET at(h) == Expected(h) + ClassifyPreimage(h, text).delta
      apply(h, t) == SubSeq(t, 1, at(h)) \o Postimage(h) \o SubSeq(t, at(h) + Len(Preimage(h)) + 1, Len(t))
  IN  FoldRight(apply, hunks, text)

Both(q) == SortSeq(q.theirs \o q.ours, LAMBDA c, d : c.at < d.at)

(* A patch that is forecast to apply clashes with nothing the target changed, *)
(* but at an edge of the file that is overlooked; one that touches nothing    *)
(* the target changed is forecast to apply, and where its hunks match is      *)
(* where a merge would put them; of a pin with the target's text the check    *)
(* reports what the forecast does; and one that is there is seen to be there. *)
ForecastsHold(q) ==
  LET f == PatchOf(q)
      target == Edited(q.base, q.ours)
      tree == IF q.moved THEN There :> target ELSE Here :> target
      outcome == Forecast(<<f>>, tree, Moves)[Here].outcome
      clean == outcome \in {"exact", "drifted"}
      drifts == {r.reason.match : r \in DriftReasons(f, Here :> target, {})}
      tally == PostimageTally(f.hunks, Edited(q.base, q.theirs))
      pairs == ToSet(q.theirs) \X ToSet(q.ours)
  IN  /\ clean => \A p \in pairs : Touches(p[1], p[2]) => p[1] = p[2] \/ Overlooked(p[1], q.base)
      /\ (\A p \in pairs : ~Touches(p[1], p[2])) =>
           clean /\ AppliedTo(target, f.hunks) = Edited(q.base, Both(q))
      /\ "missing" \in drifts => outcome = "conflict"
      /\ outcome = "exact" => drifts = {}
      /\ outcome = "drifted" => drifts = {"drifted"}
      /\ tally.considered = tally.applied + tally.ambiguous + tally.lowConfidence

-----------------------------------------------------------------------------
(* Two commits whose trees have up to three files: one that was edited in    *)
(* one or two places, near each other or apart, one that only one commit     *)
(* has, one that is not text, and one that is not analysed.                  *)

Texts7 == <<"a", "b", "c", "d", "e", "f", "g">>
Puts == {<<>>, <<"x">>, <<"x", "y">>}

EditsOf(base) ==
  {c \in [at : 0..Len(base), drop : 0..2, put : Puts] :
     c.at + c.drop <= Len(base) /\ (c.drop > 0 \/ c.put # <<>>)}

DiffSeeds ==
  UNION {[kind : {"diff seed"}, base : {SubSeq(Texts7, 1, n)}, first : EditsOf(SubSeq(Texts7, 1, n))] : n \in 0..6}

Others == {"none", "added", "removed", "not text", "not analysed", "a link"}

(* At least one line is common to the texts between two changes. *)
DiffQuestions(seed) ==
  [kind : {"diff"}, base : {seed.base}, other : Others,
   edit : {<<seed.first>>} \cup
          {<<seed.first, c>> : c \in {c \in EditsOf(seed.base) : c.drop < 2 /\ Len(c.put) < 2
                                        /\ c.at > seed.first.at + seed.first.drop}}]

Changed(edit) ==
  [k \in DOMAIN edit |->
     LET start == edit[k].at + Shift(edit, k)
     IN  Change(edit[k].at, edit[k].at + edit[k].drop, start, start + Len(edit[k].put))]

Edit == <<"m.erl">>
Other == <<"r.erl">>
Notes == <<"notes">>
Analyzable == {Edit, Other}

New(q) == Edited(q.base, q.edit)

From(q) ==
  Edit :> q.base @@
  CASE q.other \in {"removed", "not text", "a link"} -> Other :> <<"r">>
    [] q.other = "not analysed" -> Notes :> <<"n">> [] OTHER -> <<>>

To(q) ==
  Edit :> New(q) @@
  CASE q.other = "added" -> Other :> <<"r">> [] q.other = "not analysed" -> Notes :> <<"m">>
    [] q.other = "not text" -> Other :> NotText [] q.other = "a link" -> Other :> Null [] OTHER -> <<>>

Differences(q) ==
  Edit :> Changed(q.edit) @@
  CASE q.other = "added" -> Other :> <<Change(0, 0, 0, 1)>>
    [] q.other \in {"removed", "not text"} -> Other :> <<Change(0, 1, 0, 0)>> [] OTHER -> <<>>

Diff(q) == DiffCommits(From(q), To(q), Analyzable, Differences(q), <<Edit, Notes, Other>>)

(* The hunks put at the lines they name, the last first. *)
Patched(text, hunks) ==
  LET at(h) == IF Preimage(h) = <<>> THEN h.oldStart ELSE h.oldStart - 1
      put(h, t) == SubSeq(t, 1, at(h)) \o Postimage(h) \o SubSeq(t, at(h) + Len(Preimage(h)) + 1, Len(t))
  IN  FoldRight(put, hunks, text)

(* A diff that is written for two commits is read back as what was done: each  *)
(* hunk holds lines of the old file where it says, no two the same line, and    *)
(* brings about the new file; a line it adds is at that line of the new file.  *)
(* The other file is named once, on the sides it has.  What an edit is called  *)
(* does not depend on where in the file it is.                                 *)
StartOf(h) == IF Preimage(h) = <<>> THEN h.oldStart + 1 ELSE h.oldStart
NamedIf(p, was) == IF was THEN p ELSE Null

DiffReadsBack(q, new, f) ==
  /\ f.old = NamedIf(Edit, q.base # <<>>) /\ f.new = NamedIf(Edit, new # <<>>)
  /\ Patched(q.base, f.hunks) = new
  /\ \A h \in ToSet(f.hunks) : SubSeq(q.base, StartOf(h), StartOf(h) + Len(Preimage(h)) - 1) = Preimage(h)
  /\ \A line \in ToSet(AddedLinesOf(f.hunks)) : new[line.line] = line.text
  /\ \A k \in 2..Len(f.hunks) :
       StartOf(f.hunks[k - 1]) + Len(Preimage(f.hunks[k - 1])) <= StartOf(f.hunks[k])

OtherReadsBack(q, files) ==
  [i \in DOMAIN files |-> <<files[i].old, files[i].new>>]
    = CASE q.other = "added" -> <<<<Null, Other>>>> [] q.other = "removed" -> <<<<Other, Null>>>>
        [] q.other = "not text" -> <<<<Other, Other>>>> [] OTHER -> <<>>

FilesOfDiffReadBack(q, files) == DiffReadsBack(q, New(q), files[1]) /\ OtherReadsBack(q, Tail(files))

(* The same edit, two lines on. *)
Moved(q) ==
  [q EXCEPT !.base = <<"p", "q">> \o @, !.edit = [k \in DOMAIN @ |-> [@[k] EXCEPT !.at = @ + 2]]]

DriftKeepsIdentity(q, diff) ==
  q.edit[1].at >= DiffContext => NormalizedPatch(Diff(Moved(q))) = NormalizedPatch(diff)

DiffsReadBackFrom(q, diff) == FilesOfDiffReadBack(q, Parse(diff)) /\ DriftKeepsIdentity(q, diff)

DiffsReadBack(q) == DiffsReadBackFrom(q, Diff(q))
-----------------------------------------------------------------------------
(* Patches of one or two files of which only a line or two matter: what each  *)
(* file is called, whether it comes, stays or goes, and what the line says.    *)

KindOf ==
  <<"a", "src", "m.erl">> :> "erl" @@ <<"deps", "a", "src", "rabbit_khepri.erl">> :> "erl"
  @@ <<"a", "include", "m.hrl">> :> "hrl" @@ <<"docs", "m.hrl">> :> "hrl"
  @@ <<"a", "test", "m_SUITE.erl">> :> "tests" @@ <<"a", "m_SUITE_data", "s.schema">> :> "tests"
  @@ <<"deps", "a", "priv", "s.schema">> :> "schema" @@ <<"deps", "s.schema">> :> "schema"
  @@ <<"a", "s.partial">> :> "other" @@ <<"docs", "Makefile">> :> "docs" @@ <<"README.md">> :> "docs"
  @@ <<"Makefile">> :> "makefile" @@ <<"mix.exs">> :> "mix_exs" @@ <<"a", "lib", "m.ex">> :> "other"
  @@ <<".github", "workflows", "w.yml">> :> "ci_workflow" @@ <<".github", "w.yml">> :> "other"
  @@ <<"rebar.config">> :> "rebar_config" @@ <<"a", "src", "m.app.src">> :> "app_src"

ErlangPaths == {<<"a", "src", "m.erl">>, <<"deps", "a", "src", "rabbit_khepri.erl">>, <<"a", "include", "m.hrl">>,
                <<"docs", "m.hrl">>, <<"a", "test", "m_SUITE.erl">>}

Said == {"x() -> y", Visibility} \cup Range(Signs)

Touched == [path : DOMAIN KindOf, how : {"comes", "stays", "goes"}, binary : {FALSE}, mark : {"+", "-", " "}, text : Said]

TouchSeeds ==
  [kind : {"touch seed"},
   first : {t \in Touched : (t.how = "comes" => t.mark = "+") /\ (t.how = "goes" => t.mark = "-")
                              /\ (t.path # Here /\ t.text \in Range(Signs) => t.path[1] = "deps" /\ t.how = "stays")}]

Seconds ==
  {<<>>} \cup {<<[path |-> p, how |-> "stays", binary |-> FALSE, mark |-> "+", text |-> "x() -> y"]>> :
                 p \in DOMAIN KindOf}
  \cup {<<[path |-> Here, how |-> "stays", binary |-> FALSE, mark |-> m, text |-> t]>> :
          m \in {"+", " "}, t \in Said}
  \cup {<<[path |-> Here, how |-> h, binary |-> h = "stays", mark |-> "-", text |-> "x() -> y"]>> : h \in {"stays", "goes"}}

TouchQuestions(seed) ==
  [kind : {"touch"}, files : {<<seed.first>> \o rest : rest \in Seconds}, target : {{}, {Here}, {There}}]

FileOf(t) ==
  [NamedNew([NewFile EXCEPT !.old = IF t.how = "comes" THEN Null ELSE t.path], IF t.how = "goes" THEN Null ELSE t.path)
     EXCEPT !.binary = t.binary,
            !.hunks = IF t.binary THEN <<>> ELSE <<[oldStart |-> 1, newStart |-> 1, lines |-> <<Line(t.mark, t.text)>>]>>]

ScanOf(lines, macros) ==
  [referenced |-> {[name |-> l.text, origin |-> IF l.mark = "+" THEN "added" ELSE "context"] : l \in ToSet(lines)},
   defined |-> {}]

(* A pin is let off only when nothing a snapshot knows of was touched, or only *)
(* what is exported was, and the reason names a kind that every path is of.    *)
ReasonsAreTrue(q, files) ==
  LET paths == [i \in DOMAIN q.files |-> q.files[i].path]
      kinds == {KindOf[paths[i]] : i \in DOMAIN paths}
      erlang == {t \in ToSet(q.files) : t.path \in ErlangPaths /\ t.how # "goes"}
      visibility == \A t \in erlang : ~t.binary /\ (t.mark # " " => t.text = Visibility)
      some == \E t \in erlang : ~t.binary /\ t.mark # " "
      reason == InapplicableReason(FromPaths(paths), IsOnlyTestVisibilityChange(files), FALSE)
  IN  /\ reason = Null <=> ~(visibility /\ some) /\ kinds \cap {"erl", "hrl", "schema"} # {}
      /\ reason = "only_test_visibility_changed" <=> visibility /\ some
      /\ reason \in FileKinds => kinds = {reason}
      /\ Cardinality(kinds) = 1 /\ reason = "no_erlang_surface_touched" => kinds = {"other"}

(* What is added anywhere was added, what is removed refers to nothing.        *)
ReferencesAreTrue(q, files) ==
  LET lines(marks, text) == \E t \in ToSet(q.files) :
        t.path \in ErlangPaths /\ t.how # "goes" /\ ~t.binary /\ t.mark \in marks /\ t.text = text
      answer == Analyze(files, {ScanOf(h.lines, h.macros) : h \in Scanned(files, <<>>)})
  IN  /\ answer.referenced = {[name |-> x, origin |-> "added"] : x \in {y \in Said : lines({"+"}, y)}}
           \cup {[name |-> x, origin |-> "context"] : x \in {y \in Said : lines({" "}, y) /\ ~lines({"+"}, y)}}
      /\ answer.unsupported = {t.path : t \in {u \in ToSet(q.files) : u.path \in {<<"mix.exs">>, <<"a", "lib", "m.ex">>}
                                                                       /\ u.how # "goes" /\ ~u.binary}}

(* Every path is where the target has it, in one place, and a path that goes   *)
(* is not missed.                                                              *)
PlacesAreTrue(q) ==
  LET touched == [i \in DOMAIN q.files |-> [path |-> q.files[i].path, deletes |-> q.files[i].how = "goes"]]
      summary == ClassifyTouchedPaths(touched, [p \in q.target |-> <<>>], Moves)
      stays == {touched[i].path : i \in {j \in DOMAIN touched : ~touched[j].deletes /\
                                           \A k \in 1..(j - 1) : touched[k].path # touched[j].path}}
      there == Here \in stays /\ There \in q.target /\ Here \notin q.target
  IN  /\ summary.onTarget = Cardinality(stays \cap q.target)
      /\ summary.renames = (IF there THEN {<<Here, There>>} ELSE {})
      /\ summary.missing = stays \ (q.target \cup {p \in {Here} : there})
      /\ PartialAbsenceReasons(summary) # {} => stays \cap q.target # {}

FactsAreTrue(q, files) ==
  LET facts == PatchFacts(files)
      says(sign) == \E t \in ToSet(q.files) : ~t.binary /\ t.mark # "-" /\ t.text = Signs[sign]
  IN  /\ facts.touchesDualBranch \/ facts.touchesOnlyKhepriBranch <=> says("inKhepri")
      /\ facts.touchesOnlyKhepriBranch => ~says("inMnesia")
      /\ facts.introducesVersionedRecord <=> says("versioned")
      /\ DOMAIN facts.loggingStyle = {t.path : t \in {u \in ToSet(q.files) : ~u.binary /\ u.mark # "-" /\
                                                        u.text \in {Signs["logger"], Signs["rabbitLog"]}}}
      /\ SuggestSuites(files) \subseteq {"a", "s.schema"}

(* What a patch is said to touch is what it touches. *)
TouchIsReadFrom(q, files) ==
  ReasonsAreTrue(q, files) /\ ReferencesAreTrue(q, files) /\ PlacesAreTrue(q) /\ FactsAreTrue(q, files)

TouchIsRead(q) == TouchIsReadFrom(q, [i \in DOMAIN q.files |-> FileOf(q.files[i])])
=============================================================================
