---------------------------- MODULE SnapshotQueries ----------------------------
(***************************************************************************)
(* What is asked of the snapshots of a project: which tag a pin names, which *)
(* tags are to be captured, where a function appears, where a commit stops   *)
(* to be compatible, what differs between two snapshots, and whether every   *)
(* pin has one.  A tag is its characters, as far as its order depends on     *)
(* them; a project's store is the sequence of its tags as the directory is   *)
(* listed; the snapshots are a function from these tags, Null for one that   *)
(* cannot be read.                                                           *)
(***************************************************************************)
EXTENDS Naturals, FiniteSets, SequencesExt

CONSTANT Null

Separators == {".", "-", "+", "_"}
DigitOf == [c \in {"0", "1", "2"} |-> CASE c = "0" -> 0 [] c = "1" -> 1 [] c = "2" -> 2]

-----------------------------------------------------------------------------
(* The numbers of a tag; a part that is no number is left out. *)
PartsOf(tag) ==
  FoldLeft(LAMBDA parts, c : IF c \in Separators THEN Append(parts, <<>>)
                             ELSE [parts EXCEPT ![Len(parts)] = Append(@, c)],
           <<<<>>>>, IF tag # <<>> /\ tag[1] = "v" THEN Tail(tag) ELSE tag)

IsNumber(part) == part # <<>> /\ \A i \in DOMAIN part : part[i] \in DOMAIN DigitOf
NumberOf(part) == FoldLeft(LAMBDA n, c : 10 * n + DigitOf[c], 0, part)

NumbersOf(parts) == [i \in DOMAIN parts |-> NumberOf(parts[i])]
ParseVersion(tag) == NumbersOf(SelectSeq(PartsOf(tag), IsNumber))

Below(s, t) ==
  \E n \in 0..Len(s) :
    /\ n < Len(t) /\ SubSeq(s, 1, n) = SubSeq(t, 1, n)
    /\ n = Len(s) \/ s[n + 1] < t[n + 1]
Older(a, b) == Below(ParseVersion(a), ParseVersion(b))

(* The first of the newest, the last of the oldest. *)
Pick(select, tags) ==
  IF tags = <<>> THEN Null
  ELSE IF select = "latest"
  THEN tags[CHOOSE i \in DOMAIN tags :
              \A k \in DOMAIN tags : ~Older(tags[i], tags[k])
                                     /\ (k < i => Older(tags[k], tags[i]))]
  ELSE tags[CHOOSE i \in DOMAIN tags :
              \A k \in DOMAIN tags : ~Older(tags[k], tags[i])
                                     /\ (k > i => Older(tags[i], tags[k]))]

(* A glob over a tag, with one place to go back to: the last star. *)
RECURSIVE GlobFrom(_, _, _, _, _)
GlobFrom(pattern, text, p, t, star) ==
  IF t > Len(text)
  THEN \A i \in p..Len(pattern) : pattern[i] = "*"
  ELSE IF p <= Len(pattern) /\ pattern[p] \in {"?", text[t]}
  THEN GlobFrom(pattern, text, p + 1, t + 1, star)
  ELSE IF p <= Len(pattern) /\ pattern[p] = "*"
  THEN GlobFrom(pattern, text, p + 1, t, <<p, t>>)
  ELSE IF star # <<>>
  THEN GlobFrom(pattern, text, star[1] + 1, star[2] + 1, <<star[1], star[2] + 1>>)
  ELSE FALSE
GlobMatches(pattern, text) == GlobFrom(pattern, text, 1, 1, <<>>)

Resolve(pin, tags) ==
  CASE pin.is = "literal" -> pin.tag
    [] pin.is = "pattern" -> Pick(pin.select, SelectSeq(tags, LAMBDA t : GlobMatches(pin.glob, t)))
    [] pin.is = "self" -> Null

(* Of the pins of a series: those that need a snapshot and have none. *)
Coverage(pin, tags) ==
  IF pin.is = "self" THEN "self"
  ELSE IF Resolve(pin, tags) = Null THEN "unresolved"
  ELSE IF \E i \in DOMAIN tags : tags[i] = Resolve(pin, tags) THEN "covered" ELSE "missing"

(* The tags of a repository that a project captures. *)
Mentions(tag, marker) ==
  \E i \in 0..(Len(tag) - Len(marker)) : SubSeq(tag, i + 1, i + Len(marker)) = marker
Since(tag, floor) == floor = Null \/ ~Older(tag, floor)
Captured(tags, project, since) ==
  SelectSeq(tags, LAMBDA t : /\ project.pattern = Null \/ GlobMatches(project.pattern, t)
                             /\ Since(t, project.min) /\ Since(t, since)
                             /\ \A marker \in project.markers : ~Mentions(t, marker))

-----------------------------------------------------------------------------

(* Oldest first; tags that are equal as versions stay in the order listed. *)
OldestFirst(tags) ==
  LET Before(i, k) == Older(tags[i], tags[k]) \/ (~Older(tags[k], tags[i]) /\ i < k)
      place(i) == 1 + Cardinality({k \in DOMAIN tags : Before(k, i)})
  IN  [n \in DOMAIN tags |-> tags[CHOOSE i \in DOMAIN tags : place(i) = n]]

(* Presence is asked module by module; a hidden module counts on demand. *)
Present(snapshot, mfa, hidden) ==
  /\ mfa[1] \in DOMAIN snapshot.modules
  /\ hidden \/ snapshot.modules[mfa[1]].visibility = "public"
  /\ mfa[2] \in snapshot.modules[mfa[1]].exports

At(tags, hits, pick) ==
  IF hits = {} THEN Null
  ELSE tags[CHOOSE i \in hits : \A k \in hits : IF pick = "first" THEN i <= k ELSE i >= k]

(* Where a function appears: one unreadable snapshot fails the whole verb. *)
AppearsAlong(walk, hits) ==
  [first |-> At(walk, hits, "first"), last |-> At(walk, hits, "last"),
   present |-> Cardinality(hits), succeeds |-> hits # {}]
HitsAlong(walk, snapshots, mfa, hidden) ==
  AppearsAlong(walk, {i \in DOMAIN walk : Present(snapshots[walk[i]], mfa, hidden)})
Introduced(tags, snapshots, mfa, hidden) ==
  IF tags = <<>> \/ \E i \in DOMAIN tags : snapshots[tags[i]] = Null THEN Null
  ELSE HitsAlong(OldestFirst(tags), snapshots, mfa, hidden)

(* Where a commit stops to be compatible. *)
BisectAlong(walk, verdicts) ==
  LET Those(verdict) == {i \in DOMAIN walk : verdicts[walk[i]] = verdict}
  IN  [lastCompatible |-> At(walk, Those("compatible"), "last"),
       firstIncompatible |-> At(walk, Those("incompatible"), "first"),
       firstAdaptation |-> At(walk, Those("adaptation"), "first"),
       succeeds |-> Those("incompatible") = {}]
Bisect(tags, verdicts) ==
  IF tags = <<>> \/ \E i \in DOMAIN tags : verdicts[tags[i]] = Null THEN Null
  ELSE BisectAlong(OldestFirst(tags), verdicts)

(* The state of every snapshot of the store, and the exit of verify --all; a  *)
(* snapshot that loads is verified, whatever made it.                          *)
VerifyExit(verified, failed, outdated) ==
  IF failed # {} /\ verified = {} THEN "error"
  ELSE IF failed \cup outdated # {} THEN "partial" ELSE "success"
VerifyAll(states) ==
  LET Those(some) == {s \in DOMAIN states : states[s] \in some}
  IN  VerifyExit(Those({"current", "stale", "unversioned"}), Those({"unreadable"}), Those({"stale", "unversioned"}))

-----------------------------------------------------------------------------
(* Two snapshots, name by name. *)
TypesOf(module) == module.types \cup module.exported \cup module.opaques
NamedSets(s) ==
  LET Of(kind, named) == UNION {{<<kind, m, x>> : x \in named[m]} : m \in DOMAIN named}
      Surface(Set(_)) == [m \in DOMAIN s.modules |-> Set(s.modules[m])]
  IN  ({"module"} \X DOMAIN s.modules) \cup ({"header"} \X DOMAIN s.headers)
      \cup Of("export", Surface(LAMBDA m : m.exports))
      \cup Of("callback", Surface(LAMBDA m : m.callbacks))
      \cup Of("type", Surface(TypesOf))
      \cup Of("record", s.headers)

(* What both sides give a number or a value, and what only one side has. *)
Changes(from, to) ==
  {<<"drift", k, from[k], to[k]>> : k \in {x \in DOMAIN from \cap DOMAIN to : from[x] # to[x]}}
  \cup {<<"missing", k, "to">> : k \in DOMAIN from \ DOMAIN to}
  \cup {<<"missing", k, "from">> : k \in DOMAIN to \ DOMAIN from}

Machines(s) ==
  [m \in {x \in DOMAIN s.modules : s.modules[x].machine # Null} |-> s.modules[m].machine]
Wires(s) ==
  [k \in UNION {{m} \X DOMAIN s.modules[m].wire : m \in DOMAIN s.modules} |-> s.modules[k[1]].wire[k[2]]]

ComputeDiff(a, b) ==
  [added |-> NamedSets(b) \ NamedSets(a), removed |-> NamedSets(a) \ NamedSets(b),
   machines |-> Changes(Machines(a), Machines(b)), wires |-> Changes(Wires(a), Wires(b))]

(* Two series: the n-th pin of a project with the n-th of the other series. *)
Nth(pins, i) == Cardinality({k \in 1..i : pins[k].project = pins[i].project})
Paired(from, to) ==
  {<<from[i], to[k]>> : <<i, k>> \in
     {x \in (DOMAIN from) \X (DOMAIN to) :
        from[x[1]].project = to[x[2]].project /\ Nth(from, x[1]) = Nth(to, x[2])}}

-----------------------------------------------------------------------------
(* The files of a project.  Directories are compared as texts, so that one    *)
(* whose name continues that of a scanned directory is scanned as well.       *)
Continues(segment, with) == with = segment \/ <<segment, with>> \in {<<"src", "src2">>}
StartsWith(path, dir) ==
  /\ Len(dir) <= Len(path.dir)
  /\ \A i \in DOMAIN dir : IF i < Len(dir) THEN path.dir[i] = dir[i] ELSE Continues(dir[i], path.dir[i])
Scanned(path, patterns) ==
  \E pattern \in patterns :
    IF pattern.star THEN StartsWith(path, pattern.dir) /\ pattern.ext \in {Null, path.ext}
    ELSE path = [dir |-> pattern.dir, name |-> pattern.name, ext |-> pattern.ext]

(* An application is under a root that ends in a star, or is its root. *)
RootMatches(path, root) ==
  /\ IsPrefix(root.dir, path.dir)
  /\ root.star => Len(path.dir) > Len(root.dir)
AppOf(path, root) == IF root.star THEN path.dir[Len(root.dir) + 1] ELSE Last(root.dir)
Within(path, root) ==
  SubSeq(path.dir, Len(root.dir) + (IF root.star THEN 2 ELSE 1), Len(path.dir))

OwnerOf(path, project) ==
  LET hits == {i \in DOMAIN project.roots : RootMatches(path, project.roots[i])}
      root == project.roots[CHOOSE i \in hits : \A k \in hits : i <= k]
      app == AppOf(path, root)
  IN  IF path.ext \notin {"erl", "hrl"} \/ hits = {} THEN Null
      ELSE IF app \in project.excludeApps THEN Null
      ELSE IF project.includeApps # {} /\ app \notin project.includeApps THEN Null
      ELSE IF \E sub \in project.excludedDirs : IsPrefix(sub, Within(path, root)) THEN Null
      ELSE app
=============================================================================
