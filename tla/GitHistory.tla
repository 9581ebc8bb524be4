----------------------------- MODULE GitHistory -----------------------------
(***************************************************************************)
(* What is read from the history of a repository: which commits of a       *)
(* target branch are looked at for a patch that is already there, and      *)
(* which commits and which diff stand for a commit that is checked.        *)
(*                                                                         *)
(* A repository is a function from the ids of its commits to               *)
(*   parents : their ids, the first parent first; one that is not in the   *)
(*             repository was cut off by a shallow clone;                  *)
(*   time    : the committer's clock;                                      *)
(*   picked  : the trailers of `cherry-pick -x` in its message, each with  *)
(*             the id it names and whether it names all of it;             *)
(*   paths   : what it changed from its first parent;                      *)
(*   patch   : the identity of the part of that diff that is analysed,     *)
(*             Null when nothing of it is;                                 *)
(*   subject : the kind of bookkeeping its subject speaks of, or Null.     *)
(***************************************************************************)
EXTENDS Integers, FiniteSets, SequencesExt

CONSTANTS Null,
          Slack  \* how far the clocks of two committers may be apart

-----------------------------------------------------------------------------
(* Ancestry. *)

Known(repo, c) == ToSet(repo[c].parents) \cap DOMAIN repo

(* A commit is an ancestor of its own. *)
Ancestors(repo, c) ==
  LET reached[n \in 0..Cardinality(DOMAIN repo)] ==
        IF n = 0 THEN {c}
        ELSE LET before == reached[n - 1] IN before \cup UNION {Known(repo, a) : a \in before}
  IN  reached[Cardinality(DOMAIN repo)]

IsAncestor(repo, a, c) == a \in Ancestors(repo, c)

(* The bases git finds; the first of them is taken. *)
MergeBases(repo, one, two) ==
  LET common == Ancestors(repo, one) \cap Ancestors(repo, two)
  IN  {b \in common : \A c \in common \ {b} : ~IsAncestor(repo, b, c)}

-----------------------------------------------------------------------------
(* The window of a branch behind a commit, the newest first.                 *)

(* The first parents from the tip on, up to one that is not there. *)
FirstParents(repo, tip) ==
  LET chain[n \in 0..Cardinality(DOMAIN repo)] ==
        IF n = 0 THEN <<tip>>
        ELSE LET before == chain[n - 1]
                 oldest == Last(before)
             IN  IF oldest \notin DOMAIN repo \/ repo[oldest].parents = <<>> THEN before
                 ELSE Append(before, Head(repo[oldest].parents))
  IN  chain[Cardinality(DOMAIN repo)]

Failed == "failed"

(* The clocks bound the window only when since is not behind the tip. *)
OnceOld(repo, tip, since, c) ==
  ~IsAncestor(repo, since, tip) /\ repo[c].time < repo[since].time - Slack

(* Where the walk of a branch ends, 0 when it does not. *)
EndOf(repo, tip, since, chain) ==
  SelectInSeq(chain, LAMBDA c : c = since \/ c \notin DOMAIN repo \/ OnceOld(repo, tip, since, c))

Later(repo, since, walked) == SelectSeq(walked, LAMBDA c : repo[c].time > repo[since].time)

WalkedTo(repo, since, chain, end) ==
  IF end = 0 THEN Later(repo, since, chain)
  ELSE IF chain[end] \notin DOMAIN repo THEN Failed
  ELSE IF chain[end] = since THEN SubSeq(chain, 1, end - 1)
  ELSE Later(repo, since, SubSeq(chain, 1, end - 1))

WalkedAlong(repo, tip, since, chain) == WalkedTo(repo, since, chain, EndOf(repo, tip, since, chain))

WalkSince(repo, tip, since) == WalkedAlong(repo, tip, since, FirstParents(repo, tip))

-----------------------------------------------------------------------------
(* A patch that is on the target already. *)

(* A trailer counts when it names the whole of an id. *)
Trailers(message) ==
  LET whole == SelectSeq(message, LAMBDA t : t.whole) IN [i \in DOMAIN whole |-> whole[i].names]

(* A commit without a first parent to be compared with has no paths, no patch. *)
HasBase(repo, c) == repo[c].parents # <<>> /\ Head(repo[c].parents) \in DOMAIN repo

PathsOf(repo, c) == IF HasBase(repo, c) THEN repo[c].paths ELSE {}

PatchOf(repo, c) == IF HasBase(repo, c) THEN repo[c].patch ELSE Null

(* What a trailer on the target can name. *)
IdentitySet(cand) == {cand.sha} \cup ToSet(cand.origins) \cup cand.inner

Matched(c, via) == [answer |-> "match", commit |-> c, via |-> via]
NoMatch == [answer |-> "no match"]
Skipped(why) == [answer |-> "skipped", why |-> why]

TrailerOriginOnTarget(repo, origins, tip) ==
  LET found == SelectInSeq(origins, LAMBDA o : o \in DOMAIN repo /\ IsAncestor(repo, o, tip))
  IN  IF found = 0 THEN NoMatch ELSE Matched(origins[found], "ancestry")

FindMatch(repo, rows, cand) ==
  LET named(c) == ToSet(Trailers(repo[c].picked)) \cap IdentitySet(cand) # {}
      same(c) == PathsOf(repo, c) \cap cand.touched # {} /\ PatchOf(repo, c) = cand.patch
      byTrailer == SelectInSeq(rows, named)
      byPatch == SelectInSeq(rows, same)
  IN  IF byTrailer # 0 THEN Matched(rows[byTrailer], "trailer")
      ELSE IF cand.patch # Null /\ byPatch # 0 THEN Matched(rows[byPatch], "patch")
      ELSE NoMatch

(* The rows of a window, the newest of them when there are more than the limit. *)
Capped(window, limit) ==
  IF window = Failed THEN Failed ELSE SubSeq(window, 1, Min({limit, Len(window)}))

Rows(repo, tip, since, limit) == Capped(WalkSince(repo, tip, since), limit)

Candidate(source, c, input) ==
  [sha |-> c,
   origins |-> IF c \in DOMAIN source THEN Trailers(source[c].picked) ELSE <<>>,
   inner |-> input.inner, patch |-> input.patch, touched |-> input.touched]

(* One candidate of a batch, with the windows read so far by their merge      *)
(* bases.  base is the one git names first, or Null.                           *)
Probed(answer, indexes) == [answer |-> answer, indexes |-> indexes]

ProbedIn(probe, indexes, cand, base, rows) ==
  IF rows = Failed THEN Probed(Skipped("walk failed"), indexes)
  ELSE Probed(FindMatch(probe.repo, rows, cand),
              [b \in DOMAIN indexes \cup {base} |-> IF b = base THEN rows ELSE indexes[b]])

DetectUnless(origin, probe, indexes, cand, base) ==
  CASE origin # NoMatch -> Probed(origin, indexes)
    [] origin = NoMatch /\ cand.sha \notin DOMAIN probe.repo -> Probed(Skipped("not in the target"), indexes)
    [] origin = NoMatch /\ cand.sha \in DOMAIN probe.repo /\ base = Null -> Probed(Skipped("no merge base"), indexes)
    [] OTHER ->
         ProbedIn(probe, indexes, cand, base,
                  IF base \in DOMAIN indexes THEN indexes[base]
                  ELSE Rows(probe.repo, probe.tip, base, probe.limit))

Detect(probe, indexes, cand, base) ==
  DetectUnless(TrailerOriginOnTarget(probe.repo, cand.origins, probe.tip), probe, indexes, cand, base)

-----------------------------------------------------------------------------
(* The commits of a pull request that a merge brought in.                    *)

(* What git lists by the clocks, the newest first: of the commits whose        *)
(* children were listed, the latest.                                           *)
NewestFirst(repo, tip, hidden) ==
  LET later(S) == CHOOSE c \in S : \A d \in S : repo[c].time >= repo[d].time
      next(w) ==
        IF w.queue = {} THEN w
        ELSE LET c == later(w.queue)
                 more == Known(repo, c) \ (hidden \cup w.seen)
             IN  [queue |-> (w.queue \ {c}) \cup more, seen |-> w.seen \cup more, out |-> Append(w.out, c)]
      first == {tip} \ hidden
      walk[n \in 0..Cardinality(DOMAIN repo)] ==
        IF n = 0 THEN [queue |-> first, seen |-> first, out |-> <<>>]
        ELSE LET before == walk[n - 1] IN next(before)
  IN  walk[Cardinality(DOMAIN repo)].out

(* As WalkPrBranch, with what is behind the base listed too (a mutant). *)
OnlyBaseHidden(repo, base, pr) == Reverse(NewestFirst(repo, pr, {base}))

WalkPrBranch(repo, base, pr) == Reverse(NewestFirst(repo, pr, Ancestors(repo, base)))

Substantive == "substantive"

(* A subject alone makes no commit a matter of bookkeeping: it touches some,   *)
(* not all, of what the commits before it touched, and nothing else.           *)
KindOf(commit, files, prior) ==
  IF commit.subject # Null /\ files # {} /\ files \subseteq prior /\ files # prior
  THEN commit.subject ELSE Substantive

PrCommitsFor(repo, merge) ==
  IF Len(repo[merge].parents) # 2 THEN Null
  ELSE LET walked == WalkPrBranch(repo, repo[merge].parents[1], repo[merge].parents[2])
           prior(i) == UNION {PathsOf(repo, walked[j]) : j \in 1..(i - 1)}
       IN  [i \in DOMAIN walked |->
              [sha |-> walked[i], kind |-> KindOf(repo[walked[i]], PathsOf(repo, walked[i]), prior(i))]]

-----------------------------------------------------------------------------
(* The diff that stands for a commit. *)

(* What each verb makes of a commit that is, or is not, a merge. *)
MergePolicy(verb) ==
  CASE verb \in {"commit", "bisect"} -> "refuse"
    [] verb \in {"merge", "range_merge_commit"} -> "require"
    [] verb = "batch" -> "first_parent"

CollectsPrCommits(verb) == verb \notin {"commit", "bisect"}

Refused(why) == [refused |-> why]

FromParents(repo, c, verb) ==
  LET parents == repo[c].parents
      input(pr) == [base |-> Head(parents), patch |-> PatchOf(repo, c), parents |-> Len(parents), pr |-> pr]
  IN  CASE parents = <<>> -> Refused("root")
        [] Len(parents) = 1 /\ MergePolicy(verb) = "require" -> Refused("not_a_merge")
        [] Len(parents) > 1 /\ MergePolicy(verb) = "refuse" -> Refused("merge")
        [] OTHER -> input(IF Len(parents) > 1 /\ CollectsPrCommits(verb) THEN PrCommitsFor(repo, c) ELSE Null)

-----------------------------------------------------------------------------
(* The commit that a prefix of an id names.  Ids are numbers; a prefix leaves   *)
(* out their last digits, and is a number too, with how many ids it may begin. *)
(* An object is a commit, a tag of one, or another kind.                       *)

Named(objects, prefix) == {o \in DOMAIN objects : o \div prefix.span = prefix.value}

PeelToCommit(objects, o) ==
  CASE objects[o].kind = "commit" -> [commit |-> o]
    [] objects[o].kind = "tag" /\ objects[o].of \in DOMAIN objects /\ objects[objects[o].of].kind = "commit" ->
         [commit |-> objects[o].of]
    [] OTHER -> [refused |-> "not_a_commit"]

(* The ids of a set in their order: before the i-th there are i - 1. *)
Sorted(ids) ==
  [i \in 1..Cardinality(ids) |-> CHOOSE o \in ids : Cardinality({p \in ids : p < o}) = i - 1]

ResolveShaPrefix(objects, prefix, cap) ==
  LET named == Named(objects, prefix)
  IN  CASE named = {} -> [refused |-> "not_found"]
        [] Cardinality(named) = 1 -> PeelToCommit(objects, CHOOSE o \in named : TRUE)
        [] OTHER -> [refused |-> "ambiguous", total |-> Cardinality(named),
                     sample |-> SubSeq(Sorted(named), 1, Min({cap, Cardinality(named)}))]
=============================================================================
