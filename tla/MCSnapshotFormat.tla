-------------------------- MODULE MCSnapshotFormat --------------------------
(***************************************************************************)
(* Snapshots whose one module and one header were given up to three        *)
(* entries, in any order and some twice, and edits of their files: two     *)
(* neighbouring lines swapped, a line repeated, a line removed.  And       *)
(* signatures of up to five words, each laid out in several ways.          *)
(***************************************************************************)
EXTENDS SnapshotFormat, TLC

Elements(s) == {s[i] : i \in DOMAIN s}

(* Function names that begin with "module" are left out, as are the reasons  *)
(* of a deprecation of the whole module: the reader drops them.              *)
Entry(class, key, text) == [class |-> class, key |-> key, text |-> text]
Fields == <<[key |-> 2, text |-> <<"t", "| u">>], [key |-> 1, text |-> <<>>]>>

Pool ==
  <<Entry("visibility", 0, "internal"), Entry("export", 1, Null), Entry("export", 2, Null),
   Entry("spec", 2, <<"s", "| t">>), Entry("spec", 1, <<"u">>), Entry("type", 1, <<"t", "| u">>),
   Entry("opaque", 1, Null), Entry("opaque", 2, Null), Entry("deprecated", 0, "module"),
   Entry("deprecated", 1, "since 2"), Entry("record", 1, Fields),
   Entry("versioned_machine", 0, "3 literal"), Entry("wire_constant", 1, "u64 1")>>

Holding(key, given, classes) ==
  LET of(c) == SelectSeq(given, LAMBDA e : e.class = c)
      plain(s) == [i \in DOMAIN s |-> [key |-> s[i].key, text |-> s[i].text]]
  IN  [key |-> key, entries |-> [c \in Names(classes) |-> plain(of(c))]]

Extracted(given, keys, branch) ==
  LET hrl == SelectSeq(given, LAMBDA e : e.class \in Names(HeaderClasses))
  IN  [values |-> [k \in HeaderKeys |-> IF k = "branch" THEN branch
                                        ELSE IF k = "format-version" THEN FormatVersion ELSE "v"],
       apps |-> [i \in DOMAIN keys |-> [key |-> keys[i]]],
       pins |-> [i \in DOMAIN keys |-> [key |-> keys[i], text |-> "hex 1.0"]],
       modules |-> [i \in DOMAIN keys |-> Holding(keys[i], given, ModuleClasses)],
       headers |-> IF hrl = <<>> THEN <<>> ELSE <<Holding(1, hrl, HeaderClasses)>>]

FileSeeds ==
  {[kind |-> "file seed", given |-> given] : given \in UNION {[1..n -> DOMAIN Pool] : n \in 0..3}}

(* The lines that a hand edit leaves; only short files are edited.           *)
EditedText(text, what, i) ==
  LET upto == SubSeq(text, 1, i - 1)
      from(j) == SubSeq(text, j, Len(text))
  IN  CASE what = "none" -> text
        [] what = "repeat" -> upto \o <<text[i]>> \o from(i)
        [] what = "remove" -> upto \o from(i + 1)
        [] what = "swap" -> upto \o (IF i < Len(text) THEN <<text[i + 1], text[i]>> ELSE <<text[i]>>)
                                 \o from(i + 2)

SnapshotOf(q) == Extracted([i \in DOMAIN q.given |-> Pool[q.given[i]]], q.keys, q.branch)
TextOf(q) == Write(Canonicalize(SnapshotOf(q)))

FileQuestions(seed) ==
  UNION {LET q == [kind |-> "file", given |-> seed.given, keys |-> keys, branch |-> branch,
                   what |-> "none", at |-> 1]
         IN  {q} \cup (IF Len(seed.given) = 3 \/ branch = Null THEN {}
                       ELSE {[q EXCEPT !.what = what, !.at = i] :
                               what \in {"swap", "repeat", "remove"}, i \in DOMAIN TextOf(q)})
         : keys \in {<<1>>, <<2, 1, 2>>}, branch \in {Null, "v"}}

(* A snapshot reads back from its file as it was, whatever order its parts   *)
(* were extracted in.  A file that was edited by hand and is still read has  *)
(* what the parser checks in order (SnapshotFormat!Ordered), so that the     *)
(* bisections of modules and of exports find what is there.  Of specs        *)
(* nothing is claimed: their order is not checked (parser.rs:293-306), and   *)
(* find_spec, which bisects them too (evaluate.rs:1385-1397), may miss one    *)
(* in such a file.                                                           *)
FilesReadBackIn(q) ==
  LET snap == SnapshotOf(q)
      read == Parse(EditedText(TextOf(q), q.what, q.at))
  IN  /\ q.what = "none" => read = Canonicalize(snap)
      /\ read # Null =>
           /\ ~OutOfOrder(read)
           /\ \A m \in 1..3, f \in 1..3 :
                LET named == {x \in Elements(read.modules) : x.key = m}
                    exports == {e.key : e \in UNION {Elements(x.entries["export"]) : x \in named}}
                IN  /\ ModuleNamed(read, m) = (named # {})
                    /\ LookupExport(read, m, f) = (f \in exports)

-----------------------------------------------------------------------------
Layouts == {<<" ">>, <<"\n">>, <<" ", "%", "\n">>, <<"%", "\n", " ", " ">>}

SignatureSeeds ==
  {[kind |-> "signature seed", words |-> <<"a">> \o words] :
     words \in UNION {[1..n -> {"a", "|", "(", ")"}] : n \in 0..4}}

SignatureQuestions(seed) ==
  [kind : {"signature"}, words : {seed.words}, gaps : SUBSET (1..(Len(seed.words) - 1)),
   odd : Layouts, even : {<<" ">>, <<"%", "\n", " ", " ">>}]

(* The words with white space in some of the gaps between them. *)
LaidOut(q, odd, even) ==
  LET gap(i) == IF i \notin q.gaps THEN <<>> ELSE IF i % 2 = 1 THEN odd ELSE even
  IN  Concat([i \in DOMAIN q.words |-> <<q.words[i]>> \o gap(i)])

AsSource(lines) ==
  Concat([i \in DOMAIN lines |-> (IF i = 1 THEN <<>> ELSE <<"\n", " ">>) \o lines[i]])

(* However a signature is spread over lines and commented, it has one text,  *)
(* and that text is its own; if it has to be broken, then before each bar of *)
(* its union and nowhere else.                                               *)
SignaturesHaveOneTextIn(q) ==
  LET lines == NormalizeSignature(LaidOut(q, q.odd, q.even))
  IN  /\ lines = NormalizeSignature(LaidOut(q, <<" ">>, <<" ">>))
      /\ lines = NormalizeSignature(AsSource(lines) \o <<"%", "\n">>)
      /\ \A i \in 2..Len(lines) : lines[i][1] = "|"
=============================================================================
