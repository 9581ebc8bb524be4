--------------------------- MODULE SnapshotFormat ---------------------------
(***************************************************************************)
(* A snapshot, its file, and what the reader makes of a file.  A line is a *)
(* record of how far it is indented, its first word, the name and arity it *)
(* is sorted by, a number here, and the text that follows.                 *)
(***************************************************************************)
EXTENDS Naturals, Sequences, FiniteSets

CONSTANTS Null, WrapWidth

FormatVersion == 4
SupportedVersions == 1..4

ModuleClasses == <<"visibility", "path", "app", "behaviour", "export", "export_type", "callback",
  "optional_callback", "spec", "type", "opaque", "deprecated", "record", "test_only_export",
  "ifdef_macro", "variant_c_block", "versioned_machine", "wire_constant">>
HeaderClasses == <<"type", "opaque", "record">>

Names(classes) == {classes[n] : n \in DOMAIN classes}

(* A snapshot is [values, apps, pins, modules, headers]; a module, like a    *)
(* header, is [key, entries], the entries a sequence of [key, text] for each *)
(* class.  The text of a signature, of a field and of a type is a sequence   *)
(* of lines, that of a record the sequence of its fields.                    *)
Signed == {"callback", "spec", "type"}
Empty(key, classes) == [key |-> key, entries |-> [c \in Names(classes) |-> <<>>]]

-----------------------------------------------------------------------------
(* Everything with a key is sorted by it; of equal keys the first is kept.   *)

SortDedup(s) ==
  LET keys == {s[i].key : i \in DOMAIN s}
      nth(n) == CHOOSE k \in keys : Cardinality({j \in keys : j <= k}) = n
      first(k) == CHOOSE i \in DOMAIN s : s[i].key = k /\ \A j \in DOMAIN s : s[j].key = k => i <= j
  IN  [n \in 1..Cardinality(keys) |-> s[first(nth(n))]]

CanonicalParts(parts) ==
  LET sorted == SortDedup(parts)
      part(m) == [m EXCEPT !.entries = [c \in DOMAIN m.entries |-> SortDedup(m.entries[c])]]
  IN  [i \in DOMAIN sorted |-> part(sorted[i])]

Canonicalize(snap) ==
  [snap EXCEPT !.modules = CanonicalParts(snap.modules), !.headers = CanonicalParts(snap.headers),
               !.apps = SortDedup(snap.apps), !.pins = SortDedup(snap.pins)]

BreaksOrder(s, key) == s # <<>> /\ key <= s[Len(s)].key

(* What a reader of JSON checks, which has no lines. *)
OutOfOrder(snap) ==
  \E parts \in {snap.modules, snap.headers} :
    \E i \in 2..Len(parts) : BreaksOrder(SubSeq(parts, 1, i - 1), parts[i].key)

-----------------------------------------------------------------------------
(* The writer. *)

Line(indent, word, key, text) == [indent |-> indent, word |-> word, key |-> key, text |-> text]
BlankLine == Line(0, Null, Null, Null)

Concat(ss) ==
  LET upto[n \in 0..Len(ss)] == IF n = 0 THEN <<>> ELSE upto[n - 1] \o ss[n] IN upto[Len(ss)]

(* Texts behind their first line are indented further than anything else. *)
Lines(indent, word, key, text) ==
  <<Line(indent, word, key, IF text = <<>> THEN Null ELSE text[1])>>
    \o [i \in 1..(IF text = <<>> THEN 0 ELSE Len(text) - 1) |-> Line(7, Null, Null, text[i + 1])]

ModuleWide(e) == e.text = "module"

WriteDeprecation(e) ==
  <<IF ModuleWide(e) THEN Line(2, "deprecated", Null, "module") ELSE Line(2, "deprecated", e.key, e.text)>>

WriteEntry(class, e) ==
  CASE class \in Signed -> Lines(2, class, e.key, e.text)
    [] class = "record" ->
         Lines(2, class, e.key, <<>>)
           \o Concat([i \in DOMAIN e.text |-> Lines(4, "field", e.text[i].key, e.text[i].text)])
    [] class = "deprecated" -> WriteDeprecation(e)
    [] OTHER -> <<Line(2, class, e.key, e.text)>>

WritePart(word, m, classes) ==
  LET class(c) == Concat([i \in DOMAIN m.entries[c] |-> WriteEntry(c, m.entries[c][i])])
  IN  <<Line(0, word, m.key, Null)>> \o Concat([n \in DOMAIN classes |-> class(classes[n])])

(* The version is always the current one, whatever the file that was read had. *)
WriteHeader(snap) ==
  LET optional(key, value, given) == IF given THEN <<Line(0, "#", key, value)>> ELSE <<>>
      value(key) == optional(key, snap.values[key], snap.values[key] # Null)
  IN  <<Line(0, "#", "backhopper snapshot", Null), Line(0, "#", "format-version", FormatVersion)>>
        \o Concat([n \in 1..4 |-> value(<<"project", "tag", "branch", "commit">>[n])])
        \o optional("scanned-paths", snap.values["scanned-paths"], TRUE)
        \o optional("apps-scanned", snap.apps, snap.apps # <<>>)
        \o Concat([n \in 1..3 |-> value(<<"generated-by", "generated-at", "extractor-version">>[n])])
        \o [i \in DOMAIN snap.pins |-> Line(0, "#", "dep-pin", snap.pins[i])]
        \o <<BlankLine>>

Write(snap) ==
  LET modules == [i \in DOMAIN snap.modules |-> WritePart("module", snap.modules[i], ModuleClasses)]
      headers == [i \in DOMAIN snap.headers |-> WritePart("header", snap.headers[i], HeaderClasses)]
      parts == modules \o headers
      spaced(i) == (IF i = 1 THEN <<>> ELSE <<BlankLine>>) \o parts[i]
  IN  WriteHeader(snap) \o Concat([i \in DOMAIN parts |-> spaced(i)])

-----------------------------------------------------------------------------
(* The reader, line by line.  "in" is what an indented line belongs to,      *)
(* "takes" what a line that is indented further adds to, "last" how far the  *)
(* classes of this module have come.                                         *)

HeaderKeys == {"format-version", "project", "tag", "branch", "commit", "scanned-paths",
               "generated-by", "generated-at", "extractor-version"}
RequiredKeys == {"format-version", "project", "tag", "commit", "generated-by", "generated-at"}

Start == [ok |-> TRUE, in |-> "head", takes |-> "entries", last |-> 1,
          snap |-> [values |-> [k \in HeaderKeys |-> Null], apps |-> <<>>, pins |-> <<>>,
                    modules |-> <<>>, headers |-> <<>>]]

Refuse(st) == [st EXCEPT !.ok = FALSE]

ReadHeaderLine(st, line) ==
  CASE line.key = "backhopper snapshot" -> st
    [] line.key = "format-version" /\ line.text \notin SupportedVersions -> Refuse(st)
    [] line.key \in HeaderKeys /\ (line.key = "format-version" => line.text \in SupportedVersions) ->
         [st EXCEPT !.snap.values[line.key] = line.text]
    [] line.key = "apps-scanned" -> [st EXCEPT !.snap.apps = line.text]
    [] line.key = "dep-pin" -> [st EXCEPT !.snap.pins = Append(@, line.text)]
    [] OTHER -> Refuse(st)

Begin(st, line) ==
  LET begun(parts, in, classes) ==
        [st EXCEPT !.snap[parts] = Append(@, Empty(line.key, classes)),
                   !.in = in, !.takes = "entries", !.last = 1]
  IN  CASE line.word = "module" ->
             IF st.snap.headers # <<>> \/ BreaksOrder(st.snap.modules, line.key) THEN Refuse(st)
             ELSE begun("modules", "modules", ModuleClasses)
        [] line.word = "header" ->
             IF BreaksOrder(st.snap.headers, line.key) THEN Refuse(st)
             ELSE begun("headers", "headers", HeaderClasses)
        [] line = BlankLine -> [st EXCEPT !.in = "nothing"]
        [] OTHER -> Refuse(st)

-----------------------------------------------------------------------------
(* The entries of a module or a header.  The order within a class is checked *)
(* for those of Ordered, and in modules alone: not for callbacks, types,     *)
(* records or deprecations, nor for specs, though find_spec bisects them.    *)

Ordered == {"behaviour", "export", "export_type", "optional_callback", "opaque", "wire_constant"}
Single == {"visibility", "path", "app"}  \* the last one counts

TakesOf(class) == CASE class \in Signed -> "text" [] class = "record" -> "fields" [] OTHER -> "entries"

(* A line that names no function is about the module, and its reason is lost. *)
DeprecationOf(line) ==
  IF line.key = Null THEN [key |-> 0, text |-> "module"] ELSE [key |-> line.key, text |-> line.text]

EntryOf(line) ==
  CASE line.word \in Signed -> [key |-> line.key, text |-> <<line.text>>]
    [] line.word = "record" -> [key |-> line.key, text |-> <<>>]
    [] line.word = "deprecated" -> DeprecationOf(line)
    [] OTHER -> [key |-> line.key, text |-> line.text]

(* As Misplaced, with the order within a class trusted (a mutant). *)
OrderTrusted(st, entries, line, rank) ==
  \/ rank < st.last
  \/ line.word = "versioned_machine" /\ entries # <<>>

Misplaced(st, entries, line, rank) ==
  \/ rank < st.last
  \/ st.in = "modules" /\ line.word \in Ordered /\ BreaksOrder(entries, line.key)
  \/ line.word = "versioned_machine" /\ entries # <<>>

ReadEntry(st, line) ==
  LET classes == IF st.in = "modules" THEN ModuleClasses ELSE HeaderClasses
      rank == CHOOSE n \in DOMAIN classes : classes[n] = line.word
      parts == st.snap[st.in]
      entries == parts[Len(parts)].entries[line.word]
      kept == IF line.word \in Single THEN <<>> ELSE entries
  IN  IF line.word \notin Names(classes) \/ Misplaced(st, entries, line, rank) THEN Refuse(st)
      ELSE [st EXCEPT !.snap[st.in][Len(parts)].entries[line.word] = Append(kept, EntryOf(line)),
                      !.last = rank, !.takes = TakesOf(line.word)]

(* A field, or what goes on with the type of one or with a signature: of the *)
(* last entry that was read.                                                 *)
LastClass(st) == IF st.in = "modules" THEN ModuleClasses[st.last] ELSE HeaderClasses[st.last]

ReadMore(st, line) ==
  LET at == Len(st.snap[st.in])
      class == LastClass(st)
      entries == st.snap[st.in][at].entries[class]
      text == entries[Len(entries)].text
      more(t) == [st EXCEPT !.snap[st.in][at].entries[class][Len(entries)].text = t]
      field == [key |-> line.key, text |-> IF line.text = Null THEN <<>> ELSE <<line.text>>]
  IN  CASE st.takes = "fields" /\ line.word = "field" -> more(Append(text, field))
        [] st.takes = "fields" /\ line.indent = 7 ->
             IF text = <<>> \/ text[Len(text)].text = <<>> THEN Refuse(st)
             ELSE more([text EXCEPT ![Len(text)].text = Append(@, line.text)])
        [] st.takes = "text" /\ line.indent = 7 -> more(Append(text, line.text))
        [] OTHER -> Refuse(st)

ReadLine(st, line) ==
  CASE ~st.ok -> st
    [] st.ok /\ st.in = "head" /\ line.word = "#" -> ReadHeaderLine(st, line)
    [] st.ok /\ line.indent = 0 /\ (st.in = "head" => line.word # "#") -> Begin(st, line)
    [] st.ok /\ line.indent > 0 /\ st.in \notin {"modules", "headers"} -> Refuse(st)
    [] st.ok /\ line.indent = 2 /\ st.in \in {"modules", "headers"} -> ReadEntry(st, line)
    [] OTHER -> ReadMore(st, line)

Parse(text) ==
  LET read[n \in 0..Len(text)] == IF n = 0 THEN Start ELSE ReadLine(read[n - 1], text[n])
      end == read[Len(text)]
  IN  IF end.ok /\ \A k \in RequiredKeys : end.snap.values[k] # Null THEN end.snap ELSE Null

-----------------------------------------------------------------------------
(* Modules and exports are looked up by binary search. *)

BinarySearch(s, key) ==
  LET within[lo \in 1..(Len(s) + 1), hi \in 0..Len(s)] ==
        LET mid == (lo + hi) \div 2 IN
        /\ lo <= hi
        /\ \/ s[mid].key = key
           \/ s[mid].key < key /\ within[mid + 1, hi]
           \/ s[mid].key > key /\ within[lo, mid - 1]
  IN  within[1, Len(s)]

ModuleNamed(snap, m) == BinarySearch(snap.modules, m)

LookupExport(snap, m, f) ==
  ModuleNamed(snap, m) /\ \E i \in DOMAIN snap.modules :
                            snap.modules[i].key = m /\ BinarySearch(snap.modules[i].entries["export"], f)

-----------------------------------------------------------------------------
(* The one text that a specification, a callback or a type has in a          *)
(* snapshot, however its source is laid out.  A text is a sequence of        *)
(* tokens: white space, a comment "%" up to the end of its line, brackets,   *)
(* the bar of a union, and words.  A string, a quoted atom and a character   *)
(* are words, and widths are counted in tokens.                              *)

Blanks == {" ", "\n"}

RemoveLineComments(text) == SelectSeq(text, LAMBDA t : t # "%")

CollapseWhitespace(text) ==
  LET words == {i \in DOMAIN text : text[i] \notin Blanks}
      gaps == {i \in DOMAIN text : i - 1 \in words /\ \E j \in words : j > i} \ words
      kept == words \cup gaps
      nth(n) == CHOOSE i \in kept : Cardinality({j \in kept : j <= i}) = n
  IN  [n \in 1..Cardinality(kept) |-> IF nth(n) \in gaps THEN " " ELSE text[nth(n)]]

(* The bars outside all brackets; only << that are open are closed by >>. *)
TopLevelBars(text) ==
  LET count(step(_, _)) == LET c[i \in 0..Len(text)] == IF i = 0 THEN 0 ELSE step(text[i], c[i - 1]) IN c
      round == count(LAMBDA t, d : IF t = "(" THEN d + 1 ELSE IF t = ")" THEN d - 1 ELSE d)
      angle == count(LAMBDA t, d : IF t = "<<" THEN d + 1 ELSE IF t = ">>" /\ d > 0 THEN d - 1 ELSE d)
  IN  {i \in DOMAIN text : text[i] = "|" /\ round[i] = 0 /\ angle[i] = 0}

Trimmed(line) ==
  LET words == {i \in DOMAIN line : line[i] # " "}
  IN  IF words = {} THEN <<>>
      ELSE SubSeq(line, CHOOSE i \in words : \A j \in words : i <= j,
                        CHOOSE i \in words : \A j \in words : i >= j)

(* The lines of a text broken before each of the bars; it begins with a word. *)
WrapAt(text, bars) ==
  LET starts == {1} \cup bars
      nth(n) == CHOOSE i \in starts : Cardinality({j \in starts : j <= i}) = n
      end(n) == IF n = Cardinality(starts) THEN Len(text) ELSE nth(n + 1) - 1
  IN  [n \in 1..Cardinality(starts) |-> Trimmed(SubSeq(text, nth(n), end(n)))]

NormalizeSignature(text) ==
  LET collapsed == CollapseWhitespace(RemoveLineComments(text))
  IN  IF Len(collapsed) <= WrapWidth THEN <<collapsed>>
      ELSE WrapAt(collapsed, TopLevelBars(collapsed))
=============================================================================
