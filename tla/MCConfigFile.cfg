\* Three verbs of two processes on one file.
CONSTANTS
  dep = dep
  lib = lib
  own = own
  tool = tool
  newer = newer
  older = older
  t1 = t1
  t2 = t2
  Missing = Missing
  Broken = Broken
  bad = bad
  Procs = {p1, p2}
  Names = {dep, lib, own, tool}
  InvalidNames = {bad}
  Self = own
  Series = {newer, older}
  Tags = {t1, t2}
  Branches <- MCBranches
  Initial <- MCInitial
  Asked <- MCAsked
  MaxVerbs = 3
SPECIFICATION Spec
SYMMETRY MCSymmetry
CHECK_DEADLOCK FALSE
INVARIANTS TypeOK ReportsAreKept
PROPERTIES EditedConfigsLoad SyncsConverge
