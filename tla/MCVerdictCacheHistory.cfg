CONSTANTS
    Procs = {p1, p2}
    fix = fix  pick = pick  odd = odd
    patch = patch  env1 = env1  env2 = env2
    Commits = {fix, pick}
    Patches = {patch}
    Envs = {env1, env2}
    PatchOf <- MCPatchOf2
    EnvOf <- MCEnvOf2
    Mirrorable <- MCMirrorable
    Configs = {g1}
    Snaps = {n1}
    None = None
    Torn = Torn
    TTL = 1
    OrphanAge = 0
    SweepInterval = 3
    EditsDuringRuns = FALSE
    MaxHold = 1
    Shapes = {"check"}
    Max <- MCMaxLong
SPECIFICATION Spec
ACTION_CONSTRAINT WithinBudgets
INVARIANTS
    TypeOK
    CrashesTearNothing
PROPERTY AnswersExpire
SYMMETRY MCSymmetry
