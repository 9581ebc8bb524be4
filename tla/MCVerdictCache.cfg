CONSTANTS
    Procs = {p1, p2}
    fix = fix  pick = pick  odd = odd
    patch = patch  env1 = env1  env2 = env2
    Commits <- MCCommits
    Patches = {patch}
    Envs = {env1, env2}
    PatchOf <- MCPatchOf
    EnvOf <- MCEnvOf
    Mirrorable <- MCMirrorable
    Configs = {g1, g2}
    Snaps = {n1, n2}
    None = None
    Torn = Torn
    TTL = 1
    OrphanAge = 0
    SweepInterval = 0
    EditsDuringRuns = FALSE
    MaxHold = 0
    Shapes = {"check", "bisect"}
    Max <- MCMaxKeys
SPECIFICATION Spec
INVARIANTS
    EntriesDenoteTheirKey
    AnswersAreFresh
PROPERTY CacheIsTransparent
SYMMETRY MCSymmetry
