CONSTANTS
    Inputs <- MCInputsSpace
    RootCfgs <- MCRoots
    Cwd <- MCCwd
SPECIFICATION Spec
INVARIANTS
    SanitizeRoundTrip
