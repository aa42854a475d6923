CONSTANTS
    Inputs <- MCInputs
    RootCfgs <- MCRoots
    Cwd <- MCCwd
SPECIFICATION Spec
INVARIANTS
    SanitizeRoundTrip
    ShimDaemonAgree
    SanitizeCanonical
