SPECIFICATION Spec
CONSTANTS
    Procs = {p1, p2}
    Bases = {"s", "t"}
    Subs = {"s", "t"}
    Unnamed = "?"
    Refused = "!"
    Copies = 1
    Issues = 3
    Typed <- MCTyped
    DaemonOn <- MCDaemonOn
    SwitchOn <- MCSwitchOn
    Leftovers <- MCLeftovers
    GroupArgs <- MCGroups
    Payloads <- MCPayloads
INVARIANTS
    TypeOK
    ManagedListed
    StatusTold
PROPERTIES
    OwnKept
SYMMETRY Twins
CHECK_DEADLOCK FALSE
