CONSTANTS
    FirstToken = t0
    Remnant = remnant
    NoSession = none
    Operator = operator
    Confirms = {c1, c2}
    Logins = {l1}
    Edits = {e1}
    Placements = {o1}
    Faults = {"rpc", "wallet", "save", "purge", "sweep", "mark"}
    Overlap = FALSE
SPECIFICATION Spec
CHECK_DEADLOCK FALSE
INVARIANTS
    TypeOK
    IrreversibleLast
    NoLateAdmission
    RefusalLeavesNothing
PROPERTIES
    HoldOutlivesClosure
