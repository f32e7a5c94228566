SPECIFICATION Spec
CONSTANTS
    Callers = {c1, c2, c3}
    NoCaller = NoCaller
    Codes = {code}
    NoCode = NoCode
    MaxMonth = 2
SYMMETRY Symmetry
INVARIANTS
    NoStepBack
    PassportFinds
    WaitsEnd
PROPERTIES
    ClosedForAnotherMonth
