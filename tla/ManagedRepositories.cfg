SPECIFICATION Spec
CONSTANTS
    Ids = {a, b, c}
    Users = {u, v}
    Collectors = {g, h}
    None = None
INVARIANTS
    InUseSurvives KeptAsAsked RecordsStand
SYMMETRY Alike
CHECK_DEADLOCK FALSE
