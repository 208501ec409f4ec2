SPECIFICATION Spec
CONSTANTS
    Feed = {f1, f2, f3, f4}
    Enabled = {f1, f2, f3}
    Generator = {f1, f2, f4}
    Cmd = {c1, c2}
    Cid = {v1, v2}
    Absent = Absent
SYMMETRY Alike
INVARIANTS
    TypeOK
    ReportsMatch
    NoLostUpdate
CHECK_DEADLOCK FALSE
