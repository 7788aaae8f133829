SPECIFICATION Spec
CONSTANTS
    Employees = {e1}
    Users = {u1}
    Groups = {g1, g2}
    Shifts = {s1, s2}
    Workers = {w1}
    Papers = {"log"}
    Flags <- ShiftFlags
    Slow = {"emp", "shift"}
    None = None
SYMMETRY Symmetry
INVARIANTS
    ResignedUnlinked
    DefaultAsAsked
