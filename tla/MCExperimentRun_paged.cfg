\* CompleteRun sees only the first two events.
SPECIFICATION Spec
CONSTANTS
    e1 = e1
    e2 = e2
    e3 = e3
    note = note
    sim = sim
    s1 = s1
    a1 = a1
    a2 = a2
    a3 = a3
    k1 = k1
    k2 = k2
    None = None
    Client = {e1, e2, e3}
    Item = {note, sim}
    Required = {sim}
    Simulation = {sim}
    Iterates = TRUE
    Start = {s1}
    Appends = {a1, a2, a3}
    Complete = {k1, k2}
    MaxTrials = 2
    Page = 2
SYMMETRY Interchangeable
PROPERTY RefusedIsMissing
CHECK_DEADLOCK FALSE
