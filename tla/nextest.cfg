SPECIFICATION Spec
CONSTANTS
    a = a
    b = b
    r = r
    b1 = b1
    b2 = b2
    t1 = t1
    t2 = t2
    t3 = t3
    t4 = t4
    t5 = t5
    t6 = t6
    Label = {a, b}
    Binary = {b1, b2}
    Test = {t1, t2, t3, t4, t5, t6}
    Requirement = {r}
    BinaryOf <- MCBinaryOf
    LabelsOf <- MCLabelsOf
    SerialOf <- MCSerialOf
    NeedsOf <- MCNeedsOf
    Pos <- MCPos
    Slots = 2
    Ignored <- OneIgnored
    ProbesFail = TRUE
INVARIANTS
    GroupsAreComponents
    ListedNeverWait
PROPERTY RunEnds
