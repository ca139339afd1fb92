SPECIFICATION Spec
CONSTANTS
    home = home  d1 = d1  d2 = d2  n1 = n1  n2 = n2  k1 = k1  k2 = k2  v1 = v1  v2 = v2
    unset = unset  here = here
    Dir = {home, d1, d2}
    Home = home
    Tmp = d1
    Here = here
    Name = {n1, n2}
    Key = {k1, k2}
    Refused = {k2}
    Value = {v1}
    Unset = unset
    BadValue = v2
    Orders <- MCOrders
    NTests = 2
    MaxTemps = 1
    MaxOps = 3
INVARIANTS ProcessRestored TeardownNeedsFault TempDirsRemoved
PROPERTY OthersStay
