SPECIFICATION Spec
CONSTANTS
    k1 = k1
    k2 = k2
    k3 = k3
    Nothing = Nothing
    Absent = Absent
    Torn = Torn
    Odd = Odd
    Key <- ThreeKeys
    Lanes <- Progress
    MaxFaults = 3
PROPERTIES
    ImplementsRegister
