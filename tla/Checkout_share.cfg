CONSTANTS
    r1 = r1
    r2 = r2
    body1 = body1
    body2 = body2
    Absent = Absent
    Resolvers = {r1, r2}
    Offline = {}
    Local = {"dir"}
    Git = {"tag"}
    Asset = {"asset"}
    Edited = {2}
    Moving = {"asset"}
    Files = {1, 2}
    Bodies = {body1, body2}
    Published <- MCTrees
    Fragile <- MCFragile
SYMMETRY MCSymmetry
SPECIFICATION Spec
INVARIANTS CheckoutsAreWhole StoreIsHonest DigestIsStored ResultIsOneTree
PROPERTY CheckoutsStay
