SPECIFICATION Spec
CONSTANTS
    p1 = p1
    p2 = p2
    c1 = c1
    c0 = c0
    k1 = k1
    k2 = k2
    k3 = k3
    o1 = o1
    o0 = o0
    Places = {p1, p2}
    Cancels = {c1, c0}
    Keys = {k1, k2, k3}
    KeyOf <- MCKeyOf
    Orders = {o1, o0}
    OrderOf <- MCOrderOf
    Earlier = {o0}
    Catalogues <- MCCatalogues
    Pinned = 1
INVARIANTS
    TransmittedOnce
    AnswersAreTheBrokers
PROPERTIES
    LostWriteBlocksReconcile
