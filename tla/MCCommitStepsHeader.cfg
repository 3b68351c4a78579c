CONSTANTS
    t1 = t1
    t2 = t2
    b1 = b1
    b2 = b2
    Client = {c1, c2}
    Branch = {b1}
    Triple = {t1}
    Requests <- MCCheckedRequests
SPECIFICATION Spec
PROPERTIES HeaderProtects
