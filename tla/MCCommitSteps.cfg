CONSTANTS
    t1 = t1
    t2 = t2
    b1 = b1
    b2 = b2
    Client = {c1, c2, c3}
    Branch = {b1, b2}
    Triple = {t1, t2}
    Requests <- MCRequests
SPECIFICATION Spec
INVARIANTS TypeOK RequestsTakeEffect LeavesExist HistoryIsOrdered
SYMMETRY MCClients
