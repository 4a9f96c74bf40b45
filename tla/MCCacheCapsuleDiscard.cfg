SPECIFICATION Spec
CONSTANTS
    Tickets = {t1, t2}
    Leases = {l1, l2}
    NoTicket = NoTicket
SYMMETRY CapsuleSymmetry
CHECK_DEADLOCK FALSE
INVARIANT AdoptedIsNotDiscarded
