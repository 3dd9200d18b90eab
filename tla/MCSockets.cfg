SPECIFICATION Spec
INVARIANTS
    SocketAgreement
    DataConserved
    ChildrenOnce
CHECK_DEADLOCK FALSE
