SPECIFICATION Spec
CONSTANTS
    n1 = n1
    n2 = n2
    project = project
    run = run
    l1 = l1
    l2 = l2
    l3 = l3
    NoRow = NoRow
    Nodes = {n1, n2}
    Rows = {project}
    Parent <- Family
    Links = {l1, l2}
    Dialer <- From1
    Acceptor <- To2
    Manual = {}
    MaxAuthenticated = 1
    MaxEdits = 2
    MaxTime = 2
    MaxRestarts = 1
SYMMETRY Exchangeable
INVARIANTS
    NothingLost
PROPERTIES
    CopiesMoveOn
CHECK_DEADLOCK FALSE
