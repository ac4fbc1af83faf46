\* Two users with two chats each; one of two jobs may be active at a time.
CONSTANTS
    None = None
    u1 = u1
    u2 = u2
    main = main
    side = side
    j1 = j1
    j2 = j2
    j3 = j3
    p1 = p1
    p2 = p2
    Users = {u1, u2}
    Chats = {main, side}
    DefaultChat = main
    Jobs = {j1, j2}
    Profiles = {p1, p2}
    Limit = 1
SPECIFICATION Spec
INVARIANTS LiveJobsListed LimitHolds UsersIsolated
SYMMETRY JobSymmetry
CHECK_DEADLOCK FALSE
