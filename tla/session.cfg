SPECIFICATION WaitSpec
CONSTANTS
    c1 = c1
    c2 = c2
    c3 = c3
    Calls = {c1, c2, c3}
    Lines <- OneOfTwoLines
    w1 = w1
    w2 = w2
    Leader = leader
    Workers = {w1, w2}
INVARIANTS OneTrueOutcome
PROPERTIES AnswersOwn RunReturns BehindUnfinished Settles
CHECK_DEADLOCK FALSE
