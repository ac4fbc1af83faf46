\* Files: two processes, three memory entries, a history of at most two lines.
\* Chats: two pages in one browser or in two.  Build: two sources of others.
\* Talk: two turns of two rounds, budgets of about five messages.
\* Stream: two calls.
CONSTANTS
    p = p
    q = q
    i1 = i1
    i2 = i2
    i3 = i3
    ls = ls
    who = who
    page1 = page1
    page2 = page2
    home = home
    work = work
    chat = chat
    None = None
    Absent = Absent
    Procs = {p, q}
    Ids = {i1, i2, i3}
    Texts = {ls, who}
    MaxLines = 3
    Keep = 2
    Pages = {page1, page2}
    Browsers = {home, work}
    Chats = {chat}
    MaxClock = 3
    MaxPosts = 1
    MaxSource = 3
    MaxCalls = 2
    MaxRounds = 2
    MaxTurns = 2
    MaxSize = 2
    write = write
    look = look
    Default = Default
    Tools = {write, look}
    Usual <- UsualBudget
    Reduced <- ReducedBudget
    Replies <- StreamAnswers
SPECIFICATION PartsSpec
INVARIANTS SupersededHasSuccessor ToldIsTrue ResultsPaired AnswerAsSent
PROPERTIES LossExplained 
SYMMETRY Symmetric
CHECK_DEADLOCK FALSE
