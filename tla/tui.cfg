SPECIFICATION Spec
CONSTANTS
    ask = ask
    shell = shell
    chat = chat
    later = later
    safety = safety
    profile = profile
    attach = attach
    p1 = p1
    p2 = p2
    None = None
    Profiles = {p1}
    Recorders = {ask, attach}
    Lines = {ask, safety, attach}
    What <- WhatLines
INVARIANTS OneTurnUntilCut BusyHasTurn
PROPERTIES QueueDrains SessionKept
CHECK_DEADLOCK FALSE
