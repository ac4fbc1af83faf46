SPECIFICATION Spec
CONSTANTS
    ask = ask
    shell = shell
    chat = chat
    later = later
    safety = safety
    profile = profile
    attach = attach
    p1 = p1
    p2 = p2
    None = None
    Profiles = {p1, p2}
    Recorders = {}
    Lines = {ask, safety, later}
    What <- WhatLines
PROPERTY SafetyInForce
CHECK_DEADLOCK FALSE
