SPECIFICATION Spec
CONSTANTS
    home = home
    work = work
    near = near
    far = far
    third = third
    i1 = i1
    i2 = i2
    v1 = v1
    v2 = v2
    None = None
    Profiles = {home, work}
    Connections = {near, far, third}
    Items = {i1, i2}
    Values = {v1, v2}
    Settings <- TwoSettings
    Contents <- Differing
    MaxReads = 2
    MaxEdits = 1
SYMMETRY Symmetric
INVARIANTS LoadedIsLatest CleanIsStored
PROPERTIES DraftsNeedDecision ReplacesWhatWasShown
CHECK_DEADLOCK FALSE
