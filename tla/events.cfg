\* Two jobs of three events each, of which the server keeps two.
CONSTANTS
    MaxJobs = 2
    MaxEvents = 3
    Cap = 2
    MaxBoots = 1
    Streams = {r1, r2}
    r1 = r1
    r2 = r2
SPECIFICATION EventsSpec
 
PROPERTY BusyEnds
CHECK_DEADLOCK FALSE
