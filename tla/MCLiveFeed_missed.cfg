SPECIFICATION ConnectedSpec
CONSTANTS
    p1 = p1
    p2 = p2
    done = done
    noted = noted
    began = began
    elsewhere = elsewhere
    Producers = {p1, p2}
    Keys = {done, noted, elsewhere}
    Mine = {done, noted}
    Operational = {done, noted}
    Terminal = {done}
    MaxReconnects = 1
    MaxDisturbances = 0
CHECK_DEADLOCK FALSE
INVARIANTS NothingMissed
