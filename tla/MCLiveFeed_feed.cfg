SPECIFICATION LiveSpec
CONSTANTS
    p1 = p1
    p2 = p2
    done = done
    noted = noted
    elsewhere = elsewhere
    began = began
    Producers = {p1, p2}
    Keys = {done, noted, began}
    Mine = {done, noted, began}
    Operational = {done, began}
    Terminal = {done}
    MaxReconnects = 1
    MaxDisturbances = 2
CHECK_DEADLOCK FALSE
INVARIANTS TypeOK NumberedAsCommitted NoGap StreamCarriesOn
PROPERTIES NeverForgets CatchesUp
