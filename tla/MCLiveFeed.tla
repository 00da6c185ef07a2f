----------------------------- MODULE MCLiveFeed -----------------------------
EXTENDS LiveFeed, TLC

CONSTANTS p1, p2, done, noted, began, elsewhere

\* A window that has connected to a project in which nothing has happened: the
\* state after Init, the first snapshot, its probe and the opened stream.
Connected ==
    /\ LogInit
    /\ live = [installed |-> TRUE, cursor |-> 0, shown |-> {}, seen |-> {}]
    /\ ui = [conn |-> "connected", healthy |-> TRUE, timer |-> FALSE,
             compact |-> FALSE, tries |-> 0, recoveries |-> 0, request |-> NoRequest,
             stream |-> [Closed EXCEPT !.phase = "open"],
             work |-> [r \in Resources |-> "idle"], since |-> 0, retried |-> FALSE]
    /\ copy = 0
    /\ disturbed = 0

ConnectedSpec == Connected /\ [][Next]_vars
=============================================================================
