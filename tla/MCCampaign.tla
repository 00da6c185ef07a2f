----------------------------- MODULE MCCampaign -----------------------------
EXTENDS Campaign, TLC

CONSTANTS u1

\* A plan of one experiment with a user about, or one of two with faults.
MCInit ==
    /\ Init
    /\ IF plans[1].size = 1
       THEN budget.requests = MaxRequests /\ budget.faults = 0
       ELSE budget.requests = 0 /\ budget.faults = MaxFaults

MCSpec == MCInit /\ [][Next]_vars /\ Fairness
=============================================================================
