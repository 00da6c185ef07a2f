------------------------- MODULE MCModalDispatcher -------------------------
EXTENDS ModalDispatcher

CONSTANTS train, data

\* Every job needs the same dataset.
OneDataset == [j \in Jobs |-> data]
=============================================================================
