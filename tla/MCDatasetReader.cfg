\* Two consumers of documents of up to two datasets.  The document ends.
SPECIFICATION FairSpec
CONSTANTS
    t1 = t1
    t2 = t2
    Thread <- MCThread
    MaxDatasets = 2
    MaxRows = 2
INVARIANTS TypeOK RowHasOneOwner ChainedAfterAll
PROPERTIES RowsMoveForward FirstStream ReadToTheEnd
CHECK_DEADLOCK FALSE
