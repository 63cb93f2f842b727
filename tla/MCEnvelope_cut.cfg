\* Bytes that end inside a field.
SPECIFICATION FairSpec
CONSTANTS
    Base = 128
    Groups = 3
    Word = 65536
    Int32 = 4096
    Made <- MCMade
    FieldErrors <- MCFieldErrors
    Meta <- MCMeta
    MaxDetails = 2
    MaxMeta = 2
    Unknown <- MCUnknown
    Raw <- MCRaw
INVARIANT CutInsideIsRefused
CHECK_DEADLOCK FALSE
