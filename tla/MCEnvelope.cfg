\* Every small envelope as the builders make it, whole, extended at every place, cut at every place, and other bytes.
SPECIFICATION FairSpec
CONSTANTS
    Base = 128
    Groups = 3
    Word = 65536
    Int32 = 4096
    Made <- MCMade
    FieldErrors <- MCFieldErrors
    Meta <- MCMeta
    MaxDetails = 2
    MaxMeta = 2
    Unknown <- MCUnknown
    Raw <- MCRaw
INVARIANTS TypeOK RoundTrip NothingInvented BytesReadAsDigits
PROPERTY Ends
CHECK_DEADLOCK FALSE
