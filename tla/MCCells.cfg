\* One reader and one message, for any number of rows.
SPECIFICATION Spec
CONSTANTS
    Type <- MCType
    Required = {"i"}
    Defaulted = {"s"}
    Columns <- MCColumns
    Cell <- MCCell
    Limits <- MCLimits
    DefaultLimits <- MCDefaults
INVARIANTS TypeOK HoldsTheLastRow ScanRefusesForContent ReadersLimitsBind
