\* A codec is dropped before its views.
SPECIFICATION Spec
CONSTANTS
    c1 = c1
    c2 = c2
    v1 = v1
    v2 = v2
    v3 = v3
    full = full
    empty = empty
    Codec = {c1, c2}
    View = {v1, v2, v3}
    Message = {full, empty}
    Entries <- MCEntries
    MaxIndex = 2
    Address = {1, 2}
    Nothing = Nothing
INVARIANT CodecOutlivesViews
CHECK_DEADLOCK FALSE
