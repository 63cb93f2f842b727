\* The import graphs of MCImports, up to two files per call.  A call ends.
SPECIFICATION FairSpec
CONSTANTS
    a = a
    b = b
    c = c
    d = d
    other = other
    home = home
    away = away
    na = na
    nb = nb
    nc = nc
    nd = nd
    File <- MCFile
    Name <- MCName
    NameOf <- MCNameOf
    PoolOf <- MCPoolOf
    Rank <- MCRank
    Imports <- MCImports
    MaxFiles = 2
INVARIANTS TypeOK DependencyFirst NoDuplicateNames OnePoolSucceeds FirstPassedWins
PROPERTY Ends
CHECK_DEADLOCK FALSE
