SPECIFICATION Spec
CONSTANTS
    Paths = {p1, p2}
    Files = {f1, f2}
    Inodes = {i1, i2}
    None = None
    MaxVersions = 3
    MaxWatches = 2
    MaxTime = 3
    Users = {"files", "cache", "names"}
    Cached = {p1}
    cacheTTL = 2
    Names <- Names4
    MimeTypes <- Listed
SYMMETRY Symmetry
CHECK_DEADLOCK FALSE
INVARIANTS NoWatchLeak MimetypeOfExtension FreshWithinTTL Revalidated
