\* The uploader and one more goroutine; four keys, and one id too few for them.
CONSTANTS
    t1 = t1
    t2 = t2
    Threads = {t1, t2}
    Uploader = t1
    NoThread = NoThread
    LastId = 3
    Counts = {1, 2}
    MaxKeys = 4
SPECIFICATION Spec
INVARIANTS
    TypeOK
    InsertsNeverConflict
    BatchesHaveDistinctIds
    UploadedArePublished
    MarkedCompletely
