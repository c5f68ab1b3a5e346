CONSTANTS
    a1 = a1
    a2 = a2
    u1 = u1
    w1 = w1
    w2 = w2
    NoAsset = NoAsset
    NoUpload = NoUpload
    Assets = {a1, a2}
    Uploads = {u1}
    Workers = {w1, w2}
    UploadSize <- MCUploadSize
    Sizes = {2}
    Estimates = {1, 3}
    Quota = 3
    Products = 2
    ReadBackFails = FALSE
    MaxFaults = 1
SPECIFICATION Spec
SYMMETRY MCSymmetry
INVARIANTS AssetHasBytes NoOrphans UsageAddsUp WithinQuota
CHECK_DEADLOCK FALSE
