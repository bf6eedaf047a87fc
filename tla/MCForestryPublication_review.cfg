\* A publication between whose two transactions others publish and restore.
CONSTANTS
    Snapshots = {"s1", "s2", "s3"}
    NoSnapshot = NoSnapshot
    Reviewers = {r1, r2}
    ReviewRequired <- MCReviewRequired
    MaxEvents = 4
SPECIFICATION PubSpec
SYMMETRY MCSymmetry
INVARIANT ReviewAcknowledged
CHECK_DEADLOCK FALSE
