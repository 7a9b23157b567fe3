SPECIFICATION Spec
CONSTANTS
    revenue = revenue
    ann = ann  bob = bob  vera = vera
    r1 = r1  r2 = r2
    Metrics = {revenue}
    Actors = {ann, bob, vera}
    RoleOf <- AnalystsAndViewer
    Decisions = {"accepted", "rejected"}
    Requests = {r1, r2}
    MaxTime = 1
    MaxReviews = 2
PROPERTY
    ReviewsAppendOnly
