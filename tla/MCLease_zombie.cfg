CONSTANTS
    Processes = {p1, p2}
    Nobody = Nobody
    Gone = Gone
SPECIFICATION FairSpec
PROPERTY StreamerReturns
