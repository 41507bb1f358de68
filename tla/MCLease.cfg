CONSTANTS
    Processes = {p1, p2, p3}
    Nobody = Nobody
    Gone = Gone
SPECIFICATION FairSpec
INVARIANTS TypeOK OneHealthyStreamer
PROPERTIES FreshLeaseIsRespected UsurpedStreamerStops LeaseRecovers
