SPECIFICATION FairSpec
CONSTANTS
    Nobody = nobody
    Guests = {g1}
    Stranger = stranger
    MaxRequests = 2
    MaxDisturbances = 1
 
PROPERTIES OnlyTheirAnswerIsApproved ApprovedGuestsConnect
CHECK_DEADLOCK FALSE
