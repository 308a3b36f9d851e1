SPECIFICATION Spec
CONSTANTS
    MaxGossip = 2
    MaxRequests = 2
    MaxOwn = 3
    MaxLate = 1
    MaxSyncs = 1
    OwnQueueSize = 2
    QueueSize = 1
INVARIANTS OwnVotesInOrder NothingLost
PROPERTIES OwnVotesTaken OwnVotesPublished IncomingTaken RequestsAnswered SyncRequestsGoOut
CHECK_DEADLOCK FALSE
