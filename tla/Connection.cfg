CONSTANTS
    Conns <- MCConns
    Channels <- MCChannels
    Setups <- MCSetups
    MaxScript = 4
SPECIFICATION FairSpec
INVARIANTS
    AnswersMatchRequests
    NothingUnauthenticated
    LogIsInOrder
    ReceiverStaysRegistered
    MatchIsGlob
PROPERTIES
    RequestsAreAnswered
CHECK_DEADLOCK FALSE
