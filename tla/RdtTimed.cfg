CONSTANTS
    SizeofInt = 1
    MAX_PAYLOAD_SIZE = 2
    MessageSizes = {1, 2}
    MaxMsgs = 2
    LinkCap = 100
    MAX_BUFFER_SIZE = 2
    MAX_WINDOW_SIZE = 2
    WINDOWS_SIZE = 2
    MaxBacklog = 2
    pkt_latency = 1
    TIMEOUT = 3
    CommandLines <- MCCommandLines
SPECIFICATION FairSpec
INVARIANTS ChainAgrees NoSpuriousTimeout
PROPERTY Termination
