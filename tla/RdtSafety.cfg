CONSTANTS
    SizeofInt = 1
    MAX_PAYLOAD_SIZE = 2
    MessageSizes = {1, 3}
    MaxMsgs = 3
    LinkCap = 2
    MAX_BUFFER_SIZE = 2
    MAX_WINDOW_SIZE = 2
    WINDOWS_SIZE = 2
    MaxBacklog = 2
SPECIFICATION Spec
INVARIANTS TypeOK DeliveredPrefix WindowIntact TimerCovers AckSound InBounds ConstructProgress Verdict IndInv
PROPERTY ChannelSpec
