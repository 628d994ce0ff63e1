CONSTANTS
    SizeofInt = 1
    MAX_PAYLOAD_SIZE = 2
    MessageSizes = {1, 3}
    MaxMsgs = 3
    LinkCap = 2
    MAX_BUFFER_SIZE = 2
    MAX_WINDOW_SIZE = 1
    WINDOWS_SIZE = 1
    MaxBacklog = 3
SPECIFICATION Spec
INVARIANT BufferRetainsUnprocessed
