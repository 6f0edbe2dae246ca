CONSTANTS
    BufferSize = 4
    Clients = {c1, c2}
    MaxData = 1
    DataBytes = {7, 8}
    Noise = {}
    Messages <- MCMessages
    Split = TRUE
    Nobody = Nobody
    NoFrame = NoFrame
SPECIFICATION Spec
INVARIANT MessagesDoNotMix
