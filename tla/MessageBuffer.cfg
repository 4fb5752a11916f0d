SPECIFICATION Spec
CONSTANTS
    a = a
    b = b
    c = c
    Bytes <- MCBytes
    Messages <- MCMessages
    BufferSize = 4
    MaxRead = 5
PROPERTIES
    ImplementsByteStream
