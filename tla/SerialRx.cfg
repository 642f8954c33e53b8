CONSTANTS
    Size = 5
    Byte <- const_Byte
    Zero = 0
    Backlog = 3
SPECIFICATION Spec
INVARIANTS
    ReadableIffUnread
PROPERTIES
    FifoSpec
