SPECIFICATION Spec
CONSTANTS
    Byte = {0, 1}
    size = 4
    MaxLen = 6
PROPERTIES
    Implements
