SPECIFICATION Spec
CONSTANTS
    Size = 3
    IndexMod = 6
    Byte = {"a", "b"}
    Zero = "z"
PROPERTY FifoSpec
