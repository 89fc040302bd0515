SPECIFICATION Spec
CONSTANTS
    W = 6
    Operands <- MCOperands
PROPERTIES
    ImplementsNumbers
