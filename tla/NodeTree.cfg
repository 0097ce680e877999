SPECIFICATION Spec
CONSTANT MaxNodes = 5
INVARIANTS Linked Indexed Acyclic
