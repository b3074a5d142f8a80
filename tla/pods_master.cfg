CONSTANT Files = {f1, f2}
SPECIFICATION Spec
CHECK_DEADLOCK FALSE
PROPERTY MasterKept
