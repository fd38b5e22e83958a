SPECIFICATION Spec
CONSTANT Programs <- SharedStruct
INVARIANT RecursiveIsRecursive
CHECK_DEADLOCK FALSE
