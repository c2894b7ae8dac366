CONSTANT Methods <- MCMethods
SPECIFICATION Spec
INVARIANTS TypeOK SimpleMethodsKeepMeaning
CHECK_DEADLOCK FALSE
