SPECIFICATION Spec
CONSTANT None = None
INVARIANTS TypeOK UartExact EofExact ParsesMeaning 
PROPERTIES SyscallsExact CallsEnd OutputEnds
CHECK_DEADLOCK FALSE
