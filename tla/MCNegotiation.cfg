CONSTANT MaxParts = 3
SPECIFICATION Spec
INVARIANTS TypeOK AcceptedIsAcceptable RefusalsJustified
CHECK_DEADLOCK FALSE
