CONSTANT MaxFaults = 1
SPECIFICATION Spec
PROPERTY FaultTerminates
CHECK_DEADLOCK FALSE
