CONSTANT MaxFaults = 1
SPECIFICATION Spec
INVARIANT ThreadContract
