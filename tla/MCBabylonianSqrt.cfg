CONSTANT Inputs <- MCInputs
SPECIFICATION Spec
INVARIANT ReturnsSqrt
PROPERTY Terminates
CHECK_DEADLOCK FALSE
