\* The answers of the layers in front of the handler.
SPECIFICATION Spec
CONSTANTS
  Status <- MCStatus
  IdClass <- MCIdClass
  MaxTries = 4
INVARIANTS ErrorsAreProblems
\* An exchange is over once the client has its answer.
CHECK_DEADLOCK FALSE
