\* Every call, every failure on its way, with the four attempts of the code.
SPECIFICATION Spec
CONSTANTS
  Status <- MCStatus
  IdClass <- MCIdClass
  MaxTries = 4
INVARIANTS ClientFaultIsPermanent ClientFaultIsWarning BacksOff HandledAsCalled Understood
  RefusedMeansUntouched
\* An exchange is over once the client has its answer.
CHECK_DEADLOCK FALSE
