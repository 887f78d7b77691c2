SPECIFICATION ClientSpec
CONSTANTS
  ClientUsers = {"u1", "u2"}
  ClientClosers = {"c1", "c2"}
INVARIANT ClientCloseIsFinal
CHECK_DEADLOCK FALSE
