SPECIFICATION Spec
CONSTANTS
  Sockets = {w1, w2, w3, w4}
  MaxLost = 3
INVARIANT PlaysOverLogin
 
CHECK_DEADLOCK FALSE
