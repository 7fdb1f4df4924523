SPECIFICATION Spec
CONSTANTS
    a = a
    b = b
    Others <- Nobody
PROPERTIES AcceptedMatchSucceeds
CHECK_DEADLOCK FALSE
