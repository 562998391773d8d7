SPECIFICATION Spec
CONSTANTS
    MaxOperaciones = 3
    MaxPulsaciones = 2
INVARIANTS
    DatosPropios
    ImporteConfirmado
CHECK_DEADLOCK FALSE
