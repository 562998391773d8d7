SPECIFICATION Spec
CONSTANTS
    MaxPantallas = 2
    MaxIntentos = 4
    Ofrecidas = {"empaquetada"}
INVARIANTS
    UnIntercambio
    SinDobleCobro
    TramaPropia
