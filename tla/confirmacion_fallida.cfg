SPECIFICATION Spec
CONSTANTS
    MaxPantallas = 1
    MaxIntentos = 2
    Ofrecidas = {"empaquetada"}
INVARIANTS
    FallidaFiel
