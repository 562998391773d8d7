SPECIFICATION SpecInsistente
CONSTANTS
    MaxTrazas = 3
    Canal = "tcp"
    MAX_INTENTOS_VENTA = 2
INVARIANTS
    IInv
PROPERTIES
    OperacionTermina
    PendienteSeResuelve
