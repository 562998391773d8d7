SPECIFICATION Spec
CONSTANTS
    MaxTrazas = 3
    Canal = "tls"
    MAX_INTENTOS_VENTA = 2
INVARIANTS
    UnSoloReverso
    Cubierta
    JournalVigente
    ReversoAntesDeEnviar
    UnaSolaAnulacion
PROPERTIES
    NoDobleCargo
    ImplementaCobro
