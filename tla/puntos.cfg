SPECIFICATION SpecJusta
CONSTANT MaxAcumulaciones = 3
INVARIANTS
    UnSoloPendiente
    PuntosCubiertos
    RegistroVigente
PROPERTY PuntosSeResuelven
