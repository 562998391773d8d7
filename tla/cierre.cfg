SPECIFICATION Spec
CONSTANTS
    MaxVentas = 3
    MaxRecibo = 3
    ReciboInicial = 2
    LimiteConteo = 3
INVARIANTS
    CierreCuadra
    RegistroCoherente
    DirectorioPropio
PROPERTIES
    BorradoTrasEntrega
    SinDobleEntrega
