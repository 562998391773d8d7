SPECIFICATION SpecJusta
CONSTANTS
    MaxTimers = 3
    LOGOUT_TIME = 2
    VentanaDesde = 1
    VentanaHasta = 1
    Internet = {TRUE, FALSE}
    Apartable = TRUE
INVARIANTS Vigilada NuloSoloPorTarea SoloHuerfanos
PROPERTY InactivoSale
