SPECIFICATION SpecJusta
CONSTANTS
    MaxPantallas = 2
    MaxIntentos = 2
    Ofrecidas = {"registrada", "empaquetada", "sinTrama", "conTarjeta", "consulta"}
INVARIANTS
    ExitoFiel
PROPERTIES
    CargadorCierra
