SPECIFICATION SpecJusta
CONSTANTS
    Usuarios = {ana}
    Nadie = nadie
    MaxPantallas = 3
    Completas = {TRUE}
    Permisos = {TRUE}
PROPERTY Responde
