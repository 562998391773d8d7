SPECIFICATION Spec
CONSTANTS
    Usuarios = {ana, beto}
    Nadie = nadie
    MaxPantallas = 3
    Completas = {TRUE, FALSE}
    Permisos = {TRUE, FALSE}
SYMMETRY Simetria
INVARIANTS TypeOK UnaCadena NuloSoloPorRelevo SesionDeUnUsuario
