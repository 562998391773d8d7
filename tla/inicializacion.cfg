SPECIFICATION Spec
CONSTANTS
    MaxDescargas = 3
    MaxCaidas = 1
    Terminales = {t1, t2}
    Contenidos = {{"uno", "cuatro", "par"}, {"uno", "cuatro", "extra", "par", "nombrada"}}
SYMMETRY Simetria
INVARIANTS
    TypeOK
    
    NumeroDeLasTablas
    AjustesDeLasTablas
    
