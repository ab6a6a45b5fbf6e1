SPECIFICATION DeskSpec
CONSTANTS
    Units = {u1}
    Codes = {c1}
    Clerks = {r1, r2}
PROPERTIES RentsAvailable
