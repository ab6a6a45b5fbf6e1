SPECIFICATION UnitSpec
CONSTANTS
    Units = {u1, u2}
    Codes = {c1, c2}
    Clerks = {r1, r2}
SYMMETRY UnitSymmetry
INVARIANTS UnitTypeOK UniqueCodes
PROPERTIES UpToDateIsLawful
