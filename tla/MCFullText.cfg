CONSTANTS
    r1 = r1
    r2 = r2
    r3 = r3
    a = a
    b = b
    Indexed = "facts"
    Rows = {r1, r2, r3}
    Words = {a, b}
    MaxRowid = 4
SPECIFICATION Spec
PROPERTIES
    IndexIsExact
