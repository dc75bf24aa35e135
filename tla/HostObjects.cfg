CONSTANTS
    Objects = {o1, o2}
    Indices = {i1, i2, i3, i4}
    Userdata = {u1, u2, u3}
    MaxLost = 1
    None = None
SPECIFICATION Spec
INVARIANTS OneUserdataPerObject LeadsToItsObject NoSlotLeaks
