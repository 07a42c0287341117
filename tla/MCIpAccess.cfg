SPECIFICATION Spec
CONSTANTS
  Null = Null
  i1 = i1 i2 = i2 c1 = c1 c2 = c2 x = x stranger = stranger
  Instances = {i1, i2}
  Kinds = {"keystore", "memory", "static"}
  Stores = {"insert", "replace"}
  Callers = {c1, c2}
  Ips = {x}
  Clients = {x, stranger}
  InitialDeny = {}
SYMMETRY Symmetry
INVARIANTS TypeOK ListsAreCurrent
PROPERTY DeniedStaysDenied
