SPECIFICATION OverlaySpec
CONSTANTS
  Key = {k1, k2, k3}
  Value = {v1, v2}
  Nothing = Nothing
  Deleted = Deleted
PROPERTIES
  ImplementsContract
