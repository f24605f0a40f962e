SPECIFICATION Spec
CONSTANTS
  None = None
  AlertPlugins = {w1, w2}
  DeployPlugins = {d1}
  Fields = {f1}
  Values = {}
  Keys = {k1}
  Requests = {r1}
  Alerts = {a1}
  Ops <- FanoutOps
INVARIANTS
  FanOutComplete
PROPERTIES
  DeliversOnce
  DeliveryEnds
