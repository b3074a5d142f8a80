\* dsh alone, with an idle limit longer than the grace of a closed tab.
CONSTANTS
  w = w
  Keys = {w}
  Products <- MCDsh
  Requests = {1}
  Cap = 1
  Grace = 1
  IdleStop = 2
  AgentIdle = 1
  Window = 2
  MaxLeft = 1
SPECIFICATION Spec
PROPERTY TrafficTakesItDown
