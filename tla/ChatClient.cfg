SPECIFICATION WebSpec
CONSTANTS
  Looked = {"web"}
  c1 = c1
  c2 = c2
  c3 = c3
  w1 = w1
  w2 = w2
  Conversations <- TwoConversations
  None = None
  Earlier <- OneExchange
  MaxSends = 1
  MaxLoads = 2
  Refreshes = 2
  MaxSwitches = 2
  MaxPins = 1
  MaxFaults = 1
  Workspaces = {w1}
  Home <- TheHome
  Coding = {c1}
  MaxPlans = 2
  MaxTaps = 2
INVARIANTS
  ThreadIsSound
PROPERTIES
  ThreadOnlyGrows
  ThreadSettles
CHECK_DEADLOCK FALSE
