\* One workspace, dsh or a product on ECI, two requests, and a reaper
\* that goes on.
CONSTANTS
  w = w
  Keys = {w}
  Products <- MCBoth
  Requests = {1, 2}
  Cap = 1
  Grace = 1
  IdleStop = 1
  AgentIdle = 1
  Window = 2
  MaxLeft = 1
SPECIFICATION FairSpec
INVARIANTS TypeOK OneInstance
PROPERTIES AskedInSilence AbandonedIsReclaimed
