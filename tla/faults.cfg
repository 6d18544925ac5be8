\* One host, two rounds; every call may fail, another program uses our id.
SPECIFICATION Spec
CONSTANTS
  a1 = a1  a2 = a2  a3 = a3  t1 = t1  t2 = t2  t3 = t3
  alias = alias  junk = junk  Null = Null
  Addrs <- MCAddrs
  Texts <- MCTexts
  Input = {t1, junk}
  InetAddr <- MCInetAddr
  InetNtoa <- MCInetNtoa
  Answers <- OwnAddress
  Foreign <- Noise
  Pid = 3  IdSpace = 4
  g_count = 2  MAX_COUNT = 3  Second = 2  IntLim = 1000
  g_wait = 1  g_send_delay = 0
  Verbose = FALSE
  Faults <- FaultKinds
  Slack = 3  MaxArrivals = 1
INVARIANTS FailureIsContained InBounds
PROPERTIES Termination
