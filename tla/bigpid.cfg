\* A process id that does not fit the 16 bits of the echo id.
SPECIFICATION Spec
CONSTANTS
  a1 = a1  a2 = a2  a3 = a3  t1 = t1  t2 = t2  t3 = t3
  alias = alias  junk = junk  Null = Null
  Addrs <- MCAddrs
  Texts <- MCTexts
  Input = {t1}
  InetAddr <- MCInetAddr
  InetNtoa <- MCInetNtoa
  Answers <- OwnAddress
  Foreign <- OtherPackets
  Pid = 5  IdSpace = 4
  g_count = 2  MAX_COUNT = 3  Second = 2  IntLim = 1000
  g_wait = 1  g_send_delay = 1
  Verbose = FALSE
  Faults = {}
  Slack = 1  MaxArrivals = 2
INVARIANT AnswersAreOurs
