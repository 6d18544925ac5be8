\* One round; a host given in another spelling than inet_ntoa's beside a regular one;
\* duplicated and late answers, no timers in the way, an int that is short.
SPECIFICATION Spec
CONSTANTS
  a1 = a1  a2 = a2  a3 = a3  t1 = t1  t2 = t2  t3 = t3
  alias = alias  junk = junk  Null = Null
  Addrs <- MCAddrs
  Texts <- MCTexts
  Input = {t2, alias, junk}
  InetAddr <- MCInetAddr
  InetNtoa <- MCInetNtoa
  Answers <- Multihomed
  Foreign <- OtherPackets
  Pid = 3  IdSpace = 4
  g_count = 1  MAX_COUNT = 3  Second = 2  IntLim = 2
  g_wait = 0  g_send_delay = 0
  Verbose = TRUE
  Faults = {}
  Slack = 2  MaxArrivals = 2
INVARIANTS PoolOutlivesUse OtherSpellingUnanswered
PROPERTIES DeadIsJustified
