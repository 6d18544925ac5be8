\* Up to three options with numbers at and beyond their limits, or a file of up to 7
\* characters read through a buffer of 4, or a packet of up to six bytes of two bits.
SPECIFICATION Spec
CONSTANTS
  Numbers = {0, 1, 5, 6}
  MaxOptions = 3
  MAX_COUNT = 5  DEF_COUNT = 3  DEF_WAIT = 5  DEF_SEND_DELAY = 3
  BufSize = 4  MaxLength = 7
  ByteBits = 2  MaxPacket = 6
INVARIANTS OptionsTaken LinesTaken ReceiverAccepts
CHECK_DEADLOCK FALSE
