SPECIFICATION FairSpec
CONSTANTS
  ByteNum = 10
  MESSAGE_START = 4
  TOKEN = 2
  MESSAGE_END = 3
  Crc <- MCCrc
  Message <- MCToken
  RxBufSize = 2
  MaxLost = 3
PROPERTY Resynchronises
