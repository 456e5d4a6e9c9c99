\* An earlier datagram and one of 2100 others.  Nobody need send a third one:
\* the run ends in sys_net_recv.
SPECIFICATION Spec
CONSTANTS
  Cap = 16
  ReplyCap = 32
  MinReply = 16
  CidCap = 2
  Server <- TheServer
  Pool <- ThePool
  Net = 1
  Rounds = 2
  Earlier <- MCEarlier
  Datagrams <- MCDatagrams
CHECK_DEADLOCK FALSE
INVARIANT
  TypeOK
  RepliesMatchRequest
PROPERTY
  ParserCorrect
