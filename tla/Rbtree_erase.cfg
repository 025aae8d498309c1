SPECIFICATION SeqSpec
CONSTANTS
  Entries = {1, 2, 3, 4, 5, 6, 7, 8}
  KeyOf <- Keys
  Null = Null
  SlEntries = {2, 3, 4, 5, 8}
  MaxLevel = 3
  Heads = {h1, h2}
  Nodes = {n1, n2, n3}
  IrbSize = 3
  IrbItems = {p, q}
  IrbNone = IrbNone
  StepTables <- Tables
  StepMax = 3
  Owners = {o1, o2}
  Buffers = {1, 2, 3}
  Sizes = {1}
  FragSize = 2
  Inputs <- Text
  MaxBytes = 3
  Nothing = Nothing
  Junk = Junk
  Garbage = Garbage
  Word = 2
  Rules = {"low", "high", "ping"}
  ProtoOf <- RuleProto
  PortLo <- RuleLo
  PortHi <- RuleHi
  Protos = {"icmp", "tcp", "udp"}
  Ports = {1, 2, 3}
  Icmp = "icmp"
  V6Bits = 2
  Nil = Nil
  None = None
  Cidrs <- CidrSet
  Hosts = {13}
  MaxGrants = 3
  Packets <- PacketSet
  Cap = 4
  Modulus = 8
  Items = {v1, v2}
  LateLoad = FALSE
  Parts = {"rbtree"}
  RbAnyErase = TRUE
  PtAnyOrder = FALSE
INVARIANT
  RbShape
CHECK_DEADLOCK FALSE
