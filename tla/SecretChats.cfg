SPECIFICATION FairSpec
CONSTANTS
  a1 = a1
  b1 = b1
  b2 = b2
  alice = alice
  bob = bob
  c1 = c1
  Chats = {c1}
  Devices = {a1, b1, b2}
  Users = {alice, bob}
  RandomIds = {1}
  Owner <- MCOwner
  Inviter <- MCInviter
  Invited <- MCInvited
  Readers = {a1, b1}
  None = None
  Page = 2
  MaxCalls = 4
  MaxRunning = 2
  MaxFaults = 1
CHECK_DEADLOCK FALSE
INVARIANTS
  TypeOK
  OnlyRepeatsLeak
  QueueExact

PROPERTIES
  BoundOnce
  EndIsTold
  RevokedIsEnded
  SentIsReceived
