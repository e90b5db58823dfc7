SPECIFICATION Spec
CONSTANTS
  Calls <- MCCalls
  s1 = s1
  s2 = s2
  j3 = j3
  j4 = j4
  Hosts <- MCHosts
  Creds <- MCCreds
  MaxCache = 1
  None = None
  Jtis <- MCJtis
  Sub <- MCSub
  Wishes <- MCWishes
  h = h
  alice = alice
  bob = bob
  j1 = j1
  j2 = j2
INVARIANTS TypeOK AnswersOwnRequest
PROPERTIES SessionsEnd ImplementsService
CHECK_DEADLOCK FALSE
