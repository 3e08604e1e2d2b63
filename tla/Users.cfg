SPECIFICATION AllSpec
CONSTANTS
  w1 = w1
  w2 = w2
  w = w
  alice = alice
  bob = bob
  carol = carol
  e1 = e1
  e2 = e2
  a1 = a1
  a2 = a2
  t1 = t1
  c1 = c1
  b = b
  shared = shared
  shopA = shopA
  shopB = shopB
  mine = mine
  None = None
  User = {alice, bob}
  Conn = {a1, a2}
  UserOf <- Alices
  Web = {w1, w2}
  MaxId = 2
  Joining <- ThreeAccounts
  Sessions <- OneSession
  Tokens <- TwoTokens
  Starting <- ThreeConversations
  Sending <- OneMessage
  Muting <- OneSwitch
  Pushing <- OnePush
  Reading <- SixItems
  Searching <- FiveResults
SYMMETRY Alike
INVARIANTS
  ComponentTypes
  NothingMissed
  ConversationsHold
  NoticesHold
  ServedOnce
PROPERTIES
  AccountsHold
  StatusForward
CHECK_DEADLOCK FALSE
