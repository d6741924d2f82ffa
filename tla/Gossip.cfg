SPECIFICATION FairSpec
CONSTANTS
  Peers = {1, 2, 3}
  Networks = {1, 2, 3, 4}
  Known <- MCKnown
  Ip <- MCIp
  Seeds <- MCSeeds
  Parseable = {3}
  Slots <- MCSlots
  MaxEvents = 1
  MaxUpsets = 1
INVARIANTS
  GossipInv
  NoMutualDebt
  RecordCoversWire
PROPERTIES
  Converges
