CONSTANTS
  alice = alice
  bob = bob
  carol = carol
  ZeroHash = ZeroHash
  ZeroAddress = ZeroAddress
  Hashes = {h1, h2, h3, h4}
  Addresses = {alice, bob, carol}
  Signed <- MCSigned
SPECIFICATION RegistrySpec
INVARIANTS RecordsOK Consented LineageSound
PROPERTY RecordsOnlyClose
CHECK_DEADLOCK FALSE
