SPECIFICATION FairSpec
CONSTANTS
  Users <- MCUsers
  Names <- MCNames
  Addresses <- MCAddresses
  MaxBackends = 3
  MaxDirs = 2
INVARIANT TypeOK
INVARIANT ProvenOnly
INVARIANT RailIsVault
INVARIANT RegistryConsistent
PROPERTY AddingEnds
