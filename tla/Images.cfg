SPECIFICATION Spec
CONSTANTS
  Malformed = Malformed
  None = None
  Unread = Unread
  Modules <- MCModules
  OnDisk <- MCOnDisk
  DiskStates = {"original", "deleted"}
  Word = 65536
  MaxChainSteps = 6
  MaxDyn = 14
  MaxRelocs = 4
  MaxVer = 3
  HostMachine = "amd64"
  MaxDescriptors = 4
  MaxThunks = 4
  Winsock <- MCWinsock
INVARIANTS
  SlotsPatchable
  SignedRefused
  ListsTheLinks
  PrimaryKept
PROPERTY
  StableListing
