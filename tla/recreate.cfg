\* Two pods of one name: each may be created once the other has left the API,
\* while the provider may still hold it.
CONSTANTS
  podA = podA
  podB = podB
  keyA = keyA
  initA = initA
  initB = initB
  mainA = mainA
  mainB = mainB
  instInitA = instInitA
  instInitB = instInitB
  instMainA = instMainA
  instMainB = instMainB
  None = None
  Uid <- TwoPods
  Key <- OneKey
  KeyOf <- SameName
  Container <- Pair
  Instance <- PairInst
  InstOf <- PairInstOf
  InitOf <- NoInits
  MainOf <- PairMain
  Code <- ExitCodes
  Faults <- SshFaults
  Requests <- ForceDeletes
  MaxEdit = 0
  MaxCrash = 0
SPECIFICATION Spec
INVARIANTS
  OnlyDeletionCancels
  ExitsAreReal
PROPERTIES
  ImplementsPodLife
