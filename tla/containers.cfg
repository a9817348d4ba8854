\* One pod with an init container and two main ones of one image, every fault of the
\* remote side, nobody edits or deletes it.
CONSTANTS
  podA = podA
  podB = podB
  keyA = keyA
  initA = initA
  initB = initB
  mainA = mainA
  mainB = mainB
  instInitA = instInitA
  instInitB = instInitB
  instMainA = instMainA
  instMainB = instMainB
  None = None
  Uid <- OnePod
  Key <- OneKey
  KeyOf <- OneName
  Container <- InitMains
  Instance <- InitMainsInst
  InstOf <- InitMainsInstOf
  InitOf <- OneInit
  MainOf <- TwoMains
  Code <- ExitCodes
  Faults <- RemoteFaults
  Requests <- NoRequests
  MaxEdit = 0
  MaxCrash = 0
SPECIFICATION Spec
INVARIANTS
  TypeOK
  SuccessIsEarned
  FailureHasCause
PROPERTIES
  TerminatedStays
  ImplementsPodLife
