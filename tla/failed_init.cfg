\* Expected violation: a failed init container counts as successful.
CONSTANTS
  podA = podA
  podB = podB
  keyA = keyA
  initA = initA
  initB = initB
  mainA = mainA
  mainB = mainB
  instInitA = instInitA
  instInitB = instInitB
  instMainA = instMainA
  instMainB = instMainB
  None = None
  Uid <- OnePod
  Key <- OneKey
  KeyOf <- OneName
  Container <- Inits
  Instance <- InitsInst
  InstOf <- InitsInstOf
  InitOf <- TwoInits
  MainOf <- OneMain
  Code <- ExitCodes
  Faults <- NoFaults
  Requests <- NoRequests
  MaxEdit = 0
  MaxCrash = 0
SPECIFICATION Spec
INVARIANTS
  FailedInitStopsPod
