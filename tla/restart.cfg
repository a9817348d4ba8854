\* One pod, and one death and restart of the provider at any moment.
CONSTANTS
  podA = podA
  podB = podB
  keyA = keyA
  initA = initA
  initB = initB
  mainA = mainA
  mainB = mainB
  instInitA = instInitA
  instInitB = instInitB
  instMainA = instMainA
  instMainB = instMainB
  None = None
  Uid <- OnePod
  Key <- OneKey
  KeyOf <- OneName
  Container <- InitMain
  Instance <- InitMainInst
  InstOf <- InitMainInstOf
  InitOf <- OneInit
  MainOf <- OneMain
  Code <- ExitCodes
  Faults <- RestartFaults
  Requests <- NoRequests
  MaxEdit = 0
  MaxCrash = 1
SPECIFICATION Spec
INVARIANTS
  MainAfterInit
  SubmitsBounded
PROPERTIES
  ImplementsPodLife
