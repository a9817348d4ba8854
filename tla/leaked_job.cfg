\* Expected violation: a job outlives the deletion of its pod.
CONSTANTS
  podA = podA
  podB = podB
  keyA = keyA
  initA = initA
  initB = initB
  mainA = mainA
  mainB = mainB
  instInitA = instInitA
  instInitB = instInitB
  instMainA = instMainA
  instMainB = instMainB
  None = None
  Uid <- OnePod
  Key <- OneKey
  KeyOf <- OneName
  Container <- InitMain
  Instance <- InitMainInst
  InstOf <- InitMainInstOf
  InitOf <- OneInit
  MainOf <- OneMain
  Code <- ExitCodes
  Faults <- NoFaults
  Requests <- Deletes
  MaxEdit = 0
  MaxCrash = 0
SPECIFICATION Spec
INVARIANTS
  NoJobAfterDelete
