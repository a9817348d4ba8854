\* One pod, edited once at any moment, every fault of the remote side.
CONSTANTS
  podA = podA
  podB = podB
  keyA = keyA
  initA = initA
  initB = initB
  mainA = mainA
  mainB = mainB
  instInitA = instInitA
  instInitB = instInitB
  instMainA = instMainA
  instMainB = instMainB
  None = None
  Uid <- OnePod
  Key <- OneKey
  KeyOf <- OneName
  Container <- InitMain
  Instance <- InitMainInst
  InstOf <- InitMainInstOf
  InitOf <- OneInit
  MainOf <- OneMain
  Code <- ExitCodes
  Faults <- RemoteFaults
  Requests <- Edits
  MaxEdit = 1
  MaxCrash = 0
SPECIFICATION FairSpec
INVARIANTS
  PollNeverPanics
  NotifiedIsCurrent
PROPERTIES
  EditsArrive
