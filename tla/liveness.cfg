\* One pod, doors that die, jobs that are killed and ssh calls that fail, deleted
\* with or without grace at any moment or not at all.
CONSTANTS
  podA = podA
  podB = podB
  keyA = keyA
  initA = initA
  initB = initB
  mainA = mainA
  mainB = mainB
  instInitA = instInitA
  instInitB = instInitB
  instMainA = instMainA
  instMainB = instMainB
  None = None
  Uid <- OnePod
  Key <- OneKey
  KeyOf <- OneName
  Container <- InitMain
  Instance <- InitMainInst
  InstOf <- InitMainInstOf
  InitOf <- OneInit
  MainOf <- OneMain
  Code <- ExitCodes
  Faults <- LossFaults
  Requests <- Deletes
  MaxEdit = 0
  MaxCrash = 0
SPECIFICATION FairSpec
PROPERTIES
  FinishesUnlessLost
  DeletionCompletes
