\* Pods of one or two containers, with and without the objects and services
\* they refer to, and every order of the lister; strings of up to 8 bytes over
\* the syntax of references and of up to 7 over that of paths; containers with
\* up to two of everything; files that configure the node, another one or both.
CONSTANTS
  Pods <- SmallPods
  Stores <- SmallStores
  Clusters <- SmallClusters
  Fields <- SomeFields
  Digit <- OneByte
  Alphabets <- SmallAlphabets
  MaxLen <- SmallLen
  MaxList = 2
  Assigned <- SomeAssigned
  Mounted <- SomeMounted
  Spoken <- SomeSpoken
  Images <- SomeImages
  Contents <- SmallContents
  Quantity <- SomeQuantities
SPECIFICATION MCSpec
INVARIANTS
  TypeOK
  PopulatedAsDeclared
  StopsAtFirstBroken
  EventsTellSkips
  ServicesInAnyOrder
  ExpandsTokens
  EscapeProtects
  UnknownIsKept
  KeysTellPods
  ImagesNameFiles
  CommandArrives
  CapacityAsConfigured
CHECK_DEADLOCK FALSE
