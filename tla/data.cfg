\* Three pods, two objects that change at any moment, uploads that fail
\* unnoticed and a provider that restarts at any moment.
CONSTANTS
  podA = podA
  podB = podB
  podC = podC
  first = first
  second = second
  other = other
  hyphened = hyphened
  settings = settings
  secret = secret
  k1 = k1
  k2 = k2
  None = None
  Uid <- Pods
  Word <- Words
  NamespaceOf <- Namespaces
  UidOf <- Uids
  ContainersOf <- Containers
  Container <- ContainerSet
  ImageOf <- Images
  Volume <- Volumes_
  Mounts <- MountLists
  Source <- Sources
  Object <- ObjectNames
  File <- Keys
  Faults <- AllFaults
  MaxChange = 2
SYMMETRY KeySymmetry
SPECIFICATION Spec
INVARIANTS
  TypeOK
  BindsPrepared
  FilesAreOwn
PROPERTIES
  NeverOlder
