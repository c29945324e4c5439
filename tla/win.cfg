SPECIFICATION Spec
CONSTANTS
    Infos = {1}
    Names = {"a", "b"}
    Bufs <- Bytes
    MaxLink = 1
    Confs <- Instances
INVARIANTS
  SameTree
PROPERTIES
  PagingKeepsSize
