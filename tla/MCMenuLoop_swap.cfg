SPECIFICATION Spec
CONSTANTS
  Cards = {c1, c2}
  NoCard = NoCard
  ClickTime = 1
  OffTime = 2
  AutobootTime = 2
INVARIANT MountedIsLoaded
