SPECIFICATION FairSpec
CONSTANTS
  SeqMod = 5
  KeyMod = 3
  Methods = {"gen", "gex"}
  MaxData = 5
INVARIANTS
  NeverFails
  OnlyKexInKex
  AtRest
PROPERTIES
  KexCompletes
  ImplementsStream
CHECK_DEADLOCK FALSE
