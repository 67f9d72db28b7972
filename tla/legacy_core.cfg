CONSTANTS
  Fds = {f1, f2}
  None = None
  Absent = Absent
  Damaged = Damaged
SPECIFICATION FairSpec
INVARIANTS TypeOK InitializedOnDisk GivesUpOnlyOnFault ClientsAgree
PROPERTIES ChainLostOnlyOnDoubt LegacyLifeSpec CallsReturn
