\* One child that is killed.
CONSTANTS
  record_num = 2
  Asked = 2
  Freqs = {1, 2}
  PipeSize = 1
  MaxLost = 1

SPECIFICATION PSortSpec

INVARIANTS
  AbnormalNoticed
