SPECIFICATION Spec
CONSTANTS
  Sessions = {"ses_1", "ses_2"}
  Target = "ses_1"
  Statuses = {"busy", "idle", "retry"}
  Texts <- MCTexts
  MaxWritten = 5
INVARIANTS MapperTypeOK OthersDoNotInterfere ProgressIsBounded ReadyWhenActive
CHECK_DEADLOCK FALSE
