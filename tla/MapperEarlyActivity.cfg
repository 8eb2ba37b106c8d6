SPECIFICATION Spec
CONSTANTS
  Sessions = {"ses_1", "ses_2"}
  Target = "ses_1"
  Statuses = {"busy", "idle", "retry"}
  Texts <- MCTexts
  MaxWritten = 5
INVARIANT CompletesAfterActivity
CHECK_DEADLOCK FALSE
