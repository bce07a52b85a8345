SPECIFICATION GateFairSpec
CONSTANTS
  Lines = {"notice", "starttls", "other", "malformed"}
  MaxLines = 2
  MaxSend = 1
INVARIANTS SentSecurely OnlySecureApplied
PROPERTIES FinalEventLast AbortReported EventGrammar
CHECK_DEADLOCK FALSE
