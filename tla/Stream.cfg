SPECIFICATION Spec
CONSTANTS
  MaxLine = 6
  MaxToolCalls = 2
  Protocols = {"openai", "anthropic", "responses"}
  Forms = {"crlf", "split"}
  Histories <- SmallHistories
  MaxEvents <- EventBound
  MaxNoise = 1
  MaxCalls = 2
CHECK_DEADLOCK FALSE
INVARIANTS
  EndsOnce
  Assembled
  HonestError
  BodyFaithful
