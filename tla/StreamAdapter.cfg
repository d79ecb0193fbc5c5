SPECIFICATION Spec
CONSTANTS
  APIs = {"completions", "responses", "anthropic", "gemini"}
  MaxCalls = 3
  Parts = 2
  MaxTexts = 2
  Usages = {1}
INVARIANTS CallsHandedOver AnswerRelayed
CHECK_DEADLOCK FALSE
