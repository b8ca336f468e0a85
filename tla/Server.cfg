SPECIFICATION Spec
CONSTANTS
  message = message
  prompt = prompt
  retry = retry
  NoEvent = NoEvent
  Events <- MCEvents
  Messages = {message}
  Prompts = {prompt}
  Firings = {retry}
  Retries = {retry}
  MaxAttempts = 2
  Turns = 2
  MaxStops = 1
INVARIANTS TypeOK Accounted Repeats Leftover
PROPERTIES Replied Fires ImplementsDialogue
CHECK_DEADLOCK FALSE
