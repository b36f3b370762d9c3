\* Two clicks, two questions, two looks for each delivery.
CONSTANTS
  Clicks = {c1, c2}
  CLI = CLI
  Keyboard = Keyboard
  None = None
  Nobody = Nobody
  Gates = 2
  Polls = 2
SPECIFICATION Spec
INVARIANTS
  FreshAnswersOnly
  NoAnswerLeftBehind
PROPERTIES
  NoSpawnOverOwner
  EveryClickIsReported
