SPECIFICATION FairSpec
CONSTANTS
  Main = Main
  Nobody = Nobody
  Worker = {w1, w2}
  Client = {c1, c2, c3}
  Rough = {c1}
  Prompt = {c2}
  Pending = 1
  MaxFailures = 1
INVARIANTS
  OneHolder
PROPERTIES
  HandledInOrder
  ClientsAreAnswered
CHECK_DEADLOCK FALSE
