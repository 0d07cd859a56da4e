\* Three requests that may overlap and die at any await, every payload and form.
CONSTANTS
  Task = {t1, t2, t3}
  NoRecord = NoRecord
  Payload <- MCPayload
  Form <- MCForm
SPECIFICATION FairSpec
INVARIANTS TypeOK ResolvedWasPosted RepliesWerePersisted SerialOnePost LastCallStands
PROPERTIES SerialForward DecisionLands
\* Each task is one request, so the system stops when all are answered.
CHECK_DEADLOCK FALSE
