SPECIFICATION ServingSpec
CONSTANTS
  Submitters = {q1, q2}
  Worker = w
  Callers = {q1, q2, w}
  Urls <- MCUrls
  Names = {n1}
  Default = Default
  Nobody = Nobody
  LocalEnabled = TRUE
  RemoteTimeout = 1
  CloneTimeout = 2
  LocalTimeout = 1
  Keys = {details, list}
  NoAnswer = NoAnswer
  MaxChanges = 7
  MaxMoves = 1
INVARIANTS
  RegistrationTypeOK
  OneRegistrationPerRepository
  DefaultProjectIsWanted
  OutcomeIsTrue
  WebTypeOK
  ShownIsFresh
  ProgressIsPolled
PROPERTIES
  AnswersAreTrue
  EveryRequestAnswered
  EveryOperationEnds
  ShownNeverGoesBack
  PageSettles
CHECK_DEADLOCK FALSE
