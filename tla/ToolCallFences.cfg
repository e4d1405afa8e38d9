SPECIFICATION Spec
CONSTANTS
  t1 = t1
  t2 = t2
  t3 = t3
  t4 = t4
  mail = mail
  remote = remote
  invitation = invitation
  handoff = handoff
  rival = rival
  provider = provider
  Turn = {t1, t2, t3, t4}
  Call = {remote, rival, handoff, mail, invitation}
  Owner <- MCOwner
  Effect <- MCEffect
  Touches <- MCTouches
  Order <- MCOrder
  Scripts <- MCScripts
  LocalCall = {invitation}
  Client = {k1, k2}
  None = None
  MaxGeneration = 3
  LastGeneration <- MCLastGeneration
  MaxQuestions <- MCMaxQuestions
  MaxTakeovers = 1
  MaxLosses <- MCMaxLosses
SYMMETRY ClientSymmetry
INVARIANTS TypeOK HandlersExclude WaitingHasQuestion ApprovedBeforeEffect
PROPERTIES UnknownKeepsResource LateResultRecorded OneAnswerResumes ImplementsLife
CHECK_DEADLOCK FALSE
