\* The parts of the yos command, one at a time.
SPECIFICATION MCSpec
CONSTANTS
  Generations = {v1, v2, v3}
  None = None
  Torn = Torn
  Versions <- MCVersions
  Code = Code
  SkillMd = SkillMd
  Files = {SkillMd, Code}
  Text <- MCText
  Missing = Missing
  Gone = Gone
  Stopped = Stopped
  MaxBackups = 2
  Commands = {p1, p2, p3}
  NoLock = NoLock
  MaxVersion = 3
  MaxKept = 1
  CoreServices = {s1}
  NoTransaction = NoTransaction
  Mixed = Mixed
  Lost = Lost
  NoSkills = NoSkills
INVARIANTS
  MergeSeesOnePair
  EndsWhole
  NoEditLost
  BaselineFitsFiles
  OneUpgradeAtATime
  AnswerIsTrue
  MixedIsRecoverable
PROPERTIES
  NothingGuessed
  ImplementsAtomic
CHECK_DEADLOCK FALSE
