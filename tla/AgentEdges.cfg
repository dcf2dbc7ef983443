SPECIFICATION Spec
CONSTANTS
  ok = ok
  off = off
  gone = gone
  ada = ada
  bob = bob
  none = none
  note = note
  Secrets = {s1, s2}
  Tools = {ok, off}
  Allowed = {ok, gone}
  CallLists <- MCCallLists
  MaxIterations = 2
  MaxTries = 2
  KeepsCreated = TRUE
  MaxPieces = 2
  Hires = {h1, h2, h3}
  Templates <- MCTemplates
  ByHand = {ada}
  Seeds = {1, 2}
  MaxMembers = 2
  Prompts = {old, new}
  Texts = {{"en"}, {"ru"}, {"en", "ru"}, {}}
  Latin = {"en"}
  Earlier <- MCEarlier
  Jobs = {1, 2}
  Limit = 1
  JobTries = 2
  Tasks = {t1, t2}
  Colleagues = {ada, bob}
  Files <- MCFiles
  MaxPicks = 2
  MaxPosts = 2
  Emojis = {thumb, heart}
  Clicks = {1, 2, 3}
  Loads = {1}
  MaxPolls = 2
  Listeners = {1, 2, 3}
  MaxPublished = 3
  Runs = {"r1", "r2"}
  Staff = {ada}
  AgentOf <- MCAgentOf
  ParentOf <- MCParentOf
  States = {"running"}
  Patches <- MCPatches
  Emoji = {up}
  RunLimits = {0, 1}
  ChatLimits = {2, 3}
  None = none
  Null = null
  MaxCount = 2
INVARIANT TraceOfAttempt MaskedOutsideOnly SettledCleanly HiresAddUp PanelFollows RecallEarned AttachedAsShown ReactionsSettle SeedRefreshes ListenersHear BurnAccounted
PROPERTY PrismaActsAsTested
CHECK_DEADLOCK FALSE
