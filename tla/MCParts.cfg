SPECIFICATION AllSpec
CONSTANTS
  web = web
  db = db
  aux = aux
  repo = repo
  retest = retest
  other = other
  Service = {web, db, aux}
  NoService = none
  Target = {repo, retest}
  Upload = {retest}
  Private = {repo}
  RepoOf <- MCRepoOf
  Word = {repo, other}
  SlugOf <- MCSlugOf
  Proposals <- MCProposals
  Build = {1, 2, 3, 4}
  MaxAttempts = 2
  MaxRegisters = 2
  Worlds <- MCWorlds
  Recipes <- MCRecipes
  Lateness = 2
  Cancels = 1
  ProbeCall = {p1, p2}
  Reruns = 2
  Sender = {s1, s2}
  Revisions = 2
  Advisories = 3
  MaxSends = 2
  Stalls = 1
  Deaths = 1
  OwnerMoves = 1
  c1 = c1
  s1 = s1
  g1 = g1
  g2 = g2
  w1 = w1
  w2 = w2
  f1 = f1
  Connector = {c1}
  Skill = {s1}
  Agent = {g1, g2}
  Managed = g1
  Applier = {w1, w2}
  Editor = {f1}
  Keys = 2
  h1 = h1
  h2 = h2
  a1 = a1
  a2 = a2
  o1 = o1
  r1 = r1
  Item = {"m1", "m2", "m3", "m4", "m5", "m6", "u1", "u2", "u3", "u4"}
  Sent <- Post
  Handler = {h1, h2}
  Exempt <- FreeMail
  AddressCap = 2
  IntakeWorlds <- IntakeSettings
  Applicant = {a1, a2}
  Owner = {o1}
  Member = {r1}
  Address = {"x", "y"}
  PerAddress = 2
  MaxCodes = 2
  MaxTries = 1
  AppealWorlds <- AppealSettings
  n1 = n1
  n2 = n2
  tc1 = tc1
  tc2 = tc2
  Runs = 2
  Reviewing = {n1, n2}
  ToolCall = {tc1, tc2}
  ReviewFaults = 2
CHECK_DEADLOCK FALSE
INVARIANTS TrialsAreSound ProbesAreContained AdvisoriesAreSound SettingsHold OutsideIsBounded
PROPERTIES ImagesAreSound ReviewIsClosed
