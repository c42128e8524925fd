\* Two servers append the same text under two keys and more, one reader pages.
SPECIFICATION Spec
CONSTANTS
  r1 = r1
  r2 = r2
  r3 = r3
  r4 = r4
  t1 = t1
  Requests = {r1, r2, r3, r4}
  Ask <- MCAsk
  Servers = {s1, s2}
  Readers = {c1}
  NoText = NoText
  NoRequest = NoRequest
  Profiles <- MCProfiles
  Aliases <- MCAliases
  Asked <- MCAsked
  Migrated = {TRUE, FALSE}
  Usual = 5
  Requested = {0, 1}
  MaxCalls = 3
INVARIANT ReplayIsComplete
PROPERTY PagesFollowReference
SYMMETRY ServersAlike
CHECK_DEADLOCK FALSE
