\* Three applies, any of which may fail, and an operator who edits most files, kubespin's too.
CONSTANTS
  r1 = r1  r2 = r2  r3 = r3  p1 = p1  p2 = p2
  Runs = {r1, r2, r3}
  Profiles = {p1, p2}
  AppPaths <- SomeApps
  AppsOf <- SomeAppsOf
  Gone = Gone
  Edited = Edited
  PushRetries = 2
  EditPaths = {"CODEOWNERS", "config", "root", "apps/b"}
  MaxEdits = 2
  Stale = {"ref"}
SPECIFICATION Spec
INVARIANTS TypeOK HashesHonest
PROPERTIES AppliesBringInLine NoChangeNoCommit OthersChangesKept
