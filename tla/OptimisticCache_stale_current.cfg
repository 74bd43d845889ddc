SPECIFICATION Spec
CONSTANTS
  detail = detail
  list = list
  update = update
  create = create
  rival = rival
  other = other
  Queries = {list}
  Mutations = {create}
  Others = {other}
  Affects <- Everywhere
  Targets <- Patched
  Settles <- EndsEverywhere
  Answers <- Merged
  Relevant = {create}
  Declining = {}
  Fenced = {list}
  Watched = {}
INVARIANTS
  NothingStaleAsCurrent
CHECK_DEADLOCK FALSE
