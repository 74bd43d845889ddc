SPECIFICATION FairSpec
CONSTANTS
  detail = detail
  list = list
  update = update
  create = create
  rival = rival
  other = other
  Queries = {list}
  Mutations = {create, rival}
  Others = {other}
  Affects <- Everywhere
  Targets <- Patched
  Settles <- EndsEverywhere
  Answers <- Merged
  Relevant = {create}
  Declining = {rival}
  Fenced = {}
  Watched = {list}
INVARIANTS
  Coherent
PROPERTIES
  Converges
CHECK_DEADLOCK FALSE
