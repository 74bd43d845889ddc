SPECIFICATION Spec
CONSTANTS
  detail = detail
  list = list
  update = update
  create = create
  rival = rival
  other = other
  Queries = {list}
  Mutations = {create, rival}
  Others = {other}
  Affects <- Everywhere
  Targets <- Patched
  Settles <- EndsEverywhere
  Answers <- Merged
  Relevant = {create}
  Declining = {}
  Fenced = {list}
  Watched = {}
INVARIANTS
  TypeOK
  LedgerHolds
CHECK_DEADLOCK FALSE
