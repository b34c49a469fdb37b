SPECIFICATION Spec
CONSTANTS
  Paths <- MCPaths
  Documents <- MCDocuments
  Amendments <- MCAmendments
  Contents = {0, 1}
  MaxCommits = 4
  Procs = {p1, p2}
  p1 = p1
  p2 = p2
  Stages = {"plan-review", "implementation", "implementation-review", "remediation", "governance-closeout", "governance-review", "push"}
  PromptStages = {"plan-review", "implementation"}
  Protected = {"b"}
  Engines = {"v1", "dirty"}
  Editable = TRUE
  Notes = {""}
  MaxHistory = 9
  Messages = {"m"}
  ReadsAtOnce = 5
  Posts <- MCPosts
  Tokens = {"t1"}
  Beginnings <- MCBeginnings
SYMMETRY Alike
INVARIANTS EvidenceIsOfACleanHead EventsRestOnRuns PassesAreTrue ProposalsAreTrue PromptsAreEarned MutationsAreMirrored
PROPERTIES KeepsHistory AppliesWhatWasVerified RecordsAgree
