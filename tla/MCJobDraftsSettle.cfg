SPECIFICATION Spec
CONSTANTS
  d1 = d1
  d2 = d2
  supply = supply
  issue = issue
  Drafts = {d1, d2}
  JobTypes = {supply, issue}
  DraftType <- MCDraftType
  AutoApproved <- MCAutoApproved
  Payloads = {good, bad}
  ValidPayloads = {good}
  Emitters = {e1}
  Reviewers = {r1}
  Watchers = {w1, w2}
  None = None
  MaxEdits = 0
  MaxFaults = 1
PROPERTIES ApprovalSettles
CHECK_DEADLOCK FALSE
