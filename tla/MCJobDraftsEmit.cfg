SPECIFICATION Spec
CONSTANTS
  d1 = d1
  d2 = d2
  supply = supply
  issue = issue
  Drafts = {d1}
  JobTypes = {supply, issue}
  DraftType <- MCDraftType
  AutoApproved <- MCAutoApproved
  Payloads = {good, bad}
  ValidPayloads = {good}
  Emitters = {e1, e2}
  Reviewers = {r1}
  Watchers = {w1}
  None = None
  MaxEdits = 1
  MaxFaults = 0
PROPERTY ReviewStatusKept
CHECK_DEADLOCK FALSE
