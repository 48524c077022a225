\* Two platforms, five requirements of five scopes, two scenarios, two metrics.
SPECIFICATION Spec
CONSTANTS
  Text <- MCText
  Platform = {"linux", "web"}
  RequiredScenarios = {"install", "offline"}
  RequiredResources = {"startup", "memory"}
  Commit = {"c1", "c2"}
  Catalog <- MCCatalog
  Inputs <- MCInputs
CHECK_DEADLOCK FALSE
INVARIANT TypeOK
INVARIANT AcceptedConforms
INVARIANT RejectedForCause
INVARIANT CommitEnforced
INVARIANT FlagObeyed
PROPERTY Terminates
