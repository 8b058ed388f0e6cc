\* Two runs of the script among others who edit, stage, commit and switch.
CONSTANTS
  MaxRuns = 2
  MaxEdits = 2
  MaxCommits = 4
  NoTree = NoTree
SPECIFICATION Spec
INVARIANTS
  PublishedAsValidated
  ReleaseWasPushed
PROPERTIES
  DryRunPublishesNothing
