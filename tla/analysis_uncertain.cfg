\* An analysis whose provider fails once
CONSTANTS
  Analyzers = {"h1", "h2"}
  Texts = {"said"}
  Voices = {"anyone", "operator"}
  MaxRevisions = 1
  MaxAsks = 0
  MaxSelects = 0
  Stages = 2
  Tries = 3
  MaxTakes = 3
  MaxMishaps = 2
SPECIFICATION StagedSpec
INVARIANT UncertainNotRepeated
CHECK_DEADLOCK FALSE
