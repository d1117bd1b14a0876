\* Two sources, one or two archives, every combination of the options.
SPECIFICATION Spec
CONSTANTS
  s1 = s1
  s2 = s2
  Sources <- AllSources
  Empty <- OneEmpty
  Runs <- AllRuns
INVARIANT DataSurvives
INVARIANT Tidy
