SPECIFICATION ImageModelsSpec
CONSTANTS
  ImageModelIds = {m1}
  Addresses = {x1}
  Sizes = {s1, s2}
  DefaultSizes = {s1}
  Feasible = {s2}
  Proposals = {}
  Tests = {x1}
  Kinds = {"text", "whole"}
  ImageJobIds = {x1}
  MaxSaves = 1
INVARIANTS LegacyRuns
CHECK_DEADLOCK FALSE
