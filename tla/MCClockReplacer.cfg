CONSTANT NumPages = 4
SPECIFICATION FairSpec
INVARIANT SizeCountsFrames
PROPERTIES SweepFollowsPolicy VictimReturns ImplementsReplacer
