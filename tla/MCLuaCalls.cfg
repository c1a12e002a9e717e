SPECIFICATION Spec
CONSTANTS
  Main = Main
  Co1 = Co1
  Co2 = Co2
  Threads = {Main, Co1, Co2}
  MaxCCalls = 3
  Slack = 2
  BasicCI = 2
  MaxCalls = 4
  MaxCStack = 2
  MaxOpen = 1
  MaxFrames = 8
  Results = {1}
SYMMETRY Symmetry
INVARIANTS CStackBounded CountsRight FramesAccounted StatusIsTrue
PROPERTY PcallRestores
