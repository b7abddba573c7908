SPECIFICATION Spec
CONSTANTS
  d1 = d1
  d2 = d2
  Devices = {d1, d2}
  Formats <- MCFormats
  Hash <- MCHash
  Hole <- MCHole
  Shapes <- MCShapes
  Shown <- MCShown
  NoMsg = NoMsg
  NoFetch = NoFetch
  MaxRestarts = 1
  Env = {}
INVARIANT NothingOutdated
