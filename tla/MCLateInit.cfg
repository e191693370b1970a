SPECIFICATION FairBootSpec
CONSTANTS
  r = r
  o = o
  Keys = {r, o}
  Zero = Zero
  BufSize = 4
  root <- Name
  toor <- Password
INVARIANT BootOrder
PROPERTIES BootGoesOn LoginExact
