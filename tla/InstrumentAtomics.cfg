CONSTANTS
  MaxBody = 4
  MaxStatus = 2
  Bits <- MCBits
  Alignment <- MCAlignment
  Constant <- MCConstant
  Uncaptured <- MCUncaptured
  Profile <- MCProfile
  Bookkeeping <- MCBookkeeping
  SwiftError <- MCSwiftError
  Modules <- MCModules
SPECIFICATION Spec
INVARIANT AtomicsPerformed
CHECK_DEADLOCK FALSE
