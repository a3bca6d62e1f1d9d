SPECIFICATION ControlSpec
CONSTANTS
  Commands <- MCCommands
  Programs <- MCPrograms
  Requests <- MCRequests
  Limits <- MCLimits
  Unset = Unset
INVARIANTS
  ReadBack
  WithinCapabilities
