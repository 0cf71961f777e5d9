SPECIFICATION MCSpec
CONSTANTS
  main = main
  other = other
  stat = stat
  libp = libp
  libq = libq
  Plugins = {stat, libp, libq}
  Pluggers = {main, other}
  Dirs = {"a", "b"}
  Names <- MCNames
  Null = Null
  Garbage = Garbage
  MAX_AGE = 1
  Statics <- MCStatics
  Matches <- MCMatches
  HookOf <- MCHookOf
  Accepted <- MCAccepted
  Lib <- MCLib
  Eld <- MCEld
  Listing <- MCListing
  FirstPaths <- MCPaths
  MaxUse = 1
  Rearrange = FALSE
  Careful = TRUE
INVARIANT WrappersSound
INVARIANT PluginsExact
INVARIANT PlugsAreClean
PROPERTY CallsEnd
CHECK_DEADLOCK FALSE
