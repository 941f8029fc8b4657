CONSTANTS
  Argvs <- MCArgvs
  Layouts <- MCLayouts
  LaunchCwd <- MCLaunchCwd
SPECIFICATION Spec
INVARIANT ServesFromModulesRootOfInit
