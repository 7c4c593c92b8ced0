SPECIFICATION NamesSpec
CONSTANTS
  Chars <- MCChars
  Dirs = {"d1", "d2"}
  Basename <- MCBasename
  Markers <- MCMarkers
  Manifests <- MCManifests
  Labels <- MCLabels
  Branches <- MCBranches
  Hosts <- MCHosts
  Inherited <- MCInherited
  Configured <- MCConfigured
  PortFiles <- MCPortFiles
  MaxLabel = 2
  Word = 16
  MaxApps = 2
  None = None
  Failed = Failed
INVARIANTS NamesTypeOK HostsRoute DerivedNamesValid AppsAddressed
PROPERTY DocKeyAdded
