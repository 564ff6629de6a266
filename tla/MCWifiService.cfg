SPECIFICATION WifiSpec
CONSTANTS
  Networks <- MCNetworks
  Passwords <- MCPasswords
  Key <- MCKey
INVARIANTS TypeOK SavedIsStored EveryLinkIsServed
PROPERTIES Reconnects
