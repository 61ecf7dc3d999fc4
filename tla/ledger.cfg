SPECIFICATION FewSpec
CONSTANTS
  kDirect = kDirect
  kBridge = kBridge
  kOwner = kOwner
  kPermit2 = kPermit2
  kMerchant = kMerchant
  kNative = kNative
  kToken = kToken
  wide = wide
  tight = tight
  profile = profile
  Keys = {kBridge, kMerchant, kNative, kDirect, kToken, kOwner, kPermit2}
  Lane <- MCLane
  AllowlistPolicies <- MCAllowlist
  ProfilePolicies <- MCProfile
  PerTransfer <- MCPerTransfer
  DailyLimit <- MCDailyLimit
  ExpiresAt <- MCExpiresAt
  Amounts = {2}
  MaxTime = 2
  DayLength = 2
  MaxRows = 2
INVARIANTS RowsValid 
PROPERTIES ExposureIsRemembered StampsNeverGoBack TerminalIsFinal
CHECK_DEADLOCK FALSE
