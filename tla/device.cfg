SPECIFICATION OtaSpec
CONSTANTS
  Forms <- MCForms
  Networks <- MCNetworks
  SsidField = 3
  PskField = 4
  MaxTries = 2
  MaxFaults = 2
INVARIANTS DeviceTypeOK UsesWhatWasTyped GivesUpAfterFullBudget SafeToBoot RainbowMeansUpdate
PROPERTY Settles
