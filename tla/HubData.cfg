\* Three settings or frames and one failure, in any order.
CONSTANTS
  p1 = p1
  p2 = p2
  None = None
  Absent = Absent
  Torn = Torn
  Peripherals = {p1, p2}
  Addresses = {"b", "m", "c"}
  Ble <- MCBle
  Mac <- MCMac
  Advertised <- MCAdvertised
  Listing <- MCListing
  Settings <- MCSettings
  Blank = ""
  DefaultType = "default"
  DefaultLocation = "undefined"
  MaxInputs = 3
  MaxFailures = 1
SPECIFICATION Spec
INVARIANTS SettingsSurvive LoggedWhereAsked HeaderFirst MissedForAnother TypeIsNoName
PROPERTIES TornIsKept
