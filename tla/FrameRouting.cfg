\* Connect requests name BLE addresses or the MAC of a frame.
CONSTANTS
  p1 = p1
  p2 = p2
  b1 = b1
  b2 = b2
  m2 = m2
  None = None
  Peripherals = {p1, p2}
  Addresses = {b1, b2, m2}
  Ble <- MCBle
  Mac <- MCMac
  MaxFrames = 3
SPECIFICATION Spec
INVARIANTS NoCommandDropped RoutedToOwner LastIsReachable DevicesTruthful
