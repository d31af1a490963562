\* A connect request may name the MAC of a frame.
CONSTANTS
  p1 = p1
  p2 = p2
  b1 = b1
  b2 = b2
  m2 = m2
  None = None
  Peripherals = {p1, p2}
  Addresses = {b1, b2, m2}
  Ble <- MCBle
  Mac <- MCMac
  MaxFrames = 2
SPECIFICATION Spec
INVARIANTS LastRoutesToPeripheral
