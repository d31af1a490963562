\* Both ways to find the device, and up to two links left by failed disconnects.
CONSTANTS
  MaxLeftover = 2
SPECIFICATION Spec
PROPERTIES ListensWhileItCan StopEnds SearchesAgain
