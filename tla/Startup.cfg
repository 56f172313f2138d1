SPECIFICATION MCSpec
CONSTANTS
  Disk <- MCDisk
  s1 = s1
  w1 = w1
  Unreadable = Unreadable
  Tool = {t1}
  Damaged = Damaged
  NoFile = NoFile
  Publisher = {p1, p2}
  NoOne = NoOne
  Configurations <- MCConfigurations
  Unit = p1
  StartLimit = 2
  MaxStops = 1
INVARIANTS AgreeWhenNamed 
PROPERTIES LicenceIsKept GatewayComesBack
