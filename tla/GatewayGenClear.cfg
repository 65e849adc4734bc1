SPECIFICATION Spec
CONSTANTS
  d1 = d1
  d2 = d2
  small = small
  big = big
  vast = vast
  chatA = chatA
  chatB = chatB
  chatRam = chatRam
  embedB = embedB
  dropA = dropA
  pic1 = pic1
  pic2 = pic2
  tool = tool
  None = None
  Devices = {d1, d2}
  Threads <- MCThreads
  DeviceOf <- MCDeviceOf
  ModelOf <- MCModelOf
  KindOf <- MCKindOf
  Requests = {chatA, chatB}
  Gens = {pic1}
  Doors = {}
  Models = {small, big}
  RamModels = {}
  MaxWaiting = 1
  Faults = {}
INVARIANT GenCardClear
