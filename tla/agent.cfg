SPECIFICATION FairSpec

CONSTANTS
  CpuFiles <- MCCpuFiles
  MemFiles <- MCMemFiles
  OsFiles <- MCOsFiles
  CpuFields <- MCCpuFields
  MemFields <- MCMemFields
  OsFields <- MCOsFields
  MetricFields <- MCMetricFields
  MetricLines <- MCMetricLines
  AddressFiles <- MCAddressFiles
  IndexedFiles <- MCIndexedFiles
  Cards = {"usb0"}
  PlainFiles = {"bonding_masters"}
  MaxCuts = 1

INVARIANTS
  TypeOK
  ProcessorsOnce
  CardsListed
  EndsOnlyFor

PROPERTIES
  TablesOfFile
  RoundEnds
