SPECIFICATION Spec
CONSTANTS
    FieldLen = 2
    LineLen = 3
    HostLen = 24
INVARIANTS TerseRoundTrip ScanListIsStrongest LegacyReadFits UsefulFirst NamesTellApart
