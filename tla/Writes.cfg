SPECIFICATION Spec
CONSTANTS
    Writers = {w}
    Hosts = {1, 2}
    MaxRecords = 4
PROPERTIES OnlyCascadesAreSilent KeptInStep HandWrittenStays
