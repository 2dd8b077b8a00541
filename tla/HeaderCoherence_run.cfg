\* Every constructed and literal context applied in sequence to preset maps.
CONSTANTS
    URLs <- URLsBasic
    BadURL = BadURL
    NoURL = NoURL
    PresetHeaders <- Presets
    PublicSuffixes <- Suffixes
    IPHosts <- IPs
    IPv6Hosts <- IPv6s
    Absent = Absent
SPECIFICATION Spec
INVARIANTS TypeOK
