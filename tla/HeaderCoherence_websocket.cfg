\* A websocket context applied to a Chrome preset map.
CONSTANTS
    URLs <- URLsBasic
    BadURL = BadURL
    NoURL = NoURL
    PresetHeaders <- Presets
    PublicSuffixes <- Suffixes
    IPHosts <- IPs
    IPv6Hosts <- IPv6s
    Absent = Absent
SPECIFICATION Spec
INVARIANT UIRIffNavigate
