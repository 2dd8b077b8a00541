\* Referrers and targets with default and explicit ports, under a two-label
\* public suffix, and IPv4 and IPv6 literal hosts.
CONSTANTS
    URLs <- URLsSite
    BadURL = BadURL
    NoURL = NoURL
    PresetHeaders <- Presets
    PublicSuffixes <- Suffixes
    IPHosts <- IPs
    IPv6Hosts <- IPv6s
    Absent = Absent
SPECIFICATION Spec
INVARIANT FetchSiteAgrees
