------------------------- MODULE MC_HeaderCoherence -------------------------
(* Instances of HeaderCoherence for TLC: URLs built from a few hosts,       *)
(* schemes and ports, and the header maps requests start from.             *)
EXTENDS HeaderCoherence

MkURL(s, h, p) == [scheme |-> s, host |-> h, port |-> p]

ExampleCom == <<"example", "com">>
WwwExampleCom == <<"www", "example", "com">>
OtherCom == <<"other", "com">>
ShopCoUk == <<"shop", "co", "uk">>
BankCoUk == <<"bank", "co", "uk">>

\* Passing run: https pages on two sites, one with a subdomain.
URLsBasic == {MkURL("https", h, 0) : h \in {ExampleCom, WwwExampleCom, OtherCom}}
\* The same host written with and without its default port, and over http.
URLsPorts == {MkURL("https", ExampleCom, 0), MkURL("https", ExampleCom, 443),
              MkURL("http", ExampleCom, 0), MkURL("https", ExampleCom, 8443)}
\* Two unrelated sites under the same two-label public suffix.
URLsSuffix == {MkURL("https", h, 0) : h \in {ShopCoUk, BankCoUk, ExampleCom}}

\* IPv4 literal hosts of two networks that share the last two octets.
IP10 == <<"10", "0", "0", "1">>
IP192 == <<"192", "168", "0", "1">>
IPs == {IP10, IP192}
\* [2001:db8::1] and [2001:db8::2], split at ':'.
IPv6s == {<<"[2001", "db8", "", "1]">>, <<"[2001", "db8", "", "2]">>}
\* Violation run: each way two URLs' origin or site can be misjudged.
URLsSite == URLsPorts \cup URLsSuffix \cup {MkURL("https", h, 0) : h \in IPs \cup IPv6s}

Suffixes == {<<"com">>, <<"uk">>, <<"co", "uk">>}

\* A Chrome preset's navigation headers, a hard refresh (Cache-Control) and
\* the bare XHR map GenerateXHRHeaders starts from.
Blank == [h \in HeaderNames |-> Absent]
ChromeNavigation ==
    [Blank EXCEPT !["Sec-Fetch-Site"] = "none", !["Sec-Fetch-Mode"] = "navigate",
                  !["Sec-Fetch-Dest"] = "document", !["Sec-Fetch-User"] = "?1",
                  !["Upgrade-Insecure-Requests"] = "1", !["Accept"] = "html"]
HardRefresh == [ChromeNavigation EXCEPT !["Cache-Control"] = "no-cache"]
XHRBase == [Blank EXCEPT !["Accept"] = "any"]
Presets == {ChromeNavigation, HardRefresh, XHRBase}
=============================================================================
