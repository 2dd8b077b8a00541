--------------------------- MODULE HeaderCoherence ---------------------------
(***************************************************************************)
(* Request-context header coherence of session/state.go (package           *)
(* fingerprint): the RequestContext constructors, calculateFetchSite with  *)
(* getRegistrableDomain, GenerateSecFetchHeaders and ApplyToHeaders, which *)
(* rewrites a caller's header map in place. The map may be applied to      *)
(* more than once (it starts from a preset's headers), so the model is a   *)
(* state machine over that map.                                            *)
(*                                                                         *)
(* A URL is a record: scheme, host as a sequence of DNS labels, and the    *)
(* port written in it (0 for none). url.Parse's Host is the labels joined  *)
(* by "." plus ":port" when one is written. Header values are abstracted   *)
(* to the few the code distinguishes; Absent is a missing map key.         *)
(***************************************************************************)
EXTENDS Naturals, Sequences

CONSTANTS
    URLs,            \* well-formed URLs that may be referrer or target
    BadURL,          \* a string url.Parse rejects
    NoURL,           \* the empty referrer
    PresetHeaders,   \* header maps a request may start from
    PublicSuffixes,  \* public suffixes, as label sequences (the reference)
    IPHosts,         \* hosts that are IPv4 literals, split at "." like names
    IPv6Hosts,       \* bracketed IPv6 literals, as their ':'-separated groups
    Absent

Modes == {"navigate", "cors", "no-cors", "same-origin", "websocket"}
Dests == {"document", "empty", "image", "script", "style", "font"}
Sites == {"none", "same-origin", "same-site", "cross-site"}
HeaderNames == {"Sec-Fetch-Site", "Sec-Fetch-Mode", "Sec-Fetch-Dest",
                "Sec-Fetch-User", "Upgrade-Insecure-Requests", "Accept",
                "Cache-Control", "Referer"}
\* Accept values: the navigation list, "*/*", the image list, the CSS list.
AcceptValues == {"html", "any", "image", "css"}
Values == Modes \cup Dests \cup Sites \cup AcceptValues
          \cup {"?1", "1", "no-cache", Absent}

VARIABLES
    headers,   \* the header map ApplyToHeaders writes into
    ctx        \* the RequestContext of the last call, or NoCtx

vars == <<headers, ctx>>

NoCtx == [mode |-> "none"]

TypeOK ==
    /\ \A h \in HeaderNames \ {"Referer"} : headers[h] \in Values
    /\ headers["Referer"] \in URLs \cup {BadURL, Absent}
    /\ ctx = NoCtx \/ ctx.mode \in Modes

-----------------------------------------------------------------------------
(* getRegistrableDomain: cut the Host at its last ':' (meant for the       *)
(* port, but inside a bracketed IPv6 literal written without one it cuts   *)
(* the last group off), then keep the last two '.'-labels (the whole host  *)
(* when it has fewer; an IPv6 literal has one).                            *)
GetRegistrableDomain(u) ==
    CASE u.host \in IPv6Hosts /\ u.port = 0 -> SubSeq(u.host, 1, Len(u.host) - 1)
      [] u.host \in IPv6Hosts               -> u.host
      [] Len(u.host) >= 2 -> SubSeq(u.host, Len(u.host) - 1, Len(u.host))
      [] OTHER            -> u.host

\* url.Parse(...).Host compared as strings: labels and the written port.
SameHost(r, t) == r.host = t.host /\ r.port = t.port

(* calculateFetchSite: none without a referrer, cross-site if either URL   *)
(* fails to parse, same-origin on equal scheme and Host, same-site on equal *)
(* registrable domain and scheme, else cross-site.                         *)
CalculateFetchSite(r, t) ==
    CASE r = NoURL                       -> "none"
      [] r = BadURL \/ t = BadURL        -> "cross-site"
      [] r.scheme = t.scheme /\ SameHost(r, t) -> "same-origin"
      [] GetRegistrableDomain(r) = GetRegistrableDomain(t)
           /\ r.scheme = t.scheme        -> "same-site"
      [] OTHER                           -> "cross-site"

(* NavigationContext, and XHRContext / ImageContext / ScriptContext /      *)
(* StyleContext, which compute the site from referrer and target.          *)
NavigationContext ==
    [mode |-> "navigate", dest |-> "document", site |-> "none",
     user |-> TRUE, referrer |-> NoURL, target |-> NoURL]
SubresourceContext(mode, dest, r, t) ==
    [mode |-> mode, dest |-> dest, site |-> CalculateFetchSite(r, t),
     user |-> FALSE, referrer |-> r, target |-> t]
ConstructedContexts ==
    {NavigationContext} \cup
    { SubresourceContext(md[1], md[2], r, t) :
        md \in {<<"cors", "empty">>, <<"no-cors", "image">>,
                <<"no-cors", "script">>, <<"no-cors", "style">>},
        r \in URLs \cup {BadURL, NoURL}, t \in URLs \cup {BadURL} }
\* RequestContext is an exported struct: callers may fill it in themselves.
LiteralContexts ==
    [mode : Modes, dest : {"document", "empty", "font"}, site : Sites,
     user : BOOLEAN, referrer : {NoURL}, target : {NoURL}]

(* GenerateSecFetchHeaders: Site, Mode, Dest copied; User "?1" only for a  *)
(* user-triggered navigation.                                              *)
SecFetchUser(c) == IF c.user /\ c.mode = "navigate" THEN "?1" ELSE Absent

\* `if secFetch.User != "" { set } else { delete }`.
SetSecFetchUser(c, old) == IF SecFetchUser(c) # Absent THEN "?1" ELSE Absent

\* The Accept chosen by ApplyToHeaders' switch (UNCHANGED for websocket).
AcceptFor(c, old) ==
    CASE c.mode = "navigate"                 -> "html"
      [] c.mode \in {"cors", "same-origin"}  -> "any"
      [] c.mode = "no-cors" /\ c.dest = "image" -> "image"
      [] c.mode = "no-cors" /\ c.dest = "style" -> "css"
      [] c.mode = "no-cors"                  -> "any"
      [] OTHER                               -> old

\* Faulty variant: Referer written even for an empty referrer.
SetRefererUnguarded(c, old) == c.referrer

\* `if ctx.Referrer != "" { headers["Referer"] = ctx.Referrer }`.
SetReferer(c, old) == IF c.referrer # NoURL THEN c.referrer ELSE old

(* ApplyToHeaders(headers, c): the Sec-Fetch-* headers (deleting           *)
(* Sec-Fetch-User when not sent), the per-mode Accept and                  *)
(* Upgrade-Insecure-Requests / Cache-Control, and Referer when c has one.  *)
ApplyToHeaders(c) ==
    /\ headers' = [h \in HeaderNames |->
         CASE h = "Sec-Fetch-Site" -> c.site
           [] h = "Sec-Fetch-Mode" -> c.mode
           [] h = "Sec-Fetch-Dest" -> c.dest
           [] h = "Sec-Fetch-User" -> SetSecFetchUser(c, headers[h])
           [] h = "Accept"         -> AcceptFor(c, headers[h])
           [] h = "Upgrade-Insecure-Requests" ->
                 IF c.mode = "navigate" THEN "1"
                 ELSE IF c.mode = "websocket" THEN headers[h] ELSE Absent
           [] h = "Cache-Control" ->
                 IF c.mode \in {"navigate", "websocket"} THEN headers[h]
                                                          ELSE Absent
           [] h = "Referer"        -> SetReferer(c, headers[h])]
    /\ ctx' = c

Init == headers \in PresetHeaders /\ ctx = NoCtx

Next == \E c \in ConstructedContexts \cup LiteralContexts : ApplyToHeaders(c)

Spec == Init /\ [][Next]_vars

-----------------------------------------------------------------------------
(* Reference definitions (URL Standard origin, Fetch Standard schemeful    *)
(* site with a public suffix list) that Sec-Fetch-Site is meant to encode. *)
DefaultPort(scheme) == IF scheme = "https" THEN 443 ELSE 80
EffectivePort(u) == IF u.port = 0 THEN DefaultPort(u.scheme) ELSE u.port
SameOriginRef(r, t) ==
    r.scheme = t.scheme /\ r.host = t.host /\ EffectivePort(r) = EffectivePort(t)
\* Number of trailing labels that form the host's public suffix (at least 1:
\* an unlisted top-level label is its own suffix).
SuffixLen(h) ==
    LET ks == {k \in 1..Len(h) : SubSeq(h, Len(h) - k + 1, Len(h)) \in PublicSuffixes}
    IN IF ks = {} THEN 1
       ELSE CHOOSE k \in ks : \A j \in ks : j <= k
RegistrableRef(h) ==
    IF Len(h) > SuffixLen(h) THEN SubSeq(h, Len(h) - SuffixLen(h), Len(h))
                             ELSE h
SiteOf(h) == IF h \in IPHosts \cup IPv6Hosts THEN h ELSE RegistrableRef(h)
SameSiteRef(r, t) == r.scheme = t.scheme /\ SiteOf(r.host) = SiteOf(t.host)

\* The last context came from a constructor with two well-formed URLs.
SiteComputed == ctx # NoCtx /\ ctx.referrer \in URLs /\ ctx.target \in URLs

(* Spec 4.1: Upgrade-Insecure-Requests is present iff mode = navigate.      *)
UIRIffNavigate ==
    ctx # NoCtx =>
        (headers["Upgrade-Insecure-Requests"] # Absent <=> ctx.mode = "navigate")

(* The Sec-Fetch-Site a browser sends for a referrer and target: same-     *)
(* origin for the same origin, same-site for the same schemeful site (an    *)
(* IP literal host is a site of its own), cross-site otherwise.             *)
RefSite(r, t) ==
    CASE SameOriginRef(r, t) -> "same-origin"
      [] SameSiteRef(r, t)   -> "same-site"
      [] OTHER               -> "cross-site"

(* Spec 4.1: the constructors compute Sec-Fetch-Site from referrer and      *)
(* target, and calculateFetchSite (with getRegistrableDomain) gives the     *)
(* value the origin and site of the two URLs call for, whatever ports,      *)
(* public suffixes or IP literal hosts they have.                           *)
FetchSiteAgrees ==
    SiteComputed => headers["Sec-Fetch-Site"] = RefSite(ctx.referrer, ctx.target)
=============================================================================
