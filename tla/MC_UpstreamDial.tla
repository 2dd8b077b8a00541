--------------------------- MODULE MC_UpstreamDial ---------------------------
(* Proxy URLs for TLC: a well-formed and a malformed http URL, a SOCKS5    *)
(* URL, and a URL of a scheme dialTarget does not know (socks4://, or      *)
(* host:port without a scheme).                                            *)
EXTENDS UpstreamDial

MCProxyURLs ==
    {[scheme |-> "http", valid |-> TRUE], [scheme |-> "http", valid |-> FALSE],
     [scheme |-> "socks5", valid |-> TRUE], [scheme |-> "other", valid |-> TRUE]}
=============================================================================
