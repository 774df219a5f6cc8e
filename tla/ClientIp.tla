------------------------------ MODULE ClientIp ------------------------------
(***************************************************************************)
(* How the webhook endpoint finds the address a request came from          *)
(* (ip_resolution.resolve_client_ip), which it hands to the provider's     *)
(* verification and stores with a retry.                                   *)
(*                                                                         *)
(* The client may send an X-Forwarded-For header of its own.  Every proxy  *)
(* on the way appends the address of the peer it got the request from; the *)
(* address of the last peer is REMOTE_ADDR.                                *)
(***************************************************************************)
EXTENDS Integers, Sequences

CONSTANTS
    Entry,           \* what may stand between two commas of the header
    Blank,           \* an entry of spaces only
    TrustedProxies,  \* entries of the setting: networks, sets of addresses ...
    Malformed,       \* ... or what ip_network does not accept
    Claims,          \* headers a client may send
    Routes           \* proxies a request may pass, nearest to the client first

\* A malformed entry is logged and ignored.
Networks == TrustedProxies \ {Malformed}

\* What is no address, like Blank, is in no network.
IsTrusted(entry) == \E net \in Networks : entry \in net

ASSUME ClientIpAssumption ==
    /\ \A net \in Networks : net \subseteq Entry \ {Blank}
    /\ Claims \subseteq Seq(Entry)
    /\ Routes \subseteq Seq({entry \in Entry : IsTrusted(entry)})

-----------------------------------------------------------------------------
(* Plausible bug, for NearestHop: the first address is the original client. *)
FirstHop(hops) == CHOOSE i \in hops : \A j \in hops : i <= j

-----------------------------------------------------------------------------
\* Positions of the header at which the walk may stop.
UntrustedHops(header) ==
    {i \in DOMAIN header : header[i] # Blank /\ ~IsTrusted(header[i])}

\* The walk goes from right to left.
NearestHop(hops) == CHOOSE i \in hops : \A j \in hops : j <= i

ResolveClientIp(remoteAddr, header) ==
    IF \/ TrustedProxies = {}
       \/ ~IsTrusted(remoteAddr)
       \/ UntrustedHops(header) = {}
      THEN remoteAddr
      ELSE header[NearestHop(UntrustedHops(header))]

-----------------------------------------------------------------------------
\* The hosts of a request, and what the endpoint is told of them.
Hosts(client, route) == <<client>> \o route

RemoteAddr(client, route) == Hosts(client, route)[Len(route) + 1]

Header(claim, client, route) == claim \o SubSeq(Hosts(client, route), 1, Len(route))

\* Clients that the endpoint takes for another host, at least once.
Mistaken ==
    {client \in Entry \ {Blank} :
        /\ ~IsTrusted(client)
        /\ \E claim \in Claims, route \in Routes :
              ResolveClientIp(RemoteAddr(client, route), Header(claim, client, route)) # client}

\* "Never trusts the left-most XFF value" (ip_resolution.py): whatever header a
\* client sends, and however many trusted proxies its request passes, the
\* endpoint takes the request to come from the host that the outermost of them
\* got it from.
SourceIsTheClient == Mistaken = {}
=============================================================================
