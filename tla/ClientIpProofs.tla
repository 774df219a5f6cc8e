--------------------------- MODULE ClientIpProofs ---------------------------
(***************************************************************************)
(* The theorem about ClientIp, for any networks, any header a client sends *)
(* and any number of proxies.                                              *)
(***************************************************************************)
EXTENDS ClientIp, TLAPS

\* The walk stops at the last position that is neither blank nor trusted.
LEMMA WalkStops ==
    ASSUME NEW header \in Seq(Entry), NEW n \in DOMAIN header,
           header[n] # Blank, ~IsTrusted(header[n]),
           \A i \in DOMAIN header : n < i => IsTrusted(header[i])
    PROVE  UntrustedHops(header) # {} /\ NearestHop(UntrustedHops(header)) = n
<1>1. n \in UntrustedHops(header)
  BY DEF UntrustedHops
<1>2. \A i \in UntrustedHops(header) : i \in Nat /\ i <= n
  BY DEF UntrustedHops
<1>3. n \in Nat
  OBVIOUS
<1> QED BY <1>1, <1>2, <1>3 DEF NearestHop

\* A request that reaches the endpoint through proxies carries, after what the
\* client claims, the client's address and then addresses of proxies only.
LEMMA WhatProxiesAppend ==
    ASSUME NEW claim \in Seq(Entry), NEW client \in Entry, NEW route \in Routes, Len(route) # 0
    PROVE  LET header == Header(claim, client, route)
               n == Len(claim) + 1
           IN  /\ header \in Seq(Entry)
               /\ n \in DOMAIN header
               /\ header[n] = client
               /\ \A i \in DOMAIN header : n < i => IsTrusted(header[i])
               /\ IsTrusted(RemoteAddr(client, route))
<1> DEFINE hosts == <<client>> \o route
           front == SubSeq(hosts, 1, Len(route))
           header == claim \o front
           n == Len(claim) + 1
<1>1. route \in Seq({entry \in Entry : IsTrusted(entry)}) /\ Len(route) \in Nat \ {0}
  <2>1. route \in Seq({entry \in Entry : IsTrusted(entry)})
    BY ClientIpAssumption, Zenon
  <2> QED BY <2>1
<1>2. /\ hosts \in Seq(Entry) /\ Len(hosts) = Len(route) + 1
      /\ hosts[1] = client
      /\ \A i \in 2 .. Len(route) + 1 : hosts[i] = route[i - 1]
  <2>1. <<client>> \in Seq(Entry) /\ Len(<<client>>) = 1 /\ <<client>>[1] = client
    OBVIOUS
  <2>2. route \in Seq(Entry)
    BY <1>1
  <2> QED BY <1>1, <2>1, <2>2
<1>3. \A i \in 2 .. Len(route) + 1 : IsTrusted(hosts[i])
  <2> SUFFICES ASSUME NEW i \in 2 .. Len(route) + 1 PROVE IsTrusted(route[i - 1])
    BY <1>2
  <2>1. i - 1 \in DOMAIN route
    BY <1>1
  <2> QED BY <1>1, <2>1
<1>4. /\ front \in Seq(Entry) /\ Len(front) = Len(route)
      /\ \A i \in 1 .. Len(route) : front[i] = hosts[i]
  BY <1>1, <1>2
<1> HIDE DEF hosts, front
<1>5. /\ header \in Seq(Entry) /\ Len(header) = Len(claim) + Len(route)
      /\ \A i \in 1 .. Len(route) : header[Len(claim) + i] = front[i]
  BY <1>1, <1>4
<1>6. n \in DOMAIN header /\ header[n] = client
  BY <1>1, <1>2, <1>4, <1>5
<1>7. ASSUME NEW i \in DOMAIN header, n < i PROVE IsTrusted(header[i])
  <2> DEFINE k == i - Len(claim)
  <2>1. k \in 2 .. Len(route) /\ i = Len(claim) + k
    BY <1>1, <1>5, <1>7
  <2>2. header[i] = hosts[k]
    BY <1>1, <1>4, <1>5, <2>1
  <2> QED BY <1>1, <1>3, <2>1, <2>2
<1>8. IsTrusted(hosts[Len(route) + 1])
  BY <1>1, <1>3
<1> QED BY <1>5, <1>6, <1>7, <1>8 DEF Header, RemoteAddr, Hosts, hosts, front

\* Whatever a client claims, the endpoint takes its request to come from the
\* host the outermost trusted proxy, or the server itself, got it from.
THEOREM SourceIsAlwaysTheClient == SourceIsTheClient
<1> SUFFICES ASSUME NEW claim \in Claims, NEW route \in Routes, NEW client \in Entry \ {Blank},
                    ~IsTrusted(client)
             PROVE  ResolveClientIp(RemoteAddr(client, route), Header(claim, client, route)) = client
  BY DEF SourceIsTheClient, Mistaken
<1>1. claim \in Seq(Entry) /\ route \in Seq({entry \in Entry : IsTrusted(entry)})
  BY ClientIpAssumption
<1>2. CASE Len(route) = 0
  <2>1. RemoteAddr(client, route) = client
    BY <1>2 DEF RemoteAddr, Hosts
  <2> QED BY <2>1 DEF ResolveClientIp
<1>3. CASE Len(route) # 0
  <2> DEFINE header == Header(claim, client, route)
             n == Len(claim) + 1
  <2>1. /\ header \in Seq(Entry) /\ n \in DOMAIN header /\ header[n] = client
        /\ \A i \in DOMAIN header : n < i => IsTrusted(header[i])
        /\ IsTrusted(RemoteAddr(client, route))
    BY <1>1, <1>3, WhatProxiesAppend
  <2> HIDE DEF header, n
  <2>2. UntrustedHops(header) # {} /\ NearestHop(UntrustedHops(header)) = n
    BY <2>1, WalkStops
  <2>3. TrustedProxies # {}
    BY <2>1 DEF IsTrusted, Networks
  <2>4. ResolveClientIp(RemoteAddr(client, route), header) = client
    BY <2>1, <2>2, <2>3 DEF ResolveClientIp
  <2> QED BY <2>4 DEF header
<1> QED BY <1>2, <1>3
=============================================================================
