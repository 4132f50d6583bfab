------------------------------ MODULE MC_RcConf ------------------------------
(* Addresses of three bits: a mask of one bit leaves a network with two    *)
(* hosts.  Two interfaces, a VLAN and a name that is rejected.             *)
EXTENDS RcConf, TLC

MCKeyOrder ==
    <<Main("em0"), Main("em0.21"), Alias("em0.21", 0), Alias("em0.21", 1), Aliases("em0.21"),
      Alias("em0", 0), Alias("em0", 1), Aliases("em0"),
      Main("em1"), Alias("em1", 0), Alias("em1", 1), Aliases("em1")>>

M  == Text4({2})
A1 == Text4({2, 0})
A2 == Text4({2, 1})
B  == Text4({0})

Obj(p, a, m, g) == [primary |-> p, addr |-> a, mask |-> m, gw |-> g]

\* A static primary address with and without gateway, DHCP, DHCP with a
\* character too many, no mask; an alias, one that does not say so, IPv6.
Primaries ==
    {Obj("yes", A1, M, A2), Obj("yes", B, M, NoText), Obj("yes", Dhcp, NoText, NoText),
     Obj("yes", BadDhcp, NoText, NoText), Obj("yes", A1, NoText, A2)}
Secondaries ==
    {Obj("no", A2, M, NoText), Obj("absent", B, M, NoText), Obj("no", Ip6Text, M, NoText)}

AddrLists ==
    {<<o>> : o \in Primaries \cup Secondaries}
        \cup {<<o, p>> : o \in Secondaries, p \in Primaries}
        \cup {<<Obj("yes", A1, M, A2), Obj("no", A2, M, NoText), Obj("absent", B, M, NoText)>>}

MCEntries ==
    [name : {"em0", "em0.21", "em1"}, addrs : AddrLists]
        \cup {[name |-> "em1", addrs |-> <<>>],
              [name |-> "em1", addrs |-> <<Obj("yes", A1, M, Text4(Bits))>>],
              [name |-> "em;1", addrs |-> <<Obj("yes", A1, M, A2)>>]}

SeqUpTo(S, n) == UNION {[1..m -> S] : m \in 0..n}

Rt(r, a, m, g, e) == [name |-> r, addr |-> a, mask |-> m, gw |-> g, enabled |-> e]
MCRoutes ==
    {Rt("net1", B, M, A2, TRUE), Rt("net1", B, M, A2, FALSE), Rt("net2", B, Text4(HostMask), A2, TRUE),
     Rt("net2", A1, M, Ip6Text, FALSE), Rt("net2", A1, M, Junk, TRUE), Rt("ne;t", A1, M, A2, TRUE)}

\* Records as an administrator may have left them.
MCFiles ==
    {(Other :> NoText),
     (Main("em0") :> Inet(<<Pair(A1, Prefix(1))>>)) @@ (Alias("em0", 0) :> Inet(<<Pair(B, Hex({2}))>>))
        @@ (DefaultRouter :> A2) @@ (StaticRoutes :> {"net1"})
        @@ (Route("net1") :> ToNet(B, Hex({2}), A2)) @@ (Other :> NoText),
     (Main("em0") :> Word(Dhcp)) @@ (Main("em0.21") :> Inet(<<Pair(A1, Dotted(M))>>))
        @@ (Aliases("em0.21") :> Inet(<<Pair(A2, Dotted(M))>>))
        @@ (Main("em1") :> Inet(<<Pair(B, Prefix(1))>>)) @@ (Alias("em1", 1) :> Inet(<<Pair(A1, Prefix(1))>>)),
     (Main("em0") :> Inet(<<Pair(A1, Prefix(0))>>)) @@ (Main("em1") :> Inet(<<Pair(B, Hex({2}))>>))
        @@ (Aliases("em0") :> Inet(<<Pair(B, Prefix(1)), Pair(A2, Hex({2}))>>))
        @@ (Alias("em1", 0) :> Inet(<<Pair(A2, Dotted(M))>>)) @@ (DefaultRouter :> Text4({1}))
        @@ (StaticRoutes :> {"net1", "net2"}) @@ (Route("net1") :> ToNet(B, Prefix(1), A1))
        @@ (Route("net2") :> ToHost(B, A1)),
     (Main("em1") :> Word(<<"up">>)) @@ (Aliases("em1") :> Inet(<<Pair(B, Dotted(Ip6Text)), Pair(A1, Dotted(M))>>))
        @@ (Main("em0.21") :> Inet(<<Pair(A1, Hex({2}))>>))}

\* What RCCONF_READ returns, sent back in the order of the keys.
AsRequest(f) ==
    LET mains == SelectSeq(KeyOrder, LAMBDA k : k[1] = "ifconfig" /\ k[2] \in InterfacesRead(f))
    IN  [ifs |-> [n \in 1..Len(mains) |-> AsEntry(f, mains[n][2])], routes |-> <<>>]

MCRequests ==
    [ifs : SeqUpTo(MCEntries, 2), routes : {<<>>}]
        \cup [ifs : {<<>>}, routes : SeqUpTo(MCRoutes, 2)]
        \cup {AsRequest(f) : f \in MCFiles}

=============================================================================
