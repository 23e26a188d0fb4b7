----------------------------- MODULE MCProcess -----------------------------
EXTENDS Process

Info(protocol, port, security) ==
  [basic |-> "basic", type |-> protocol, protocol |-> protocol, port |-> port, security |-> security,
   network |-> "", sec |-> [sni |-> "host", key |-> "key", port |-> 443],
   cipher |-> "aes-128-gcm", serverKey |-> 0]

Opt(core, cert) ==
  UnmarshalOptions([core |-> core, coreName |-> "", listen |-> "0.0.0.0", send |-> "",
                    xray |-> Nil, sing |-> Nil, cert |-> cert, dynamic |-> FALSE])

Panel(type, security) == [type |-> type, security |-> security, certConfig |-> Nil, certMode |-> "self"]

Node(tag, opt, info, users) ==
  [tag |-> tag, type |-> info.type, opt |-> opt, proto |-> Panel(info.type, info.security),
   info |-> info, users |-> users]

Core(type) == [type |-> type, name |-> "", file |-> "ok"]
Conf(name, cores, nodes) == [name |-> name, cores |-> cores, nodes |-> nodes, viaPanel |-> FALSE]

\* A node either core takes, and one that needs a certificate.
Mixed == Conf("mixed", <<Core("xray"), Core("sing")>>,
  << Node("a", Opt("", Nil), Info("vless", 443, ""), TRUE),
     Node("b", Opt("sing", "self"), Info("hysteria2", 443, "tls"), FALSE) >>)

\* Two nodes on one port.
Clash == Conf("clash", <<Core("xray")>>,
  << Node("a", Opt("xray", Nil), Info("vless", 443, ""), FALSE),
     Node("b", Opt("xray", Nil), Info("trojan", 443, ""), FALSE) >>)

\* The panel's own list, with a protocol for the sing core.
FromPanel == [Conf("panel", <<Core("xray"), Core("sing")>>,
  << Node("a", Nil, Info("vmess", 80, ""), TRUE), Node("b", Nil, Info("tuic", 443, "tls"), FALSE) >>)
  EXCEPT !.viaPanel = TRUE]

\* One the xray core takes alone.
XrayOnly == [Conf("xrayonly", <<Core("xray")>>, << Node("a", Nil, Info("vmess", 80, ""), TRUE) >>)
  EXCEPT !.viaPanel = TRUE]

\* A security of the panel's that nobody knows.
Unknown == [Conf("unknown", <<Core("xray")>>, << Node("a", Nil, Info("vless", 443, "xtls"), FALSE) >>)
  EXCEPT !.viaPanel = TRUE]

\* The dynamic speed limit is not configured: startTasks fails.
Dynamic == Conf("dynamic", <<Core("xray")>>,
  << Node("a", [Opt("xray", Nil) EXCEPT !.dynamic = TRUE], Info("vless", 443, ""), TRUE) >>)

\* SendIP is a name: the inbound is added and AddNode fails.
SendName == Conf("sendname", <<Core("xray"), Core("sing")>>,
  << Node("b", [Opt("xray", Nil) EXCEPT !.send = "domain"], Info("vless", 443, ""), FALSE) >>)

\* xray.New panics on its files.
BadFile == Conf("badfile", << [Core("xray") EXCEPT !.file = "bad"] >>, <<>>)

\* No core of this type.
NoCore == Conf("nocore", << Core("v2ray") >>, <<>>)

MCConfs == { Mixed, XrayOnly, Clash, FromPanel, Unknown, Dynamic, SendName, BadFile, NoCore }
-----------------------------------------------------------------------------
(* The operators of InboundConfig over a space of configurations.          *)

Networks == {"", "tcp", "ws", "grpc", "httpupgrade", "splithttp", "http2"}
Keys2022 == { <<"aes-128-gcm", 0>>, <<"2022-blake3-aes-128-gcm", 16>>,
              <<"2022-blake3-aes-128-gcm", 32>>, <<"2022-blake3-chacha20-poly1305", 32>>, <<"rc4", 0>> }

AllInfos ==
  { [Info(protocol, 443, security) EXCEPT !.network = network, !.sec = sec,
                                          !.cipher = key[1], !.serverKey = key[2]] :
      protocol \in Protocols, security \in {"", "none", "tls", "reality"}, network \in Networks,
      sec \in {Nil, [sni |-> "host", key |-> "key", port |-> 443], [sni |-> "host", key |-> "", port |-> 0]},
      key \in Keys2022 }

AllOpts ==
  { [Opt(core, cert) EXCEPT !.listen = listen, !.send = send] :
      core \in {"", "xray", "sing"}, cert \in {Nil, "", "none", "self"},
      listen \in {"0.0.0.0", "domain"}, send \in {"", "domain"} }

\* The xray builders never read through a missing SecurityConfig.
ASSUME XrayNeverPanics ==
  \A opt \in AllOpts, info \in AllInfos : AddNodeVerdict("xray", opt, info) # "panic"

\* An inbound has a TLS layer only if the controller ensured its certificate,
\* but for Trojan on sing, which has one whatever security the panel asks for.
ASSUME TlsHasCertificate ==
  \A opt \in AllOpts, info \in AllInfos :
    /\ buildInbound(opt, info).layer = "tls" => needsCert(protocolSecurity(info))
    /\ getInboundOptions(opt, info).layer = "tls" =>
         needsCert(protocolSecurity(info)) \/ info.protocol = "trojan"

\* A security the panel asks for is never answered with a clear inbound,
\* unless the certificate mode turns TLS off.
ASSUME NoSilentDowngrade ==
  \A opt \in AllOpts, info \in AllInfos :
    /\ buildInbound(opt, info).layer = "clear" /\ info.protocol \in TcpProtocols =>
         info.security \notin {"tls", "reality"} \/ (info.security = "tls" /\ opt.cert \in CertOff)
    /\ getInboundOptions(opt, info).layer = "clear" /\ info.protocol \in TcpProtocols =>
         info.security \notin {"tls", "reality"} \/ opt.cert \in CertOff

\* buildServerController sets no SingOptions: a protocol the panel gives to
\* sing panics in AddNode, if it is not refused before.
ASSUME PanelSingNeverStarts ==
  \A type \in Protocols, security \in {"", "none", "tls", "reality"} :
    LET opt == ServerOptions(Panel(type, security)) IN
    defaultCoreFor(type) = "sing" =>
      \A info \in AllInfos : getInboundOptions(opt, info).verdict # "ok"

\* What AddNode has taken, AddUsers does not panic on; it may refuse.
ASSUME UsersNeverPanic ==
  \A core \in {"xray", "sing"}, opt \in AllOpts, info \in AllInfos :
    AddNodeVerdict(core, opt, info) = "ok" => AddUsersVerdict(core, info) # "panic"

=============================================================================
