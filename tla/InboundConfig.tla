---------------------------- MODULE InboundConfig ----------------------------
(***************************************************************************)
(* What the cores make of a node's configuration: the builders of inbounds *)
(* (core/xray/inbound.go, core/sing/node.go), the users they accept, the   *)
(* controller's view of the same configuration (node/controller.go) and    *)
(* the options a panel-driven controller is given (node/node.go,           *)
(* node/cert_resolve.go).                                                  *)
(*                                                                         *)
(* Operators only.  A node configuration is a record                       *)
(*   [type, protocol, port, security, network, sec, cipher, serverKey]     *)
(* where type is the client's NodeType, which the panel's protocol need    *)
(* not agree with; sec is the SecurityConfig, Nil or [sni, key, port];     *)
(* serverKey is the number of bytes the key decodes to (0: empty, -1: not  *)
(* base64).  Options are records                                           *)
(*   [core, coreName, listen, send, xray, sing, cert, dynamic]             *)
(* with xray Nil or [fallback, dests], sing Nil or not, cert Nil or the    *)
(* mode of the CertConfig.  A nil pointer is Nil; reading through it is a  *)
(* panic.                                                                  *)
(***************************************************************************)
EXTENDS Integers

CONSTANT Nil

\* A string that is not set.
Unset == ""

TcpProtocols == {"vless", "vmess", "trojan"}
QuicProtocols == {"tuic", "hysteria", "hysteria2"}
Protocols == TcpProtocols \cup QuicProtocols \cup {"shadowsocks", "anytls"}

\* The outcome of a builder: what the inbound listens with, or why there is none.
Outcome(verdict, layer, network) == [verdict |-> verdict, layer |-> layer, network |-> network]
Refused == Outcome("error", "none", "none")
Panics  == Outcome("panic", "none", "none")
Built(layer, network) == Outcome("ok", layer, network)

-----------------------------------------------------------------------------
(* The panel's answer and the controller's view of it.                     *)

\* What GetNodeInfo decodes: Basic is read through without a check.
DecodeNode(answer) ==
  IF answer.basic = Nil THEN "panic"
  ELSE IF answer.protocol \notin Protocols THEN "error"
  ELSE "ok"

protocolSecurity(info) ==
  CASE info.protocol \in TcpProtocols -> info.security
    [] info.protocol = "shadowsocks"  -> Unset
    [] OTHER                          -> "tls"

needsCert(security) == security = "tls"

-----------------------------------------------------------------------------
(* Shadowsocks.                                                            *)

ShadowsocksAllowedCiphers ==
  {"aes-128-gcm", "aes-256-gcm", "chacha20-ietf-poly1305", "2022-blake3-aes-128-gcm",
   "2022-blake3-aes-256-gcm", "2022-blake3-chacha20-poly1305"}

shadowsocks2022KeyLen(cipher) ==
  CASE cipher = "2022-blake3-aes-128-gcm" -> 16
    [] cipher \in {"2022-blake3-aes-256-gcm", "2022-blake3-chacha20-poly1305"} -> 32
    [] OTHER -> 0

ValidateShadowsocksCipher(cipher, serverKey) ==
  /\ cipher \in ShadowsocksAllowedCiphers
  /\ shadowsocks2022KeyLen(cipher) > 0 => serverKey = shadowsocks2022KeyLen(cipher)

-----------------------------------------------------------------------------
(* xray: buildInbound.                                                     *)

WebSockets == {"ws", "websocket"}
StreamNetworks == {"tcp", "grpc", "httpupgrade", "splithttp", "xhttp"} \cup WebSockets

Network(info) == IF info.network = Unset THEN "tcp" ELSE info.network

\* A nil list, or an entry without a destination, is an error.
buildFallbacks(x) == x.fallback => x.dests # Nil /\ \A d \in x.dests : d # Unset

buildVless(opt, info) == buildFallbacks(opt.xray) /\ Network(info) \in StreamNetworks
buildVmess(opt, info) == Network(info) \in StreamNetworks
buildTrojan(opt, info) ==
  buildFallbacks(opt.xray) /\ Network(info) \in {"tcp", "grpc"} \cup WebSockets
buildShadowsocks(opt, info) == ValidateShadowsocksCipher(info.cipher, info.serverKey)

buildRealitySettings(sec) ==
  /\ sec # Nil
  /\ sec.sni # Unset /\ sec.key # Unset
  /\ sec.port > 0 /\ sec.port <= 65535

\* The certificate modes for which a TLS layer stays off.
CertOff == {"none", Unset}

buildInbound(opt, info) ==
  LET protocolBuilt ==
        CASE info.protocol = "vless"       -> buildVless(opt, info)
          [] info.protocol = "vmess"       -> buildVmess(opt, info)
          [] info.protocol = "trojan"      -> buildTrojan(opt, info)
          [] info.protocol = "shadowsocks" -> buildShadowsocks(opt, info)
          [] OTHER                         -> FALSE
      security == IF info.protocol = "shadowsocks" THEN Unset ELSE info.security
      network  == IF info.protocol = "shadowsocks" THEN "tcp" ELSE Network(info)
      listens  == opt.listen # "domain"  \* in.Build refuses to listen on a name
  IN CASE opt.xray = Nil -> Refused
       [] opt.xray # Nil /\ ~(protocolBuilt /\ listens) -> Refused
       [] opt.xray # Nil /\ protocolBuilt /\ listens ->
            CASE security = "tls" ->
                   IF opt.cert = Nil THEN Refused
                   ELSE Built(IF opt.cert \in CertOff THEN "clear" ELSE "tls", network)
              [] security = "reality" ->
                   IF info.protocol = "vless" /\ buildRealitySettings(info.sec)
                   THEN Built("reality", network) ELSE Refused
              [] OTHER -> Built("clear", network)

\* SendThrough must be an address.
buildOutbound(opt) == opt.send # "domain"

-----------------------------------------------------------------------------
(* sing: getInboundOptions and the creation of the inbound.                *)

SingSecurity(info) ==
  CASE info.protocol \in {"vless", "vmess"} -> info.security
    [] info.protocol = "shadowsocks"        -> Unset
    [] OTHER                                -> "tls"

\* The branches that read SecurityConfig.SNI, unchecked.
ReadsSecurityConfig(info) ==
  \/ SingSecurity(info) = "tls"
  \/ info.protocol \in {"vless", "vmess"} /\ info.security = "reality"

SingNetwork(info) ==
  CASE info.network \in WebSockets -> "ws"
    [] info.network = "grpc"       -> "grpc"
    [] info.network = "tcp"        -> Unset
    [] info.network \notin WebSockets \cup {"grpc", "tcp"} ->
         IF info.protocol = "trojan" THEN Unset ELSE info.network

\* The inbound made of a protocol.  Hysteria is served as Hysteria2; TUIC
\* appends to a TLS layer it does not enable.
SingType(protocol) == IF protocol = "hysteria" THEN "hysteria2" ELSE protocol

\* The library knows these transports (its HTTP/2 is called "http"), and
\* its QUIC protocols insist on TLS.
singCreate(info, layer) ==
  /\ info.protocol \in TcpProtocols =>
       SingNetwork(info) \in {Unset, "ws", "grpc", "http", "httpupgrade", "quic"}
  /\ SingType(info.protocol) \in {"tuic", "hysteria2"} => layer = "tls"

getInboundOptions(opt, info) ==
  LET security == SingSecurity(info)
      network  == IF info.protocol \in TcpProtocols THEN SingNetwork(info) ELSE Unset
  IN CASE opt.listen = "domain" -> Refused
       [] opt.listen # "domain" /\ info.protocol \notin Protocols -> Refused
       [] opt.listen # "domain" /\ info.protocol \in Protocols ->
            CASE ReadsSecurityConfig(info) /\ info.sec = Nil -> Panics
              [] opt.sing = Nil -> Panics
              [] security = "tls" /\ opt.cert = Nil -> Refused
              [] security = "reality" /\ info.protocol # "vless" -> Panics
              [] info.protocol = "shadowsocks"
                   /\ ~ValidateShadowsocksCipher(info.cipher, info.serverKey) -> Refused
              [] OTHER ->
                   Built(CASE security = "tls" -> IF opt.cert \in CertOff THEN "clear" ELSE "tls"
                           [] security = "reality" -> "reality"
                           [] OTHER -> "clear", network)

-----------------------------------------------------------------------------
(* AddNode and AddUsers of the two cores, as verdicts.                     *)

\* xray adds the inbound before it builds the outbound: "leak" is an error
\* that leaves the inbound in the core.
AddNodeVerdict(core, opt, info) ==
  IF core = "xray"
  THEN LET in == buildInbound(opt, info) IN
       IF in.verdict = "ok" /\ ~buildOutbound(opt) THEN "leak" ELSE in.verdict
  ELSE LET in == getInboundOptions(opt, info) IN
       IF in.verdict = "ok" /\ ~singCreate(info, in.layer) THEN "error" ELSE in.verdict

\* Users are built by the client's type and handed to the inbound of the
\* panel's protocol, whose sub-structure is the only one that is there: two
\* types read it unchecked, the library refuses the users of the others.
xrayAddUsers(info) ==
  CASE info.type \notin {"vmess", "vless", "trojan", "shadowsocks"} -> "error"
    [] info.type \in {"vless", "shadowsocks"} /\ info.protocol # info.type -> "panic"
    [] OTHER -> IF info.protocol = info.type THEN "ok" ELSE "error"

\* Type hysteria has no case: the call succeeds and nobody is added.  The
\* key of a 2022-chacha20 user is his uuid as it is, which the library refuses.
singAddUsers(info) ==
  CASE info.type = "hysteria" -> "nobody"
    [] info.type # "hysteria" /\ info.type # info.protocol
         /\ info.type # SingType(info.protocol) -> "panic"
    [] OTHER -> IF info.protocol = "shadowsocks" /\ info.cipher = "2022-blake3-chacha20-poly1305"
                THEN "error" ELSE "ok"

AddUsersVerdict(core, info) == IF core = "xray" THEN xrayAddUsers(info) ELSE singAddUsers(info)

-----------------------------------------------------------------------------
(* Options.                                                                *)

defaultCoreFor(protocol) ==
  CASE protocol \in QuicProtocols \cup {"anytls"}         -> "sing"
    [] protocol \in TcpProtocols \cup {"shadowsocks"}     -> "xray"
    [] OTHER                                              -> Unset

NewXrayOptions == [fallback |-> FALSE, dests |-> Nil]

\* Options.UnmarshalJSON: only the options of the core the file names are
\* decoded; an unknown name counts as none.
UnmarshalOptions(raw) ==
  [raw EXCEPT !.core = IF @ \in {"xray", "sing"} THEN @ ELSE Unset,
              !.xray = IF raw.core = "xray" THEN NewXrayOptions ELSE @,
              !.sing = IF raw.core = "sing" THEN "options" ELSE @]

resolveCertConfig(p) ==
  LET mode == IF p.certConfig # Nil THEN p.certConfig ELSE p.certMode
  IN  IF mode = Unset THEN "http" ELSE mode

\* The options buildServerController gives a protocol of the panel, or Nil
\* for one it refuses.
ServerOptions(p) ==
  LET core == defaultCoreFor(p.type) IN
  IF core = Unset \/ p.security \notin {"tls", "reality", Unset, "none"} THEN Nil
  ELSE [core |-> core, coreName |-> Unset, send |-> Unset, dynamic |-> FALSE, sing |-> Nil,
        listen |-> IF core = "sing" THEN "::" ELSE "0.0.0.0",
        xray |-> IF core = "xray" THEN NewXrayOptions ELSE Nil,
        cert |-> IF p.security = "tls" THEN resolveCertConfig(p) ELSE "none"]

=============================================================================
