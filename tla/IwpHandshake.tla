---------------------------- MODULE IwpHandshake ----------------------------
(***************************************************************************)
(* The three-flight IWP key exchange of src/udap/crypto_async.cpp          *)
(* (gen_intro / verify_intro, gen_introack / verify_introack,              *)
(* gen_session_start / verify_session_start) between routers over a        *)
(* datagram transport that loses, duplicates, reorders and redirects       *)
(* packets, with an optional attacker that also tampers with them and      *)
(* takes part in handshakes under its own key.                             *)
(*                                                                         *)
(* Cryptography is symbolic.  TKE (transport_dh_client/server) yields a    *)
(* key naming the client, the server and the nonce; HS (shorthash) a      *)
(* tagged tuple; MDS (hmac) the pair of key and covered bytes.  xchacha20  *)
(* XORs a keystream, so a field is a plaintext plus the set of keystreams  *)
(* applied to it: applying one toggles it in the set, and the field reads  *)
(* as its plaintext only when the set is empty.                            *)
(*                                                                         *)
(* The session driver that calls these functions (not under src/) is      *)
(* taken from spec 4.1: each router has one initiator and one responder   *)
(* slot, a failed verification ends the run, and a caller may drop a run   *)
(* and start another (spec 5).                                             *)
(***************************************************************************)
EXTENDS Naturals, FiniteSets

CONSTANTS
  Honest,         \* routers that follow the protocol
  Initiators,     \* the honest routers that start handshakes
  Attackers,      \* routers whose keys the attacker holds
  Nonces,         \* values randbytes may produce for a nonce
  Tokens,         \* values a responder may draw as session token
  AttackerTokens, \* token values the attacker makes up
  MaxRuns,        \* handshakes a slot may start
  MaxAttacks,     \* packets the attacker may forge or alter
  Garbage         \* what a field decrypted under a wrong keystream reads as

ASSUME /\ Initiators \subseteq Honest /\ Honest \cap Attackers = {}
       /\ MaxRuns \in Nat \ {0} /\ MaxAttacks \in Nat
       /\ Garbage \notin Honest \cup Attackers \cup Tokens \cup AttackerTokens

Nodes == Honest \cup Attackers

VARIABLES
  ini,      \* ini[a]: initiator slot of a
  rsp,      \* rsp[b]: responder slot of b
  net,      \* packets sent: never removed, so any may be (re)delivered
  fresh,    \* nonces and tokens no router has drawn yet
  issued,   \* history: <<b, a, n, t>> when b sent token t to a for intro nonce n
  iniKeys,  \* history: <<a, b, K>> when a derived session key K with b
  attacks   \* packets the attacker has forged or altered

vars == <<ini, rsp, net, fresh, issued, iniKeys, attacks>>

-----------------------------------------------------------------------------
(* Symbolic cryptography (the udap_crypto primitives, outside src/)        *)

\* Every key is a tagged 4-tuple, so that sets of keystreams stay ordered.
Key(c, s, n) == <<"TKE", c, s, n>>
\* transport_dh_client(out, remote, local secret, n) and _server.
DHClient(remote, local, n) == Key(local, remote, n)
DHServer(remote, local, n) == Key(remote, local, n)
HS(x, n) == <<"HS", x, x, n>>
\* The keystream of bits the attacker flips.
Flip == <<"FLIP", Garbage, Garbage, Garbage>>
MDS(k, body) == [key |-> k, body |-> body]
Plain(v) == [pt |-> v, ks |-> {}]
\* xchacha20(buf, k, n): XOR with the keystream of (k, n).
SE(field, k, n) == [field EXCEPT !.ks = IF <<k, n>> \in @ THEN @ \ {<<k, n>>}
                                                           ELSE @ \cup {<<k, n>>}]
\* The bytes of a field as a value.
Read(field) == IF field.ks = {} THEN field.pt ELSE Garbage

\* A packet: MAC(0..32) nonce(32..64) field(64..96), and the transport
\* address it is sent to.  The type is the link header's message kind: no
\* verify function reads it and no MAC covers it.
Packet(type, dst, mac, n, x) == [type |-> type, dst |-> dst, mac |-> mac, n |-> n, x |-> x]
Types == {"intro", "introack", "sessionstart"}

\* The session driver (spec 4.1, outside src/) hands a packet of a kind to
\* the slot that expects that kind; the verify function sees only the bytes.
Delivered(p, type, r) == p.type = type /\ p.dst = r

\* The MAC covers buf+32 .. sz: the nonce and the field.
Body(n, x) == <<n, x>>

-----------------------------------------------------------------------------
(* The handshake functions                                                 *)

\* gen_intro: S = TKE(a, b, n); e_k = HS(b.k + n); e = SE(a.k, e_k, n);
\* h = MDS(n + e, S).
GenIntroPacket(a, b, n) ==
  LET x == SE(Plain(a), HS(b, n), n)
  IN  Packet("intro", b, MDS(DHClient(b, a, n), Body(n, x)), n, x)

\* verify_intro at b: e_k = HS(b.k + n); a.k = SD(x, e_k, n); S = TKE(a, b, n);
\* the packet is good when MDS(n + x, S) equals the MAC.  The claimed key
\* is written to remote_pubkey whatever the outcome.
IntroClaim(b, p) == Read(SE(p.x, HS(b, p.n), p.n))
\* Mutants: the MAC comparison dropped; the DH taken in the client role.
VerifyIntroNoMac(b, p) == TRUE
VerifyIntroClientRole(b, p) ==
  MDS(DHClient(IntroClaim(b, p), b, p.n), Body(p.n, p.x)) = p.mac
VerifyIntroOK(b, p) ==
  MDS(DHServer(IntroClaim(b, p), b, p.n), Body(p.n, p.x)) = p.mac

\* gen_introack at b: S = TKE(a, b, n); x = SE(S, token, n); h = MDS(n + x, S).
GenIntroAckPacket(b, a, n, t) ==
  LET S == DHServer(a, b, n)
      x == SE(Plain(t), S, n)
  IN  Packet("introack", a, MDS(S, Body(n, x)), n, x)

\* verify_introack at a, nonce read from the packet: S = TKE(a, b, n),
\* digest = MDS(n + x, S); on a match token = SD(S, x, n).
IntroAckKey(a, b, p) == DHClient(b, a, p.n)
VerifyIntroAckOK(a, b, p) == MDS(IntroAckKey(a, b, p), Body(p.n, p.x)) = p.mac
IntroAckToken(a, b, p) == Read(SE(p.x, IntroAckKey(a, b, p), p.n))

\* gen_session_start at a: T = HS(token + N); e_K = TKE(a, b, N);
\* K = TKE(a, b, T); x = SE(e_K, token, N); h = MDS(N + x, e_K).
SessionKeyClient(a, b, t, n) == DHClient(b, a, HS(t, n))
GenSessionStartPacket(a, b, t, n) ==
  LET eK == DHClient(b, a, n)
      x  == SE(Plain(t), eK, n)
  IN  Packet("sessionstart", b, MDS(eK, Body(n, x)), n, x)

\* verify_session_start at b: e_K = TKE(a, b, N); on a MAC match decrypt
\* the token and compare it with the one b sent; on a match
\* K = TKE(a, b, HS(token + N)).
SessionStartKey(b, a, p) == DHServer(a, b, p.n)
VerifySessionStartMAC(b, a, p) == MDS(SessionStartKey(b, a, p), Body(p.n, p.x)) = p.mac
VerifySessionStartToken(b, a, t, p) == Read(SE(p.x, SessionStartKey(b, a, p), p.n)) = t
\* Mutant: K derived with the client-role DH.
SessionKeyServerClientRole(b, a, t, n) == DHClient(a, b, HS(t, n))
SessionKeyServer(b, a, t, n) == DHServer(a, b, HS(t, n))

-----------------------------------------------------------------------------
(* Slots                                                                   *)

NoVal == Garbage
IdleSlot(r) == [st |-> "idle", peer |-> NoVal, n |-> NoVal, tok |-> NoVal,
                K |-> NoVal, runs |-> r]

IniStates == {"idle", "introSent", "ackVerified", "established", "failed"}
RspStates == {"idle", "introVerified", "ackSent", "established", "failed"}

TypeOK ==
  /\ \A a \in Honest : /\ ini[a].st \in IniStates /\ ini[a].runs \in 0..MaxRuns
                       /\ rsp[a].st \in RspStates /\ rsp[a].runs \in 0..MaxRuns
  /\ fresh \subseteq Nonces \cup Tokens
  /\ attacks \in 0..MaxAttacks
  /\ \A b \in Honest : rsp[b].st \in {"ackSent", "established"} => rsp[b].tok \in Tokens
  /\ \A p \in net : p.type \in Types /\ p.dst \in Nodes

Send(p) == net' = net \cup {p}

-----------------------------------------------------------------------------
(* Honest routers                                                          *)

\* a starts a handshake with b: gen_intro with a fresh nonce.
GenIntro(a) ==
  /\ a \in Initiators
  /\ ini[a].st = "idle" /\ ini[a].runs < MaxRuns
  /\ \E b \in Nodes \ {a}, n \in fresh \cap Nonces :
       /\ Send(GenIntroPacket(a, b, n))
       /\ fresh' = fresh \ {n}
       /\ ini' = [ini EXCEPT ![a] = [IdleSlot(@.runs + 1) EXCEPT
                                       !.st = "introSent", !.peer = b, !.n = n]]
  /\ UNCHANGED <<rsp, issued, iniKeys, attacks>>

\* b receives an intro: verify_intro; on a bad MAC the run fails.
VerifyIntro(b) ==
  /\ rsp[b].st = "idle" /\ rsp[b].runs < MaxRuns
  /\ \E p \in net :
       /\ Delivered(p, "intro", b)
       /\ rsp' = [rsp EXCEPT ![b] =
                    IF VerifyIntroOK(b, p)
                    THEN [IdleSlot(@.runs + 1) EXCEPT !.st = "introVerified",
                            !.peer = IntroClaim(b, p), !.n = p.n]
                    ELSE [IdleSlot(@.runs + 1) EXCEPT !.st = "failed"]]
  /\ UNCHANGED <<ini, net, fresh, issued, iniKeys, attacks>>

\* Mutant: the token is sent but not kept.
GenIntroAckNoTok(b) ==
  /\ rsp[b].st = "introVerified"
  /\ \E t \in fresh \cap Tokens, n \in fresh \cap Nonces :
       /\ Send(GenIntroAckPacket(b, rsp[b].peer, n, t))
       /\ fresh' = fresh \ {t, n}
       /\ issued' = issued \cup {<<b, rsp[b].peer, rsp[b].n, t>>}
       /\ rsp' = [rsp EXCEPT ![b].st = "ackSent"]
  /\ UNCHANGED <<ini, iniKeys, attacks>>

\* b answers: a fresh token and nonce, gen_introack.
GenIntroAck(b) ==
  /\ rsp[b].st = "introVerified"
  /\ \E t \in fresh \cap Tokens, n \in fresh \cap Nonces :
       /\ Send(GenIntroAckPacket(b, rsp[b].peer, n, t))
       /\ fresh' = fresh \ {t, n}
       /\ issued' = issued \cup {<<b, rsp[b].peer, rsp[b].n, t>>}
       /\ rsp' = [rsp EXCEPT ![b].st = "ackSent", ![b].tok = t]
  /\ UNCHANGED <<ini, iniKeys, attacks>>

\* a receives an introack from its peer: verify_introack.
VerifyIntroAck(a) ==
  /\ ini[a].st = "introSent"
  /\ \E p \in net :
       LET b == ini[a].peer
       IN  /\ Delivered(p, "introack", a)
           /\ ini' = [ini EXCEPT ![a] =
                        IF VerifyIntroAckOK(a, b, p)
                        THEN [@ EXCEPT !.st = "ackVerified", !.tok = IntroAckToken(a, b, p)]
                        ELSE [@ EXCEPT !.st = "failed"]]
  /\ UNCHANGED <<rsp, net, fresh, issued, iniKeys, attacks>>

\* a sends the session start under a fresh nonce and holds K.
GenSessionStart(a) ==
  /\ ini[a].st = "ackVerified"
  /\ \E n \in fresh \cap Nonces :
       LET K == SessionKeyClient(a, ini[a].peer, ini[a].tok, n)
       IN  /\ Send(GenSessionStartPacket(a, ini[a].peer, ini[a].tok, n))
           /\ fresh' = fresh \ {n}
           /\ iniKeys' = iniKeys \cup {<<a, ini[a].peer, K>>}
           /\ ini' = [ini EXCEPT ![a].st = "established", ![a].K = K]
  /\ UNCHANGED <<rsp, issued, attacks>>

\* b receives a session start: verify_session_start.
VerifySessionStart(b) ==
  /\ rsp[b].st = "ackSent"
  /\ \E p \in net :
       /\ Delivered(p, "sessionstart", b)
       /\ LET a == rsp[b].peer
              ok == /\ VerifySessionStartMAC(b, a, p)
                    /\ VerifySessionStartToken(b, a, rsp[b].tok, p)
          IN  rsp' = [rsp EXCEPT ![b] =
                        IF ok THEN [@ EXCEPT !.st = "established",
                                      !.K = SessionKeyServer(b, a, rsp[b].tok, p.n)]
                        ELSE [@ EXCEPT !.st = "failed"]]
  /\ UNCHANGED <<ini, net, fresh, issued, iniKeys, attacks>>

\* The caller drops a run (time-out, failure or teardown) and may start
\* another one.
DropInitiator(a) ==
  /\ ini[a].st # "idle"
  /\ ini' = [ini EXCEPT ![a] = IdleSlot(@.runs)]
  /\ UNCHANGED <<rsp, net, fresh, issued, iniKeys, attacks>>

DropResponder(b) ==
  /\ rsp[b].st # "idle"
  /\ rsp' = [rsp EXCEPT ![b] = IdleSlot(@.runs)]
  /\ UNCHANGED <<ini, net, fresh, issued, iniKeys, attacks>>

-----------------------------------------------------------------------------
(* The attacker                                                            *)

\* Keys the attacker holds for a packet to d under nonce n.
AttackerKeys(d, n) == {Key(m, d, n) : m \in Attackers} \cup {Key(d, m, n) : m \in Attackers}

\* Tokens the attacker can read: its own, and those sent to its routers.
KnownTokens == AttackerTokens \cup {e[4] : e \in {x \in issued : x[2] \in Attackers}}

Attack(p) ==
  /\ attacks < MaxAttacks
  /\ Send(p)
  /\ attacks' = attacks + 1
  /\ UNCHANGED <<ini, rsp, fresh, issued, iniKeys>>

\* Send a sent packet on to another router, or under another message kind
\* in the unauthenticated header, or both.  Counts as an attack.
Redirect ==
  \E p \in net, d \in Honest, type \in Types :
    /\ <<d, type>> # <<p.dst, p.type>>
    /\ Attack([p EXCEPT !.dst = d, !.type = type])

\* Flip bits of the field, or replace the nonce or the MAC.
Tamper ==
  \E p \in net :
    \/ Attack([p EXCEPT !.x = SE(@, Flip, Garbage)])
    \/ \E n \in Nonces \ {p.n} : Attack([p EXCEPT !.n = n])
    \/ Attack([p EXCEPT !.mac = MDS(Flip, @.body)])

\* Build a packet under a key the attacker holds: an intro claiming any
\* router, an introack or a session start carrying a token it knows.
Forge ==
  \E d \in Honest, n \in Nonces :
    \E k \in AttackerKeys(d, n) :
      \/ \E c \in Nodes :
           LET x == SE(Plain(c), HS(d, n), n)
           IN  Attack(Packet("intro", d, MDS(k, Body(n, x)), n, x))
      \/ \E t \in KnownTokens, type \in {"introack", "sessionstart"} :
           LET x == SE(Plain(t), k, n)
           IN  Attack(Packet(type, d, MDS(k, Body(n, x)), n, x))

-----------------------------------------------------------------------------

Init ==
  /\ ini = [a \in Honest |-> IdleSlot(0)]
  /\ rsp = [b \in Honest |-> IdleSlot(0)]
  /\ net = {}
  /\ fresh = Nonces \cup Tokens
  /\ issued = {}
  /\ iniKeys = {}
  /\ attacks = 0

HonestStep(r) ==
  \/ GenIntro(r) \/ VerifyIntro(r) \/ GenIntroAck(r) \/ VerifyIntroAck(r)
  \/ GenSessionStart(r) \/ VerifySessionStart(r)

Next ==
  \/ \E r \in Honest : HonestStep(r) \/ DropInitiator(r) \/ DropResponder(r)
  \/ Redirect \/ Tamper \/ Forge

\* Without an attacker and without dropped runs: every handshake step is
\* taken once enabled (the worker pool runs every queued job and the
\* transport eventually delivers a packet sent).
HonestNext == \E r \in Honest : HonestStep(r)
FairSpec == Init /\ [][HonestNext]_vars /\ \A r \in Honest : WF_vars(HonestStep(r))

Spec == Init /\ [][Next]_vars

-----------------------------------------------------------------------------
(* Properties                                                              *)

\* verify_intro accepts an intro as coming from an honest router a only if
\* a itself ran gen_intro towards b with that nonce: whatever the network
\* and the attacker deliver to b's responder slot, the key it decrypts
\* and the DH that keys the MAC bind the claimed sender.
IntroAuthentic ==
  \A b \in Honest :
    rsp[b].st \in {"introVerified", "ackSent", "established"} /\ rsp[b].peer \in Honest
      => GenIntroPacket(rsp[b].peer, b, rsp[b].n) \in net

\* Spec 8 (both sides compute the same K): a responder whose
\* verify_session_start accepted a session start from an honest router a
\* holds a key that a derived with it in gen_session_start.
KeyAgreement ==
  \A b \in Honest :
    rsp[b].st = "established" /\ rsp[b].peer \in Honest
      => <<rsp[b].peer, b, rsp[b].K>> \in iniKeys

\* Every handshake between honest routers over a transport that delivers
\* completes with both sides holding the same key.
HandshakeCompletes ==
  \A a, b \in Honest :
    (ini[a].st = "introSent" /\ ini[a].peer = b)
      ~> (ini[a].st = "established" /\ rsp[b].st = "established" /\ rsp[b].K = ini[a].K)

=============================================================================
