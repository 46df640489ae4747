---------------------------- MODULE PathLifecycle ---------------------------
(***************************************************************************)
(* One own Path of src/udap/path.cpp 261-420: the constructor chaining the *)
(* hop IDs, the onion transform of HandleUpstream / HandleDownstream, and  *)
(* the routing messages that drive it: PathConfirm sets the path up, runs  *)
(* the build hook and sends a PathLatency probe upstream; the echo of the  *)
(* probe comes back downstream and gives the latency.                      *)
(*                                                                         *)
(* The relays and the far endpoint are TransitHops outside src/: from spec *)
(* 4.3 and 9 each hop applies its own layer once per traversal (spec      *)
(* modelled).  The network reorders (frames in flight are a set) and the   *)
(* endpoint may repeat its confirmation.                                   *)
(*                                                                         *)
(* A routing message is [kind, L, ks]: its kind, the latency token L, and  *)
(* the keystreams <<i, Y>> (hop i's shared secret, nonce Y) XORed onto it; *)
(* it parses only when ks is empty.                                        *)
(***************************************************************************)
EXTENDS Naturals, Sequences, FiniteSets

CONSTANTS
  HopCounts,   \* numbers of hops the path builder asks for
  PathIDs,     \* values PathID_t::Randomize may give
  Tokens,      \* values rand() may give
  Nonces,      \* values TunnelNonce::Randomize may give
  MaxTime,     \* bound on udap_time_now_ms()
  MaxConfirms, \* bound on the PathConfirms the far end sends
  BuildTimeout, \* PATH_BUILD_TIMEOUT (defined outside this repository)
  Lifetimes,   \* values the path builder may give hops[0].lifetime
  NoToken,     \* m_LastLatencyTestID before any probe
  NoLatency    \* Latency before any measurement

ASSUME HopCounts \subseteq Nat \ {0} /\ MaxTime \in Nat /\ MaxConfirms \in Nat
       /\ BuildTimeout \in Nat /\ Lifetimes \subseteq Nat

VARIABLES
  hops,          \* Seq of [tx, rx]; hop i's shared secret is i
  lifetime,      \* hops[0].lifetime
  status,        \* "none" (not yet built), "building", "established",
                 \* "removed" (swept by the path builder and freed)
  buildStarted,  \* set by the path builder when it constructs the path
  now,           \* udap_time_now_ms()
  hook,          \* m_BuiltHook: "set" or "null"
  hookCalls,     \* times m_BuiltHook has been called
  lastTestID,    \* m_LastLatencyTestID
  lastTestTime,  \* m_LastLatencyTestTime
  latency,       \* Latency
  up,            \* frames [pathid, X, Y] sent toward hop 0, in flight
  down,          \* frames [X, Y] arriving from hop 0, in flight
  confirms       \* PathConfirms the far end has sent

vars == <<hops, lifetime, status, buildStarted, now, hook, hookCalls, lastTestID,
          lastTestTime, latency, up, down, confirms>>

Msg(kind, l) == [kind |-> kind, L |-> l, ks |-> {}]

\* XOR of the keystreams of hops lo..hi under nonce Y.
Xor(X, lo, hi, Y) ==
  [X EXCEPT !.ks = (@ \ {<<i, Y>> : i \in lo..hi}) \cup ({<<i, Y>> : i \in lo..hi} \ @)]

Parses(X) == X.ks = {}

-----------------------------------------------------------------------------
(* The path                                                                *)

\* Path::Path: random txID and rxID per hop, then hops[idx].txID =
\* hops[idx + 1].rxID for idx < numHops - 1.
Chain(tx, rx, N) ==
  [i \in 1..N |-> [tx |-> IF i < N THEN rx[i + 1] ELSE tx[i], rx |-> rx[i]]]

\* The path builder constructs the path, sets its build hook and records
\* the build start; the path starts Building (spec 3, 4.3).
Construct ==
  /\ status = "none"
  /\ \E N \in HopCounts :
       \E tx \in [1..N -> PathIDs], rx \in [1..N -> PathIDs] : hops' = Chain(tx, rx, N)
  /\ lifetime' \in Lifetimes
  /\ status' = "building"
  /\ buildStarted' = now
  /\ hook' = "set"
  /\ UNCHANGED <<now, hookCalls, lastTestID, lastTestTime, latency, up, down, confirms>>

\* Mutant: the loop over hops stops one short.
HandleUpstreamSkipLast(X, Y) ==
  [pathid |-> hops[1].tx, X |-> Xor(X, 1, Len(hops) - 1, Y), Y |-> Y]

\* HandleUpstream: xchacha20 under every hop's shared secret and Y, tagged
\* with TXID() (hop 0's txID), sent toward Upstream().
HandleUpstream(X, Y) ==
  [pathid |-> hops[1].tx, X |-> Xor(X, 1, Len(hops), Y), Y |-> Y]

\* SendRoutingMessage: encode, draw a nonce, HandleUpstream.
SendRoutingMessage(m) == {HandleUpstream(m, Y) : Y \in Nonces}

\* Mutant: the `status == ePathBuilding` test dropped.
HandlePathConfirmNoGuard(m) ==
  /\ status' = "established"
  /\ hookCalls' = IF hook = "set" THEN hookCalls + 1 ELSE hookCalls
  /\ hook' = "null"
  /\ \E T \in Tokens, f \in SendRoutingMessage(Msg("latency", 0)) :
       /\ lastTestID' = T
       /\ up' = up \cup {[f EXCEPT !.X.L = T]}
  /\ lastTestTime' = now
  /\ UNCHANGED latency

\* HandlePathConfirmMessage: only while Building: Established, call and
\* clear the hook, store a probe token T = rand() and the time, and send
\* PathLatency{T} upstream.  Otherwise logged and ignored.
HandlePathConfirm(m) ==
  /\ IF status = "building"
     THEN /\ status' = "established"
          /\ hookCalls' = IF hook = "set" THEN hookCalls + 1 ELSE hookCalls
          /\ hook' = "null"
          /\ \E T \in Tokens, f \in SendRoutingMessage(Msg("latency", 0)) :
               /\ lastTestID' = T
               /\ up' = up \cup {[f EXCEPT !.X.L = T]}
          /\ lastTestTime' = now
     ELSE UNCHANGED <<status, hookCalls, hook, lastTestID, lastTestTime, up>>
  /\ UNCHANGED latency

\* Mutant: the subtraction's operands swapped.
HandlePathLatencySwapped(m) ==
  /\ latency' = IF m.L = lastTestID THEN lastTestTime - now ELSE latency
  /\ UNCHANGED <<status, hookCalls, hook, lastTestID, lastTestTime, up>>

\* HandlePathLatencyMessage: a reply carrying the last token sets Latency.
HandlePathLatency(m) ==
  /\ latency' = IF m.L = lastTestID THEN now - lastTestTime ELSE latency
  /\ UNCHANGED <<status, hookCalls, hook, lastTestID, lastTestTime, up>>

\* HandlePathTransferMessage: an own path is not a transfer endpoint; the
\* message is logged and refused.
HandlePathTransfer(m) ==
  UNCHANGED <<status, hookCalls, hook, lastTestID, lastTestTime, up, latency>>

\* HandleDHTMessage: not implemented, refused.
HandleDHT(m) ==
  UNCHANGED <<status, hookCalls, hook, lastTestID, lastTestTime, up, latency>>

\* InboundMessageParser's dispatch of a parsed routing message by kind.
Dispatch(X) ==
  CASE X.kind = "confirm"  -> HandlePathConfirm(X)
    [] X.kind = "latency"  -> HandlePathLatency(X)
    [] X.kind = "transfer" -> HandlePathTransfer(X)
    [] X.kind = "dht"      -> HandleDHT(X)

\* HandleDownstream: xchacha20 under every hop's secret and the frame's
\* nonce, then HandleRoutingMessage: a buffer that does not parse is
\* dropped, otherwise dispatched by kind.
HandleDownstream(f) ==
  LET X == Xor(f.X, 1, Len(hops), f.Y)
  IN  /\ status \in {"building", "established"}
      /\ down' = down \ {f}
      /\ IF ~Parses(X)
         THEN UNCHANGED <<status, hookCalls, hook, lastTestID, lastTestTime, up, latency>>
         ELSE Dispatch(X)
      /\ UNCHANGED <<hops, lifetime, buildStarted, now, confirms>>

\* Mutant: the two timeouts swapped, the build timeout applied to an
\* established path and the hop lifetime to one still building.
ExpiredSwapped(t) ==
  CASE status = "established" -> t - buildStarted > BuildTimeout
    [] status = "building"    -> t - buildStarted > lifetime
    [] OTHER                  -> TRUE

\* Path::Expired(now): an established path outlives its build start by
\* hops[0].lifetime, a building one by PATH_BUILD_TIMEOUT; any other
\* status counts as expired.
Expired(t) ==
  CASE status = "established" -> t - buildStarted > lifetime
    [] status = "building"    -> t - buildStarted > BuildTimeout
    [] OTHER                  -> TRUE

\* PathContext::ExpirePaths hands own paths to builder->ExpirePaths(now)
\* (the path builder is outside src/; spec 4.4 and 7: an expired path is
\* removed and freed, not notified).  Frames for it are dropped from then on.
BuilderExpire ==
  /\ status \in {"building", "established"}
  /\ Expired(now)
  /\ status' = "removed"
  /\ UNCHANGED <<hops, lifetime, buildStarted, now, hook, hookCalls, lastTestID,
                 lastTestTime, latency, up, down, confirms>>

-----------------------------------------------------------------------------
(* The relays and the far end (TransitHops, outside src/)                  *)

\* The hops' layers, one per hop on the way: the frame's keystreams of
\* every hop are XORed once more.
Traverse(X, Y) == Xor(X, 1, Len(hops), Y)

\* The far end, once the commit has reached it, confirms the path; it may
\* do so more than once, and may also send a path transfer or a DHT
\* message down the path.
EndpointConfirm ==
  /\ status # "none" /\ confirms < MaxConfirms
  /\ confirms' = confirms + 1
  /\ \E kind \in {"confirm", "transfer", "dht"}, Y \in Nonces :
       down' = down \cup {[X |-> Traverse(Msg(kind, 0), Y), Y |-> Y]}
  /\ UNCHANGED <<hops, lifetime, status, buildStarted, now, hook, hookCalls, lastTestID,
                 lastTestTime, latency, up>>

\* An upstream frame crosses the relays; the far end parses it and echoes
\* a PathLatency probe's token back downstream.
EndpointEcho(f) ==
  LET X == Traverse(f.X, f.Y)
  IN  /\ up' = up \ {f}
      /\ IF Parses(X) /\ X.kind = "latency"
         THEN \E Y \in Nonces : down' = down \cup {[X |-> Traverse(Msg("latency", X.L), Y), Y |-> Y]}
         ELSE UNCHANGED down
      /\ UNCHANGED <<hops, lifetime, status, buildStarted, now, hook, hookCalls, lastTestID,
                     lastTestTime, latency, confirms>>

\* The clock; the path builder's timer.  Only differences of times enter
\* the code (Expired, Latency), so the clock is started with the build.
Tick ==
  /\ status # "none" /\ now < MaxTime
  /\ now' = now + 1
  /\ UNCHANGED <<hops, lifetime, status, buildStarted, hook, hookCalls, lastTestID,
                 lastTestTime, latency, up, down, confirms>>

-----------------------------------------------------------------------------

Init ==
  /\ hops = <<>>
  /\ lifetime = 0
  /\ status = "none"
  /\ buildStarted = 0
  /\ now = 0
  /\ hook = "null"
  /\ hookCalls = 0
  /\ lastTestID = NoToken
  /\ lastTestTime = 0
  /\ latency = NoLatency
  /\ up = {}
  /\ down = {}
  /\ confirms = 0

Next ==
  \/ Construct
  \/ EndpointConfirm
  \/ \E f \in up : EndpointEcho(f)
  \/ \E f \in down : HandleDownstream(f)
  \/ BuilderExpire
  \/ Tick

\* The far end and the relays forward what they get, and the logic thread
\* handles every frame that arrives.  The clock advances and the router's
\* periodic tick runs the sweep (spec 7).  The far end is not fair: a
\* commit or its confirmation may be lost.
Fairness ==
  /\ WF_vars(\E f \in up : EndpointEcho(f))
  /\ WF_vars(\E f \in down : HandleDownstream(f))
  /\ WF_vars(Tick)
  /\ WF_vars(BuilderExpire)

Spec == Init /\ [][Next]_vars /\ Fairness

-----------------------------------------------------------------------------
(* Properties                                                              *)

TypeOK ==
  /\ status \in {"none", "building", "established", "removed"}
  /\ lifetime \in {0} \cup Lifetimes
  /\ \E N \in {0} \cup HopCounts : hops \in [1..N -> [tx : PathIDs, rx : PathIDs]]
  /\ now \in 0..MaxTime /\ buildStarted \in 0..now /\ lastTestTime \in 0..now
  /\ hook \in {"set", "null"} /\ hookCalls \in Nat
  /\ lastTestID \in Tokens \cup {NoToken}
  /\ latency \in 0..MaxTime \cup {NoLatency}

\* The Path implements AbstractPath: PathConfirm takes it from Building to
\* Established once, firing the build hook exactly then and sending one
\* probe; a later PathConfirm changes nothing; PathLatency is measured only
\* against an outstanding probe.
Abs == INSTANCE AbstractPath WITH
         astatus <- status, hooked <- hookCalls, probe <- lastTestID,
         measured <- (latency # NoLatency)
AbstractPathSpec == Abs!ASpec

\* Spec 4.3 and 8: every established path gets its latency measured, the
\* probe crossing every relay to the far end and its echo coming back.
LatencyMeasured == status = "established" ~> latency # NoLatency \/ status = "removed"

\* Spec 4.3, 4.4 and 7: a path never hangs in Building.  If no confirmation
\* comes back (the commit or the PathConfirm lost), Path::Expired turns
\* true after the build timeout and the sweep removes it.
BuildResolves == status = "building" ~> status \in {"established", "removed"}

====
