----------------------------- MODULE Envelope -----------------------------
(***************************************************************************)
(* The encrypted envelope of src/udap/encrypted_frame.cpp:                 *)
(*   hash(32) | nonce(32) | sender pubkey(32) | body                       *)
(* EncryptedFrame::EncryptInPlace seals a record for one recipient and     *)
(* EncryptedFrame::DecryptInPlace opens it.  Each envelope object e is     *)
(* sealed by its sender, travels once (as sent, altered in one field,      *)
(* truncated, or re-MACed by an attacker router under its own key) to one  *)
(* router, which opens its copy in place.                                  *)
(*                                                                         *)
(* Keys are symbolic: TKE(c, s, n) is <<c, s, n>>; dh_client(S, remote,    *)
(* local, n) gives TKE(local, remote, n) and dh_server(S, remote, local,   *)
(* n) gives TKE(remote, local, n); both fail on a low-order public key.    *)
(* A body is [pt, ks] with the stream cipher toggling <<S, n>> in ks; the  *)
(* sizes are the payload lengths, the buffer being Overhead + len bytes.   *)
(***************************************************************************)
EXTENDS Naturals, FiniteSets

CONSTANTS
  Honest,     \* routers following the code
  Attackers,  \* routers with keys of their own that alter what they relay
  Envs,       \* EncryptedFrame objects
  Nonces,     \* values crypto->randbytes may give
  Plain,      \* record plaintexts
  Lens,       \* payload lengths in bytes (the frame is Overhead + len)
  Low,        \* a low-order public key: DH with it fails
  Flip        \* a key nobody holds: the keystream of a bit flip

Routers == Honest \cup Attackers

\* EncryptedFrame::OverheadSize: hash, nonce and public key.
Overhead == 96

ASSUME /\ Honest # {} /\ Lens \subseteq Nat
       /\ Low \notin Routers /\ Flip \notin Routers

VARIABLES
  from,     \* from[e]: the router whose secret key seals e
  to,       \* to[e]: the public key EncryptInPlace is given
  pt,       \* pt[e]: the record's plaintext
  buf,      \* buf[e]: the sender's buffer
  st,       \* st[e]: "new", "sealed", "failed" (EncryptInPlace returned false)
  rcpt,     \* rcpt[e]: the router that received a copy, or Low before
  arrived,  \* arrived[e]: the copy as it arrived (history)
  rbuf,     \* rbuf[e]: the receiver's buffer
  rst       \* rst[e]: "none", "arrived", "accepted", "rejected"

vars == <<from, to, pt, buf, st, rcpt, arrived, rbuf, rst>>

-----------------------------------------------------------------------------
(* Symbolic crypto                                                         *)

TKE(c, s, n) == <<c, s, n>>

Toggle(S, x) == IF x \in S THEN S \ {x} ELSE S \cup {x}

\* crypto->xchacha20(body, S, nonce).
XChaCha(body, k, n) == [body EXCEPT !.ks = Toggle(@, <<k, n>>)]

\* crypto->hmac(hash, nonce + pubkey + body, S).
MDS(k, f) == [key |-> k, n |-> f.nonce, pk |-> f.pubkey, body |-> f.body]

PubKeys == Routers \cup {Low}

Keys == {TKE(c, s, n) : c \in PubKeys, s \in Routers, n \in Nonces} \cup {Flip}

Bodies == [pt : Plain, ks : SUBSET (Keys \X Nonces)]

\* A buffer: len is size() - Overhead.
Frame(h, n, pk, b, len) == [hash |-> h, nonce |-> n, pubkey |-> pk, body |-> b, len |-> len]

-----------------------------------------------------------------------------
(* The codec                                                               *)

\* Mutant: the header's public key is never written.
EncryptInPlaceNoPubkey(f, sk, other, n) ==
  IF other = Low THEN [ok |-> FALSE, frame |-> [f EXCEPT !.nonce = n]]
  ELSE LET S == TKE(sk, other, n)
           g == [f EXCEPT !.nonce = n, !.body = XChaCha(@, S, n)]
       IN  [ok |-> TRUE, frame |-> [g EXCEPT !.hash = MDS(S, g)]]

\* EncryptInPlace(ourSecretKey, otherPubkey) with the nonce randbytes gave:
\* write our public key, randomize the nonce, dh_client (false on a bad
\* key), encrypt the body, then hmac nonce, pubkey and ciphertext.  There
\* is no size check.
EncryptInPlace(f, sk, other, n) ==
  IF other = Low THEN [ok |-> FALSE, frame |-> [f EXCEPT !.pubkey = sk, !.nonce = n]]
  ELSE LET S == TKE(sk, other, n)
           g == [f EXCEPT !.pubkey = sk, !.nonce = n, !.body = XChaCha(@, S, n)]
       IN  [ok |-> TRUE, frame |-> [g EXCEPT !.hash = MDS(S, g)]]

\* Mutant: a size check off by one.
DecryptInPlaceOffByOne(f, sk) ==
  IF f.len <= 1 \/ f.pubkey = Low THEN [ok |-> FALSE, frame |-> f]
  ELSE LET S == TKE(f.pubkey, sk, f.nonce)
       IN  IF MDS(S, f) # f.hash THEN [ok |-> FALSE, frame |-> f]
           ELSE [ok |-> TRUE, frame |-> [f EXCEPT !.body = XChaCha(@, S, f.nonce)]]

\* Mutant: the `return false` after "message authentication failed"
\* dropped: a mismatch falls through to the success return, undecrypted.
DecryptInPlaceNoReturn(f, sk) ==
  IF f.len = 0 \/ f.pubkey = Low THEN [ok |-> FALSE, frame |-> f]
  ELSE LET S == TKE(f.pubkey, sk, f.nonce)
       IN  IF MDS(S, f) # f.hash THEN [ok |-> TRUE, frame |-> f]
           ELSE [ok |-> TRUE, frame |-> [f EXCEPT !.body = XChaCha(@, S, f.nonce)]]

\* Mutant: decrypt in place first, then authenticate.
DecryptInPlaceDecryptFirst(f, sk) ==
  IF f.len = 0 \/ f.pubkey = Low THEN [ok |-> FALSE, frame |-> f]
  ELSE LET S == TKE(f.pubkey, sk, f.nonce)
           g == [f EXCEPT !.body = XChaCha(@, S, f.nonce)]
       IN  [ok |-> MDS(S, f) = f.hash, frame |-> g]

\* DecryptInPlace(ourSecretKey): reject size() <= OverheadSize; dh_server
\* with the header's public key and nonce (false on a bad key); hmac the
\* nonce, pubkey and body and compare with the stored hash; only on a
\* match decrypt the body in place.
DecryptInPlace(f, sk) ==
  IF f.len = 0 \/ f.pubkey = Low THEN [ok |-> FALSE, frame |-> f]
  ELSE LET S == TKE(f.pubkey, sk, f.nonce)
       IN  IF MDS(S, f) # f.hash THEN [ok |-> FALSE, frame |-> f]
           ELSE [ok |-> TRUE, frame |-> [f EXCEPT !.body = XChaCha(@, S, f.nonce)]]

-----------------------------------------------------------------------------
(* What can reach the receiver                                             *)

\* The copy a router r gets of the sealed frame f: as sent; with the body,
\* hash or nonce altered; with another public key in the header; cut to
\* the header; or, when an attacker relays it, re-MACed under the key the
\* attacker shares with r for a header naming the attacker.
Copies(f, r) ==
  {f,
   [f EXCEPT !.hash = [@ EXCEPT !.key = Flip]],
   [f EXCEPT !.len = 0]}
  \cup (IF f.len > 0 THEN {[f EXCEPT !.body = XChaCha(@, Flip, f.nonce)]} ELSE {})
  \cup {[f EXCEPT !.nonce = n] : n \in Nonces \ {f.nonce}}
  \cup {[f EXCEPT !.pubkey = k] : k \in PubKeys \ {f.pubkey}}
  \cup {LET g == [f EXCEPT !.pubkey = m] IN [g EXCEPT !.hash = MDS(TKE(m, r, f.nonce), g)]
          : m \in Attackers}

-----------------------------------------------------------------------------

TypeOK ==
  /\ from \in [Envs -> Routers] /\ to \in [Envs -> Honest \cup {Low}]
  /\ pt \in [Envs -> Plain]
  /\ st \in [Envs -> {"new", "sealed", "failed"}]
  /\ rst \in [Envs -> {"none", "arrived", "accepted", "rejected"}]
  /\ rcpt \in [Envs -> Honest \cup {Low}]
  /\ \A e \in Envs : /\ buf[e].len \in Lens /\ buf[e].body \in Bodies
                     /\ st[e] = "sealed" => (buf[e].pubkey \in Routers /\ buf[e].nonce \in Nonces)
                     /\ rst[e] # "none" => rcpt[e] \in Honest

\* A new EncryptedFrame(sz) is zero-filled: a zero hash, nonce and public
\* key (the zero key is of low order).  The caller has copied the record
\* into the body and picks the recipient's key from its router contact.
Init ==
  /\ from \in [Envs -> Routers]
  /\ to \in [Envs -> Honest \cup {Low}]
  /\ pt \in [Envs -> Plain]
  /\ \E len \in [Envs -> Lens] :
       buf = [e \in Envs |-> Frame(Low, Low, Low, [pt |-> pt[e], ks |-> {}], len[e])]
  /\ st = [e \in Envs |-> "new"]
  /\ rcpt = [e \in Envs |-> Low]
  /\ arrived = buf
  /\ rbuf = buf
  /\ rst = [e \in Envs |-> "none"]

\* The sender calls EncryptInPlace(its secret key, to[e]).
Seal(e) ==
  /\ st[e] = "new"
  /\ \E n \in Nonces :
       LET r == EncryptInPlace(buf[e], from[e], to[e], n)
       IN  /\ buf' = [buf EXCEPT ![e] = r.frame]
           /\ st' = [st EXCEPT ![e] = IF r.ok THEN "sealed" ELSE "failed"]
  /\ UNCHANGED <<from, to, pt, rcpt, arrived, rbuf, rst>>

\* A copy of the sealed frame reaches some router.
Deliver(e) ==
  /\ st[e] = "sealed" /\ rst[e] = "none"
  /\ \E r \in Honest : \E c \in Copies(buf[e], r) :
       /\ rcpt' = [rcpt EXCEPT ![e] = r]
       /\ arrived' = [arrived EXCEPT ![e] = c]
       /\ rbuf' = [rbuf EXCEPT ![e] = c]
       /\ rst' = [rst EXCEPT ![e] = "arrived"]
  /\ UNCHANGED <<from, to, pt, buf, st>>

\* The receiver calls DecryptInPlace(its secret key) on its copy.
Open(e) ==
  /\ rst[e] = "arrived"
  /\ LET r == DecryptInPlace(rbuf[e], rcpt[e])
     IN  /\ rbuf' = [rbuf EXCEPT ![e] = r.frame]
         /\ rst' = [rst EXCEPT ![e] = IF r.ok THEN "accepted" ELSE "rejected"]
  /\ UNCHANGED <<from, to, pt, buf, st, rcpt, arrived>>

Next == \E e \in Envs : Seal(e) \/ Deliver(e) \/ Open(e)

Spec == Init /\ [][Next]_vars

-----------------------------------------------------------------------------
(* Properties                                                              *)

\* DecryptInPlace accepts a copy whose header names an honest router only
\* if that router sealed it for this receiver and nothing was altered:
\* the body then holds the plaintext that router put in.
EnvelopeAuthentic ==
  \A e \in Envs :
    (rst[e] = "accepted" /\ rbuf[e].pubkey \in Honest) =>
      /\ rbuf[e].pubkey = from[e] /\ rcpt[e] = to[e]
      /\ rbuf[e].body = [pt |-> pt[e], ks |-> {}]

\* Spec 4.2 and 8: a copy DecryptInPlace rejects is left exactly as it
\* arrived; no partial decryption is exposed.
UnchangedOnFailure ==
  \A e \in Envs : rst[e] = "rejected" => rbuf[e] = arrived[e]

\* Spec 8 round trip, for frames above the 96-byte overhead (spec 4.2):
\* the unaltered frame EncryptInPlace sealed, opened by its recipient,
\* gives back the plaintext.
RoundTrip ==
  \A e \in Envs :
    (rst[e] \in {"accepted", "rejected"} /\ arrived[e] = buf[e]
     /\ rcpt[e] = to[e] /\ buf[e].len > 0) =>
      rst[e] = "accepted" /\ rbuf[e].body = [pt |-> pt[e], ks |-> {}]

====
