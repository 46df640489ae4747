----------------------------- MODULE ApiClient ------------------------------
(***************************************************************************)
(* The API client of src/udap/api: Client::Start parses "host:port",      *)
(* binds a UDP socket and sends a CreateSession message (client.cpp); the  *)
(* event loop hands every datagram to RecvFrom, which filters it by source *)
(* address, runs the one MessageParser of the client over it (parser.cpp) *)
(* and deletes the message the parser returns.                            *)
(*                                                                         *)
(* A datagram is a bencoded dict, abstracted to its source address and    *)
(* its sequence of <<key, value>> entries; a value is a function name     *)
(* ("CreateSession" or one funcmap lacks), an integer or a 32-byte hash.  *)
(* bencode_read_dict (libudap, not in this repository) reads "d", calls   *)
(* on_key for each key in order (on_key reads the value), stops with      *)
(* false as soon as on_key does, and at "e" returns on_key(nullptr).      *)
(* Heap objects are numbered; a call through a freed message is undefined *)
(* behaviour, modelled as the outcomes the build can give: a crash, or    *)
(* the stale vtable answering either way.                                  *)
(***************************************************************************)
EXTENDS Integers, Sequences, FiniteSets

CONSTANTS
  Hosts,      \* IPv4 literals a url may name and datagrams may come from
  BadHost,    \* a host string inet_pton does not accept
  UrlPorts,   \* integers std::stoi may return for the port part of a url
  NaN,        \* a port part on which std::stoi throws
  SrcPorts,   \* 16-bit source ports of incoming datagrams
  Keys,       \* dict keys a datagram may carry
  Vals,       \* abstract values a key may carry
  MaxLen,     \* longest dict of an incoming datagram
  MaxRecv     \* datagrams the event loop delivers

Null == 0    \* the null IMessage*
EndOfDict == <<>>    \* the key nullptr on_key gets at the end of a dict

VARIABLES
  phase,      \* "init", "running" (Mainloop), "stopped", "crashed"
  apiAddr,    \* [ip, port] the client talks to, set by StartSession
  sent,       \* datagrams the client has sent
  parserMsg,  \* MessageParser::msg
  live,       \* messages allocated and not deleted
  freed,      \* messages deleted
  misuse,     \* ghost: {"use"} after a call through a freed message,
              \* "double delete" after deleting one twice
  recvd       \* datagrams delivered so far

vars == <<phase, apiAddr, sent, parserMsg, live, freed, misuse, recvd>>

Urls == [colon : BOOLEAN, host : Hosts \cup {BadHost}, port : UrlPorts \cup {NaN}]
Entries == Keys \X Vals
Dicts == UNION {[1..n -> Entries] : n \in 0..MaxLen}
Sources == [af : {"inet", "inet6"}, ip : Hosts, port : SrcPorts]

-----------------------------------------------------------------------------
(* Encoding (message.cpp, bencode.hpp)                                    *)

\* BEncodeWriteDictString / BEncodeWriteDictInt / BEncodeWriteDictEntry:
\* the one-letter key, then the value's encoding.
WriteDictEntry(k, v) == <<k, v>>

\* IMessage::BEncode: the dict of F, I, M, P and Z, in that order.
BEncode(fname) ==
  << WriteDictEntry("F", fname), WriteDictEntry("I", "int"), WriteDictEntry("M", "int"),
     WriteDictEntry("P", "list"), WriteDictEntry("Z", "hash") >>

\* BEncodeMaybeReadDictInt / BEncodeMaybeReadDictEntry: a key that matches
\* must carry a value of its type.
ReadsAs(k) == CASE k \in {"I", "M"} -> "int" [] k = "Z" -> "hash" [] OTHER -> "none"

\* IMessage::DecodeKey for a key other than "P" (DecodeParams is declared
\* in messages.hpp, which is not in this repository): true only when the
\* key is I, M or Z and its value decodes.
DecodeKey(e) == ReadsAs(e[1]) # "none" /\ e[2] = ReadsAs(e[1])

-----------------------------------------------------------------------------
(* MessageParser (parser.cpp)                                             *)

\* funcmap: the function names the parser can build a message for.
FuncMap == {"CreateSession"}

\* One on_key call.  cur is self->msg, key an entry or EndOfDict, fresh the object new would return, freedSet the deleted
\* messages.  Result: the return value, the new self->msg, whether it
\* called through a freed message, whether it allocated, and whether the
\* process crashed.
OnKeyOutcomes(cur, key, fresh, freedSet) ==
  LET R(ok, m, use, alloc) == [ok |-> ok, msg |-> m, use |-> use, alloc |-> alloc,
                                crash |-> FALSE]
  IN  IF cur = Null /\ key = EndOfDict THEN {R(FALSE, cur, FALSE, FALSE)}
      ELSE IF cur = Null
      THEN IF key[1] = "f" /\ key[2] \in FuncMap
           THEN {R(TRUE, fresh, FALSE, TRUE)}
           ELSE {R(FALSE, cur, FALSE, FALSE)}
      ELSE IF key = EndOfDict THEN {R(TRUE, cur, FALSE, FALSE)}
      ELSE IF cur \in freedSet
      \* DecodeKey through a dangling pointer: any answer, or a crash
      THEN {R(b, cur, TRUE, FALSE) : b \in BOOLEAN}
           \cup {[R(FALSE, cur, TRUE, FALSE) EXCEPT !.crash = TRUE]}
      ELSE {R(DecodeKey(key), cur, FALSE, FALSE)}

\* bencode_read_dict over the entries d[i..], with the parser's state:
\* the set of outcomes [ok, msg, use, alloc, crash] of the whole read.
RECURSIVE ReadDict(_, _, _, _, _, _, _)
ReadDict(d, i, cur, fresh, freedSet, use, alloc) ==
  LET key == IF i <= Len(d) THEN d[i] ELSE EndOfDict
  IN  UNION {
        IF ~o.ok \/ i > Len(d)
        THEN {[o EXCEPT !.use = use \/ o.use, !.alloc = alloc \/ o.alloc]}
        ELSE ReadDict(d, i + 1, o.msg, fresh, freedSet, use \/ o.use, alloc \/ o.alloc)
        : o \in OnKeyOutcomes(cur, key, fresh, freedSet)}

\* ParseMessage: msg when the dict reads, nullptr otherwise.
Parsed(o) == IF o.ok THEN o.msg ELSE Null

-----------------------------------------------------------------------------
(* ClientPImpl and Client (client.cpp)                                    *)

\* BindDefault: udap_ev_add_udp on the loopback address may fail.
BindOutcomes == BOOLEAN

\* StartSession(addr, port): apiAddr from inet_pton and htons.  ip is what
\* sin_addr holds afterwards.
SessionAddr(url, ip) == [ip |-> ip, port |-> url.port % 65536]

\* SendMessage: BEncode into a 1500-byte stack buffer, then send buf.sz
\* bytes, which is still sizeof(tmp): the datagram is always 1500 bytes.
SendMessage(to, fname) == [to |-> to, dict |-> BEncode(fname), len |-> 1500]

\* Client::Start(url), with BindDefault, std::stoi, StartSession and
\* SendMessage(CreateSessionMessage): a url without ':' or a failed bind
\* returns false; stoi of a port that is not a number throws, and nothing
\* catches it; -1 returns false; the port is cut to 16 bits by htons.
\* inet_pton returns 0, not -1, on a bad literal, so the check passes and
\* sin_addr keeps whatever the uninitialised struct held.
Start ==
  /\ phase = "init"
  /\ \E url \in Urls, bound \in BindOutcomes, sendOK \in BOOLEAN :
       \/ /\ ~url.colon \/ ~bound
          /\ phase' = "stopped" /\ UNCHANGED <<apiAddr, sent>>
       \/ /\ url.colon /\ bound /\ url.port = NaN
          /\ phase' = "crashed" /\ UNCHANGED <<apiAddr, sent>>
       \/ /\ url.colon /\ bound /\ url.port = -1
          /\ phase' = "stopped" /\ UNCHANGED <<apiAddr, sent>>
       \/ /\ url.colon /\ bound /\ url.port \notin {NaN, -1}
          /\ \E ip \in IF url.host = BadHost THEN Hosts ELSE {url.host} :
               apiAddr' = SessionAddr(url, ip)
          /\ sent' = sent \cup {SendMessage(apiAddr', "CreateSession")}
          /\ phase' = IF sendOK THEN "running" ELSE "stopped"
  /\ UNCHANGED <<parserMsg, live, freed, misuse, recvd>>

\* RecvFrom: a datagram from another address is dropped; otherwise
\* ParseMessage runs and a message it returns is deleted.
RecvFrom ==
  /\ phase = "running" /\ recvd < MaxRecv
  /\ recvd' = recvd + 1
  /\ \E src \in Sources, d \in Dicts :
       IF src.af # "inet" \/ src.ip # apiAddr.ip \/ src.port # apiAddr.port
       THEN UNCHANGED <<phase, parserMsg, live, freed, misuse>>
       ELSE LET fresh == Cardinality(live \cup freed) + 1
            IN \E o \in ReadDict(d, 1, parserMsg, fresh, freed, FALSE, FALSE) :
                 /\ parserMsg' = o.msg
                 /\ phase' = IF o.crash THEN "crashed" ELSE phase
                 /\ LET m == Parsed(o)
                        newLive == live \cup (IF o.alloc THEN {fresh} ELSE {})
                    IN /\ live' = newLive \ {m}
                       /\ freed' = freed \cup (IF m = Null THEN {} ELSE {m})
                       /\ misuse' = misuse \cup (IF o.use THEN {"use"} ELSE {})
                                           \cup (IF m \in freed THEN {"double delete"} ELSE {})
  /\ UNCHANGED <<apiAddr, sent>>

Init ==
  /\ phase = "init"
  /\ apiAddr = [ip |-> BadHost, port |-> 0]
  /\ sent = {}
  /\ parserMsg = Null
  /\ live = {}
  /\ freed = {}
  /\ misuse = {}
  /\ recvd = 0

Next == Start \/ RecvFrom

Spec == Init /\ [][Next]_vars

-----------------------------------------------------------------------------
(* Properties                                                              *)

\* RecvFrom deletes the message ParseMessage hands it, and the parser's
\* comments ("empty message", "first message, function name") take
\* self->msg == nullptr as the start of a datagram: the parser should never
\* call into, or hand out again, a message RecvFrom has deleted.
NoUseAfterFree == misuse = {}

====
