---------------------------- MODULE MCApiClient -----------------------------
(* Instantiates ApiClient for TLC; the constants are given in the cfg.     *)
EXTENDS ApiClient, TLC

\* The dict keys: the parser's "f", the encoder's "F", the I and Z fields
\* DecodeKey reads, and one it does not know.
MCKeys == {"f", "F", "I", "Z", "X"}
\* A known and an unknown function name, an integer and a hash.
MCVals == {"CreateSession", "Other", "int", "hash"}
\* stoi results: -1 (refused), a port, and one past 16 bits that wraps to it.
MCUrlPorts == {-1, 80, 65616}
====
