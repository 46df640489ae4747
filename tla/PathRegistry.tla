---------------------------- MODULE PathRegistry ----------------------------
(***************************************************************************)
(* The routing tables of udap::path::PathContext (src/udap/path.cpp).      *)
(*                                                                         *)
(* m_TransitPaths is a mutex-guarded std::multimap PathID -> TransitHop*,  *)
(* m_OurPaths a mutex-guarded multimap PathID -> PathSet*.  Every public   *)
(* operation takes the table's lock only around one MapPut / MapGet /      *)
(* ExpirePaths call, so a caller that does two calls (PutTransitHop,       *)
(* AddOwnPath) or that keeps the pointer MapGet returned (GetByUpstream,   *)
(* GetByDownstream) can be interleaved with another thread's call.  Each   *)
(* thread is a process with a program counter for those two-call           *)
(* operations.                                                             *)
(*                                                                         *)
(* A multimap may hold the same (key, value) pair twice, so a table is a   *)
(* count of entries per key and value.  A TransitHop is a model value that *)
(* is "unborn" until constructed, "live" while allocated and "freed" after *)
(* the sweep's `delete p`.                                                 *)
(***************************************************************************)
EXTENDS Naturals, FiniteSets

CONSTANTS
  Threads,      \* threads calling into the PathContext
  Hops,         \* TransitHop objects the relay may construct
  OwnPaths,     \* our own paths (each in a PathSet of its own)
  PathIDs,      \* PathID_t values
  Routers,      \* neighbour router identities
  Lifetimes,    \* per-hop lifetimes (ms) a commit record may carry
  MaxTime,      \* bound on udap_time_now_ms()
  DistinctIDs,  \* TRUE: no two live hops share a PathID and txID # rxID
  NoHop         \* the null IHopHandler*

ASSUME /\ Threads # {} /\ Hops # {} /\ PathIDs # {} /\ Routers # {}
       /\ Lifetimes \subseteq Nat /\ MaxTime \in Nat
       /\ DistinctIDs \in BOOLEAN
       /\ NoHop \notin Hops \cup OwnPaths

VARIABLES
  now,       \* udap_time_now_ms()
  status,    \* status[h] \in {"unborn", "live", "freed"}
  info,      \* info[h]: TransitHopInfo, created and lifetime of hop h
  transit,   \* transit[k][h]: entries of m_TransitPaths at key k holding h
  ownInfo,   \* ownInfo[p]: TXID, RXID and Upstream() of own path p
  ours,      \* ours[k][p]: entries of m_OurPaths at key k holding p
  pc,        \* pc[t]: where thread t is inside a two-call operation
  arg        \* arg[t]: the hop, path or handler thread t is working on

vars == <<now, status, info, transit, ownInfo, ours, pc, arg>>

Handlers == Hops \cup OwnPaths

HopInfo == [txID : PathIDs, rxID : PathIDs, upstream : Routers,
            downstream : Routers, created : 0..MaxTime, lifetime : Lifetimes]

PathInfo == [txID : PathIDs, rxID : PathIDs, upstream : Routers]

NoInfo == [txID |-> NoHop]

TypeOK ==
  /\ now \in 0..MaxTime
  /\ status \in [Hops -> {"unborn", "live", "freed"}]
  /\ \A h \in Hops : info[h] \in HopInfo \/ (status[h] = "unborn" /\ info[h] = NoInfo)
  /\ transit \in [PathIDs -> [Hops -> 0..2]]
  /\ \A p \in OwnPaths : ownInfo[p] \in PathInfo \cup {NoInfo}
  /\ ours \in [PathIDs -> [OwnPaths -> 0..2]]
  /\ pc \in [Threads -> {"idle", "putRx", "addRx", "use"}]
  /\ arg \in [Threads -> Handlers \cup {NoHop}]
  /\ \A t \in Threads : (pc[t] = "idle") <=> (arg[t] = NoHop)

-----------------------------------------------------------------------------
(* Helpers                                                                 *)

\* Mutant: the operands of the subtraction swapped.
ExpiredSwapped(h, t) == info[h].created - t > info[h].lifetime

\* TransitHop::Expired: now - started > lifetime (times are unsigned ms,
\* and created was read from the same clock, so the difference is >= 0).
Expired(h, t) == t - info[h].created > info[h].lifetime

\* Hops with at least one entry under key k, in the table tbl.
At(tbl, k) == {h \in DOMAIN tbl[k] : tbl[k][h] > 0}

\* The IDs some allocated hop or own path already uses.
UsedIDs ==
  UNION {{info[h].txID, info[h].rxID} : h \in {x \in Hops : status[x] = "live"}}
  \cup UNION {{ownInfo[p].txID, ownInfo[p].rxID} :
                 p \in {q \in OwnPaths : ownInfo[q] # NoInfo}}

\* The (txID, rxID) pairs a new hop or own path may be given.
FreshIDs ==
  LET used == UsedIDs
  IN  {ids \in PathIDs \X PathIDs :
         DistinctIDs => ids[1] # ids[2] /\ {ids[1], ids[2]} \cap used = {}}

\* MapPut: emplace (k, v) under the table lock.
MapPut(tbl, k, v) == [tbl EXCEPT ![k][v] = @ + 1]

\* MapGet over m_TransitPaths with the check hop->info.upstream == remote:
\* the hops at key k it accepts (MapGet returns the first of them in
\* multimap order).
UpstreamMatches(k, remote) == {h \in At(transit, k) : info[h].upstream = remote}

\* The same with the check hop->info.downstream == remote.
DownstreamMatches(k, remote) == {h \in At(transit, k) : info[h].downstream = remote}

Idle(t) == pc[t] = "idle"

\* TransitHopInfo (path.hpp, not in this repository): the two IDs and the
\* two neighbours; created and lifetime belong to the TransitHop itself.
HopKey(i) == <<i.txID, i.rxID, i.upstream, i.downstream>>

\* HasTransitHop(info): MapHas over m_TransitPaths at info.txID, with the
\* check info == hop->info.
HasTransitHop(i) == \E h \in At(transit, i.txID) : HopKey(info[h]) = HopKey(i)

\* The relay commits a relay may receive: one for fresh IDs, or a
\* retransmission of the commit of a hop that is still allocated.
Commits ==
  {[txID |-> ids[1], rxID |-> ids[2], upstream |-> u, downstream |-> d] :
     ids \in FreshIDs, u \in Routers, d \in Routers}
  \cup {[txID |-> info[h].txID, rxID |-> info[h].rxID, upstream |-> info[h].upstream,
         downstream |-> info[h].downstream] : h \in {x \in Hops : status[x] = "live"}}

-----------------------------------------------------------------------------
(* Actions                                                                 *)

\* A relay-commit handler (outside src/) accepts a commit only when
\* HasTransitHop finds no hop with its info, constructs a TransitHop and
\* calls PutTransitHop; this step is its first MapPut, under
\* hop->info.txID.
PutTransitHopTx(t) ==
  /\ Idle(t)
  /\ \E h \in Hops, c \in Commits, lt \in Lifetimes :
       LET i == [txID |-> c.txID, rxID |-> c.rxID, upstream |-> c.upstream,
                 downstream |-> c.downstream, created |-> now, lifetime |-> lt]
       IN
       /\ ~HasTransitHop(i)
       /\ status[h] = "unborn"
       /\ status' = [status EXCEPT ![h] = "live"]
       /\ info' = [info EXCEPT ![h] = i]
       /\ transit' = MapPut(transit, i.txID, h)
       /\ pc' = [pc EXCEPT ![t] = "putRx"]
       /\ arg' = [arg EXCEPT ![t] = h]
  /\ UNCHANGED <<now, ownInfo, ours>>

\* Mutant: the thread keeps the hop it finished putting.
PutTransitHopRxKeepArg(t) ==
  /\ pc[t] = "putRx"
  /\ transit' = MapPut(transit, info[arg[t]].rxID, arg[t])
  /\ pc' = [pc EXCEPT ![t] = "idle"]
  /\ UNCHANGED <<now, status, info, ownInfo, ours, arg>>

\* The second MapPut of PutTransitHop, under hop->info.rxID, in a lock
\* section of its own.
PutTransitHopRx(t) ==
  /\ pc[t] = "putRx"
  /\ transit' = MapPut(transit, info[arg[t]].rxID, arg[t])
  /\ pc' = [pc EXCEPT ![t] = "idle"]
  /\ arg' = [arg EXCEPT ![t] = NoHop]
  /\ UNCHANGED <<now, status, info, ownInfo, ours>>

\* AddOwnPath: set->AddPath(path), then MapPut under TXID() ...
AddOwnPathTx(t) ==
  /\ Idle(t)
  /\ \E p \in OwnPaths, ids \in FreshIDs, up \in Routers :
       LET i == [txID |-> ids[1], rxID |-> ids[2], upstream |-> up]
       IN
       /\ ownInfo[p] = NoInfo
       /\ ownInfo' = [ownInfo EXCEPT ![p] = i]
       /\ ours' = MapPut(ours, i.txID, p)
       /\ pc' = [pc EXCEPT ![t] = "addRx"]
       /\ arg' = [arg EXCEPT ![t] = p]
  /\ UNCHANGED <<now, status, info, transit>>

\* ... and MapPut under RXID().
AddOwnPathRx(t) ==
  /\ pc[t] = "addRx"
  /\ ours' = MapPut(ours, ownInfo[arg[t]].rxID, arg[t])
  /\ pc' = [pc EXCEPT ![t] = "idle"]
  /\ arg' = [arg EXCEPT ![t] = NoHop]
  /\ UNCHANGED <<now, status, info, transit, ownInfo>>

\* PathSet::GetByUpstream for a set holding the one path p: p if its
\* first hop is the remote and it is known under id.
OwnMatch(p, remote, id) ==
  IF ownInfo[p].upstream = remote /\ id \in {ownInfo[p].txID, ownInfo[p].rxID}
  THEN p ELSE NoHop

\* GetByUpstream(remote, id): MapGet over m_OurPaths with a check that
\* accepts any entry, then PathSet::GetByUpstream on the first set found;
\* when that gives null, MapGet over m_TransitPaths keeping the hops whose
\* upstream is the remote.  The handler is returned after the lock is
\* released; the thread uses it in its next step.
GetByUpstream(t) ==
  /\ Idle(t)
  /\ \E remote \in Routers, id \in PathIDs :
       LET \* what MapGet over m_OurPaths gives for each possible first entry
           own     == IF At(ours, id) = {} THEN {NoHop}
                      ELSE {OwnMatch(p, remote, id) : p \in At(ours, id)}
           fromHop == UpstreamMatches(id, remote)
           transitRes == IF fromHop # {} THEN fromHop ELSE {NoHop}
       IN  \E o \in own :
             \E res \in IF o # NoHop THEN {o} ELSE transitRes :
               /\ pc' = [pc EXCEPT ![t] = IF res = NoHop THEN "idle" ELSE "use"]
               /\ arg' = [arg EXCEPT ![t] = res]
  /\ UNCHANGED <<now, status, info, transit, ownInfo, ours>>

\* GetByDownstream(remote, id): MapGet over m_TransitPaths only, keeping
\* the hops whose downstream is the remote.
GetByDownstream(t) ==
  /\ Idle(t)
  /\ \E remote \in Routers, id \in PathIDs :
       LET fromHop == DownstreamMatches(id, remote)
       IN  \E res \in IF fromHop # {} THEN fromHop ELSE {NoHop} :
             /\ pc' = [pc EXCEPT ![t] = IF res = NoHop THEN "idle" ELSE "use"]
             /\ arg' = [arg EXCEPT ![t] = res]
  /\ UNCHANGED <<now, status, info, transit, ownInfo, ours>>

\* The caller hands the frame to the handler it looked up.
UseHandler(t) ==
  /\ pc[t] = "use"
  /\ pc' = [pc EXCEPT ![t] = "idle"]
  /\ arg' = [arg EXCEPT ![t] = NoHop]
  /\ UNCHANGED <<now, status, info, transit, ownInfo, ours>>

\* Mutant: the erase loop erases the txID key twice instead of txID and rxID.
ExpirePathsTxOnly(t) ==
  /\ Idle(t)
  /\ LET removePaths == {h \in Hops : /\ \E k \in PathIDs : transit[k][h] > 0
                                     /\ Expired(h, now)}
         erased      == {info[h].txID : h \in removePaths}
     IN  /\ transit' = [k \in PathIDs |->
                          IF k \in erased THEN [h \in Hops |-> 0] ELSE transit[k]]
         /\ status' = [h \in Hops |-> IF h \in removePaths THEN "freed" ELSE status[h]]
  /\ UNCHANGED <<now, info, ownInfo, ours, pc, arg>>

\* Mutant: the entries are erased but the hops are never deleted.
ExpirePathsNoDelete(t) ==
  /\ Idle(t)
  /\ LET removePaths == {h \in Hops : /\ \E k \in PathIDs : transit[k][h] > 0
                                     /\ Expired(h, now)}
         erased      == UNION {{info[h].txID, info[h].rxID} : h \in removePaths}
     IN  transit' = [k \in PathIDs |->
                       IF k \in erased THEN [h \in Hops |-> 0] ELSE transit[k]]
  /\ UNCHANGED <<now, status, info, ownInfo, ours, pc, arg>>

\* ExpirePaths, the whole call under the m_TransitPaths lock: collect every
\* hop some entry refers to that has expired, then for each collected hop
\* erase every entry under its txID and under its rxID (multimap::erase by
\* key) and delete it.  builder->ExpirePaths(now) belongs to the external
\* path builder.
ExpirePaths(t) ==
  /\ Idle(t)
  /\ LET removePaths == {h \in Hops : /\ \E k \in PathIDs : transit[k][h] > 0
                                     /\ Expired(h, now)}
         erased      == UNION {{info[h].txID, info[h].rxID} : h \in removePaths}
     IN  /\ transit' = [k \in PathIDs |->
                          IF k \in erased THEN [h \in Hops |-> 0] ELSE transit[k]]
         /\ status' = [h \in Hops |-> IF h \in removePaths THEN "freed" ELSE status[h]]
  /\ UNCHANGED <<now, info, ownInfo, ours, pc, arg>>

\* The clock advances.
Tick ==
  /\ now < MaxTime
  /\ now' = now + 1
  /\ UNCHANGED <<status, info, transit, ownInfo, ours, pc, arg>>

Init ==
  /\ now = 0
  /\ status = [h \in Hops |-> "unborn"]
  /\ info = [h \in Hops |-> NoInfo]
  /\ transit = [k \in PathIDs |-> [h \in Hops |-> 0]]
  /\ ownInfo = [p \in OwnPaths |-> NoInfo]
  /\ ours = [k \in PathIDs |-> [p \in OwnPaths |-> 0]]
  /\ pc = [t \in Threads |-> "idle"]
  /\ arg = [t \in Threads |-> NoHop]

Next ==
  \/ \E t \in Threads :
       \/ PutTransitHopTx(t) \/ PutTransitHopRx(t)
       \/ AddOwnPathTx(t) \/ AddOwnPathRx(t)
       \/ GetByUpstream(t) \/ GetByDownstream(t) \/ UseHandler(t)
       \/ ExpirePaths(t)
  \/ Tick

\* The sweep runs from a periodic timer: it fires whenever it is due, even
\* if the thread it runs on is sometimes busy inside another call (strong
\* fairness); a thread inside a two-call operation is not starved.
Fairness ==
  /\ \A t \in Threads : SF_vars(ExpirePaths(t))
  /\ \A t \in Threads : WF_vars(PutTransitHopRx(t) \/ AddOwnPathRx(t) \/ UseHandler(t))
  /\ WF_vars(Tick)

Spec == Init /\ [][Next]_vars /\ Fairness

-----------------------------------------------------------------------------
(* Properties                                                              *)

\* Hops some thread is between the two MapPuts of PutTransitHop.
BeingPut == {arg[t] : t \in {x \in Threads : pc[x] = "putRx"}}

\* Spec 8: the tx and rx entries of a TransitHop are inserted and removed
\* together: outside PutTransitHop, a hop is in m_TransitPaths under its
\* txID exactly when it is under its rxID.  ExpirePaths erases whole keys,
\* so it is about every other hop sharing a key with an expired one.
PairedEntries ==
  \A h \in Hops \ BeingPut :
    status[h] # "unborn" =>
      ((transit[info[h].txID][h] > 0) <=> (transit[info[h].rxID][h] > 0))

\* No entry of m_TransitPaths points to a TransitHop that ExpirePaths has
\* deleted (a sweep between the two MapPuts of PutTransitHop would leave
\* the rx entry of a freed hop).
NoDanglingEntry ==
  \A k \in PathIDs, h \in Hops : transit[k][h] > 0 => status[h] # "freed"

\* A handler GetByUpstream/GetByDownstream returned is still allocated when
\* the caller uses it after MapGet has released the lock.
NoUseAfterFree ==
  \A t \in Threads : pc[t] = "use" /\ arg[t] \in Hops => status[arg[t]] # "freed"

\* ExpirePaths deletes exactly the registered hops that have expired, a hop
\* it deletes has no entry left, and every hop it keeps keeps all of its
\* entries.
SweepExact ==
  [][\A t \in Threads : ExpirePaths(t) =>
       \A h \in Hops :
         /\ (status'[h] = "freed" /\ status[h] # "freed") <=>
              (status[h] = "live" /\ (\E k \in PathIDs : transit[k][h] > 0)
                                  /\ Expired(h, now))
         /\ status'[h] = "freed" => \A k \in PathIDs : transit'[k][h] = 0
         /\ status'[h] # "freed" => \A k \in PathIDs : transit'[k][h] = transit[k][h]
  ]_vars

\* Every registered hop whose lifetime is over (spec 4.4: now - created >
\* lifetime) is eventually deleted by the periodic sweep.
ExpiredEventuallyFreed ==
  \A h \in Hops :
    (/\ status[h] = "live" /\ h \notin BeingPut
     /\ now - info[h].created > info[h].lifetime) ~> status[h] = "freed"

=============================================================================
