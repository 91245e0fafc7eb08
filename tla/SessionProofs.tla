----------------------------- MODULE SessionProofs -----------------------------
(***************************************************************************)
(* Theorems about UserCache, for all users, records, numbers of concurrent *)
(* calls, TTLs and timeouts, and then about Session, for any number of     *)
(* connections, channels, users, records and keys.                         *)
(***************************************************************************)
EXTENDS Session, TLAPS

IInv == TypeOK /\ ExpiryBacked /\ BoundedStaleness

USE CacheAssumption

(* What a call field update does to the calls.                             *)
LEMMA CallUpdate ==
  ASSUME TypeOK, NEW c \in Calls, NEW k \in CallType, call' = [call EXCEPT ![c] = k]
  PROVE  /\ call' \in [Calls -> CallType]
         /\ call'[c] = k
         /\ \A d \in Calls \ {c} : call'[d] = call[d]
BY DEF TypeOK

(* A step of one call that leaves clock, Vault and cache alone needs only  *)
(* a look at that call.                                                    *)
LEMMA CallOnly ==
  ASSUME IInv, NEW c \in Calls, NEW k \in CallType, call' = [call EXCEPT ![c] = k],
         UNCHANGED <<clock, vault, held, cache>>,
         AnswerBacked(c)', FreshEnough(c)'
  PROVE  IInv'
<1>1. TypeOK'
  BY CallUpdate DEF IInv, TypeOK
<1>2. \A u \in Users : EntryBacked(u)'
  BY DEF IInv, ExpiryBacked, EntryBacked
<1>3. \A d \in Calls \ {c} : call'[d] = call[d]
  BY CallUpdate DEF IInv
<1>4. \A d \in Calls \ {c} : AnswerBacked(d)' /\ FreshEnough(d)'
  BY <1>3 DEF IInv, ExpiryBacked, BoundedStaleness, AnswerBacked, FreshEnough
<1>5. QED
  BY <1>1, <1>2, <1>4 DEF IInv, ExpiryBacked, BoundedStaleness

(* Vault's history only grows, which keeps every other promise.            *)
LEMMA HeldGrows ==
  ASSUME IInv, UNCHANGED <<cache, call>>, clock' \in Nat, clock <= clock',
         held' \in [Users -> [Records -> Int]],
         vault' \in [Users -> Records \cup {None}],
         \A u \in Users, r \in Records : held[u][r] <= held'[u][r] /\ held'[u][r] <= clock',
         \A u \in Users : vault'[u] # None => held'[u][vault'[u]] = clock'
  PROVE  IInv'
<1>1. TypeOK'
  BY DEF IInv, TypeOK
<1>2. ASSUME NEW u \in Users PROVE EntryBacked(u)'
  <2>1. CASE cache[u] = NoEntry
    BY <2>1 DEF EntryBacked
  <2>2. CASE cache[u] # NoEntry
    <3>1. cache[u].u \in Records /\ cache[u].expires \in Nat
      BY <2>2 DEF IInv, TypeOK, Entries
    <3>2. cache[u].expires <= held[u][cache[u].u] + TTL
      BY <2>2 DEF IInv, ExpiryBacked, EntryBacked
    <3>3. held[u][cache[u].u] \in Int /\ held'[u][cache[u].u] \in Int
      BY <3>1 DEF IInv, TypeOK
    <3>4. cache'[u].expires <= held'[u][cache'[u].u] + TTL
      BY <3>1, <3>2, <3>3
    <3>5. QED
      BY <3>4 DEF EntryBacked
  <2>3. QED
    BY <2>1, <2>2
<1>3. ASSUME NEW c \in Calls PROVE AnswerBacked(c)' /\ FreshEnough(c)'
  <2>1. AnswerBacked(c) /\ FreshEnough(c) /\ call[c] \in CallType
    BY DEF IInv, ExpiryBacked, BoundedStaleness, TypeOK
  <2>2. clock \in Nat
    BY DEF IInv, TypeOK
  <2>3. CASE call[c].pc = "idle"
    BY <2>3 DEF AnswerBacked, FreshEnough
  <2>4. CASE call[c].pc # "idle" /\ call[c].res = None
    BY <2>1, <2>2, <2>4 DEF AnswerBacked, FreshEnough, CallType
  <2>5. CASE call[c].pc # "idle" /\ call[c].res # None
    <3>1. call[c].user \in Users /\ call[c].res \in Records /\ call[c].start \in Nat
      BY <2>1, <2>5 DEF AnswerBacked, CallType
    <3>2. /\ held[call[c].user][call[c].res] \in Int
          /\ held'[call[c].user][call[c].res] \in Int
          /\ held[call[c].user][call[c].res] <= held'[call[c].user][call[c].res]
      BY <3>1 DEF IInv, TypeOK
    <3>3. QED
      BY <2>1, <2>2, <2>5, <3>1, <3>2 DEF AnswerBacked, FreshEnough
  <2>6. QED
    BY <2>3, <2>4, <2>5
<1>4. QED
  BY <1>1, <1>2, <1>3 DEF IInv, ExpiryBacked, BoundedStaleness

LEMMA InitInv == Init => IInv
<1> SUFFICES ASSUME Init PROVE IInv
  OBVIOUS
<1>1. TypeOK
  <2>1. Idle \in CallType /\ NoEntry \in Entries
    BY DEF Idle, CallType, Entries
  <2>2. held \in [Users -> [Records -> Int]]
    BY DEF Init
  <2>3. /\ clock \in Nat
        /\ vault \in [Users -> Records \cup {None}]
        /\ cache \in [Users -> Entries]
        /\ call \in [Calls -> CallType]
    BY <2>1 DEF Init
  <2>4. QED
    BY <2>2, <2>3 DEF TypeOK
<1>2. ASSUME NEW u \in Users PROVE EntryBacked(u)
  <2>1. vault[u] \in Records \cup {None} /\ cache[u] = NoEntry /\ clock = 0
    BY DEF Init
  <2>2. \A r \in Records : held[u][r] = IF vault[u] = r THEN 0 ELSE -1
    BY DEF Init
  <2>3. QED
    BY <2>1, <2>2 DEF EntryBacked
<1>3. \A c \in Calls : AnswerBacked(c) /\ FreshEnough(c)
  BY DEF Init, AnswerBacked, FreshEnough, Idle
<1>4. QED
  BY <1>1, <1>2, <1>3 DEF IInv, ExpiryBacked, BoundedStaleness

LEMMA StepInv == IInv /\ [Next]_cacheVars => IInv'
<1> SUFFICES ASSUME IInv, [Next]_cacheVars PROVE IInv'
  OBVIOUS
<1>0. /\ clock \in Nat
      /\ \A c \in Calls : call[c] \in CallType /\ AnswerBacked(c)
      /\ \A u \in Users : cache[u] \in Entries /\ EntryBacked(u)
      /\ \A u \in Users, r \in Records : held[u][r] \in Int
  BY DEF IInv, TypeOK, ExpiryBacked
<1>1. ASSUME NEW c \in Calls, NEW u \in Users, Begin(c, u) PROVE IInv'
  <2> DEFINE k == [pc |-> "lookup", user |-> u, start |-> clock, res |-> None]
  <2>1. k \in CallType /\ call' = [call EXCEPT ![c] = k]
    BY <1>0, <1>1 DEF Begin, CallType
  <2>2. call'[c] = k
    BY <2>1, CallUpdate DEF IInv
  <2>3. AnswerBacked(c)' /\ FreshEnough(c)'
    BY <1>0, <1>1, <2>2 DEF Begin, AnswerBacked, FreshEnough
  <2>4. QED
    BY <1>1, <2>1, <2>3, CallOnly DEF Begin
<1>2. ASSUME NEW c \in Calls, Lookup(c) PROVE IInv'
  <2> DEFINE e == cache[call[c].user]
  <2>1. call[c].user \in Users /\ call[c].start \in Nat /\ call[c].start <= clock
    BY <1>0, <1>2 DEF Lookup, AnswerBacked, CallType
  <2>2. CASE Hit(c) /\ Returns(c, e.u)
    <3> DEFINE k == [call[c] EXCEPT !.pc = "returned", !.res = e.u]
    <3>1. e.u \in Records /\ e.expires \in Nat /\ call[c].start < e.expires
      BY <1>0, <2>1, <2>2 DEF Hit, Entries
    <3>2. k \in CallType /\ call' = [call EXCEPT ![c] = k]
      BY <1>0, <2>2, <3>1 DEF Returns, CallType, IInv, TypeOK
    <3>3. call'[c] = k /\ k.user = call[c].user /\ k.start = call[c].start
          /\ k.res = e.u /\ k.pc = "returned"
      BY <1>0, <3>2, CallUpdate DEF IInv, CallType
    <3>4. held[call[c].user][e.u] + TTL > call[c].start
      BY <1>0, <2>1, <2>2, <3>1 DEF EntryBacked, Hit
    <3>5. AnswerBacked(c)' /\ FreshEnough(c)'
      BY <1>2, <2>1, <3>3, <3>4 DEF Lookup, AnswerBacked, FreshEnough
    <3>6. QED
      BY <1>2, <3>2, <3>5, CallOnly DEF Lookup
  <2>3. CASE call' = [call EXCEPT ![c].pc = "reading"]
    <3> DEFINE k == [call[c] EXCEPT !.pc = "reading"]
    <3>1. k \in CallType /\ call' = [call EXCEPT ![c] = k]
      BY <1>0, <2>3 DEF CallType
    <3>2. call'[c] = k /\ k.user = call[c].user /\ k.start = call[c].start
          /\ k.pc = "reading"
      BY <1>0, <3>1, CallUpdate DEF IInv, CallType
    <3>3. AnswerBacked(c)' /\ FreshEnough(c)'
      BY <1>2, <2>1, <3>2 DEF Lookup, AnswerBacked, FreshEnough
    <3>4. QED
      BY <1>2, <3>1, <3>3, CallOnly DEF Lookup
  <2>4. QED
    BY <1>2, <2>2, <2>3 DEF Lookup
<1>3. ASSUME NEW c \in Calls, VaultAnswers(c) PROVE IInv'
  <2>1. call[c].user \in Users /\ call[c].start \in Nat /\ call[c].start <= clock
    BY <1>0, <1>3 DEF VaultAnswers, AnswerBacked, CallType
  <2>2. PICK r \in {vault[call[c].user], None} :
          call' = [call EXCEPT ![c].pc = "answered", ![c].res = r]
    BY <1>3 DEF VaultAnswers
  <2>3. r \in Records \cup {None}
    BY <2>1 DEF IInv, TypeOK
  <2> DEFINE k == [call[c] EXCEPT !.pc = "answered", !.res = r]
  <2>4. k \in CallType /\ call' = [call EXCEPT ![c] = k]
    <3>1. k \in CallType
      BY <1>0, <2>3 DEF CallType
    <3>2. call' = [call EXCEPT ![c] = k]
      BY <2>2
    <3>3. QED
      BY <3>1, <3>2
  <2>5. call'[c] = k /\ k.user = call[c].user /\ k.start = call[c].start
        /\ k.res = r /\ k.pc = "answered"
    BY <1>0, <2>4, CallUpdate DEF IInv, CallType
  <2>6. r # None => held[call[c].user][r] = clock
    BY <1>0, <2>1, <2>2 DEF EntryBacked
  <2>7. AnswerBacked(c)' /\ FreshEnough(c)'
    <3>1. clock' = clock /\ held' = held
      BY <1>3 DEF VaultAnswers
    <3>2. /\ call'[c].pc = "answered" /\ call'[c].user = call[c].user
          /\ call'[c].start = call[c].start /\ call'[c].res = r
      BY <2>5
    <3> HIDE DEF k
    <3>3. r # None => held'[call[c].user][r] >= call[c].start
      BY <2>1, <2>6, <3>1, <1>0
    <3>4. AnswerBacked(c)'
      BY <2>1, <3>1, <3>2, <3>3 DEF AnswerBacked
    <3>5. FreshEnough(c)'
      BY <3>2 DEF FreshEnough
    <3>6. QED
      BY <3>4, <3>5
  <2>8. QED
    BY <1>3, <2>4, <2>7, CallOnly DEF VaultAnswers
<1>4. ASSUME NEW c \in Calls, call[c].pc # "idle", Returns(c, None),
             UNCHANGED <<clock, vault, held, cache>>
      PROVE  IInv'
  <2> DEFINE k == [call[c] EXCEPT !.pc = "returned", !.res = None]
  <2>1. k \in CallType /\ call' = [call EXCEPT ![c] = k]
    BY <1>0, <1>4 DEF Returns, CallType, IInv, TypeOK
  <2>2. call'[c] = k /\ k.user = call[c].user /\ k.start = call[c].start
        /\ k.res = None /\ k.pc = "returned"
    BY <1>0, <2>1, CallUpdate DEF IInv, CallType
  <2>3. AnswerBacked(c)' /\ FreshEnough(c)'
    BY <1>0, <1>4, <2>2 DEF AnswerBacked, FreshEnough
  <2>4. QED
    BY <1>4, <2>1, <2>3, CallOnly
<1>5. ASSUME NEW c \in Calls, Receive(c) PROVE IInv'
  <2>1. CASE call[c].res # None /\ call' = [call EXCEPT ![c].pc = "store"]
    <3> DEFINE k == [call[c] EXCEPT !.pc = "store"]
    <3>1. k \in CallType /\ call' = [call EXCEPT ![c] = k]
      BY <1>0, <2>1 DEF CallType
    <3>2. call'[c] = k /\ k.user = call[c].user /\ k.start = call[c].start
          /\ k.res = call[c].res /\ k.pc = "store"
      BY <1>0, <3>1, CallUpdate DEF IInv, CallType
    <3>3. AnswerBacked(c)' /\ FreshEnough(c)'
      BY <1>0, <1>5, <2>1, <3>2 DEF Receive, AnswerBacked, FreshEnough
    <3>4. QED
      BY <1>5, <3>1, <3>3, CallOnly DEF Receive
  <2>2. QED
    BY <1>4, <1>5, <2>1 DEF Receive
<1>6. ASSUME NEW c \in Calls, Fill(c) PROVE IInv'
  <2> DEFINE u == call[c].user
             e == [u |-> call[c].res, expires |-> call[c].start + TTL]
             k == [call[c] EXCEPT !.pc = "returned"]
  <2>1. /\ u \in Users /\ call[c].start \in Nat /\ call[c].start <= clock
        /\ call[c].res \in Records
        /\ held[u][call[c].res] >= call[c].start
    BY <1>0, <1>6 DEF Fill, AnswerBacked, CallType
  <2>2. cache' = [cache EXCEPT ![u] = e] /\ e \in Entries
    BY <1>6, <2>1 DEF Fill, Expiry, Entries
  <2>3. k \in CallType /\ call' = [call EXCEPT ![c] = k]
    BY <1>0, <1>6 DEF Fill, Returns, CallType, IInv, TypeOK
  <2>4. /\ call'[c] = k /\ k.user = u /\ k.start = call[c].start
        /\ k.res = call[c].res /\ k.pc = "returned"
        /\ call' \in [Calls -> CallType]
        /\ \A d \in Calls \ {c} : call'[d] = call[d]
    BY <1>0, <2>3, CallUpdate DEF IInv, CallType
  <2>5. TypeOK'
    BY <1>6, <2>2, <2>4 DEF IInv, TypeOK, Fill
  <2>6. ASSUME NEW v \in Users PROVE EntryBacked(v)'
    <3>1. CASE v = u
      <4>1. cache'[v] = e
        BY <2>2, <3>1 DEF IInv, TypeOK
      <4>2. held[u][call[c].res] \in Int
        BY <1>0, <2>1
      <4>3. e.expires <= held[u][e.u] + TTL
        BY <2>1, <4>2
      <4>4. QED
        BY <1>0, <1>6, <3>1, <4>1, <4>3 DEF EntryBacked, Fill
    <3>2. CASE v # u
      <4>1. cache'[v] = cache[v]
        BY <2>2, <3>2 DEF IInv, TypeOK
      <4>2. QED
        BY <1>0, <1>6, <4>1 DEF EntryBacked, Fill
    <3>3. QED
      BY <3>1, <3>2
  <2>7. AnswerBacked(c)' /\ FreshEnough(c)'
    BY <1>6, <2>1, <2>4 DEF Fill, AnswerBacked, FreshEnough
  <2>8. \A d \in Calls \ {c} : AnswerBacked(d)' /\ FreshEnough(d)'
    BY <1>0, <1>6, <2>4 DEF Fill, AnswerBacked, FreshEnough, IInv, BoundedStaleness
  <2>9. QED
    BY <2>5, <2>6, <2>7, <2>8 DEF IInv, ExpiryBacked, BoundedStaleness
<1>7. ASSUME NEW c \in Calls, Consume(c) PROVE IInv'
  <2>1. Idle \in CallType
    BY DEF Idle, CallType
  <2>2. call'[c] = Idle
    BY <1>7, <2>1, CallUpdate DEF Consume, IInv
  <2>3. AnswerBacked(c)' /\ FreshEnough(c)'
    BY <2>2 DEF AnswerBacked, FreshEnough, Idle
  <2>4. QED
    BY <1>7, <2>1, <2>3, CallOnly DEF Consume
<1>8. ASSUME NEW u \in Users, NEW r \in Records \cup {None}, VaultPut(u, r) PROVE IInv'
  <2>1. held' \in [Users -> [Records -> Int]] /\ vault' \in [Users -> Records \cup {None}]
    BY <1>0, <1>8 DEF VaultPut, IInv, TypeOK
  <2>2. \A v \in Users, q \in Records :
          held[v][q] <= held'[v][q] /\ held'[v][q] <= clock
    BY <1>0, <1>8 DEF VaultPut, IInv, TypeOK, EntryBacked
  <2>3. ASSUME NEW v \in Users, vault'[v] # None PROVE held'[v][vault'[v]] = clock
    <3>1. CASE v = u
      BY <1>8, <2>3, <3>1 DEF VaultPut, IInv, TypeOK
    <3>2. CASE v # u
      BY <1>0, <1>8, <2>3, <3>2 DEF VaultPut, IInv, TypeOK, EntryBacked
    <3>3. QED
      BY <3>1, <3>2
  <2>4. QED
    BY <1>0, <1>8, <2>1, <2>2, <2>3, HeldGrows DEF VaultPut
<1>9. CASE Tick
  <2>1. clock' \in Nat /\ clock <= clock'
    BY <1>0, <1>9 DEF Tick
  <2>2. held' \in [Users -> [Records -> Int]]
        /\ vault' \in [Users -> Records \cup {None}]
    BY <1>0, <1>9 DEF Tick, IInv, TypeOK
  <2>3. \A v \in Users, q \in Records :
          held[v][q] <= held'[v][q] /\ held'[v][q] <= clock'
    BY <1>0, <1>9 DEF Tick, EntryBacked
  <2>4. \A v \in Users : vault'[v] # None => held'[v][vault'[v]] = clock'
    BY <1>9 DEF Tick, IInv, TypeOK
  <2>5. QED
    BY <1>9, <2>1, <2>2, <2>3, <2>4, HeldGrows DEF Tick
<1>10. ASSUME NEW c \in Calls, TimeOut(c) PROVE IInv'
  BY <1>4, <1>10 DEF TimeOut
<1>11. CASE ProcessEnds
  <2>1. Idle \in CallType /\ NoEntry \in Entries
    BY DEF Idle, CallType, Entries
  <2>2. TypeOK'
    BY <1>11, <2>1 DEF ProcessEnds, IInv, TypeOK
  <2>3. \A u \in Users : EntryBacked(u)'
    BY <1>0, <1>11 DEF ProcessEnds, EntryBacked
  <2>4. \A c \in Calls : AnswerBacked(c)' /\ FreshEnough(c)'
    BY <1>11 DEF ProcessEnds, AnswerBacked, FreshEnough, Idle
  <2>5. QED
    BY <2>2, <2>3, <2>4 DEF IInv, ExpiryBacked, BoundedStaleness
<1>12. CASE UNCHANGED cacheVars
  BY <1>12 DEF cacheVars, IInv, TypeOK, ExpiryBacked, BoundedStaleness, EntryBacked,
     AnswerBacked, FreshEnough
<1>13. QED
  BY <1>1, <1>2, <1>3, <1>5, <1>6, <1>7, <1>8, <1>9, <1>10, <1>11, <1>12 DEF Next, CallStep

LEMMA InvHolds == Spec => []IInv
  BY InitInv, StepInv, PTL DEF Spec

(* Every variable has its type: no failed read is ever cached.             *)
THEOREM CacheTypeCorrect == Spec => []TypeOK
  BY InvHolds, PTL DEF IInv

(* An entry never outlives its record by more than a TTL, and an answer on *)
(* its way was Vault's after its call began: why the next theorem holds.   *)
THEOREM ExpiriesAreBacked == Spec => []ExpiryBacked
  BY InvHolds, PTL DEF IInv

(* No call returns a record that Vault had dropped TTL or more before the  *)
(* call began: disabling a user takes hold within one TTL, for every       *)
(* interleaving of reads and fills.                                        *)
THEOREM StalenessIsBounded == Spec => []BoundedStaleness
  BY InvHolds, PTL DEF IInv
--------------------------------------------------------------------------------
USE SessionAssumption

(* What a connection promises: a lookup under way is for the user it asks  *)
(* for, and what let it in is not forgotten.                               *)
Admitted(c) ==
  \E r \in Records : /\ ~r.disabled /\ conn[c].key \in r.publicKeys
                     /\ Recent(conn[c].user, r, conn[c].since)

ConnOK(c) ==
  /\ conn[c].tries < MaxAuthTries
  /\ conn[c].pc \in {"asking", "accepted", "open"} => conn[c].user \in Users
  /\ conn[c].pc = "asking" => call[c].pc # "idle" /\ call[c].user = conn[c].user
  /\ conn[c].pc \in {"accepted", "open"} => Admitted(c)

(* The same for a channel. *)
ChanOK(k) ==
  /\ Len(chan[k].unread) <= Buffer + 1
  /\ chan[k].pc # "none" => chan[k].user \in Users
  /\ chan[k].pc = "loading" => call[k].pc # "idle" /\ call[k].user = chan[k].user
  /\ chan[k].pc = "serving" =>
       chan[k].rec # None /\ Recent(chan[k].user, chan[k].rec, chan[k].since)
  /\ chan[k].pc # "none" /\ ~chan[k].closed =>
       conn[ConnOf[k]].pc = "open" /\ conn[ConnOf[k]].user = chan[k].user

SInv ==
  /\ srv \in SrvType
  /\ conn \in [Conns -> ConnType]
  /\ chan \in [Channels -> ChanType]
  /\ \A c \in Conns : ConnOK(c)
  /\ \A k \in Channels : ChanOK(k)

(* What a step may do to the lookup of c and to Vault's history without    *)
(* breaking a promise.                                                     *)
CallKept(c) == call[c].pc # "idle" => call'[c].pc # "idle" /\ call'[c].user = call[c].user
HeldKept ==
  \A u \in Users, r \in Records :
    held[u][r] \in Int /\ held'[u][r] \in Int /\ held[u][r] <= held'[u][r]
-------------------------------------------------------------------------------
(* Every step of a session is a step of the cache, or leaves it alone.     *)
LEMMA StepsMap == SInv /\ [SessionNext]_allVars => [Next]_cacheVars
<1> SUFFICES ASSUME SInv, [SessionNext]_allVars PROVE [Next]_cacheVars
  OBVIOUS
<1>1. CASE UNCHANGED allVars
  BY <1>1 DEF allVars, cacheVars
<1>2. CASE Signal \/ MainStops \/ AcceptEnds \/ Start
  BY <1>2 DEF Signal, MainStops, AcceptEnds, Start, cacheVars
<1>3. CASE MainReturns
  BY <1>3 DEF MainReturns, Next
<1>4. ASSUME NEW c \in Conns,
             Accept(c) \/ Sign(c) \/ Lose(c) \/ HandshakeFails(c) \/ SessionEnds(c)
      PROVE  UNCHANGED cacheVars
  BY <1>4 DEF Accept, Sign, Lose, HandshakeFails, SessionEnds, cacheVars
<1>5. ASSUME NEW c \in Conns, NEW u \in Users, NEW key \in Keys, Ask(c, u, key) PROVE Next
  BY <1>5 DEF Ask, Next
<1>6. ASSUME NEW c \in Conns, Decide(c) PROVE Next
  BY <1>6 DEF Decide, Next
<1>7. ASSUME NEW k \in Channels, NEW r \in {"sftp", "other"},
             OpenChannel(k) \/ CloseChannel(k) \/ Request(k, r) \/ Deny(k) \/ ServeStops(k)
             \/ ServeEnds(k) \/ RangeEnds(k)
      PROVE  UNCHANGED cacheVars
  BY <1>7 DEF OpenChannel, CloseChannel, Request, Deny, ServeStops, ServeEnds, RangeEnds,
         cacheVars
<1>8. ASSUME NEW k \in Channels, Loaded(k) PROVE Next
  BY <1>8 DEF Loaded, Next
<1>9. ASSUME NEW k \in Channels, Subsystem(k) PROVE Next
  <2>1. chan[k].user \in Users
    BY <1>9 DEF Subsystem, SInv, ChanOK
  <2>2. Begin(k, chan[k].user) /\ k \in Calls
    BY <1>9 DEF Subsystem
  <2>3. QED
    BY <2>1, <2>2 DEF Next
<1>10. ASSUME NEW c \in Calls, LookupStep(c) \/ VaultAnswers(c) PROVE Next
  BY <1>10 DEF LookupStep, Next
<1>11. ASSUME NEW u \in Users, NEW r \in Records \cup {None}, VaultPut(u, r) PROVE Next
  BY <1>11 DEF Next
<1>12. CASE TimePasses
  BY <1>12 DEF TimePasses, Next
<1>13. QED
  BY <1>1, <1>2, <1>3, <1>4, <1>5, <1>6, <1>7, <1>8, <1>9, <1>10, <1>11, <1>12
  DEF SessionNext, MainStep, ConnStep, ChanStep

(* Vault's history only grows, whatever the step.                          *)
LEMMA HistoryGrows == IInv /\ [Next]_cacheVars => HeldKept
<1> SUFFICES ASSUME IInv, [Next]_cacheVars PROVE HeldKept
  OBVIOUS
<1>1. /\ clock \in Nat
      /\ \A u \in Users, r \in Records : held[u][r] \in Int /\ held[u][r] <= clock
  BY DEF IInv, TypeOK, ExpiryBacked, EntryBacked
<1>2. IInv'
  BY StepInv
<1>3. \A u \in Users, r \in Records : held'[u][r] \in Int
  BY <1>2 DEF IInv, TypeOK
<1>4. CASE held' = held
  BY <1>1, <1>4 DEF HeldKept
<1>5. ASSUME NEW u \in Users, NEW r \in Records \cup {None}, VaultPut(u, r) PROVE HeldKept
  BY <1>1, <1>3, <1>5 DEF VaultPut, HeldKept, IInv, TypeOK
<1>6. CASE Tick
  BY <1>1, <1>3, <1>6 DEF Tick, HeldKept
<1>7. ASSUME NEW c \in Calls,
             (\E u \in Users : Begin(c, u)) \/ CallStep(c) \/ VaultAnswers(c) \/ Consume(c)
      PROVE  held' = held
  BY <1>7 DEF CallStep, Begin, Lookup, VaultAnswers, TimeOut, Receive, Fill, Consume
<1>8. CASE ProcessEnds \/ UNCHANGED cacheVars
  BY <1>4, <1>8 DEF ProcessEnds, cacheVars
<1>9. ASSUME NEW c \in Calls,
             (\E u \in Users : Begin(c, u)) \/ CallStep(c) \/ VaultAnswers(c) \/ Consume(c)
      PROVE  HeldKept
  BY <1>4, <1>7, <1>9
<1>10. QED
  BY <1>5, <1>6, <1>8, <1>9 DEF Next

(* What was recent stays recent. *)
LEMMA RecentStays ==
  ASSUME HeldKept, NEW u \in Users, NEW r \in Records, NEW t \in Nat, Recent(u, r, t)
  PROVE  Recent(u, r, t)'
<1>1. held[u][r] \in Int /\ held'[u][r] \in Int /\ held[u][r] <= held'[u][r]
  BY DEF HeldKept
<1>2. QED
  BY <1>1 DEF Recent
-------------------------------------------------------------------------------
(* The lookups only go on: those of other connections and channels too.    *)
LEMMA LookupKeeps ==
  ASSUME IInv, NEW c \in Calls, CallStep(c) \/ VaultAnswers(c)
  PROVE  \A d \in Calls : CallKept(d)
<1>1. call[c] \in CallType
  BY DEF IInv, TypeOK
<1>2. PICK p \in {"lookup", "reading", "answered", "store", "returned"},
           r \in Records \cup {None} :
         call' = [call EXCEPT ![c].pc = p, ![c].res = r] \/ call' = [call EXCEPT ![c].pc = p]
  <2>1. CASE Lookup(c)
    <3>1. call[c].user \in Users
      BY <2>1 DEF Lookup, IInv, ExpiryBacked, AnswerBacked
    <3>2. Hit(c) => cache[call[c].user].u \in Records
      BY <3>1 DEF Hit, IInv, TypeOK, Entries
    <3>3. QED
      BY <2>1, <3>2 DEF Lookup, Returns
  <2>2. CASE TimeOut(c)
    BY <2>2 DEF TimeOut, Returns
  <2>3. CASE Receive(c)
    BY <2>3 DEF Receive, Returns
  <2>4. CASE Fill(c)
    BY <1>1, <2>4 DEF Fill, Returns, CallType
  <2>5. CASE VaultAnswers(c)
    <3>1. call[c].user \in Users
      BY <2>5 DEF VaultAnswers, IInv, ExpiryBacked, AnswerBacked
    <3>2. QED
      BY <2>5, <3>1 DEF VaultAnswers, IInv, TypeOK
  <2>6. QED
    BY <2>1, <2>2, <2>3, <2>4, <2>5 DEF CallStep
<1>3. \A d \in Calls \ {c} : call'[d] = call[d]
  BY <1>2 DEF IInv, TypeOK
<1>4. call'[c].pc # "idle" /\ call'[c].user = call[c].user
  BY <1>1, <1>2 DEF IInv, TypeOK, CallType
<1>5. QED
  BY <1>3, <1>4 DEF CallKept

(* The promises of a connection, or channel, the step does not touch.      *)
LEMMA ConnStays ==
  ASSUME SInv, HeldKept, NEW c \in Conns, conn'[c] = conn[c], CallKept(c)
  PROVE  ConnOK(c)'
<1>1. conn[c] \in ConnType /\ ConnOK(c) /\ conn[c].since \in Nat
  BY DEF SInv, ConnType
<1>2. conn[c].pc \in {"accepted", "open"} => Admitted(c)'
  <2> SUFFICES ASSUME conn[c].pc \in {"accepted", "open"} PROVE Admitted(c)'
    OBVIOUS
  <2>1. PICK r \in Records : /\ ~r.disabled /\ conn[c].key \in r.publicKeys
                             /\ Recent(conn[c].user, r, conn[c].since)
    BY <1>1 DEF ConnOK, Admitted
  <2>2. conn[c].user \in Users
    BY <1>1 DEF ConnOK
  <2>3. \/ held'[conn[c].user][r] >= conn[c].since
        \/ held'[conn[c].user][r] + TTL > conn[c].since
    BY <1>1, <2>1, <2>2, RecentStays DEF Recent
  <2>4. QED
    BY <2>1, <2>3 DEF Admitted, Recent
<1>3. QED
  BY <1>1, <1>2 DEF ConnOK, CallKept

LEMMA ChanStays ==
  ASSUME SInv, HeldKept, NEW k \in Channels, chan'[k] = chan[k], CallKept(k),
         chan[k].pc # "none" /\ ~chan[k].closed =>
           conn'[ConnOf[k]].pc = "open" /\ conn'[ConnOf[k]].user = conn[ConnOf[k]].user
  PROVE  ChanOK(k)'
<1>1. chan[k] \in ChanType /\ ChanOK(k)
  BY DEF SInv
<1>2. chan[k].pc = "serving" =>
        /\ chan[k].rec # None
        /\ \/ held'[chan[k].user][chan[k].rec] >= chan[k].since
           \/ held'[chan[k].user][chan[k].rec] + TTL > chan[k].since
  <2> SUFFICES ASSUME chan[k].pc = "serving"
               PROVE  /\ chan[k].rec # None
                      /\ \/ held'[chan[k].user][chan[k].rec] >= chan[k].since
                         \/ held'[chan[k].user][chan[k].rec] + TTL > chan[k].since
    OBVIOUS
  <2>1. /\ chan[k].user \in Users /\ chan[k].rec \in Records /\ chan[k].since \in Nat
        /\ Recent(chan[k].user, chan[k].rec, chan[k].since) /\ chan[k].rec # None
    BY <1>1 DEF ChanOK, ChanType
  <2>2. QED
    BY <2>1, RecentStays DEF Recent
<1>3. chan[k].pc # "none" /\ ~chan[k].closed =>
        conn'[ConnOf[k]].pc = "open" /\ conn'[ConnOf[k]].user = chan[k].user
  BY <1>1 DEF ChanOK
<1>4. QED
  BY <1>1, <1>2, <1>3 DEF ChanOK, CallKept, Recent

(* A channel that is open belongs to an open connection.                   *)
LEMMA ChanConn ==
  ASSUME SInv, NEW k \in Channels
  PROVE  /\ ConnOf[k] \in Conns
         /\ chan[k].pc # "none" /\ ~chan[k].closed => conn[ConnOf[k]].pc = "open"
BY DEF SInv, ChanOK

(* A step of the cache or of main alone. *)
LEMMA CacheOnly ==
  ASSUME SInv, HeldKept, UNCHANGED <<conn, chan>>, srv' \in SrvType,
         \A d \in Calls : CallKept(d)
  PROVE  SInv'
BY ConnStays, ChanStays, ChanConn DEF SInv

(* A step of one connection. *)
LEMMA ConnOnly ==
  ASSUME SInv, HeldKept, NEW c \in Conns, NEW q \in ConnType,
         conn' = [conn EXCEPT ![c] = q], chan' = chan, srv' = srv,
         \A d \in Calls \ {c} : CallKept(d),
         ConnOK(c)',
         conn[c].pc = "open" => q.pc = "open" /\ q.user = conn[c].user
  PROVE  SInv'
<1>1. conn' \in [Conns -> ConnType] /\ conn'[c] = q
      /\ \A d \in Conns \ {c} : conn'[d] = conn[d]
  BY DEF SInv
<1>2. \A d \in Conns \ {c} : ConnOK(d)'
  BY <1>1, ConnStays
<1>3. \A k \in Channels : ChanOK(k)'
  BY <1>1, ChanStays, ChanConn
<1>4. QED
  BY <1>1, <1>2, <1>3 DEF SInv

(* A step of one channel. *)
LEMMA ChanOnly ==
  ASSUME SInv, HeldKept, NEW k \in Channels, NEW q \in ChanType,
         chan' = [chan EXCEPT ![k] = q], conn' = conn, srv' = srv,
         \A d \in Calls \ {k} : CallKept(d),
         ChanOK(k)'
  PROVE  SInv'
<1>1. chan' \in [Channels -> ChanType] /\ chan'[k] = q
      /\ \A j \in Channels \ {k} : chan'[j] = chan[j]
  BY DEF SInv
<1>2. \A c \in Conns : ConnOK(c)'
  BY ConnStays
<1>3. \A j \in Channels \ {k} : ChanOK(j)'
  BY <1>1, ChanStays, ChanConn
<1>4. QED
  BY <1>1, <1>2, <1>3 DEF SInv
-------------------------------------------------------------------------------
LEMMA SessionInitInv == SessionInit => SInv
<1> SUFFICES ASSUME SessionInit PROVE SInv
  OBVIOUS
<1>1. Running \in SrvType /\ NoConn \in ConnType
  BY DEF Running, SrvType, NoConn, ConnType
<1>2. NoChan \in ChanType /\ Len(NoChan.unread) = 0
  BY DEF NoChan, ChanType
<1>3. srv \in SrvType /\ conn \in [Conns -> ConnType] /\ chan \in [Channels -> ChanType]
  BY <1>1, <1>2 DEF SessionInit
<1>4. \A c \in Conns : ConnOK(c)
  BY DEF SessionInit, ConnOK, NoConn
<1>5. \A k \in Channels : ChanOK(k)
  BY <1>2 DEF SessionInit, ChanOK, NoChan
<1>6. QED
  BY <1>3, <1>4, <1>5 DEF SInv

(* A connection, or channel, that is at rest promises nothing.             *)
LEMMA NoConnOK ==
  /\ NoConn \in ConnType
  /\ \A c \in Conns : conn'[c] = NoConn => ConnOK(c)'
BY DEF NoConn, ConnType, ConnOK

LEMMA NoChanOK ==
  /\ NoChan \in ChanType
  /\ \A k \in Channels : chan'[k] = NoChan => ChanOK(k)'
<1>1. NoChan \in ChanType /\ Len(NoChan.unread) = 0
  BY DEF NoChan, ChanType
<1>2. QED
  BY <1>1 DEF ChanOK, NoChan

LEMMA MainInv ==
  ASSUME SInv, HeldKept, Signal \/ MainStep \/ AcceptEnds \/ Start
  PROVE  SInv'
<1>1. CASE Signal
  <2>1. srv' \in SrvType
    BY <1>1 DEF Signal, SInv, SrvType
  <2>2. \A d \in Calls : CallKept(d)
    BY <1>1 DEF Signal, cacheVars, CallKept
  <2>3. QED
    BY <1>1, <2>1, <2>2, CacheOnly DEF Signal
<1>2. CASE MainStops
  <2>1. srv' \in SrvType
    BY <1>2 DEF MainStops, SInv, SrvType
  <2>2. \A d \in Calls : CallKept(d)
    BY <1>2 DEF MainStops, cacheVars, CallKept
  <2>3. QED
    BY <1>2, <2>1, <2>2, CacheOnly DEF MainStops
<1>3. CASE AcceptEnds
  <2>1. srv' \in SrvType
    BY <1>3 DEF AcceptEnds, SInv, SrvType
  <2>2. \A d \in Calls : CallKept(d)
    BY <1>3 DEF AcceptEnds, cacheVars, CallKept
  <2>3. QED
    BY <1>3, <2>1, <2>2, CacheOnly DEF AcceptEnds
<1>4. CASE Start
  <2>1. srv' \in SrvType
    BY <1>4 DEF Start, Running, SrvType
  <2>2. \A d \in Calls : CallKept(d)
    BY <1>4 DEF Start, cacheVars, CallKept
  <2>3. QED
    BY <1>4, <2>1, <2>2, CacheOnly DEF Start
<1>5. CASE MainReturns
  <2>1. srv' \in SrvType
    BY <1>5 DEF MainReturns, SrvType
  <2>2. conn' \in [Conns -> ConnType] /\ \A c \in Conns : ConnOK(c)'
    BY <1>5, NoConnOK DEF MainReturns
  <2>3. chan' \in [Channels -> ChanType] /\ \A k \in Channels : ChanOK(k)'
    BY <1>5, NoChanOK DEF MainReturns
  <2>4. QED
    BY <2>1, <2>2, <2>3 DEF SInv
<1>6. QED
  BY <1>1, <1>2, <1>3, <1>4, <1>5 DEF MainStep

(* The steps of a connection that leave the cache alone, but for its end.  *)
LEMMA QuietConnInv ==
  ASSUME SInv, HeldKept, NEW c \in Conns,
         Accept(c) \/ Sign(c) \/ Lose(c) \/ HandshakeFails(c)
  PROVE  SInv'
<1>1. conn[c] \in ConnType /\ ConnOK(c) /\ conn[c].since \in Nat
  BY DEF SInv, ConnType
<1>2. \A d \in Calls : CallKept(d)
  BY DEF Accept, Sign, Lose, HandshakeFails, cacheVars, CallKept
<1>3. chan' = chan /\ srv' = srv /\ held' = held /\ call' = call
  BY DEF Accept, Sign, Lose, HandshakeFails, cacheVars
<1>4. CASE HandshakeFails(c)
  <2>1. conn' = [conn EXCEPT ![c] = NoConn] /\ conn[c].pc # "open"
    BY <1>4 DEF HandshakeFails
  <2>2. conn'[c] = NoConn
    BY <2>1 DEF SInv
  <2>3. QED
    BY <1>2, <1>3, <2>1, <2>2, NoConnOK, ConnOnly
<1>5. CASE Accept(c)
  <2> DEFINE q == [conn[c] EXCEPT !.pc = "handshake"]
  <2>1. q \in ConnType /\ conn' = [conn EXCEPT ![c] = q] /\ conn[c].pc # "open"
    BY <1>1, <1>5 DEF Accept, ConnType
  <2>2. conn'[c].pc = "handshake" /\ conn'[c].tries = conn[c].tries
    BY <1>1, <2>1 DEF SInv, ConnType
  <2>3. ConnOK(c)'
    BY <1>1, <2>2 DEF ConnOK
  <2>4. QED
    BY <1>2, <1>3, <2>1, <2>3, ConnOnly
<1>6. CASE Sign(c)
  <2> DEFINE q == [conn[c] EXCEPT !.pc = "open"]
  <2>1. q \in ConnType /\ conn' = [conn EXCEPT ![c] = q] /\ conn[c].pc = "accepted"
    BY <1>1, <1>6 DEF Sign, ConnType
  <2>2. /\ conn'[c].pc = "open" /\ conn'[c].tries = conn[c].tries
        /\ conn'[c].user = conn[c].user /\ conn'[c].key = conn[c].key
        /\ conn'[c].since = conn[c].since
    BY <1>1, <2>1 DEF SInv, ConnType
  <2>3. ConnOK(c)'
    BY <1>1, <1>3, <2>1, <2>2 DEF ConnOK, Admitted, Recent
  <2>4. QED
    BY <1>2, <1>3, <2>1, <2>3, ConnOnly
<1>7. CASE Lose(c)
  <2> DEFINE q == [conn[c] EXCEPT !.lost = TRUE]
  <2>1. q \in ConnType /\ conn' = [conn EXCEPT ![c] = q]
    BY <1>1, <1>7 DEF Lose, ConnType
  <2>2. /\ conn'[c].pc = conn[c].pc /\ conn'[c].tries = conn[c].tries
        /\ conn'[c].user = conn[c].user /\ conn'[c].key = conn[c].key
        /\ conn'[c].since = conn[c].since /\ q.pc = conn[c].pc /\ q.user = conn[c].user
    BY <1>1, <2>1 DEF SInv, ConnType
  <2>3. ConnOK(c)'
    BY <1>1, <1>3, <2>2 DEF ConnOK, Admitted, Recent
  <2>4. QED
    BY <1>2, <1>3, <2>1, <2>2, <2>3, ConnOnly
<1>8. QED
  BY <1>4, <1>5, <1>6, <1>7
(* The lookup of c ends or begins; the others stand still.                 *)
LEMMA OthersStill ==
  ASSUME IInv, NEW c \in Calls, NEW k, call' = [call EXCEPT ![c] = k]
  PROVE  call'[c] = k /\ \A d \in Calls \ {c} : CallKept(d)
BY DEF IInv, TypeOK, CallKept

LEMMA AskInv ==
  ASSUME IInv, SInv, HeldKept, NEW c \in Conns, NEW u \in Users, NEW key \in Keys,
         Ask(c, u, key)
  PROVE  SInv'
<1> DEFINE q == [conn[c] EXCEPT !.pc = "asking", !.user = u, !.key = key, !.since = 0]
<1>1. conn[c] \in ConnType /\ ConnOK(c) /\ c \in Calls
  BY DEF SInv
<1>2. q \in ConnType /\ conn' = [conn EXCEPT ![c] = q] /\ conn[c].pc # "open"
  BY <1>1 DEF Ask, ConnType
<1>3. /\ conn'[c].pc = "asking" /\ conn'[c].tries = conn[c].tries /\ conn'[c].user = u
  BY <1>1, <1>2 DEF SInv, ConnType
<1>4. /\ call'[c].pc = "lookup" /\ call'[c].user = u
      /\ \A d \in Calls \ {c} : CallKept(d)
  <2> DEFINE k == [pc |-> "lookup", user |-> u, start |-> clock, res |-> None]
  <2>1. call' = [call EXCEPT ![c] = k] /\ k.pc = "lookup" /\ k.user = u
    BY DEF Ask, Begin
  <2> HIDE DEF k
  <2>2. QED
    BY <1>1, <2>1, OthersStill
<1>5. ConnOK(c)'
  BY <1>1, <1>3, <1>4 DEF ConnOK
<1>6. chan' = chan /\ srv' = srv
  BY DEF Ask
<1>7. QED
  BY <1>2, <1>4, <1>5, <1>6, ConnOnly

(* What the callback, or the channel, takes from its lookup is recent.     *)
LEMMA ResultRecent ==
  ASSUME IInv, NEW c \in Calls, call[c].pc = "returned", call[c].res # None
  PROVE  /\ call[c].res \in Records /\ call[c].start \in Nat
         /\ Recent(call[c].user, call[c].res, call[c].start)
BY DEF IInv, TypeOK, CallType, BoundedStaleness, FreshEnough, Recent

LEMMA DecideInv ==
  ASSUME IInv, SInv, HeldKept, NEW c \in Conns, Decide(c)
  PROVE  SInv'
<1>1. /\ conn[c] \in ConnType /\ ConnOK(c) /\ c \in Calls /\ conn[c].pc = "asking"
      /\ conn[c].tries \in Nat /\ call[c] \in CallType
  BY DEF SInv, Decide, ConnType, IInv, TypeOK
<1>2. /\ call[c].pc = "returned" /\ call[c].start \in Nat /\ held' = held
      /\ \A d \in Calls \ {c} : CallKept(d)
  BY <1>1, OthersStill DEF Decide, Consume, CallType
<1>3. chan' = chan /\ srv' = srv
  BY DEF Decide
<1>4. CASE /\ Allowed(call[c].res, conn[c].key)
           /\ conn' = [conn EXCEPT ![c].pc = "accepted", ![c].since = call[c].start]
  <2> DEFINE q == [conn[c] EXCEPT !.pc = "accepted", !.since = call[c].start]
  <2>1. q \in ConnType /\ conn' = [conn EXCEPT ![c] = q]
    BY <1>1, <1>2, <1>4 DEF ConnType
  <2>2. /\ conn'[c].pc = "accepted" /\ conn'[c].tries = conn[c].tries
        /\ conn'[c].user = conn[c].user /\ conn'[c].key = conn[c].key
        /\ conn'[c].since = call[c].start
    BY <1>1, <2>1 DEF SInv, ConnType
  <2>3. /\ call[c].res \in Records /\ call[c].user = conn[c].user
        /\ Recent(call[c].user, call[c].res, call[c].start)
    BY <1>1, <1>2, <1>4, ResultRecent DEF Allowed, ConnOK
  <2>4. Admitted(c)'
    BY <1>2, <1>4, <2>2, <2>3 DEF Admitted, Allowed, Recent
  <2>5. ConnOK(c)'
    BY <1>1, <2>2, <2>4 DEF ConnOK
  <2>6. QED
    BY <1>1, <1>2, <1>3, <2>1, <2>5, ConnOnly
<1>5. CASE /\ conn[c].tries + 1 < MaxAuthTries
           /\ conn' = [conn EXCEPT ![c] = [NoConn EXCEPT !.pc = "handshake",
                         !.tries = conn[c].tries + 1, !.lost = conn[c].lost]]
  <2> DEFINE q == [NoConn EXCEPT !.pc = "handshake", !.tries = conn[c].tries + 1,
                                 !.lost = conn[c].lost]
  <2>1. q \in ConnType /\ conn' = [conn EXCEPT ![c] = q] /\ q.pc = "handshake"
        /\ q.tries = conn[c].tries + 1
    <3>1. conn[c].lost \in BOOLEAN /\ conn[c].tries + 1 \in Nat /\ NoConn \in ConnType
      BY <1>1, NoConnOK DEF ConnType
    <3>2. PICK n \in ConnType : n = NoConn
      BY <3>1
    <3> DEFINE m == [n EXCEPT !.pc = "handshake", !.tries = conn[c].tries + 1,
                              !.lost = conn[c].lost]
    <3>3. m \in ConnType /\ m.pc = "handshake" /\ m.tries = conn[c].tries + 1
      BY <3>1 DEF ConnType
    <3>4. m = q
      BY <3>2
    <3>5. conn' = [conn EXCEPT ![c] = q]
      BY <1>5
    <3>6. QED
      BY <3>3, <3>4, <3>5
  <2>2. conn'[c] = q
    BY <2>1 DEF SInv
  <2>3. ConnOK(c)'
    BY <1>5, <2>1, <2>2 DEF ConnOK
  <2>4. QED
    BY <1>1, <1>2, <1>3, <2>1, <2>3, ConnOnly
<1>6. CASE conn' = [conn EXCEPT ![c] = NoConn]
  <2>1. conn'[c] = NoConn
    BY <1>6 DEF SInv
  <2>2. QED
    BY <1>1, <1>2, <1>3, <1>6, <2>1, NoConnOK, ConnOnly
<1>7. QED
  BY <1>4, <1>5, <1>6 DEF Decide

LEMMA SessionEndsInv ==
  ASSUME SInv, HeldKept, NEW c \in Conns, SessionEnds(c)
  PROVE  SInv'
<1>1. \A d \in Calls : CallKept(d)
  BY DEF SessionEnds, cacheVars, CallKept
<1>2. /\ conn' \in [Conns -> ConnType] /\ conn'[c] = NoConn
      /\ \A d \in Conns \ {c} : conn'[d] = conn[d]
  BY NoConnOK DEF SInv, SessionEnds
<1>3. \A d \in Conns : ConnOK(d)'
  BY <1>1, <1>2, NoConnOK, ConnStays
<1>4. ASSUME NEW k \in Channels PROVE chan'[k] \in ChanType /\ ChanOK(k)'
  <2>1. chan[k] \in ChanType /\ ChanOK(k)
    BY DEF SInv
  <2>2. CASE k \in OpenChannels(c)
    <3>1. chan'[k] = [chan[k] EXCEPT !.closed = TRUE]
      BY <2>2 DEF SessionEnds
    <3>2. /\ chan'[k].pc = chan[k].pc /\ chan'[k].user = chan[k].user
          /\ chan'[k].unread = chan[k].unread /\ chan'[k].rec = chan[k].rec
          /\ chan'[k].since = chan[k].since /\ chan'[k].closed /\ chan'[k] \in ChanType
      BY <2>1, <3>1 DEF ChanType
    <3>3. held' = held /\ call' = call
      BY DEF SessionEnds, cacheVars
    <3>4. QED
      BY <2>1, <3>2, <3>3 DEF ChanOK, Recent
  <2>3. CASE k \notin OpenChannels(c)
    <3>1. chan'[k] = chan[k]
      BY <2>3 DEF SessionEnds
    <3>2. chan[k].pc # "none" /\ ~chan[k].closed => ConnOf[k] # c
      BY <2>3 DEF OpenChannels
    <3>3. QED
      BY <1>1, <1>2, <2>1, <3>1, <3>2, ChanStays, ChanConn
  <2>4. QED
    BY <2>2, <2>3
<1>5. chan' \in [Channels -> ChanType]
  BY <1>4 DEF SessionEnds
<1>6. QED
  BY <1>2, <1>3, <1>4, <1>5 DEF SInv, SessionEnds
(* A request is heard only when no channel of the connection is full.      *)
LEMMA RoomWhenHeard ==
  ASSUME SInv, NEW k \in Channels, k \in OpenChannels(ConnOf[k]), Hears(ConnOf[k])
  PROVE  Len(chan[k].unread) <= Buffer
<1>1. chan[k].unread \in Seq({"sftp", "other"}) /\ Len(chan[k].unread) \in Nat
  BY DEF SInv, ChanType
<1>2. QED
  BY <1>1 DEF Hears, Blocked

(* The steps of a channel that leave the cache alone.                      *)
LEMMA QuietChanInv ==
  ASSUME SInv, HeldKept, NEW k \in Channels, NEW r \in {"sftp", "other"},
         \/ OpenChannel(k) \/ Request(k, r) \/ CloseChannel(k)
         \/ Deny(k) \/ ServeStops(k) \/ ServeEnds(k) \/ RangeEnds(k)
  PROVE  SInv'
<1>1. /\ chan[k] \in ChanType /\ ChanOK(k) /\ chan[k].unread \in Seq({"sftp", "other"})
      /\ Len(chan[k].unread) \in Nat
  BY DEF SInv, ChanType
<1>2. \A d \in Calls : CallKept(d)
  BY DEF OpenChannel, Request, CloseChannel, Deny, ServeStops, ServeEnds, RangeEnds,
         cacheVars, CallKept
<1>3. conn' = conn /\ srv' = srv /\ held' = held /\ call' = call
  BY DEF OpenChannel, Request, CloseChannel, Deny, ServeStops, ServeEnds, RangeEnds,
         cacheVars
<1>4. CASE ServeEnds(k) \/ RangeEnds(k)
  <2>1. chan' = [chan EXCEPT ![k] = NoChan]
    BY <1>4 DEF ServeEnds, RangeEnds
  <2>2. chan'[k] = NoChan
    BY <2>1 DEF SInv
  <2>3. QED
    BY <1>2, <1>3, <2>1, <2>2, NoChanOK, ChanOnly
<1>5. CASE OpenChannel(k)
  <2> DEFINE q == [chan[k] EXCEPT !.pc = "waiting", !.user = conn[ConnOf[k]].user]
  <2>1. conn[ConnOf[k]].pc = "open" /\ conn[ConnOf[k]].user \in Users
    BY <1>5, ChanConn DEF OpenChannel, Hears, SInv, ConnOK
  <2>2. q \in ChanType /\ chan' = [chan EXCEPT ![k] = q]
    BY <1>1, <1>5, <2>1 DEF OpenChannel, ChanType
  <2>3. /\ chan'[k].pc = "waiting" /\ chan'[k].unread = chan[k].unread
        /\ chan'[k].user = conn[ConnOf[k]].user
    BY <1>1, <2>2 DEF SInv, ChanType
  <2>4. ChanOK(k)'
    BY <1>1, <1>3, <2>1, <2>3 DEF ChanOK
  <2>5. QED
    BY <1>2, <1>3, <2>2, <2>4, ChanOnly
<1>6. ASSUME NEW x \in Seq({"sftp", "other"}), Len(x) <= Buffer + 1,
             chan' = [chan EXCEPT ![k].unread = x]
      PROVE  SInv'
  <2> DEFINE q == [chan[k] EXCEPT !.unread = x]
  <2>1. q \in ChanType /\ chan' = [chan EXCEPT ![k] = q]
    BY <1>1, <1>6 DEF ChanType
  <2>2. /\ chan'[k].pc = chan[k].pc /\ chan'[k].unread = x /\ chan'[k].user = chan[k].user
        /\ chan'[k].rec = chan[k].rec /\ chan'[k].since = chan[k].since
        /\ chan'[k].closed = chan[k].closed
    BY <1>1, <2>1 DEF SInv, ChanType
  <2>3. ChanOK(k)'
    BY <1>1, <1>3, <1>6, <2>2 DEF ChanOK, Recent
  <2>4. QED
    BY <1>2, <1>3, <2>1, <2>3, ChanOnly
<1>7. CASE Request(k, r)
  <2> DEFINE x == Append(chan[k].unread, r)
  <2>1. x \in Seq({"sftp", "other"}) /\ Len(x) = Len(chan[k].unread) + 1
    BY <1>1
  <2>2. Len(x) <= Buffer + 1
    BY <1>1, <1>7, <2>1, RoomWhenHeard DEF Request
  <2>3. chan' = [chan EXCEPT ![k].unread = x]
    BY <1>7 DEF Request
  <2> HIDE DEF x
  <2>4. QED
    BY <1>6, <2>1, <2>2, <2>3
<1>8. CASE Deny(k)
  <2> DEFINE x == Tail(chan[k].unread)
  <2>1. x \in Seq({"sftp", "other"}) /\ Len(x) = Len(chan[k].unread) - 1
    BY <1>1, <1>8 DEF Deny
  <2>2. Len(x) <= Buffer + 1
    BY <1>1, <2>1 DEF ChanOK
  <2>3. chan' = [chan EXCEPT ![k].unread = x]
    BY <1>8 DEF Deny
  <2> HIDE DEF x
  <2>4. QED
    BY <1>6, <2>1, <2>2, <2>3
<1>9. CASE CloseChannel(k)
  <2> DEFINE q == [chan[k] EXCEPT !.closed = TRUE]
  <2>1. q \in ChanType /\ chan' = [chan EXCEPT ![k] = q]
    BY <1>1, <1>9 DEF CloseChannel, ChanType
  <2>2. /\ chan'[k].pc = chan[k].pc /\ chan'[k].unread = chan[k].unread
        /\ chan'[k].user = chan[k].user /\ chan'[k].rec = chan[k].rec
        /\ chan'[k].since = chan[k].since /\ chan'[k].closed
    BY <1>1, <2>1 DEF SInv, ChanType
  <2>3. ChanOK(k)'
    BY <1>1, <1>3, <2>2 DEF ChanOK, Recent
  <2>4. QED
    BY <1>2, <1>3, <2>1, <2>3, ChanOnly
<1>10. CASE ServeStops(k)
  <2> DEFINE q == [chan[k] EXCEPT !.pc = "done", !.rec = None, !.since = 0]
  <2>1. q \in ChanType /\ chan' = [chan EXCEPT ![k] = q]
    BY <1>1, <1>10 DEF ServeStops, ChanType
  <2>2. /\ chan'[k].pc = "done" /\ chan[k].pc = "serving" /\ chan'[k].unread = chan[k].unread
        /\ chan'[k].user = chan[k].user /\ chan'[k].closed = chan[k].closed
    BY <1>1, <1>10, <2>1 DEF ServeStops, SInv, ChanType
  <2>3. ChanOK(k)'
    BY <1>1, <1>3, <2>2 DEF ChanOK
  <2>4. QED
    BY <1>2, <1>3, <2>1, <2>3, ChanOnly
<1>11. QED
  BY <1>4, <1>5, <1>7, <1>8, <1>9, <1>10
LEMMA SubsystemInv ==
  ASSUME IInv, SInv, HeldKept, NEW k \in Channels, Subsystem(k)
  PROVE  SInv'
<1> DEFINE x == Tail(chan[k].unread)
           q == [chan[k] EXCEPT !.pc = "loading", !.unread = x]
           l == [pc |-> "lookup", user |-> chan[k].user, start |-> clock, res |-> None]
<1>1. /\ chan[k] \in ChanType /\ ChanOK(k) /\ chan[k].unread \in Seq({"sftp", "other"})
      /\ Len(chan[k].unread) \in Nat /\ chan[k].pc = "waiting" /\ k \in Calls
  BY DEF SInv, ChanType, Subsystem
<1>2. x \in Seq({"sftp", "other"}) /\ Len(x) = Len(chan[k].unread) - 1
  BY <1>1 DEF Subsystem
<1>3. Len(x) <= Buffer + 1
  BY <1>1, <1>2 DEF ChanOK
<1>4. chan' = [chan EXCEPT ![k].pc = "loading", ![k].unread = x] /\ conn' = conn /\ srv' = srv
  BY DEF Subsystem
<1>5. call' = [call EXCEPT ![k] = l] /\ l.pc = "lookup" /\ l.user = chan[k].user
  BY DEF Subsystem, Begin
<1> HIDE DEF x, l
<1>6. q \in ChanType /\ chan' = [chan EXCEPT ![k] = q]
  BY <1>1, <1>2, <1>4 DEF ChanType
<1>7. /\ chan'[k].pc = "loading" /\ chan'[k].unread = x /\ chan'[k].user = chan[k].user
      /\ chan'[k].closed = chan[k].closed
  BY <1>1, <1>6 DEF SInv, ChanType
<1>8. call'[k] = l /\ \A d \in Calls \ {k} : CallKept(d)
  BY <1>1, <1>5, OthersStill
<1>9. ChanOK(k)'
  BY <1>1, <1>3, <1>4, <1>5, <1>7, <1>8 DEF ChanOK
<1>10. QED
  BY <1>4, <1>6, <1>8, <1>9, ChanOnly

LEMMA LoadedInv ==
  ASSUME IInv, SInv, HeldKept, NEW k \in Channels, Loaded(k)
  PROVE  SInv'
<1>1. /\ chan[k] \in ChanType /\ ChanOK(k) /\ chan[k].pc = "loading" /\ k \in Calls
      /\ call[k].pc = "returned" /\ call[k] \in CallType
  BY DEF SInv, Loaded, Consume, IInv, TypeOK
<1>2. held' = held /\ conn' = conn /\ srv' = srv /\ \A d \in Calls \ {k} : CallKept(d)
  BY <1>1, OthersStill DEF Loaded, Consume
<1>3. CASE /\ call[k].res # None
           /\ chan' = [chan EXCEPT ![k].pc = "serving", ![k].rec = call[k].res,
                                   ![k].since = call[k].start]
  <2> DEFINE q == [chan[k] EXCEPT !.pc = "serving", !.rec = call[k].res,
                                  !.since = call[k].start]
  <2>1. /\ call[k].res \in Records /\ call[k].start \in Nat
        /\ Recent(call[k].user, call[k].res, call[k].start)
    BY <1>1, <1>3, ResultRecent
  <2>2. q \in ChanType /\ chan' = [chan EXCEPT ![k] = q]
    BY <1>1, <1>3, <2>1 DEF ChanType
  <2>3. /\ chan'[k].pc = "serving" /\ chan'[k].unread = chan[k].unread
        /\ chan'[k].user = chan[k].user /\ chan'[k].closed = chan[k].closed
        /\ chan'[k].rec = call[k].res /\ chan'[k].since = call[k].start
    BY <1>1, <2>2 DEF SInv, ChanType
  <2>4. ChanOK(k)'
    BY <1>1, <1>2, <1>3, <2>1, <2>3 DEF ChanOK, Recent
  <2>5. QED
    BY <1>1, <1>2, <2>2, <2>4, ChanOnly
<1>4. CASE chan' = [chan EXCEPT ![k].pc = "done"]
  <2> DEFINE q == [chan[k] EXCEPT !.pc = "done"]
  <2>1. q \in ChanType /\ chan' = [chan EXCEPT ![k] = q]
    BY <1>1, <1>4 DEF ChanType
  <2>2. /\ chan'[k].pc = "done" /\ chan'[k].unread = chan[k].unread
        /\ chan'[k].user = chan[k].user /\ chan'[k].closed = chan[k].closed
    BY <1>1, <2>1 DEF SInv, ChanType
  <2>3. ChanOK(k)'
    BY <1>1, <1>2, <2>2 DEF ChanOK
  <2>4. QED
    BY <1>1, <1>2, <2>1, <2>3, ChanOnly
<1>5. QED
  BY <1>3, <1>4 DEF Loaded

LEMMA LookupInv ==
  ASSUME IInv, SInv, HeldKept, UNCHANGED sessionVars,
         \/ \E c \in Calls : CallStep(c) \/ VaultAnswers(c)
         \/ \E u \in Users, r \in Records \cup {None} : VaultPut(u, r)
         \/ Tick
  PROVE  SInv'
<1>1. srv' \in SrvType /\ conn' = conn /\ chan' = chan
  BY DEF sessionVars, SInv
<1>2. \A d \in Calls : CallKept(d)
  <2>1. CASE \E c \in Calls : CallStep(c) \/ VaultAnswers(c)
    BY <2>1, LookupKeeps
  <2>2. CASE call' = call
    BY <2>2 DEF CallKept
  <2>3. QED
    BY <2>1, <2>2 DEF VaultPut, Tick
<1>3. QED
  BY <1>1, <1>2, CacheOnly
-------------------------------------------------------------------------------
LEMMA SessionStepInv == IInv /\ SInv /\ [SessionNext]_allVars => IInv' /\ SInv'
<1> SUFFICES ASSUME IInv, SInv, [SessionNext]_allVars PROVE IInv' /\ SInv'
  OBVIOUS
<1>1. [Next]_cacheVars
  BY StepsMap
<1>2. IInv' /\ HeldKept
  BY <1>1, StepInv, HistoryGrows
<1>3. CASE Signal \/ MainStep \/ AcceptEnds \/ Start
  BY <1>2, <1>3, MainInv
<1>4. ASSUME NEW c \in Conns,
             \/ Accept(c) \/ Sign(c) \/ Lose(c) \/ ConnStep(c)
             \/ \E u \in Users, key \in Keys : Ask(c, u, key)
      PROVE  SInv'
  BY <1>2, <1>4, QuietConnInv, AskInv, DecideInv, SessionEndsInv DEF ConnStep
<1>5. ASSUME NEW k \in Channels,
             \/ OpenChannel(k) \/ CloseChannel(k) \/ ServeStops(k) \/ ChanStep(k)
             \/ \E r \in {"sftp", "other"} : Request(k, r)
      PROVE  SInv'
  BY <1>2, <1>5, QuietChanInv, SubsystemInv, LoadedInv DEF ChanStep
<1>6. CASE \/ \E c \in Calls : LookupStep(c) \/ (VaultAnswers(c) /\ UNCHANGED sessionVars)
           \/ \E u \in Users, r \in Records \cup {None} :
                VaultPut(u, r) /\ UNCHANGED sessionVars
           \/ TimePasses
  BY <1>2, <1>6, LookupInv DEF LookupStep, TimePasses
<1>7. CASE UNCHANGED allVars
  <2>1. /\ srv' \in SrvType /\ conn' = conn /\ chan' = chan
        /\ \A d \in Calls : CallKept(d)
    BY <1>7 DEF allVars, SInv, CallKept
  <2>2. QED
    BY <1>2, <2>1, CacheOnly
<1>8. QED
  BY <1>2, <1>3, <1>4, <1>5, <1>6, <1>7 DEF SessionNext
LEMMA SessionInvHolds == SessionSpec => [](IInv /\ SInv)
<1>1. SessionInit => IInv /\ SInv
  BY InitInv, SessionInitInv DEF SessionInit
<1>2. QED
  BY <1>1, SessionStepInv, PTL DEF SessionSpec

(* The server uses its cache as UserCache says: all that is proved of the  *)
(* cache holds in every server.                                            *)
THEOREM SessionsUseCache == SessionSpec => Spec
<1>1. SessionInit => Init
  BY DEF SessionInit
<1>2. SInv /\ [SessionNext]_allVars => [Next]_cacheVars
  BY StepsMap
<1>3. QED
  BY <1>1, <1>2, SessionInvHolds, PTL DEF SessionSpec, Spec

(* In a server no lookup returns a record that Vault had dropped TTL or    *)
(* more before the lookup began.                                           *)
THEOREM SessionStaleness == SessionSpec => []BoundedStaleness
  BY SessionsUseCache, StalenessIsBounded, PTL

(* The variables of a server have their types; no connection fails more    *)
(* often than it may, no channel holds more than its buffer and one.       *)
THEOREM SessionTypeCorrect == SessionSpec => []SessionTypeOK
<1>1. SInv => SessionTypeOK
  BY DEF SInv, SessionTypeOK, ConnOK, ChanOK
<1>2. QED
  BY <1>1, SessionInvHolds, PTL

(* Nobody is let in but by a record that Vault held, for an enabled user   *)
(* with that key, less than a TTL before the client asked.                 *)
THEOREM AdmissionIsRight == SessionSpec => []AdmittedRightly
<1>1. SInv => AdmittedRightly
  BY DEF SInv, AdmittedRightly, ConnOK, Admitted
<1>2. QED
  BY <1>1, SessionInvHolds, PTL

(* No channel is served with a record that Vault had dropped a TTL before  *)
(* the subsystem was asked for, nor to anyone but the user let in.         *)
THEOREM ServiceIsRight == SessionSpec => []ServedRightly
<1>1. SInv => ServedRightly
  BY DEF SInv, ServedRightly, ChanOK
<1>2. QED
  BY <1>1, SessionInvHolds, PTL
===============================================================================
