------------------------------ MODULE UserCache ------------------------------
(***************************************************************************)
(* userCache.getOrLoad and loadUserFromVault (vault.go), called by the     *)
(* public key callback (auth.go) and again when the sftp subsystem starts  *)
(* (main.go), for many connections at once.                                *)
(*                                                                         *)
(* The two critical sections of getOrLoad are one step each; between them  *)
(* the call waits for Vault without the lock.  A reader goroutine left     *)
(* behind by a timeout writes to a channel nobody reads and is dropped.    *)
(***************************************************************************)
EXTENDS Integers

CONSTANTS
  Users,         \* user names
  Records,       \* what Vault may hold for a user
  Calls,         \* getOrLoad calls under way; a finished one is used again
  TTL,           \* cfg.UserCacheTTL
  VaultTimeout,  \* cfg.VaultTimeout, the deadline of the callers' contexts
  MaxTime,       \* bound: ticks of the clock
  None           \* no record, no entry

ASSUME CacheAssumption ==
  /\ TTL \in Nat /\ VaultTimeout \in Nat /\ MaxTime \in Nat
  /\ None \notin Records \cup Users

VARIABLES
  clock,   \* time.Now()
  vault,   \* user -> the record Vault holds, None if absent or unreadable
  held,    \* history: user -> record -> the last time Vault held it, -1 never
  cache,   \* userCache.store: user -> record and expiry
  call     \* call -> where it stands, what for, time.Now() at its start, result

cacheVars == <<clock, vault, held, cache, call>>

NoEntry == [u |-> None, expires |-> 0]
Idle == [pc |-> "idle", user |-> None, start |-> 0, res |-> None]

Init ==
  /\ clock = 0
  /\ vault \in [Users -> Records \cup {None}]
  /\ held = [u \in Users |-> [r \in Records |-> IF vault[u] = r THEN 0 ELSE -1]]
  /\ cache = [u \in Users |-> NoEntry]
  /\ call = [c \in Calls |-> Idle]
-------------------------------------------------------------------------------
(* time.Now() is read before the lock is taken.                            *)
Begin(c, u) ==
  /\ call[c].pc = "idle"
  /\ call' = [call EXCEPT ![c] = [pc |-> "lookup", user |-> u, start |-> clock, res |-> None]]
  /\ UNCHANGED <<clock, vault, held, cache>>

Returns(c, r) == call' = [call EXCEPT ![c].pc = "returned", ![c].res = r]

Hit_NoExpiry(c) == cache[call[c].user] # NoEntry              \* mutant
Hit(c) ==
  LET e == cache[call[c].user] IN e # NoEntry /\ call[c].start < e.expires

Lookup(c) ==
  /\ call[c].pc = "lookup"
  /\ \/ Hit(c) /\ Returns(c, cache[call[c].user].u)
     \/ ~Hit(c) /\ call' = [call EXCEPT ![c].pc = "reading"]
  /\ UNCHANGED <<clock, vault, held, cache>>

(* Vault serves the read; an error on the way looks like no record.        *)
VaultAnswers(c) ==
  /\ call[c].pc = "reading"
  /\ \E r \in {vault[call[c].user], None} :
       call' = [call EXCEPT ![c].pc = "answered", ![c].res = r]
  /\ UNCHANGED <<clock, vault, held, cache>>

(* ctx.Done(): with an answer there too, select may take either.  When the *)
(* bounded clock has stopped, deadlines beyond it pass at once.            *)
TimeOut_Never(c) == FALSE /\ UNCHANGED cacheVars              \* mutant
TimeOut(c) ==
  /\ call[c].pc \in {"reading", "answered"}
  /\ clock >= call[c].start + VaultTimeout \/ clock = MaxTime
  /\ Returns(c, None)
  /\ UNCHANGED <<clock, vault, held, cache>>

Receive_ErrorIgnored(c) ==                                    \* mutant
  /\ call[c].pc = "answered"
  /\ call' = [call EXCEPT ![c].pc = "store"]
  /\ UNCHANGED <<clock, vault, held, cache>>

Receive(c) ==
  /\ call[c].pc = "answered"
  /\ \/ call[c].res = None /\ Returns(c, None)
     \/ call[c].res # None /\ call' = [call EXCEPT ![c].pc = "store"]
  /\ UNCHANGED <<clock, vault, held, cache>>

Expiry_FromFill(c) == clock + TTL                             \* mutant
Expiry(c) == call[c].start + TTL

(* The second critical section: whatever is cached by now is overwritten,  *)
(* also by a record that was read earlier.                                 *)
Fill(c) ==
  /\ call[c].pc = "store"
  /\ cache' = [cache EXCEPT ![call[c].user] = [u |-> call[c].res, expires |-> Expiry(c)]]
  /\ Returns(c, call[c].res)
  /\ UNCHANGED <<clock, vault, held>>

(* The caller goes on with the record or the error.                        *)
Consume(c) ==
  /\ call[c].pc = "returned"
  /\ call' = [call EXCEPT ![c] = Idle]
  /\ UNCHANGED <<clock, vault, held, cache>>

(* The admin API, or an operator, puts or deletes the record.              *)
VaultPut(u, r) ==
  /\ vault[u] # r
  /\ vault' = [vault EXCEPT ![u] = r]
  /\ held' = IF r = None THEN held ELSE [held EXCEPT ![u][r] = clock]
  /\ UNCHANGED <<clock, cache, call>>

Tick ==
  /\ clock < MaxTime
  /\ clock' = clock + 1
  /\ held' = [u \in Users |-> [r \in Records |->
                IF vault[u] = r THEN clock + 1 ELSE held[u][r]]]
  /\ UNCHANGED <<vault, cache, call>>

(* The process ends; the next one starts with an empty cache.              *)
ProcessEnds ==
  /\ cache' = [u \in Users |-> NoEntry]
  /\ call' = [c \in Calls |-> Idle]
  /\ UNCHANGED <<clock, vault, held>>

CallStep(c) == Lookup(c) \/ TimeOut(c) \/ Receive(c) \/ Fill(c)

Next ==
  \/ \E c \in Calls : \/ \E u \in Users : Begin(c, u)
                      \/ CallStep(c)
                      \/ VaultAnswers(c)
                      \/ Consume(c)
  \/ \E u \in Users, r \in Records \cup {None} : VaultPut(u, r)
  \/ Tick
  \/ ProcessEnds

Spec == Init /\ [][Next]_cacheVars
-------------------------------------------------------------------------------
(* Every variable has its type; only records are ever cached, never the    *)
(* outcome of a read that failed (vault.go:320-326).                       *)
Entries == {NoEntry} \cup [u : Records, expires : Nat]
CallType == [pc : {"idle", "lookup", "reading", "answered", "store", "returned"},
             user : Users \cup {None}, start : Nat, res : Records \cup {None}]

TypeOK ==
  /\ clock \in Nat
  /\ vault \in [Users -> Records \cup {None}]
  /\ held \in [Users -> [Records -> Int]]
  /\ cache \in [Users -> Entries]
  /\ call \in [Calls -> CallType]

(* A call that began at t returns a record Vault held after t - TTL, or at *)
(* t itself when nothing may be cached: a change in Vault, such as a user  *)
(* disabled or a key withdrawn, is seen by every call that begins TTL      *)
(* later, however reads are delayed and fills overtake each other          *)
(* (vault.go:309-330, read by auth.go:19-30).                              *)
FreshEnough(c) ==
  LET k == call[c] IN
  k.pc = "returned" /\ k.res # None =>
    held[k.user][k.res] >= k.start \/ held[k.user][k.res] + TTL > k.start

BoundedStaleness == \A c \in Calls : FreshEnough(c)

(* Why: an entry expires at most TTL after Vault last held its record, and *)
(* an answer on its way was Vault's no earlier than its call began; the    *)
(* expiry is counted from before the read (vault.go:310, 326).             *)
EntryBacked(u) ==
  /\ \A r \in Records : held[u][r] <= clock
  /\ vault[u] # None => held[u][vault[u]] = clock
  /\ cache[u] # NoEntry => cache[u].expires <= held[u][cache[u].u] + TTL

AnswerBacked(c) ==
  LET k == call[c] IN
  /\ k.pc # "idle" => k.user \in Users /\ k.start <= clock
  /\ k.pc = "store" => k.res # None
  /\ k.pc \in {"answered", "store"} /\ k.res # None => held[k.user][k.res] >= k.start

ExpiryBacked == (\A u \in Users : EntryBacked(u)) /\ (\A c \in Calls : AnswerBacked(c))
==============================================================================
