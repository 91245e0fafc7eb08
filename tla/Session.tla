------------------------------- MODULE Session --------------------------------
(***************************************************************************)
(* One SFTP server process: main and its accept loop, handleConn with the  *)
(* public key callback, and the goroutine of each session channel          *)
(* (main.go, auth.go), on top of the user cache they share.                *)
(*                                                                         *)
(* Of golang.org/x/crypto/ssh: one goroutine per connection, the mux,      *)
(* reads all that the client sends.  It hands each channel its requests    *)
(* through a buffer and waits when that is full; when the connection is    *)
(* lost it closes all channels.  The outcome of the last public key query  *)
(* is kept until the client signs.                                         *)
(***************************************************************************)
EXTENDS UserCache, Sequences

CONSTANTS
  Conns,         \* connections; the name of an ended one is used again
  Channels,      \* session channels, likewise
  ConnOf,        \* Channels -> Conns
  Keys,          \* public keys
  MaxAuthTries,  \* of ssh.ServerConfig: failed attempts before it gives up
  Buffer         \* chanSize of the SSH library: requests kept per channel

ASSUME SessionAssumption ==
  /\ Calls = Conns \cup Channels /\ Conns \cap Channels = {}
  /\ ConnOf \in [Channels -> Conns]
  /\ Records \subseteq [disabled : BOOLEAN, publicKeys : SUBSET Keys]
  /\ None \notin Keys
  /\ MaxAuthTries \in Nat \ {0} /\ Buffer \in Nat

VARIABLES
  srv,   \* main: where it is, a signal has come, the listener, the accept loop
  conn,  \* connection -> where handleConn is and whom it authenticated
  chan   \* channel -> where its goroutine is, unread requests, whom it serves

sessionVars == <<srv, conn, chan>>
allVars == <<clock, vault, held, cache, call, srv, conn, chan>>

(* since is history: when the lookup began that let the connection in, or  *)
(* that the channel is served by.                                          *)
Running == [main |-> "select", signalled |-> FALSE, listening |-> TRUE, accepting |-> TRUE]
NoConn == [pc |-> "free", lost |-> FALSE, user |-> None, key |-> None, tries |-> 0, since |-> 0]
NoChan == [pc |-> "none", closed |-> FALSE, user |-> None, unread |-> <<>>, rec |-> None, since |-> 0]

SessionInit ==
  /\ Init
  /\ srv = Running
  /\ conn = [c \in Conns |-> NoConn]
  /\ chan = [k \in Channels |-> NoChan]
-------------------------------------------------------------------------------
(* main and the accept loop. *)
Signal ==
  /\ srv.main # "exited" /\ ~srv.signalled
  /\ srv' = [srv EXCEPT !.signalled = TRUE]
  /\ UNCHANGED <<cacheVars, conn, chan>>

MainStops_ListenerOpen ==                                     \* mutant
  /\ srv.main = "select" /\ srv.signalled
  /\ srv' = [srv EXCEPT !.main = "closing"]
  /\ UNCHANGED <<cacheVars, conn, chan>>

MainStops ==
  /\ srv.main = "select" /\ srv.signalled
  /\ srv' = [srv EXCEPT !.main = "closing", !.listening = FALSE]
  /\ UNCHANGED <<cacheVars, conn, chan>>

(* Accept fails on a closed listener, and may fail on an open one.         *)
AcceptEnds ==
  /\ srv.accepting /\ srv.main # "exited"
  /\ srv' = [srv EXCEPT !.accepting = FALSE]
  /\ UNCHANGED <<cacheVars, conn, chan>>

(* main returns once the accept loop has ended, with an error or because   *)
(* it was told to; every goroutine goes with it.                           *)
MainReturns ==
  /\ srv.main \in {"select", "closing"} /\ ~srv.accepting
  /\ srv' = [main |-> "exited", signalled |-> FALSE, listening |-> FALSE, accepting |-> FALSE]
  /\ conn' = [c \in Conns |-> NoConn]
  /\ chan' = [k \in Channels |-> NoChan]
  /\ ProcessEnds

Start ==
  /\ srv.main = "exited"
  /\ srv' = Running
  /\ UNCHANGED <<cacheVars, conn, chan>>

Accept(c) ==
  /\ srv.listening /\ srv.accepting /\ conn[c].pc = "free"
  /\ conn' = [conn EXCEPT ![c].pc = "handshake"]
  /\ UNCHANGED <<cacheVars, srv, chan>>
-------------------------------------------------------------------------------
(* Authentication: NewServerConn calls the public key callback for every   *)
(* key the client asks about.                                              *)
Ask(c, u, key) ==
  /\ conn[c].pc \in {"handshake", "accepted"} /\ ~conn[c].lost
  /\ Begin(c, u)
  /\ conn' = [conn EXCEPT ![c].pc = "asking", ![c].user = u, ![c].key = key, ![c].since = 0]
  /\ UNCHANGED <<srv, chan>>

Allowed_Disabled(rec, key) == rec # None /\ key \in rec.publicKeys   \* mutant
Allowed(rec, key) == rec # None /\ ~rec.disabled /\ key \in rec.publicKeys

Decide_OneMore(c) ==                                          \* mutant
  /\ conn[c].pc = "asking" /\ Consume(c)
  /\ LET ok == Allowed(call[c].res, conn[c].key)
     IN conn' = [conn EXCEPT ![c].pc = IF ok THEN "accepted" ELSE "handshake",
                             ![c].tries = IF ok THEN @ ELSE @ + 1,
                             ![c].since = call[c].start]
  /\ UNCHANGED <<srv, chan>>

Decide(c) ==
  /\ conn[c].pc = "asking" /\ Consume(c)
  /\ LET rec == call[c].res
         tries == conn[c].tries + 1
     IN \/ /\ Allowed(rec, conn[c].key)
           /\ conn' = [conn EXCEPT ![c].pc = "accepted", ![c].since = call[c].start]
        \/ /\ ~Allowed(rec, conn[c].key) /\ tries < MaxAuthTries
           /\ conn' = [conn EXCEPT ![c] = [NoConn EXCEPT !.pc = "handshake", !.tries = tries,
                                                         !.lost = conn[c].lost]]
        \/ /\ ~Allowed(rec, conn[c].key) /\ tries = MaxAuthTries
           /\ conn' = [conn EXCEPT ![c] = NoConn]
  /\ UNCHANGED <<srv, chan>>

(* The client proves it has the key; session_start.  It may take its time. *)
Sign(c) ==
  /\ conn[c].pc = "accepted" /\ ~conn[c].lost
  /\ conn' = [conn EXCEPT ![c].pc = "open"]
  /\ UNCHANGED <<cacheVars, srv, chan>>

HandshakeFails(c) ==
  /\ conn[c].pc \in {"handshake", "accepted"} /\ conn[c].lost
  /\ conn' = [conn EXCEPT ![c] = NoConn]
  /\ UNCHANGED <<cacheVars, srv, chan>>

(* The client hangs up, or the network does.                               *)
Lose(c) ==
  /\ conn[c].pc # "free" /\ ~conn[c].lost
  /\ conn' = [conn EXCEPT ![c].lost = TRUE]
  /\ UNCHANGED <<cacheVars, srv, chan>>
-------------------------------------------------------------------------------
(* The mux of an open connection. *)
OpenChannels(c) == {k \in Channels : ConnOf[k] = c /\ chan[k].pc # "none" /\ ~chan[k].closed}

(* It holds a request that its channel has no room for.                    *)
Blocked(c) == \E k \in OpenChannels(c) : Len(chan[k].unread) > Buffer

Hears(c) == conn[c].pc = "open" /\ ~conn[c].lost /\ ~Blocked(c)

OpenChannel(k) ==
  LET c == ConnOf[k] IN
  /\ Hears(c) /\ chan[k].pc = "none"
  /\ chan' = [chan EXCEPT ![k].pc = "waiting", ![k].user = conn[c].user]
  /\ UNCHANGED <<cacheVars, srv, conn>>

(* "sftp" is a request for that subsystem, "other" any other.              *)
Request(k, r) ==
  /\ k \in OpenChannels(ConnOf[k]) /\ Hears(ConnOf[k])
  /\ chan' = [chan EXCEPT ![k].unread = Append(@, r)]
  /\ UNCHANGED <<cacheVars, srv, conn>>

CloseChannel(k) ==
  /\ k \in OpenChannels(ConnOf[k]) /\ Hears(ConnOf[k])
  /\ chan' = [chan EXCEPT ![k].closed = TRUE]
  /\ UNCHANGED <<cacheVars, srv, conn>>

(* The mux ends and closes all channels; range chans ends, session_end.    *)
(* Goroutines of channels may go on.                                       *)
SessionEnds(c) ==
  /\ conn[c].pc = "open" /\ conn[c].lost /\ ~Blocked(c)
  /\ conn' = [conn EXCEPT ![c] = NoConn]
  /\ chan' = [k \in Channels |->
                IF k \in OpenChannels(c) THEN [chan[k] EXCEPT !.closed = TRUE] ELSE chan[k]]
  /\ UNCHANGED <<cacheVars, srv>>
-------------------------------------------------------------------------------
(* The goroutine of a channel: requests are read in order, also those that *)
(* were there when the channel was closed; all are denied but "sftp".      *)
Deny(k) ==
  /\ chan[k].pc = "waiting" /\ chan[k].unread # <<>> /\ Head(chan[k].unread) = "other"
  /\ chan' = [chan EXCEPT ![k].unread = Tail(@)]
  /\ UNCHANGED <<cacheVars, srv, conn>>

Subsystem(k) ==
  /\ chan[k].pc = "waiting" /\ chan[k].unread # <<>> /\ Head(chan[k].unread) = "sftp"
  /\ Begin(k, chan[k].user)
  /\ chan' = [chan EXCEPT ![k].pc = "loading", ![k].unread = Tail(@)]
  /\ UNCHANGED <<srv, conn>>

Loaded_ErrorIgnored(k) ==                                     \* mutant
  /\ chan[k].pc = "loading" /\ Consume(k)
  /\ chan' = [chan EXCEPT ![k].pc = "serving", ![k].rec = call[k].res, ![k].since = call[k].start]
  /\ UNCHANGED <<srv, conn>>

(* The record is used as it is: Disabled is not looked at again.  Making   *)
(* the root directory may fail.                                            *)
Loaded(k) ==
  /\ chan[k].pc = "loading" /\ Consume(k)
  /\ \/ /\ call[k].res # None
        /\ chan' = [chan EXCEPT ![k].pc = "serving", ![k].rec = call[k].res,
                                ![k].since = call[k].start]
     \/ chan' = [chan EXCEPT ![k].pc = "done"]
  /\ UNCHANGED <<srv, conn>>

(* Serve reads to the end of the channel, and then closes what is open.  It *)
(* may stop before the channel is closed: where the client sends no more,  *)
(* or what is no packet.                                                   *)
ServeStops(k) ==
  /\ chan[k].pc = "serving" /\ ~chan[k].closed
  /\ chan' = [chan EXCEPT ![k].pc = "done", ![k].rec = None, ![k].since = 0]
  /\ UNCHANGED <<cacheVars, srv, conn>>

ServeEnds(k) ==
  /\ chan[k].pc = "serving" /\ chan[k].closed
  /\ chan' = [chan EXCEPT ![k] = NoChan]
  /\ UNCHANGED <<cacheVars, srv, conn>>

RangeEnds(k) ==
  /\ chan[k].closed
  /\ \/ chan[k].pc = "waiting" /\ chan[k].unread = <<>>
     \/ chan[k].pc = "done"
  /\ chan' = [chan EXCEPT ![k] = NoChan]
  /\ UNCHANGED <<cacheVars, srv, conn>>
-------------------------------------------------------------------------------
MainStep == MainStops \/ MainReturns
ConnStep(c) == Decide(c) \/ HandshakeFails(c) \/ SessionEnds(c)
ChanStep(k) == Deny(k) \/ Subsystem(k) \/ Loaded(k) \/ ServeEnds(k) \/ RangeEnds(k)
LookupStep(c) == CallStep(c) /\ UNCHANGED sessionVars
TimePasses == Tick /\ UNCHANGED sessionVars

SessionNext ==
  \/ Signal \/ MainStep \/ AcceptEnds \/ Start
  \/ \E c \in Conns : \/ Accept(c) \/ Sign(c) \/ Lose(c) \/ ConnStep(c)
                      \/ \E u \in Users, key \in Keys : Ask(c, u, key)
  \/ \E k \in Channels : \/ OpenChannel(k) \/ CloseChannel(k) \/ ServeStops(k) \/ ChanStep(k)
                         \/ \E r \in {"sftp", "other"} : Request(k, r)
  \/ \E c \in Calls : LookupStep(c)
  \/ \E c \in Calls : VaultAnswers(c) /\ UNCHANGED sessionVars
  \/ \E u \in Users, r \in Records \cup {None} : VaultPut(u, r) /\ UNCHANGED sessionVars
  \/ TimePasses

SessionSpec == SessionInit /\ [][SessionNext]_allVars

(* The server's goroutines run and time passes.  Clients, signals, errors  *)
(* of Accept and Vault need not come, nor another process be started.      *)
SessionFairSpec ==
  /\ SessionSpec
  /\ WF_allVars(MainStep) /\ WF_allVars(AcceptEnds /\ ~srv.listening) /\ WF_allVars(TimePasses)
  /\ \A c \in Conns : WF_allVars(ConnStep(c) \/ LookupStep(c))
  /\ \A k \in Channels : WF_allVars(ChanStep(k) \/ LookupStep(k))
-------------------------------------------------------------------------------
(* Every variable has its type; no channel holds more requests than its    *)
(* buffer and the one the mux waits with.                                  *)
SrvType == [main : {"select", "closing", "exited"}, signalled : BOOLEAN,
            listening : BOOLEAN, accepting : BOOLEAN]
ConnType == [pc : {"free", "handshake", "asking", "accepted", "open"}, lost : BOOLEAN,
             user : Users \cup {None}, key : Keys \cup {None}, tries : Nat, since : Nat]
ChanType == [pc : {"none", "waiting", "loading", "serving", "done"}, closed : BOOLEAN,
             user : Users \cup {None}, unread : Seq({"sftp", "other"}),
             rec : Records \cup {None}, since : Nat]

SessionTypeOK ==
  /\ srv \in SrvType
  /\ conn \in [Conns -> ConnType]
  /\ \A c \in Conns : conn[c].tries < MaxAuthTries
  /\ chan \in [Channels -> ChanType]
  /\ \A k \in Channels : Len(chan[k].unread) <= Buffer + 1

(* Vault held r for the user at t or less than a TTL before.               *)
Recent(u, r, t) == held[u][r] >= t \/ held[u][r] + TTL > t

(* Whoever is let in asked, at some time, with a key that was then, or less *)
(* than a TTL before, in a record Vault held for an enabled user of that   *)
(* name; however long the client takes to sign, and whatever other lookups *)
(* and timed out connections there are (auth.go:17-46, main.go:103-113).   *)
AdmittedRightly ==
  \A c \in Conns : conn[c].pc \in {"accepted", "open"} =>
    \E r \in Records : /\ ~r.disabled /\ conn[c].key \in r.publicKeys
                       /\ Recent(conn[c].user, r, conn[c].since)

(* A channel is served only by a record, with its root and quotas, that was *)
(* no older when the subsystem was asked for; and until the channel is     *)
(* closed, to the user its own connection let in (main.go:146-180).        *)
ServedRightly ==
  \A k \in Channels :
    /\ chan[k].pc = "serving" =>
         chan[k].rec # None /\ Recent(chan[k].user, chan[k].rec, chan[k].since)
    /\ chan[k].pc # "none" /\ ~chan[k].closed =>
         conn[ConnOf[k]].pc = "open" /\ conn[ConnOf[k]].user = chan[k].user

(* A lost connection's handler ends, in whatever state of authentication   *)
(* or service it is lost, and the session gauge falls, unless the mux is   *)
(* blocked by requests nobody reads (main.go:78-83, 103-107, 119, 191).    *)
SessionsEnd ==
  \A c \in Conns :
    conn[c].pc # "free" /\ conn[c].lost /\ ~Blocked(c) ~> conn[c].pc = "free"

(* After its channel is closed, also behind the session's end, a channel's *)
(* goroutine ends, so that no upload is left open (main.go:130-188).       *)
ChannelsEnd ==
  \A k \in Channels : chan[k].closed ~> chan[k].pc = "none"

(* After a signal the process ends, whatever connections there are and     *)
(* whether the accept loop fails at the same time (main.go:61-97).         *)
ShutdownEnds == srv.signalled ~> srv.main = "exited"
===============================================================================
