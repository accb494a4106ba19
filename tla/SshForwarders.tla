---------------------------- MODULE SshForwarders ----------------------------
(***************************************************************************)
(* The local port forwarders of internal/ssh and internal/proxy: the map   *)
(* of forwarders, the cache of SSH clients under it, the sweep of idle     *)
(* forwarders in low memory mode, and the connections that hold a          *)
(* forwarder for as long as they live.                                     *)
(*                                                                         *)
(* Nothing is locked from the lookup of a forwarder to its insertion, so a *)
(* step is one critical section, one network operation, or one Close.      *)
(* What nothing points to any more is garbage, and its name is used again. *)
(***************************************************************************)
EXTENDS Naturals, FiniteSets

CONSTANTS
    Users,            \* database connections that may want a tunnel
    ClosesOnFailure,  \* those whose Connect closes the tunnel when it fails
    ClosesOnClose,    \* those whose Close closes the tunnel
    Keys,             \* forwarder keys: a remote address and how to reach it
    Proxied,          \* the keys of internal/proxy, the others are SSH keys
    Servers,          \* SSH client keys
    Via,              \* [Keys -> Servers]
    Fwds, NoFwd,      \* *LocalForwarder and nil
    Clients, NoClient \* *ssh.Client and nil

ASSUME ConstantsAssumption ==
    /\ ClosesOnFailure \subseteq Users
    /\ ClosesOnClose \subseteq Users
    /\ Proxied \subseteq Keys
    /\ Keys # {}
    /\ Via \in [Keys -> Servers]
    /\ NoFwd \notin Fwds
    /\ NoClient \notin Clients

OptFwd == Fwds \cup {NoFwd}
OptClient == Clients \cup {NoClient}
NoKey == CHOOSE k \in Keys : TRUE

Places ==
    {"idle", "lookup", "check", "drop", "client", "test", "uncache",
     "closeDead", "dial", "insert", "touch", "connect", "using"}
\* Inside GetOrCreateLocalForwarder.
Getting == Places \ {"idle", "connect", "using"}
\* Handed a forwarder, or about to be.
Having == {"touch", "connect", "using"}

VARIABLES
    localForwarders,  \* [Keys -> OptFwd]
    lastUsedAt,       \* [Keys -> ...]: "idle" is forwarderIdleTimeout or more
    open,             \* SUBSET Fwds: those whose listener is open
    tunnel,           \* [Fwds -> OptClient]: LocalForwarder.SSHClient
    remote,           \* [Fwds -> Keys]: LocalForwarder.RemoteAddr
    sshClientCache,   \* [Servers -> OptClient]
    link,             \* [Clients -> ...]: "dead" until Close is called on it
    unread,           \* the keys the loop of the sweep has not come to
    judged,           \* the key whose stamp it has found idle
    sweeping,         \* staleKeys of the sweep, closed
    pc,               \* [Users -> Places]
    key,              \* [Users -> Keys]
    got,              \* [Users -> OptFwd]: local variable forwarder
    client,           \* [Users -> OptClient]: local variable client
    recent,           \* history: made or handed out within the idle timeout
    overlapped,       \* history: keys two calls were getting at one time
    knownDead         \* history, [Users -> ...]: dead when the call began

sweepVars == <<unread, judged, sweeping>>
mapVars == <<localForwarders, lastUsedAt, sweepVars>>
fwdVars == <<open, tunnel, remote>>
clientVars == <<sshClientCache, link>>
userVars == <<pc, key, got, client>>
histVars == <<recent, overlapped, knownDead>>
vars == <<mapVars, fwdVars, clientVars, userVars, histVars>>

TypeOK ==
    /\ localForwarders \in [Keys -> OptFwd]
    /\ lastUsedAt \in [Keys -> {"never", "recent", "idle"}]
    /\ open \in SUBSET Fwds
    /\ tunnel \in [Fwds -> OptClient]
    /\ remote \in [Fwds -> Keys]
    /\ sshClientCache \in [Servers -> OptClient]
    /\ link \in [Clients -> {"alive", "dead", "closed"}]
    /\ unread \in SUBSET Keys /\ judged \in SUBSET Keys /\ sweeping \in SUBSET Keys
    /\ pc \in [Users -> Places]
    /\ key \in [Users -> Keys]
    /\ got \in [Users -> OptFwd]
    /\ client \in [Users -> OptClient]
    /\ recent \in SUBSET Fwds
    /\ overlapped \in SUBSET Keys
    /\ knownDead \in [Users -> SUBSET Clients]

Init ==
    /\ localForwarders = [k \in Keys |-> NoFwd]
    /\ lastUsedAt = [k \in Keys |-> "never"]
    /\ open = {}
    /\ tunnel = [f \in Fwds |-> NoClient]
    /\ remote = [f \in Fwds |-> NoKey]
    /\ sshClientCache = [s \in Servers |-> NoClient]
    /\ link = [c \in Clients |-> "closed"]
    /\ unread = {} /\ judged = {} /\ sweeping = {}
    /\ pc = [u \in Users |-> "idle"]
    /\ key = [u \in Users |-> NoKey]
    /\ got = [u \in Users |-> NoFwd]
    /\ client = [u \in Users |-> NoClient]
    /\ recent = {}
    /\ overlapped = {}
    /\ knownDead = [u \in Users |-> {}]

----------------------------------------------------------------------------
(* GetOrCreateLocalForwarder. *)

Goto(u, place) == pc' = [pc EXCEPT ![u] = place]

\* The call, or the connection it was for, ends: its locals die.
Forget(u) ==
    /\ Goto(u, "idle")
    /\ key' = [key EXCEPT ![u] = NoKey]
    /\ got' = [got EXCEPT ![u] = NoFwd]
    /\ client' = [client EXCEPT ![u] = NoClient]
    /\ knownDead' = [knownDead EXCEPT ![u] = {}]

\* forwarderMu: the sweep holds it over both of its loops.
MapIsFree == unread = {} /\ judged = {} /\ sweeping = {}

\* Neither the map nor a caller points to f.
Garbage(f) ==
    /\ f \notin open
    /\ \A k \in Keys : localForwarders[k] # f
    /\ \A u \in Users : got[u] # f

Get(u, k) ==
    /\ pc[u] = "idle"
    /\ Goto(u, "lookup")
    /\ key' = [key EXCEPT ![u] = k]
    /\ overlapped' = IF \E v \in Users \ {u} : pc[v] \in Getting /\ key[v] = k
                       THEN overlapped \cup {k} ELSE overlapped
    /\ knownDead' =
         [knownDead EXCEPT ![u] = {c \in Clients : link[c] # "alive"}]
    /\ UNCHANGED <<mapVars, fwdVars, clientVars, got, client, recent>>

Lookup(u) ==
    /\ pc[u] = "lookup"
    /\ MapIsFree
    /\ got' = [got EXCEPT ![u] = localForwarders[key[u]]]
    /\ Goto(u, "check")
    /\ UNCHANGED <<mapVars, fwdVars, clientVars, key, client, histVars>>

\* IsClosed tells whether the listener is open, not whether the client lives.
Check(u) ==
    /\ pc[u] = "check"
    /\ \/ /\ got[u] \in open
          /\ Goto(u, IF key[u] \in Proxied THEN "connect" ELSE "touch")
          /\ UNCHANGED got
       \/ /\ got[u] \in Fwds \ open
          /\ Goto(u, "drop")
          /\ got' = [got EXCEPT ![u] = NoFwd]
       \/ /\ got[u] = NoFwd
          /\ Goto(u, IF key[u] \in Proxied THEN "insert" ELSE "client")
          /\ UNCHANGED got
    /\ UNCHANGED <<mapVars, fwdVars, clientVars, key, client, histVars>>

\* Deletes whatever the key maps to by now.
DropStale(u) ==
    /\ pc[u] = "drop"
    /\ MapIsFree
    /\ localForwarders' = [localForwarders EXCEPT ![key[u]] = NoFwd]
    /\ Goto(u, IF key[u] \in Proxied THEN "insert" ELSE "client")
    /\ UNCHANGED <<lastUsedAt, sweepVars, fwdVars, clientVars, key, got, client,
                   histVars>>

\* net.Listen on a free port, then localForwarders[key] = forwarder: nobody
\* sees the forwarder between the two.  When it fails the client stays cached.
Insert(u) ==
    /\ pc[u] = "insert"
    /\ \/ \E f \in Fwds :
            /\ Garbage(f)
            /\ MapIsFree
            /\ open' = open \cup {f}
            /\ tunnel' = [tunnel EXCEPT ![f] = client[u]]
            /\ remote' = [remote EXCEPT ![f] = key[u]]
            /\ localForwarders' = [localForwarders EXCEPT ![key[u]] = f]
            /\ recent' = recent \cup {f}
            /\ Goto(u, IF key[u] \in Proxied THEN "connect" ELSE "touch")
            /\ got' = [got EXCEPT ![u] = f]
            /\ client' = [client EXCEPT ![u] = NoClient]
            /\ UNCHANGED <<key, knownDead>>
       \/ Forget(u) /\ UNCHANGED <<fwdVars, localForwarders, recent>>
    /\ UNCHANGED <<lastUsedAt, sweepVars, clientVars, overlapped>>

\* Mutant: only the new forwarder of a key is stamped.
TouchOnce(u) ==
    /\ pc[u] = "touch"
    /\ lastUsedAt' = [lastUsedAt EXCEPT ![key[u]] = IF @ = "never" THEN "recent" ELSE @]
    /\ recent' = recent \cup {got[u]}
    /\ Goto(u, "connect")
    /\ UNCHANGED <<localForwarders, sweepVars, fwdVars, clientVars, key, got,
                   client, overlapped, knownDead>>

\* touchForwarderLastUsed, and the forwarder is handed out.
Touch(u) ==
    /\ pc[u] = "touch"
    /\ lastUsedAt' = [lastUsedAt EXCEPT ![key[u]] = "recent"]
    /\ recent' = recent \cup {got[u]}
    /\ Goto(u, "connect")
    /\ UNCHANGED <<localForwarders, sweepVars, fwdVars, clientVars, key, got,
                   client, overlapped, knownDead>>

----------------------------------------------------------------------------
(* GetOrCreateSSHClient, called by NewLocalForwarder. *)

Server(u) == Via[key[u]]

LookupClient(u) ==
    /\ pc[u] = "client"
    /\ client' = [client EXCEPT ![u] = sshClientCache[Server(u)]]
    /\ Goto(u, IF sshClientCache[Server(u)] = NoClient THEN "dial" ELSE "test")
    /\ UNCHANGED <<mapVars, fwdVars, clientVars, key, got, histVars>>

\* Mutant: the cached client is reused untested.
TestClientNever(u) ==
    /\ pc[u] = "test"
    /\ Goto(u, "insert")
    /\ UNCHANGED <<mapVars, fwdVars, clientVars, key, got, client, histVars>>

\* A test session: it fails on a broken connection, and also where the server
\* refuses another session on a connection that is alive.
TestClient(u) ==
    /\ pc[u] = "test"
    /\ \/ link[client[u]] = "alive" /\ Goto(u, "insert")
       \/ Goto(u, "uncache")
    /\ UNCHANGED <<mapVars, fwdVars, clientVars, key, got, client, histVars>>

\* Mutant: the dead client is closed and left in the cache.
UncacheNot(u) ==
    /\ pc[u] = "uncache"
    /\ Goto(u, "closeDead")
    /\ UNCHANGED <<mapVars, fwdVars, clientVars, key, got, client, histVars>>

\* By key again: another call may have cached a new client meanwhile.
Uncache(u) ==
    /\ pc[u] = "uncache"
    /\ sshClientCache' = [sshClientCache EXCEPT ![Server(u)] = NoClient]
    /\ Goto(u, "closeDead")
    /\ UNCHANGED <<mapVars, fwdVars, link, key, got, client, histVars>>

CloseDead(u) ==
    /\ pc[u] = "closeDead"
    /\ link' = [link EXCEPT ![client[u]] = "closed"]
    /\ client' = [client EXCEPT ![u] = NoClient]
    /\ Goto(u, "dial")
    /\ UNCHANGED <<mapVars, fwdVars, sshClientCache, key, got, histVars>>

\* No cache, caller or forwarder in use points to c.
GarbageClient(c) ==
    /\ link[c] = "closed"
    /\ \A s \in Servers : sshClientCache[s] # c
    /\ \A u \in Users : client[u] # c
    /\ \A f \in Fwds : Garbage(f) \/ tunnel[f] # c

\* ssh.Dial, then the new client is cached, over whatever is there by now.
Dial(u) ==
    /\ pc[u] = "dial"
    /\ \/ \E c \in Clients :
            /\ GarbageClient(c)
            /\ link' = [link EXCEPT ![c] = "alive"]
            /\ sshClientCache' = [sshClientCache EXCEPT ![Server(u)] = c]
            /\ client' = [client EXCEPT ![u] = c]
            /\ knownDead' = [v \in Users |-> knownDead[v] \ {c}]
            /\ Goto(u, "insert")
            /\ UNCHANGED <<key, got>>
       \/ Forget(u) /\ UNCHANGED clientVars
    /\ UNCHANGED <<mapVars, fwdVars, recent, overlapped>>

----------------------------------------------------------------------------
(* What the drivers do with the forwarder. *)

\* The connection is made through the tunnel.  A proxied address is only
\* written into the configuration: nobody keeps that forwarder.
ConnectOk(u) ==
    /\ pc[u] = "connect"
    /\ got[u] \in open
    /\ IF key[u] \in Proxied
         THEN Forget(u)
         ELSE /\ link[tunnel[got[u]]] = "alive"
              /\ Goto(u, "using")
              /\ knownDead' = [knownDead EXCEPT ![u] = {}]
              /\ UNCHANGED <<key, got, client>>
    /\ UNCHANGED <<mapVars, fwdVars, clientVars, recent, overlapped>>

\* The caller has no more use for its forwarder, and may close it.
Part(u, closes) ==
    /\ open' = IF closes /\ key[u] \notin Proxied THEN open \ {got[u]} ELSE open
    /\ Forget(u)
    /\ UNCHANGED <<mapVars, tunnel, remote, clientVars, recent, overlapped>>

ConnectFails(u) == pc[u] = "connect" /\ Part(u, u \in ClosesOnFailure)
Close(u) == pc[u] = "using" /\ Part(u, u \in ClosesOnClose)

----------------------------------------------------------------------------
(* The sweep, the clock, the network and the end of the application. *)

FwdsAt(K) == {localForwarders[k] : k \in K} \cap Fwds

\* What is left to the first loop of sweepIdleForwarders, in any order, or to
\* one that begins and takes forwarderMu.
ToRead ==
    IF MapIsFree THEN {k \in Keys \ Proxied : localForwarders[k] # NoFwd} ELSE unread

\* The stamp of a key is read under forwarderLastUsedMu; an entry nobody touched
\* yet counts as used now.
SweepRead(k) ==
    /\ k \in ToRead /\ judged = {}
    /\ unread' = ToRead \ {k}
    /\ judged' = IF lastUsedAt[k] = "idle" THEN {k} ELSE {}
    /\ UNCHANGED <<localForwarders, lastUsedAt, sweeping, fwdVars, clientVars,
                   userVars, histVars>>

\* Mutant: the listener is left open.
SweepCloseNot ==
    /\ judged # {}
    /\ sweeping' = sweeping \cup judged /\ judged' = {}
    /\ UNCHANGED <<localForwarders, lastUsedAt, unread, fwdVars, clientVars,
                   userVars, histVars>>

\* The forwarder is closed; a touch may have come between, as it needs only
\* forwarderLastUsedMu.
SweepClose ==
    /\ judged # {}
    /\ open' = open \ FwdsAt(judged)
    /\ sweeping' = sweeping \cup judged /\ judged' = {}
    /\ UNCHANGED <<localForwarders, lastUsedAt, unread, tunnel, remote, clientVars,
                   userVars, histVars>>

\* The second loop.
SweepDelete ==
    /\ unread = {} /\ judged = {} /\ sweeping # {}
    /\ localForwarders' =
         [k \in Keys |-> IF k \in sweeping THEN NoFwd ELSE localForwarders[k]]
    /\ lastUsedAt' =
         [k \in Keys |-> IF k \in sweeping THEN "never" ELSE lastUsedAt[k]]
    /\ sweeping' = {}
    /\ UNCHANGED <<unread, judged, fwdVars, clientVars, userVars, histVars>>

\* forwarderIdleTimeout passes.
IdleTimeout ==
    /\ lastUsedAt' =
         [k \in Keys |-> IF lastUsedAt[k] = "recent" THEN "idle" ELSE lastUsedAt[k]]
    /\ recent' = {}
    /\ UNCHANGED <<localForwarders, sweepVars, fwdVars, clientVars, userVars,
                   overlapped, knownDead>>

LinkBreaks(c) ==
    /\ link[c] = "alive"
    /\ link' = [link EXCEPT ![c] = "dead"]
    /\ UNCHANGED <<mapVars, fwdVars, sshClientCache, userVars, histVars>>

\* proxytunnel.CloseAllForwarders; its SSH namesake has no caller.
CloseAllForwarders ==
    /\ FwdsAt(Proxied) # {}
    /\ open' = open \ FwdsAt(Proxied)
    /\ localForwarders' =
         [k \in Keys |-> IF k \in Proxied THEN NoFwd ELSE localForwarders[k]]
    /\ UNCHANGED <<lastUsedAt, sweepVars, tunnel, remote, clientVars, userVars,
                   histVars>>

----------------------------------------------------------------------------
UserStep(u) ==
    \/ \E k \in Keys : Get(u, k)
    \/ Lookup(u) \/ Check(u) \/ DropStale(u) \/ Insert(u) \/ Touch(u)
    \/ LookupClient(u) \/ TestClient(u) \/ Uncache(u) \/ CloseDead(u) \/ Dial(u)
    \/ ConnectOk(u) \/ ConnectFails(u) \/ Close(u)

Next ==
    \/ \E u \in Users : UserStep(u)
    \/ (\E k \in Keys : SweepRead(k)) \/ SweepClose \/ SweepDelete
    \/ IdleTimeout \/ CloseAllForwarders
    \/ \E c \in Clients : LinkBreaks(c)

Spec == Init /\ [][Next]_vars

----------------------------------------------------------------------------
(* Properties. *)

\* A caller that is handed a forwarder has one, made for the key it asked for
\* or found under it.
HandsOK ==
    \A u \in Users :
        /\ pc[u] \in Having => got[u] \in Fwds /\ remote[got[u]] = key[u]
        /\ pc[u] \in {"test", "uncache", "closeDead"} => client[u] \in Clients

\* The map holds forwarders of the right key, over a client if it is an SSH
\* key; every one that is in use was stamped, or is about to be: the sweep
\* never collects a forwarder without a stamp.
MapOK ==
    /\ \A k \in Keys : localForwarders[k] # NoFwd => remote[localForwarders[k]] = k
    /\ \A f \in open : remote[f] \notin Proxied => tunnel[f] \in Clients
    /\ \A k \in Keys \ Proxied :
         localForwarders[k] # NoFwd /\ lastUsedAt[k] = "never"
           => \E u \in Users : pc[u] = "touch" /\ key[u] = k

\* A client is out of the cache before it is closed.
ClientsOK ==
    \A s \in Servers : sshClientCache[s] # NoClient
                         => link[sshClientCache[s]] # "closed"

Inv == TypeOK /\ HandsOK /\ MapOK /\ ClientsOK

\* Every open listener can still be reached, through the map or by the
\* connection that has it, unless two calls were getting its key at one time.
NothingStranded ==
    \A f \in open :
        \/ \E u \in Users : pc[u] \in Having /\ got[u] = f
        \/ \E k \in Keys : localForwarders[k] = f
        \/ remote[f] \in overlapped

\* A caller has f and has still to record its use.
NotYetTouched(f) == \E u \in Users : pc[u] = "touch" /\ got[u] = f

\* The sweep finds a forwarder idle that was made or handed out within the idle
\* timeout only before a caller that has it came to record its use, and closes
\* one only then, or where the use was recorded after the stamp was read.
SweepSparesRecent ==
    [][/\ \A k \in judged' \ judged :
             localForwarders[k] \in recent => NotYetTouched(localForwarders[k])
       /\ SweepClose => \A k \in judged :
             localForwarders[k] \in recent \cap (open \ open') =>
                 NotYetTouched(localForwarders[k]) \/ lastUsedAt[k] = "recent"]_vars

\* A forwarder is never made over a client that was broken before the call
\* that makes it began.
NewTunnelIsLive ==
    [][\A u \in Users, f \in Fwds :
         f \in open' \ open /\ got'[u] = f => tunnel'[f] \notin knownDead[u]]_vars

=============================================================================
