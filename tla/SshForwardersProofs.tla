------------------------- MODULE SshForwardersProofs -------------------------
(* Proofs about the port forwarders, for every value of the constants.     *)
EXTENDS SshForwarders, TLAPS

USE DEF sweepVars

\* A caller that checks what it has looked up found it under its key; one that
\* listens for an SSH key has a client.
LocalsOK ==
    \A u \in Users :
        /\ pc[u] = "check" /\ got[u] # NoFwd => remote[got[u]] = key[u]
        /\ pc[u] = "insert" /\ key[u] \notin Proxied => client[u] \in Clients

\* A client is cached for one server at most; who holds it as dead has it from
\* there, and closes it only when it is cached no more.
ClientsApart ==
    /\ \A s, t \in Servers :
          sshClientCache[s] = sshClientCache[t] /\ sshClientCache[s] # NoClient => s = t
    /\ \A u \in Users, s \in Servers :
          /\ pc[u] \in {"test", "uncache"} /\ sshClientCache[s] = client[u]
               => s = Server(u)
          /\ pc[u] = "closeDead" => sshClientCache[s] # client[u]

\* What was dead when a call began stays so, unless its name is used again.
DeadOK ==
    \A u \in Users :
        /\ \A c \in knownDead[u] : link[c] # "alive"
        /\ pc[u] \in {"idle", "lookup", "check", "drop"} => client[u] = NoClient
        /\ pc[u] = "insert" => client[u] \notin knownDead[u]

\* A forwarder in recent use whose stamp is old is about to be stamped.
RecentOK ==
    \A k \in Keys \ Proxied :
        localForwarders[k] \in recent /\ lastUsedAt[k] = "idle"
          => \E u \in Users : pc[u] = "touch" /\ got[u] = localForwarders[k]

\* Two calls that get one key at a time are noticed.
OverlapOK ==
    \A u, v \in Users :
        u # v /\ pc[u] \in Getting /\ pc[v] \in Getting /\ key[u] = key[v]
          => key[u] \in overlapped

\* The sweep looks at SSH keys, judges by a stamp, and has closed what it is about
\* to delete.
SweepOK ==
    /\ unread \cup judged \subseteq Keys \ Proxied
    /\ \A k \in judged : lastUsedAt[k] # "never"
    /\ \A k \in sweeping : localForwarders[k] \notin open

\* A call that is alone with its key finds the map as it looked it up, and
\* never deletes or overwrites an open forwarder.
Making == {"drop", "client", "test", "uncache", "closeDead", "dial", "insert"}
GettingOK ==
    \A u \in Users : key[u] \notin overlapped =>
        /\ pc[u] = "check" => localForwarders[key[u]] \in {got[u], NoFwd}
        /\ pc[u] \in Making => localForwarders[key[u]] \notin open

\* An open forwarder is the one of its key.
ReachOK ==
    \A f \in open : localForwarders[remote[f]] = f \/ remote[f] \in overlapped

IInv ==
    /\ Inv /\ LocalsOK /\ ClientsApart /\ DeadOK
    /\ RecentOK /\ OverlapOK /\ SweepOK /\ GettingOK /\ ReachOK

LEMMA NullKey == NoKey \in Keys
BY ConstantsAssumption DEF NoKey

LEMMA ForwardersInit == Init => IInv
<1> SUFFICES ASSUME Init PROVE IInv
  OBVIOUS
<1>1. TypeOK
  BY NullKey DEF Init, TypeOK, OptFwd, OptClient, Places
<1>2. HandsOK /\ LocalsOK
  BY DEF Init, HandsOK, LocalsOK, Having
<1>3. MapOK
  BY DEF Init, MapOK
<1>4. ClientsOK /\ ClientsApart
  BY DEF Init, ClientsOK, ClientsApart
<1>5. DeadOK /\ RecentOK
  BY DEF Init, DeadOK, RecentOK
<1>6. OverlapOK /\ SweepOK /\ GettingOK /\ ReachOK
  BY DEF Init, OverlapOK, SweepOK, GettingOK, ReachOK, Getting, Making
<1> QED
  BY <1>1, <1>2, <1>3, <1>4, <1>5, <1>6 DEF IInv, Inv

----------------------------------------------------------------------------
(* The types.                                                              *)

LEMMA ForgetTypes ==
    ASSUME TypeOK, NEW u \in Users, Forget(u)
    PROVE  /\ pc' \in [Users -> Places]
           /\ key' \in [Users -> Keys]
           /\ got' \in [Users -> OptFwd]
           /\ client' \in [Users -> OptClient]
           /\ knownDead' \in [Users -> SUBSET Clients]
BY NullKey DEF TypeOK, Forget, Goto, Places, OptFwd, OptClient

LEMMA GetTypes ==
    ASSUME TypeOK, NEW u \in Users, NEW k \in Keys, Get(u, k)
    PROVE  TypeOK'
BY DEF TypeOK, Get, Goto, Places, mapVars, fwdVars, clientVars

LEMMA UserTypes ==
    ASSUME TypeOK, HandsOK, NEW u \in Users, UserStep(u)
    PROVE  TypeOK'
<1> USE DEF TypeOK
<1>1. CASE \E k \in Keys : Get(u, k)
  BY <1>1, GetTypes
<1>2. CASE Lookup(u) \/ Check(u)
  BY <1>2 DEF Lookup, Check, Goto, Places, OptFwd, mapVars, fwdVars, clientVars,
     histVars
<1>3. CASE DropStale(u)
  BY <1>3 DEF DropStale, Goto, Places, OptFwd, fwdVars, clientVars, histVars
<1>4. CASE Insert(u)
  <2>1. CASE Forget(u) /\ UNCHANGED <<fwdVars, localForwarders, recent>>
    BY <1>4, <2>1, ForgetTypes DEF Insert, fwdVars, clientVars
  <2>2. ASSUME NEW f \in Fwds,
               /\ open' = open \cup {f}
               /\ tunnel' = [tunnel EXCEPT ![f] = client[u]]
               /\ remote' = [remote EXCEPT ![f] = key[u]]
               /\ localForwarders' = [localForwarders EXCEPT ![key[u]] = f]
               /\ recent' = recent \cup {f}
               /\ Goto(u, IF key[u] \in Proxied THEN "connect" ELSE "touch")
               /\ got' = [got EXCEPT ![u] = f]
               /\ client' = [client EXCEPT ![u] = NoClient]
               /\ UNCHANGED <<key, knownDead>>
        PROVE  TypeOK'
    BY <1>4, <2>2 DEF Insert, Goto, Places, OptFwd, OptClient, clientVars
  <2> QED
    BY <1>4, <2>1, <2>2 DEF Insert
<1>5. CASE Touch(u)
  <2>1. recent' \in SUBSET Fwds
    BY <1>5 DEF Touch, HandsOK, Having
  <2> QED
    BY <1>5, <2>1 DEF Touch, Goto, Places, fwdVars, clientVars, OptFwd
<1>6. CASE LookupClient(u) \/ TestClient(u)
  <2>1. Server(u) \in Servers
    BY ConstantsAssumption DEF Server
  <2> QED
    BY <1>6, <2>1 DEF LookupClient, TestClient, Goto, Places, OptClient, mapVars,
       fwdVars, clientVars, histVars
<1>7. CASE Uncache(u) \/ CloseDead(u)
  BY <1>7 DEF Uncache, CloseDead, Goto, Places, OptClient, mapVars, fwdVars, histVars
<1>8. CASE Dial(u)
  BY <1>8, ForgetTypes DEF Dial, Goto, Places, OptClient, mapVars, fwdVars, clientVars
<1>9. CASE ConnectOk(u) \/ ConnectFails(u) \/ Close(u)
  BY <1>9, ForgetTypes DEF ConnectOk, ConnectFails, Close, Part, Goto, Places,
     mapVars, fwdVars, clientVars
<1> QED
  BY <1>1, <1>2, <1>3, <1>4, <1>5, <1>6, <1>7, <1>8, <1>9 DEF UserStep

OtherStep ==
    \/ (\E k \in Keys : SweepRead(k)) \/ SweepClose \/ SweepDelete
    \/ IdleTimeout \/ CloseAllForwarders
    \/ \E c \in Clients : LinkBreaks(c)

LEMMA OtherTypes ==
    ASSUME TypeOK, OtherStep
    PROVE  TypeOK'
<1> USE DEF TypeOK
<1>1. ASSUME NEW k \in Keys, SweepRead(k) PROVE TypeOK'
  <2>1. ToRead \in SUBSET Keys
    BY DEF ToRead
  <2>2. unread' \in SUBSET Keys /\ judged' \in SUBSET Keys
    BY <1>1, <2>1 DEF SweepRead
  <2> QED
    BY <1>1, <2>2 DEF SweepRead, fwdVars, clientVars, userVars, histVars
<1>4. CASE SweepClose
  BY <1>4 DEF SweepClose, clientVars, userVars, histVars
<1>2. CASE SweepDelete \/ IdleTimeout \/ CloseAllForwarders
  BY <1>2 DEF SweepDelete, IdleTimeout, CloseAllForwarders, OptFwd, fwdVars,
     clientVars, userVars, histVars
<1>3. ASSUME NEW c \in Clients, LinkBreaks(c) PROVE TypeOK'
  BY <1>3 DEF LinkBreaks, mapVars, fwdVars, userVars, histVars
<1> QED
  BY <1>1, <1>2, <1>3, <1>4 DEF OtherStep

----------------------------------------------------------------------------
(* Forwarders, their keys and their stamps.                                *)

\* Insert, when it listens: the new forwarder was garbage.
Made(u, f) ==
    /\ pc[u] = "insert"
    /\ Garbage(f)
    /\ MapIsFree
    /\ open' = open \cup {f}
    /\ tunnel' = [tunnel EXCEPT ![f] = client[u]]
    /\ remote' = [remote EXCEPT ![f] = key[u]]
    /\ localForwarders' = [localForwarders EXCEPT ![key[u]] = f]
    /\ recent' = recent \cup {f}
    /\ pc' = [pc EXCEPT ![u] = IF key[u] \in Proxied THEN "connect" ELSE "touch"]
    /\ got' = [got EXCEPT ![u] = f]
    /\ client' = [client EXCEPT ![u] = NoClient]
    /\ UNCHANGED <<key, knownDead, lastUsedAt, sweepVars, clientVars, overlapped>>

\* Insert, when it fails.
NotMade(u) ==
    /\ pc[u] = "insert"
    /\ Forget(u)
    /\ UNCHANGED <<mapVars, fwdVars, clientVars, recent, overlapped>>

LEMMA InsertCases ==
    ASSUME NEW u \in Users, Insert(u)
    PROVE  NotMade(u) \/ \E f \in Fwds : Made(u, f)
<1>1. CASE Forget(u) /\ UNCHANGED <<fwdVars, localForwarders, recent>>
  BY <1>1 DEF Insert, NotMade, mapVars
<1>2. CASE ~(Forget(u) /\ UNCHANGED <<fwdVars, localForwarders, recent>>)
  BY <1>2 DEF Insert, Made, Goto
<1> QED
  BY <1>1, <1>2

\* What a caller holds is of the key it asked for.
LEMMA HandsStep ==
    ASSUME TypeOK, HandsOK, LocalsOK, MapOK, NEW u \in Users, UserStep(u)
    PROVE  HandsOK' /\ LocalsOK'
<1> USE DEF TypeOK, HandsOK, LocalsOK, Having
<1>1. ASSUME NEW k \in Keys, Get(u, k) PROVE HandsOK' /\ LocalsOK'
  BY <1>1 DEF Get, Goto, fwdVars
<1>2. CASE Lookup(u)
  BY <1>2 DEF Lookup, Goto, MapOK, OptFwd, fwdVars
<1>3. CASE Check(u)
  BY <1>3, ConstantsAssumption DEF Check, Goto, OptFwd, fwdVars
<1>4. CASE DropStale(u) \/ Touch(u) \/ Uncache(u) \/ CloseDead(u)
  BY <1>4 DEF DropStale, Touch, Uncache, CloseDead, Goto, fwdVars
<1>9. CASE LookupClient(u)
  <2>1. sshClientCache[Server(u)] \in OptClient
    BY ConstantsAssumption DEF Server
  <2> QED
    BY <1>9, <2>1 DEF LookupClient, Goto, OptClient, fwdVars
<1>5. CASE TestClient(u)
  BY <1>5 DEF TestClient, Goto, fwdVars
<1>6. CASE Dial(u)
  BY <1>6 DEF Dial, Forget, Goto, fwdVars
<1>7. CASE NotMade(u) \/ ConnectOk(u) \/ ConnectFails(u) \/ Close(u)
  BY <1>7 DEF NotMade, ConnectOk, ConnectFails, Close, Part, Forget, Goto, fwdVars
<1>8. ASSUME NEW f \in Fwds, Made(u, f) PROVE HandsOK' /\ LocalsOK'
  <2>1. \A v \in Users : got[v] # f
    BY <1>8 DEF Made, Garbage
  <2> QED
    BY <1>8, <2>1 DEF Made
<1> QED
  BY <1>1, <1>2, <1>3, <1>4, <1>5, <1>6, <1>7, <1>8, <1>9, InsertCases DEF UserStep

\* The map is consistent, and what it holds is stamped in time.
LEMMA MapStep ==
    ASSUME TypeOK, HandsOK, LocalsOK, MapOK, NEW u \in Users, UserStep(u)
    PROVE  MapOK'
<1> USE DEF TypeOK, MapOK
<1>1. ASSUME NEW k \in Keys, Get(u, k) PROVE MapOK'
  BY <1>1 DEF Get, Goto, mapVars, fwdVars
<1>2. CASE Lookup(u) \/ Check(u)
  BY <1>2 DEF Lookup, Check, Goto, mapVars, fwdVars
<1>3. CASE DropStale(u)
  BY <1>3 DEF DropStale, Goto, fwdVars
<1>4. CASE Touch(u)
  BY <1>4 DEF Touch, Goto, fwdVars
<1>5. CASE LookupClient(u) \/ TestClient(u) \/ Uncache(u) \/ CloseDead(u)
  BY <1>5 DEF LookupClient, TestClient, Uncache, CloseDead, Goto, mapVars, fwdVars
<1>6. CASE Dial(u) \/ NotMade(u)
  BY <1>6 DEF Dial, NotMade, Forget, Goto, mapVars, fwdVars
<1>7. CASE ConnectOk(u) \/ ConnectFails(u) \/ Close(u)
  BY <1>7 DEF ConnectOk, ConnectFails, Close, Part, Forget, Goto, mapVars, fwdVars
<1>8. ASSUME NEW f \in Fwds, Made(u, f) PROVE MapOK'
  <2>1. \A k \in Keys : localForwarders[k] # f
    BY <1>8 DEF Made, Garbage
  <2>2. \A k \in Keys : localForwarders'[k] # NoFwd => remote'[localForwarders'[k]] = k
    BY <1>8, <2>1 DEF Made, OptFwd
  <2>3. \A g \in open' : remote'[g] \notin Proxied => tunnel'[g] \in Clients
    BY <1>8 DEF Made, LocalsOK
  <2>4. \A k \in Keys \ Proxied :
          localForwarders'[k] # NoFwd /\ lastUsedAt'[k] = "never"
            => \E v \in Users : pc'[v] = "touch" /\ key'[v] = k
    BY <1>8 DEF Made
  <2> QED
    BY <2>2, <2>3, <2>4
<1> QED
  BY <1>1, <1>2, <1>3, <1>4, <1>5, <1>6, <1>7, <1>8, InsertCases DEF UserStep

----------------------------------------------------------------------------
(* The clients.                                                            *)

LEMMA ClientsStep ==
    ASSUME TypeOK, HandsOK, ClientsOK, ClientsApart, NEW u \in Users, UserStep(u)
    PROVE  ClientsOK' /\ ClientsApart'
<1> USE DEF TypeOK, ClientsOK, ClientsApart, Server
<1>1. ASSUME NEW k \in Keys, Get(u, k) PROVE ClientsOK' /\ ClientsApart'
  BY <1>1 DEF Get, Goto, clientVars
<1>2. CASE Lookup(u) \/ Check(u) \/ DropStale(u) \/ Touch(u)
  BY <1>2 DEF Lookup, Check, DropStale, Touch, Goto, clientVars
<1>3. CASE LookupClient(u)
  <2>1. Server(u) \in Servers
    BY ConstantsAssumption
  <2> QED
    BY <1>3, <2>1 DEF LookupClient, Goto, clientVars
<1>4. CASE TestClient(u)
  BY <1>4 DEF TestClient, Goto, clientVars
<1>5. CASE Uncache(u)
  <2>1. \A v \in Users :
          pc[v] \in {"test", "uncache", "closeDead"} => client[v] # NoClient
    BY ConstantsAssumption DEF HandsOK
  <2>2. /\ sshClientCache' = [sshClientCache EXCEPT ![Server(u)] = NoClient]
        /\ pc[u] = "uncache" /\ pc' = [pc EXCEPT ![u] = "closeDead"]
        /\ UNCHANGED <<link, key, client>>
    BY <1>5 DEF Uncache, Goto
  <2> QED
    BY <2>1, <2>2
<1>6. CASE CloseDead(u)
  BY <1>6 DEF CloseDead, Goto
<1>7. CASE Dial(u)
  <2>1. ASSUME NEW c \in Clients, GarbageClient(c),
               link' = [link EXCEPT ![c] = "alive"],
               sshClientCache' = [sshClientCache EXCEPT ![Server(u)] = c],
               client' = [client EXCEPT ![u] = c],
               Goto(u, "insert"),
               UNCHANGED key
        PROVE  ClientsOK' /\ ClientsApart'
    BY <2>1 DEF GarbageClient, Goto
  <2>2. CASE Forget(u) /\ UNCHANGED clientVars
    BY <2>2 DEF Forget, Goto, clientVars
  <2> QED
    BY <1>7, <2>1, <2>2 DEF Dial
<1>8. CASE NotMade(u) \/ ConnectOk(u) \/ ConnectFails(u) \/ Close(u)
  BY <1>8 DEF NotMade, ConnectOk, ConnectFails, Close, Part, Forget, Goto, clientVars
<1>9. ASSUME NEW f \in Fwds, Made(u, f) PROVE ClientsOK' /\ ClientsApart'
  BY <1>9 DEF Made, clientVars
<1> QED
  BY <1>1, <1>2, <1>3, <1>4, <1>5, <1>6, <1>7, <1>8, <1>9, InsertCases DEF UserStep

LEMMA DeadStep ==
    ASSUME TypeOK, DeadOK, NEW u \in Users, UserStep(u)
    PROVE  DeadOK'
<1> USE DEF TypeOK, DeadOK
<1>1. ASSUME NEW k \in Keys, Get(u, k) PROVE DeadOK'
  BY <1>1 DEF Get, Goto, clientVars
<1>2. CASE Lookup(u) \/ Check(u) \/ DropStale(u) \/ Touch(u)
  BY <1>2, ConstantsAssumption DEF Lookup, Check, DropStale, Touch, Goto,
     clientVars, histVars
<1>3. CASE LookupClient(u) \/ TestClient(u) \/ Uncache(u)
  BY <1>3 DEF LookupClient, TestClient, Uncache, Goto, clientVars, histVars
<1>4. CASE CloseDead(u)
  BY <1>4 DEF CloseDead, Goto, histVars
<1>5. CASE Dial(u)
  <2>1. ASSUME NEW c \in Clients, GarbageClient(c),
               link' = [link EXCEPT ![c] = "alive"],
               client' = [client EXCEPT ![u] = c],
               knownDead' = [v \in Users |-> knownDead[v] \ {c}],
               Goto(u, "insert")
        PROVE  DeadOK'
    BY <2>1 DEF GarbageClient, Goto
  <2>2. CASE Forget(u) /\ UNCHANGED clientVars
    BY <2>2 DEF Forget, Goto, clientVars
  <2> QED
    BY <1>5, <2>1, <2>2 DEF Dial
<1>6. CASE NotMade(u) \/ ConnectFails(u) \/ Close(u)
  BY <1>6 DEF NotMade, ConnectFails, Close, Part, Forget, Goto, clientVars
<1>7. CASE ConnectOk(u)
  BY <1>7 DEF ConnectOk, Forget, Goto, clientVars
<1>8. ASSUME NEW f \in Fwds, Made(u, f) PROVE DeadOK'
  BY <1>8 DEF Made, clientVars
<1> QED
  BY <1>1, <1>2, <1>3, <1>4, <1>5, <1>6, <1>7, <1>8, InsertCases DEF UserStep

----------------------------------------------------------------------------
(* What the sweep and the other calls can do to a forwarder.               *)

\* The new forwarder is the only one that becomes open, and was nowhere.
LEMMA MadeIsNew ==
    ASSUME TypeOK, NEW u \in Users, NEW f \in Fwds, Made(u, f)
    PROVE  /\ f \notin open
           /\ \A k \in Keys : localForwarders[k] # f
           /\ \A v \in Users : got[v] # f
BY DEF Made, Garbage

LEMMA RecentStep ==
    ASSUME TypeOK, HandsOK, MapOK, RecentOK, NEW u \in Users, UserStep(u)
    PROVE  RecentOK'
<1> USE DEF TypeOK, RecentOK
<1>1. ASSUME NEW k \in Keys, Get(u, k) PROVE RecentOK'
  BY <1>1 DEF Get, Goto, mapVars
<1>2. CASE Lookup(u) \/ Check(u) \/ DropStale(u)
  BY <1>2, ConstantsAssumption DEF Lookup, Check, DropStale, Goto, mapVars, histVars
<1>3. CASE Touch(u)
  <2>1. got[u] \in Fwds /\ remote[got[u]] = key[u]
    BY <1>3 DEF Touch, HandsOK, Having
  <2>2. \A k \in Keys : localForwarders[k] = got[u] => k = key[u]
    BY <2>1, ConstantsAssumption DEF MapOK
  <2>3. /\ lastUsedAt' = [lastUsedAt EXCEPT ![key[u]] = "recent"]
        /\ recent' = recent \cup {got[u]}
        /\ pc' = [pc EXCEPT ![u] = "connect"]
        /\ UNCHANGED <<localForwarders, got>>
    BY <1>3 DEF Touch, Goto
  <2> QED
    BY <2>1, <2>2, <2>3
<1>4. CASE LookupClient(u) \/ TestClient(u) \/ Uncache(u) \/ CloseDead(u)
  BY <1>4 DEF LookupClient, TestClient, Uncache, CloseDead, Goto, mapVars, histVars
<1>5. CASE Dial(u) \/ NotMade(u) \/ ConnectOk(u) \/ ConnectFails(u) \/ Close(u)
  <2>1. /\ UNCHANGED mapVars
        /\ recent' = recent
        /\ pc[u] # "touch"
        /\ \A v \in Users \ {u} : pc'[v] = pc[v] /\ got'[v] = got[v]
    BY <1>5 DEF Dial, NotMade, ConnectOk, ConnectFails, Close, Part, Forget, Goto
  <2> QED
    BY <2>1 DEF mapVars
<1>6. ASSUME NEW f \in Fwds, Made(u, f) PROVE RecentOK'
  <2>1. /\ localForwarders' = [localForwarders EXCEPT ![key[u]] = f]
        /\ lastUsedAt' = lastUsedAt
        /\ recent' = recent \cup {f}
        /\ got'[u] = f
        /\ pc[u] # "touch"
        /\ key[u] \notin Proxied => pc'[u] = "touch"
        /\ \A v \in Users \ {u} : pc'[v] = pc[v] /\ got'[v] = got[v]
    BY <1>6 DEF Made
  <2>2. \A k \in Keys : localForwarders[k] # f
    BY <1>6, MadeIsNew
  <2> QED
    BY <2>1, <2>2
<1> QED
  BY <1>1, <1>2, <1>3, <1>4, <1>5, <1>6, InsertCases DEF UserStep

\* No call begins to get a key another one is getting without being noticed.
LEMMA OverlapStep ==
    ASSUME TypeOK, OverlapOK, NEW u \in Users, UserStep(u)
    PROVE  OverlapOK' /\ overlapped \subseteq overlapped'
<1> USE DEF TypeOK, OverlapOK
<1>1. ASSUME NEW k \in Keys, Get(u, k)
      PROVE  OverlapOK' /\ overlapped \subseteq overlapped'
  <2>1. /\ pc' = [pc EXCEPT ![u] = "lookup"]
        /\ key' = [key EXCEPT ![u] = k]
        /\ overlapped' = IF \E v \in Users \ {u} : pc[v] \in Getting /\ key[v] = k
                           THEN overlapped \cup {k} ELSE overlapped
    BY <1>1 DEF Get, Goto
  <2> HIDE DEF TypeOK
  <2>2. pc \in [Users -> Places] /\ key \in [Users -> Keys]
    BY DEF TypeOK
  <2> QED
    BY <2>1, <2>2
<1>2. CASE \/ Lookup(u) \/ Check(u) \/ DropStale(u) \/ Touch(u)
           \/ LookupClient(u) \/ TestClient(u) \/ Uncache(u) \/ CloseDead(u)
  <2>1. pc[u] \in Getting /\ UNCHANGED <<key, overlapped>>
        /\ \A v \in Users \ {u} : pc'[v] = pc[v]
    BY <1>2 DEF Lookup, Check, DropStale, Touch, LookupClient, TestClient, Uncache,
       CloseDead, Goto, histVars, Getting, Places
  <2> QED
    BY <2>1
<1>3. CASE Dial(u) \/ NotMade(u)
  <2>1. /\ pc[u] \in Getting /\ overlapped' = overlapped
        /\ \A v \in Users \ {u} : pc'[v] = pc[v] /\ key'[v] = key[v]
        /\ pc'[u] = "idle" \/ key' = key
    BY <1>3 DEF Dial, NotMade, Forget, Goto, Getting, Places
  <2>2. "idle" \notin Getting
    BY DEF Getting
  <2> QED
    BY <2>1, <2>2
<1>4. CASE ConnectOk(u) \/ ConnectFails(u) \/ Close(u)
  <2>1. /\ overlapped' = overlapped
        /\ \A v \in Users \ {u} : pc'[v] = pc[v] /\ key'[v] = key[v]
        /\ pc'[u] \notin Getting
    BY <1>4 DEF ConnectOk, ConnectFails, Close, Part, Forget, Goto, Getting
  <2> QED
    BY <2>1
<1>5. ASSUME NEW f \in Fwds, Made(u, f)
      PROVE  OverlapOK' /\ overlapped \subseteq overlapped'
  <2>1. /\ pc[u] \in Getting /\ UNCHANGED <<key, overlapped>>
        /\ \A v \in Users \ {u} : pc'[v] = pc[v]
    BY <1>5 DEF Made, Getting, Places
  <2> QED
    BY <2>1
<1> QED
  BY <1>1, <1>2, <1>3, <1>4, <1>5, InsertCases DEF UserStep

\* What is being swept stays closed: nobody fills the map meanwhile.
LEMMA SweptStep ==
    ASSUME TypeOK, SweepOK, NEW u \in Users, UserStep(u)
    PROVE  SweepOK'
<1> USE DEF TypeOK, SweepOK
<1>1. CASE \E k \in Keys : Get(u, k)
  BY <1>1 DEF Get, mapVars, fwdVars
<1>2. CASE DropStale(u)
  BY <1>2 DEF DropStale, MapIsFree
<1>3. CASE \/ Lookup(u) \/ Check(u) \/ Touch(u) \/ LookupClient(u)
           \/ TestClient(u) \/ Uncache(u) \/ CloseDead(u) \/ Dial(u) \/ NotMade(u)
  BY <1>3 DEF Lookup, Check, Touch, LookupClient, TestClient, Uncache, CloseDead,
     Dial, NotMade, mapVars, fwdVars
<1>4. CASE ConnectOk(u) \/ ConnectFails(u) \/ Close(u)
  BY <1>4 DEF ConnectOk, ConnectFails, Close, Part, mapVars, fwdVars
<1>5. ASSUME NEW f \in Fwds, Made(u, f) PROVE SweepOK'
  BY <1>5 DEF Made, MapIsFree
<1> QED
  BY <1>1, <1>2, <1>3, <1>4, <1>5, InsertCases DEF UserStep

----------------------------------------------------------------------------
(* A call that is alone with its key never takes an open forwarder away.   *)

LEMMA NilIsNotOpen == ASSUME TypeOK PROVE NoFwd \notin open
BY ConstantsAssumption DEF TypeOK

LEMMA GettingStep ==
    ASSUME TypeOK, OverlapOK, GettingOK, NEW u \in Users, UserStep(u)
    PROVE  GettingOK'
<1> USE NilIsNotOpen DEF TypeOK, GettingOK
<1>0. overlapped \subseteq overlapped'
  BY OverlapStep
<1>1. ASSUME NEW k \in Keys, Get(u, k) PROVE GettingOK'
  <2>1. /\ pc' = [pc EXCEPT ![u] = "lookup"]
        /\ key' = [key EXCEPT ![u] = k]
        /\ UNCHANGED <<localForwarders, open, got>>
    BY <1>1 DEF Get, Goto, mapVars, fwdVars
  <2> QED
    BY <1>0, <2>1 DEF Making
<1>2. CASE Lookup(u)
  BY <1>2 DEF Lookup, Goto, Making, mapVars, fwdVars, histVars
<1>3. CASE Check(u)
  <2>1. UNCHANGED <<localForwarders, open, key, overlapped>>
    BY <1>3 DEF Check, mapVars, fwdVars, histVars
  <2>2. \A v \in Users \ {u} : pc'[v] = pc[v] /\ got'[v] = got[v]
    BY <1>3 DEF Check, Goto
  <2>3. pc[u] = "check" /\ pc'[u] # "check"
    BY <1>3 DEF Check, Goto
  <2>4. pc'[u] \in Making => got[u] \notin open
    BY <1>3 DEF Check, Goto, Making
  <2> QED
    BY <2>1, <2>2, <2>3, <2>4
<1>4. CASE DropStale(u)
  <2>1. /\ localForwarders' = [localForwarders EXCEPT ![key[u]] = NoFwd]
        /\ UNCHANGED <<open, key, got, overlapped>>
        /\ pc[u] \in Making /\ pc'[u] # "check"
        /\ \A v \in Users \ {u} : pc'[v] = pc[v]
    BY <1>4 DEF DropStale, Goto, Making, fwdVars, histVars
  <2> QED
    BY <2>1
<1>5. CASE \/ Touch(u) \/ LookupClient(u) \/ TestClient(u) \/ Uncache(u)
           \/ CloseDead(u) \/ Dial(u) \/ NotMade(u)
  <2>1. /\ UNCHANGED <<localForwarders, open, overlapped>>
        /\ \A v \in Users \ {u} : pc'[v] = pc[v] /\ got'[v] = got[v]
        /\ \A v \in Users \ {u} : key'[v] = key[v]
    BY <1>5 DEF Touch, LookupClient, TestClient, Uncache, CloseDead, Dial, NotMade,
       Forget, Goto, mapVars, fwdVars, histVars
  <2>2. /\ pc'[u] # "check"
        /\ pc'[u] \in Making => key' = key /\ pc[u] \in Making
    BY <1>5 DEF Touch, LookupClient, TestClient, Uncache, CloseDead, Dial, NotMade,
       Forget, Goto, Making
  <2> QED
    BY <2>1, <2>2
<1>6. CASE ConnectOk(u) \/ ConnectFails(u) \/ Close(u)
  <2>1. /\ UNCHANGED <<localForwarders, overlapped>>
        /\ open' \subseteq open
        /\ \A v \in Users \ {u} : pc'[v] = pc[v] /\ got'[v] = got[v]
        /\ \A v \in Users \ {u} : key'[v] = key[v]
        /\ pc'[u] # "check" /\ pc'[u] \notin Making
    BY <1>6 DEF ConnectOk, ConnectFails, Close, Part, Forget, Goto, Making, mapVars,
       fwdVars
  <2> QED
    BY <2>1
<1>7. ASSUME NEW f \in Fwds, Made(u, f) PROVE GettingOK'
  <2>1. /\ localForwarders' = [localForwarders EXCEPT ![key[u]] = f]
        /\ open' = open \cup {f}
        /\ UNCHANGED <<key, overlapped>>
        /\ pc[u] = "insert" /\ pc'[u] # "check" /\ pc'[u] \notin Making
        /\ \A v \in Users \ {u} : pc'[v] = pc[v] /\ got'[v] = got[v]
    BY <1>7 DEF Made, Making
  <2>2. Making \cup {"check"} \subseteq Getting /\ "insert" \in Getting
    BY DEF Making, Getting, Places
  <2>3. \A v \in Users \ {u} :
          key[v] \notin overlapped /\ pc[v] \in Making \cup {"check"} => key[v] # key[u]
    BY <2>1, <2>2 DEF OverlapOK
  <2> QED
    BY <1>7, <2>1, <2>3, MadeIsNew
<1> QED
  BY <1>1, <1>2, <1>3, <1>4, <1>5, <1>6, <1>7, InsertCases DEF UserStep

LEMMA ReachStep ==
    ASSUME TypeOK, GettingOK, OverlapOK, ReachOK, NEW u \in Users, UserStep(u)
    PROVE  ReachOK'
<1> USE DEF TypeOK, ReachOK
<1>0. overlapped \subseteq overlapped'
  BY OverlapStep
<1>1. CASE DropStale(u)
  <2>1. /\ localForwarders' = [localForwarders EXCEPT ![key[u]] = NoFwd]
        /\ UNCHANGED <<open, remote, overlapped>>
        /\ pc[u] \in Making
    BY <1>1 DEF DropStale, Making, fwdVars, histVars
  <2> QED
    BY <2>1 DEF GettingOK
<1>2. ASSUME NEW f \in Fwds, Made(u, f) PROVE ReachOK'
  <2>1. /\ localForwarders' = [localForwarders EXCEPT ![key[u]] = f]
        /\ open' = open \cup {f}
        /\ remote' = [remote EXCEPT ![f] = key[u]]
        /\ overlapped' = overlapped
        /\ pc[u] \in Making
    BY <1>2 DEF Made, Making
  <2> QED
    BY <2>1 DEF GettingOK
<1>3. CASE ~DropStale(u) /\ ~(\E f \in Fwds : Made(u, f))
  <2>1. CASE \/ \E k \in Keys : Get(u, k)
             \/ Lookup(u) \/ Check(u) \/ Touch(u) \/ LookupClient(u)
             \/ TestClient(u) \/ Uncache(u) \/ CloseDead(u) \/ Dial(u) \/ NotMade(u)
    <3>1. UNCHANGED <<localForwarders, open, remote>>
      BY <2>1 DEF Get, Lookup, Check, Touch, LookupClient, TestClient, Uncache,
         CloseDead, Dial, NotMade, mapVars, fwdVars
    <3> QED
      BY <1>0, <3>1
  <2>2. CASE ConnectOk(u) \/ ConnectFails(u) \/ Close(u)
    <3>1. UNCHANGED <<localForwarders, remote>> /\ open' \subseteq open
      BY <2>2 DEF ConnectOk, ConnectFails, Close, Part, mapVars, fwdVars
    <3> QED
      BY <1>0, <3>1
  <2> QED
    BY <1>3, <2>1, <2>2, InsertCases DEF UserStep
<1> QED
  BY <1>1, <1>2, <1>3

----------------------------------------------------------------------------
(* The sweep, the clock, the network and the end of the application.       *)

LEMMA SweepReadInv ==
    ASSUME IInv, NEW k \in Keys, SweepRead(k)
    PROVE  IInv'
<1> USE DEF IInv, Inv
<1>1. TypeOK'
  BY OtherTypes DEF OtherStep
<1>2. /\ UNCHANGED <<localForwarders, lastUsedAt, sweeping, fwdVars, clientVars>>
      /\ UNCHANGED userVars
      /\ UNCHANGED histVars
      /\ k \in ToRead /\ unread' = ToRead \ {k}
      /\ judged' = IF lastUsedAt[k] = "idle" THEN {k} ELSE {}
  BY DEF SweepRead
<1>3. HandsOK' /\ LocalsOK' /\ MapOK'
  BY <1>2 DEF HandsOK, LocalsOK, MapOK, userVars, fwdVars
<1>4. ClientsOK' /\ ClientsApart' /\ DeadOK'
  BY <1>2 DEF ClientsOK, ClientsApart, DeadOK, Server, clientVars, userVars, histVars
<1>5. RecentOK' /\ OverlapOK'
  BY <1>2 DEF RecentOK, OverlapOK, userVars, histVars
<1>6. SweepOK'
  BY <1>2 DEF SweepOK, ToRead, fwdVars
<1>7. GettingOK' /\ ReachOK'
  BY <1>2 DEF GettingOK, ReachOK, userVars, histVars, fwdVars
<1> QED
  BY <1>1, <1>3, <1>4, <1>5, <1>6, <1>7

LEMMA SweepCloseInv ==
    ASSUME IInv, SweepClose
    PROVE  IInv'
<1> USE DEF IInv, Inv
<1>1. TypeOK'
  BY OtherTypes DEF OtherStep
<1>2. /\ UNCHANGED <<localForwarders, lastUsedAt, unread, tunnel, remote, clientVars>>
      /\ UNCHANGED userVars
      /\ UNCHANGED histVars
      /\ open' = open \ FwdsAt(judged)
      /\ sweeping' = sweeping \cup judged /\ judged' = {}
  BY DEF SweepClose
<1>3. HandsOK' /\ LocalsOK'
  BY <1>2 DEF HandsOK, LocalsOK, userVars
<1>4. MapOK'
  BY <1>2 DEF MapOK, userVars
<1>5. ClientsOK' /\ ClientsApart' /\ DeadOK'
  BY <1>2 DEF ClientsOK, ClientsApart, DeadOK, Server, clientVars, userVars, histVars
<1>6. RecentOK' /\ OverlapOK'
  BY <1>2 DEF RecentOK, OverlapOK, userVars, histVars
<1>7. SweepOK'
  BY <1>2, NilIsNotOpen DEF SweepOK, FwdsAt, TypeOK, OptFwd
<1>8. GettingOK' /\ ReachOK'
  BY <1>2 DEF GettingOK, ReachOK, userVars, histVars
<1> QED
  BY <1>1, <1>3, <1>4, <1>5, <1>6, <1>7, <1>8

LEMMA SweepDeleteInv ==
    ASSUME IInv, SweepDelete
    PROVE  IInv'
<1> USE DEF IInv, Inv
<1>1. TypeOK'
  BY OtherTypes DEF OtherStep
<1>2. /\ UNCHANGED <<fwdVars, clientVars>>
      /\ UNCHANGED userVars
      /\ UNCHANGED histVars
      /\ localForwarders' =
           [k \in Keys |-> IF k \in sweeping THEN NoFwd ELSE localForwarders[k]]
      /\ lastUsedAt' =
           [k \in Keys |-> IF k \in sweeping THEN "never" ELSE lastUsedAt[k]]
      /\ unread' = {} /\ judged' = {} /\ sweeping' = {}
  BY DEF SweepDelete
<1>3. HandsOK' /\ LocalsOK'
  BY <1>2 DEF HandsOK, LocalsOK, userVars, fwdVars
<1>4. MapOK'
  BY <1>2 DEF MapOK, userVars, fwdVars
<1>5. ClientsOK' /\ ClientsApart' /\ DeadOK'
  BY <1>2 DEF ClientsOK, ClientsApart, DeadOK, Server, clientVars, userVars, histVars
<1>6. RecentOK' /\ OverlapOK'
  BY <1>2 DEF RecentOK, OverlapOK, userVars, histVars
<1>7. SweepOK'
  BY <1>2 DEF SweepOK
<1>8. GettingOK'
  BY <1>2, NilIsNotOpen DEF GettingOK, TypeOK, userVars, histVars, fwdVars
<1>9. ReachOK'
  BY <1>2 DEF ReachOK, SweepOK, TypeOK, userVars, histVars, fwdVars
<1> QED
  BY <1>1, <1>3, <1>4, <1>5, <1>6, <1>7, <1>8, <1>9

LEMMA IdleTimeoutInv ==
    ASSUME IInv, IdleTimeout
    PROVE  IInv'
<1> USE DEF IInv, Inv
<1>1. TypeOK'
  BY OtherTypes DEF OtherStep
<1>2. /\ UNCHANGED <<localForwarders, sweepVars, fwdVars, clientVars>>
      /\ UNCHANGED userVars
      /\ UNCHANGED <<overlapped, knownDead>>
      /\ recent' = {}
      /\ \A k \in Keys : lastUsedAt'[k] = "never" <=> lastUsedAt[k] = "never"
  BY DEF IdleTimeout, TypeOK
<1>3. HandsOK' /\ LocalsOK'
  BY <1>2 DEF HandsOK, LocalsOK, userVars, fwdVars
<1>4. MapOK'
  BY <1>2 DEF MapOK, userVars, fwdVars
<1>5. ClientsOK' /\ ClientsApart' /\ DeadOK'
  BY <1>2 DEF ClientsOK, ClientsApart, DeadOK, Server, clientVars, userVars
<1>6. RecentOK' /\ OverlapOK' /\ SweepOK'
  BY <1>2 DEF RecentOK, OverlapOK, SweepOK, userVars, fwdVars
<1>7. GettingOK' /\ ReachOK'
  BY <1>2 DEF GettingOK, ReachOK, userVars, fwdVars
<1> QED
  BY <1>1, <1>3, <1>4, <1>5, <1>6, <1>7

LEMMA CloseAllInv ==
    ASSUME IInv, CloseAllForwarders
    PROVE  IInv'
<1> USE DEF IInv, Inv
<1>1. TypeOK'
  BY OtherTypes DEF OtherStep
<1>2. /\ UNCHANGED <<lastUsedAt, sweepVars, tunnel, remote, clientVars>>
      /\ UNCHANGED userVars
      /\ UNCHANGED histVars
      /\ open' = open \ FwdsAt(Proxied)
      /\ localForwarders' =
           [k \in Keys |-> IF k \in Proxied THEN NoFwd ELSE localForwarders[k]]
  BY DEF CloseAllForwarders
<1>3. HandsOK' /\ LocalsOK'
  BY <1>2 DEF HandsOK, LocalsOK, userVars
<1>4. MapOK'
  BY <1>2 DEF MapOK, userVars
<1>5. ClientsOK' /\ ClientsApart' /\ DeadOK'
  BY <1>2 DEF ClientsOK, ClientsApart, DeadOK, Server, clientVars, userVars, histVars
<1>6. RecentOK' /\ OverlapOK'
  BY <1>2 DEF RecentOK, OverlapOK, userVars, histVars
<1>7. SweepOK' /\ GettingOK'
  BY <1>2, NilIsNotOpen DEF SweepOK, GettingOK, TypeOK, userVars, histVars
<1>8. ReachOK'
  BY <1>2 DEF ReachOK, FwdsAt, TypeOK, histVars
<1> QED
  BY <1>1, <1>3, <1>4, <1>5, <1>6, <1>7, <1>8

LEMMA LinkBreaksInv ==
    ASSUME IInv, NEW c \in Clients, LinkBreaks(c)
    PROVE  IInv'
<1> USE DEF IInv, Inv
<1>1. TypeOK'
  BY OtherTypes DEF OtherStep
<1>2. /\ UNCHANGED <<mapVars, fwdVars, sshClientCache>>
      /\ UNCHANGED userVars
      /\ UNCHANGED histVars
      /\ link' = [link EXCEPT ![c] = "dead"]
  BY DEF LinkBreaks
<1>3. HandsOK' /\ LocalsOK' /\ MapOK'
  BY <1>2 DEF HandsOK, LocalsOK, MapOK, userVars, mapVars, fwdVars
<1>4. ClientsOK' /\ ClientsApart'
  BY <1>2 DEF ClientsOK, ClientsApart, Server, TypeOK, userVars
<1>5. DeadOK'
  BY <1>2 DEF DeadOK, TypeOK, userVars, histVars
<1>6. RecentOK' /\ OverlapOK' /\ SweepOK'
  BY <1>2 DEF RecentOK, OverlapOK, SweepOK, userVars, histVars, mapVars, fwdVars
<1>7. GettingOK' /\ ReachOK'
  BY <1>2 DEF GettingOK, ReachOK, userVars, histVars, mapVars, fwdVars
<1> QED
  BY <1>1, <1>3, <1>4, <1>5, <1>6, <1>7

----------------------------------------------------------------------------
(* The theorems.                                                           *)

LEMMA UserInv ==
    ASSUME IInv, NEW u \in Users, UserStep(u)
    PROVE  IInv'
<1>1. TypeOK'
  BY UserTypes DEF IInv, Inv
<1>2. HandsOK' /\ LocalsOK' /\ MapOK'
  BY HandsStep, MapStep DEF IInv, Inv
<1>3. ClientsOK' /\ ClientsApart' /\ DeadOK'
  BY ClientsStep, DeadStep DEF IInv, Inv
<1>4. RecentOK' /\ OverlapOK' /\ SweepOK'
  BY RecentStep, OverlapStep, SweptStep DEF IInv, Inv
<1>5. GettingOK' /\ ReachOK'
  BY GettingStep, ReachStep DEF IInv, Inv
<1> QED
  BY <1>1, <1>2, <1>3, <1>4, <1>5 DEF IInv, Inv

LEMMA Stutters ==
    ASSUME IInv, UNCHANGED vars
    PROVE  IInv'
<1> USE DEF vars, mapVars, fwdVars, clientVars, userVars, histVars
<1>1. Inv'
  BY DEF IInv, Inv, TypeOK, HandsOK, MapOK, ClientsOK
<1>2. LocalsOK' /\ ClientsApart' /\ DeadOK' /\ RecentOK' /\ OverlapOK' /\ SweepOK'
  BY DEF IInv, LocalsOK, ClientsApart, DeadOK, RecentOK, OverlapOK, SweepOK, Server
<1>3. GettingOK' /\ ReachOK'
  BY DEF IInv, GettingOK, ReachOK
<1> QED
  BY <1>1, <1>2, <1>3 DEF IInv

LEMMA ForwardersStep == IInv /\ [Next]_vars => IInv'
BY UserInv, SweepReadInv, SweepCloseInv, SweepDeleteInv, IdleTimeoutInv, CloseAllInv, LinkBreaksInv,
   Stutters DEF Next

LEMMA ForwardersAlways == Spec => []IInv
BY ForwardersInit, ForwardersStep, PTL DEF Spec

\* The types, and what a caller, the map and the client cache may hold: a
\* forwarder is handed out under its own key only, over a client if the key is
\* an SSH key, is stamped before the sweep can see it, and no cached client is
\* closed.
THEOREM ForwarderInvariance == Spec => []Inv
<1>1. IInv => Inv
  BY DEF IInv
<1> QED
  BY <1>1, ForwardersAlways, PTL

\* No open listener is lost while only one call at a time gets its key.
THEOREM NothingIsStranded == Spec => []NothingStranded
<1>1. IInv => NothingStranded
  BY DEF IInv, Inv, TypeOK, ReachOK, NothingStranded
<1> QED
  BY <1>1, ForwardersAlways, PTL

\* The idle sweep finds idle nothing that was made or handed out within the
\* timeout, but for the moment before a caller's use is recorded, and closes such
\* a forwarder only then or where the use was recorded after it had read the stamp.
THEOREM SweepIsSparing == Spec => SweepSparesRecent
<1>1. ASSUME IInv, Next, NEW k \in judged' \ judged,
             localForwarders[k] \in recent
      PROVE  NotYetTouched(localForwarders[k])
  <2>1. k \in Keys /\ SweepRead(k)
    <3>1. \E j \in Keys : SweepRead(j)
      <4>1. ASSUME NEW u \in Users, UserStep(u) PROVE judged' = judged
        BY <4>1 DEF UserStep, Get, Lookup, Check, DropStale, Insert, Touch,
           LookupClient, TestClient, Uncache, CloseDead, Dial, ConnectOk,
           ConnectFails, Close, Part, mapVars
      <4> QED
        BY <1>1, <4>1 DEF Next, SweepClose, SweepDelete, IdleTimeout,
           CloseAllForwarders, LinkBreaks, mapVars
    <3> QED
      BY <1>1, <3>1 DEF SweepRead
  <2>2. k \in Keys \ Proxied /\ lastUsedAt[k] = "idle"
    BY <1>1, <2>1 DEF SweepRead, ToRead, IInv, SweepOK
  <2> QED
    BY <1>1, <2>2 DEF IInv, RecentOK, NotYetTouched
<1>2. ASSUME IInv, SweepClose, NEW k \in judged,
             localForwarders[k] \in recent \cap (open \ open')
      PROVE  NotYetTouched(localForwarders[k]) \/ lastUsedAt[k] = "recent"
  <2>1. k \in Keys \ Proxied /\ lastUsedAt[k] \in {"recent", "idle"}
    BY <1>2 DEF IInv, Inv, TypeOK, SweepOK
  <2> QED
    BY <1>2, <2>1 DEF IInv, RecentOK, NotYetTouched
<1>3. ASSUME IInv, [Next]_vars
      PROVE  [/\ \A k \in judged' \ judged :
                    localForwarders[k] \in recent => NotYetTouched(localForwarders[k])
              /\ SweepClose => \A k \in judged :
                    localForwarders[k] \in recent \cap (open \ open') =>
                        NotYetTouched(localForwarders[k])
                          \/ lastUsedAt[k] = "recent"]_vars
  BY <1>1, <1>2, <1>3
<1> QED
  BY <1>3, ForwardersAlways, PTL DEF Spec, SweepSparesRecent

\* A tunnel is never built over a client that was broken before the call began.
THEOREM TunnelsAreLive == Spec => NewTunnelIsLive
<1>1. ASSUME IInv, Next, NEW v \in Users, NEW f \in Fwds,
             f \in open' \ open, got'[v] = f
      PROVE  tunnel'[f] \notin knownDead[v]
  <2>1. PICK u \in Users : UserStep(u)
    BY <1>1 DEF Next, SweepRead, SweepClose, SweepDelete, IdleTimeout,
       CloseAllForwarders, LinkBreaks, fwdVars
  <2>2. Made(u, f)
    <3>1. ~NotMade(u)
      BY <1>1 DEF NotMade, fwdVars
    <3>2. Insert(u)
      BY <1>1, <2>1 DEF UserStep, Get, Lookup, Check, DropStale, Touch, LookupClient,
         TestClient, Uncache, CloseDead, Dial, ConnectOk, ConnectFails, Close, Part,
         fwdVars
    <3>3. PICK g \in Fwds : Made(u, g)
      BY <3>1, <3>2, InsertCases
    <3>4. open' = open \cup {g}
      BY <3>3 DEF Made
    <3>5. f = g
      BY <1>1, <3>4
    <3> QED
      BY <3>3, <3>5
  <2>3. v = u
    <3>1. TypeOK
      BY <1>1 DEF IInv, Inv
    <3>2. got' = [got EXCEPT ![u] = f]
      BY <2>2 DEF Made
    <3>3. got[v] # f
      BY <2>2, <3>1, MadeIsNew
    <3> QED
      BY <1>1, <3>2, <3>3
  <2>4. TypeOK /\ DeadOK
    BY <1>1 DEF IInv, Inv
  <2>5. client[u] \notin knownDead[u] /\ tunnel'[f] = client[u]
    BY <2>2, <2>4 DEF Made, DeadOK, TypeOK
  <2> QED
    BY <2>3, <2>5
<1>2. ASSUME IInv, [Next]_vars
      PROVE  [\A u \in Users, f \in Fwds :
                f \in open' \ open /\ got'[u] = f => tunnel'[f] \notin knownDead[u]]_vars
  BY <1>1, <1>2
<1> QED
  BY <1>2, ForwardersAlways, PTL DEF Spec, NewTunnelIsLive

=============================================================================
