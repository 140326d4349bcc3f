-------------------------- MODULE Services_proofs --------------------------
(***************************************************************************)
(* Proofs about the services that share no state with each other, for any   *)
(* values of their constants: ServiceDiscovery, TaskJobs, LimitedCalls,     *)
(* CachedCalls, BatchCache and Framing.                                    *)
(***************************************************************************)
EXTENDS ServiceDiscovery, TaskJobs, LimitedCalls, CachedCalls, BatchCache,
        Framing, SequenceTheorems, FiniteSetTheorems, TLAPS

(* ServiceDiscovery: the double check starts one provider per service, what *)
(* a caller uses has been started, and a close that nobody overlaps closes  *)
(* everything.                                                             *)

Inside == {"check", "start", "add", "put"}
Building == {"add", "put"}

(* The lock is held by the one caller that is between its two ends.         *)
LockInv == \A c \in Clients : discPc[c] \in Inside <=> lock = c

(* What a caller has where it is.                                           *)
CallerInv ==
    \A c \in Clients :
        /\ discPc[c] # "idle" => wanted[c] \in Services
        /\ discPc[c] \in Inside \ {"check"} => providers[wanted[c]] = NoProvider
        /\ discPc[c] \in Building => provider[c] = <<c, wanted[c]>>
        /\ discPc[c] \in Building \cup {"use"} =>
              provider[c] \in started /\ provider[c][2] = wanted[c]

(* The map holds started providers under their services, and a provider that *)
(* has been started is in the map or still in the hands of its builder.     *)
MapInv ==
    /\ \A s \in Services : providers[s] # NoProvider =>
           providers[s] \in started /\ providers[s][2] = s
    /\ \A p \in started :
           \/ providers[p[2]] = p
           \/ \E c \in Clients : discPc[c] \in Building /\ provider[c] = p

Listed(p) == \E i \in DOMAIN closeableList : closeableList[i] = p

(* What was started is on the list of close, or about to be put there.      *)
ListInv == \A p \in started :
    Listed(p) \/ \E c \in Clients : discPc[c] = "add" /\ provider[c] = p

(* close has closed what stood before its cursor.                           *)
CloseInv ==
    /\ closing = "no" => cursor = 0
    /\ closing # "no" => expected = Len(toClose) /\ cursor <= expected
    /\ closing = "returned" => cursor = expected
    /\ \A i \in 1 .. cursor : toClose[i] \in closedOnes

DiscInv == DiscTypeOK /\ LockInv /\ CallerInv /\ MapInv /\ ListInv /\ CloseInv
-----------------------------------------------------------------------------
LEMMA InitDiscovery == DiscInit => DiscInv
<1> SUFFICES ASSUME DiscInit PROVE DiscInv
  OBVIOUS
<1>1. DiscTypeOK
  BY EmptySeq DEF DiscInit, DiscTypeOK
<1>2. LockInv /\ CallerInv /\ MapInv /\ ListInv
  BY DiscoveryAssumption
  DEF DiscInit, LockInv, CallerInv, MapInv, ListInv, Inside, Building
<1>3. CloseInv
  <2>1. 1 .. 0 = {}
    OBVIOUS
  <2> QED
    BY <2>1 DEF DiscInit, CloseInv
<1> QED
  BY <1>1, <1>2, <1>3 DEF DiscInv

(* Steps of a caller leave close alone and the list as it is, or longer.     *)
LEMMA ClientKeepsTypes ==
    ASSUME DiscInv, NEW c \in Clients, ClientStep(c) \/ \E s \in Services : Discover(c, s)
    PROVE  DiscTypeOK' /\ CloseInv'
<1>1. UNCHANGED closeVars
  BY DEF Discover, ClientStep, ReadMap, EnterLock, CheckMap, StartProvider, AddCloseable,
         PutMap, UseProvider
<1>2. CloseInv'
  BY <1>1 DEF DiscInv, CloseInv, closeVars
<1>3. DiscTypeOK'
  <2> USE DEF DiscTypeOK, Goto, Entry, closeVars
  <2>0. /\ DiscTypeOK
        /\ discPc[c] # "idle" => wanted[c] \in Services
        /\ discPc[c] # "idle" => <<c, wanted[c]>> \in Providers
    BY DEF DiscInv, CallerInv, Providers
  <2>1. CASE \E s \in Services : Discover(c, s)
    BY <1>1, <2>0, <2>1 DEF Discover
  <2>2. CASE ReadMap(c)
    BY <1>1, <2>0, <2>2 DEF ReadMap
  <2>3. CASE EnterLock(c)
    BY <1>1, <2>0, <2>3 DEF EnterLock
  <2>4. CASE CheckMap(c)
    BY <1>1, <2>0, <2>4 DEF CheckMap
  <2>5. CASE StartProvider(c)
    <3>1. started' \subseteq Providers /\ provider' \in [Clients -> Providers \cup {NoProvider}]
      BY <2>0, <2>5 DEF StartProvider
    <3> QED
      BY <1>1, <2>0, <2>5, <3>1 DEF StartProvider
  <2>6. CASE AddCloseable(c)
    <3>1. provider[c] \in Providers
      BY <2>0, <2>6 DEF AddCloseable, DiscInv, CallerInv, Building
    <3>2. Append(closeableList, provider[c]) \in Seq(Providers)
      BY <2>0, <3>1, AppendProperties
    <3> QED
      BY <1>1, <2>0, <2>6, <3>2 DEF AddCloseable
  <2>7. CASE PutMap(c)
    <3>1. provider[c] \in Providers
      BY <2>0, <2>7 DEF PutMap, DiscInv, CallerInv, Building
    <3> QED
      BY <1>1, <2>0, <2>7, <3>1 DEF PutMap
  <2>8. CASE UseProvider(c)
    BY <1>1, <2>0, <2>8 DEF UseProvider
  <2> QED
    BY <2>1, <2>2, <2>3, <2>4, <2>5, <2>6, <2>7, <2>8 DEF ClientStep
<1> QED
  BY <1>2, <1>3

LEMMA ClientKeepsLock ==
    ASSUME DiscInv, NEW c \in Clients, ClientStep(c) \/ \E s \in Services : Discover(c, s)
    PROVE  LockInv'
<1> USE DEF LockInv, Inside, Goto
<1>0. /\ LockInv /\ discPc \in [Clients -> {"idle", "read", "lock", "check", "start", "add",
                                            "put", "use"}]
      /\ NoClient \notin Clients
  BY DiscoveryAssumption DEF DiscInv, DiscTypeOK
<1>1. CASE (\E s \in Services : Discover(c, s)) \/ ReadMap(c) \/ UseProvider(c)
  BY <1>0, <1>1 DEF Discover, ReadMap, UseProvider
<1>2. CASE EnterLock(c)
  BY <1>0, <1>2 DEF EnterLock
<1>3. CASE CheckMap(c)
  BY <1>0, <1>3 DEF CheckMap
<1>4. CASE StartProvider(c)
  BY <1>0, <1>4 DEF StartProvider
<1>5. CASE AddCloseable(c)
  BY <1>0, <1>5 DEF AddCloseable
<1>6. CASE PutMap(c)
  BY <1>0, <1>6 DEF PutMap
<1> QED
  BY <1>1, <1>2, <1>3, <1>4, <1>5, <1>6 DEF ClientStep

(* A caller that builds a provider is alone.                                *)
LEMMA OneInside ==
    ASSUME DiscInv, NEW c \in Clients, NEW d \in Clients,
           discPc[c] \in Inside, discPc[d] \in Inside
    PROVE  c = d
BY DEF DiscInv, LockInv

LEMMA ClientKeepsMap ==
    ASSUME DiscInv, NEW c \in Clients, ClientStep(c) \/ \E s \in Services : Discover(c, s)
    PROVE  CallerInv' /\ MapInv' /\ ListInv'
<1>0. /\ discPc \in [Clients -> {"idle", "read", "lock", "check", "start", "add", "put", "use"}]
      /\ providers \in [Services -> Providers \cup {NoProvider}]
      /\ provider \in [Clients -> Providers \cup {NoProvider}]
      /\ wanted \in [Clients -> Services \cup {NoService}]
      /\ started \subseteq Providers /\ NoProvider \notin Providers
      /\ CallerInv /\ MapInv /\ ListInv
  BY DiscoveryAssumption DEF DiscInv, DiscTypeOK, Providers
(* c changes its place only.                                               *)
<1>1. ASSUME UNCHANGED <<providers, started, closeableList>>,
             discPc[c] \notin Building, discPc'[c] \notin Building,
             \A d \in Clients : d # c => /\ discPc'[d] = discPc[d] /\ wanted'[d] = wanted[d]
                                         /\ provider'[d] = provider[d],
             discPc'[c] # "idle" => wanted'[c] \in Services,
             discPc'[c] = "start" => providers[wanted'[c]] = NoProvider,
             discPc'[c] = "use" => provider'[c] \in started /\ provider'[c][2] = wanted'[c]
      PROVE  CallerInv' /\ MapInv' /\ ListInv'
  <2>1. CallerInv'
    BY <1>0, <1>1 DEF CallerInv, Inside, Building
  <2>2. MapInv'
    BY <1>0, <1>1 DEF MapInv
  <2>3. ListInv'
    BY <1>0, <1>1 DEF ListInv, Listed, Building
  <2> QED
    BY <2>1, <2>2, <2>3
<1>2. CASE \E s \in Services : Discover(c, s)
  BY <1>0, <1>1, <1>2 DEF Discover, Goto, Building
<1>3. CASE ReadMap(c) \/ CheckMap(c)
  <2>1. wanted[c] \in Services
    BY <1>0, <1>3 DEF ReadMap, CheckMap, Goto, CallerInv
  <2>2. Entry(c) # NoProvider => Entry(c) \in started /\ Entry(c)[2] = wanted[c]
    BY <1>0, <2>1 DEF Entry, MapInv
  <2>3. CASE ReadMap(c)
    BY <1>0, <1>1, <2>1, <2>2, <2>3 DEF ReadMap, Goto, Building
  <2>4. CASE CheckMap(c)
    BY <1>0, <1>1, <2>1, <2>2, <2>4 DEF CheckMap, Goto, Building, Entry
  <2> QED
    BY <1>3, <2>3, <2>4
<1>4. CASE EnterLock(c)
  <2>1. wanted[c] \in Services
    BY <1>0, <1>4 DEF EnterLock, Goto, CallerInv
  <2> QED
    BY <1>0, <1>1, <1>4, <2>1 DEF EnterLock, Goto, Building
<1>5. CASE UseProvider(c)
  BY <1>0, <1>1, <1>5 DEF UseProvider, Goto, Building
<1>6. CASE StartProvider(c)
  <2>1. discPc[c] = "start" /\ wanted[c] \in Services /\ providers[wanted[c]] = NoProvider
    BY <1>0, <1>6 DEF StartProvider, Goto, CallerInv, Inside
  <2>2. CASE discPc' = [discPc EXCEPT ![c] = "idle"]
    <3>1. /\ wanted' = [wanted EXCEPT ![c] = NoService]
          /\ UNCHANGED <<provider, started, providers, closeableList>>
      BY <1>0, <1>6, <2>1, <2>2 DEF StartProvider, Goto
    <3> QED
      BY <1>0, <1>1, <2>1, <2>2, <3>1 DEF Building
  <2>3. CASE discPc' = [discPc EXCEPT ![c] = "add"]
    <3>1. /\ provider' = [provider EXCEPT ![c] = <<c, wanted[c]>>]
          /\ started' = started \cup {<<c, wanted[c]>>}
          /\ UNCHANGED <<wanted, providers, closeableList>>
      BY <1>0, <1>6, <2>1, <2>3 DEF StartProvider, Goto
    <3>2. CallerInv'
      BY <1>0, <2>1, <2>3, <3>1 DEF CallerInv, Inside, Building
    <3>3. MapInv'
      BY <1>0, <2>1, <2>3, <3>1 DEF MapInv, Building
    <3>4. ListInv'
      BY <1>0, <2>1, <2>3, <3>1 DEF ListInv, Listed
    <3> QED
      BY <3>2, <3>3, <3>4
  <2> QED
    BY <1>6, <2>2, <2>3 DEF StartProvider, Goto
<1>7. CASE AddCloseable(c)
  <2>1. /\ discPc[c] = "add" /\ discPc' = [discPc EXCEPT ![c] = "put"]
        /\ closeableList' = Append(closeableList, provider[c])
        /\ UNCHANGED <<providers, wanted, provider, started>>
    BY <1>7 DEF AddCloseable, Goto
  <2>2. CallerInv'
    BY <1>0, <2>1 DEF CallerInv, Inside, Building
  <2>3. MapInv'
    BY <1>0, <2>1 DEF MapInv, Building
  <2>4. \A p : Listed(p)' <=> Listed(p) \/ p = provider[c]
    <3>1. provider[c] \in Providers /\ closeableList \in Seq(Providers)
      BY <1>0, <2>1 DEF CallerInv, Building, DiscInv, DiscTypeOK
    <3>2. PICK n \in Nat : /\ DOMAIN closeableList = 1 .. n /\ DOMAIN closeableList' = 1 .. n + 1
                           /\ \A i \in 1 .. n : closeableList'[i] = closeableList[i]
                           /\ closeableList'[n + 1] = provider[c]
      BY <2>1, <3>1, AppendProperties, LenProperties
    <3>3. \A i : i \in 1 .. n + 1 <=> i \in 1 .. n \/ i = n + 1
      OBVIOUS
    <3> QED
      BY <3>2, <3>3 DEF Listed
  <2>5. ListInv'
    BY <1>0, <2>1, <2>4 DEF ListInv
  <2> QED
    BY <2>2, <2>3, <2>5
<1>8. CASE PutMap(c)
  <2>1. /\ discPc[c] = "put" /\ discPc' = [discPc EXCEPT ![c] = "use"]
        /\ providers' = [providers EXCEPT ![wanted[c]] = provider[c]]
        /\ UNCHANGED <<closeableList, wanted, provider, started>>
    BY <1>8 DEF PutMap, Goto
  <2>2. /\ wanted[c] \in Services /\ provider[c] \in started /\ provider[c][2] = wanted[c]
        /\ providers[wanted[c]] = NoProvider
    BY <1>0, <2>1 DEF CallerInv, Inside, Building
  <2>3. \A d \in Clients : d # c => discPc[d] \notin Inside
    BY <2>1, OneInside DEF Inside
  <2>4. CallerInv'
    BY <1>0, <2>1, <2>2, <2>3 DEF CallerInv, Inside, Building
  <2>5. MapInv'
    <3>1. \A s \in Services : providers'[s] # NoProvider =>
              providers'[s] \in started /\ providers'[s][2] = s
      BY <1>0, <2>1, <2>2 DEF MapInv
    <3>2. ASSUME NEW p \in started PROVE providers'[p[2]] = p
      <4>1. CASE p = provider[c]
        BY <1>0, <2>1, <2>2, <4>1
      <4>2. CASE p # provider[c]
        <5>1. providers[p[2]] = p /\ p # NoProvider
          BY <1>0, <2>3, <4>2 DEF MapInv, Inside, Building
        <5>2. p[2] # wanted[c] /\ p[2] \in Services
          BY <1>0, <2>2, <5>1 DEF Providers
        <5> QED
          BY <1>0, <2>1, <5>1, <5>2
      <4> QED
        BY <4>1, <4>2
    <3> QED
      BY <2>1, <3>1, <3>2 DEF MapInv
  <2>6. ListInv'
    BY <1>0, <2>1 DEF ListInv, Listed
  <2> QED
    BY <2>4, <2>5, <2>6
<1> QED
  BY <1>2, <1>3, <1>4, <1>5, <1>6, <1>7, <1>8 DEF ClientStep

LEMMA CloseKeepsAll ==
    ASSUME DiscInv, StartClose \/ CloseNext
    PROVE  DiscInv'
<1>1. UNCHANGED <<providers, closeableList, lock, discPc, wanted, provider, started>>
  BY DEF StartClose, CloseNext
<1>2. LockInv' /\ CallerInv' /\ MapInv' /\ ListInv'
  BY <1>1 DEF DiscInv, LockInv, CallerInv, MapInv, ListInv, Listed
<1>3. DiscTypeOK /\ CloseInv
  BY DEF DiscInv
<1>4. CASE StartClose
  <2>1. Len(closeableList) \in Nat
    BY <1>3, LenProperties DEF DiscTypeOK
  <2>2. DiscTypeOK'
    BY <1>3, <1>4, <2>1 DEF StartClose, DiscTypeOK
  <2>3. CloseInv'
    BY <1>3, <1>4, <2>1 DEF StartClose, CloseInv
  <2> QED
    BY <1>2, <2>2, <2>3 DEF DiscInv
<1>5. CASE CloseNext
  <2>1. /\ closing = "running" /\ expected = Len(toClose) /\ cursor <= expected
        /\ cursor \in Nat /\ expected \in Nat /\ toClose' = toClose /\ expected' = expected
    BY <1>3, <1>5 DEF CloseNext, CloseInv, DiscTypeOK
  <2>2. CASE cursor < expected /\ cursor' = cursor + 1 /\ closing' = closing
                /\ closedOnes' = closedOnes \cup {toClose[cursor + 1]}
    <3>1. toClose[cursor + 1] \in Providers
      BY <1>3, <2>1, <2>2, ElementOfSeq DEF DiscTypeOK
    <3>2. DiscTypeOK'
      BY <1>1, <1>3, <2>1, <2>2, <3>1 DEF DiscTypeOK
    <3>3. \A i \in 1 .. cursor + 1 : i \in 1 .. cursor \/ i = cursor + 1
      BY <2>1
    <3>4. CloseInv'
      BY <1>3, <2>1, <2>2, <3>3 DEF CloseInv
    <3> QED
      BY <1>2, <3>2, <3>4 DEF DiscInv
  <2>3. CASE /\ UNCHANGED <<closedOnes, cursor>>
             /\ (cursor = expected /\ closing' = "returned") \/ closing' = "thrown"
    <3>1. DiscTypeOK'
      BY <1>1, <1>3, <2>1, <2>3 DEF DiscTypeOK
    <3>2. CloseInv'
      BY <1>3, <2>1, <2>3 DEF CloseInv
    <3> QED
      BY <1>2, <3>1, <3>2 DEF DiscInv
  <2> QED
    BY <1>5, <2>2, <2>3 DEF CloseNext
<1> QED
  BY <1>4, <1>5

LEMMA DiscStep == DiscInv /\ [DiscNext]_discVars => DiscInv'
<1> SUFFICES ASSUME DiscInv, [DiscNext]_discVars PROVE DiscInv'
  OBVIOUS
<1>1. CASE UNCHANGED discVars
  BY <1>1 DEF discVars, DiscInv, DiscTypeOK, LockInv, CallerInv, MapInv, ListInv, Listed,
              CloseInv
<1>2. CASE DiscNext
  BY <1>2, ClientKeepsTypes, ClientKeepsLock, ClientKeepsMap, CloseKeepsAll
  DEF DiscNext, DiscInv
<1> QED
  BY <1>1, <1>2

LEMMA DiscoveryInvariant == DiscSpec => []DiscInv
BY InitDiscovery, DiscStep, PTL DEF DiscSpec
-----------------------------------------------------------------------------
(* However many callers miss a service in the map at the same time, one of   *)
(* them starts a provider for it and the others find that one.              *)
THEOREM OneProviderPerServiceAlways == DiscSpec => []OneProviderPerService
<1>1. DiscInv => OneProviderPerService
  <2> SUFFICES ASSUME DiscInv, NEW s \in Services
               PROVE  Cardinality({p \in started : p[2] = s}) <= 1
    BY DEF OneProviderPerService
  <2> DEFINE mine == {p \in started : p[2] = s}
  <2>1. ASSUME NEW p \in mine, NEW q \in mine PROVE p = q
    <3>1. p # NoProvider /\ q # NoProvider
      BY DiscoveryAssumption DEF DiscInv, DiscTypeOK, Providers
    <3>2. ASSUME NEW c \in Clients, discPc[c] \in Building, NEW r \in mine, provider[c] = r
          PROVE  providers[s] = NoProvider /\ discPc[c] \in Inside
      BY <3>2 DEF DiscInv, CallerInv, Inside, Building
    <3>3. CASE providers[s] # NoProvider
      BY <3>2, <3>3 DEF DiscInv, MapInv
    <3>4. CASE providers[s] = NoProvider
      <4>1. PICK c \in Clients : discPc[c] \in Building /\ provider[c] = p
        BY <3>1, <3>4 DEF DiscInv, MapInv
      <4>2. PICK d \in Clients : discPc[d] \in Building /\ provider[d] = q
        BY <3>1, <3>4 DEF DiscInv, MapInv
      <4>3. c = d
        BY <3>2, <4>1, <4>2, OneInside
      <4> QED
        BY <4>1, <4>2, <4>3
    <3> QED
      BY <3>3, <3>4
  <2>2. CASE mine = {}
    <3>1. Cardinality(mine) = 0
      BY <2>2, FS_EmptySet
    <3> QED
      BY <3>1
  <2>3. CASE mine # {}
    <3>1. PICK p \in mine : TRUE
      BY <2>3
    <3>2. mine = {p}
      BY <2>1, <3>1
    <3>3. Cardinality(mine) = 1
      BY <3>2, FS_Singleton
    <3> QED
      BY <3>3
  <2> QED
    BY <2>2, <2>3
<1> QED
  BY <1>1, DiscoveryInvariant, PTL

(* Whichever look found it, the provider that a caller uses belongs to the   *)
(* service it asked for and has been started.                              *)
THEOREM UsesStartedProviderAlways == DiscSpec => []UsesStartedProvider
<1>1. DiscInv => UsesStartedProvider
  BY DEF DiscInv, CallerInv, UsesStartedProvider, Building
<1> QED
  BY <1>1, DiscoveryInvariant, PTL

(* A close that returned has closed all that was started, if no caller put a *)
(* provider on the list while or after it went through.                     *)
THEOREM CloseIsCompleteAlways == DiscSpec => []CloseIsComplete
<1>1. DiscInv => CloseIsComplete
  <2> SUFFICES ASSUME DiscInv, closing = "returned", closeableList = toClose,
                      \A c \in Clients : discPc[c] \notin {"add"}, NEW p \in started
               PROVE  p \in closedOnes
    BY DEF CloseIsComplete
  <2>1. PICK i \in DOMAIN toClose : toClose[i] = p
    BY DEF DiscInv, ListInv, Listed
  <2>2. cursor = Len(toClose) /\ DOMAIN toClose = 1 .. cursor
    BY LenProperties DEF DiscInv, DiscTypeOK, CloseInv
  <2> QED
    BY <2>1, <2>2 DEF DiscInv, CloseInv
<1> QED
  BY <1>1, DiscoveryInvariant, PTL

(* The cache of providers keeps its three promises, for any number of       *)
(* callers and services.                                                   *)
THEOREM ProvidersAreKeptAlways == DiscSpec => []ProvidersAreKept
<1>1. OneProviderPerService /\ UsesStartedProvider /\ CloseIsComplete
        => ProvidersAreKept
  BY DEF ProvidersAreKept
<1> QED
  BY <1>1, OneProviderPerServiceAlways, UsesStartedProviderAlways,
     CloseIsCompleteAlways, PTL

-----------------------------------------------------------------------------
(* TaskJobs: the map of jobs is a true account of the schedule.             *)

(* The calls that may still schedule a future.                              *)
Pending == {c \in Callers : jobPc[c] \in {"look", "schedule"}}

(* Call c works on name n.                                                  *)
On(c, n) == jobPc[c] # "idle" /\ NameOf[job[c]] = n

(* No call is past the lookup of name n.                                    *)
Settled(n) == \A c \in Callers : On(c, n) => jobPc[c] = "look"

(* Futures are numbered one by one, and calls are counted before them.      *)
IdInv ==
    /\ IsFiniteSet(futures)
    /\ \A f \in futures : f.id \in 1 .. Cardinality(futures)
    /\ \A f, g \in futures : f.id = g.id => f = g
    /\ IsFiniteSet(Pending) /\ Cardinality(futures) + Cardinality(Pending) <= jobCalls

(* What calls and beans hold belongs to their name, and the future between  *)
(* schedule and put is in nobody else's hands.                              *)
HandInv ==
    /\ \A c \in Callers : jobPc[c] # "idle" =>
          job[c] \in Beans /\ (old[c] # NoBean => NameOf[old[c]] = NameOf[job[c]])
    /\ \A c \in Callers : made[c] # 0 <=> jobPc[c] = "store"
    /\ \A c \in Callers : jobPc[c] = "store" =>
          \E f \in futures : f.id = made[c] /\ f.name = NameOf[job[c]] /\ f.plan = plan[job[c]]
    /\ \A c, d \in Callers : made[c] # 0 /\ made[c] = made[d] => c = d
    /\ \A c \in Callers, b \in Beans : made[c] # 0 => future[b] # made[c]
    /\ \A b \in Beans : future[b] # 0 =>
          \E f \in futures : f.id = future[b] /\ f.name = NameOf[b]
    /\ \A n \in JobNames : jobMap[n] # NoBean => NameOf[jobMap[n]] = n

(* A call whose name is not in race is alone on it, and what it found in    *)
(* the map is still there.                                                  *)
AloneInv ==
    \A c \in Callers : jobPc[c] # "idle" /\ NameOf[job[c]] \notin race =>
        /\ old[c] = jobMap[NameOf[job[c]]]
        /\ \A d \in Callers : On(d, NameOf[job[c]]) => c = d

(* A future that runs is in the map, or in the hands of the call that has   *)
(* scheduled it.                                                            *)
AliveInv ==
    \A f \in alive : f.name \notin race =>
        /\ \A c \in Callers : On(c, f.name) =>
              jobPc[c] = "look" \/ (jobPc[c] = "store" /\ made[c] = f.id)
        /\ Settled(f.name) => jobMap[f.name] # NoBean /\ future[jobMap[f.name]] = f.id

(* What was scheduled runs, with the plan of its bean.                      *)
PlanInv ==
    /\ \A c \in Callers : jobPc[c] = "store" /\ NameOf[job[c]] \notin race \cup ended =>
          \E f \in alive : f.id = made[c]
    /\ \A n \in JobNames \ (race \cup ended) : jobMap[n] # NoBean /\ Settled(n) =>
          \E f \in alive : /\ f.name = n /\ f.id = future[jobMap[n]]
                           /\ jobMap[n] \notin reused => f.plan = plan[jobMap[n]]

TaskInv == TaskTypeOK /\ IdInv /\ HandInv /\ AloneInv /\ AliveInv /\ PlanInv

TaskSpec == (\E p \in Plans : TaskInit(p)) /\ [][TaskNext]_jobVars
-----------------------------------------------------------------------------
LEMMA InitTask == ASSUME NEW p \in Plans, TaskInit(p) PROVE TaskInv
<1>1. TaskTypeOK
  <2>1. 0 \in 0 .. MaxJobCalls
    BY JobAssumption
  <2> QED
    BY <2>1 DEF TaskInit, TaskTypeOK
<1>2. IdInv
  <2>1. Pending = {}
    BY DEF TaskInit, Pending
  <2> QED
    BY <2>1, FS_EmptySet DEF TaskInit, IdInv
<1>3. HandInv /\ AloneInv /\ AliveInv /\ PlanInv
  BY DEF TaskInit, HandInv, AloneInv, AliveInv, PlanInv
<1> QED
  BY <1>1, <1>2, <1>3 DEF TaskInv

(* The parts of the type that the steps below need.                         *)
LEMMA TaskTypes ==
    ASSUME TaskInv
    PROVE  /\ jobMap \in [JobNames -> Beans \cup {NoBean}] /\ plan \in [Beans -> Plans]
           /\ future \in [Beans -> Nat] /\ alive \subseteq futures
           /\ jobPc \in [Callers -> {"idle", "look", "schedule", "store"}]
           /\ job \in [Callers -> Beans \cup {NoBean}] /\ old \in [Callers -> Beans \cup {NoBean}]
           /\ made \in [Callers -> Nat] /\ jobCalls \in Nat
           /\ NameOf \in [Beans -> JobNames] /\ NoBean \notin Beans
           /\ Cardinality(futures) \in Nat
           /\ \A f \in futures : f.name \in JobNames /\ f.id \in Nat /\ f.id # 0
<1>1. Cardinality(futures) \in Nat
  BY FS_CardinalityType DEF TaskInv, IdInv
<1>2. \A f \in futures : f.name \in JobNames /\ f.id \in Nat /\ f.id # 0
  BY <1>1 DEF TaskInv, TaskTypeOK, IdInv
<1>3. \A x \in 0 .. MaxJobCalls : x \in Nat
  BY JobAssumption
<1>4. future \in [Beans -> Nat] /\ made \in [Callers -> Nat] /\ jobCalls \in Nat
  BY <1>3 DEF TaskInv, TaskTypeOK
<1> QED
  BY <1>1, <1>2, <1>4, JobAssumption DEF TaskInv, TaskTypeOK

(* The future of a bean has the bean's name.                                *)
LEMMA FutureOfName ==
    ASSUME TaskInv, NEW b \in Beans, NEW f \in FutureOf(b)
    PROVE  f \in futures /\ f.name = NameOf[b] /\ f.id = future[b]
BY TaskTypes DEF FutureOf, TaskInv, HandInv, IdInv

(* What a call holds while it is under way.                                 *)
LEMMA CallHolds ==
    ASSUME TaskInv, NEW c \in Callers, jobPc[c] # "idle"
    PROVE  /\ job[c] \in Beans /\ NameOf[job[c]] \in JobNames
           /\ old[c] # NoBean => old[c] \in Beans /\ NameOf[old[c]] = NameOf[job[c]]
BY TaskTypes DEF TaskInv, HandInv

(* Schedule takes the next number.                                          *)
NewFuture(c) == [id |-> Cardinality(futures) + 1, name |-> NameOf[job[c]], plan |-> plan[job[c]]]

LEMMA ScheduleAdds ==
    ASSUME TaskInv, NEW c \in Callers, Schedule(c)
    PROVE  /\ NewFuture(c) \notin futures /\ IsFiniteSet(futures')
           /\ futures' = futures \cup {NewFuture(c)} /\ alive' = alive \cup {NewFuture(c)}
           /\ Cardinality(futures') = Cardinality(futures) + 1
           /\ made' = [made EXCEPT ![c] = Cardinality(futures) + 1]
           /\ Cardinality(futures) + 1 \in FutureIds
           /\ IdInv'
<1>0. /\ IsFiniteSet(futures) /\ Cardinality(futures) \in Nat /\ jobCalls \in 0 .. MaxJobCalls
      /\ IsFiniteSet(Pending) /\ Cardinality(Pending) \in Nat
      /\ jobPc \in [Callers -> {"idle", "look", "schedule", "store"}]
  BY FS_CardinalityType DEF TaskInv, IdInv, TaskTypeOK
<1>1. /\ futures' = futures \cup {NewFuture(c)} /\ alive' = alive \cup {NewFuture(c)}
      /\ made' = [made EXCEPT ![c] = Cardinality(futures) + 1]
  BY DEF Schedule, NewFuture
<1>2. NewFuture(c).id = Cardinality(futures) + 1
  BY DEF NewFuture
<1>3. NewFuture(c) \notin futures
  BY <1>0, <1>2 DEF TaskInv, IdInv
<1>4. IsFiniteSet(futures') /\ Cardinality(futures') = Cardinality(futures) + 1
  BY <1>0, <1>1, <1>3, FS_AddElement
<1>5. c \in Pending /\ Pending' = Pending \ {c}
  BY <1>0 DEF Schedule, Pending
<1>6. /\ IsFiniteSet(Pending') /\ Cardinality(Pending') = Cardinality(Pending) - 1
      /\ Cardinality(Pending') \in Nat
  BY <1>0, <1>5, FS_RemoveElement, FS_CardinalityType
<1>7. Cardinality(futures) + 1 \in FutureIds /\ jobCalls' = jobCalls
  BY <1>0, <1>6, JobAssumption DEF TaskInv, IdInv, FutureIds, Schedule
<1>8. IdInv'
  <2>1. \A f \in futures' : f.id \in 1 .. Cardinality(futures')
    BY <1>0, <1>1, <1>2, <1>4 DEF TaskInv, IdInv
  <2>2. \A f, g \in futures' : f.id = g.id => f = g
    BY <1>0, <1>1, <1>2 DEF TaskInv, IdInv
  <2>3. Cardinality(futures') + Cardinality(Pending') <= jobCalls'
    BY <1>0, <1>4, <1>6, <1>7 DEF TaskInv, IdInv
  <2> QED
    BY <1>4, <1>6, <2>1, <2>2, <2>3 DEF IdInv
<1> QED
  BY <1>1, <1>3, <1>4, <1>7, <1>8

LEMMA TaskKeepsIds ==
    ASSUME TaskInv, TaskNext
    PROVE  IdInv'
<1>0. /\ IdInv /\ IsFiniteSet(Pending) /\ Cardinality(Pending) \in Nat /\ Cardinality(futures) \in Nat
      /\ jobPc \in [Callers -> {"idle", "look", "schedule", "store"}] /\ jobCalls \in Nat
  BY FS_CardinalityType, TaskTypes DEF TaskInv, IdInv
<1>1. ASSUME NEW c \in Callers, NEW b \in Beans, Add(c, b) PROVE IdInv'
  <2>1. Pending' = Pending \cup {c} /\ c \notin Pending
    BY <1>0, <1>1 DEF Add, Pending
  <2>2. IsFiniteSet(Pending') /\ Cardinality(Pending') = Cardinality(Pending) + 1
    BY <1>0, <2>1, FS_AddElement
  <2> QED
    BY <1>0, <1>1, <2>2 DEF Add, IdInv
<1>2. ASSUME NEW c \in Callers, KeepJob(c) \/ Refuse(c) PROVE IdInv'
  <2>1. Pending' = Pending \ {c}
    BY <1>0, <1>2 DEF KeepJob, Refuse, Return, Pending
  <2>2. IsFiniteSet(Pending') /\ Cardinality(Pending') <= Cardinality(Pending)
        /\ Cardinality(Pending') \in Nat
    BY <1>0, <2>1, FS_RemoveElement, FS_CardinalityType
  <2> QED
    BY <1>0, <1>2, <2>2 DEF KeepJob, Refuse, IdInv
<1>3. ASSUME NEW c \in Callers, ReplaceJob(c) \/ Store(c) PROVE IdInv'
  <2>1. Pending' = Pending
    BY <1>0, <1>3 DEF ReplaceJob, Store, Return, Pending
  <2> QED
    BY <1>0, <1>3, <2>1 DEF ReplaceJob, Store, IdInv
<1>4. ASSUME NEW c \in Callers, Schedule(c) PROVE IdInv'
  BY <1>4, ScheduleAdds
<1>5. ASSUME NEW b \in Beans, NEW p \in Plans, ChangeBean(b, p) PROVE IdInv'
  BY <1>0, <1>5 DEF ChangeBean, IdInv, Pending
<1>6. ASSUME NEW n \in JobNames, CancelJob(n) PROVE IdInv'
  BY <1>0, <1>6 DEF CancelJob, IdInv, Pending
<1>7. ASSUME NEW f \in alive, RunOnce(f) PROVE IdInv'
  BY <1>0, <1>7 DEF RunOnce, IdInv, Pending
<1> QED
  BY <1>1, <1>2, <1>3, <1>4, <1>5, <1>6, <1>7 DEF TaskNext

LEMMA TaskKeepsTypes ==
    ASSUME TaskInv, TaskNext
    PROVE  TaskTypeOK'
<1> USE DEF TaskTypeOK, Return
<1>0. TaskTypeOK /\ (\A b \in Beans : NameOf[b] \in JobNames)
  BY JobAssumption DEF TaskInv
<1>h. \A c \in Callers : jobPc[c] # "idle" => job[c] \in Beans /\ NameOf[job[c]] \in JobNames
  BY CallHolds
<1>1. ASSUME NEW c \in Callers, NEW b \in Beans, Add(c, b) PROVE TaskTypeOK'
  BY <1>0, <1>1, JobAssumption DEF Add
<1>2. ASSUME NEW c \in Callers, KeepJob(c) \/ Refuse(c) \/ ReplaceJob(c) PROVE TaskTypeOK'
  BY <1>0, <1>h, <1>2, JobAssumption DEF KeepJob, Refuse, ReplaceJob
<1>3. ASSUME NEW c \in Callers, Schedule(c) PROVE TaskTypeOK'
  <2>1. /\ futures' = futures \cup {NewFuture(c)} /\ alive' = alive \cup {NewFuture(c)}
        /\ made' = [made EXCEPT ![c] = Cardinality(futures) + 1]
        /\ Cardinality(futures) + 1 \in FutureIds
    BY <1>3, ScheduleAdds
  <2>2. NewFuture(c) \in [id : FutureIds, name : JobNames, plan : Plans]
    BY <1>0, <1>h, <1>3, <2>1 DEF Schedule, NewFuture
  <2>3. Cardinality(futures) + 1 \in 0 .. MaxJobCalls
    BY <2>1 DEF FutureIds
  <2> QED
    BY <1>0, <1>3, <2>1, <2>2, <2>3 DEF Schedule
<1>4. ASSUME NEW c \in Callers, Store(c) PROVE TaskTypeOK'
  <2>1. 0 \in 0 .. MaxJobCalls
    BY JobAssumption
  <2> QED
    BY <1>0, <1>h, <1>4, <2>1 DEF Store
<1>5. ASSUME NEW b \in Beans, NEW p \in Plans, ChangeBean(b, p) PROVE TaskTypeOK'
  BY <1>0, <1>5 DEF ChangeBean
<1>6. ASSUME NEW n \in JobNames, CancelJob(n) PROVE TaskTypeOK'
  BY <1>0, <1>6, JobAssumption DEF CancelJob
<1>7. ASSUME NEW f \in alive, RunOnce(f) PROVE TaskTypeOK'
  <2>1. f.name \in JobNames
    BY <1>0
  <2> QED
    BY <1>0, <1>7, <2>1 DEF RunOnce
<1> QED
  BY <1>1, <1>2, <1>3, <1>4, <1>5, <1>6, <1>7 DEF TaskNext

LEMMA TaskKeepsHands ==
    ASSUME TaskInv, TaskNext
    PROVE  HandInv'
<1> USE TaskTypes DEF Return
<1>0. HandInv /\ IdInv
  BY DEF TaskInv
<1>1. ASSUME NEW c \in Callers, NEW b \in Beans, Add(c, b) PROVE HandInv'
  BY <1>0, <1>1 DEF Add, HandInv
<1>2. ASSUME NEW c \in Callers, KeepJob(c) \/ Refuse(c) \/ ReplaceJob(c) PROVE HandInv'
  BY <1>0, <1>2 DEF KeepJob, Refuse, ReplaceJob, HandInv
<1>3. ASSUME NEW c \in Callers, Schedule(c) PROVE HandInv'
  <2> DEFINE id == Cardinality(futures) + 1
  <2>1. /\ futures' = futures \cup {NewFuture(c)} /\ made' = [made EXCEPT ![c] = id]
        /\ NewFuture(c).id = id /\ NewFuture(c).name = NameOf[job[c]]
        /\ NewFuture(c).plan = plan[job[c]] /\ id # 0 /\ id \in Nat
        /\ \A f \in futures : f.id # id
    <3>1. Cardinality(futures) \in Nat /\ \A f \in futures : f.id \in 1 .. Cardinality(futures)
      BY <1>0 DEF IdInv
    <3>2. id # 0 /\ id \in Nat /\ \A f \in futures : f.id # id
      BY <3>1
    <3> QED
      BY <1>3, <3>2, ScheduleAdds DEF NewFuture
  <2>2. /\ \A d \in Callers : made[d] # id /\ \A b \in Beans : future[b] # id
    BY <1>0, <2>1 DEF HandInv
  <2>3. UNCHANGED <<jobMap, plan, future, job, old>> /\ jobPc' = [jobPc EXCEPT ![c] = "store"]
        /\ jobPc[c] = "schedule"
    BY <1>3 DEF Schedule
  <2> HIDE DEF id
  <2>4. /\ \A d \in Callers : jobPc'[d] # "idle" =>
              job'[d] \in Beans /\ (old'[d] # NoBean => NameOf[old'[d]] = NameOf[job'[d]])
        /\ \A d \in Callers : made'[d] # 0 <=> jobPc'[d] = "store"
        /\ \A n \in JobNames : jobMap'[n] # NoBean => NameOf[jobMap'[n]] = n
    BY <1>0, <2>1, <2>3 DEF HandInv
  <2>5. \A d \in Callers : jobPc'[d] = "store" =>
          \E f \in futures' : f.id = made'[d] /\ f.name = NameOf[job'[d]] /\ f.plan = plan'[job'[d]]
    BY <1>0, <2>1, <2>3 DEF HandInv
  <2>6. \A d, e \in Callers : made'[d] # 0 /\ made'[d] = made'[e] => d = e
    BY <1>0, <2>1, <2>2 DEF HandInv
  <2>7. \A d \in Callers, b \in Beans : made'[d] # 0 => future'[b] # made'[d]
    BY <1>0, <2>1, <2>2, <2>3 DEF HandInv
  <2>8. \A b \in Beans : future'[b] # 0 =>
          \E f \in futures' : f.id = future'[b] /\ f.name = NameOf[b]
    BY <1>0, <2>1, <2>3 DEF HandInv
  <2> QED
    BY <2>4, <2>5, <2>6, <2>7, <2>8 DEF HandInv
<1>4. ASSUME NEW c \in Callers, Store(c) PROVE HandInv'
  <2>1. /\ job[c] \in Beans /\ jobPc[c] = "store" /\ made[c] # 0
        /\ \E f \in futures : f.id = made[c] /\ f.name = NameOf[job[c]] /\ f.plan = plan[job[c]]
    BY <1>0, <1>4 DEF Store, HandInv
  <2>2. /\ jobPc' = [jobPc EXCEPT ![c] = "idle"] /\ job' = [job EXCEPT ![c] = NoBean]
        /\ old' = [old EXCEPT ![c] = NoBean] /\ made' = [made EXCEPT ![c] = 0]
        /\ future' = [future EXCEPT ![job[c]] = made[c]]
        /\ jobMap' = [jobMap EXCEPT ![NameOf[job[c]]] = job[c]]
        /\ UNCHANGED <<plan, futures>>
    BY <1>4 DEF Store
  <2>3. \A d, e \in Callers : made[d] # 0 /\ made[d] = made[e] => d = e
    BY <1>0 DEF HandInv
  <2>4. /\ \A d \in Callers : jobPc'[d] # "idle" =>
              job'[d] \in Beans /\ (old'[d] # NoBean => NameOf[old'[d]] = NameOf[job'[d]])
        /\ \A d \in Callers : made'[d] # 0 <=> jobPc'[d] = "store"
        /\ \A n \in JobNames : jobMap'[n] # NoBean => NameOf[jobMap'[n]] = n
    BY <1>0, <2>1, <2>2 DEF HandInv
  <2>5. \A d \in Callers : jobPc'[d] = "store" =>
          \E f \in futures' : f.id = made'[d] /\ f.name = NameOf[job'[d]] /\ f.plan = plan'[job'[d]]
    BY <1>0, <2>2 DEF HandInv
  <2>6. \A d, e \in Callers : made'[d] # 0 /\ made'[d] = made'[e] => d = e
    BY <2>2, <2>3
  <2>7. \A d \in Callers, b \in Beans : made'[d] # 0 => future'[b] # made'[d]
    BY <1>0, <2>1, <2>2, <2>3 DEF HandInv
  <2>8. \A b \in Beans : future'[b] # 0 =>
          \E f \in futures' : f.id = future'[b] /\ f.name = NameOf[b]
    BY <1>0, <2>1, <2>2 DEF HandInv
  <2> QED
    BY <2>4, <2>5, <2>6, <2>7, <2>8 DEF HandInv
<1>5. ASSUME NEW b \in Beans, NEW p \in Plans, ChangeBean(b, p) PROVE HandInv'
  BY <1>0, <1>5 DEF ChangeBean, Busy, HandInv
<1>6. ASSUME NEW n \in JobNames, CancelJob(n) PROVE HandInv'
  BY <1>0, <1>6 DEF CancelJob, HandInv
<1>7. ASSUME NEW f \in alive, RunOnce(f) PROVE HandInv'
  BY <1>0, <1>7 DEF RunOnce, HandInv
<1> QED
  BY <1>1, <1>2, <1>3, <1>4, <1>5, <1>6, <1>7 DEF TaskNext

LEMMA TaskKeepsAlone ==
    ASSUME TaskInv, TaskNext
    PROVE  AloneInv'
<1> USE TaskTypes DEF Return, AloneInv, On
<1>0. AloneInv /\ \A c \in Callers : jobPc[c] # "idle" => job[c] \in Beans
  BY DEF TaskInv, HandInv
<1>1. ASSUME NEW c \in Callers, NEW b \in Beans, Add(c, b) PROVE AloneInv'
  BY <1>0, <1>1 DEF Add, Overlaps
<1>2. ASSUME NEW c \in Callers, KeepJob(c) \/ Refuse(c) \/ ReplaceJob(c) PROVE AloneInv'
  BY <1>0, <1>2 DEF KeepJob, Refuse, ReplaceJob
<1>3. ASSUME NEW c \in Callers, Schedule(c) PROVE AloneInv'
  BY <1>0, <1>3 DEF Schedule
<1>4. ASSUME NEW c \in Callers, Store(c) PROVE AloneInv'
  BY <1>0, <1>4 DEF Store
<1>5. ASSUME NEW b \in Beans, NEW p \in Plans, ChangeBean(b, p) PROVE AloneInv'
  BY <1>0, <1>5 DEF ChangeBean
<1>6. ASSUME NEW n \in JobNames, CancelJob(n) PROVE AloneInv'
  BY <1>0, <1>6 DEF CancelJob
<1>7. ASSUME NEW f \in alive, RunOnce(f) PROVE AloneInv'
  BY <1>0, <1>7 DEF RunOnce
<1> QED
  BY <1>1, <1>2, <1>3, <1>4, <1>5, <1>6, <1>7 DEF TaskNext

(* A call that has cancelled the old future leaves none, and the one that   *)
(* it schedules is in the map when it returns.                              *)
LEMMA TaskKeepsAlive ==
    ASSUME TaskInv, TaskNext
    PROVE  AliveInv'
<1> USE TaskTypes DEF Return, AliveInv, On, Settled
<1>0. /\ AliveInv /\ AloneInv
      /\ \A c \in Callers : jobPc[c] # "idle" => job[c] \in Beans /\ NameOf[job[c]] \in JobNames
      /\ \A n \in JobNames : jobMap[n] # NoBean => NameOf[jobMap[n]] = n
  BY CallHolds DEF TaskInv, HandInv
<1>1. ASSUME NEW c \in Callers, NEW b \in Beans, Add(c, b) PROVE AliveInv'
  BY <1>0, <1>1 DEF Add, Overlaps
<1>2. ASSUME NEW c \in Callers, KeepJob(c) \/ Refuse(c) PROVE AliveInv'
  BY <1>0, <1>2 DEF KeepJob, Refuse
<1>3. ASSUME NEW c \in Callers, ReplaceJob(c) PROVE AliveInv'
  <2>1. ASSUME NEW f \in alive', f.name \notin race, f.name = NameOf[job[c]] PROVE FALSE
    <3>1. f \in alive /\ f \in futures /\ jobPc[c] = "look"
      BY <1>3, <2>1 DEF ReplaceJob
    <3>2. Settled(f.name) /\ old[c] = jobMap[f.name]
      BY <1>0, <2>1, <3>1 DEF AloneInv
    <3>3. old[c] # NoBean /\ f \in FutureOf(old[c])
      BY <1>0, <2>1, <3>1, <3>2 DEF FutureOf
    <3> QED
      BY <1>3, <2>1, <3>3 DEF ReplaceJob
  <2>2. /\ alive' \subseteq alive /\ UNCHANGED <<jobMap, future, job, made, race>>
        /\ jobPc' = [jobPc EXCEPT ![c] = "schedule"] /\ jobPc[c] = "look"
    BY <1>3 DEF ReplaceJob
  <2> QED
    BY <1>0, <2>1, <2>2
<1>4. ASSUME NEW c \in Callers, Schedule(c) PROVE AliveInv'
  <2>1. /\ alive' = alive \cup {NewFuture(c)}
        /\ made' = [made EXCEPT ![c] = Cardinality(futures) + 1]
        /\ NewFuture(c).id = Cardinality(futures) + 1 /\ NewFuture(c).name = NameOf[job[c]]
    BY <1>4, ScheduleAdds DEF NewFuture
  <2>2. /\ UNCHANGED <<jobMap, future, job, race>> /\ jobPc[c] = "schedule"
        /\ jobPc' = [jobPc EXCEPT ![c] = "store"]
    BY <1>4 DEF Schedule
  <2>3. ASSUME NEW f \in alive, f.name \notin race PROVE f.name # NameOf[job[c]]
    BY <1>0, <2>2, <2>3
  <2>4. NameOf[job[c]] \notin race =>
            \A d \in Callers : jobPc[d] # "idle" /\ NameOf[job[d]] = NameOf[job[c]] => d = c
    BY <1>0, <2>2 DEF AloneInv
  <2>5. ASSUME NEW f \in alive, f.name \notin race
        PROVE  /\ \A d \in Callers : On(d, f.name)' =>
                     jobPc'[d] = "look" \/ (jobPc'[d] = "store" /\ made'[d] = f.id)
               /\ Settled(f.name)' => jobMap'[f.name] # NoBean /\ future'[jobMap'[f.name]] = f.id
    BY <1>0, <2>1, <2>2, <2>3, <2>5
  <2>6. NameOf[job[c]] \notin race =>
        /\ \A d \in Callers : On(d, NameOf[job[c]])' =>
              jobPc'[d] = "look" \/ (jobPc'[d] = "store" /\ made'[d] = NewFuture(c).id)
        /\ ~Settled(NameOf[job[c]])'
    BY <1>0, <2>1, <2>2, <2>4
  <2> QED
    BY <2>1, <2>2, <2>5, <2>6
<1>5. ASSUME NEW c \in Callers, Store(c) PROVE AliveInv'
  <2>1. /\ jobPc[c] = "store" /\ job[c] \in Beans /\ NameOf[job[c]] \in JobNames
        /\ jobPc' = [jobPc EXCEPT ![c] = "idle"] /\ job' = [job EXCEPT ![c] = NoBean]
        /\ made' = [made EXCEPT ![c] = 0]
        /\ future' = [future EXCEPT ![job[c]] = made[c]]
        /\ jobMap' = [jobMap EXCEPT ![NameOf[job[c]]] = job[c]]
        /\ UNCHANGED <<alive, race>>
    BY <1>0, <1>5 DEF Store
  <2>2. ASSUME NEW f \in alive, f.name \notin race, f.name = NameOf[job[c]]
        PROVE  /\ \A d \in Callers : ~On(d, f.name)'
               /\ jobMap'[f.name] # NoBean /\ future'[jobMap'[f.name]] = f.id
    <3>1. made[c] = f.id
      BY <1>0, <2>1, <2>2
    <3>2. \A d \in Callers : jobPc[d] # "idle" /\ NameOf[job[d]] = f.name => d = c
      BY <1>0, <2>1, <2>2 DEF AloneInv
    <3> QED
      BY <1>0, <2>1, <2>2, <3>1, <3>2
  <2>3. ASSUME NEW f \in alive, f.name \notin race, f.name # NameOf[job[c]]
        PROVE  /\ \A d \in Callers : On(d, f.name)' =>
                     jobPc'[d] = "look" \/ (jobPc'[d] = "store" /\ made'[d] = f.id)
               /\ Settled(f.name)' => jobMap'[f.name] # NoBean /\ future'[jobMap'[f.name]] = f.id
    <3>1. f.name \in JobNames
      BY TaskTypes
    <3>2. /\ jobMap'[f.name] = jobMap[f.name]
          /\ jobMap[f.name] # NoBean => future'[jobMap[f.name]] = future[jobMap[f.name]]
      BY <1>0, <2>1, <2>3, <3>1
    <3>3. \A d \in Callers : On(d, f.name)' <=> On(d, f.name)
      BY <2>1, <2>3
    <3>4. \A d \in Callers : On(d, f.name) => jobPc'[d] = jobPc[d] /\ made'[d] = made[d]
      BY <2>1, <2>3
    <3> QED
      BY <1>0, <2>3, <3>2, <3>3, <3>4
  <2> QED
    BY <2>1, <2>2, <2>3
<1>6. ASSUME NEW b \in Beans, NEW p \in Plans, ChangeBean(b, p) PROVE AliveInv'
  BY <1>0, <1>6 DEF ChangeBean
<1>7. ASSUME NEW n \in JobNames, CancelJob(n) PROVE AliveInv'
  BY <1>0, <1>7 DEF CancelJob
<1>8. ASSUME NEW f \in alive, RunOnce(f) PROVE AliveInv'
  BY <1>0, <1>8 DEF RunOnce
<1> QED
  BY <1>1, <1>2, <1>3, <1>4, <1>5, <1>6, <1>7, <1>8 DEF TaskNext

(* The future that runs for a settled name.                                 *)
Planned(n) == \E f \in alive : /\ f.name = n /\ f.id = future[jobMap[n]]
                               /\ jobMap[n] \notin reused => f.plan = plan[jobMap[n]]

(* What a call has scheduled runs until it returns, and what the map says   *)
(* runs until the name is cancelled or over.                                *)
LEMMA TaskKeepsPlan ==
    ASSUME TaskInv, TaskNext
    PROVE  PlanInv'
<1> USE TaskTypes DEF Return, On, Settled
<1> DEFINE Made(c) == \E f \in alive : f.id = made[c]
<1>0. /\ AloneInv /\ AliveInv /\ HandInv /\ IdInv
      /\ \A c \in Callers : jobPc[c] # "idle" => job[c] \in Beans /\ NameOf[job[c]] \in JobNames
      /\ \A n \in JobNames : jobMap[n] # NoBean => jobMap[n] \in Beans /\ NameOf[jobMap[n]] = n
  BY CallHolds DEF TaskInv, HandInv
<1>p. \A c \in Callers : jobPc[c] = "store" /\ NameOf[job[c]] \notin race \cup ended => Made(c)
  BY DEF TaskInv, PlanInv
<1>r. \A n \in JobNames \ (race \cup ended) : jobMap[n] # NoBean /\ Settled(n) => Planned(n)
  BY DEF TaskInv, PlanInv, Planned
<1>q. ASSUME \A c \in Callers :
                jobPc'[c] = "store" /\ NameOf[job'[c]] \notin race' \cup ended' => Made(c)',
             \A n \in JobNames \ (race' \cup ended') :
                jobMap'[n] # NoBean /\ Settled(n)' => Planned(n)'
      PROVE  PlanInv'
  BY <1>q DEF PlanInv, Planned
<1> HIDE DEF Made
<1>1. ASSUME NEW c \in Callers, NEW b \in Beans, Add(c, b) PROVE PlanInv'
  <2>1. /\ \A d \in Callers : Made(d)' <=> Made(d)
        /\ \A n \in JobNames : Planned(n)' <=> Planned(n)
    BY <1>1 DEF Add, Made, Planned
  <2>2. ASSUME NEW n \in JobNames \ race', Settled(n)' PROVE Settled(n)
    BY <1>0, <1>1, <2>2 DEF Add
  <2>3. ASSUME NEW d \in Callers, jobPc'[d] = "store"
        PROVE  jobPc[d] = "store" /\ job'[d] = job[d]
    BY <1>1, <2>3 DEF Add
  <2> QED
    BY <1>p, <1>q, <1>r, <1>1, <2>1, <2>2, <2>3 DEF Add
<1>2. ASSUME NEW c \in Callers, KeepJob(c) PROVE PlanInv'
  <2>1. /\ \A d \in Callers \ {c} : Made(d)' <=> Made(d)
        /\ \A n \in JobNames : Planned(n)' <=> Planned(n)
    BY <1>2 DEF KeepJob, Made, Planned
  <2>2. ASSUME NEW n \in JobNames, Settled(n)' PROVE Settled(n)
    BY <1>2, <2>2 DEF KeepJob
  <2>3. ASSUME NEW d \in Callers, jobPc'[d] = "store"
        PROVE  jobPc[d] = "store" /\ job'[d] = job[d] /\ d # c
    BY <1>2, <2>3 DEF KeepJob
  <2> QED
    BY <1>p, <1>q, <1>r, <1>2, <2>1, <2>2, <2>3 DEF KeepJob
<1>3. ASSUME NEW c \in Callers, Refuse(c) PROVE PlanInv'
  <2>1. /\ \A d \in Callers \ {c} : Made(d)' <=> Made(d)
        /\ \A n \in JobNames : Planned(n)' <=> Planned(n)
    BY <1>3 DEF Refuse, Made, Planned
  <2>2. ASSUME NEW n \in JobNames, n # NameOf[job[c]], Settled(n)' PROVE Settled(n)
    BY <1>3, <2>2 DEF Refuse
  <2>3. ASSUME NEW d \in Callers, jobPc'[d] = "store"
        PROVE  jobPc[d] = "store" /\ job'[d] = job[d] /\ d # c
    BY <1>3, <2>3 DEF Refuse
  <2>4. ASSUME NameOf[job[c]] \notin race' \cup ended' PROVE jobMap[NameOf[job[c]]] = NoBean
    BY <1>0, <1>3, <2>4 DEF Refuse, AloneInv
  <2>5. race' = race /\ ended \subseteq ended' /\ jobMap' = jobMap
    BY <1>3 DEF Refuse
  <2> QED
    BY <1>p, <1>q, <1>r, <2>1, <2>2, <2>3, <2>4, <2>5
<1>4. ASSUME NEW c \in Callers, ReplaceJob(c) PROVE PlanInv'
  <2>1. /\ jobPc[c] = "look" /\ jobPc' = [jobPc EXCEPT ![c] = "schedule"]
        /\ UNCHANGED <<jobMap, plan, future, job, made, race, reused, ended>>
    BY <1>4 DEF ReplaceJob
  <2>2. \A f \in alive : f \notin alive' =>
            old[c] \in Beans /\ f \in FutureOf(old[c]) /\ NameOf[old[c]] = NameOf[job[c]]
    BY <1>4, <2>1, CallHolds DEF ReplaceJob
  <2>3. \A f \in alive : f \notin alive' =>
            /\ f.name = NameOf[job[c]]
            /\ \A d \in Callers : made[d] # 0 => f.id # made[d]
    BY <1>0, <2>2, FutureOfName DEF HandInv
  <2>4. ASSUME NEW d \in Callers, jobPc'[d] = "store", Made(d) PROVE Made(d)'
    <3>1. made[d] # 0
      BY <1>0, <2>1, <2>4 DEF HandInv
    <3> QED
      BY <2>1, <2>3, <2>4, <3>1 DEF Made
  <2>5. ASSUME NEW n \in JobNames, n # NameOf[job[c]], Planned(n) PROVE Planned(n)'
    BY <2>1, <2>3, <2>5 DEF Planned
  <2>6. ASSUME NEW n \in JobNames, Settled(n)' PROVE n # NameOf[job[c]] /\ Settled(n)
    BY <2>1, <2>6
  <2> QED
    BY <1>p, <1>q, <1>r, <2>1, <2>4, <2>5, <2>6
<1>5. ASSUME NEW c \in Callers, Schedule(c) PROVE PlanInv'
  <2>1. /\ alive' = alive \cup {NewFuture(c)}
        /\ made' = [made EXCEPT ![c] = Cardinality(futures) + 1]
        /\ NewFuture(c).id = Cardinality(futures) + 1
    BY <1>5, ScheduleAdds DEF NewFuture
  <2>2. /\ UNCHANGED <<jobMap, plan, future, job, race, reused, ended>> /\ jobPc[c] = "schedule"
        /\ jobPc' = [jobPc EXCEPT ![c] = "store"]
    BY <1>5 DEF Schedule
  <2>3. Made(c)'
    BY <2>1 DEF Made
  <2>4. ASSUME NEW d \in Callers \ {c}, Made(d) PROVE Made(d)'
    BY <2>1, <2>4 DEF Made
  <2>5. ASSUME NEW n \in JobNames, Planned(n) PROVE Planned(n)'
    BY <2>1, <2>2, <2>5 DEF Planned
  <2>6. ASSUME NEW n \in JobNames, Settled(n)' PROVE Settled(n)
    BY <2>2, <2>6
  <2> QED
    BY <1>p, <1>q, <1>r, <2>2, <2>3, <2>4, <2>5, <2>6
<1>6. ASSUME NEW c \in Callers, Store(c) PROVE PlanInv'
  <2> SUFFICES ASSUME NEW b \in Beans, NEW m \in JobNames, b = job[c], m = NameOf[b]
               PROVE  PlanInv'
    BY <1>0, <1>6 DEF Store
  <2>1. /\ jobPc[c] = "store" /\ NameOf[job[c]] = m
        /\ jobPc' = [jobPc EXCEPT ![c] = "idle"] /\ job' = [job EXCEPT ![c] = NoBean]
        /\ made' = [made EXCEPT ![c] = 0]
        /\ future' = [future EXCEPT ![b] = made[c]]
        /\ jobMap' = [jobMap EXCEPT ![m] = b]
        /\ reused' = reused \ {b}
        /\ UNCHANGED <<plan, alive, race>>
    BY <1>0, <1>6 DEF Store
  <2>2. /\ Made(c) => ended' = ended \ {m}
        /\ ~Made(c) => ended' = ended
    BY <1>6 DEF Store, Made
  <2>3. \A d \in Callers \ {c} : Made(d)' <=> Made(d)
    BY <2>1 DEF Made
  <2>4. ASSUME NEW d \in Callers, jobPc'[d] = "store", NameOf[job'[d]] \notin race' \cup ended'
        PROVE  Made(d)'
    <3>1. d # c /\ jobPc[d] = "store" /\ job'[d] = job[d]
      BY <2>1, <2>4
    <3>2. NameOf[job[d]] # m
      BY <1>0, <2>1, <2>4, <3>1 DEF AloneInv
    <3>3. NameOf[job[d]] \notin race \cup ended
      BY <2>1, <2>2, <2>4, <3>1, <3>2
    <3> QED
      BY <1>p, <2>3, <3>1, <3>3
  <2>5. ASSUME m \notin race \cup ended' PROVE Planned(m)'
    <3>1. Made(c)
      BY <1>p, <2>1, <2>2, <2>5
    <3>2. PICK f \in alive : f.id = made[c]
      BY <3>1 DEF Made
    <3>3. f.name = m /\ f.plan = plan[b]
      BY <1>0, <2>1, <3>2 DEF HandInv, IdInv
    <3>4. jobMap'[m] = b /\ future'[b] = made[c]
      BY <2>1
    <3>5. \E g \in alive' : /\ g.name = m /\ g.id = future'[jobMap'[m]]
                            /\ jobMap'[m] \notin reused' => g.plan = plan'[jobMap'[m]]
      BY <2>1, <3>2, <3>3, <3>4
    <3> QED
      BY <3>5 DEF Planned
  <2>6. ASSUME NEW n \in JobNames, n # m
        PROVE  /\ jobMap'[n] = jobMap[n]
               /\ jobMap[n] # NoBean => (Planned(n)' <=> Planned(n))
               /\ Settled(n)' => Settled(n)
               /\ n \in ended' <=> n \in ended
    <3>1. jobMap'[n] = jobMap[n]
      BY <2>1, <2>6
    <3>2. jobMap[n] # NoBean => jobMap[n] # b
      BY <1>0, <2>6
    <3>3. jobMap[n] # NoBean => (Planned(n)' <=> Planned(n))
      <4>1. jobMap[n] # NoBean => /\ future'[jobMap[n]] = future[jobMap[n]]
                                  /\ jobMap[n] \in reused' <=> jobMap[n] \in reused
        BY <1>0, <2>1, <3>2
      <4> QED
        BY <2>1, <3>1, <4>1 DEF Planned
    <3>4. Settled(n)' => Settled(n)
      BY <2>1, <2>6
    <3> QED
      BY <2>2, <2>6, <3>1, <3>3, <3>4
  <2>7. race' = race
    BY <2>1
  <2>8. ASSUME NEW n \in JobNames \ (race' \cup ended'), jobMap'[n] # NoBean, Settled(n)'
        PROVE  Planned(n)'
    <3>1. CASE n = m
      BY <2>5, <2>7, <2>8, <3>1
    <3>2. CASE n # m
      <4>1. /\ n \in JobNames \ (race \cup ended) /\ jobMap[n] # NoBean /\ Settled(n)
            /\ (Planned(n)' <=> Planned(n))
        BY <2>6, <2>7, <2>8, <3>2
      <4> QED
        BY <1>r, <4>1
    <3> QED
      BY <3>1, <3>2
  <2> QED
    BY <1>q, <2>4, <2>8
<1>7. ASSUME NEW b \in Beans, NEW p \in Plans, ChangeBean(b, p) PROVE PlanInv'
  <2>1. \A d \in Callers : Made(d)' <=> Made(d)
    BY <1>7 DEF ChangeBean, Made
  <2>2. ASSUME NEW n \in JobNames, jobMap[n] # NoBean, Planned(n) PROVE Planned(n)'
    <3>1. /\ plan' = [plan EXCEPT ![b] = p] /\ UNCHANGED <<alive, future, jobMap>>
          /\ reused \subseteq reused' /\ (jobMap[NameOf[b]] = b => b \in reused')
      BY <1>7 DEF ChangeBean
    <3>2. jobMap[n] \notin reused' => plan'[jobMap[n]] = plan[jobMap[n]]
      BY <1>0, <2>2, <3>1
    <3> QED
      BY <2>2, <3>1, <3>2 DEF Planned
  <2>3. UNCHANGED <<jobPc, job, race, ended, jobMap>>
    BY <1>7 DEF ChangeBean
  <2> QED
    BY <1>p, <1>q, <1>r, <2>1, <2>2, <2>3
<1>8. ASSUME NEW n \in JobNames, CancelJob(n) PROVE PlanInv'
  <2>1. /\ UNCHANGED <<jobMap, plan, future, jobPc, job, made, reused>>
        /\ ended' = ended \cup {n} /\ race \subseteq race' /\ alive' = alive \ FutureOf(jobMap[n])
        /\ jobMap[n] \in Beans /\ NameOf[jobMap[n]] = n
    BY <1>0, <1>8 DEF CancelJob
  <2>2. \A f \in alive : f \notin alive' =>
            f.name = n /\ \A d \in Callers : made[d] # 0 => f.id # made[d]
    BY <1>0, <2>1, FutureOfName DEF HandInv
  <2>3. ASSUME NEW d \in Callers, jobPc[d] = "store", Made(d) PROVE Made(d)'
    BY <1>0, <2>1, <2>2, <2>3 DEF Made, HandInv
  <2>4. ASSUME NEW k \in JobNames, k # n, Planned(k) PROVE Planned(k)'
    BY <2>1, <2>2, <2>4 DEF Planned
  <2> QED
    BY <1>p, <1>q, <1>r, <2>1, <2>3, <2>4
<1>9. ASSUME NEW g \in alive, RunOnce(g) PROVE PlanInv'
  <2>1. /\ UNCHANGED <<jobMap, plan, future, jobPc, job, made, reused, race>>
        /\ ended' = ended \cup {g.name} /\ alive' = alive \ {g}
    BY <1>9 DEF RunOnce
  <2>2. ASSUME NEW d \in Callers, jobPc[d] = "store", Made(d), NameOf[job[d]] # g.name PROVE Made(d)'
    <3>1. g.id # made[d]
      BY <1>0, <2>2 DEF HandInv, IdInv
    <3> QED
      BY <2>1, <2>2, <3>1 DEF Made
  <2>3. ASSUME NEW k \in JobNames, k # g.name, Planned(k) PROVE Planned(k)'
    BY <2>1, <2>3 DEF Planned
  <2> QED
    BY <1>p, <1>q, <1>r, <2>1, <2>2, <2>3
<1> QED
  BY <1>1, <1>2, <1>3, <1>4, <1>5, <1>6, <1>7, <1>8, <1>9 DEF TaskNext

LEMMA TaskStep == TaskInv /\ [TaskNext]_jobVars => TaskInv'
<1>1. CASE UNCHANGED jobVars
  BY <1>1 DEF TaskInv, TaskTypeOK, IdInv, Pending, HandInv, AloneInv, AliveInv, PlanInv, On, Settled,
              jobVars
<1>2. CASE TaskNext
  BY <1>2, TaskKeepsTypes, TaskKeepsIds, TaskKeepsHands, TaskKeepsAlone, TaskKeepsAlive, TaskKeepsPlan
  DEF TaskInv
<1> QED
  BY <1>1, <1>2

LEMMA TaskAlways == TaskSpec => []TaskInv
<1>1. (\E p \in Plans : TaskInit(p)) => TaskInv
  BY InitTask
<1> QED
  BY <1>1, TaskStep, PTL DEF TaskSpec

(* The map of jobs is a true account of the schedule.                       *)
LEMMA JobsFollow == ASSUME TaskInv PROVE JobsAreTracked
<1> USE TaskTypes DEF On, Settled
<1>1. ASSUME NEW n \in JobNames \ race PROVE Cardinality(AliveOf(n)) <= 1
  <2>1. ASSUME NEW f \in AliveOf(n), NEW g \in AliveOf(n) PROVE f = g
    <3>1. /\ f \in alive /\ g \in alive /\ f.name = n /\ g.name = n
          /\ f \in futures /\ g \in futures
      BY DEF AliveOf
    <3>2. CASE Settled(n)
      <4>1. f.id = future[jobMap[n]] /\ g.id = future[jobMap[n]]
        BY <3>1, <3>2 DEF TaskInv, AliveInv
      <4> QED
        BY <3>1, <4>1 DEF TaskInv, IdInv
    <3>3. CASE ~Settled(n)
      <4>1. PICK c \in Callers : On(c, n) /\ jobPc[c] # "look"
        BY <3>3
      <4>2. f.id = made[c] /\ g.id = made[c]
        BY <3>1, <4>1 DEF TaskInv, AliveInv
      <4> QED
        BY <3>1, <4>2 DEF TaskInv, IdInv
    <3> QED
      BY <3>2, <3>3
  <2>2. CASE AliveOf(n) = {}
    <3>1. Cardinality(AliveOf(n)) = 0
      BY <2>2, FS_EmptySet
    <3> QED
      BY <3>1
  <2>3. CASE \E f : f \in AliveOf(n)
    <3>1. PICK f : f \in AliveOf(n)
      BY <2>3
    <3>2. AliveOf(n) = {f}
      BY <2>1, <3>1
    <3>3. Cardinality(AliveOf(n)) = 1
      BY <3>2, FS_Singleton
    <3> QED
      BY <3>3
  <2> QED
    BY <2>2, <2>3
<1>2. RunningCanBeCancelled
  BY DEF RunningCanBeCancelled, TaskInv, AliveInv, HandInv
<1>3. MapIsSchedule
  BY DEF MapIsSchedule, AliveOf, TaskInv, PlanInv
<1> QED
  BY <1>1, <1>2, <1>3 DEF JobsAreTracked, OneFuturePerName

(* Whatever calls overlap, a name on which none did has one running future  *)
(* at most, which can be cancelled, and while nobody works on it it runs    *)
(* with the plan of its bean, until it is cancelled or over or its owner    *)
(* changes the bean (TaskJob.addOrUpdateJob and cancel).                    *)
THEOREM JobsStayTracked == TaskSpec => []JobsAreTracked
BY TaskAlways, JobsFollow, PTL

-----------------------------------------------------------------------------
(* LimitedCalls: no permit is lost or made.  A frame of a thread is an      *)
(* intercepted call, and the permits out are counted by the frames that run. *)

Places == {"acquire", "run"}

LimitTypes ==
    /\ blocking \in BOOLEAN /\ available \in Nat
    /\ frames \in [CallerThreads -> Seq(Places)]
    /\ limited \in 0 .. MaxLimited

NotTooDeep == \A t \in CallerThreads : Len(frames[t]) <= MaxDepth

LimitInv == LimitTypes /\ NotTooDeep /\ IsFiniteSet(Running) /\ PermitsAreConserved

LimitSpec == LimitInit /\ [][LimitNext]_limitVars
-----------------------------------------------------------------------------
(* What the operations on a stack do.                                       *)
LEMMA PopStack ==
    ASSUME NEW S, NEW s \in Seq(S), s # <<>>
    PROVE  /\ Len(s) \in Nat /\ Len(s) > 0 /\ s[Len(s)] \in S
           /\ SubSeq(s, 1, Len(s) - 1) \in Seq(S)
           /\ Len(SubSeq(s, 1, Len(s) - 1)) = Len(s) - 1
           /\ \A j \in 1 .. Len(s) - 1 : SubSeq(s, 1, Len(s) - 1)[j] = s[j]
           /\ Len(s) <= 1 => SubSeq(s, 1, Len(s) - 1) = <<>>
<1>1. Len(s) \in Nat /\ Len(s) > 0 /\ s[Len(s)] \in S
  BY EmptySeq, ElementOfSeq
<1> DEFINE t == SubSeq(s, 1, Len(s) - 1)
<1>2. t \in Seq(S) /\ Len(t) = Len(s) - 1 /\ \A j \in 1 .. Len(s) - 1 : t[j] = s[j]
  <2>1. 1 \in Int /\ Len(s) - 1 \in Int /\ \A i \in 1 .. Len(s) - 1 : s[i] \in S
    BY <1>1, ElementOfSeq
  <2>2. /\ t \in Seq(S)
        /\ Len(t) = IF 1 <= Len(s) - 1 THEN (Len(s) - 1) - 1 + 1 ELSE 0
        /\ \A j \in 1 .. (Len(s) - 1) - 1 + 1 : t[j] = s[1 + j - 1]
    BY <2>1, SubSeqProperties
  <2> HIDE DEF t
  <2>3. Len(t) = Len(s) - 1
    <3>1. \A n \in Nat : n > 0 => n - 1 = IF 1 <= n - 1 THEN (n - 1) - 1 + 1 ELSE 0
      OBVIOUS
    <3>2. Len(t) = IF 1 <= Len(s) - 1 THEN (Len(s) - 1) - 1 + 1 ELSE 0
      BY <2>2
    <3> QED
      BY <1>1, <3>1, <3>2
  <2>4. ASSUME NEW j \in 1 .. Len(s) - 1 PROVE t[j] = s[j]
    <3>1. j \in 1 .. (Len(s) - 1) - 1 + 1 /\ 1 + j - 1 = j
      BY <1>1
    <3> QED
      BY <2>2, <3>1
  <2> QED
    BY <2>2, <2>3, <2>4
<1> QED
  BY <1>1, <1>2, EmptySeq

LEMMA PushStack ==
    ASSUME NEW S, NEW s \in Seq(S), NEW x \in S
    PROVE  /\ Append(s, x) \in Seq(S) /\ Append(s, x) # <<>>
           /\ Len(Append(s, x)) = Len(s) + 1 /\ Append(s, x)[Len(s) + 1] = x
           /\ \A j \in 1 .. Len(s) : Append(s, x)[j] = s[j]
BY AppendProperties, EmptySeq

LEMMA InitLimit == LimitInit => LimitInv
<1> SUFFICES ASSUME LimitInit PROVE LimitInv
  OBVIOUS
<1>1. \A t \in CallerThreads : frames[t] = <<>> /\ Len(frames[t]) = 0
  BY EmptySeq DEF LimitInit
<1>2. LimitTypes
  <2>1. /\ available \in Nat /\ limited \in 0 .. MaxLimited
        /\ frames \in [CallerThreads -> Seq(Places)]
    BY LimiterAssumption, EmptySeq DEF LimitInit
  <2> QED
    BY <2>1 DEF LimitInit, LimitTypes
<1>3. Running = {}
  BY <1>1 DEF Running
<1> QED
  BY <1>1, <1>2, <1>3, FS_EmptySet, LimiterAssumption
  DEF LimitInv, NotTooDeep, PermitsAreConserved, LimitInit

(* The frames after a call, a return and a grant.                           *)
LEMMA FramePushed ==
    ASSUME LimitInv, NEW t \in CallerThreads, CallMethod(t)
    PROVE  /\ frames' \in [CallerThreads -> Seq(Places)] /\ NotTooDeep'
           /\ Running' = Running
<1> DEFINE n == Len(frames[t])
<1>1. frames[t] \in Seq(Places) /\ "acquire" \in Places
  BY DEF LimitInv, LimitTypes, Places
<1>2. frames'[t] = Append(frames[t], "acquire") /\ n \in Nat /\ n < MaxDepth
  BY <1>1, LenProperties DEF LimitInv, LimitTypes, CallMethod
<1>3. \A u \in CallerThreads \ {t} : frames'[u] = frames[u]
  BY DEF LimitInv, LimitTypes, CallMethod
<1>4. /\ frames'[t] \in Seq(Places) /\ Len(frames'[t]) = n + 1
      /\ frames'[t][n + 1] = "acquire"
      /\ \A k \in 1 .. n : frames'[t][k] = frames[t][k]
  BY <1>1, <1>2, PushStack
<1>5. frames' \in [CallerThreads -> Seq(Places)]
  BY <1>4 DEF LimitInv, LimitTypes, CallMethod
<1> HIDE DEF n
<1>6. NotTooDeep'
  BY <1>2, <1>3, <1>4, LimiterAssumption DEF LimitInv, NotTooDeep
<1>7. Running' = Running
  BY <1>2, <1>3, <1>4, LimiterAssumption DEF Running, n
<1> QED
  BY <1>5, <1>6, <1>7

LEMMA FramePopped ==
    ASSUME LimitInv, NEW t \in CallerThreads, frames[t] # <<>>, Pop(t)
    PROVE  /\ frames' \in [CallerThreads -> Seq(Places)] /\ NotTooDeep'
           /\ Running' = Running \ {<<t, Len(frames[t])>>}
           /\ Top(t) = "run" <=> <<t, Len(frames[t])>> \in Running
<1> DEFINE n == Len(frames[t])
<1>1. frames[t] \in Seq(Places)
  BY DEF LimitInv, LimitTypes
<1>2. frames'[t] = SubSeq(frames[t], 1, n - 1)
  BY DEF LimitInv, LimitTypes, Pop
<1>3. \A u \in CallerThreads \ {t} : frames'[u] = frames[u]
  BY DEF LimitInv, LimitTypes, Pop
<1>4. /\ frames'[t] \in Seq(Places) /\ Len(frames'[t]) = n - 1
      /\ n \in Nat /\ n > 0
      /\ \A k \in 1 .. n - 1 : frames'[t][k] = frames[t][k]
  BY <1>1, <1>2, PopStack
<1>5. frames' \in [CallerThreads -> Seq(Places)]
  BY <1>4 DEF LimitInv, LimitTypes, Pop
<1>6. Top(t) = frames[t][n] /\ n <= MaxDepth
  BY DEF Top, LimitInv, NotTooDeep
<1> HIDE DEF n
<1>7. NotTooDeep'
  BY <1>3, <1>4, <1>6, LimiterAssumption DEF LimitInv, NotTooDeep
<1>8. Running' = Running \ {<<t, n>>}
  BY <1>3, <1>4, <1>6, LimiterAssumption DEF Running, n
<1>9. Top(t) = "run" <=> <<t, n>> \in Running
  BY <1>4, <1>6, LimiterAssumption DEF Running, n
<1> QED
  BY <1>5, <1>7, <1>8, <1>9 DEF n

LEMMA FrameGranted ==
    ASSUME LimitInv, NEW t \in CallerThreads, Grant(t)
    PROVE  /\ frames' \in [CallerThreads -> Seq(Places)] /\ NotTooDeep'
           /\ Running' = Running \cup {<<t, Len(frames[t])>>}
           /\ <<t, Len(frames[t])>> \notin Running
<1> DEFINE n == Len(frames[t])
<1>1. frames[t] \in Seq(Places) /\ frames[t] # <<>> /\ "run" \in Places
      /\ frames[t][n] = "acquire"
  BY DEF LimitInv, LimitTypes, Grant, In, Top, Places
<1>2. n \in Nat /\ n > 0
  BY <1>1, PopStack
<1>3. frames'[t] = [frames[t] EXCEPT ![n] = "run"]
  BY DEF LimitInv, LimitTypes, Grant
<1>4. \A u \in CallerThreads \ {t} : frames'[u] = frames[u]
  BY DEF LimitInv, LimitTypes, Grant
<1>5. /\ frames'[t] \in Seq(Places) /\ Len(frames'[t]) = n /\ frames'[t][n] = "run"
      /\ \A k \in 1 .. n - 1 : frames'[t][k] = frames[t][k]
  BY <1>1, <1>2, <1>3, ExceptSeq, LenProperties
<1>6. frames' \in [CallerThreads -> Seq(Places)]
  BY <1>5 DEF LimitInv, LimitTypes, Grant
<1>7. n <= MaxDepth
  BY DEF LimitInv, NotTooDeep
<1> HIDE DEF n
<1>8. NotTooDeep'
  BY <1>4, <1>5, <1>7 DEF LimitInv, NotTooDeep
<1>9. Running' = Running \cup {<<t, n>>}
  BY <1>2, <1>4, <1>5, <1>7, LimiterAssumption DEF Running, n
<1>10. <<t, n>> \notin Running
  BY <1>1 DEF Running, n
<1> QED
  BY <1>6, <1>8, <1>9, <1>10 DEF n

LEMMA LimitKeepsInv ==
    ASSUME LimitInv, LimitNext
    PROVE  LimitInv'
<1>0. /\ available \in Nat /\ IsFiniteSet(Running) /\ Cardinality(Running) \in Nat
      /\ blocking \in BOOLEAN /\ limited \in 0 .. MaxLimited
      /\ available + Cardinality(Running) = PERMITS
  BY FS_CardinalityType DEF LimitInv, LimitTypes, PermitsAreConserved
<1>1. ASSUME NEW t \in CallerThreads, CallMethod(t) PROVE LimitInv'
  <2>1. limited' \in 0 .. MaxLimited /\ available' = available /\ blocking' = blocking
    BY <1>0, <1>1, LimiterAssumption DEF CallMethod
  <2> QED
    BY <1>0, <1>1, <2>1, FramePushed DEF LimitInv, LimitTypes, PermitsAreConserved
<1>2. ASSUME NEW t \in CallerThreads, Grant(t) PROVE LimitInv'
  <2>1. available' \in Nat /\ available' = available - 1
        /\ limited' = limited /\ blocking' = blocking
    BY <1>0, <1>2 DEF Grant
  <2>2. /\ Running' = Running \cup {<<t, Len(frames[t])>>}
        /\ <<t, Len(frames[t])>> \notin Running
        /\ frames' \in [CallerThreads -> Seq(Places)] /\ NotTooDeep'
    BY <1>2, FrameGranted
  <2>3. IsFiniteSet(Running') /\ Cardinality(Running') = Cardinality(Running) + 1
    BY <1>0, <2>2, FS_AddElement
  <2>4. available' + Cardinality(Running') = PERMITS
    BY <1>0, <2>1, <2>3
  <2> QED
    BY <1>0, <2>1, <2>2, <2>3, <2>4 DEF LimitInv, LimitTypes, PermitsAreConserved
<1>3. ASSUME NEW t \in CallerThreads, TimeOut(t) \/ Interrupt(t) PROVE LimitInv'
  <2>1. /\ frames[t] # <<>> /\ Pop(t) /\ Top(t) # "run"
        /\ UNCHANGED <<blocking, available, limited>>
    BY <1>3 DEF TimeOut, Interrupt, In
  <2>2. Running' = Running
    BY <2>1, FramePopped
  <2> QED
    BY <1>0, <2>1, <2>2, FramePopped DEF LimitInv, LimitTypes, PermitsAreConserved
<1>4. ASSUME NEW t \in CallerThreads, FinishMethod(t) PROVE LimitInv'
  <2>1. /\ frames[t] # <<>> /\ Pop(t) /\ Top(t) = "run"
        /\ UNCHANGED <<blocking, limited>> /\ available' = available + 1
        /\ available' \in Nat
    BY <1>0, <1>4 DEF FinishMethod, In
  <2>2. /\ Running' = Running \ {<<t, Len(frames[t])>>}
        /\ <<t, Len(frames[t])>> \in Running
        /\ frames' \in [CallerThreads -> Seq(Places)] /\ NotTooDeep'
    BY <2>1, FramePopped
  <2>3. IsFiniteSet(Running') /\ Cardinality(Running') = Cardinality(Running) - 1
    <3> DEFINE p == <<t, Len(frames[t])>>
    <3>1. Running' = Running \ {p} /\ p \in Running
      BY <2>2
    <3> HIDE DEF p
    <3> QED
      BY <1>0, <3>1, FS_RemoveElement
  <2>4. available' + Cardinality(Running') = PERMITS
    BY <1>0, <2>1, <2>3
  <2>5. LimitTypes'
    BY <1>0, <2>1, <2>2 DEF LimitTypes
  <2> QED
    BY <2>2, <2>3, <2>4, <2>5 DEF LimitInv, PermitsAreConserved
<1> QED
  BY <1>1, <1>2, <1>3, <1>4 DEF LimitNext

LEMMA LimitStep == LimitInv /\ [LimitNext]_limitVars => LimitInv'
<1>1. CASE UNCHANGED limitVars
  BY <1>1 DEF LimitInv, LimitTypes, NotTooDeep, PermitsAreConserved, Running, limitVars
<1>2. CASE LimitNext
  BY <1>2, LimitKeepsInv
<1> QED
  BY <1>1, <1>2

LEMMA LimitAlways == LimitSpec => []LimitInv
BY InitLimit, LimitStep, PTL DEF LimitSpec

LEMMA LimitInvTypes == LimitInv => LimitTypeOK
<1> SUFFICES ASSUME LimitInv PROVE LimitTypeOK
  OBVIOUS
<1>1. available \in 0 .. PERMITS
  BY FS_CardinalityType, LimiterAssumption DEF LimitInv, LimitTypes, PermitsAreConserved
<1> QED
  BY <1>1 DEF LimitInv, LimitTypes, LimitTypeOK, Places

(* However many threads are in limited calls, and whether those return,     *)
(* throw, nest, give up or are interrupted, the free permits and those that *)
(* running calls hold add up to the ones the semaphore began with           *)
(* (AroundInterceptHandle.around over SemaphoreLimiterImpl).                *)
THEOREM LimiterConservesPermits == LimitSpec => []PermitsAreConserved
<1>1. LimitInv => PermitsAreConserved
  BY DEF LimitInv
<1> QED
  BY <1>1, LimitAlways, PTL

-----------------------------------------------------------------------------
(* CachedCalls: the key that onBefore leaves for onAfter is that of its     *)
(* call, unless a call inside it left its own or took the key.              *)

Frames == [call : Calls, at : {"run", "expire"}]

(* A call that has made another cached call is still running its method,    *)
(* and that one ran its own.                                                *)
Below(w) ==
    \A k \in 1 .. Len(stack[w]) - 1 : stack[w][k].at = "run" /\ stack[w][k].call \in innerMiss

(* The key that the call of w finds: its own one, none if an inner call took *)
(* it, or one that an inner call left.                                      *)
HasKey(w) ==
    LET c == Frame(w).call
    IN  \/ redisKey[w] = NoKey /\ Frame(w).at = "run" /\ c \in innerMiss
        \/ redisKey[w] = FieldOf[c]
        \/ <<c, redisKey[w]>> \in leftover

KeyInv == \A w \in Workers : Below(w) /\ (stack[w] # <<>> => HasKey(w))

CacheInv == CacheTypeOK /\ CacheIsSound /\ KeyInv

CacheSpec == CacheInit /\ [][CachedNext]_cacheVars
-----------------------------------------------------------------------------
(* A frame on top of a stack changes its place only.                        *)
LEMMA MarkTop ==
    ASSUME NEW s \in Seq(Frames), s # <<>>, NEW a \in {"run", "expire"}
    PROVE  LET t == [s EXCEPT ![Len(s)].at = a]
           IN  /\ t \in Seq(Frames) /\ t # <<>> /\ Len(t) = Len(s)
               /\ t[Len(s)].at = a /\ t[Len(s)].call = s[Len(s)].call
               /\ \A j \in 1 .. Len(s) - 1 : t[j] = s[j]
<1>1. Len(s) \in Nat /\ Len(s) > 0 /\ s[Len(s)] \in Frames
  BY PopStack
<1> DEFINE f == [s[Len(s)] EXCEPT !.at = a]
           t == [s EXCEPT ![Len(s)] = f]
<1>2. f \in Frames /\ f.at = a /\ f.call = s[Len(s)].call
  BY <1>1 DEF Frames
<1>3. /\ t \in Seq(Frames) /\ Len(t) = Len(s) /\ t[Len(s)] = f
      /\ \A j \in 1 .. Len(s) - 1 : t[j] = s[j]
  BY <1>1, <1>2, ExceptSeq
<1> QED
  BY <1>1, <1>2, <1>3, EmptySeq

(* What w has on its stack, by the types.                                   *)
LEMMA StackType ==
    ASSUME CacheTypeOK, NEW w \in Workers
    PROVE  stack[w] \in Seq(Frames)
BY DEF CacheTypeOK, Frames

(* The key under which w puts a result is a field.                          *)
LEMMA KeyIsField ==
    ASSUME CacheInv, NEW w \in Workers, stack[w] # <<>>, redisKey[w] # NoKey \/ At(w, "expire")
    PROVE  /\ redisKey[w] \in Fields
           /\ FieldOf[Frame(w).call] = redisKey[w] \/ <<Frame(w).call, redisKey[w]>> \in leftover
<1>1. Frame(w) \in Frames
  BY StackType, PopStack DEF CacheInv, Frame
<1>2. HasKey(w)
  BY DEF CacheInv, KeyInv
<1>3. FieldOf[Frame(w).call] = redisKey[w] \/ <<Frame(w).call, redisKey[w]>> \in leftover
  BY <1>2 DEF HasKey, At
<1>4. leftover \subseteq Calls \X Fields
  BY DEF CacheInv, CacheTypeOK
<1> QED
  BY <1>1, <1>3, <1>4, CacheAssumption DEF Frames

LEMMA InitCache == CacheInit => CacheInv
<1> SUFFICES ASSUME CacheInit PROVE CacheInv
  OBVIOUS
<1>1. CacheTypeOK
  <2>1. /\ 0 \in 0 .. MaxCached /\ 0 \in 0 .. MaxOutages
        /\ stack \in [Workers -> Seq(Frames)]
        /\ cache \in [Fields -> Calls \cup {NoResult}]
        /\ redisKey \in [Workers -> Fields \cup {NoKey}]
        /\ expires \subseteq Hashes
    BY CacheAssumption, EmptySeq DEF CacheInit
  <2>2. /\ leftover \subseteq Calls \X Fields /\ innerMiss \subseteq Calls
        /\ broken \subseteq Calls /\ skipped \subseteq Fields
    BY DEF CacheInit
  <2> QED
    BY <2>1, <2>2, Zenon DEF CacheInit, CacheTypeOK, Frames
<1>2. CacheIsSound
  BY DEF CacheInit, CacheIsSound, CacheHoldsOwnResults, OnAfterFindsKey, CachedHasExpiry
<1>3. KeyInv
  <2>1. \A w \in Workers : stack[w] = <<>> /\ Len(stack[w]) = 0
    BY EmptySeq DEF CacheInit
  <2> QED
    BY <2>1 DEF KeyInv, Below
<1> QED
  BY <1>1, <1>2, <1>3 DEF CacheInv

(* The types after a step whose stack, cache and histories are given.       *)
LEMMA CacheKeepsTypes ==
    ASSUME CacheInv, CachedNext
    PROVE  CacheTypeOK'
<1> DEFINE Plain == /\ cache' \in [Fields -> Calls \cup {NoResult}]
                    /\ expires' \subseteq Hashes
                    /\ redisKey' \in [Workers -> Fields \cup {NoKey}]
                    /\ calls' \in 0 .. MaxCached /\ outages' \in 0 .. MaxOutages
           Past  == /\ leftover' \subseteq Calls \X Fields /\ innerMiss' \subseteq Calls
                    /\ broken' \subseteq Calls /\ skipped' \subseteq Fields
           Stack == stack' \in [Workers -> Seq(Frames)]
<1>0. /\ cache \in [Fields -> Calls \cup {NoResult}] /\ expires \subseteq Hashes
      /\ redisKey \in [Workers -> Fields \cup {NoKey}]
      /\ calls \in 0 .. MaxCached /\ outages \in 0 .. MaxOutages
      /\ stack \in [Workers -> Seq(Frames)]
  BY DEF CacheInv, CacheTypeOK, Frames
<1>p. /\ leftover \subseteq Calls \X Fields /\ innerMiss \subseteq Calls
      /\ broken \subseteq Calls /\ skipped \subseteq Fields
  BY DEF CacheInv, CacheTypeOK
<1>q. Plain /\ Past /\ Stack => CacheTypeOK'
  BY DEF CacheTypeOK, Frames
<1>h. \A f \in Fields : HashOf[f] \in Hashes
  BY CacheAssumption
<1>l. ASSUME NEW w \in Workers, stack[w] # <<>>
      PROVE  Frame(w).call \in Calls /\ Leave(w) \in [Workers -> Seq(Frames)]
  <2>1. Frame(w) \in Frames /\ SubSeq(stack[w], 1, Len(stack[w]) - 1) \in Seq(Frames)
    BY <1>0, <1>l, PopStack DEF Frame
  <2> QED
    BY <1>0, <2>1 DEF Frames, Leave
<1>a. \A w \in Workers : Around(w) \subseteq Calls
  BY <1>l DEF Around
<1>1. ASSUME NEW w \in Workers, NEW c \in Calls, Hit(w, c) PROVE Plain /\ Past /\ Stack
  <2>1. Plain /\ Stack
    BY <1>0, <1>1, CacheAssumption DEF Hit, Key
  <2>2. Past
    BY <1>p, <1>a, <1>1, CacheAssumption DEF Hit
  <2> QED
    BY <2>1, <2>2
<1>2. ASSUME NEW w \in Workers, NEW c \in Calls, Miss(w, c) PROVE Plain /\ Past /\ Stack
  <2>1. Plain
    BY <1>0, <1>2, CacheAssumption DEF Miss, Key
  <2>2. Past
    BY <1>p, <1>a, <1>2 DEF Miss
  <2>3. Stack
    <3>1. [call |-> c, at |-> "run"] \in Frames
      BY DEF Frames
    <3>2. Append(stack[w], [call |-> c, at |-> "run"]) \in Seq(Frames)
      BY <1>0, <3>1, PushStack
    <3> QED
      BY <1>0, <1>2, <3>2 DEF Miss
  <2> QED
    BY <2>1, <2>2, <2>3
<1>3. ASSUME NEW w \in Workers, NoKeyLeft(w) PROVE Plain /\ Past /\ Stack
  <2>1. Stack /\ Past
    BY <1>l, <1>p, <1>3 DEF NoKeyLeft, At
  <2> QED
    BY <1>0, <1>3, <2>1 DEF NoKeyLeft
<1>4. ASSUME NEW w \in Workers, PutNothing(w) PROVE Plain /\ Past /\ Stack
  <2>1. Stack /\ Past
    BY <1>l, <1>p, <1>4 DEF PutNothing, At
  <2> QED
    BY <1>0, <1>4, <2>1 DEF PutNothing
<1>5. ASSUME NEW w \in Workers, PutField(w) PROVE Plain /\ Past /\ Stack
  <2>1. Frame(w).call \in Calls
    BY <1>l, <1>5 DEF PutField, At
  <2>2. Stack
    <3>1. [stack[w] EXCEPT ![Len(stack[w])].at = "expire"] \in Seq(Frames)
      BY <1>0, <1>5, MarkTop DEF PutField, At
    <3> QED
      BY <1>0, <1>5, <3>1 DEF PutField
  <2>3. Past
    BY <1>p, <1>5 DEF PutField
  <2> QED
    BY <1>0, <1>5, <2>1, <2>2, <2>3 DEF PutField
<1>6. ASSUME NEW w \in Workers, Expire(w) PROVE Plain /\ Past /\ Stack
  <2>1. Stack /\ Past
    BY <1>l, <1>p, <1>6 DEF Expire, AfterPut, At
  <2>2. Live(cache) \subseteq Hashes
    BY <1>h DEF Live
  <2> QED
    BY <1>0, <1>6, <2>1, <2>2 DEF Expire, AfterPut
<1>7. ASSUME NEW w \in Workers, ExpireFails(w) PROVE Plain /\ Past /\ Stack
  <2>1. Stack /\ Past
    BY <1>l, <1>p, <1>7 DEF ExpireFails, AfterPut, At
  <2>2. outages' \in 0 .. MaxOutages
    BY <1>0, <1>7, CacheAssumption DEF ExpireFails
  <2>3. expires' \subseteq Hashes /\ cache' \in [Fields -> Calls \cup {NoResult}]
    BY <1>0, <1>7 DEF ExpireFails
  <2> QED
    BY <1>0, <1>7, <2>1, <2>2, <2>3 DEF ExpireFails, AfterPut
<1>8. ASSUME NEW w \in Workers, PutThrows(w) PROVE Plain /\ Past /\ Stack
  <2>1. stack[w] # <<>> /\ redisKey[w] \in Fields
    BY <1>8, KeyIsField DEF PutThrows, At
  <2>2. Stack
    BY <1>l, <1>8, <2>1 DEF PutThrows
  <2>3. leftover' \subseteq Calls \X Fields
    <3>1. CASE Len(stack[w]) = 1
      BY <1>p, <1>8, <3>1 DEF PutThrows
    <3>2. CASE Len(stack[w]) # 1
      <4>1. stack[w] \in Seq(Frames) /\ Len(stack[w]) \in Nat /\ Len(stack[w]) > 0
        BY <1>0, <2>1, PopStack
      <4>2. stack[w][Len(stack[w]) - 1] \in Frames
        <5>0. \A n \in Nat : n > 0 /\ n # 1 => n - 1 \in 1 .. n
          OBVIOUS
        <5>1. Len(stack[w]) - 1 \in 1 .. Len(stack[w])
          BY <3>2, <4>1, <5>0
        <5>2. \A s \in Seq(Frames) : \A n \in 1 .. Len(s) : s[n] \in Frames
          BY ElementOfSeq
        <5> QED
          BY <4>1, <5>1, <5>2, Zenon
      <4>3. <<stack[w][Len(stack[w]) - 1].call, redisKey[w]>> \in Calls \X Fields
        BY <2>1, <4>2 DEF Frames
      <4> QED
        BY <1>p, <1>8, <3>2, <4>3 DEF PutThrows
    <3> QED
      BY <3>1, <3>2
  <2>4. skipped' \subseteq Fields
    BY <1>p, <1>8, <2>1 DEF PutThrows
  <2>5. Past
    BY <1>p, <1>8, <2>3, <2>4 DEF PutThrows
  <2> QED
    BY <1>0, <1>8, <2>2, <2>5, CacheAssumption DEF PutThrows
<1>9. CASE Crash
  <2>1. Stack
    BY <1>9, EmptySeq DEF Crash
  <2>2. {redisKey[w] : w \in {v \in Workers : At(v, "expire")}} \subseteq Fields
    BY KeyIsField DEF At
  <2>3. Past
    BY <1>p, <1>9, <2>2 DEF Crash
  <2> QED
    BY <1>0, <1>q, <1>9, <2>1, <2>3, CacheAssumption DEF Crash
<1>10. ASSUME NEW h \in Hashes, Vanish(h) PROVE Plain /\ Past /\ Stack
  BY <1>0, <1>p, <1>10 DEF Vanish
<1> QED
  BY <1>1, <1>2, <1>3, <1>4, <1>5, <1>6, <1>7, <1>8, <1>9, <1>10, <1>q, Zenon
  DEF CachedNext, CachedStep

(* The stacks after a return, after a call and after a put.                 *)
LEMMA LeftStack ==
    ASSUME CacheTypeOK, NEW w \in Workers, stack[w] # <<>>, stack' = Leave(w)
    PROVE  /\ \A v \in Workers \ {w} : stack'[v] = stack[v]
           /\ Len(stack[w]) \in Nat \ {0} /\ Len(stack'[w]) = Len(stack[w]) - 1
           /\ \A j \in 1 .. Len(stack[w]) - 1 : stack'[w][j] = stack[w][j]
           /\ Len(stack[w]) <= 1 => stack'[w] = <<>>
<1>1. stack[w] \in Seq(Frames) /\ stack'[w] = SubSeq(stack[w], 1, Len(stack[w]) - 1)
  BY StackType DEF Leave, CacheTypeOK
<1>2. \A v \in Workers \ {w} : stack'[v] = stack[v]
  BY DEF Leave, CacheTypeOK
<1> QED
  BY <1>1, <1>2, PopStack

LEMMA PushedStack ==
    ASSUME CacheTypeOK, NEW w \in Workers, NEW c \in Calls,
           stack' = [stack EXCEPT ![w] = Append(@, [call |-> c, at |-> "run"])]
    PROVE  /\ \A v \in Workers \ {w} : stack'[v] = stack[v]
           /\ Len(stack[w]) \in Nat /\ (stack[w] = <<>> <=> Len(stack[w]) = 0)
           /\ stack'[w] # <<>> /\ Len(stack'[w]) = Len(stack[w]) + 1
           /\ stack'[w][Len(stack'[w])].call = c /\ stack'[w][Len(stack'[w])].at = "run"
           /\ \A j \in 1 .. Len(stack[w]) : stack'[w][j] = stack[w][j]
<1>1. stack[w] \in Seq(Frames) /\ [call |-> c, at |-> "run"] \in Frames
  BY StackType DEF Frames
<1>2. stack'[w] = Append(stack[w], [call |-> c, at |-> "run"])
  BY DEF CacheTypeOK
<1>3. \A v \in Workers \ {w} : stack'[v] = stack[v]
  BY DEF CacheTypeOK
<1>4. Len(stack[w]) \in Nat /\ (stack[w] = <<>> <=> Len(stack[w]) = 0)
  BY <1>1, EmptySeq, LenProperties
<1> QED
  BY <1>1, <1>2, <1>3, <1>4, PushStack

LEMMA MarkedStack ==
    ASSUME CacheTypeOK, NEW w \in Workers, stack[w] # <<>>,
           stack' = [stack EXCEPT ![w][Len(stack[w])].at = "expire"]
    PROVE  /\ \A v \in Workers \ {w} : stack'[v] = stack[v]
           /\ stack'[w] # <<>> /\ Len(stack'[w]) = Len(stack[w])
           /\ stack'[w][Len(stack'[w])].call = Frame(w).call
           /\ stack'[w][Len(stack'[w])].at = "expire"
           /\ \A j \in 1 .. Len(stack[w]) - 1 : stack'[w][j] = stack[w][j]
<1>1. stack[w] \in Seq(Frames)
  BY StackType
<1>2. stack'[w] = [stack[w] EXCEPT ![Len(stack[w])].at = "expire"]
  BY DEF CacheTypeOK
<1>3. \A v \in Workers \ {w} : stack'[v] = stack[v]
  BY DEF CacheTypeOK
<1>4. /\ stack'[w] # <<>> /\ Len(stack'[w]) = Len(stack[w])
      /\ stack'[w][Len(stack[w])].at = "expire"
      /\ stack'[w][Len(stack[w])].call = stack[w][Len(stack[w])].call
  BY <1>1, <1>2, MarkTop
<1>5. \A j \in 1 .. Len(stack[w]) - 1 : stack'[w][j] = stack[w][j]
  BY <1>1, <1>2, MarkTop
<1> QED
  BY <1>3, <1>4, <1>5 DEF Frame

(* A worker finds the key of its call, or what a call inside it made of it. *)
LEMMA CacheKeepsKeys ==
    ASSUME CacheInv, CachedNext
    PROVE  KeyInv'
<1>0. CacheTypeOK /\ KeyInv
  BY DEF CacheInv
<1>t. redisKey \in [Workers -> Fields \cup {NoKey}]
  BY <1>0 DEF CacheTypeOK
<1>s. ASSUME NEW v \in Workers, stack'[v] = stack[v], redisKey'[v] = redisKey[v],
             leftover \subseteq leftover', innerMiss \subseteq innerMiss'
      PROVE  Below(v)' /\ (stack'[v] # <<>> => HasKey(v)')
  BY <1>0, <1>s DEF KeyInv, Below, HasKey, Frame
<1>1. ASSUME NEW w \in Workers, NEW c \in Calls, Hit(w, c) PROVE KeyInv'
  <2>1. /\ redisKey'[w] = FieldOf[c] /\ \A v \in Workers \ {w} : redisKey'[v] = redisKey[v]
        /\ UNCHANGED <<stack, innerMiss>> /\ leftover \subseteq leftover'
        /\ stack[w] # <<>> => <<Frame(w).call, FieldOf[c]>> \in leftover'
    BY <1>t, <1>1 DEF Hit, Key, Around
  <2>2. Below(w)' /\ (stack'[w] # <<>> => HasKey(w)')
    BY <1>0, <2>1 DEF KeyInv, Below, HasKey, Frame
  <2> QED
    BY <1>s, <2>1, <2>2 DEF KeyInv
<1>2. ASSUME NEW w \in Workers, NEW c \in Calls, Miss(w, c) PROVE KeyInv'
  <2>1. /\ redisKey'[w] = FieldOf[c] /\ \A v \in Workers \ {w} : redisKey'[v] = redisKey[v]
        /\ leftover' = leftover /\ innerMiss \subseteq innerMiss'
        /\ stack[w] # <<>> => Frame(w).at = "run" /\ Frame(w).call \in innerMiss'
    BY <1>t, <1>2 DEF Miss, Key, Around, At
  <2>2. stack' = [stack EXCEPT ![w] = Append(@, [call |-> c, at |-> "run"])]
    BY <1>2 DEF Miss
  <2>3. /\ \A v \in Workers \ {w} : stack'[v] = stack[v]
        /\ Len(stack[w]) \in Nat /\ (stack[w] = <<>> <=> Len(stack[w]) = 0)
        /\ Len(stack'[w]) = Len(stack[w]) + 1
        /\ stack'[w][Len(stack'[w])].call = c
        /\ \A j \in 1 .. Len(stack[w]) : stack'[w][j] = stack[w][j]
    BY <1>0, <2>2, PushedStack
  <2>4. HasKey(w)'
    BY <2>1, <2>3 DEF HasKey, Frame
  <2>5. Below(w)'
    <3> SUFFICES ASSUME NEW k \in 1 .. Len(stack[w])
                 PROVE  stack[w][k].at = "run" /\ stack[w][k].call \in innerMiss'
      BY <2>3 DEF Below
    <3>1. CASE k = Len(stack[w])
      BY <2>1, <2>3, <3>1 DEF Frame
    <3>2. CASE k # Len(stack[w])
      <4>1. k \in 1 .. Len(stack[w]) - 1
        BY <2>3, <3>2
      <4> QED
        BY <1>0, <2>1, <4>1 DEF KeyInv, Below
    <3> QED
      BY <3>1, <3>2
  <2> QED
    BY <1>s, <2>1, <2>3, <2>4, <2>5 DEF KeyInv
<1>3. ASSUME NEW w \in Workers,
             NoKeyLeft(w) \/ PutNothing(w) \/ Expire(w) \/ ExpireFails(w) \/ PutThrows(w)
      PROVE  KeyInv'
  <2>1. /\ stack[w] # <<>> /\ stack' = Leave(w)
        /\ \A v \in Workers \ {w} : redisKey'[v] = redisKey[v]
        /\ leftover \subseteq leftover' /\ innerMiss' = innerMiss
        /\ \/ redisKey'[w] = NoKey
           \/ /\ redisKey'[w] = redisKey[w]
              /\ leftover' = IF Len(stack[w]) = 1 THEN leftover
                             ELSE leftover \cup {<<stack[w][Len(stack[w]) - 1].call, redisKey[w]>>}
    BY <1>t, <1>3 DEF NoKeyLeft, PutNothing, Expire, ExpireFails, PutThrows, AfterPut, At
  <2>2. /\ \A v \in Workers \ {w} : stack'[v] = stack[v]
        /\ Len(stack[w]) \in Nat \ {0} /\ Len(stack'[w]) = Len(stack[w]) - 1
        /\ \A j \in 1 .. Len(stack[w]) - 1 : stack'[w][j] = stack[w][j]
        /\ Len(stack[w]) <= 1 => stack'[w] = <<>>
    BY <1>0, <2>1, LeftStack
  <2>3. Below(w)'
    BY <1>0, <2>1, <2>2 DEF KeyInv, Below
  <2>4. stack'[w] # <<>> => HasKey(w)'
    <3> SUFFICES ASSUME stack'[w] # <<>> PROVE HasKey(w)'
      OBVIOUS
    <3>1. Len(stack[w]) - 1 \in 1 .. Len(stack[w]) - 1 /\ Len(stack[w]) # 1
      <4>1. \A n \in Nat \ {0} : ~(n <= 1) => n - 1 \in 1 .. n - 1 /\ n # 1
        OBVIOUS
      <4>2. Len(stack[w]) \in Nat \ {0} /\ ~(Len(stack[w]) <= 1)
        BY <2>2
      <4> QED
        BY <4>1, <4>2
    <3>2. /\ Frame(w)' = stack[w][Len(stack[w]) - 1]
          /\ stack[w][Len(stack[w]) - 1].at = "run"
          /\ stack[w][Len(stack[w]) - 1].call \in innerMiss
      BY <1>0, <2>2, <3>1 DEF Frame, KeyInv, Below
    <3> QED
      BY <2>1, <3>1, <3>2 DEF HasKey
  <2> QED
    BY <1>s, <2>1, <2>2, <2>3, <2>4 DEF KeyInv
<1>4. ASSUME NEW w \in Workers, PutField(w) PROVE KeyInv'
  <2>1. /\ stack[w] # <<>> /\ redisKey[w] # NoKey
        /\ stack' = [stack EXCEPT ![w][Len(stack[w])].at = "expire"]
        /\ UNCHANGED <<redisKey, leftover, innerMiss>>
    BY <1>4 DEF PutField, At
  <2>2. /\ \A v \in Workers \ {w} : stack'[v] = stack[v]
        /\ Len(stack'[w]) = Len(stack[w])
        /\ stack'[w][Len(stack'[w])].call = Frame(w).call
        /\ \A j \in 1 .. Len(stack[w]) - 1 : stack'[w][j] = stack[w][j]
    BY <1>0, <2>1, MarkedStack
  <2>3. Below(w)' /\ HasKey(w)'
    BY <1>0, <2>1, <2>2 DEF KeyInv, Below, HasKey, Frame
  <2> QED
    BY <1>s, <2>1, <2>2, <2>3 DEF KeyInv
<1>5. CASE Crash
  <2>1. \A w \in Workers : stack'[w] = <<>> /\ Len(stack'[w]) = 0
    BY <1>5, EmptySeq DEF Crash
  <2> QED
    BY <2>1 DEF KeyInv, Below
<1>6. ASSUME NEW h \in Hashes, Vanish(h) PROVE KeyInv'
  BY <1>s, <1>6 DEF Vanish, KeyInv
<1> QED
  BY <1>1, <1>2, <1>3, <1>4, <1>5, <1>6, Zenon DEF CachedNext, CachedStep

(* A result is put under the field of its call, unless a call inside it left *)
(* another one, and a call that found no key had lost it to one inside it.  *)
LEMMA CacheKeepsOwn ==
    ASSUME CacheInv, CachedNext
    PROVE  CacheHoldsOwnResults' /\ OnAfterFindsKey'
<1> DEFINE Goal == CacheHoldsOwnResults' /\ OnAfterFindsKey'
<1>0. CacheTypeOK /\ CacheHoldsOwnResults /\ OnAfterFindsKey
  BY DEF CacheInv, CacheIsSound
<1>t. /\ cache \in [Fields -> Calls \cup {NoResult}]
      /\ leftover \subseteq Calls \X Fields
  BY <1>0 DEF CacheTypeOK
<1>q. ASSUME leftover \subseteq leftover', innerMiss \subseteq innerMiss', broken' = broken,
             \A f \in Fields : cache'[f] \in {cache[f], NoResult}
      PROVE  Goal
  BY <1>0, <1>q DEF CacheHoldsOwnResults, OnAfterFindsKey
<1>1. ASSUME NEW w \in Workers, NEW c \in Calls, Hit(w, c) \/ Miss(w, c) PROVE Goal
  BY <1>q, <1>1 DEF Hit, Miss
<1>2. ASSUME NEW w \in Workers,
             PutNothing(w) \/ Expire(w) \/ ExpireFails(w) \/ PutThrows(w)
      PROVE  Goal
  BY <1>t, <1>q, <1>2 DEF PutNothing, Expire, ExpireFails, PutThrows, AfterPut
<1>3. ASSUME NEW w \in Workers, NoKeyLeft(w) PROVE Goal
  <2>1. Frame(w).call \in innerMiss
    <3>1. HasKey(w) /\ redisKey[w] = NoKey /\ Frame(w) \in Frames
      BY <1>0, <1>3, StackType, PopStack DEF CacheInv, KeyInv, NoKeyLeft, At, Frame
    <3> QED
      BY <1>t, <3>1, CacheAssumption DEF HasKey, Frames
  <2> QED
    BY <1>0, <1>3, <2>1 DEF NoKeyLeft, CacheHoldsOwnResults, OnAfterFindsKey
<1>4. ASSUME NEW w \in Workers, PutField(w) PROVE Goal
  <2>1. FieldOf[Frame(w).call] = redisKey[w] \/ <<Frame(w).call, redisKey[w]>> \in leftover
    BY <1>4, KeyIsField DEF PutField, At
  <2> QED
    BY <1>0, <1>t, <1>4, <2>1 DEF PutField, CacheHoldsOwnResults, OnAfterFindsKey
<1>5. CASE Crash
  BY <1>q, <1>5 DEF Crash
<1>6. ASSUME NEW h \in Hashes, Vanish(h) PROVE Goal
  BY <1>q, <1>6 DEF Vanish
<1> QED
  BY <1>1, <1>2, <1>3, <1>4, <1>5, <1>6, Zenon DEF CachedNext, CachedStep

(* Whoever puts a field goes on to set the expiry of its hash, or the field *)
(* is deleted, unless a crash or three failures come in between.            *)
LEMMA CacheKeepsExpiry ==
    ASSUME CacheInv, CachedNext
    PROVE  CachedHasExpiry'
<1> DEFINE Covered(f) == \E v \in Workers : At(v, "expire") /\ redisKey[v] = f
<1> SUFFICES ASSUME NEW f \in Fields, f \notin skipped', cache'[f] # NoResult,
                    HashOf[f] \notin expires'
             PROVE  Covered(f)'
  BY DEF CachedHasExpiry, At, Frame
<1>0. /\ CacheTypeOK /\ cache \in [Fields -> Calls \cup {NoResult}]
      /\ redisKey \in [Workers -> Fields \cup {NoKey}]
  BY DEF CacheInv, CacheTypeOK
<1>1. f \notin skipped /\ cache[f] # NoResult /\ HashOf[f] \notin expires => Covered(f)
  BY DEF CacheInv, CacheIsSound, CachedHasExpiry
<1>2. HashOf[f] \in Live(cache')
  BY DEF Live
<1>k. ASSUME NEW v \in Workers, At(v, "expire"), redisKey[v] = f,
             stack'[v] = stack[v], redisKey'[v] = redisKey[v]
      PROVE  Covered(f)'
  BY <1>k DEF At, Frame
<1>3. ASSUME NEW w \in Workers, NEW c \in Calls, Hit(w, c) \/ Miss(w, c) PROVE Covered(f)'
  <2>1. /\ UNCHANGED <<cache, expires, skipped>> /\ ~At(w, "expire")
        /\ \A v \in Workers \ {w} : redisKey'[v] = redisKey[v]
    BY <1>0, <1>3 DEF Hit, Miss, Key, At
  <2>2. \A v \in Workers \ {w} : stack'[v] = stack[v]
    BY <1>0, <1>3, PushedStack DEF Hit, Miss
  <2> QED
    BY <1>1, <1>k, <2>1, <2>2
<1>4. ASSUME NEW w \in Workers, NoKeyLeft(w) \/ PutNothing(w) PROVE Covered(f)'
  <2>1. /\ stack[w] # <<>> /\ stack' = Leave(w) /\ ~At(w, "expire") /\ UNCHANGED skipped
        /\ \A v \in Workers \ {w} : redisKey'[v] = redisKey[v]
        /\ cache[f] # NoResult /\ HashOf[f] \notin expires
    BY <1>0, <1>2, <1>4 DEF NoKeyLeft, PutNothing, At
  <2>2. \A v \in Workers \ {w} : stack'[v] = stack[v]
    BY <1>0, <2>1, LeftStack
  <2> QED
    BY <1>1, <1>k, <2>1, <2>2
<1>5. ASSUME NEW w \in Workers, PutField(w) PROVE Covered(f)'
  <2>1. /\ stack[w] # <<>> /\ ~At(w, "expire") /\ UNCHANGED <<redisKey, expires>>
        /\ stack' = [stack EXCEPT ![w][Len(stack[w])].at = "expire"]
        /\ f # redisKey[w] => cache'[f] = cache[f] /\ f \notin skipped
    BY <1>0, <1>5 DEF PutField, At
  <2>2. /\ \A v \in Workers \ {w} : stack'[v] = stack[v]
        /\ stack'[w] # <<>> /\ stack'[w][Len(stack'[w])].at = "expire"
    BY <1>0, <2>1, MarkedStack
  <2>3. CASE f = redisKey[w]
    BY <2>1, <2>2, <2>3 DEF At, Frame
  <2>4. CASE f # redisKey[w]
    BY <1>1, <1>k, <2>1, <2>2, <2>4
  <2> QED
    BY <2>3, <2>4
<1>6. ASSUME NEW w \in Workers, Expire(w) \/ ExpireFails(w) PROVE Covered(f)'
  <2>1. /\ stack[w] # <<>> /\ stack' = Leave(w) /\ UNCHANGED skipped
        /\ \A v \in Workers \ {w} : redisKey'[v] = redisKey[v]
        /\ cache[f] # NoResult
    BY <1>0, <1>6 DEF Expire, ExpireFails, AfterPut, At
  <2>2. HashOf[f] \notin expires /\ f # redisKey[w]
    <3>1. CASE Expire(w)
      BY <1>2, <3>1 DEF Expire
    <3>2. CASE ExpireFails(w)
      BY <1>0, <1>2, <3>2 DEF ExpireFails
    <3> QED
      BY <1>6, <3>1, <3>2
  <2>3. \A v \in Workers \ {w} : stack'[v] = stack[v]
    BY <1>0, <2>1, LeftStack
  <2> QED
    BY <1>1, <1>k, <2>1, <2>2, <2>3
<1>7. ASSUME NEW w \in Workers, PutThrows(w) PROVE Covered(f)'
  <2>1. /\ stack[w] # <<>> /\ stack' = Leave(w) /\ UNCHANGED <<cache, expires, redisKey>>
        /\ f \notin skipped /\ (At(w, "expire") => f # redisKey[w])
    BY <1>7 DEF PutThrows, At
  <2>2. \A v \in Workers \ {w} : stack'[v] = stack[v]
    BY <1>0, <2>1, LeftStack
  <2> QED
    BY <1>1, <1>k, <2>1, <2>2
<1>8. CASE Crash
  <2>1. /\ UNCHANGED <<cache, expires>> /\ f \notin skipped
        /\ \A v \in Workers : At(v, "expire") => redisKey[v] # f
    BY <1>8 DEF Crash
  <2> QED
    BY <1>1, <2>1
<1>9. ASSUME NEW h \in Hashes, Vanish(h) PROVE Covered(f)'
  <2>1. UNCHANGED <<stack, redisKey, skipped>> /\ cache[f] # NoResult /\ HashOf[f] \notin expires
    BY <1>0, <1>9 DEF Vanish
  <2> QED
    BY <1>1, <1>k, <2>1
<1> QED
  <2> HIDE DEF Covered
  <2> QED
    BY <1>3, <1>4, <1>5, <1>6, <1>7, <1>8, <1>9 DEF CachedNext, CachedStep

LEMMA CacheStep == CacheInv /\ [CachedNext]_cacheVars => CacheInv'
<1>1. ASSUME CacheInv, UNCHANGED cacheVars PROVE CacheInv'
  <2>1. CacheTypeOK'
    BY <1>1 DEF CacheInv, CacheTypeOK, cacheVars
  <2>2. CacheHoldsOwnResults' /\ OnAfterFindsKey' /\ CachedHasExpiry'
    BY <1>1 DEF CacheInv, CacheIsSound, CacheHoldsOwnResults, OnAfterFindsKey,
                CachedHasExpiry, At, Frame, cacheVars
  <2>3. KeyInv'
    BY <1>1 DEF CacheInv, KeyInv, Below, HasKey, Frame, cacheVars
  <2> QED
    BY <2>1, <2>2, <2>3 DEF CacheInv, CacheIsSound
<1>2. CASE CachedNext
  BY <1>2, CacheKeepsTypes, CacheKeepsOwn, CacheKeepsKeys, CacheKeepsExpiry DEF CacheInv, CacheIsSound
<1> QED
  BY <1>1, <1>2

LEMMA CacheAlways == CacheSpec => []CacheInv
BY InitCache, CacheStep, PTL DEF CacheSpec

(* However cached calls nest and interleave, a field holds the result of a  *)
(* call that has this field, unless a call inside that one left its key in  *)
(* the thread; a call that ran its method has the key to store the result   *)
(* under, unless an inner call took it; and what is stored gets an expiry,  *)
(* unless a crash or a delete that fails too came before the EXPIRE of that *)
(* field (RedisInterceptPlugin, HPHashOperations.put).  Two calls with one  *)
(* field get each other's results: FieldOf is any function.                 *)
THEOREM CachedCallsAreSound == CacheSpec => []CacheIsSound
<1>1. CacheInv => CacheIsSound
  BY DEF CacheInv
<1> QED
  BY <1>1, CacheAlways, PTL

-----------------------------------------------------------------------------
(* BatchCache: a call leaves out no row and returns none that is older than *)
(* what redis could tell when it began.                                    *)

(* What redis has, and what a call is about to put there, is the row.       *)
CurrentInv ==
    \A k \in Ids \ (changing \cup outrun) :
        key[k] \in {NoRow, row[k]} /\ \A r \in Readers : list[r][k] \in {NoRow, row[k]}

(* Where the ids of a call are that had a row when it began.                *)
CompleteInv ==
    \A r \in Readers : \A k \in Ids : began[r][k] # NoRow =>
        /\ k \in idList[r] /\ row[k] # NoRow
        /\ getPc[r] = "idle" => found[r][k] # NoRow
        /\ getPc[r] = "query" => found[r][k] # NoRow \/ k \in missUidList[r]
        /\ getPc[r] = "set" => found[r][k] # NoRow \/ list[r][k] # NoRow

AtLeast(v, b) == v # NoRow => v >= b

(* Nothing that any call can meet or write back is older than version b.    *)
NoneOlder(k, b) ==
    /\ AtLeast(row[k], b) /\ AtLeast(key[k], b) /\ AtLeast(replica[k], b)
    /\ \A q \in Readers : AtLeast(list[q][k], b)

(* Rows get newer, and what a call trusted at its beginning stays behind it. *)
RecentInv ==
    /\ \A k \in Ids : row[k] # NoRow => row[k] <= changes
    /\ \A r \in Readers : \A k \in trusted[r] : began[r][k] # NoRow =>
           /\ began[r][k] <= changes /\ NoneOlder(k, began[r][k])
           /\ AtLeast(found[r][k], began[r][k])

BatchInv == BatchTypeOK /\ CurrentInv /\ CompleteInv /\ RecentInv

BatchSpec == BatchInit /\ [][BatchNext]_batchVars
-----------------------------------------------------------------------------
LEMMA InitBatch == BatchInit => BatchInv
BY BatchAssumption
DEF BatchInit, BatchInv, BatchTypeOK, CurrentInv, CompleteInv, RecentInv, Nothing, VersionOrNone,
    Versions

LEMMA BatchKeepsTypes ==
    ASSUME BatchTypeOK, BatchNext
    PROVE  BatchTypeOK'
<1> USE BatchAssumption DEF BatchTypeOK, VersionOrNone, Versions, Nothing, GetGoesTo, Fails, call
<1>1. ASSUME NEW r \in Readers, NEW ids \in SUBSET Ids, BatchGet(r, ids) PROVE BatchTypeOK'
  BY <1>1 DEF BatchGet
<1>2. ASSUME NEW r \in Readers, MultiGet(r) PROVE BatchTypeOK'
  BY <1>2 DEF MultiGet
<1>3. ASSUME NEW r \in Readers, MultiGetFails(r) PROVE BatchTypeOK'
  BY <1>3 DEF MultiGetFails
<1>4. ASSUME NEW r \in Readers, BatchDataFromDatabase(r) PROVE BatchTypeOK'
  BY <1>4 DEF BatchDataFromDatabase
<1>5. ASSUME NEW r \in Readers, NEW k \in Ids, SetInRedis(r, k) PROVE BatchTypeOK'
  BY <1>5 DEF SetInRedis
<1>6. ASSUME NEW k \in Ids, ChangeRow(k) PROVE BatchTypeOK'
  BY <1>6 DEF ChangeRow
<1>7. ASSUME NEW k \in Ids, DeleteKey(k) PROVE BatchTypeOK'
  BY <1>7 DEF DeleteKey
<1>8. ASSUME NEW k \in Ids, DeleteThrows(k) PROVE BatchTypeOK'
  BY <1>8 DEF DeleteThrows
<1>9. ASSUME NEW k \in Ids, KeyExpires(k) \/ Replicate(k) PROVE BatchTypeOK'
  BY <1>9 DEF KeyExpires, Replicate
<1> QED
  BY <1>1, <1>2, <1>3, <1>4, <1>5, <1>6, <1>7, <1>8, <1>9 DEF BatchNext

(* A row that was read before a change is remembered in outrun when the key *)
(* is deleted.                                                              *)
LEMMA BatchKeepsCurrent ==
    ASSUME BatchInv, BatchNext
    PROVE  CurrentInv'
<1> USE DEF BatchInv, BatchTypeOK, CurrentInv, Fails, call
<1>1. ASSUME NEW r \in Readers, NEW ids \in SUBSET Ids, BatchGet(r, ids) PROVE CurrentInv'
  BY <1>1 DEF BatchGet
<1>2. ASSUME NEW r \in Readers, MultiGet(r) PROVE CurrentInv'
  BY <1>2 DEF MultiGet
<1>3. ASSUME NEW r \in Readers, MultiGetFails(r) PROVE CurrentInv'
  BY <1>3 DEF MultiGetFails
<1>4. ASSUME NEW r \in Readers, BatchDataFromDatabase(r) PROVE CurrentInv'
  BY <1>4 DEF BatchDataFromDatabase
<1>5. ASSUME NEW r \in Readers, NEW k \in Ids, SetInRedis(r, k) PROVE CurrentInv'
  BY <1>5 DEF SetInRedis
<1>6. ASSUME NEW k \in Ids, ChangeRow(k) PROVE CurrentInv'
  BY <1>6 DEF ChangeRow
<1>7. ASSUME NEW k \in Ids, DeleteKey(k) PROVE CurrentInv'
  BY <1>7 DEF DeleteKey, Holds
<1>8. ASSUME NEW k \in Ids, DeleteThrows(k) PROVE CurrentInv'
  BY <1>8 DEF DeleteThrows
<1>9. ASSUME NEW k \in Ids, KeyExpires(k) PROVE CurrentInv'
  BY <1>9 DEF KeyExpires, Holds
<1>10. ASSUME NEW k \in Ids, Replicate(k) PROVE CurrentInv'
  BY <1>10 DEF Replicate
<1> QED
  BY <1>1, <1>2, <1>3, <1>4, <1>5, <1>6, <1>7, <1>8, <1>9, <1>10 DEF BatchNext

LEMMA BatchKeepsComplete ==
    ASSUME BatchInv, BatchNext
    PROVE  CompleteInv'
<1> USE DEF BatchInv, BatchTypeOK, CompleteInv, Fails, call, GetGoesTo
<1>1. ASSUME NEW r \in Readers, NEW ids \in SUBSET Ids, BatchGet(r, ids) PROVE CompleteInv'
  BY <1>1 DEF BatchGet
<1>2. ASSUME NEW r \in Readers, MultiGet(r) PROVE CompleteInv'
  BY <1>2 DEF MultiGet
<1>3. ASSUME NEW r \in Readers, MultiGetFails(r) PROVE CompleteInv'
  BY <1>3 DEF MultiGetFails
<1>4. ASSUME NEW r \in Readers, BatchDataFromDatabase(r) PROVE CompleteInv'
  BY <1>4 DEF BatchDataFromDatabase, Nothing
<1>5. ASSUME NEW r \in Readers, NEW k \in Ids, SetInRedis(r, k) PROVE CompleteInv'
  BY <1>5 DEF SetInRedis, Nothing
<1>6. ASSUME NEW k \in Ids, ChangeRow(k) PROVE CompleteInv'
  BY <1>6, BatchAssumption DEF ChangeRow
<1>7. ASSUME NEW k \in Ids, DeleteKey(k) PROVE CompleteInv'
  BY <1>7 DEF DeleteKey
<1>8. ASSUME NEW k \in Ids, DeleteThrows(k) PROVE CompleteInv'
  BY <1>8 DEF DeleteThrows
<1>9. ASSUME NEW k \in Ids, KeyExpires(k) \/ Replicate(k) PROVE CompleteInv'
  BY <1>9 DEF KeyExpires, Replicate
<1> QED
  BY <1>1, <1>2, <1>3, <1>4, <1>5, <1>6, <1>7, <1>8, <1>9 DEF BatchNext

(* What is new in redis, in a list or in a result comes from where nothing  *)
(* is older.                                                               *)
LEMMA BatchKeepsRecent ==
    ASSUME BatchInv, BatchNext
    PROVE  RecentInv'
<1> USE DEF NoneOlder, AtLeast
<1>0. /\ changes \in Nat
      /\ row \in [Ids -> Nat \cup {NoRow}] /\ key \in [Ids -> Nat \cup {NoRow}]
      /\ replica \in [Ids -> Nat \cup {NoRow}]
      /\ list \in [Readers -> [Ids -> Nat \cup {NoRow}]]
      /\ found \in [Readers -> [Ids -> Nat \cup {NoRow}]]
      /\ began \in [Readers -> [Ids -> Nat \cup {NoRow}]]
      /\ trusted \in [Readers -> SUBSET Ids] /\ NoRow \notin Nat
  BY BatchAssumption DEF BatchInv, BatchTypeOK, VersionOrNone, Versions
<1>i. RecentInv
  BY DEF BatchInv
<1>1. ASSUME NEW r \in Readers, NEW ids \in SUBSET Ids, BatchGet(r, ids) PROVE RecentInv'
  <2>1. /\ UNCHANGED <<row, key, replica, list, changes>>
        /\ trusted'[r] = {k \in ids : NothingOld(k)}
        /\ \A k \in ids : began'[r][k] = row[k]
        /\ \A k \in Ids : found'[r][k] = NoRow
        /\ \A q \in Readers \ {r} : /\ trusted'[q] = trusted[q] /\ began'[q] = began[q]
                                    /\ found'[q] = found[q]
    <3>1. /\ UNCHANGED <<row, key, replica, list, changes>>
          /\ trusted' = [trusted EXCEPT ![r] = {k \in ids : NothingOld(k)}]
          /\ began' = [began EXCEPT ![r] = [k \in Ids |-> IF k \in ids THEN row[k] ELSE NoRow]]
          /\ found' = [found EXCEPT ![r] = [k \in Ids |-> NoRow]]
      BY <1>1 DEF BatchGet, Nothing
    <3> QED
      BY <1>0, <1>1, <3>1
  <2>2. ASSUME NEW q \in Readers \ {r}, NEW k \in trusted[q], began[q][k] # NoRow
        PROVE  /\ began[q][k] <= changes /\ NoneOlder(k, began[q][k])
               /\ AtLeast(found[q][k], began[q][k])
    BY <1>i, <2>2, Zenon DEF RecentInv
  <2>3. ASSUME NEW k \in ids, NothingOld(k), row[k] # NoRow
        PROVE  row[k] <= changes /\ NoneOlder(k, row[k])
    <3>1. k \in Ids \ (changing \cup outrun) /\ replica[k] \in {NoRow, row[k]}
      BY <1>1, <2>3 DEF NothingOld
    <3>2. key[k] \in {NoRow, row[k]} /\ \A p \in Readers : list[p][k] \in {NoRow, row[k]}
      BY <3>1 DEF BatchInv, CurrentInv
    <3>3. row[k] \in Nat
      BY <1>0, <2>3, <3>1
    <3>4. row[k] <= changes
      BY <1>i, <2>3, <3>1, Zenon DEF RecentInv
    <3> QED
      BY <3>1, <3>2, <3>3, <3>4
  <2>4. \A k \in Ids : row[k] # NoRow => row[k] <= changes
    BY <1>i DEF RecentInv
  <2> QED
    BY <1>0, <2>1, <2>2, <2>3, <2>4 DEF RecentInv
<1>2. ASSUME NEW r \in Readers, MultiGet(r) PROVE RecentInv'
  BY <1>0, <1>i, <1>2 DEF MultiGet, RecentInv
<1>3. ASSUME NEW r \in Readers, MultiGetFails(r) PROVE RecentInv'
  BY <1>i, <1>3 DEF MultiGetFails, RecentInv
<1>4. ASSUME NEW r \in Readers, BatchDataFromDatabase(r) PROVE RecentInv'
  BY <1>0, <1>i, <1>4 DEF BatchDataFromDatabase, RecentInv
<1>5. ASSUME NEW r \in Readers, NEW k \in Ids, SetInRedis(r, k) PROVE RecentInv'
  BY <1>0, <1>i, <1>5 DEF SetInRedis, Fails, RecentInv
<1>6. ASSUME NEW k \in Ids, ChangeRow(k) PROVE RecentInv'
  <2>1. /\ \A j \in Ids : row'[j] = IF j = k THEN changes + 1 ELSE row[j]
        /\ changes' = changes + 1 /\ UNCHANGED <<key, replica, list, found, began, trusted>>
    BY <1>0, <1>6 DEF ChangeRow, call
  <2>2. \A j \in Ids : row'[j] # NoRow => row'[j] <= changes'
    BY <1>0, <1>i, <2>1 DEF RecentInv
  <2>3. ASSUME NEW q \in Readers, NEW j \in trusted[q], began[q][j] # NoRow
        PROVE  began[q][j] <= changes' /\ AtLeast(row'[j], began[q][j])
    <3>1. began[q][j] \in Nat /\ began[q][j] <= changes /\ AtLeast(row[j], began[q][j]) /\ j \in Ids
      BY <1>0, <1>i, <2>3 DEF RecentInv
    <3> QED
      BY <1>0, <2>1, <3>1
  <2> QED
    BY <1>i, <2>1, <2>2, <2>3 DEF RecentInv
<1>7. ASSUME NEW k \in Ids, DeleteKey(k) \/ DeleteThrows(k) \/ KeyExpires(k) \/ Replicate(k)
      PROVE  RecentInv'
  <2>1. /\ UNCHANGED <<row, list, found, began, trusted, changes>>
        /\ \A j \in Ids : key'[j] \in {key[j], NoRow} /\ replica'[j] \in {replica[j], key[j]}
    BY <1>0, <1>7 DEF DeleteKey, DeleteThrows, KeyExpires, Replicate, call
  <2> QED
    BY <1>0, <1>i, <2>1 DEF RecentInv
<1> QED
  BY <1>1, <1>2, <1>3, <1>4, <1>5, <1>6, <1>7 DEF BatchNext

LEMMA BatchStep == BatchInv /\ [BatchNext]_batchVars => BatchInv'
<1>1. CASE UNCHANGED batchVars
  BY <1>1 DEF BatchInv, BatchTypeOK, CurrentInv, CompleteInv, RecentInv, NoneOlder, batchVars
<1>2. CASE BatchNext
  BY <1>2, BatchKeepsTypes, BatchKeepsCurrent, BatchKeepsComplete, BatchKeepsRecent DEF BatchInv
<1> QED
  BY <1>1, <1>2

LEMMA BatchAlways == BatchSpec => []BatchInv
BY InitBatch, BatchStep, PTL DEF BatchSpec

(* However reads, writes, replica lag and failures of redis interleave, a   *)
(* call leaves out no id that had a row when it began and returns no row    *)
(* older than that one unless redis was behind at that moment, and redis    *)
(* has the row as the database has it but for ids that are being changed    *)
(* and those that a slow call put back (BatchGetData.batchGetForMap).       *)
THEOREM BatchResultsAreSound == BatchSpec => []BatchIsSound
<1>1. ASSUME BatchInv PROVE BatchIsSound
  <2>1. CachedIsCurrent
    BY <1>1 DEF BatchInv, CurrentInv, CachedIsCurrent
  <2>2. ResultIsComplete
    BY <1>1 DEF BatchInv, CompleteInv, ResultIsComplete
  <2>3. ResultIsRecent
    BY <1>1 DEF BatchInv, BatchTypeOK, CompleteInv, RecentInv, AtLeast, ResultIsRecent
  <2> QED
    BY <2>1, <2>2, <2>3 DEF BatchIsSound
<1> QED
  BY <1>1, BatchAlways, PTL

(* Frames of a connection: the reader stands between two of them.           *)

FramingSpec == FramingInit /\ [][FramingNext]_framingVars

(* Frames follow each other without a gap.                                  *)
Chained ==
    /\ stream # <<>> => stream[1].at = 0
    /\ \A i, j \in 1 .. Len(stream) : i < j => EndOf(stream[i]) <= stream[j].at
    /\ \A i \in 1 .. Len(stream) : i + 1 <= Len(stream) => stream[i + 1].at = EndOf(stream[i])

(* The reader has read the first k frames.                                  *)
ReadUpTo(k) ==
    /\ readerIndex = IF k = 0 THEN 0 ELSE EndOf(stream[k])
    /\ {decoded[j] : j \in DOMAIN decoded} = {i \in 1 .. k : stream[i].readable}
    /\ \A i, j \in DOMAIN decoded : i < j => decoded[i] < decoded[j]

FramingInv == FramingTypeOK /\ Chained /\ FramesAreMessages /\ NoFrameWaits

LEMMA FramingInitial == FramingInit => FramingInv
<1> SUFFICES ASSUME FramingInit PROVE FramingInv
  OBVIOUS
<1>1. FramingTypeOK
  <2>1. stream \in Seq([at : Nat, length : Lengths, readable : BOOLEAN]) /\ Len(stream) = 0
        /\ decoded \in Seq(Nat)
    BY DEF FramingInit
  <2>2. arrived \in 0 .. Written /\ readerIndex \in 0 .. arrived /\ Len(stream) <= MaxMessages
    BY <2>1, FramingAssumption DEF FramingInit, Written
  <2>3. decoding \in BOOLEAN /\ thrown \in BOOLEAN
    BY DEF FramingInit
  <2> QED
    BY <2>1, <2>2, <2>3 DEF FramingTypeOK
<1>2. Chained /\ NoFrameWaits
  BY DEF FramingInit, Chained, NoFrameWaits
<1>3. FramesAreMessages
  BY DEF FramingInit, FramesAreMessages
<1> QED
  BY <1>1, <1>2, <1>3 DEF FramingInv

(* The numbers behind the state.                                            *)
LEMMA FramingFacts ==
    ASSUME FramingInv
    PROVE  /\ Len(stream) \in Nat /\ arrived \in Nat /\ readerIndex \in Nat
           /\ readerIndex <= arrived /\ arrived <= Written /\ Written \in Nat
           /\ \A i \in 1 .. Len(stream) :
                 /\ stream[i].at \in Nat /\ stream[i].length \in Nat
                 /\ EndOf(stream[i]) \in Nat
                 /\ EndOf(stream[i]) = stream[i].at + 4 + stream[i].length
                 /\ stream[i].at < EndOf(stream[i]) /\ stream[i].at <= EndOf(stream[i])
                 /\ EndOf(stream[i]) <= Written
           /\ Len(stream) # 0 => Written = EndOf(stream[Len(stream)])
           /\ Len(stream) = 0 => Written = 0
<1>1. Len(stream) \in Nat
  BY DEF FramingInv, FramingTypeOK
<1>2. \A i \in 1 .. Len(stream) :
          /\ stream[i].at \in Nat /\ stream[i].length \in Nat
          /\ EndOf(stream[i]) \in Nat
          /\ EndOf(stream[i]) = stream[i].at + 4 + stream[i].length
          /\ stream[i].at < EndOf(stream[i]) /\ stream[i].at <= EndOf(stream[i])
  <2> TAKE i \in 1 .. Len(stream)
  <2>1. stream[i] \in [at : Nat, length : Lengths, readable : BOOLEAN]
    <3>1. stream \in Seq([at : Nat, length : Lengths, readable : BOOLEAN])
      BY DEF FramingInv, FramingTypeOK
    <3> QED
      BY <3>1, ElementOfSeq
  <2>2. stream[i].at \in Nat /\ stream[i].length \in Nat
    BY <2>1, FramingAssumption
  <2>3. EndOf(stream[i]) = stream[i].at + 4 + stream[i].length
    BY DEF EndOf, HEADER
  <2> HIDE DEF EndOf
  <2> QED
    BY <2>2, <2>3
<1>3. /\ Len(stream) # 0 => Written = EndOf(stream[Len(stream)])
      /\ Len(stream) = 0 => Written = 0
  BY <1>1 DEF Written, FramingInv, FramingTypeOK
<1>4. Written \in Nat
  <2>1. Len(stream) # 0 => Len(stream) \in 1 .. Len(stream)
    BY <1>1
  <2> QED
    BY <1>2, <1>3, <2>1
<1>5. arrived \in Nat /\ readerIndex \in Nat /\ readerIndex <= arrived /\ arrived <= Written
  BY <1>4 DEF FramingInv, FramingTypeOK
<1>6. ASSUME NEW i \in 1 .. Len(stream) PROVE EndOf(stream[i]) <= Written
  <2>1. Len(stream) \in 1 .. Len(stream) /\ Written = EndOf(stream[Len(stream)])
    BY <1>1, <1>3
  <2>2. CASE i = Len(stream)
    BY <1>2, <2>1, <2>2
  <2>3. CASE i < Len(stream)
    <3>1. EndOf(stream[i]) <= stream[Len(stream)].at
      BY <2>1, <2>3 DEF FramingInv, Chained
    <3> QED
      BY <1>2, <2>1, <3>1
  <2> QED
    BY <1>1, <2>2, <2>3
<1> QED
  BY <1>1, <1>2, <1>3, <1>4, <1>5, <1>6

(* The frame at the reader is the one after those that have been read.      *)
LEMMA NextFrame ==
    ASSUME FramingInv, NEW k \in 0 .. Len(stream), ReadUpTo(k)
    PROVE  /\ k = Len(stream) => readerIndex = Written
           /\ k < Len(stream) => /\ FramesAt(readerIndex) = {k + 1}
                                 /\ stream[k + 1].at = readerIndex
                                 /\ k + 1 \in 1 .. Len(stream)
           /\ \A i \in 1 .. Len(stream) : i <= k => EndOf(stream[i]) <= readerIndex
           /\ \A i \in 1 .. Len(stream) : i > k => EndOf(stream[k + 1]) <= EndOf(stream[i])
<1> USE FramingFacts
<1>1. k = Len(stream) => readerIndex = Written
  BY DEF ReadUpTo
<1>2. ASSUME k < Len(stream) PROVE stream[k + 1].at = readerIndex /\ k + 1 \in 1 .. Len(stream)
  <2>1. k + 1 \in 1 .. Len(stream)
    BY <1>2
  <2>2. CASE k = 0
    BY <2>1, <2>2 DEF ReadUpTo, FramingInv, Chained
  <2>3. CASE k # 0
    BY <2>1, <2>3 DEF ReadUpTo, FramingInv, Chained
  <2> QED
    BY <2>1, <2>2, <2>3
<1>3. \A i \in 1 .. Len(stream) : i <= k => EndOf(stream[i]) <= readerIndex
  <2> SUFFICES ASSUME NEW i \in 1 .. Len(stream), i <= k PROVE EndOf(stream[i]) <= readerIndex
    OBVIOUS
  <2>1. k \in 1 .. Len(stream) /\ readerIndex = EndOf(stream[k])
    BY DEF ReadUpTo
  <2>2. CASE i = k
    BY <2>1, <2>2
  <2>3. CASE i < k
    <3>1. EndOf(stream[i]) <= stream[k].at
      BY <2>1, <2>3 DEF FramingInv, Chained
    <3> QED
      BY <2>1, <3>1
  <2> QED
    BY <2>2, <2>3
<1>4. \A i \in 1 .. Len(stream) : i > k => EndOf(stream[k + 1]) <= EndOf(stream[i])
  <2> SUFFICES ASSUME NEW i \in 1 .. Len(stream), i > k
               PROVE  EndOf(stream[k + 1]) <= EndOf(stream[i])
    OBVIOUS
  <2>1. k + 1 \in 1 .. Len(stream)
    OBVIOUS
  <2>2. CASE i = k + 1
    BY <2>1, <2>2
  <2>3. CASE i > k + 1
    <3>1. EndOf(stream[k + 1]) <= stream[i].at
      BY <2>1, <2>3 DEF FramingInv, Chained
    <3>2. stream[i].at <= EndOf(stream[i]) /\ stream[i].at \in Nat /\ EndOf(stream[i]) \in Nat
          /\ EndOf(stream[k + 1]) \in Nat
      BY <2>1
    <3> QED
      BY <3>1, <3>2
  <2> QED
    BY <2>2, <2>3
<1>5. ASSUME k < Len(stream) PROVE FramesAt(readerIndex) = {k + 1}
  <2>1. ASSUME NEW i \in 1 .. Len(stream), stream[i].at = readerIndex PROVE i = k + 1
    <3>1. ~(i <= k)
      <4> SUFFICES ASSUME i <= k PROVE FALSE
        OBVIOUS
      <4>1. EndOf(stream[i]) <= readerIndex
        BY <1>3
      <4>2. stream[i].at < EndOf(stream[i]) /\ stream[i].at \in Nat /\ EndOf(stream[i]) \in Nat
        OBVIOUS
      <4> QED
        BY <2>1, <4>1, <4>2
    <3>2. ~(i > k + 1)
      <4> SUFFICES ASSUME i > k + 1 PROVE FALSE
        OBVIOUS
      <4>1. EndOf(stream[k + 1]) <= stream[i].at
        BY <1>2, <1>5 DEF FramingInv, Chained
      <4>2. /\ stream[k + 1].at = readerIndex /\ k + 1 \in 1 .. Len(stream)
        BY <1>2, <1>5
      <4>3. readerIndex < EndOf(stream[k + 1]) /\ EndOf(stream[k + 1]) \in Nat
        BY <4>2
      <4> QED
        BY <2>1, <4>1, <4>3
    <3> QED
      BY <3>1, <3>2
  <2> QED
    BY <1>2, <1>5, <2>1 DEF FramesAt
<1> QED
  BY <1>1, <1>2, <1>3, <1>4, <1>5

LEMMA WhereReader == FramingInv => \E k \in 0 .. Len(stream) : ReadUpTo(k)
BY DEF FramingInv, FramesAreMessages, ReadUpTo

LEMMA EncodeKeeps ==
    ASSUME FramingInv, NEW l \in Lengths, NEW ok \in BOOLEAN, Encode(l, ok)
    PROVE  FramingInv'
<1> DEFINE f == [at |-> Written, length |-> l, readable |-> ok]
           n == Len(stream)
<1>1. /\ stream' = Append(stream, f) /\ UNCHANGED <<arrived, readerIndex, decoding, thrown, decoded>>
      /\ n < MaxMessages /\ n \in Nat /\ Written \in Nat /\ l \in Nat
  BY FramingFacts, FramingAssumption DEF Encode
<1>2. f \in [at : Nat, length : Lengths, readable : BOOLEAN]
  BY <1>1
<1>3. stream \in Seq([at : Nat, length : Lengths, readable : BOOLEAN])
  BY DEF FramingInv, FramingTypeOK
<1>4. /\ Len(stream') = n + 1 /\ stream'[n + 1] = f
      /\ \A i \in 1 .. n : stream'[i] = stream[i]
      /\ stream' \in Seq([at : Nat, length : Lengths, readable : BOOLEAN])
      /\ stream' # <<>>
  <2> HIDE DEF f
  <2> QED
    BY <1>1, <1>2, <1>3
<1>5. f.at = Written /\ EndOf(f) = Written + 4 + l
  BY DEF EndOf, HEADER
<1> HIDE DEF f
<1>6. Written' = EndOf(f)
  BY <1>1, <1>4 DEF Written
<1>7. FramingTypeOK'
  <2>1. arrived' \in 0 .. Written' /\ readerIndex' \in 0 .. arrived'
    BY <1>1, <1>5, <1>6, FramingFacts
  <2>2. decoding' \in BOOLEAN /\ thrown' \in BOOLEAN
    BY <1>1, Zenon DEF FramingInv, FramingTypeOK
  <2>3. decoded' \in Seq(Nat) /\ Len(stream') <= MaxMessages
    BY <1>1, <1>4, FramingAssumption DEF FramingInv, FramingTypeOK
  <2> QED
    BY <1>4, <2>1, <2>2, <2>3 DEF FramingTypeOK
<1>8. Chained'
  <2>1. stream'[1].at = 0
    <3>1. CASE n = 0
      BY <1>1, <1>4, <1>5, <3>1, FramingFacts
    <3>2. CASE n # 0
      <4>1. stream # <<>> /\ 1 \in 1 .. n
        BY <1>1, <3>2
      <4> QED
        BY <1>4, <4>1 DEF FramingInv, Chained
    <3> QED
      BY <3>1, <3>2
  <2>2. ASSUME NEW i \in 1 .. n + 1, NEW j \in 1 .. n + 1, i < j
        PROVE  EndOf(stream'[i]) <= stream'[j].at
    <3>1. i \in 1 .. n /\ stream'[i] = stream[i]
      BY <1>1, <1>4, <2>2
    <3>2. CASE j = n + 1
      BY <1>1, <1>4, <1>5, <3>1, <3>2, FramingFacts
    <3>3. CASE j \in 1 .. n
      BY <1>4, <2>2, <3>1, <3>3 DEF FramingInv, Chained
    <3> QED
      BY <1>1, <3>2, <3>3
  <2>3. ASSUME NEW i \in 1 .. n + 1, i + 1 <= n + 1
        PROVE  stream'[i + 1].at = EndOf(stream'[i])
    <3>1. i \in 1 .. n /\ stream'[i] = stream[i]
      BY <1>1, <1>4, <2>3
    <3>2. CASE i = n
      BY <1>1, <1>4, <1>5, <3>1, <3>2, FramingFacts
    <3>3. CASE i < n
      <4>1. i + 1 \in 1 .. n
        BY <1>1, <3>1, <3>3
      <4> QED
        BY <1>4, <3>1, <4>1 DEF FramingInv, Chained
    <3> QED
      BY <1>1, <3>1, <3>2, <3>3
  <2> HIDE DEF n
  <2> QED
    BY <1>4, <2>1, <2>2, <2>3 DEF Chained
<1>9. FramesAreMessages'
  <2>1. PICK k \in 0 .. n : ReadUpTo(k)
    BY WhereReader
  <2>2. k \in 0 .. n + 1 /\ \A i \in 1 .. k : i \in 1 .. n /\ stream'[i] = stream[i]
    BY <1>1, <1>4
  <2>3. readerIndex = IF k = 0 THEN 0 ELSE EndOf(stream'[k])
    BY <2>1, <2>2 DEF ReadUpTo
  <2>4. {i \in 1 .. k : stream'[i].readable} = {i \in 1 .. k : stream[i].readable}
    BY <2>2
  <2> HIDE DEF n
  <2>5. k \in 0 .. Len(stream') /\ readerIndex' = IF k = 0 THEN 0 ELSE EndOf(stream'[k])
    BY <1>1, <1>4, <2>2, <2>3
  <2>6. /\ {decoded'[j] : j \in DOMAIN decoded'} = {i \in 1 .. k : stream'[i].readable}
        /\ \A i, j \in DOMAIN decoded' : i < j => decoded'[i] < decoded'[j]
    BY <1>1, <2>1, <2>4 DEF ReadUpTo
  <2> QED
    BY <2>5, <2>6 DEF FramesAreMessages
<1>10. NoFrameWaits'
  <2> SUFFICES ASSUME ~decoding, ~thrown, NEW i \in 1 .. n + 1, EndOf(stream'[i]) <= arrived
               PROVE  EndOf(stream'[i]) <= readerIndex
    BY <1>1, <1>4 DEF NoFrameWaits
  <2>1. CASE i = n + 1
    BY <1>1, <1>4, <1>5, <2>1, FramingFacts
  <2>2. CASE i \in 1 .. n
    BY <1>4, <2>2 DEF FramingInv, NoFrameWaits
  <2> QED
    BY <1>1, <2>1, <2>2
<1> QED
  BY <1>7, <1>8, <1>9, <1>10 DEF FramingInv

LEMMA ReadBytesKeeps ==
    ASSUME FramingInv, NEW n \in 1 .. Written - arrived, ReadBytes(n)
    PROVE  FramingInv'
<1>1. /\ arrived' = arrived + n /\ arrived + n <= Written
      /\ decoding' /\ decoding' \in BOOLEAN /\ thrown' \in BOOLEAN
      /\ UNCHANGED <<stream, readerIndex, decoded>>
  BY DEF ReadBytes
<1>2. Written' = Written /\ arrived' \in 0 .. Written /\ readerIndex' \in 0 .. arrived'
  BY <1>1, FramingFacts DEF Written
<1>3. FramingTypeOK'
  BY <1>1, <1>2 DEF FramingInv, FramingTypeOK
<1> QED
  BY <1>1, <1>3 DEF FramingInv, Chained, FramesAreMessages, NoFrameWaits

(* The loop ends only when the frame at the reader is not complete.         *)
LEMMA DecodeNothingKeeps ==
    ASSUME FramingInv, DecodeNothing
    PROVE  FramingInv'
<1>1. /\ ~decoding' /\ decoding' \in BOOLEAN /\ UNCHANGED <<stream, arrived, readerIndex, thrown, decoded>>
      /\ \/ arrived - readerIndex < 4
         \/ \E l \in ReadInt : arrived - readerIndex - 4 < l
  BY DEF DecodeNothing, readableBytes, HEADER
<1>2. Written' = Written
  BY <1>1 DEF Written
<1>3. FramingTypeOK'
  <2>1. thrown' \in BOOLEAN
    BY <1>1, Zenon DEF FramingInv, FramingTypeOK
  <2> QED
    BY <1>1, <1>2, <2>1 DEF FramingInv, FramingTypeOK
<1>4. ASSUME NEW i \in 1 .. Len(stream), EndOf(stream[i]) <= arrived
      PROVE  EndOf(stream[i]) <= readerIndex
  <2>1. PICK k \in 0 .. Len(stream) : ReadUpTo(k)
    BY WhereReader
  <2>2. CASE i <= k
    BY <2>1, <2>2, NextFrame
  <2>3. CASE i > k
    <3>1. /\ FramesAt(readerIndex) = {k + 1} /\ stream[k + 1].at = readerIndex
          /\ k + 1 \in 1 .. Len(stream) /\ EndOf(stream[k + 1]) <= EndOf(stream[i])
      BY <2>1, <2>3, NextFrame, FramingFacts
    <3>2. ReadInt = {stream[k + 1].length}
      BY <3>1 DEF ReadInt
    <3>3. arrived - readerIndex < 4 + stream[k + 1].length
      BY <1>1, <3>1, <3>2, FramingFacts
    <3>4. arrived \in Int /\ readerIndex \in Int /\ stream[k + 1].length \in Int
          /\ EndOf(stream[i]) \in Int
      BY <3>1, FramingFacts
    <3>5. EndOf(stream[k + 1]) = readerIndex + 4 + stream[k + 1].length
      BY <3>1 DEF EndOf, HEADER
    <3> QED
      BY <1>4, <3>1, <3>3, <3>4, <3>5
  <2> QED
    BY <2>2, <2>3, FramingFacts
<1>5. NoFrameWaits'
  BY <1>1, <1>4 DEF NoFrameWaits
<1> QED
  BY <1>1, <1>3, <1>5 DEF FramingInv, Chained, FramesAreMessages

LEMMA DecodeFrameKeeps ==
    ASSUME FramingInv, DecodeFrame
    PROVE  FramingInv'
<1>1. PICK k \in 0 .. Len(stream) : ReadUpTo(k)
  BY WhereReader
<1>2. arrived - readerIndex >= 4 /\ decoding /\ UNCHANGED <<stream, arrived>>
  BY DEF DecodeFrame, readableBytes, HEADER
<1>3. k < Len(stream)
  BY <1>1, <1>2, NextFrame, FramingFacts
<1>4. /\ FramesAt(readerIndex) = {k + 1} /\ stream[k + 1].at = readerIndex
      /\ k + 1 \in 1 .. Len(stream)
  BY <1>1, <1>3, NextFrame
<1>5. ReadInt = {stream[k + 1].length}
  BY <1>4 DEF ReadInt
<1>6. readerIndex' = EndOf(stream[k + 1]) /\ readerIndex' <= arrived
  <2>1. /\ arrived - readerIndex - 4 >= stream[k + 1].length
        /\ readerIndex' = readerIndex + 4 + stream[k + 1].length
    BY <1>5 DEF DecodeFrame, readableBytes, HEADER
  <2> QED
    BY <1>4, <2>1, FramingFacts
<1>7. \/ stream[k + 1].readable /\ decoded' = Append(decoded, k + 1) /\ UNCHANGED <<decoding, thrown>>
      \/ ~stream[k + 1].readable /\ ~decoding' /\ thrown' /\ decoding' \in BOOLEAN
            /\ thrown' \in BOOLEAN /\ UNCHANGED decoded
  BY <1>4 DEF DecodeFrame
<1>8. decoded \in Seq(Nat) /\ decoding \in BOOLEAN /\ thrown \in BOOLEAN
  BY DEF FramingInv, FramingTypeOK
<1>9. FramingTypeOK'
  <2>1. readerIndex' \in 0 .. arrived /\ arrived' \in 0 .. Written'
    BY <1>2, <1>4, <1>6, FramingFacts DEF Written
  <2>2. decoding' \in BOOLEAN /\ thrown' \in BOOLEAN
    BY <1>7, <1>8, Zenon
  <2>3. decoded' \in Seq(Nat)
    <3>1. k + 1 \in Nat
      BY <1>4
    <3>2. decoded' = decoded \/ decoded' = Append(decoded, k + 1)
      BY <1>7
    <3> QED
      BY <1>8, <3>1, <3>2, AppendProperties
  <2> QED
    BY <1>2, <2>1, <2>2, <2>3 DEF FramingInv, FramingTypeOK
<1>10. NoFrameWaits'
  BY <1>2, <1>7 DEF NoFrameWaits
<1>11. FramesAreMessages'
  <2>1. k + 1 # 0 /\ {i \in 1 .. k + 1 : stream[i].readable}
            = {i \in 1 .. k : stream[i].readable}
                \cup (IF stream[k + 1].readable THEN {k + 1} ELSE {})
    <3>1. 1 .. k + 1 = (1 .. k) \cup {k + 1}
      BY <1>4
    <3> QED
      BY <1>4, <3>1
  <2>2. {decoded[j] : j \in DOMAIN decoded} = {i \in 1 .. k : stream[i].readable}
    BY <1>1 DEF ReadUpTo
  <2>3. \A i, j \in DOMAIN decoded : i < j => decoded[i] < decoded[j]
    BY <1>1 DEF ReadUpTo
  <2>4. CASE stream[k + 1].readable /\ decoded' = Append(decoded, k + 1)
    <3>1. /\ DOMAIN decoded = 1 .. Len(decoded) /\ Len(decoded) \in Nat
          /\ DOMAIN decoded' = 1 .. Len(decoded) + 1
          /\ \A j \in 1 .. Len(decoded) : decoded'[j] = decoded[j]
          /\ decoded'[Len(decoded) + 1] = k + 1
      BY <1>8, <2>4
    <3>2. {decoded'[j] : j \in DOMAIN decoded'} = {decoded[j] : j \in DOMAIN decoded} \cup {k + 1}
      <4>1. DOMAIN decoded' = (1 .. Len(decoded)) \cup {Len(decoded) + 1}
        BY <3>1
      <4> QED
        BY <3>1, <4>1
    <3>3. \A j \in DOMAIN decoded : decoded[j] \in 1 .. k
      BY <2>2
    <3>4. ASSUME NEW i \in DOMAIN decoded', NEW j \in DOMAIN decoded', i < j
          PROVE  decoded'[i] < decoded'[j]
      <4>1. i \in 1 .. Len(decoded) /\ decoded'[i] = decoded[i]
        BY <3>1, <3>4
      <4>2. CASE j = Len(decoded) + 1
        BY <3>1, <3>3, <4>1, <4>2
      <4>3. CASE j \in 1 .. Len(decoded)
        BY <2>3, <3>1, <3>4, <4>1, <4>3
      <4> QED
        BY <3>1, <4>2, <4>3
    <3>5. {decoded'[j] : j \in DOMAIN decoded'} = {i \in 1 .. k + 1 : stream[i].readable}
      BY <2>1, <2>2, <2>4, <3>2
    <3>6. k + 1 \in 0 .. Len(stream) /\ readerIndex' = IF k + 1 = 0 THEN 0 ELSE EndOf(stream[k + 1])
      BY <1>4, <1>6, <2>1
    <3> QED
      BY <1>2, <3>4, <3>5, <3>6 DEF FramesAreMessages
  <2>5. CASE ~stream[k + 1].readable /\ UNCHANGED decoded
    <3>1. k + 1 \in 0 .. Len(stream) /\ readerIndex' = IF k + 1 = 0 THEN 0 ELSE EndOf(stream[k + 1])
      BY <1>4, <1>6, <2>1
    <3>2. {decoded[j] : j \in DOMAIN decoded} = {i \in 1 .. k + 1 : stream[i].readable}
      BY <2>1, <2>2, <2>5
    <3> QED
      BY <1>2, <2>3, <2>5, <3>1, <3>2 DEF FramesAreMessages
  <2> QED
    BY <1>7, <2>4, <2>5
<1>12. Chained'
  BY <1>2 DEF FramingInv, Chained
<1> QED
  BY <1>9, <1>10, <1>11, <1>12 DEF FramingInv

LEMMA FramingStep == FramingInv /\ [FramingNext]_framingVars => FramingInv'
<1> SUFFICES ASSUME FramingInv, [FramingNext]_framingVars PROVE FramingInv'
  OBVIOUS
<1>1. CASE UNCHANGED framingVars
  BY <1>1 DEF framingVars, FramingInv, FramingTypeOK, Chained, FramesAreMessages, NoFrameWaits, Written
<1> QED
  BY <1>1, EncodeKeeps, ReadBytesKeeps, DecodeNothingKeeps, DecodeFrameKeeps DEF FramingNext

LEMMA FramingAlways == FramingSpec => []FramingInv
BY FramingInitial, FramingStep, PTL DEF FramingSpec

(* However the bytes are cut into pieces, the receiver gets the sender's    *)
(* readable messages, in their order (ProtostuffDecoder.decode).            *)
THEOREM FramesBecomeMessages == FramingSpec => []FramingIsSound
<1>1. FramingInv => FramingIsSound
  BY DEF FramingInv, FramingIsSound
<1> QED
  BY <1>1, FramingAlways, PTL
=============================================================================
