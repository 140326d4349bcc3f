-------------------------- MODULE ServiceDiscovery --------------------------
(***************************************************************************)
(* The zookeeper component's ServiceDiscoveryFactory: discoveryService      *)
(* keeps one started provider per service name in a HashMap behind a        *)
(* double-checked lock, and close closes the providers in the order they    *)
(* were started.  close holds the monitor of the factory, discoveryService  *)
(* another lock, so the two run at the same time.                           *)
(*                                                                         *)
(* The first look at the map takes no lock: it may miss an entry that is    *)
(* there.  The provider of Curator is external; a provider is identified    *)
(* by the thread that built it and the service.                             *)
(***************************************************************************)
EXTENDS Integers, Sequences, FiniteSets

CONSTANTS Clients, Services, NoProvider, NoService, NoClient

ASSUME DiscoveryAssumption == /\ NoProvider \notin Clients \X Services
                              /\ NoService \notin Services
                              /\ NoClient \notin Clients

VARIABLES providers,     \* the map
          closeableList, \* the providers to close
          lock,          \* who holds the lock of discoveryService
          discPc,        \* where each client is in discoveryService
          wanted,        \* the service it asks for
          provider,      \* its local variable
          started,       \* the providers that have been started
          closedOnes,    \* the providers that have been closed
          closing,       \* close: not called, running, returned or thrown
          cursor,        \* close: how many providers it has closed
          expected,      \* close: how long the list was when it began
          toClose        \* history: the list when close began

discVars == <<providers, closeableList, lock, discPc, wanted, provider,
              started, closedOnes, closing, cursor, expected, toClose>>

Providers == Clients \X Services

DiscTypeOK ==
    /\ providers \in [Services -> Providers \cup {NoProvider}]
    /\ closeableList \in Seq(Providers) /\ toClose \in Seq(Providers)
    /\ lock \in Clients \cup {NoClient}
    /\ discPc \in [Clients -> {"idle", "read", "lock", "check", "start", "add",
                               "put", "use"}]
    /\ wanted \in [Clients -> Services \cup {NoService}]
    /\ provider \in [Clients -> Providers \cup {NoProvider}]
    /\ started \subseteq Providers /\ closedOnes \subseteq Providers
    /\ closing \in {"no", "running", "returned", "thrown"}
    /\ cursor \in Nat /\ expected \in Nat

DiscInit ==
    /\ providers = [s \in Services |-> NoProvider]
    /\ closeableList = <<>> /\ toClose = <<>>
    /\ lock = NoClient
    /\ discPc = [c \in Clients |-> "idle"]
    /\ wanted = [c \in Clients |-> NoService]
    /\ provider = [c \in Clients |-> NoProvider]
    /\ started = {} /\ closedOnes = {}
    /\ closing = "no" /\ cursor = 0 /\ expected = 0

----------------------------------------------------------------------------
Goto(c, from, to) == discPc[c] = from /\ discPc' = [discPc EXCEPT ![c] = to]

Entry(c) == providers[wanted[c]]

closeVars == <<closedOnes, closing, cursor, expected, toClose>>

\* discoveryService(s) is called.
Discover(c, s) ==
    /\ Goto(c, "idle", "read")
    /\ wanted' = [wanted EXCEPT ![c] = s]
    /\ UNCHANGED <<providers, closeableList, lock, provider, started, closeVars>>

\* The look without the lock: the entry, or null although there is one.
ReadMap(c) ==
    /\ \/ /\ Goto(c, "read", "use")
          /\ Entry(c) # NoProvider
          /\ provider' = [provider EXCEPT ![c] = Entry(c)]
       \/ Goto(c, "read", "lock") /\ UNCHANGED provider
    /\ UNCHANGED <<providers, closeableList, lock, wanted, started, closeVars>>

EnterLock(c) ==
    /\ lock = NoClient /\ Goto(c, "lock", "check")
    /\ lock' = c
    /\ UNCHANGED <<providers, closeableList, wanted, provider, started, closeVars>>

\* A mutation: no second look under the lock.
CheckNothing(c) ==
    /\ Goto(c, "check", "start")
    /\ UNCHANGED <<providers, closeableList, lock, wanted, provider, started,
                   closeVars>>

\* The second look: leave the lock with the provider, or build one.
CheckMap(c) ==
    /\ \/ /\ Goto(c, "check", "use")
          /\ Entry(c) # NoProvider
          /\ provider' = [provider EXCEPT ![c] = Entry(c)]
          /\ lock' = NoClient
       \/ /\ Goto(c, "check", "start")
          /\ Entry(c) = NoProvider
          /\ UNCHANGED <<provider, lock>>
    /\ UNCHANGED <<providers, closeableList, wanted, started, closeVars>>

\* provider.start: on an exception the lock is left and nothing is kept.
StartProvider(c) ==
    /\ \/ /\ Goto(c, "start", "add")
          /\ provider' = [provider EXCEPT ![c] = <<c, wanted[c]>>]
          /\ started' = started \cup {<<c, wanted[c]>>}
          /\ UNCHANGED <<lock, wanted>>
       \/ /\ Goto(c, "start", "idle")
          /\ lock' = NoClient
          /\ wanted' = [wanted EXCEPT ![c] = NoService]
          /\ UNCHANGED <<provider, started>>
    /\ UNCHANGED <<providers, closeableList, closeVars>>

AddCloseable(c) ==
    /\ Goto(c, "add", "put")
    /\ closeableList' = Append(closeableList, provider[c])
    /\ UNCHANGED <<providers, lock, wanted, provider, started, closeVars>>

PutMap(c) ==
    /\ Goto(c, "put", "use")
    /\ providers' = [providers EXCEPT ![wanted[c]] = provider[c]]
    /\ lock' = NoClient
    /\ UNCHANGED <<closeableList, wanted, provider, started, closeVars>>

\* provider.getInstance, and the call returns.
UseProvider(c) ==
    /\ Goto(c, "use", "idle")
    /\ wanted' = [wanted EXCEPT ![c] = NoService]
    /\ provider' = [provider EXCEPT ![c] = NoProvider]
    /\ UNCHANGED <<providers, closeableList, lock, started, closeVars>>

\* close: the iterator remembers the length of the list.
StartClose ==
    /\ closing = "no"
    /\ closing' = "running"
    /\ expected' = Len(closeableList) /\ toClose' = closeableList
    /\ UNCHANGED <<providers, closeableList, lock, discPc, wanted, provider,
                   started, closedOnes, cursor>>

\* hasNext and next: a list that has grown makes next throw a
\* ConcurrentModificationException, if this thread sees it: no lock makes
\* what another thread added visible.
CloseNext ==
    /\ closing = "running"
    /\ \/ /\ cursor < expected
          /\ closedOnes' = closedOnes \cup {toClose[cursor + 1]}
          /\ cursor' = cursor + 1 /\ UNCHANGED closing
       \/ /\ cursor = expected
          /\ closing' = "returned" /\ UNCHANGED <<closedOnes, cursor>>
       \/ /\ Len(closeableList) # expected
          /\ closing' = "thrown" /\ UNCHANGED <<closedOnes, cursor>>
    /\ UNCHANGED <<providers, closeableList, lock, discPc, wanted, provider,
                   started, expected, toClose>>

ClientStep(c) == \/ ReadMap(c) \/ EnterLock(c) \/ CheckMap(c) \/ StartProvider(c)
                 \/ AddCloseable(c) \/ PutMap(c) \/ UseProvider(c)

DiscNext ==
    \/ \E c \in Clients, s \in Services : Discover(c, s)
    \/ \E c \in Clients : ClientStep(c)
    \/ StartClose \/ CloseNext

DiscSpec == DiscInit /\ [][DiscNext]_discVars

----------------------------------------------------------------------------
(* Properties.                                                             *)

(* One provider per service is started, however many first callers look     *)
(* without the lock at the same time: the second look decides               *)
(* (ServiceDiscoveryFactory.java:64-75).                                   *)
OneProviderPerService ==
    \A s \in Services : Cardinality({p \in started : p[2] = s}) <= 1

(* A caller that has got past the map uses the provider of its own service, *)
(* and that provider has been started.                                     *)
UsesStartedProvider ==
    \A c \in Clients :
        discPc[c] = "use" => provider[c] \in started /\ provider[c][2] = wanted[c]

(* A close that returned has closed everything that was started, unless a   *)
(* first use of a service overlapped it or came after it: the list it walks *)
(* is guarded by another lock (ServiceDiscoveryFactory.java:84).           *)
CloseIsComplete ==
    closing = "returned" /\ closeableList = toClose
        /\ (\A c \in Clients : discPc[c] \notin {"add"})
            => started \subseteq closedOnes

(* The three together: the cache of providers hands out and closes what was *)
(* started, once for every service.                                        *)
ProvidersAreKept ==
    OneProviderPerService /\ UsesStartedProvider /\ CloseIsComplete
=============================================================================
