------------------------------ MODULE Routing ------------------------------
(***************************************************************************)
(* The routing and ARP tables (src/routing, src/arp) and the goroutine     *)
(* that refreshes them (startRefreshTimer).  MustInit and every refresh    *)
(* copy the kernel's tables piece by piece, while the kernel may change    *)
(* them; a router is published by assigning it to r, without a lock, so a  *)
(* reader finds the old one or the new one.  Media extends this module     *)
(* with newMedia, the only reader.                                         *)
(*                                                                         *)
(* A route is a record: to is the set of addresses in its Dst; default     *)
(* says that it has neither Dst nor Src; limited that it names an input    *)
(* interface or a Src, neither of which newMedia gives; out is its output  *)
(* interface, NoLink for a route without one (a multipath or a blackhole   *)
(* route); gateway may be NoGateway.                                       *)
(***************************************************************************)
EXTENDS Integers, SequencesExt

CONSTANTS Kernels,      \* the contents the kernel's tables may have
          Wired,        \* the interfaces that have a MAC; the loopback has none
          NoLink,
          NoGateway,
          Changes       \* bound on the changes of the kernel's tables

\* The kernel drops the routes of an interface with the interface.
ASSUME KernelsAssumption ==
    \A k \in Kernels : \A rt \in k.routes : rt.out \in k.links \cup {NoLink}
ASSUME ChangesAssumption == Changes \in Nat

VARIABLES
    kernel,     \* the kernel's routes, links and neighbours
    changes,    \* how often they have changed
    router,     \* r: sorted routes and interfaces, and whether they belong together
    table,      \* the ARP table: the addresses it has a MAC of
    refresh,    \* the next step of startRefreshTimer
    read        \* what the reload that is under way has read

kernelVars == <<kernel, changes>>
routingVars == <<kernelVars, router, table, refresh, read>>

Nothing == [table |-> {}, routes |-> <<>>, links |-> {}, from |-> {}, torn |-> FALSE]

\* sort.Sort by Priority: routes of one priority come in any order.
Sorted(routes) ==
    {s \in SetToSeqs(routes) : \A m, n \in DOMAIN s : m < n => s[m].prio <= s[n].prio}

\* MustInit has read the tables.
RoutingInit ==
    /\ kernel \in Kernels
    /\ changes = 0
    /\ \E s \in Sorted(kernel.routes) :
          router = [routes |-> s, links |-> kernel.links, torn |-> FALSE]
    /\ table = kernel.neighbours
    /\ refresh = "tick"
    /\ read = Nothing

-----------------------------------------------------------------------------
(* route: the first match, or else the last default route. *)

Chosen(routes, dst) ==
    LET usable == {n \in DOMAIN routes : ~routes[n].limited}
        match == {n \in usable : ~routes[n].default /\ dst \in routes[n].to}
        default == {n \in usable : routes[n].default}
        first == {n \in match : \A m \in match : n <= m}
        last == {n \in default : \A m \in default : m <= n}
    IN {routes[n] : n \in IF match # {} THEN first ELSE last}

-----------------------------------------------------------------------------
(* Mutated forms of the definitions below, each a slip of the code. *)

ReadLinksWithMac ==                              \* interfaces without a MAC skipped
    /\ refresh = "links"
    /\ read' = [read EXCEPT !.links = kernel.links \cap Wired,
                            !.torn = kernel # read.from, !.from = {}]
    /\ refresh' = "publish"
    /\ UNCHANGED <<kernelVars, router, table>>

PublishNothing ==                                \* r, err := New()
    /\ refresh = "publish"
    /\ read' = Nothing
    /\ refresh' = "tick"
    /\ UNCHANGED <<kernelVars, router, table>>

-----------------------------------------------------------------------------
(* The kernel *)

KernelChanges ==
    /\ changes < Changes
    /\ kernel' \in Kernels \ {kernel}
    /\ changes' = changes + 1
    /\ UNCHANGED <<router, table, refresh, read>>

-----------------------------------------------------------------------------
(* startRefreshTimer: arp.Reload, then routing.Reload, whose New reads the *)
(* routes and then the interfaces; an error leaves the old table in use.   *)

ReadArp ==
    /\ refresh = "tick"
    /\ read' = [read EXCEPT !.table = kernel.neighbours]
    /\ refresh' = "arp"
    /\ UNCHANGED <<kernelVars, router, table>>

ReadArpFails ==
    /\ refresh = "tick"
    /\ refresh' = "routes"
    /\ UNCHANGED <<kernelVars, router, table, read>>

PublishArp ==
    /\ refresh = "arp"
    /\ table' = read.table
    /\ read' = Nothing
    /\ refresh' = "routes"
    /\ UNCHANGED <<kernelVars, router>>

ReadRoutes ==
    /\ refresh = "routes"
    /\ \E s \in Sorted(kernel.routes) :
          read' = [read EXCEPT !.routes = s, !.from = kernel]
    /\ refresh' = "links"
    /\ UNCHANGED <<kernelVars, router, table>>

ReadLinks ==
    /\ refresh = "links"
    /\ read' = [read EXCEPT !.links = kernel.links, !.torn = kernel # read.from,
                            !.from = {}]
    /\ refresh' = "publish"
    /\ UNCHANGED <<kernelVars, router, table>>

NewFails ==
    /\ refresh \in {"routes", "links"}
    /\ read' = Nothing
    /\ refresh' = "tick"
    /\ UNCHANGED <<kernelVars, router, table>>

Publish ==
    /\ refresh = "publish"
    /\ router' = [routes |-> read.routes, links |-> read.links, torn |-> read.torn]
    /\ read' = Nothing
    /\ refresh' = "tick"
    /\ UNCHANGED <<kernelVars, table>>

Refresh ==
    \/ ReadArp \/ ReadArpFails \/ PublishArp
    \/ ReadRoutes \/ ReadLinks \/ NewFails \/ Publish

\* The ticker ticks, and no read fails for ever.
RefreshFairness ==
    /\ WF_routingVars(Refresh)
    /\ SF_routingVars(ReadArp) /\ SF_routingVars(ReadRoutes) /\ SF_routingVars(ReadLinks)
=============================================================================
