------------------------------- MODULE Routes -------------------------------
(****************************************************************************)
(* The routes an OpenVPN client puts into the Linux routing table and takes *)
(* out again (route.c, do_open_tun and do_close_tun of init.c,              *)
(* networking_sitnl.c), for one client or for several that share the table. *)
(*                                                                          *)
(* The table maps a destination to a gateway: adding a route replaces the   *)
(* one with the same destination, deleting one needs the gateway to match.  *)
(* A client's tunnel is a gateway named after the client.  Any command may  *)
(* fail: OpenVPN warns, goes on and sets its flags as if it had worked.     *)
(* bare and spoiled only record which failures there were.  IPv6 routes,    *)
(* bypass routes and block-local are left out: the first repeat the IPv4    *)
(* code, the others are empty on Linux unless the server pushes them.       *)
(****************************************************************************)
EXTENDS Naturals, Sequences, FiniteSets, SequencesExt

CONSTANTS Clients,
          Remote,       \* the server's host, by client
          Nets,         \* destinations the server may push routes for
          Modes,        \* redirections it may push: "none", "def1", "replace"
          Lan,          \* the gateway of the network the machine is on
          NoRoute,
          UserRoutes,   \* destinations routed to the Lan before any client runs
          PersistTun    \* --persist-tun

Hosts    == {Remote[p] : p \in Clients}
Dests    == {"default", "low", "high"} \cup Hosts \cup Nets
Gateways == {Lan} \cup Clients

ASSUME RoutesAssumption ==
    /\ Modes \subseteq {"none", "def1", "replace"}
    /\ Lan \notin Clients
    /\ NoRoute \notin Gateways
    /\ UserRoutes \subseteq Dests
    /\ PersistTun \in BOOLEAN
    /\ IsFiniteSet(Nets)
    /\ Hosts \cap {"default", "low", "high"} = {}

VARIABLES
    table,   \* the kernel's routing table
    phase,   \* of each client: down, adding, up, kept, deleting
    todo,    \* the route commands the client still has to give
    rl,      \* its route list: what was pushed, what it has done
    bare,    \* history: clients to whose server no host route could be added
    spoiled  \* history: destinations whose route could not be put back

routesVars == <<table, phase, todo, rl, bare, spoiled>>

Table0 == [d \in Dests |-> IF d \in UserRoutes THEN Lan ELSE NoRoute]

(* An empty route list.  "gateway" is the default gateway found when the     *)
(* list was made, "added" the pushed routes with RT_ADDED.                   *)
NoList ==
    [mode |-> "none", local |-> FALSE, gateway |-> NoRoute, added |-> {},
     did_local |-> FALSE, did_redirect |-> FALSE]

RoutesInit ==
    /\ table = Table0
    /\ phase = [p \in Clients |-> "down"]
    /\ todo = [p \in Clients |-> <<>>]
    /\ rl = [p \in Clients |-> NoList]
    /\ bare = {} /\ spoiled = {}

-----------------------------------------------------------------------------
add_route(d, g)    == [op |-> "add", dest |-> d, gw |-> g]
delete_route(d, g) == [op |-> "delete", dest |-> d, gw |-> g]

(* The commands of a list of conditional parts.                              *)
If(c, s) == IF c THEN s ELSE <<>>

(* Mutant: the default route goes before the host route comes.               *)
RedirectFirst(p, mode, local, gw) ==
    If(mode = "def1", <<add_route("low", p), add_route("high", p)>>)
        \o If(mode = "replace" /\ gw # NoRoute, <<delete_route("default", gw)>>)
        \o If(mode = "replace", <<add_route("default", p)>>)
        \o If(~local, <<add_route(Remote[p], gw)>>)

(* redirect_default_route_to_vpn: the server's host keeps its way, then the  *)
(* default route is covered by two halves or replaced.                       *)
Redirect(p, mode, local, gw) ==
    If(~local, <<add_route(Remote[p], gw)>>)
        \o If(mode = "def1", <<add_route("low", p), add_route("high", p)>>)
        \o If(mode = "replace" /\ gw # NoRoute, <<delete_route("default", gw)>>)
        \o If(mode = "replace", <<add_route("default", p)>>)

Pushed(p, nets) == [i \in 1 .. Len(SetToSeq(nets)) |-> add_route(SetToSeq(nets)[i], p)]

(* The redirection is given up when there is no default route to keep the    *)
(* server's host on.                                                         *)
Redirects(mode, local, gw) == mode # "none" /\ (gw # NoRoute \/ local)

(* do_open_tun: a fresh list, which reads the default gateway, and           *)
(* add_routes.                                                               *)
Open(p) ==
    /\ phase[p] = "down"
    /\ \E mode \in Modes, local \in BOOLEAN, nets \in SUBSET Nets :
          LET gw  == table["default"]
              did == Redirects(mode, local, gw)
          IN  /\ rl' = [rl EXCEPT ![p] =
                          [mode |-> mode, local |-> local, gateway |-> gw, added |-> {},
                           did_local |-> did /\ ~local, did_redirect |-> did]]
              /\ todo' = [todo EXCEPT ![p] =
                            If(did, Redirect(p, mode, local, gw)) \o Pushed(p, nets)]
    /\ phase' = [phase EXCEPT ![p] = "adding"]
    /\ bare' = bare \ {p}
    /\ UNCHANGED <<table, spoiled>>

(* The kernel refuses a gateway it cannot reach: a tunnel that is not up.    *)
Reachable(g) == g \in Clients => phase[g] # "down"

(* Mutant: routes of the redirection are marked too.                         *)
MarkedAll(d) == {d}

(* RT_ADDED outlives the command for a pushed route only: the redirection's  *)
(* are temporary objects.                                                    *)
Marked(d) == {d} \cap Nets

(* What a failed command leaves behind: the server has no host route, or a   *)
(* route that is not the tunnel's is not put back or not taken away.         *)
Refused(p, c) ==
    /\ bare' = IF phase[p] = "adding" /\ c.dest = Remote[p] THEN bare \cup {p} ELSE bare
    /\ spoiled' = IF phase[p] = "deleting" /\ c.gw # p THEN spoiled \cup {c.dest}
                  ELSE spoiled

(* One route command, which the kernel may refuse.                           *)
Command(p) ==
    /\ todo[p] # <<>>
    /\ LET c == Head(todo[p])
       IN  \/ /\ c.op = "add" /\ Reachable(c.gw)
              /\ table' = [table EXCEPT ![c.dest] = c.gw]
              /\ rl' = [rl EXCEPT ![p].added = @ \cup Marked(c.dest)]
              /\ UNCHANGED <<bare, spoiled>>
           \/ /\ c.op = "delete"
              /\ table' = [table EXCEPT ![c.dest] = IF @ = c.gw THEN NoRoute ELSE @]
              /\ UNCHANGED <<rl, bare, spoiled>>
           \/ /\ Refused(p, c)
              /\ UNCHANGED <<table, rl>>
    /\ todo' = [todo EXCEPT ![p] = Tail(@)]
    /\ UNCHANGED phase

Opened(p) ==
    /\ phase[p] = "adding"
    /\ todo[p] = <<>>
    /\ phase' = [phase EXCEPT ![p] = "up"]
    /\ UNCHANGED <<table, todo, rl, bare, spoiled>>

(* SIGUSR1 with --persist-tun: the tunnel and its routes stay, and are taken *)
(* up again when the server pushes the same options.                         *)
Keep(p) ==
    /\ PersistTun
    /\ phase[p] = "up"
    /\ phase' = [phase EXCEPT ![p] = "kept"]
    /\ UNCHANGED <<table, todo, rl, bare, spoiled>>

Resume(p) ==
    /\ phase[p] = "kept"
    /\ phase' = [phase EXCEPT ![p] = "up"]
    /\ UNCHANGED <<table, todo, rl, bare, spoiled>>

(* Mutant: the default route found at the start is not put back.             *)
UndoRedirectNoRestore(p) ==
    LET l == rl[p]
    IN  If(l.did_local, <<delete_route(Remote[p], l.gateway)>>)
            \o If(l.mode = "def1", <<delete_route("low", p), delete_route("high", p)>>)
            \o If(l.mode = "replace", <<delete_route("default", p)>>)

(* undo_redirect_default_route_to_vpn.                                       *)
UndoRedirect(p) ==
    LET l == rl[p]
    IN  If(l.did_local, <<delete_route(Remote[p], l.gateway)>>)
            \o If(l.mode = "def1", <<delete_route("low", p), delete_route("high", p)>>)
            \o If(l.mode = "replace", <<delete_route("default", p)>>)
            \o If(l.mode = "replace" /\ l.gateway # NoRoute,
                  <<add_route("default", l.gateway)>>)

Unpush(p) ==
    LET nets == SetToSeq(rl[p].added)
    IN  [i \in 1 .. Len(nets) |-> delete_route(nets[i], p)]

(* do_close_tun: on an ending or restarting signal, on a fatal error, and    *)
(* when a kept tunnel no longer fits what the server pushes.                 *)
Close(p) ==
    /\ phase[p] \in {"up", "kept"}
    /\ phase' = [phase EXCEPT ![p] = "deleting"]
    /\ todo' = [todo EXCEPT ![p] = Unpush(p) \o If(rl[p].did_redirect, UndoRedirect(p))]
    /\ UNCHANGED <<table, rl, bare, spoiled>>

(* clear_route_list, and the tunnel device is closed: the kernel drops what  *)
(* was still routed to it.                                                   *)
Closed(p) ==
    /\ phase[p] = "deleting"
    /\ todo[p] = <<>>
    /\ phase' = [phase EXCEPT ![p] = "down"]
    /\ rl' = [rl EXCEPT ![p] = NoList]
    /\ table' = [d \in Dests |-> IF table[d] = p THEN NoRoute ELSE table[d]]
    /\ UNCHANGED <<todo, bare, spoiled>>

RoutesNext ==
    \E p \in Clients :
        \/ Open(p)
        \/ Command(p)
        \/ Opened(p)
        \/ Keep(p)
        \/ Resume(p)
        \/ Close(p)
        \/ Closed(p)

RoutesSpec == RoutesInit /\ [][RoutesNext]_routesVars

-----------------------------------------------------------------------------
(* Types.  Only a pushed route is marked as added.                           *)
RoutesTypeOK ==
    /\ table \in [Dests -> Gateways \cup {NoRoute}]
    /\ phase \in [Clients -> {"down", "adding", "up", "kept", "deleting"}]
    /\ todo \in [Clients -> Seq([op : {"add", "delete"}, dest : Dests,
                                 gw : Gateways \cup {NoRoute}])]
    /\ rl \in [Clients -> [mode : {"none", "def1", "replace"}, local : BOOLEAN,
                           gateway : Gateways \cup {NoRoute}, added : SUBSET Nets,
                           did_local : BOOLEAN, did_redirect : BOOLEAN]]
    /\ bare \subseteq Clients /\ spoiled \subseteq Dests

(* "When the tunnel is torn down, all of the above steps are reversed so that *)
(* the original default route is restored" (--redirect-gateway): whatever was *)
(* pushed, whichever commands failed and however often the tunnel was kept or *)
(* reopened, once no client runs every route is the one before the first of   *)
(* them, but where the delete of a host route or the add that restores the    *)
(* default route failed itself.  No other failure lasts.                      *)
Restored ==
    (\A p \in Clients : phase[p] = "down") =>
        \A d \in Dests \ spoiled : table[d] = Table0[d]

(* The way to a destination: its own route, or for a host without one the     *)
(* default route, behind the halves that cover it.                            *)
Via(d) ==
    IF table[d] # NoRoute THEN table[d]
    ELSE IF table["low"] # NoRoute THEN table["low"]
    ELSE table["default"]

(* "This is done so that (3) will not create a routing loop"                  *)
(* (--redirect-gateway): at no moment while a client sets its routes up or    *)
(* runs do its own encrypted packets take the way into its own tunnel,        *)
(* whichever commands fail, but for the add of the host route itself: after   *)
(* that failure OpenVPN redirects all the same.                               *)
NoLoop ==
    \A p \in Clients \ bare :
        phase[p] \in {"adding", "up", "kept"} /\ ~rl[p].local => Via(Remote[p]) # p

\* The invariant of the routing table: types, and no way to the server through
\* its own tunnel while OpenVPN runs and has its host route.
RouteInv == RoutesTypeOK /\ NoLoop

=============================================================================
