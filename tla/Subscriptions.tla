---------------------------- MODULE Subscriptions ----------------------------
(***************************************************************************)
(* What a realtime gateway promises about the subscriptions of a client    *)
(* ("keep a disconnected client's subscriptions before removing them. A    *)
(* reconnect with the same client_id within this window resumes realtime   *)
(* without re-querying", WebsocketGatewayOptions): whoever is connected    *)
(* keeps what it subscribed to, through takeovers, drops and reconnects,   *)
(* and loses it only by asking or by staying away.                         *)
(***************************************************************************)
CONSTANTS Clients, Refs

VARIABLES
    present,  \* per client: is it connected
    held      \* per client: the refs it is subscribed to

subsVars == <<present, held>>

SubsInit ==
    /\ present = [c \in Clients |-> FALSE]
    /\ held = [c \in Clients |-> {}]

\* Who comes back finds what it held; who leaves leaves it for now.
ComesOrLeaves(c) == held'[c] = held[c]

Subscribes(c) == present[c] /\ \E r \in Refs : held'[c] = held[c] \cup {r}
Drops(c) == present[c] /\ \E r \in held[c] : held'[c] = held[c] \ {r}

\* The grace window of a client that stayed away is over.
Forgets(c) == ~present[c] /\ ~present'[c] /\ held'[c] \subseteq held[c]

\* One step of a gateway may concern several clients.
SubsNext ==
    /\ present' \in [Clients -> BOOLEAN]
    /\ held' \in [Clients -> SUBSET Refs]
    /\ \A c \in Clients : ComesOrLeaves(c) \/ Subscribes(c) \/ Drops(c) \/ Forgets(c)

SubsSpec == SubsInit /\ [][SubsNext]_subsVars

\* Who stays away is forgotten.
Forgotten == \A c \in Clients : ~present[c] ~> present[c] \/ held[c] = {}
=============================================================================
