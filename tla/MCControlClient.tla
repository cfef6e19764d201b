--------------------------- MODULE MCControlClient ---------------------------
(* Small instances of ControlClient.                                       *)
EXTENDS ControlClient

CONSTANTS c1, a1, a2, t1, id1

\* One node with a thread of each kind; its requester asks its own server.
NodeWorkers == {Handle(c1, "subscribers", a1), Handle(c1, "servers", a2),
                Handle(c1, "periodic_publishers", a1),
                Handle(c1, "periodic_clients", id1)}

\* For the temporal properties: the kinds that contend for mutex_lock.
BusyWorkers == NodeWorkers \ {Handle(c1, "periodic_publishers", a1)}

\* A node that periodically requests from a server of its own.
ServingWorkers == {Handle(c1, "servers", a2),
                   Handle(c1, "periodic_clients", id1)}

\* A request to a2 reaches the server at a2, which bind_server() bound there.
SelfRoutes == {<<a2, a2>>}
=============================================================================
