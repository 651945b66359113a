-------------------------------- MODULE LiveHost --------------------------------
(***************************************************************************)
(* What the commands look at: the USB tree, the network devices and the    *)
(* installed kernels of a running machine.  The kernel and the user change *)
(* them whenever they like, between any two reads of a command; history    *)
(* variables remember what changed since the command started.              *)
(***************************************************************************)
EXTENDS ChipsetKb, RebootPending, FiniteSets

CONSTANTS
    Nodes,        \* nodes of /sys/bus/usb/devices, numbered in sorted order
    DeviceNodes,  \* those that are not root hubs
    Dongles,      \* what can sit at a device node: its readable ids
    Hub,          \* what sits at a root hub
    Drivers,      \* drivers that bind an interface
    NodeDrivers,  \* drivers the kernel binds to the device node itself, or None
    Netdevs,      \* names a Wi-Fi network device can have, in sorted order
    WritesMarker, \* whether the package manager writes reboot-required
    MaxChurn      \* bound on the changes of the host

(***************************************************************************)
(* An id that cannot be read is None.  The kernel prints the class in two  *)
(* hexadecimal digits; what is no number only an injected host can show.   *)
(***************************************************************************)
Dongle == [vid : Vid \cup {None}, pid : Pid \cup {None}, class : {"number", "junk"}]

ASSUME HostTyped ==
    /\ Nodes \subseteq Nat
    /\ DeviceNodes \subseteq Nodes
    /\ Dongles \cup {Hub} \subseteq Dongle
    /\ Drivers \subseteq Module
    /\ NodeDrivers \subseteq Module \cup {None}
    /\ Netdevs \subseteq Nat
    /\ WritesMarker \in BOOLEAN
    /\ MaxChurn \in Nat

\* A machine has finitely many ports and network devices.
ASSUME HostFinite == IsFiniteSet(Nodes) /\ IsFiniteSet(Netdevs)

VARIABLES
    usb,      \* node -> the dongle plugged there, or None
    iface,    \* node -> driver of its interface 1.0, or None
    nodeDrv,  \* node -> driver of the device node, or None
    net,      \* Wi-Fi network devices there are, of whatever adapter
    trees,    \* releases that have a directory, with modules.alias, in /lib/modules
    marker,   \* /var/run/reboot-required is there
    churn,    \* number of changes so far
    \* history: what changed since the command started
    moved, netMoved, treesMoved, markerMoved

hostVars == <<usb, iface, nodeDrv, net, trees, marker, churn,
              moved, netMoved, treesMoved, markerMoved>>

HostOK ==
    /\ usb     \in [Nodes -> Dongles \cup {Hub, None}]
    /\ iface   \in [Nodes -> Drivers \cup {None}]
    /\ nodeDrv \in [Nodes -> NodeDrivers \cup {None}]
    /\ net     \subseteq Netdevs
    /\ trees   \subseteq Releases
    /\ marker  \in BOOLEAN
    /\ churn   \in 0..MaxChurn
    /\ moved   \subseteq Nodes
    /\ netMoved \subseteq Netdevs
    /\ treesMoved \subseteq Releases
    /\ markerMoved \in BOOLEAN

(***************************************************************************)
(* A driver sits at a node only while a dongle does, the kernel binds the  *)
(* node's own driver when the dongle is plugged in, and hubs stay put.     *)
(***************************************************************************)
HostConsistent ==
    /\ \A n \in DeviceNodes :
          IF usb[n] = None THEN iface[n] = None /\ nodeDrv[n] = None
          ELSE usb[n] \in Dongles /\ nodeDrv[n] \in NodeDrivers
    /\ \A n \in Nodes \ DeviceNodes : usb[n] = Hub /\ iface[n] = None /\ nodeDrv[n] = None

HostInit ==
    /\ usb     \in [Nodes -> Dongles \cup {Hub, None}]
    /\ iface   \in [Nodes -> Drivers \cup {None}]
    /\ nodeDrv \in [Nodes -> NodeDrivers \cup {None}]
    /\ HostConsistent
    /\ net \in SUBSET Netdevs
    /\ trees = {Running}
    /\ marker = FALSE
    /\ churn = 0
    /\ moved = {} /\ netMoved = {} /\ treesMoved = {} /\ markerMoved = FALSE

\* A command starts: nothing has changed since.
Watch == moved' = {} /\ netMoved' = {} /\ treesMoved' = {} /\ markerMoved' = FALSE

\* The part of the host no command of the model writes.
hostNow == <<usb, iface, nodeDrv, net, trees, marker, churn>>

-----------------------------------------------------------------------------
Change ==
    /\ churn < MaxChurn
    /\ churn' = churn + 1

ChangeNode(n) ==
    /\ Change
    /\ moved' = moved \cup {n}
    /\ UNCHANGED <<net, trees, marker, netMoved, treesMoved, markerMoved>>

Plug(n) ==
    /\ usb[n] = None
    /\ \E d \in Dongles : usb' = [usb EXCEPT ![n] = d]
    /\ \E m \in NodeDrivers : nodeDrv' = [nodeDrv EXCEPT ![n] = m]
    /\ UNCHANGED iface
    /\ ChangeNode(n)

Unplug(n) ==
    /\ usb[n] # None
    /\ usb' = [usb EXCEPT ![n] = None]
    /\ iface' = [iface EXCEPT ![n] = None]
    /\ nodeDrv' = [nodeDrv EXCEPT ![n] = None]
    /\ ChangeNode(n)

BindDriver(n) ==
    /\ usb[n] # None /\ iface[n] = None
    /\ \E m \in Drivers : iface' = [iface EXCEPT ![n] = m]
    /\ UNCHANGED <<usb, nodeDrv>>
    /\ ChangeNode(n)

UnbindDriver(n) ==
    /\ iface[n] # None
    /\ iface' = [iface EXCEPT ![n] = None]
    /\ UNCHANGED <<usb, nodeDrv>>
    /\ ChangeNode(n)

Flip(S, x) == IF x \in S THEN S \ {x} ELSE S \cup {x}

\* A network device comes or goes; udev renames it by both.
MoveNetdev(k) ==
    /\ Change
    /\ net' = Flip(net, k)
    /\ netMoved' = netMoved \cup {k}
    /\ UNCHANGED <<usb, iface, nodeDrv, trees, marker, moved, treesMoved, markerMoved>>

\* The package manager installs or removes a kernel, the running one included.
MoveTree(r) ==
    /\ Change
    /\ trees' = Flip(trees, r)
    /\ treesMoved' = treesMoved \cup {r}
    /\ UNCHANGED <<usb, iface, nodeDrv, net, marker, moved, netMoved, markerMoved>>

\* It asks for a reboot; the marker goes only with the boot that ends all commands.
SetMarker ==
    /\ WritesMarker /\ ~marker
    /\ Change
    /\ marker' = TRUE
    /\ markerMoved' = TRUE
    /\ UNCHANGED <<usb, iface, nodeDrv, net, trees, moved, netMoved, treesMoved>>

Host ==
    \/ \E n \in DeviceNodes : Plug(n) \/ Unplug(n) \/ BindDriver(n) \/ UnbindDriver(n)
    \/ \E k \in Netdevs : MoveNetdev(k)
    \/ \E r \in Releases : MoveTree(r)
    \/ SetMarker
=============================================================================
