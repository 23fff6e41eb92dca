----------------------------- MODULE Controller -----------------------------
(***************************************************************************)
(* The list of devices of a controller (libarsdkctrl/src/arsdk_ctrl.c),    *)
(* what a discovery does to it (arsdk_discovery.c), and the connection and *)
(* the interfaces of each device (arsdk_device.c).  How a backend connects *)
(* is in modules Connection and MuxBackend: here it takes a connection,    *)
(* then tells that it is connected or that it ended.                       *)
(*                                                                         *)
(* A discovery numbers its runs.  A device that is found again is given    *)
(* the number of the current one; five seconds after a start, the devices  *)
(* that the run has not found are removed.                                 *)
(***************************************************************************)
EXTENDS Naturals, Sequences, SequencesExt, FiniteSets

CONSTANTS Devs,       \* the devices: records of a name and an id
          Discs,      \* the discoveries
          Handles,    \* the handles of the listed devices
          MaxRuns     \* bound on the runs of a discovery

ASSUME DevsAssumption == Devs \subseteq [name : STRING, id : STRING]
ASSUME HandlesAssumption == IsFiniteSet(Handles)    \* they have 16 bits
ASSUME RunsAssumption == MaxRuns \in Nat \ {0}

VARIABLES listed,    \* ctrl->devices, in the order of their creation
          disc,      \* the discoveries
          told       \* the handles that the application knows to be connecting or connected

ctrlVars == <<listed, disc, told>>

Conns == {"idle", "connecting", "connected"}

\* The interfaces of a device: commands and FTP on its transport, those over
\* FTP, and the black box, which needs its backend only.
Itfs == {"cmd", "ftp", "over", "blackbox"}

\* by is the discovery that found the device, none once it is destroyed.
Listed == [h : Handles, by : Discs \cup {"none"}, over : Discs, run : 0..MaxRuns,
           dev : Devs, conn : Conns, itfs : SUBSET Itfs]

CtrlTypeOK ==
    /\ Len(listed) <= Cardinality(Handles)
    /\ \A i \in DOMAIN listed : listed[i] \in Listed
    /\ disc \in [Discs -> [alive : BOOLEAN, started : BOOLEAN,
                           run : 0..MaxRuns, timer : BOOLEAN]]
    /\ told \subseteq Handles

NewDisc == [alive |-> TRUE, started |-> FALSE, run |-> 0, timer |-> FALSE]

CtrlInit == /\ listed = << >>
            /\ disc = [k \in Discs |-> NewDisc]
            /\ told = {}

-----------------------------------------------------------------------------
\* arsdk_discovery_start and _stop, on the discoveries ds: starting a started
\* one fails.
Started(ds, k) ==
    IF ds[k].started THEN ds
    ELSE [ds EXCEPT ![k].started = TRUE, ![k].run = @ + 1, ![k].timer = TRUE]

\* Mutant: a stop counts as a run.
StoppedCounts(ds, k) ==
    IF ds[k].started
    THEN [ds EXCEPT ![k].started = FALSE, ![k].timer = FALSE, ![k].run = @ + 1]
    ELSE ds

Stopped(ds, k) ==
    IF ds[k].started THEN [ds EXCEPT ![k].started = FALSE, ![k].timer = FALSE]
    ELSE ds

\* Mutant: a device that an earlier run found is not recognised.
SameDeviceRun(e, k, name, id) ==
    /\ e.by = k /\ e.run = disc[k].run
    /\ IF id # "" THEN e.dev.id = id ELSE e.dev.name = name

\* What arsdk_discovery_find_device looks for: the id, or the name if there
\* is no id.  It compares the types first: here all devices have one type.
SameDevice(e, k, name, id) ==
    /\ e.by = k
    /\ IF id # "" THEN e.dev.id = id ELSE e.dev.name = name

Found(k, name, id) == {i \in DOMAIN listed : SameDevice(listed[i], k, name, id)}
First(S) == CHOOSE i \in S : \A j \in S : i <= j

\* The handles in use.
Taken == {listed[i].h : i \in DOMAIN listed}

\* arsdk_ctrl_generate_device_handle: drawn until none of the list has it.
NewHandle(h) == h \in Handles \ Taken

\* arsdk_ctrl_create_device: idle, of the current run of its discovery.
Created(h, k, dev) ==
    [h |-> h, by |-> k, over |-> k, run |-> disc[k].run,
     dev |-> dev, conn |-> "idle", itfs |-> {}]

\* arsdk_discovery_add_device: the device is created unless it is listed;
\* what is known of a listed one is not updated.
AddDevice(k, dev) ==
    LET S == Found(k, dev.name, dev.id)
    IN  IF S # {}
        THEN /\ listed' = [listed EXCEPT ![First(S)].run = disc[k].run]
             /\ UNCHANGED told
        ELSE /\ \E h \in Handles :
                  /\ NewHandle(h)
                  /\ listed' = Append(listed, Created(h, k, dev))
             /\ UNCHANGED told

\* Mutant: only an established connection is ended.
BrokenConnected(e) == e.conn = "connected"

\* arsdk_ctrl_destroy_device first disconnects.
Broken(e) == e.conn \in {"connecting", "connected"}

\* The list s without the elements of gone: the nth that is left is the one
\* that has n of those left up to it.
Without(s, gone) ==
    LET left == {i \in DOMAIN s : s[i] \notin gone}
        upTo(i) == {j \in left : j <= i}
    IN  [n \in 1..Cardinality(left) |-> s[CHOOSE i \in left : Cardinality(upTo(i)) = n]]

\* The devices of the set gone are destroyed, those connected after they
\* were disconnected.
Destroy(gone) ==
    /\ listed' = Without(listed, gone)
    /\ told' = told \ {e.h : e \in {d \in gone : Broken(d)}}

\* arsdk_discovery_remove_device.
RemoveDevice(k, name, id) ==
    LET S == Found(k, name, id)
    IN  IF S = {} THEN UNCHANGED <<listed, told>>
        ELSE Destroy({listed[First(S)]})

\* Mutant: a device of the current run is removed instead.
StaleFound(k, e) == e.by = k /\ e.run = disc[k].run

Stale(k, e) == e.by = k /\ e.run # disc[k].run

\* arsdk_discovery_timer_cb.
Timer(k) ==
    /\ disc[k].timer
    /\ disc' = [disc EXCEPT ![k].timer = FALSE]
    /\ Destroy({e \in ToSet(listed) : Stale(k, e)})

\* arsdk_discovery_new, arsdk_discovery_destroy: the devices stay, and no
\* discovery has them any more.  A handle is left for each device (a bound:
\* there are 65535 of them).
DiscNew(k) ==
    /\ ~disc[k].alive
    /\ Len(listed) + Cardinality(Devs) <= Cardinality(Handles)
    /\ disc' = [disc EXCEPT ![k] = NewDisc]
    /\ UNCHANGED <<listed, told>>

Disowned(k) == [i \in DOMAIN listed |->
                  IF listed[i].by = k
                  THEN [listed[i] EXCEPT !.by = "none", !.run = 0] ELSE listed[i]]

DiscDestroy(k) ==
    /\ disc[k].alive
    /\ disc' = [disc EXCEPT ![k] = [NewDisc EXCEPT !.alive = FALSE]]
    /\ listed' = Disowned(k)
    /\ UNCHANGED told

\* arsdk_ctrl_unregister_backend: its devices are destroyed.  The
\* application destroys its discovery first.
UnregisterBackend(k) ==
    /\ ~disc[k].alive
    /\ \E i \in DOMAIN listed : listed[i].over = k
    /\ Destroy({e \in ToSet(listed) : e.over = k})
    /\ UNCHANGED disc

-----------------------------------------------------------------------------
\* Mutant: the interfaces outlive the connection.
CleanedKept(e) == [e EXCEPT !.conn = "idle"]

\* cleanup_connection.
Cleaned(e) == [e EXCEPT !.conn = "idle", !.itfs = {}]

\* arsdk_device_connect: one connection at a time for a device.
DeviceConnect(i) ==
    /\ listed[i].conn = "idle"
    /\ listed' = [listed EXCEPT ![i].conn = "connecting"]
    /\ told' = told \cup {listed[i].h}
    /\ UNCHANGED disc

\* connected.
DeviceConnected(i) ==
    /\ listed[i].conn = "connecting"
    /\ listed' = [listed EXCEPT ![i].conn = "connected"]
    /\ UNCHANGED <<disc, told>>

\* disconnected, canceled: the application asked for it, or the device.
DeviceEnded(i) ==
    /\ listed[i].conn # "idle"
    /\ listed' = [listed EXCEPT ![i] = Cleaned(listed[i])]
    /\ told' = told \ {listed[i].h}
    /\ UNCHANGED disc

\* The interfaces itfs are created by the application's call.
Creates(i, itfs) ==
    /\ itfs \cap listed[i].itfs # itfs
    /\ listed' = [listed EXCEPT ![i].itfs = @ \cup itfs]
    /\ UNCHANGED <<disc, told>>

\* arsdk_device_create_cmd_itf: one, on the transport.
DeviceCreateCmdItf(i) == listed[i].conn = "connected" /\ Creates(i, {"cmd"})

\* arsdk_device_get_ftp_itf: the one there is, or a new one.
DeviceGetFtpItf(i) == listed[i].conn = "connected" /\ Creates(i, {"ftp"})

\* arsdk_device_get_media_itf, and those of the updater, the crash reports,
\* flight logs, piloting data and ephemerides: they bring the FTP interface.
DeviceGetItfOverFtp(i) == listed[i].conn = "connected" /\ Creates(i, {"ftp", "over"})

\* arsdk_device_get_blackbox_itf: connected or not.
DeviceGetBlackboxItf(i) == Creates(i, {"blackbox"})
=============================================================================
