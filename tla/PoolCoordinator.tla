-------------------------- MODULE PoolCoordinator --------------------------
(***************************************************************************)
(* The emergency brake of PoolCoordinatorDO (pool/coordinator_do.ts): one  *)
(* object for all tenants, to which every worker reports the volume of     *)
(* every answered request (worker/router/chat/handler.ts, in the           *)
(* background: a report may come late or not at all).                      *)
(*                                                                         *)
(* The volumes live in memory only; the brakes are stored and read back by *)
(* the constructor of the next instance (initStorage), which goes on       *)
(* without them if the storage cannot be read, and sooner or later writes  *)
(* over what it did not read.  No handler awaits anything but storage      *)
(* between its first and its last access to the state, so each is one step *)
(* (see CircuitBreaker).  The alarm reschedules itself every minute and is *)
(* delivered at least once, early or late.                                 *)
(***************************************************************************)
EXTENDS Lists, Sequences

CONSTANTS
    Tenants,
    Volumes,         \* tokens of one request
    WindowSeconds,   \* 300
    BrakeSeconds,    \* 60
    Providers, Stats, NoStats,
    MaxReports,      \* bound: reports within one window
    MaxTime          \* bound: last second of the modelled run

ASSUME CoordinatorAssumption ==
    /\ Volumes \subseteq Nat \ {0}
    /\ WindowSeconds \in Nat \ {0}
    /\ BrakeSeconds \in Nat \ {0}
    /\ {MaxReports, MaxTime} \subseteq Nat
    /\ NoStats \notin Stats
    /\ IsFiniteSet(Tenants)

VARIABLES
    tenantVolumes,  \* reports in memory, per tenant, oldest first
    activeBrakes,   \* until when each tenant is braked, in memory; NoBrake
    diskBrakes,     \* storage.get("activeBrakes")
    providers,      \* what each provider last reported, in memory
    diskProviders,  \* storage.get("providers")
    now,            \* Date.now()
    unread,         \* history: what the constructor failed to read and nothing
                    \* has written since
    log             \* history: the reports of the last window, oldest first,
                    \* with a mark on those an eviction has wiped

brakeVars == <<tenantVolumes, activeBrakes, diskBrakes>>
providerVars == <<providers, diskProviders>>
vars == <<brakeVars, providerVars, now, unread, log>>

-----------------------------------------------------------------------------
NoBrake == -1

Braked(t) == now < activeBrakes[t]

NoBrakes == [t \in Tenants |-> NoBrake]
NoProviders == [p \in Providers |-> NoStats]

\* Wrong: a report of exactly five minutes ago still counts.
FreshInclusive(s) == Through(s, {i \in DOMAIN s : s[i].timestamp >= now - WindowSeconds})

\* The reports that a window which ends at time u holds.
Within(s, u) == Through(s, {i \in DOMAIN s : s[i].timestamp > u - WindowSeconds})

Fresh(s) == Within(s, now)

\* The tokens of some of the reports, of all of a list, and of all tenants'.
VolumeAt(s, places) == Total([i \in DOMAIN s |-> s[i].volume], places)
Volume(s) == VolumeAt(s, DOMAIN s)
PoolVolume(vols) == Total([t \in Tenants |-> Volume(vols[t])], Tenants)

\* More than 35% of the pool's volume.
Spikes(part, whole) == whole > 0 /\ 100 * part > 35 * whole

Init ==
    /\ tenantVolumes = [t \in Tenants |-> <<>>]
    /\ activeBrakes = NoBrakes /\ diskBrakes = NoBrakes
    /\ providers = NoProviders /\ diskProviders = NoProviders
    /\ now = 0
    /\ unread = {}
    /\ log = <<>>

-----------------------------------------------------------------------------
\* Wrong: the brake is not stored.
BrakeUnpersisted(t) ==
    /\ activeBrakes' = [activeBrakes EXCEPT ![t] = now + BrakeSeconds]
    /\ unread' = unread \ {"brakes"}
    /\ UNCHANGED diskBrakes

Brake(t) ==
    /\ activeBrakes' = [activeBrakes EXCEPT ![t] = now + BrakeSeconds]
    /\ diskBrakes' = activeBrakes'
    /\ unread' = unread \ {"brakes"}

\* POST /coordinator/report-volume
ReportVolume(t, volume) ==
    LET report == [volume |-> volume, timestamp |-> now]
        vols == [u \in Tenants |->
                    Fresh(IF u = t THEN Append(tenantVolumes[u], report)
                                   ELSE tenantVolumes[u])] IN
    /\ Len(log) < MaxReports
    /\ tenantVolumes' = vols
    /\ IF Spikes(Volume(vols[t]), PoolVolume(vols))
       THEN Brake(t)
       ELSE UNCHANGED <<activeBrakes, diskBrakes, unread>>
    /\ log' = Append(log, [tenant |-> t, volume |-> volume, timestamp |-> now,
                           wiped |-> FALSE])
    /\ UNCHANGED <<providerVars, now>>

\* Wrong: the alarm lifts every brake.
UnexpiredNone == NoBrakes

\* The brakes that the alarm leaves in place.
Unexpired ==
    [t \in Tenants |-> IF now > activeBrakes[t] THEN NoBrake ELSE activeBrakes[t]]

alarm ==
    /\ activeBrakes' = Unexpired
    /\ diskBrakes' = IF Unexpired # activeBrakes THEN Unexpired ELSE diskBrakes
    /\ tenantVolumes' = [t \in Tenants |-> Fresh(tenantVolumes[t])]
    /\ UNCHANGED <<providerVars, now, unread, log>>

\* POST /coordinator/update-provider
UpdateProvider(p, stats) ==
    /\ providers' = [providers EXCEPT ![p] = stats]
    /\ diskProviders' = providers'
    /\ unread' = unread \ {"providers"}
    /\ UNCHANGED <<brakeVars, now, log>>

\* The object is evicted; the next event constructs it anew.  A read that
\* throws ends initStorage, and the error is caught: what was not read by then
\* stays empty.
Restart(failed) ==
    /\ tenantVolumes' = [t \in Tenants |-> <<>>]
    /\ activeBrakes' = IF "brakes" \in failed THEN NoBrakes ELSE diskBrakes
    /\ providers' = IF "providers" \in failed THEN NoProviders ELSE diskProviders
    /\ unread' = failed
    /\ log' = [i \in DOMAIN log |-> [log[i] EXCEPT !.wiped = TRUE]]
    /\ UNCHANGED <<diskBrakes, diskProviders, now>>

Tick ==
    /\ now < MaxTime
    /\ now' = now + 1
    /\ log' = Within(log, now')
    /\ UNCHANGED <<brakeVars, providerVars, unread>>

\* The brakes are read first.
Failures == {{}, {"providers"}, {"brakes", "providers"}}

Next ==
    \/ \E t \in Tenants, volume \in Volumes : ReportVolume(t, volume)
    \/ alarm
    \/ \E p \in Providers, stats \in Stats : UpdateProvider(p, stats)
    \/ \E failed \in Failures : Restart(failed)
    \/ Tick

Spec == Init /\ [][Next]_vars

-----------------------------------------------------------------------------
\* The type of each variable.
TypeOK ==
    /\ tenantVolumes \in [Tenants -> Seq([volume : Volumes, timestamp : 0..now])]
    /\ {activeBrakes, diskBrakes} \subseteq
           [Tenants -> {NoBrake} \cup 0..(now + BrakeSeconds)]
    /\ {providers, diskProviders} \subseteq [Providers -> Stats \cup {NoStats}]
    /\ now \in Nat
    /\ unread \in SUBSET {"brakes", "providers"}
    /\ log \in Seq([tenant : Tenants, volume : Volumes, timestamp : 0..now, wiped : BOOLEAN])

\* The object has in memory what is stored, or, if that could not be read,
\* nothing.
BrakesHeld == activeBrakes = IF "brakes" \in unread THEN NoBrakes ELSE diskBrakes
ProvidersHeld == providers = IF "providers" \in unread THEN NoProviders ELSE diskProviders

\* The state is well typed, and an eviction neither lifts nor sets a brake, and
\* forgets no provider, but for one whose storage cannot be read.
RestartTransparent == TypeOK /\ BrakesHeld /\ ProvidersHeld

\* The reports of the window that no eviction has wiped.
Known == {i \in DOMAIN log : ~log[i].wiped}
OfTenant(t) == {i \in Known : log[i].tenant = t}

\* What the object knows of the last five minutes is every report it was sent
\* in them since it was constructed, and nothing older: neither the pruning by
\* other tenants' reports nor the alarm loses one.
VolumesExact ==
    \A t \in Tenants :
        Volume(Fresh(tenantVolumes[t])) = VolumeAt(log, OfTenant(t))

\* Both: an eviction after which the storage is read costs nothing but the
\* volumes, and those are exact (coordinator_do.ts: the constructor's load,
\* fetch's pruning, the alarm).
StateExact == RestartTransparent /\ VolumesExact

\* A brake in force is never shortened, by an alarm, an eviction or a report:
\* in memory only a construction that cannot read the brakes forgets it, and in
\* storage only what an object so constructed writes.
BrakeLasts ==
    [][\A t \in Tenants :
         /\ Braked(t) /\ "brakes" \notin unread' => activeBrakes'[t] >= activeBrakes[t]
         /\ now < diskBrakes[t] /\ "brakes" \notin unread
              => diskBrakes'[t] >= diskBrakes[t]]_vars

\* A brake is set on the tenant that reports, exactly if its share of all that
\* was reported since the object was constructed is a spike.
BrakesTheSpiker ==
    [][\A t \in Tenants :
         Len(log') > Len(log) /\ log'[Len(log')].tenant = t =>
             ( activeBrakes'[t] = now + BrakeSeconds
               <=> \/ Spikes(VolumeAt(log, OfTenant(t))', VolumeAt(log, Known)')
                   \/ activeBrakes[t] = now + BrakeSeconds )]_vars
=============================================================================
