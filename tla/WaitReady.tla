----------------------------- MODULE WaitReady -----------------------------
(***************************************************************************)
(* The --wait-ready gate (wait_ready.rs): mining and the capability        *)
(* declaration are held until every registered card has its walk table     *)
(* installed.  Workers register once their backend is built, installs mark *)
(* a card ready, uninstalls mark it not ready, and any thread may ask      *)
(* holds() at any time.  The gate is a latch with a registration grace, a  *)
(* no-worker window and a timeout.                                         *)
(***************************************************************************)
EXTENDS Integers, FiniteSets

CONSTANTS
    Devices,    \* the cards whose workers this process starts
    Askers,     \* threads that call holds()
    Grace,      \* 10 s after the first registration
    NoWorker,   \* noworker_secs()
    Timeout,    \* timeout_secs()
    Horizon     \* bound: the clock stops here, and workers that have not
                \* registered a grace before it never do

TimesAssumption ==
    /\ {Grace, NoWorker, Timeout, Horizon} \subseteq Nat
    /\ Grace < Timeout
    /\ NoWorker < Timeout
    /\ Timeout + Grace < Horizon

Never == -1

VARIABLES
    now,         \* seconds since enable()
    firstReg,    \* first_reg(): set once
    registered,  \* sets().0
    ready,       \* sets().1
    opened,      \* OPENED
    installed,   \* the driver's miners() map
    worker,      \* worker[d]: where card d's thread is
    asked        \* asked[a]: the elapsed time holds() read, or Never

vars == <<now, firstReg, registered, ready, opened, installed, worker, asked>>

-----------------------------------------------------------------------------
Tick ==
    /\ now < Horizon
    /\ now' = now + 1
    /\ UNCHANGED <<firstReg, registered, ready, opened, installed, worker, asked>>

\* register_device runs after spec.build(): first_reg is set, then the device
\* is inserted under the mutex
PinFirstReg(d) ==
    /\ worker[d] = "building"
    /\ now + Grace <= Horizon
    /\ firstReg' = IF firstReg = Never THEN now ELSE firstReg
    /\ worker' = [worker EXCEPT ![d] = "registering"]
    /\ UNCHANGED <<now, registered, ready, opened, installed, asked>>

RegisterDevice(d) ==
    /\ worker[d] = "registering"
    /\ registered' = registered \cup {d}
    /\ worker' = [worker EXCEPT ![d] = "staging"]
    /\ UNCHANGED <<now, firstReg, ready, opened, installed, asked>>

\* install: the map first, then mark_ready
InsertMiner(d) ==
    /\ worker[d] = "staging"
    /\ installed' = installed \cup {d}
    /\ worker' = [worker EXCEPT ![d] = "inserted"]
    /\ UNCHANGED <<now, firstReg, registered, ready, opened, asked>>

MarkReady(d) ==
    /\ worker[d] = "inserted"
    /\ ready' = ready \cup {d}
    /\ worker' = [worker EXCEPT ![d] = "up"]
    /\ UNCHANGED <<now, firstReg, registered, opened, installed, asked>>

\* uninstall_released: mark_not_ready first, a no-op once the latch is open,
\* then the map
MarkNotReadyIf(d, clear) ==
    /\ worker[d] = "up"
    /\ ready' = IF clear THEN ready \ {d} ELSE ready
    /\ worker' = [worker EXCEPT ![d] = "evicting"]
    /\ UNCHANGED <<now, firstReg, registered, opened, installed, asked>>

MarkNotReady(d) == MarkNotReadyIf(d, ~opened)

RemoveMiner(d) ==
    /\ worker[d] = "evicting"
    /\ installed' = installed \ {d}
    /\ worker' = [worker EXCEPT ![d] = "staging"]
    /\ UNCHANGED <<now, firstReg, registered, ready, opened, asked>>

\* holds(): the fast path and the elapsed time are read before the mutex
Ask(a) ==
    /\ asked[a] = Never
    /\ ~opened
    /\ asked' = [asked EXCEPT ![a] = now]
    /\ UNCHANGED <<now, firstReg, registered, ready, opened, installed, worker>>

\* the rest of holds(), under the mutex that guards both sets
OpensAt(elapsed) ==
    IF registered = {}
    THEN elapsed >= NoWorker
    ELSE /\ firstReg # Never /\ now - firstReg >= Grace
         /\ registered \subseteq ready \/ elapsed >= Timeout

Decide(a) ==
    /\ asked[a] # Never
    /\ opened' = (opened \/ OpensAt(asked[a]))
    /\ asked' = [asked EXCEPT ![a] = Never]
    /\ UNCHANGED <<now, firstReg, registered, ready, installed, worker>>

-----------------------------------------------------------------------------
Init ==
    /\ now = 0
    /\ firstReg = Never
    /\ registered = {}
    /\ ready = {}
    /\ opened = FALSE
    /\ installed = {}
    /\ worker = [d \in Devices |-> "building"]
    /\ asked = [a \in Askers |-> Never]

Worker(d) ==
    \/ PinFirstReg(d) \/ RegisterDevice(d) \/ InsertMiner(d) \/ MarkReady(d)
    \/ MarkNotReady(d) \/ RemoveMiner(d)

Next ==
    \/ Tick
    \/ \E d \in Devices : Worker(d)
    \/ \E a \in Askers : Ask(a) \/ Decide(a)

Spec == Init /\ [][Next]_vars

\* Time passes and the declaration pass keeps asking; no card need ever
\* register, stage or come up.
Fairness ==
    WF_vars(Tick) /\ \A a \in Askers : WF_vars(Ask(a) \/ Decide(a))

FairSpec == Spec /\ Fairness

-----------------------------------------------------------------------------
\* Every variable has its type.
TypeOK ==
    /\ now \in 0 .. Horizon
    /\ firstReg \in 0 .. Horizon \cup {Never}
    /\ registered \subseteq Devices
    /\ ready \subseteq registered
    /\ opened \in BOOLEAN
    /\ installed \subseteq Devices
    /\ worker \in [Devices -> {"building", "registering", "staging",
                               "inserted", "up", "evicting"}]
    /\ asked \in [Askers -> 0 .. Horizon \cup {Never}]

\* Unless it times out, the gate opens only while every registered card has
\* its walk in the driver's map: neither an eviction between the look at the
\* sets and the latch, nor one half done, slips through (the mutex in
\* holds, the order in install and uninstall_released).
OpensWithWalksInstalled ==
    [][opened' /\ ~opened =>
         \/ now >= Timeout
         \/ registered = {} /\ now >= NoWorker
         \/ registered # {} /\ registered \subseteq installed]_vars

\* A card that can never stage does not idle the rig forever.
GateOpens == []<>opened

=============================================================================
