------------------------------ MODULE Spectator ------------------------------
(***************************************************************************)
(* The spectator page's own recovery (client/src/main.ts): the watchdog    *)
(* interval, rejoin(), the visibilitychange handler and the incoming       *)
(* buffer they guard.  The engine decodes a delta chain: a packet missing  *)
(* from the stream, or a rebuilt transport, freezes its picture until it   *)
(* connects anew.                                                          *)
(*                                                                         *)
(* Time passes with the watchdog's interval (2 s), which is the Watchdog   *)
(* action; all durations are counted in it.  The 300 ms of rejoin() may    *)
(* begin anywhere between two of them, and so contain one, not two.  The   *)
(* transport (webrtc.ts) is reduced to when it is usable; WebRtcClient.tla *)
(* has the rest.                                                           *)
(***************************************************************************)
EXTENDS Naturals

CONSTANTS
    Capacity,     \* maxPackets: the size of the incoming buffer
    HighMark,     \* capacity * BACKLOG_HIGH_WATERMARK
    Burst,        \* bound: packets that arrive between two intervals in a
                  \* tab that is visible or rejoins, and that the engine reads
                  \* between two visible checks of the watchdog
    Stall,        \* STALL_MS, in intervals
    LongHide,     \* the 60 s after which a tab that was hidden rejoins
    Attempts,     \* REJOIN_ATTEMPTS_BEFORE_RELOAD
    ForceEvery,   \* the 12 stalls between two calls of forceReconnect()
    MaxFaults     \* bound: losses of the transport, and user's reloads

ASSUME SpectatorAssumption ==
    /\ {Capacity, HighMark, Burst, Stall, LongHide, Attempts, ForceEvery}
          \subseteq Nat \ {0}
    /\ MaxFaults \in Nat
    /\ HighMark + Burst <= Capacity
    /\ Burst < HighMark
    /\ Attempts <= ForceEvery

Never == Stall + 2      \* lastPacketAt is 0

VARIABLES
    transport,     \* "connecting" or "up"
    booted,        \* init() has resolved
    started,
    hidden,        \* document.hidden
    hiddenFor,     \* intervals since hiddenSince
    idle,          \* intervals since lastPacketAt, or Never
    backlog,       \* packets in the incoming buffer
    rejoinInFlight,
    ticked,        \* the interval has fired since that rejoin() began
    stallCount,
    guard,         \* sessionStorage has watchStallReloaded
    broken,        \* the delta chain of the engine lacks a packet
    arrived,       \* packets since the last interval
    consumed,      \* packets the engine read since the last visible check
    watched,       \* the tab was not hidden since the last check
    faults

timeVars   == <<hidden, hiddenFor, watched>>
bufferVars == <<backlog, arrived, consumed>>
bootVars   == <<booted, started>>
rejoinVars == <<rejoinInFlight, ticked>>
vars == <<transport, bootVars, timeVars, idle, bufferVars, rejoinVars,
          stallCount, guard, broken, faults>>

\* A page that was loaded in a hidden tab has no hiddenSince.
Init ==
    /\ transport = "connecting"
    /\ booted = FALSE
    /\ started = FALSE
    /\ hidden \in BOOLEAN
    /\ hiddenFor = LongHide + 1
    /\ idle = Never
    /\ backlog = 0
    /\ rejoinInFlight = FALSE
    /\ ticked = FALSE
    /\ stallCount = 0
    /\ guard = FALSE
    /\ broken = FALSE
    /\ arrived = 0
    /\ consumed = 0
    /\ watched = FALSE
    /\ faults = 0

Fault == faults < MaxFaults /\ faults' = faults + 1

-----------------------------------------------------------------------------
(* The page and its transport.                                             *)

\* rejoin(), up to its timer: a call while one is in flight is dropped.
Rejoin ==
    IF started /\ ~rejoinInFlight
    THEN rejoinInFlight' = TRUE /\ backlog' = 0
    ELSE UNCHANGED <<rejoinInFlight, backlog>>

\* The 300 ms are over: connect, on an empty buffer.
RejoinConnects ==
    /\ rejoinInFlight
    /\ rejoinInFlight' = FALSE
    /\ ticked' = FALSE
    /\ backlog' = 0
    /\ broken' = FALSE
    /\ UNCHANGED <<transport, bootVars, timeVars, idle, arrived, consumed,
                   stallCount, guard, faults>>

\* valve.zip is unpacked and init() has resolved, once: main() connects, on
\* a transport that may have been lost since.
Start ==
    /\ booted /\ ~started
    /\ started' = TRUE
    /\ broken' = FALSE
    /\ UNCHANGED <<transport, booted, timeVars, idle, bufferVars, rejoinVars,
                   stallCount, guard, faults>>

TransportLost ==
    /\ transport = "up" /\ Fault
    /\ transport' = "connecting"
    /\ UNCHANGED <<bootVars, timeVars, idle, bufferVars, rejoinVars,
                   stallCount, guard, broken>>

\* Mutant of TransportUp: a rebuilt transport is taken for the old one.
TransportUpQuietly ==
    /\ transport = "connecting"
    /\ transport' = "up"
    /\ booted' = TRUE
    /\ broken' = started
    /\ UNCHANGED <<started, timeVars, idle, bufferVars, rejoinVars,
                   stallCount, guard, faults>>

\* The first time, init() resolves; afterwards it is onReconnected().
TransportUp ==
    /\ transport = "connecting"
    /\ transport' = "up"
    /\ booted' = TRUE
    /\ broken' = started
    /\ Rejoin
    /\ UNCHANGED <<started, timeVars, idle, arrived, consumed, ticked,
                   stallCount, guard, faults>>

\* All of the page's state but sessionStorage is lost.
LoadPage(reloaded) ==
    /\ transport' = "connecting"
    /\ booted' = FALSE
    /\ started' = FALSE
    /\ UNCHANGED hidden
    /\ hiddenFor' = LongHide + 1
    /\ idle' = Never
    /\ backlog' = 0
    /\ rejoinInFlight' = FALSE
    /\ ticked' = FALSE
    /\ stallCount' = 0
    /\ guard' = reloaded
    /\ broken' = FALSE
    /\ arrived' = 0
    /\ consumed' = 0
    /\ watched' = FALSE

UserReloads == Fault /\ LoadPage(guard)

-----------------------------------------------------------------------------
(* Packets: onmessage of the write channel, and the engine.                *)

\* In a hidden tab the intervals may be minutes apart; nothing bounds what
\* arrives between them, but for the short time of a rejoin().
Arrival ==
    \/ arrived < Burst /\ arrived' = arrived + 1
    \/ hidden /\ ~rejoinInFlight /\ UNCHANGED arrived

\* Mutant of PacketArrives: the buffer does not make room.
PacketArrivesAnyway ==
    /\ transport = "up" /\ started
    /\ Arrival
    /\ idle' = 0
    /\ backlog' = backlog + 1
    /\ UNCHANGED <<transport, bootVars, timeVars, consumed, rejoinVars,
                   stallCount, guard, broken, faults>>

\* The full buffer drops its oldest packet.
PacketArrives ==
    /\ transport = "up" /\ started
    /\ Arrival
    /\ idle' = 0
    /\ IF backlog < Capacity
       THEN backlog' = backlog + 1 /\ UNCHANGED broken
       ELSE broken' = TRUE /\ UNCHANGED backlog
    /\ UNCHANGED <<transport, bootVars, timeVars, consumed, rejoinVars,
                   stallCount, guard, faults>>

\* recvfrom(), once a frame.
EngineReads ==
    /\ started /\ backlog > 0 /\ consumed < Burst
    /\ backlog' = backlog - 1
    /\ consumed' = consumed + 1
    /\ UNCHANGED <<transport, bootVars, timeVars, idle, arrived,
                   rejoinVars, stallCount, guard, broken, faults>>

-----------------------------------------------------------------------------
(* The tab is hidden and shown.                                            *)

Hide ==
    /\ ~hidden
    /\ hidden' = TRUE
    /\ hiddenFor' = 0
    /\ watched' = FALSE
    /\ UNCHANGED <<transport, bootVars, idle, bufferVars, rejoinVars,
                   stallCount, guard, broken, faults>>

Show ==
    /\ hidden
    /\ hidden' = FALSE
    /\ IF hiddenFor > LongHide THEN Rejoin
       ELSE UNCHANGED <<rejoinInFlight, backlog>>
    /\ UNCHANGED <<transport, bootVars, hiddenFor, watched, idle, arrived,
                   consumed, ticked, stallCount, guard, broken, faults>>

-----------------------------------------------------------------------------
(* The watchdog.                                                           *)

\* idle and hiddenFor, an interval later.
Elapsed(n, most) == IF n < most THEN n + 1 ELSE n

\* The interval has fired: what arrives is counted anew, and a rejoin() that is
\* in flight will be over before the next time.
Tick == ticked' = rejoinInFlight' /\ arrived' = 0

\* The interval fires in a page that it looks at.
Check == ~ticked /\ started /\ ~hidden /\ idle # Never

\* What a check does in any case: budgets of the next interval, and time.
Checked ==
    /\ watched' = TRUE
    /\ consumed' = 0
    /\ idle' = Elapsed(idle, Stall + 1)
    /\ Tick
    /\ UNCHANGED <<bootVars, hidden, hiddenFor, broken, faults>>

\* Not started, hidden, or no packet so far.
WatchdogReturns ==
    /\ ~ticked
    /\ ~started \/ hidden \/ idle = Never
    /\ hiddenFor' = IF hidden THEN Elapsed(hiddenFor, LongHide + 1)
                    ELSE hiddenFor
    /\ idle' = IF idle = Never THEN Never ELSE Elapsed(idle, Stall + 1)
    /\ UNCHANGED <<transport, bootVars, hidden, watched, backlog, consumed,
                   rejoinInFlight, stallCount, guard, broken, faults>>
    /\ Tick

\* Mutant of HighBacklog: a stream that flows is not looked at.
HighBacklogStalled == backlog >= HighMark /\ idle > Stall

HighBacklog == backlog >= HighMark

BacklogRejoin ==
    /\ Check /\ HighBacklog
    /\ Rejoin
    /\ Checked
    /\ UNCHANGED <<transport, stallCount, guard>>

StreamFlows ==
    /\ Check /\ ~HighBacklog
    /\ stallCount' = 0
    /\ UNCHANGED <<transport, backlog, rejoinInFlight, guard>>
    /\ Checked
    /\ idle' <= Stall

\* No packet for STALL_MS.
Stalled == Check /\ ~HighBacklog /\ Elapsed(idle, Stall + 1) > Stall

\* Mutant of NextStall: a rejoin is a fresh start.
NextStallAnew == IF stallCount + 1 >= Attempts THEN 0 ELSE stallCount + 1

\* stallCount += 1, modulo ForceEvery once it is past all thresholds.
NextStall == IF stallCount + 1 = 2 * ForceEvery THEN ForceEvery
             ELSE stallCount + 1

StallRejoin ==
    /\ Stalled
    /\ NextStall < Attempts \/ (guard /\ NextStall % ForceEvery # 0)
    /\ stallCount' = NextStall
    /\ Rejoin
    /\ Checked
    /\ UNCHANGED <<transport, guard>>

StallReloads ==
    /\ Stalled
    /\ NextStall >= Attempts /\ ~guard
    /\ LoadPage(TRUE)
    /\ UNCHANGED faults

\* forceReconnect().
StallForces ==
    /\ Stalled
    /\ NextStall >= Attempts /\ guard /\ NextStall % ForceEvery = 0
    /\ stallCount' = NextStall
    /\ transport' = "connecting"
    /\ UNCHANGED <<backlog, rejoinInFlight, guard>>
    /\ Checked

WatchdogActs == \/ BacklogRejoin \/ StreamFlows
                \/ StallRejoin \/ StallReloads \/ StallForces

-----------------------------------------------------------------------------
Next ==
    \/ Start \/ TransportLost \/ TransportUp \/ UserReloads \/ RejoinConnects
    \/ PacketArrives \/ EngineReads \/ Hide \/ Show
    \/ WatchdogReturns \/ WatchdogActs

Spec == Init /\ [][Next]_vars

\* Timers fire, the boot and the rebuilds of the transport come to an end, and
\* a tab that is looked at again and again is so when the interval fires.
Fairness ==
    /\ WF_vars(Start)
    /\ WF_vars(TransportUp)
    /\ WF_vars(RejoinConnects)
    /\ WF_vars(WatchdogReturns)
    /\ SF_vars(WatchdogActs)

FairSpec == Spec /\ Fairness

-----------------------------------------------------------------------------
TypeOK ==
    /\ transport \in {"connecting", "up"}
    /\ {booted, started, hidden, rejoinInFlight, ticked, guard, broken, watched}
          \subseteq BOOLEAN
    /\ hiddenFor \in 0 .. LongHide + 1
    /\ idle \in 0 .. Never
    /\ backlog \in 0 .. Capacity
    /\ stallCount \in 0 .. 2 * ForceEvery - 1
    /\ {arrived, consumed} \subseteq 0 .. Burst
    /\ faults \in 0 .. MaxFaults

\* "main.ts should rejoin before this ever happens" (webrtc.ts:69): in a tab
\* that stays visible the buffer is never full when a packet arrives, so that
\* none is dropped and the delta chain holds.
NoDropWhileWatched == [][watched /\ PacketArrives => backlog < Capacity]_vars

\* A delta chain that is broken, by a dropped packet or by a rebuilt transport,
\* is started anew if the tab is looked at: no rejoin() that is dropped because
\* one is in flight, or that comes before the page has started, is missed.
ChainRepaired == []<>~hidden => (broken ~> ~broken)

\* PATCHES.md section 12: in a page that stays open and visible, a stream that
\* has fallen silent has the transport rebuilt again and again, also after the
\* one reload, and whatever rejoins come between.
SilentStreamRebuilt ==
    <>[](~hidden /\ idle = Stall + 1) => []<>(transport = "connecting")

\* "If no game packet arrives for STALL_MS, force a rejoin" (main.ts:252).
NoPacketRejoins ==
    <>[](started /\ ~hidden /\ idle > Stall) => []<>rejoinInFlight
=============================================================================
