--------------------------- MODULE SpectatorProofs ---------------------------
(***************************************************************************)
(* Theorems about Spectator, for every size of the buffer and of a burst   *)
(* that fits above the high mark, and for all the watchdog's thresholds.   *)
(***************************************************************************)
EXTENDS Spectator, TLAPS

\* The parts of TypeOK, its sets of Booleans taken apart.
Flags ==
    /\ transport \in {"connecting", "up"}
    /\ booted \in BOOLEAN /\ started \in BOOLEAN /\ hidden \in BOOLEAN
    /\ rejoinInFlight \in BOOLEAN /\ ticked \in BOOLEAN
    /\ guard \in BOOLEAN /\ broken \in BOOLEAN /\ watched \in BOOLEAN

Counters ==
    /\ hiddenFor \in 0 .. LongHide + 1
    /\ idle \in 0 .. Never
    /\ backlog \in 0 .. Capacity
    /\ stallCount \in 0 .. 2 * ForceEvery - 1
    /\ arrived \in 0 .. Burst
    /\ consumed \in 0 .. Burst
    /\ faults \in 0 .. MaxFaults

LEMMA TypesMeanTypeOK == Flags /\ Counters <=> TypeOK
  BY Zenon DEF Flags, Counters, TypeOK

\* A tab watched since the last check is one that the watchdog looks at, and its
\* backlog is below the high mark but for the packets that have arrived since; a
\* rejoin() in flight has left nothing in the buffer that was there before.
BelowMark ==
    /\ watched => started /\ ~hidden /\ idle # Never /\ backlog + 1 <= HighMark + arrived
    /\ rejoinInFlight /\ ~ticked => backlog <= arrived

SpectatorInd == Flags /\ Counters /\ BelowMark

\* What SpectatorAssumption says of each constant.
LEMMA Bounds ==
    /\ Capacity \in Nat /\ HighMark \in Nat /\ Burst \in Nat /\ Stall \in Nat
    /\ LongHide \in Nat /\ Attempts \in Nat /\ ForceEvery \in Nat /\ MaxFaults \in Nat
    /\ HighMark >= 1 /\ ForceEvery >= 1 /\ Capacity >= 1 /\ Stall >= 1 /\ Burst >= 1
    /\ HighMark + Burst <= Capacity /\ Burst + 1 <= HighMark
<1>1. \A x \in {Capacity, HighMark, Burst, Stall, LongHide, Attempts, ForceEvery} :
        x \in Nat \ {0}
  BY Zenon, SpectatorAssumption
<1>2. /\ Capacity \in Nat \ {0} /\ HighMark \in Nat \ {0} /\ Burst \in Nat \ {0}
      /\ Stall \in Nat \ {0} /\ LongHide \in Nat \ {0} /\ Attempts \in Nat \ {0}
      /\ ForceEvery \in Nat \ {0}
  BY Zenon, <1>1
<1> QED BY SMT, <1>2, SpectatorAssumption

\* Time and the stall counter stay in their ranges.
LEMMA Ranges ==
    ASSUME Counters
    PROVE  /\ Elapsed(idle, Stall + 1) \in 0 .. Never
           /\ Elapsed(hiddenFor, LongHide + 1) \in 0 .. LongHide + 1
           /\ NextStall \in 0 .. 2 * ForceEvery - 1
  BY Bounds DEF Counters, Elapsed, Never, NextStall

\* Flags are only ever set to TRUE or FALSE, or to one another.
LEMMA FlagsKept ==
    ASSUME Flags, Next
    PROVE  Flags'
<1> USE DEF Flags, Rejoin, Tick, timeVars, bufferVars, bootVars, rejoinVars
<1>1. CASE Start           BY Zenon, <1>1 DEF Start
<1>2. CASE TransportLost   BY Zenon, <1>2 DEF TransportLost
<1>3. CASE TransportUp     BY Zenon, <1>3 DEF TransportUp
<1>4. CASE UserReloads     BY Zenon, <1>4 DEF UserReloads, LoadPage
<1>5. CASE RejoinConnects  BY Zenon, <1>5 DEF RejoinConnects
<1>6. CASE PacketArrives   BY Zenon, <1>6 DEF PacketArrives, Arrival
<1>7. CASE EngineReads     BY Zenon, <1>7 DEF EngineReads
<1>8. CASE Hide            BY Zenon, <1>8 DEF Hide
<1>9. CASE Show            BY Zenon, <1>9 DEF Show
<1>10. CASE WatchdogReturns BY Zenon, <1>10 DEF WatchdogReturns
<1>11. CASE BacklogRejoin  BY Zenon, <1>11 DEF BacklogRejoin, Checked
<1>12. CASE StreamFlows    BY Zenon, <1>12 DEF StreamFlows, Checked
<1>13. CASE StallRejoin    BY Zenon, <1>13 DEF StallRejoin, Checked
<1>14. CASE StallReloads   BY Zenon, <1>14 DEF StallReloads, LoadPage
<1>15. CASE StallForces    BY Zenon, <1>15 DEF StallForces, Checked
<1> QED BY <1>1, <1>2, <1>3, <1>4, <1>5, <1>6, <1>7, <1>8, <1>9, <1>10, <1>11,
           <1>12, <1>13, <1>14, <1>15 DEF Next, WatchdogActs

\* Packets, the engine and the tab: a packet that arrives in a watched tab
\* raises the backlog and the count of arrivals alike.
LEMMA PageKept ==
    ASSUME Counters, BelowMark,
           \/ Start \/ TransportLost \/ TransportUp \/ UserReloads \/ RejoinConnects
           \/ PacketArrives \/ EngineReads \/ Hide \/ Show
    PROVE  Counters' /\ BelowMark'
<1> USE Bounds DEF Counters, BelowMark, Never, bootVars, Rejoin, Fault, timeVars, bufferVars, rejoinVars
<1>1. CASE Start          BY <1>1 DEF Start
<1>2. CASE TransportLost  BY <1>2 DEF TransportLost
<1>3. CASE TransportUp    BY <1>3 DEF TransportUp
<1>4. CASE UserReloads    BY <1>4 DEF UserReloads, LoadPage, Never
<1>5. CASE RejoinConnects BY <1>5 DEF RejoinConnects
<1>6. CASE PacketArrives  BY <1>6 DEF PacketArrives, Arrival, Never
<1>7. CASE EngineReads    BY <1>7 DEF EngineReads
<1>8. CASE Hide           BY <1>8 DEF Hide
<1>9. CASE Show           BY <1>9 DEF Show
<1> QED BY <1>1, <1>2, <1>3, <1>4, <1>5, <1>6, <1>7, <1>8, <1>9

\* The interval: after a check the backlog is below the mark, because a higher
\* one is thrown away by rejoin(), or is not there if one is in flight already.
LEMMA WatchdogKept ==
    ASSUME Counters, BelowMark, WatchdogReturns \/ WatchdogActs
    PROVE  Counters' /\ BelowMark'
<1> USE Bounds, Ranges DEF Counters, BelowMark, Never, Elapsed, bootVars, Rejoin, Tick, HighBacklog, timeVars, bufferVars, rejoinVars
<1>1. CASE WatchdogReturns
  <2>1. ticked' = rejoinInFlight' /\ watched' = watched /\ hidden' = hidden /\ backlog' = backlog
    BY Zenon, <1>1 DEF WatchdogReturns
  <2>2. Counters'
    BY <1>1 DEF WatchdogReturns, Never
  <2>3. ~watched
    BY <1>1 DEF WatchdogReturns
  <2> QED BY <2>1, <2>2, <2>3
<1>2. CASE BacklogRejoin   BY <1>2 DEF BacklogRejoin, Check, Checked
<1>3. CASE StreamFlows     BY <1>3 DEF StreamFlows, Check, Checked
<1>4. CASE StallRejoin     BY <1>4 DEF StallRejoin, Stalled, Check, Checked
<1>5. CASE StallReloads    BY <1>5 DEF StallReloads, LoadPage, Never
<1>6. CASE StallForces     BY <1>6 DEF StallForces, Stalled, Check, Checked
<1> QED BY <1>1, <1>2, <1>3, <1>4, <1>5, <1>6 DEF WatchdogActs

\* The two are an invariant of the page.
LEMMA SpectatorInductive == Spec => []SpectatorInd
<1>1. Init => SpectatorInd
  <2>1. Init => Flags
    BY Zenon DEF Init, Flags
  <2>2. Init => Counters /\ BelowMark
    BY Bounds DEF Init, Counters, BelowMark, Never
  <2> QED BY <2>1, <2>2 DEF SpectatorInd
<1>2. SpectatorInd /\ [Next]_vars => SpectatorInd'
  <2>1. ASSUME SpectatorInd, Next PROVE SpectatorInd'
    BY <2>1, FlagsKept, PageKept, WatchdogKept DEF Next, SpectatorInd
  <2>2. ASSUME SpectatorInd, UNCHANGED vars PROVE SpectatorInd'
    BY <2>2 DEF vars, timeVars, bufferVars, bootVars, rejoinVars, SpectatorInd, Flags, Counters, BelowMark
  <2> QED BY <2>1, <2>2
<1> QED BY <1>1, <1>2, PTL DEF Spec

-----------------------------------------------------------------------------
\* The variables of the page keep their types: in particular stallCount stays
\* in its range and the buffer within its capacity.
THEOREM SpectatorTypeCorrect == Spec => []TypeOK
<1>1. SpectatorInd => TypeOK
  BY TypesMeanTypeOK DEF SpectatorInd
<1> QED BY <1>1, SpectatorInductive, PTL

\* "main.ts should rejoin before this ever happens" (webrtc.ts:69): no packet is
\* dropped in a watched tab, whatever the capacity, the mark and the thresholds,
\* if what arrives within an interval fits above the mark, and is less than the mark.
THEOREM WatchedTabDropsNothing == Spec => NoDropWhileWatched
<1>1. SpectatorInd /\ [Next]_vars
        => [watched /\ PacketArrives => backlog < Capacity]_vars
  <2> SUFFICES ASSUME SpectatorInd, watched, PacketArrives
               PROVE  backlog < Capacity
    OBVIOUS
  <2> QED BY Bounds DEF SpectatorInd, Counters, BelowMark, PacketArrives
<1> QED BY <1>1, SpectatorInductive, PTL DEF Spec, NoDropWhileWatched
=============================================================================
