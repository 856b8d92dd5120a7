------------------------------- MODULE RefObc -------------------------------
(***************************************************************************)
(* The OBC of the reference firmware (reference/OBC/obc.c, obc_task.c,     *)
(* clock.c): one function per state of the satellite, which sets the       *)
(* clock, suspends or resumes tasks and loops until CURRENT_STATE in flash *)
(* is another.  EPS and COMMS, which write states, set event bits and      *)
(* notify, are modelled from what the OBC expects of them; so is the task  *)
(* that calls these functions.                                             *)
(***************************************************************************)
EXTENDS Integers, Sequences

CONSTANT MaxChanges  \* bound: states written by EPS, and commands COMMS processes

ASSUME ChangesAssumption == MaxChanges \in Nat

VARIABLES
    current, previous,  \* CURRENT_STATE_ADDR and PREVIOUS_STATE_ADDR
    deployed,           \* ANTENNA_DEPLOYED_ADDR
    writes,             \* states the OBC has queued for FLASH
    function, line,     \* where the OBC is
    eventBits,          \* its copy of the event group
    ongoing,            \* telecommand_process
    bits, noti,         \* the event group; its notifications
    suspended,          \* tasks
    freq, latency,      \* HCLK in MHz, wait states of the flash memory
    lowPower,           \* low-power run mode
    changes             \* counter of the bound

world == <<current, previous, writes, bits, noti, changes>>
loopVars == <<eventBits, ongoing>>
clocks == <<freq, latency, lowPower>>
ovars == <<world, deployed, function, line, loopVars, suspended, clocks>>

States == {"NOMINAL", "CONTINGENCY", "SUNSAFE", "SURVIVAL"}
Tasks == {"ADCS", "PAYLOAD", "COMMS"}
CommsBits == {"RXIRQ", "RXNOTI", "TELECOMMAND", "WRONGPACKET"}

\* The thresholds of EPS take the state one level at a time.
Level == [s \in States |-> CASE s = "NOMINAL" -> 4 [] s = "CONTINGENCY" -> 3
                             [] s = "SUNSAFE" -> 2 [] s = "SURVIVAL" -> 1]
Neighbour(s, t) == Level[s] - Level[t] \in {1, -1}

ObcInit ==
    /\ current \in States /\ previous \in States
    /\ deployed \in BOOLEAN /\ writes = <<>>
    /\ function = "OBC_Init" /\ line = "entry" /\ eventBits = {} /\ ongoing = FALSE
    /\ bits = {} /\ noti = {} /\ suspended = {}
    /\ freq = 4 /\ latency = 0 /\ lowPower = FALSE /\ changes = 0

-----------------------------------------------------------------------------
(* The other tasks *)

EpsChangesState ==
    /\ changes < MaxChanges /\ changes' = changes + 1
    /\ \E s \in States : Neighbour(current, s) /\ current' = s /\ previous' = current
    /\ UNCHANGED <<writes, bits, noti, deployed, function, line, loopVars, suspended, clocks>>

FlashWrites ==
    /\ writes # <<>> /\ current' = Head(writes) /\ writes' = Tail(writes)
    /\ UNCHANGED <<previous, bits, noti, changes, deployed, function, line, loopVars, suspended, clocks>>

\* COMMS has a packet; later it has processed it, and may have asked to leave a state, or it
\* has found that the packet is not for this satellite.
CommsSignals ==
    /\ "COMMS" \notin suspended
    /\ \/ /\ changes < MaxChanges /\ changes' = changes + 1
          /\ bits' = bits \union {"RXIRQ"} /\ UNCHANGED noti
       \/ /\ "RXIRQ" \in bits /\ bits \intersect {"TELECOMMAND", "WRONGPACKET"} = {}
          /\ \/ bits' = bits \union {"TELECOMMAND"}
                /\ noti' \in {noti} \union {noti \union {n} : n \in States \ {"NOMINAL"}}
             \/ bits' = bits \union {"WRONGPACKET"} /\ UNCHANGED noti
          /\ UNCHANGED changes
    /\ UNCHANGED <<current, previous, writes, deployed, function, line, loopVars, suspended, clocks>>

-----------------------------------------------------------------------------
(* Clock_80MHz, Clock_26MHz, Clock_8MHz and Clock_2MHz *)

\* The PLL takes the 16 MHz HSI: over 1, times N, over R; the ranges 5 and 7 of the MSI.
Frequency == [s \in States |-> CASE s = "NOMINAL" -> (16 * 10) \div 2
                                 [] s = "CONTINGENCY" -> (16 * 13) \div 8
                                 [] s = "SUNSAFE" -> 8
                                 [] s = "SURVIVAL" -> 2]
FlashLatency == [s \in States |-> CASE s = "NOMINAL" -> 4 [] s = "CONTINGENCY" -> 1 [] OTHER -> 0]

\* With the scheduler suspended and interrupts off; Error_Handler does not return.  The clock and
\* the wait states only: Clock_8MHz begins with HAL_DeInit, which resets every peripheral and
\* leaves the clock to the calls after it, where the others begin with HAL_RCC_DeInit.
SetClock(s) == freq' = Frequency[s] /\ latency' = FlashLatency[s]

-----------------------------------------------------------------------------
(* The functions *)

\* OBC_Init: the antenna is deployed if the state is NOMINAL, `deploy', which is a null pointer,
\* is written through, and a byte at address 0 is queued as ANTENNA_DEPLOYED: the low byte of
\* the initial stack pointer, 0.
OBC_Init ==
    /\ function = "OBC_Init" /\ deployed' = FALSE
    /\ function' = current /\ line' = "entry"
    /\ UNCHANGED <<world, loopVars, suspended, clocks>>

\* The clock is set first.
SetUp ==
    /\ function \in States /\ line = "entry" /\ line' = "tasks" /\ SetClock(function)
    /\ UNCHANGED <<world, deployed, function, loopVars, suspended, lowPower>>

\* What the function of a state does before its loop.
Begins(s) == /\ function = s /\ line = "tasks" /\ line' = "wait"
             /\ ongoing' = FALSE /\ eventBits' = {} /\ UNCHANGED <<world, function, freq, latency>>

\* The antennas are deployed unless flash says that they are.
OBC_Nominal == Begins("NOMINAL") /\ deployed' = TRUE /\ UNCHANGED <<suspended, lowPower>>

OBC_Contingency ==
    /\ Begins("CONTINGENCY") /\ UNCHANGED <<deployed, lowPower>>
    /\ suspended' = IF previous = "SUNSAFE" THEN suspended \ {"ADCS", "PAYLOAD"} ELSE suspended

OBC_Sunsafe ==
    /\ Begins("SUNSAFE") /\ UNCHANGED <<deployed, lowPower>>
    /\ suspended' = IF previous = "CONTINGENCY" THEN suspended \union {"ADCS", "PAYLOAD"} ELSE suspended

\* HAL_PWREx_EnableLowPowerRunMode
OBC_Survival ==
    /\ Begins("SURVIVAL") /\ lowPower' = TRUE /\ UNCHANGED deployed
    /\ suspended' = IF previous = "SUNSAFE" THEN suspended \union {"COMMS"} ELSE suspended

\* After the sleep of SUNSAFE: up to half a second for a packet, unless a command is in progress.
WaitForPacket ==
    /\ function \in States \ {"SURVIVAL"} /\ line = "wait"
    /\ eventBits' = (IF ongoing THEN eventBits ELSE bits)
    /\ line' = IF eventBits' \intersect {"RXIRQ", "RXNOTI"} # {} THEN "command" ELSE "check"
    /\ UNCHANGED <<world, deployed, function, ongoing, suspended, clocks>>

\* OBC_COMMS_RXFlags: a state is queued for each notification, in this order.
RXFlags ==
    LET ask(n, s) == IF n \in noti THEN <<s>> ELSE <<>>
    IN  /\ writes' = writes \o ask("CONTINGENCY", "NOMINAL") \o ask("SUNSAFE", "CONTINGENCY")
                            \o ask("SURVIVAL", "SURVIVAL")
        /\ noti' = {}

\* Wrong variant: while a command is in progress the loop does not look at the state.
WaitForCommandBlocks ==
    /\ line = "command" /\ eventBits' = bits
    /\ IF "TELECOMMAND" \in bits
       THEN RXFlags /\ bits' = bits \ {"RXIRQ", "TELECOMMAND", "WRONGPACKET"} /\ ongoing' = FALSE /\ line' = "check"
       ELSE UNCHANGED <<writes, noti, bits, line>> /\ ongoing' = TRUE
    /\ UNCHANGED <<current, previous, changes, deployed, function, suspended, clocks>>

\* Up to 15 s for the command.  After WRONGPACKET nothing is cleared.
WaitForCommand ==
    /\ line = "command" /\ line' = "check" /\ eventBits' = bits
    /\ IF "TELECOMMAND" \in bits
       THEN RXFlags /\ bits' = bits \ {"RXIRQ", "TELECOMMAND", "WRONGPACKET"} /\ ongoing' = FALSE
       ELSE /\ UNCHANGED <<writes, noti, bits>>
            /\ ongoing' = (ongoing \/ "WRONGPACKET" \notin bits)
    /\ UNCHANGED <<current, previous, changes, deployed, function, suspended, clocks>>

\* Wrong variant: SURVIVAL is left in low-power run mode.
CheckStateStaysLow ==
    /\ function \in States
    /\ \/ line = "check"
       \/ line = "wait" /\ function = "SURVIVAL"
    /\ IF current = function THEN line' = "wait" /\ UNCHANGED function
       ELSE line' = "entry" /\ function' = current
    /\ UNCHANGED <<world, deployed, loopVars, suspended, clocks>>

\* ADCS and EPS are notified and the state is read: the loop ends when it is another.
CheckState ==
    /\ function \in States
    /\ \/ line = "check"
       \/ line = "wait" /\ function = "SURVIVAL"
    /\ IF current = function THEN line' = "wait" /\ UNCHANGED <<function, lowPower>>
       ELSE /\ line' = "entry" /\ function' = current
            /\ lowPower' = (lowPower /\ function # "SURVIVAL")
    /\ UNCHANGED <<world, deployed, loopVars, suspended, freq, latency>>

-----------------------------------------------------------------------------

Obc == \/ OBC_Init \/ SetUp \/ OBC_Nominal \/ OBC_Contingency \/ OBC_Sunsafe \/ OBC_Survival
       \/ WaitForPacket \/ WaitForCommand \/ CheckState
ObcNext == Obc \/ EpsChangesState \/ FlashWrites \/ CommsSignals

\* Low-power run mode is on only with a clock of 2 MHz, whichever states follow one another
\* before the OBC looks; and the flash memory always has the wait states the clock needs.
WaitStates(f) == IF f <= 16 THEN 0 ELSE IF f <= 32 THEN 1 ELSE IF f <= 48 THEN 2
                 ELSE IF f <= 64 THEN 3 ELSE 4
ClockIsSafe == (lowPower => freq <= 2) /\ WaitStates(freq) <= latency

\* The OBC follows a state written to flash, at its clock, unless it is replaced, though it may
\* be waiting for COMMS, or for a command that is never processed.
FollowsState ==
    \A s \in States :
        current = s ~> (function = s /\ freq = Frequency[s]) \/ current # s
=============================================================================
