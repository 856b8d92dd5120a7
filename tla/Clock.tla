-------------------------------- MODULE Clock --------------------------------
(***************************************************************************)
(* The clock tree, and the peripherals that depend on it (clock.c,         *)
(* periph.c), as main and change_state use them.  A function of the code   *)
(* is here the sequence of the HAL calls it makes; each call is a step,    *)
(* and each may fail, having taken effect or not.  A failed call ends its  *)
(* function, in the initialisation of a peripheral by Error_Handler, which *)
(* hangs until the watchdog bites, if it was started.                      *)
(*                                                                         *)
(* Frequencies are in MHz.  The system clock is MSI, of 2, 4 (at reset) or *)
(* 8 MHz, or the PLL on HSI, of 80 MHz.                                    *)
(***************************************************************************)
EXTENDS Integers, Sequences

CONSTANTS BootStates,  \* the states that flash may hold at first
          MaxFailures, \* calls that fail
          MaxResets    \* resets that no failure causes

States == {"NM", "SSM", "SM"}

ASSUME StatesAssumption == BootStates \subseteq States
ASSUME BoundsAssumption == MaxFailures \in Nat /\ MaxResets \in Nat

VARIABLES
    phase,     \* "reset", "config", "init", "idle", "switch", "reconfigure" or "halt"
    calls,     \* the HAL calls that the running function has left
    goal,      \* the frequency it is for
    next,      \* the state that change_state enters
    state,     \* *currentState
    saved,     \* the state in flash
    current,   \* current_freq
    hw,        \* the registers of RCC, PWR and FLASH
    setFor,    \* the system clock each peripheral is set for
    watchdog,  \* IWDG runs
    stale,     \* history: a switch failed since reset, and none succeeded after it
    failures, resets   \* counters of the bounds

software == <<phase, calls, goal, next, state, saved, current, watchdog, stale, resets>>
vars == <<software, hw, setFor, failures>>

-----------------------------------------------------------------------------
(* Frequencies and programs *)

FreqFor(s) == IF s = "SSM" THEN 8 ELSE IF s = "SM" THEN 2 ELSE 80

Msi(freq) == IF freq = 8 THEN 8 ELSE 2      \* RCC_MSIRANGE_7 or RCC_MSIRANGE_5
Latency(freq) == IF freq = 8 THEN 1 ELSE 0

SysClock == IF hw.source = "PLL" THEN 80 ELSE hw.msi

ConfigCalls(freq) ==
    CASE freq = 80 -> <<"Range1", "StartPll", "UsePll">>
      [] freq = 8 -> <<"Range2", "StartMsi", "UseMsi">>
      [] freq = 2 -> <<"Range2", "StartMsi", "UseMsi", "EnterLpr">>

\* Wrong variant: the voltage is lowered before the frequency.
SwitchCallsLowerFirst(freq) ==
    CASE freq = 80 -> <<"LeaveLpr", "Range1", "StartPll", "UsePll", "StopMsi">>
      [] freq = 8 -> <<"LeaveLpr", "Range2", "StartMsi", "UseMsi", "StopPll">>
      [] freq = 2 -> <<"LeaveLpr", "Range2", "StartMsi", "UseMsi", "StopPll", "EnterLpr">>

\* switch_to_hsi and switch_to_msi.  LPR is left only when it is on.
SwitchCalls(freq) ==
    LET program ==
          CASE freq = 80 -> <<"LeaveLpr", "Range1", "StartPll", "UsePll", "StopMsi">>
            [] freq = 8 -> <<"LeaveLpr", "StartMsi", "UseMsi", "StopPll", "Range2">>
            [] freq = 2 -> <<"LeaveLpr", "StartMsi", "UseMsi", "StopPll", "Range2", "EnterLpr">>
    IN  IF hw.lpr THEN program ELSE Tail(program)

InitCalls == <<"tim5", "tim2", "spi2", "iwdg", "uart4", "rtc", "adc1">>

\* Wrong variant: the UART keeps the divider of the clock before.
ReconfigureCallsNoUart == <<"tim5", "spi2", "adc1">>

ReconfigureCalls == <<"tim5", "uart4", "spi2", "adc1">>

\* What depends on the frequency: the microsecond timer, two bus clocks and the baud rate.
Peripherals == {"tim5", "spi2", "adc1", "uart4"}

-----------------------------------------------------------------------------
(* Reset *)

ResetRegisters ==
    [source |-> "MSI", msi |-> 4, msiOn |-> TRUE, pllOn |-> FALSE,
     range |-> 1, lpr |-> FALSE, latency |-> 0]

Init ==
    /\ phase = "reset" /\ calls = <<>> /\ goal = 80
    /\ saved \in BootStates /\ state = saved /\ next = saved
    /\ current = 80 /\ hw = ResetRegisters /\ setFor = [p \in Peripherals |-> 0]
    /\ watchdog = FALSE /\ stale = FALSE /\ failures = 0 /\ resets = 0

Restart ==
    /\ phase' = "reset" /\ calls' = <<>> /\ goal' = 80 /\ state' = saved /\ next' = saved
    /\ current' = 80 /\ hw' = ResetRegisters /\ setFor' = [p \in Peripherals |-> 0]
    /\ watchdog' = FALSE /\ stale' = FALSE /\ UNCHANGED <<saved, failures>>

\* The watchdog ends the loop of Error_Handler, if it was started before.
Bite == phase = "halt" /\ watchdog /\ Restart /\ UNCHANGED resets

\* Power is lost, or the watchdog bites for another reason.
Reset == phase # "reset" /\ resets < MaxResets /\ resets' = resets + 1 /\ Restart

\* main: the state that flash holds, and systemclock_init_for_freq.
Main ==
    /\ phase = "reset" /\ phase' = "config"
    /\ goal' = FreqFor(saved) /\ calls' = ConfigCalls(goal')
    /\ UNCHANGED <<next, state, saved, current, hw, setFor, watchdog, stale, failures, resets>>

-----------------------------------------------------------------------------
(* The calls on the clock tree: what each does when it takes effect *)

\* RCC_SetFlashLatencyFromMSIRange, when the range of the MSI in use is changed.
MsiLatency == IF hw.range = 2 /\ Msi(goal) = 8 THEN 1 ELSE 0

Effect(call) ==
    CASE call = "LeaveLpr" -> [hw EXCEPT !.lpr = FALSE]
      [] call = "EnterLpr" -> [hw EXCEPT !.lpr = TRUE]
      [] call = "Range1" -> [hw EXCEPT !.range = 1]
      [] call = "Range2" -> [hw EXCEPT !.range = 2]
      [] call = "StartPll" -> [hw EXCEPT !.pllOn = TRUE]
      [] call = "StopPll" -> [hw EXCEPT !.pllOn = FALSE]
      [] call = "StopMsi" -> [hw EXCEPT !.msiOn = FALSE]
      [] call = "StartMsi" -> [hw EXCEPT !.msiOn = TRUE, !.msi = Msi(goal),
                                         !.latency = IF hw.source = "MSI" THEN MsiLatency ELSE @]
      [] call = "UsePll" -> [hw EXCEPT !.source = "PLL", !.latency = 4]
      [] call = "UseMsi" -> [hw EXCEPT !.source = "MSI", !.latency = Latency(goal)]

\* What a call that fails may leave: all of its effect, none of it, or the part that it
\* makes first, the wait states that a higher frequency needs or the oscillator in its old
\* range.  The regulator is always set, and its range 2 is not waited for.
Partial(call) ==
    CASE call = "Range1" -> {Effect(call)}
      [] call = "UsePll" -> {hw, Effect(call), [hw EXCEPT !.latency = 4]}
      [] call = "UseMsi" ->
            {hw, Effect(call), [hw EXCEPT !.source = "MSI"]}
            \union {[hw EXCEPT !.latency = l] : l \in {Latency(goal)} \cap {n \in 0..4 : n > hw.latency}}
      [] call = "StartMsi" ->
            {hw, Effect(call), [hw EXCEPT !.msiOn = TRUE]}
            \union (IF hw.source # "MSI" THEN {}
                    ELSE IF Msi(goal) > hw.msi THEN {[hw EXCEPT !.latency = MsiLatency]}
                    ELSE {[hw EXCEPT !.msi = Msi(goal)]})
      [] OTHER -> {hw, Effect(call)}

\* HAL_RCC_ClockConfig does not select an oscillator that is off.
Possible(call) == /\ call = "UsePll" => hw.pllOn
                  /\ call = "UseMsi" => hw.msiOn

Ignored == {"StopPll", "StopMsi"}       \* calls whose result is not looked at
NeverFails == {"Range2", "EnterLpr"}

ClockCall ==
    /\ phase \in {"config", "switch"} /\ calls # <<>> /\ Possible(Head(calls))
    /\ hw' = Effect(Head(calls)) /\ calls' = Tail(calls)
    /\ UNCHANGED <<phase, goal, next, state, saved, current, setFor, watchdog, stale,
                   failures, resets>>

\* A call fails that must not: main hangs, clock_switch_to_freq returns false, which
\* change_state does not look at.
FailFunction ==
    IF phase = "config" THEN phase' = "halt" /\ calls' = <<>> /\ UNCHANGED stale
    ELSE phase' = "reconfigure" /\ calls' = ReconfigureCalls /\ stale' = TRUE

ClockFailure ==
    /\ phase \in {"config", "switch"} /\ calls # <<>> /\ Head(calls) \notin NeverFails
    /\ failures < MaxFailures /\ failures' = failures + 1
    /\ hw' \in Partial(Head(calls))
    /\ IF Head(calls) \in Ignored
       THEN calls' = Tail(calls) /\ UNCHANGED <<phase, stale>> ELSE FailFunction
    /\ UNCHANGED <<goal, next, state, saved, current, setFor, watchdog, resets>>

-----------------------------------------------------------------------------
(* Peripherals *)

\* systemclock_init_for_freq succeeds.
Configured ==
    /\ phase = "config" /\ calls = <<>>
    /\ current' = goal /\ phase' = "init" /\ calls' = InitCalls
    /\ UNCHANGED <<goal, next, state, saved, hw, setFor, watchdog, stale, failures, resets>>

\* The prescalers are chosen for the frequency asked for, the divider of the UART by the HAL
\* for the system clock there is.
PeripheralCall ==
    /\ phase \in {"init", "reconfigure"} /\ calls # <<>> /\ calls' = Tail(calls)
    /\ setFor' = [p \in Peripherals |->
                    IF p # Head(calls) THEN setFor[p] ELSE IF p = "uart4" THEN SysClock ELSE goal]
    /\ watchdog' = (watchdog \/ Head(calls) = "iwdg")
    /\ UNCHANGED <<phase, goal, next, state, saved, current, hw, stale, failures, resets>>

\* The prescaler of TIM5 is a register: writing it cannot fail.
PeripheralFailure ==
    /\ phase \in {"init", "reconfigure"} /\ calls # <<>>
    /\ phase = "reconfigure" => Head(calls) # "tim5"
    /\ failures < MaxFailures /\ failures' = failures + 1
    /\ phase' = "halt" /\ calls' = <<>>
    /\ UNCHANGED <<goal, next, state, saved, current, hw, setFor, watchdog, stale, resets>>

Initialised ==
    /\ phase = "init" /\ calls = <<>> /\ phase' = "idle"
    /\ UNCHANGED <<calls, goal, next, state, saved, current, hw, setFor, watchdog, stale,
                   failures, resets>>

-----------------------------------------------------------------------------
(* change_state *)

ChangeState(s) ==
    /\ phase = "idle" /\ next' = s
    /\ IF FreqFor(s) # current
       THEN /\ phase' = "switch" /\ goal' = FreqFor(s) /\ calls' = SwitchCalls(FreqFor(s))
            /\ UNCHANGED <<state, saved>>
       ELSE state' = s /\ saved' = s /\ UNCHANGED <<phase, goal, calls>>
    /\ UNCHANGED <<current, hw, setFor, watchdog, stale, failures, resets>>

Switched ==
    /\ phase = "switch" /\ calls = <<>>
    /\ current' = goal /\ stale' = FALSE
    /\ phase' = "reconfigure" /\ calls' = ReconfigureCalls
    /\ UNCHANGED <<goal, next, state, saved, hw, setFor, watchdog, failures, resets>>

Reconfigured ==
    /\ phase = "reconfigure" /\ calls = <<>>
    /\ phase' = "idle" /\ state' = next /\ saved' = next
    /\ UNCHANGED <<calls, goal, next, current, hw, setFor, watchdog, stale, failures, resets>>

-----------------------------------------------------------------------------

\* main hung in Error_Handler before the watchdog was started.
Dead == phase = "halt" /\ ~watchdog /\ UNCHANGED vars

Next == \/ Main \/ ClockCall \/ ClockFailure \/ Configured \/ PeripheralCall
        \/ PeripheralFailure \/ Initialised \/ Switched \/ Reconfigured
        \/ (\E s \in States : ChangeState(s)) \/ Bite \/ Reset \/ Dead

Spec == Init /\ [][Next]_vars

-----------------------------------------------------------------------------
(* Properties *)

\* The wait states that the flash needs at a frequency, by voltage range.
WaitStates(f, range) == IF range = 1 THEN (IF f <= 16 THEN 0 ELSE IF f <= 32 THEN 1 ELSE 4)
                        ELSE (IF f <= 6 THEN 0 ELSE IF f <= 12 THEN 1 ELSE 4)

\* Whatever call fails, and wherever, the processor never runs faster than the voltage, the
\* low-power regulator or the wait states of the flash allow, nor on an oscillator that is off.
SafeClock ==
    /\ hw.range = 2 => SysClock <= 26
    /\ hw.lpr => SysClock <= 2
    /\ hw.latency >= WaitStates(SysClock, hw.range)
    /\ IF hw.source = "PLL" THEN hw.pllOn ELSE hw.msiOn

\* At rest, unless a switch failed and none has succeeded since, the system clock is the one
\* that current_freq names, the one of the state of the OBC, and the one that every
\* peripheral is set for: a later switch repairs what a failed one left behind.
ClockAgrees ==
    phase = "idle" /\ ~stale =>
        /\ SysClock = current /\ current = FreqFor(state)
        /\ \A p \in Peripherals : setFor[p] = SysClock

=============================================================================
